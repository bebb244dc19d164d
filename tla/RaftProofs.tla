----------------------------- MODULE RaftProofs -----------------------------
(***************************************************************************)
(* Theorems about module Raft, for every cluster, set of commands and bound. *)
(***************************************************************************)
EXTENDS Raft, FiniteSetTheorems, TLAPS

-----------------------------------------------------------------------------
(* Type correctness                                                        *)

LEMMA TermAtType ==
  ASSUME NEW lg \in Seq(Entry), NEW k \in Int
  PROVE  TermAt(lg, k) \in Nat
<1>1. CASE k \in DOMAIN lg
  <2>1. lg[k] \in Entry
    BY <1>1
  <2> QED
    BY <1>1, <2>1 DEF TermAt, Entry
<1>2. CASE k \notin DOMAIN lg
  BY <1>2 DEF TermAt
<1> QED
  BY <1>1, <1>2

\* The requests a leader builds are well formed.
LEMMA AppendForType ==
  ASSUME NEW i \in Server, NEW j \in Server, NEW term \in Nat,
         NEW lg \in Seq(Entry), NEW next \in Nat \ {0}, NEW commit \in Nat
  PROVE  AppendFor(i, j, term, lg, next, commit) \in AppendEntriesRequest
<1>1. TermAt(lg, next - 1) \in Nat
  BY TermAtType
<1>2. SubSeq(lg, next, Len(lg)) \in Seq(Entry)
  OBVIOUS
<1>3. next - 1 \in Nat
  OBVIOUS
<1> QED
  BY <1>1, <1>2, <1>3 DEF AppendFor, AppendEntriesRequest

LEMMA BroadcastAppendType ==
  ASSUME NEW i \in Server, NEW term \in Nat, NEW lg \in Seq(Entry),
         NEW next \in [Server -> Nat \ {0}], NEW commit \in Nat
  PROVE  BroadcastAppend(i, term, lg, next, commit) \subseteq AppendEntriesRequest
<1> SUFFICES ASSUME NEW j \in Peers(i)
             PROVE  AppendFor(i, j, term, lg, next[j], commit) \in AppendEntriesRequest
  BY DEF BroadcastAppend
<1> j \in Server /\ next[j] \in Nat \ {0}
  BY DEF Peers
<1> QED
  BY AppendForType

\* A merged log is a log, and it keeps at least what IsKept says.
LEMMA MergedLogType ==
  ASSUME TypeOK, NEW i \in Server, NEW m \in AppendEntriesRequest,
         PreviousMatches(i, m), NEW kept \in 0 .. Len(log[i]), IsKept(i, m, kept)
  PROVE  /\ MergedLog(i, m, kept) \in Seq(Entry)
         /\ Len(MergedLog(i, m, kept)) = Larger(kept, LastSent(m))
<1>1. m.prevLogIndex \in Nat /\ m.entries \in Seq(Entry) /\ LastSent(m) \in Nat
  BY DEF AppendEntriesRequest, LastSent
<1>2. log[i] \in Seq(Entry)
  BY DEF TypeOK, LogTypeOK
<1>3. m.prevLogIndex <= kept
  BY <1>1, <1>2 DEF PreviousMatches, HasIndex, IsKept, Conflicts
<1>4. Larger(kept, LastSent(m)) \in Nat
  BY <1>1 DEF Larger
<1>5. ASSUME NEW k \in 1 .. Larger(kept, LastSent(m))
      PROVE  MergedLog(i, m, kept)[k] \in Entry
  <2>1. CASE k <= kept
    BY <2>1, <1>2, <1>4 DEF MergedLog
  <2>2. CASE ~(k <= kept)
    <3>1. k - m.prevLogIndex \in 1 .. Len(m.entries)
      BY <2>2, <1>1, <1>3 DEF Larger, LastSent
    <3> QED
      BY <2>2, <3>1, <1>1 DEF MergedLog
  <2> QED
    BY <2>1, <2>2
<1>6. MergedLog(i, m, kept) \in [1 .. Larger(kept, LastSent(m)) -> Entry]
  BY <1>5 DEF MergedLog
<1> QED
  BY <1>4, <1>6

LEMMA BecomeFollowerType ==
  ASSUME MemberTypeOK, NEW i \in Server, NEW term \in Nat,
         NEW leader \in Server \cup {Nil}, BecomeFollower(i, term, leader)
  PROVE  MemberTypeOK'
  BY DEF MemberTypeOK, BecomeFollower, ForgetVotesAndProgress, Role, AllAt

LEMMA ObserveTermType ==
  ASSUME MemberTypeOK, NEW i \in Server, NEW m, m.term \in Nat, ObserveTerm(i, m)
  PROVE  MemberTypeOK'
<1>1. CASE m.term > currentTerm[i]
  BY <1>1, BecomeFollowerType DEF ObserveTerm
<1>2. CASE ~(m.term > currentTerm[i])
  BY <1>2 DEF ObserveTerm, MemberTypeOK, progress
<1> QED
  BY <1>1, <1>2

\* The commit index of a leader moves inside its log.
LEMMA AdvanceLeaderCommitType ==
  ASSUME commitIndex \in [Server -> Nat], NEW i \in Server, NEW term,
         NEW lg \in Seq(Entry), NEW match,
         commitIndex[i] <= Len(lg), AdvanceLeaderCommit(i, term, lg, match)
  PROVE  /\ commitIndex' \in [Server -> Nat]
         /\ commitIndex'[i] \in commitIndex[i] .. Len(lg)
         /\ \A j \in Server : j # i => commitIndex'[j] = commitIndex[j]
<1>1. PICK commit \in {commitIndex[i]} \cup Replicated(i, term, lg, match) :
        /\ commitIndex[i] <= commit
        /\ commitIndex' = [commitIndex EXCEPT ![i] = commit]
  BY DEF AdvanceLeaderCommit
<1>2. commit \in commitIndex[i] .. Len(lg)
  BY <1>1 DEF Replicated
<1> QED
  BY <1>1, <1>2

\* Appending an entry, sending it and committing what can be.
LEMMA AppendLocalType ==
  ASSUME TypeOK, NEW i \in Server, NEW term \in Nat,
         NEW command \in Command \cup {Noop},
         NEW others \in SUBSET RaftMessage,
         nextIndex' \in [Server -> [Server -> Nat \ {0}]],
         AppendLocal(i, term, command, others)
  PROVE  LogTypeOK' /\ MessagesTypeOK'
<1> DEFINE entry == [term |-> term, command |-> command]
<1>1. /\ log' = [log EXCEPT ![i] = Append(@, entry)]
      /\ messages' = messages \cup (others \cup
           BroadcastAppend(i, term, log'[i], nextIndex'[i], commitIndex[i]))
      /\ AdvanceLeaderCommit(i, term, log'[i], matchIndex'[i])
  BY DEF AppendLocal, Send
<1>2. /\ log \in [Server -> Seq(Entry)]
      /\ commitIndex \in [Server -> Nat]
      /\ \A j \in Server : commitIndex[j] <= Len(log[j])
  BY DEF TypeOK, LogTypeOK
<1>3. entry \in Entry
  BY DEF Entry
<1>4. log' \in [Server -> Seq(Entry)] /\ Len(log'[i]) = Len(log[i]) + 1
  BY <1>1, <1>2, <1>3
<1>5. commitIndex[i] <= Len(log'[i])
  BY <1>2, <1>4
<1>6. LogTypeOK'
  <2>1. /\ commitIndex' \in [Server -> Nat]
        /\ commitIndex'[i] \in commitIndex[i] .. Len(log'[i])
        /\ \A j \in Server : j # i => commitIndex'[j] = commitIndex[j]
    BY <1>1, <1>2, <1>4, <1>5, AdvanceLeaderCommitType
  <2>2. ASSUME NEW j \in Server
        PROVE  commitIndex'[j] <= Len(log'[j])
    <3>1. CASE j = i
      BY <3>1, <2>1, <1>4
    <3>2. CASE j # i
      BY <3>2, <2>1, <1>1, <1>2
    <3> QED
      BY <3>1, <3>2
  <2> QED
    BY <2>1, <2>2, <1>4 DEF LogTypeOK
<1>7. BroadcastAppend(i, term, log'[i], nextIndex'[i], commitIndex[i])
        \subseteq AppendEntriesRequest
  BY <1>2, <1>4, BroadcastAppendType
<1>8. MessagesTypeOK'
  BY <1>1, <1>7 DEF TypeOK, MessagesTypeOK, RaftMessage
<1> QED
  BY <1>6, <1>8

LEMMA BecomeLeaderType ==
  ASSUME TypeOK, NEW i \in Server, NEW term \in Nat,
         NEW others \in SUBSET RaftMessage, BecomeLeader(i, term, others),
         currentTerm' \in [Server -> Nat],
         votedFor' \in [Server -> Server \cup {Nil}],
         votes' \in [Server -> SUBSET Server]
  PROVE  TypeOK'
<1>1. /\ role' \in [Server -> Role]
      /\ leaderId' \in [Server -> Server \cup {Nil}]
  BY DEF BecomeLeader, TypeOK, MemberTypeOK, Role, AllAt
<1>2. Len(log[i]) + 1 \in Nat \ {0}
  BY DEF TypeOK, LogTypeOK
<1>3. nextIndex' \in [Server -> [Server -> Nat \ {0}]]
  BY <1>2 DEF BecomeLeader, TypeOK, MemberTypeOK, AllAt
<1>4. matchIndex' \in [Server -> [Server -> Nat]]
  BY DEF BecomeLeader, TypeOK, MemberTypeOK, AllAt
<1>5. LogTypeOK' /\ MessagesTypeOK'
  BY <1>3, AppendLocalType DEF BecomeLeader, AllAt
<1> QED
  BY <1>1, <1>3, <1>4, <1>5 DEF TypeOK, MemberTypeOK

\* The fields of the four kinds of messages.
LEMMA RaftMessageFields ==
  ASSUME NEW m \in RaftMessage
  PROVE  /\ m.from \in Server /\ m.to \in Server /\ m.term \in Nat
         /\ m.type = "request-vote-request" => m \in RequestVoteRequest
         /\ m.type = "request-vote-response" => m \in RequestVoteResponse
         /\ m.type = "append-entries-request" => m \in AppendEntriesRequest
         /\ m.type = "append-entries-response" => m \in AppendEntriesResponse
  BY DEF RaftMessage, RequestVoteRequest, RequestVoteResponse, AppendEntriesRequest,
         AppendEntriesResponse

LEMMA MessageFields ==
  ASSUME MessagesTypeOK, NEW m \in messages
  PROVE  /\ m.from \in Server /\ m.to \in Server /\ m.term \in Nat
         /\ m.type = "request-vote-request" => m \in RequestVoteRequest
         /\ m.type = "request-vote-response" => m \in RequestVoteResponse
         /\ m.type = "append-entries-request" => m \in AppendEntriesRequest
         /\ m.type = "append-entries-response" => m \in AppendEntriesResponse
  BY RaftMessageFields DEF MessagesTypeOK

LEMMA VoteRequestsType ==
  ASSUME LogTypeOK, NEW i \in Server, NEW term \in Nat
  PROVE  VoteRequests(i, term) \subseteq RequestVoteRequest
<1> SUFFICES ASSUME NEW j \in Peers(i)
             PROVE  [type |-> "request-vote-request", from |-> i, to |-> j,
                     term |-> term, lastLogIndex |-> Len(log[i]),
                     lastLogTerm |-> TermAt(log[i], Len(log[i]))]
                       \in RequestVoteRequest
  BY DEF VoteRequests
<1>1. j \in Server
  BY DEF Peers
<1>2. log[i] \in Seq(Entry) /\ Len(log[i]) \in Nat
  BY DEF LogTypeOK
<1>3. TermAt(log[i], Len(log[i])) \in Nat
  BY <1>2, TermAtType
<1> QED
  BY <1>1, <1>2, <1>3 DEF RequestVoteRequest

LEMMA VoteReplyType ==
  ASSUME NEW i \in Server, NEW m, m.from \in Server, NEW term \in Nat,
         NEW granted \in BOOLEAN
  PROVE  VoteReply(i, m, term, granted) \in RequestVoteResponse
  BY DEF VoteReply, RequestVoteResponse

LEMMA AppendReplyType ==
  ASSUME NEW i \in Server, NEW m, m.from \in Server, NEW term \in Nat,
         NEW success \in BOOLEAN, NEW match \in Nat, NEW hint \in Nat
  PROVE  AppendReply(i, m, term, success, match, hint) \in AppendEntriesResponse
  BY DEF AppendReply, AppendEntriesResponse

\* A set of well-formed messages may be sent.
LEMMA SendType ==
  ASSUME MessagesTypeOK, NEW ms \in SUBSET RaftMessage, Send(ms)
  PROVE  MessagesTypeOK'
  BY DEF MessagesTypeOK, Send

LEMMA MessageKinds ==
  /\ RequestVoteRequest \subseteq RaftMessage
  /\ RequestVoteResponse \subseteq RaftMessage
  /\ AppendEntriesRequest \subseteq RaftMessage
  /\ AppendEntriesResponse \subseteq RaftMessage
  BY DEF RaftMessage

LEMMA ElectionTimeoutType ==
  ASSUME TypeOK, NEW i \in Server, ElectionTimeout(i)
  PROVE  TypeOK'
<1> DEFINE term == currentTerm[i] + 1
<1>1. term \in Nat
  BY DEF TypeOK, MemberTypeOK
<1>2. /\ currentTerm' \in [Server -> Nat]
      /\ votedFor' \in [Server -> Server \cup {Nil}]
      /\ votes' \in [Server -> SUBSET Server]
  BY DEF ElectionTimeout, TypeOK, MemberTypeOK
<1>3. VoteRequests(i, term) \in SUBSET RaftMessage
  BY <1>1, VoteRequestsType, MessageKinds DEF TypeOK
<1>4. CASE BecomeLeader(i, term, VoteRequests(i, term))
  BY <1>1, <1>2, <1>3, <1>4, BecomeLeaderType
<1>5. CASE /\ role' = [role EXCEPT ![i] = "candidate"]
           /\ leaderId' = [leaderId EXCEPT ![i] = Nil]
           /\ Send(VoteRequests(i, term))
           /\ UNCHANGED <<commitIndex, log, progress>>
  <2>1. MemberTypeOK'
    BY <1>2, <1>5 DEF TypeOK, MemberTypeOK, progress, Role
  <2>2. LogTypeOK'
    BY <1>5 DEF TypeOK, LogTypeOK
  <2>3. MessagesTypeOK'
    BY <1>3, <1>5, SendType DEF TypeOK
  <2> QED
    BY <2>1, <2>2, <2>3 DEF TypeOK
<1> QED
  BY <1>4, <1>5 DEF ElectionTimeout

LEMMA HeartbeatTimeoutType ==
  ASSUME TypeOK, NEW i \in Server, HeartbeatTimeout(i)
  PROVE  TypeOK'
<1>1. /\ currentTerm[i] \in Nat /\ log[i] \in Seq(Entry) /\ commitIndex[i] \in Nat
      /\ nextIndex[i] \in [Server -> Nat \ {0}]
  BY DEF TypeOK, MemberTypeOK, LogTypeOK
<1>2. BroadcastAppend(i, currentTerm[i], log[i], nextIndex[i], commitIndex[i])
        \in SUBSET RaftMessage
  BY <1>1, BroadcastAppendType, MessageKinds
<1>3. MessagesTypeOK'
  BY <1>2, SendType DEF HeartbeatTimeout, TypeOK
<1>4. MemberTypeOK' /\ LogTypeOK'
  BY DEF HeartbeatTimeout, TypeOK, MemberTypeOK, LogTypeOK, hardState, progress
<1> QED
  BY <1>3, <1>4 DEF TypeOK

LEMMA ProposeType ==
  ASSUME TypeOK, NEW i \in Server, NEW command \in Command, Propose(i, command)
  PROVE  TypeOK'
<1>1. MemberTypeOK'
  BY DEF Propose, TypeOK, MemberTypeOK, progress
<1>2. /\ currentTerm[i] \in Nat
      /\ nextIndex' \in [Server -> [Server -> Nat \ {0}]]
      /\ AppendLocal(i, currentTerm[i], command, {})
  BY <1>1 DEF Propose, TypeOK, MemberTypeOK
<1>3. LogTypeOK' /\ MessagesTypeOK'
  BY <1>2, AppendLocalType
<1> QED
  BY <1>1, <1>3 DEF TypeOK

LEMMA RestartType ==
  ASSUME TypeOK, NEW i \in Server, Restart(i)
  PROVE  TypeOK'
<1>1. MemberTypeOK'
  BY DEF Restart, ForgetVotesAndProgress, TypeOK, MemberTypeOK, hardState, Role, AllAt
<1>2. LogTypeOK' /\ MessagesTypeOK'
  BY DEF Restart, TypeOK, LogTypeOK, MessagesTypeOK, hardState
<1> QED
  BY <1>1, <1>2 DEF TypeOK

LEMMA GrantVoteType ==
  ASSUME TypeOK, NEW i \in Server, NEW m \in RaftMessage, GrantVote(i, m)
  PROVE  TypeOK'
<1>1. m.from \in Server /\ m.term \in Nat
  BY RaftMessageFields
<1>2. MemberTypeOK'
  <2>1. /\ currentTerm' \in [Server -> Nat]
        /\ votedFor' \in [Server -> Server \cup {Nil}]
        /\ role' \in [Server -> Role]
        /\ leaderId' \in [Server -> Server \cup {Nil}]
    BY <1>1 DEF GrantVote, TypeOK, MemberTypeOK, Role
  <2>2. /\ votes' \in [Server -> SUBSET Server]
        /\ nextIndex' \in [Server -> [Server -> Nat \ {0}]]
        /\ matchIndex' \in [Server -> [Server -> Nat]]
    <3>1. CASE m.term > currentTerm[i]
      <4>1. ForgetVotesAndProgress(i)
        BY <3>1 DEF GrantVote
      <4> QED
        BY <4>1 DEF ForgetVotesAndProgress, TypeOK, MemberTypeOK, AllAt
    <3>2. CASE ~(m.term > currentTerm[i])
      BY <3>2 DEF GrantVote, TypeOK, MemberTypeOK, progress
    <3> QED
      BY <3>1, <3>2
  <2> QED
    BY <2>1, <2>2 DEF MemberTypeOK
<1>3. LogTypeOK'
  BY DEF GrantVote, TypeOK, LogTypeOK
<1>4. MessagesTypeOK'
  BY <1>1, VoteReplyType, MessageKinds, SendType DEF GrantVote, TypeOK
<1> QED
  BY <1>2, <1>3, <1>4 DEF TypeOK

LEMMA RefuseVoteType ==
  ASSUME TypeOK, NEW i \in Server, NEW m \in RaftMessage, RefuseVote(i, m)
  PROVE  TypeOK'
<1>1. m.from \in Server /\ m.term \in Nat
  BY RaftMessageFields
<1>2. MemberTypeOK'
  BY <1>1, ObserveTermType DEF RefuseVote, TypeOK
<1>3. LogTypeOK'
  BY DEF RefuseVote, TypeOK, LogTypeOK
<1>4. currentTerm'[i] \in Nat
  BY <1>2 DEF MemberTypeOK
<1>5. MessagesTypeOK'
  BY <1>1, <1>4, VoteReplyType, MessageKinds, SendType DEF RefuseVote, TypeOK
<1> QED
  BY <1>2, <1>3, <1>5 DEF TypeOK

LEMMA CountVoteType ==
  ASSUME TypeOK, NEW i \in Server, NEW m \in RaftMessage, CountVote(i, m)
  PROVE  TypeOK'
<1>1. m.from \in Server
  BY RaftMessageFields
<1>2. /\ currentTerm' \in [Server -> Nat]
      /\ votedFor' \in [Server -> Server \cup {Nil}]
      /\ votes' \in [Server -> SUBSET Server]
  BY <1>1 DEF CountVote, TypeOK, MemberTypeOK
<1>3. CASE BecomeLeader(i, currentTerm[i], {})
  <2>1. currentTerm[i] \in Nat
    BY DEF TypeOK, MemberTypeOK
  <2> QED
    BY <1>2, <1>3, <2>1, BecomeLeaderType
<1>4. CASE UNCHANGED <<commitIndex, log, role, leaderId, progress, messages>>
  BY <1>2, <1>4 DEF TypeOK, MemberTypeOK, LogTypeOK, MessagesTypeOK, progress
<1> QED
  BY <1>3, <1>4 DEF CountVote

LEMMA HandleNewerResponseType ==
  ASSUME TypeOK, NEW i \in Server, NEW m \in RaftMessage, HandleNewerResponse(i, m)
  PROVE  TypeOK'
<1>1. MemberTypeOK'
  BY RaftMessageFields, BecomeFollowerType DEF HandleNewerResponse, TypeOK
<1> QED
  BY <1>1 DEF HandleNewerResponse, TypeOK, LogTypeOK, MessagesTypeOK

LEMMA RejectStaleAppendType ==
  ASSUME TypeOK, NEW i \in Server, NEW m \in RaftMessage, RejectStaleAppend(i, m)
  PROVE  TypeOK'
<1>1. /\ m.from \in Server /\ currentTerm[i] \in Nat
      /\ Len(log[i]) + 1 \in Nat
  BY RaftMessageFields DEF TypeOK, MemberTypeOK, LogTypeOK
<1>2. MessagesTypeOK'
  BY <1>1, AppendReplyType, MessageKinds, SendType DEF RejectStaleAppend, TypeOK
<1> QED
  BY <1>2 DEF RejectStaleAppend, TypeOK, MemberTypeOK, LogTypeOK, hardState, progress

LEMMA RejectMismatchType ==
  ASSUME TypeOK, NEW i \in Server, NEW m \in RaftMessage,
         m.type = "append-entries-request", RejectMismatch(i, m)
  PROVE  TypeOK'
<1>1. /\ m.from \in Server /\ m.term \in Nat /\ m.prevLogIndex \in Nat
      /\ Len(log[i]) + 1 \in Nat
  BY RaftMessageFields DEF TypeOK, LogTypeOK, AppendEntriesRequest
<1>2. Smaller(m.prevLogIndex, Len(log[i]) + 1) \in Nat
  BY <1>1 DEF Smaller
<1>3. MemberTypeOK'
  BY <1>1, BecomeFollowerType DEF RejectMismatch, TypeOK
<1>4. MessagesTypeOK'
  BY <1>1, <1>2, AppendReplyType, MessageKinds, SendType DEF RejectMismatch, TypeOK
<1> QED
  BY <1>3, <1>4 DEF RejectMismatch, TypeOK, LogTypeOK

LEMMA AcceptAppendType ==
  ASSUME TypeOK, NEW i \in Server, NEW m \in RaftMessage,
         m.type = "append-entries-request", AcceptAppend(i, m)
  PROVE  TypeOK'
<1>1. /\ m \in AppendEntriesRequest /\ m.from \in Server /\ m.term \in Nat
      /\ m.leaderCommit \in Nat /\ LastSent(m) \in Nat
  BY RaftMessageFields DEF AppendEntriesRequest, LastSent
<1>2. /\ log \in [Server -> Seq(Entry)] /\ commitIndex \in [Server -> Nat]
      /\ \A j \in Server : commitIndex[j] <= Len(log[j])
  BY DEF TypeOK, LogTypeOK
<1>3. MemberTypeOK'
  BY <1>1, BecomeFollowerType DEF AcceptAppend, TypeOK
<1>4. PICK kept \in 0 .. Len(log[i]) :
        /\ IsKept(i, m, kept)
        /\ ~OverwritesCommitted(i, kept)
        /\ log' = [log EXCEPT ![i] = MergedLog(i, m, kept)]
  BY DEF AcceptAppend
<1>5. /\ MergedLog(i, m, kept) \in Seq(Entry)
      /\ Len(MergedLog(i, m, kept)) = Larger(kept, LastSent(m))
  BY <1>1, <1>4, MergedLogType DEF AcceptAppend
<1>6. log' \in [Server -> Seq(Entry)] /\ log'[i] = MergedLog(i, m, kept)
  BY <1>2, <1>4, <1>5
<1>7. commitIndex[i] <= Len(log'[i])
  BY <1>1, <1>2, <1>4, <1>5, <1>6 DEF OverwritesCommitted, Larger
<1>8. /\ CommitAfterAppend(i, m, Len(log'[i])) \in Nat
      /\ CommitAfterAppend(i, m, Len(log'[i])) <= Len(log'[i])
  BY <1>1, <1>2, <1>6, <1>7 DEF CommitAfterAppend, Larger, Smaller
<1>9. LogTypeOK'
  <2>1. commitIndex' = [commitIndex EXCEPT ![i] = CommitAfterAppend(i, m, Len(log'[i]))]
    BY DEF AcceptAppend
  <2>2. ASSUME NEW j \in Server
        PROVE  commitIndex'[j] <= Len(log'[j])
    BY <2>1, <1>2, <1>4, <1>8
  <2> QED
    BY <2>1, <2>2, <1>2, <1>6, <1>8 DEF LogTypeOK
<1>10. MessagesTypeOK'
  <2>1. LastSent(m) + 1 \in Nat
    BY <1>1
  <2>2. AppendReply(i, m, m.term, TRUE, LastSent(m), LastSent(m) + 1) \in RaftMessage
    BY <2>1, <1>1, AppendReplyType, MessageKinds
  <2> QED
    BY <2>2, SendType DEF AcceptAppend, TypeOK
<1> QED
  BY <1>3, <1>9, <1>10 DEF TypeOK

LEMMA NextAppendType ==
  ASSUME TypeOK, NEW i \in Server, NEW m, m.from \in Server,
         nextIndex' \in [Server -> [Server -> Nat \ {0}]],
         commitIndex' \in [Server -> Nat]
  PROVE  NextAppend(i, m) \in SUBSET RaftMessage
<1>1. /\ currentTerm[i] \in Nat /\ log[i] \in Seq(Entry)
      /\ nextIndex'[i][m.from] \in Nat \ {0} /\ commitIndex'[i] \in Nat
  BY DEF TypeOK, MemberTypeOK, LogTypeOK
<1> QED
  BY <1>1, AppendForType, MessageKinds DEF NextAppend

LEMMA RecordSuccessType ==
  ASSUME TypeOK, NEW i \in Server, NEW m \in RaftMessage,
         m.type = "append-entries-response", RecordSuccess(i, m)
  PROVE  TypeOK'
<1>1. m.from \in Server /\ m.matchIndex \in Nat
  BY RaftMessageFields DEF AppendEntriesResponse
<1>2. /\ currentTerm[i] \in Nat /\ log[i] \in Seq(Entry)
      /\ commitIndex \in [Server -> Nat] /\ commitIndex[i] <= Len(log[i])
      /\ matchIndex \in [Server -> [Server -> Nat]]
      /\ nextIndex \in [Server -> [Server -> Nat \ {0}]]
  BY DEF TypeOK, MemberTypeOK, LogTypeOK
<1>3. MatchAfterSuccess(i, m) \in Nat
  BY <1>1, <1>2 DEF MatchAfterSuccess, Larger
<1>4. /\ matchIndex' \in [Server -> [Server -> Nat]]
      /\ matchIndex'[i][m.from] \in Nat
  <2>1. matchIndex' = [matchIndex EXCEPT ![i][m.from] = MatchAfterSuccess(i, m)]
    BY DEF RecordSuccess
  <2> QED
    BY <2>1, <1>1, <1>2, <1>3
<1>5. nextIndex' \in [Server -> [Server -> Nat \ {0}]]
  <2>1. matchIndex'[i][m.from] + 1 \in Nat \ {0}
    BY <1>4
  <2> QED
    BY <2>1, <1>1, <1>2 DEF RecordSuccess
<1>6. /\ commitIndex' \in [Server -> Nat]
      /\ commitIndex'[i] \in commitIndex[i] .. Len(log[i])
      /\ \A j \in Server : j # i => commitIndex'[j] = commitIndex[j]
  BY <1>2, AdvanceLeaderCommitType DEF RecordSuccess
<1>7. MemberTypeOK'
  <2>1. UNCHANGED <<currentTerm, votedFor, role, leaderId, votes>>
    BY DEF RecordSuccess
  <2> QED
    BY <2>1, <1>4, <1>5 DEF TypeOK, MemberTypeOK
<1>8. LogTypeOK'
  <2>1. log' = log
    BY DEF RecordSuccess
  <2>2. ASSUME NEW j \in Server
        PROVE  commitIndex'[j] <= Len(log[j])
    <3>1. CASE j = i
      BY <3>1, <1>2, <1>6
    <3>2. CASE j # i
      BY <3>2, <1>6 DEF TypeOK, LogTypeOK
    <3> QED
      BY <3>1, <3>2
  <2> QED
    BY <2>1, <2>2, <1>6 DEF TypeOK, LogTypeOK
<1>9. BroadcastAppend(i, currentTerm[i], log[i], nextIndex'[i], commitIndex'[i])
        \in SUBSET RaftMessage
  BY <1>2, <1>5, <1>6, BroadcastAppendType, MessageKinds
<1>10. NextAppend(i, m) \in SUBSET RaftMessage
  BY <1>1, <1>5, <1>6, NextAppendType
<1>11. MessagesTypeOK'
  BY <1>9, <1>10, SendType DEF RecordSuccess, TypeOK
<1> QED
  BY <1>7, <1>8, <1>11 DEF TypeOK

LEMMA RetryEarlierType ==
  ASSUME TypeOK, NEW i \in Server, NEW m \in RaftMessage,
         m.type = "append-entries-response", RetryEarlier(i, m)
  PROVE  TypeOK'
<1>1. m.from \in Server /\ m.rejectHint \in Nat
  BY RaftMessageFields DEF AppendEntriesResponse
<1>2. nextIndex \in [Server -> [Server -> Nat \ {0}]]
  BY DEF TypeOK, MemberTypeOK
<1>3. NextAfterReject(i, m) \in Nat \ {0}
  BY <1>1, <1>2 DEF NextAfterReject, Larger, Smaller
<1>4. nextIndex' \in [Server -> [Server -> Nat \ {0}]]
  BY <1>1, <1>2, <1>3 DEF RetryEarlier
<1>5. MemberTypeOK' /\ LogTypeOK'
  BY <1>4 DEF RetryEarlier, TypeOK, MemberTypeOK, LogTypeOK, hardState
<1>6. NextAppend(i, m) \in SUBSET RaftMessage
  BY <1>1, <1>4, <1>5, NextAppendType DEF LogTypeOK
<1>7. MessagesTypeOK'
  BY <1>6, SendType DEF RetryEarlier, TypeOK
<1> QED
  BY <1>5, <1>7 DEF TypeOK

\* A step of one server, which may be handed the messages ms.
StepOf(i, ms) ==
    \/ ElectionTimeout(i)
    \/ HeartbeatTimeout(i)
    \/ \E command \in Command : Propose(i, command)
    \/ Restart(i)
    \/ \E m \in ms : m.to = i /\ HandleMessage(m)

LEMMA NextIsStep ==
  ASSUME TypeOK, Next
  PROVE  \E i \in Server : StepOf(i, messages)
  BY MessageFields DEF Next, StepOf, TypeOK

LEMMA StepOfType ==
  ASSUME TypeOK, NEW i \in Server, NEW ms \in SUBSET RaftMessage, StepOf(i, ms)
  PROVE  TypeOK'
<1>1. ASSUME NEW command \in Command, Propose(i, command)
      PROVE  TypeOK'
  BY <1>1, ProposeType
<1>2. ASSUME NEW m \in ms, m.to = i, HandleMessage(m)
      PROVE  TypeOK'
  <2>1. m \in RaftMessage
    OBVIOUS
  <2>2. CASE HandleVoteRequest(i, m)
    BY <2>1, <2>2, GrantVoteType, RefuseVoteType DEF HandleVoteRequest
  <2>3. CASE HandleVoteResponse(i, m)
    BY <2>1, <2>3, CountVoteType, HandleNewerResponseType DEF HandleVoteResponse
  <2>4. CASE m.type = "append-entries-request" /\ HandleAppendRequest(i, m)
    BY <2>1, <2>4, RejectStaleAppendType, RejectMismatchType, AcceptAppendType
       DEF HandleAppendRequest
  <2>5. CASE m.type = "append-entries-response" /\ HandleAppendResponse(i, m)
    BY <2>1, <2>5, RecordSuccessType, RetryEarlierType, HandleNewerResponseType
       DEF HandleAppendResponse
  <2> QED
    BY <1>2, <2>2, <2>3, <2>4, <2>5 DEF HandleMessage
<1> QED
  BY <1>1, <1>2, ElectionTimeoutType, HeartbeatTimeoutType, RestartType DEF StepOf

\* Every reachable state of every cluster is well typed, and no commit index ever
\* leaves its log: the assertions of raft.ts never fail.
THEOREM TypeCorrect == Spec => []TypeOK
<1>1. Init => TypeOK
  BY DEF Init, TypeOK, MemberTypeOK, LogTypeOK, MessagesTypeOK, Role, AllAt
<1>2. TypeOK /\ [Next]_vars => TypeOK'
  <2> SUFFICES ASSUME TypeOK, [Next]_vars
               PROVE  TypeOK'
    OBVIOUS
  <2>1. CASE Next
    <3>1. messages \in SUBSET RaftMessage
      BY DEF TypeOK, MessagesTypeOK
    <3> QED
      BY <2>1, <3>1, NextIsStep, StepOfType
  <2>2. CASE UNCHANGED vars
    BY <2>2 DEF vars, hardState, progress, TypeOK, MemberTypeOK, LogTypeOK,
               MessagesTypeOK
  <2> QED
    BY <2>1, <2>2
<1> QED
  BY <1>1, <1>2, PTL DEF Spec

-----------------------------------------------------------------------------
(* Election safety                                                         *)

IsGrant(m) == m.type = "request-vote-response" /\ m.voteGranted
IsAppend(m) == m.type = "append-entries-request"

\* j answered a vote request of i in term t with its vote.
Granted(j, i, t) ==
    \E m \in messages : IsGrant(m) /\ m.from = j /\ m.to = i /\ m.term = t

\* The vote of j in term t is spent on i, for good: j answered so unless j is i,
\* answered nobody else in that term, and its hard state says so as long as it
\* stays in the term.
Support(j, i, t) ==
    /\ j # i => Granted(j, i, t)
    /\ \A other \in Server : Granted(j, other, t) => other = i
    /\ currentTerm[j] >= t
    /\ currentTerm[j] = t => votedFor[j] = i

Elected(i, t) == \E Q \in Quorum : \A j \in Q : Support(j, i, t)

\* The inductive strengthening of election safety.
VoteInv ==
    /\ \A m \in messages : IsGrant(m) => Support(m.from, m.to, m.term)
    /\ \A i \in Server : role[i] # "follower" =>
         \A j \in votes[i] : Support(j, i, currentTerm[i])
    /\ \A i \in Server : role[i] = "leader" => votes[i] \in Quorum
    /\ \A m \in messages : IsAppend(m) => Elected(m.from, m.term)

\* What every step does to terms and votes, ...
TermStep ==
    \A j \in Server :
      /\ currentTerm'[j] >= currentTerm[j]
      /\ currentTerm'[j] = currentTerm[j] /\ votedFor[j] # Nil
           => votedFor'[j] = votedFor[j]

\* ... what it may send, ...
MessageStep ==
    /\ messages \subseteq messages'
    /\ \A m \in messages' \ messages :
         /\ IsGrant(m) => /\ currentTerm'[m.from] = m.term
                          /\ votedFor'[m.from] = m.to
         /\ IsAppend(m) => /\ role'[m.from] = "leader"
                           /\ currentTerm'[m.from] = m.term

\* ... and how a server comes to be candidate or leader, or stays it.
RoleStepOf(i) ==
    /\ role'[i] # "follower" =>
         \/ /\ role[i] # "follower"
            /\ currentTerm'[i] = currentTerm[i]
            /\ \A j \in votes'[i] : j \in votes[i] \/ Granted(j, i, currentTerm[i])
         \/ /\ currentTerm'[i] > currentTerm[i]
            /\ votedFor'[i] = i
            /\ votes'[i] = {i}
    /\ role'[i] = "leader" =>
         votes'[i] \in Quorum \/ (role[i] = "leader" /\ votes'[i] = votes[i])

RoleStep == \A i \in Server : RoleStepOf(i)

VoteStep == TermStep /\ MessageStep /\ RoleStep

\* A vote once spent stays spent.
LEMMA SupportStable ==
  ASSUME TypeOK, TermStep, MessageStep, TypeOK',
         NEW j \in Server, NEW i \in Server, NEW t \in Nat, Support(j, i, t)
  PROVE  Support(j, i, t)'
<1>1. /\ currentTerm[j] \in Nat /\ currentTerm'[j] \in Nat
      /\ currentTerm'[j] >= currentTerm[j]
  BY DEF TermStep, TypeOK, MemberTypeOK
<1>2. currentTerm'[j] = t => currentTerm[j] = t /\ votedFor[j] = i /\ votedFor'[j] = i
  BY <1>1, ServerAssumption DEF Support, TermStep
<1>3. j # i => Granted(j, i, t)'
  BY DEF Support, Granted, MessageStep
<1>4. ASSUME NEW other \in Server, Granted(j, other, t)'
      PROVE  other = i
  <2>1. PICK m \in messages' : IsGrant(m) /\ m.from = j /\ m.to = other /\ m.term = t
    BY <1>4 DEF Granted
  <2>2. CASE m \in messages
    BY <2>1, <2>2 DEF Support, Granted
  <2>3. CASE m \notin messages
    BY <2>1, <2>3, <1>2 DEF MessageStep
  <2> QED
    BY <2>2, <2>3
<1> QED
  BY <1>1, <1>2, <1>3, <1>4 DEF Support

\* A server has one vote.
LEMMA SupportUnique ==
  ASSUME NEW j \in Server, NEW i1 \in Server, NEW i2 \in Server, NEW t \in Nat,
         Support(j, i1, t), Support(j, i2, t)
  PROVE  i1 = i2
  BY DEF Support

\* Two quorums share a server.
LEMMA QuorumsIntersect ==
  ASSUME NEW P \in Quorum, NEW Q \in Quorum
  PROVE  \E j \in Server : j \in P /\ j \in Q
<1>1. /\ IsFiniteSet(Server) /\ P \subseteq Server /\ Q \subseteq Server
      /\ Cardinality(P) >= (Cardinality(Server) \div 2) + 1
      /\ Cardinality(Q) >= (Cardinality(Server) \div 2) + 1
  BY ServerAssumption DEF Quorum
<1>2. IsFiniteSet(P) /\ IsFiniteSet(Q)
  BY <1>1, FS_Subset
<1>3. SUFFICES ASSUME P \cap Q = {}
               PROVE  FALSE
  BY <1>1
<1>4. Cardinality(P \cup Q) = Cardinality(P) + Cardinality(Q)
  <2>1. Cardinality(P \cup Q) = Cardinality(P) + Cardinality(Q) - Cardinality(P \cap Q)
    BY <1>2, FS_Union
  <2>2. Cardinality(P \cap Q) = 0
    BY <1>3, FS_EmptySet
  <2> QED
    BY <2>1, <2>2, <1>2, FS_CardinalityType
<1>5. Cardinality(P \cup Q) <= Cardinality(Server)
  <2>1. P \cup Q \subseteq Server
    BY <1>1
  <2> QED
    BY <2>1, <1>1, FS_Subset
<1>6. /\ Cardinality(P) \in Nat /\ Cardinality(Q) \in Nat
      /\ Cardinality(Server) \in Nat
  BY <1>1, <1>2, FS_CardinalityType
<1> QED
  BY <1>1, <1>4, <1>5, <1>6

LEMMA ElectedUnique ==
  ASSUME NEW i1 \in Server, NEW i2 \in Server, NEW t \in Nat,
         Elected(i1, t), Elected(i2, t)
  PROVE  i1 = i2
<1>1. PICK P \in Quorum : \A j \in P : Support(j, i1, t)
  BY DEF Elected
<1>2. PICK Q \in Quorum : \A j \in Q : Support(j, i2, t)
  BY DEF Elected
<1>3. PICK j \in Server : j \in P /\ j \in Q
  BY QuorumsIntersect
<1> QED
  BY <1>1, <1>2, <1>3, SupportUnique

LEMMA VoteInvStable ==
  ASSUME TypeOK, TypeOK', VoteInv, VoteStep
  PROVE  VoteInv'
<1> USE DEF VoteStep
<1>1. \A m \in messages' : m.from \in Server /\ m.to \in Server /\ m.term \in Nat
  BY DEF TypeOK, MessagesTypeOK, RaftMessage, RequestVoteRequest,
         RequestVoteResponse, AppendEntriesRequest, AppendEntriesResponse
<1>2. /\ currentTerm \in [Server -> Nat] /\ currentTerm' \in [Server -> Nat]
      /\ \A i \in Server : votes'[i] \subseteq Server
  BY DEF TypeOK, MemberTypeOK
<1>3. ASSUME NEW m \in messages', IsGrant(m)
      PROVE  Support(m.from, m.to, m.term)'
  <2>1. CASE m \in messages
    BY <2>1, <1>1, <1>3, SupportStable DEF VoteInv
  <2>2. CASE m \notin messages
    <3>1. currentTerm'[m.from] = m.term /\ votedFor'[m.from] = m.to
      BY <2>2, <1>3 DEF MessageStep
    <3>2. ASSUME NEW other \in Server, Granted(m.from, other, m.term)'
          PROVE  other = m.to
      <4>1. PICK n \in messages' : /\ IsGrant(n) /\ n.from = m.from
                                   /\ n.to = other /\ n.term = m.term
        BY <3>2 DEF Granted
      <4>2. CASE n \in messages
        <5>1. Support(m.from, other, m.term)'
          BY <4>1, <4>2, <1>1, SupportStable DEF VoteInv
        <5> QED
          BY <5>1, <3>1 DEF Support
      <4>3. CASE n \notin messages
        BY <4>1, <4>3, <3>1 DEF MessageStep
      <4> QED
        BY <4>2, <4>3
    <3>3. Granted(m.from, m.to, m.term)'
      BY <1>3 DEF Granted
    <3> QED
      BY <3>1, <3>2, <3>3, <1>1, <1>2 DEF Support
  <2> QED
    BY <2>1, <2>2
<1>4. ASSUME NEW i \in Server, role'[i] # "follower", NEW j \in votes'[i]
      PROVE  Support(j, i, currentTerm[i])'
  <2>1. j \in Server
    BY <1>2
  <2>2. CASE /\ role[i] # "follower"
             /\ currentTerm'[i] = currentTerm[i]
             /\ j \in votes[i] \/ Granted(j, i, currentTerm[i])
    <3>1. Support(j, i, currentTerm[i])
      BY <2>2 DEF VoteInv, Granted
    <3> QED
      BY <3>1, <2>1, <2>2, <1>2, SupportStable DEF Support
  <2>3. CASE /\ currentTerm'[i] > currentTerm[i]
             /\ votedFor'[i] = i
             /\ votes'[i] = {i}
    <3>1. ASSUME NEW other \in Server, Granted(i, other, currentTerm[i])'
          PROVE  other = i
      <4>1. PICK m \in messages' : /\ IsGrant(m) /\ m.from = i
                                   /\ m.to = other /\ m.term = currentTerm'[i]
        BY <3>1 DEF Granted
      <4>2. Support(i, other, currentTerm[i])'
        BY <4>1, <1>3
      <4> QED
        BY <4>2, <2>3 DEF Support
    <3> QED
      BY <3>1, <2>3, <1>2 DEF Support
  <2> QED
    BY <2>2, <2>3, <1>4 DEF RoleStep, RoleStepOf
<1>5. ASSUME NEW i \in Server, role'[i] = "leader"
      PROVE  votes'[i] \in Quorum
  BY <1>5 DEF RoleStep, RoleStepOf, VoteInv
<1>6. ASSUME NEW m \in messages', IsAppend(m)
      PROVE  Elected(m.from, m.term)'
  <2>1. CASE m \in messages
    <3>1. PICK Q \in Quorum : \A j \in Q : Support(j, m.from, m.term)
      BY <2>1, <1>6 DEF VoteInv, Elected
    <3>2. \A j \in Q : Support(j, m.from, m.term)'
      BY <3>1, <1>1, SupportStable DEF Quorum
    <3> QED
      BY <3>2 DEF Elected, Quorum
  <2>2. CASE m \notin messages
    <3>1. role'[m.from] = "leader" /\ currentTerm'[m.from] = m.term
      BY <2>2, <1>6 DEF MessageStep
    <3>2. votes'[m.from] \in Quorum
      BY <3>1, <1>1, <1>5
    <3>3. \A j \in votes'[m.from] : Support(j, m.from, m.term)'
      BY <3>1, <1>1, <1>4
    <3> QED
      BY <3>2, <3>3 DEF Elected, Quorum
  <2> QED
    BY <2>1, <2>2
<1> QED
  BY <1>3, <1>4, <1>5, <1>6 DEF VoteInv, Quorum

\* Append requests come from the leader that builds them, in its term.
LEMMA BroadcastFields ==
  ASSUME NEW i, NEW term, NEW lg, NEW next, NEW commit,
         NEW m \in BroadcastAppend(i, term, lg, next, commit)
  PROVE  IsAppend(m) /\ ~IsGrant(m) /\ m.from = i /\ m.term = term
  BY DEF BroadcastAppend, AppendFor, IsAppend, IsGrant

LEMMA VoteRequestFields ==
  ASSUME NEW i, NEW term, NEW m \in VoteRequests(i, term)
  PROVE  ~IsAppend(m) /\ ~IsGrant(m)
  BY DEF VoteRequests, IsAppend, IsGrant

LEMMA ReplyFields ==
  ASSUME NEW i, NEW m, NEW term, NEW success, NEW match, NEW hint
  PROVE  /\ ~IsAppend(AppendReply(i, m, term, success, match, hint))
         /\ ~IsGrant(AppendReply(i, m, term, success, match, hint))
         /\ ~IsAppend(VoteReply(i, m, term, success))
         /\ ~IsGrant(VoteReply(i, m, term, FALSE))
  BY DEF AppendReply, VoteReply, IsAppend, IsGrant

\* A leader, old or new, sends append requests of its term, and never a vote.
LEMMA LeaderSends ==
  ASSUME NEW i \in Server, NEW ms, Send(ms), role'[i] = "leader",
         \A m \in ms : /\ ~IsGrant(m)
                       /\ IsAppend(m) => m.from = i /\ m.term = currentTerm'[i]
  PROVE  MessageStep
  BY DEF Send, MessageStep

LEMMA SendsNeither ==
  ASSUME NEW ms, \A m \in ms : ~IsAppend(m) /\ ~IsGrant(m), Send(ms)
  PROVE  MessageStep
  BY DEF Send, MessageStep

LEMMA BecomeFollowerVoteStep ==
  ASSUME TypeOK, NEW i \in Server, NEW term \in Nat, NEW leader,
         term >= currentTerm[i], BecomeFollower(i, term, leader)
  PROVE  TermStep /\ RoleStep
<1>1. TermStep
  BY DEF TermStep, BecomeFollower, TypeOK, MemberTypeOK
<1>2. RoleStep
  BY DEF RoleStep, RoleStepOf, BecomeFollower, ForgetVotesAndProgress, TypeOK, MemberTypeOK, AllAt
<1> QED
  BY <1>1, <1>2

LEMMA QuietVoteStep ==
  ASSUME TypeOK, UNCHANGED <<currentTerm, votedFor, role, votes>>
  PROVE  TermStep /\ RoleStep
  BY DEF TermStep, RoleStep, RoleStepOf, TypeOK, MemberTypeOK

\* A server that campaigns, and no other, changes its role.
LEMMA RoleStepOfOne ==
  ASSUME TypeOK, NEW i \in Server, NEW newRole,
         currentTerm' = [currentTerm EXCEPT ![i] = currentTerm[i] + 1],
         votedFor' = [votedFor EXCEPT ![i] = i],
         votes' = [votes EXCEPT ![i] = {i}],
         role' = [role EXCEPT ![i] = newRole],
         newRole = "leader" => {i} \in Quorum
  PROVE  RoleStep
<1>1. \A k \in Server : k # i => /\ role'[k] = role[k] /\ votes'[k] = votes[k]
                                 /\ currentTerm'[k] = currentTerm[k]
  BY DEF TypeOK, MemberTypeOK
<1>2. /\ role'[i] = newRole /\ votes'[i] = {i} /\ votedFor'[i] = i
      /\ currentTerm'[i] > currentTerm[i]
  BY DEF TypeOK, MemberTypeOK
<1>3. ASSUME NEW k \in Server, k # i
      PROVE  \A j \in votes'[k] : j \in votes[k]
  BY <1>1, <1>3
<1>4. role'[i] = "leader" => votes'[i] \in Quorum
  BY <1>2
<1> SUFFICES ASSUME NEW k \in Server
             PROVE  RoleStepOf(k)
  BY DEF RoleStep
<1>5. CASE k = i
  BY <1>2, <1>4, <1>5 DEF RoleStepOf
<1>6. CASE k # i
  <2>1. /\ role'[k] = role[k] /\ votes'[k] = votes[k]
        /\ currentTerm'[k] = currentTerm[k]
    BY <1>1, <1>6
  <2>2. \A j \in votes'[k] : j \in votes[k] \/ Granted(j, k, currentTerm[k])
    BY <2>1
  <2> QED
    BY <2>1, <2>2 DEF RoleStepOf
<1> QED
  BY <1>5, <1>6

LEMMA ElectionTimeoutVoteStep ==
  ASSUME TypeOK, NEW i \in Server, ElectionTimeout(i)
  PROVE  VoteStep
<1> DEFINE term == currentTerm[i] + 1
<1>1. /\ currentTerm' = [currentTerm EXCEPT ![i] = term]
      /\ votedFor' = [votedFor EXCEPT ![i] = i]
      /\ votes' = [votes EXCEPT ![i] = {i}]
      /\ \/ {i} \in Quorum /\ BecomeLeader(i, term, VoteRequests(i, term))
         \/ /\ role' = [role EXCEPT ![i] = "candidate"]
            /\ Send(VoteRequests(i, term))
  BY DEF ElectionTimeout
<1>2. /\ currentTerm \in [Server -> Nat] /\ votes \in [Server -> SUBSET Server]
      /\ votedFor \in [Server -> Server \cup {Nil}] /\ role \in [Server -> Role]
  BY DEF TypeOK, MemberTypeOK
<1>3. TermStep
  BY <1>1, <1>2 DEF TermStep
<1>4. currentTerm'[i] = term
  BY <1>1, <1>2
<1>5. CASE {i} \in Quorum /\ BecomeLeader(i, term, VoteRequests(i, term))
  <2>1. role' = [role EXCEPT ![i] = "leader"]
    BY <1>5 DEF BecomeLeader, AllAt
  <2>2. Send(VoteRequests(i, term) \cup
               BroadcastAppend(i, term, log'[i], nextIndex'[i], commitIndex[i]))
    BY <1>5 DEF BecomeLeader, AppendLocal, AllAt
  <2>3. RoleStep
    BY <1>1, <1>2, <1>5, <2>1, RoleStepOfOne
  <2>4. role'[i] = "leader"
    BY <2>1, <1>2
  <2>5. MessageStep
    BY <2>2, <2>4, <1>4, LeaderSends, VoteRequestFields, BroadcastFields
  <2> QED
    BY <1>3, <2>3, <2>5 DEF VoteStep
<1>6. CASE role' = [role EXCEPT ![i] = "candidate"] /\ Send(VoteRequests(i, term))
  <2>1. RoleStep
    BY <1>1, <1>6, RoleStepOfOne
  <2>2. MessageStep
    BY <1>6, VoteRequestFields, SendsNeither
  <2> QED
    BY <1>3, <2>1, <2>2 DEF VoteStep
<1> QED
  BY <1>1, <1>5, <1>6

LEMMA HeartbeatTimeoutVoteStep ==
  ASSUME TypeOK, NEW i \in Server, HeartbeatTimeout(i)
  PROVE  VoteStep
<1>1. TermStep /\ RoleStep
  BY QuietVoteStep DEF HeartbeatTimeout, hardState
<1>2. role'[i] = "leader" /\ currentTerm'[i] = currentTerm[i]
  BY DEF HeartbeatTimeout, hardState
<1>3. Send(BroadcastAppend(i, currentTerm'[i], log[i], nextIndex[i], commitIndex[i]))
  BY <1>2 DEF HeartbeatTimeout
<1>4. MessageStep
  BY <1>2, <1>3, LeaderSends, BroadcastFields
<1> QED
  BY <1>1, <1>4 DEF VoteStep

LEMMA ProposeVoteStep ==
  ASSUME TypeOK, NEW i \in Server, NEW command, Propose(i, command)
  PROVE  VoteStep
<1>1. TermStep /\ RoleStep
  BY QuietVoteStep DEF Propose
<1>2. role'[i] = "leader" /\ currentTerm'[i] = currentTerm[i]
  BY DEF Propose
<1>3. Send({} \cup
        BroadcastAppend(i, currentTerm'[i], log'[i], nextIndex'[i], commitIndex[i]))
  BY <1>2 DEF Propose, AppendLocal
<1>4. MessageStep
  BY <1>2, <1>3, LeaderSends, BroadcastFields
<1> QED
  BY <1>1, <1>4 DEF VoteStep

LEMMA RestartVoteStep ==
  ASSUME TypeOK, NEW i \in Server, Restart(i)
  PROVE  VoteStep
<1>1. TermStep
  BY DEF Restart, TermStep, hardState, TypeOK, MemberTypeOK
<1>2. RoleStep
  BY DEF Restart, RoleStep, RoleStepOf, hardState, ForgetVotesAndProgress,
         TypeOK, MemberTypeOK, AllAt
<1>3. MessageStep
  BY DEF Restart, MessageStep
<1> QED
  BY <1>1, <1>2, <1>3 DEF VoteStep

LEMMA GrantVoteVoteStep ==
  ASSUME TypeOK, NEW i \in Server, NEW m \in messages, GrantVote(i, m)
  PROVE  VoteStep
<1>1. m.from \in Server /\ m.term \in Nat
  BY MessageFields DEF TypeOK
<1>2. /\ currentTerm' = [currentTerm EXCEPT ![i] = m.term]
      /\ votedFor' = [votedFor EXCEPT ![i] = m.from]
      /\ role' = [role EXCEPT ![i] = "follower"]
      /\ Send({VoteReply(i, m, m.term, TRUE)})
      /\ \/ m.term > currentTerm[i]
         \/ m.term = currentTerm[i] /\ votedFor[i] \in {Nil, m.from}
  BY DEF GrantVote, CanGrant
<1>3. /\ currentTerm \in [Server -> Nat] /\ votes \in [Server -> SUBSET Server]
      /\ votedFor \in [Server -> Server \cup {Nil}] /\ role \in [Server -> Role]
  BY DEF TypeOK, MemberTypeOK
<1>4. TermStep
  BY <1>1, <1>2, <1>3 DEF TermStep
<1>5. RoleStep
  <2>1. \A k \in Server : k # i => votes'[k] = votes[k]
    <3>1. CASE ForgetVotesAndProgress(i)
      BY <3>1, <1>3 DEF ForgetVotesAndProgress, AllAt
    <3>2. CASE votes' = votes
      BY <3>2
    <3> QED
      BY <3>1, <3>2 DEF GrantVote
  <2> QED
    BY <2>1, <1>2, <1>3 DEF RoleStep, RoleStepOf
<1>6. MessageStep
  BY <1>2, <1>3 DEF MessageStep, Send, VoteReply, IsGrant, IsAppend
<1> QED
  BY <1>4, <1>5, <1>6 DEF VoteStep

LEMMA RefuseVoteVoteStep ==
  ASSUME TypeOK, NEW i \in Server, NEW m \in messages, RefuseVote(i, m)
  PROVE  VoteStep
<1>1. m.term \in Nat /\ currentTerm[i] \in Nat
  BY MessageFields DEF TypeOK, MemberTypeOK
<1>2. TermStep /\ RoleStep
  <2>1. CASE m.term > currentTerm[i]
    BY <2>1, <1>1, BecomeFollowerVoteStep DEF RefuseVote, ObserveTerm
  <2>2. CASE ~(m.term > currentTerm[i])
    BY <2>2, QuietVoteStep DEF RefuseVote, ObserveTerm
  <2> QED
    BY <2>1, <2>2
<1>3. MessageStep
  BY ReplyFields, SendsNeither DEF RefuseVote
<1> QED
  BY <1>2, <1>3 DEF VoteStep

LEMMA CountVoteVoteStep ==
  ASSUME TypeOK, NEW i \in Server, NEW m \in messages, m.to = i,
         m.type = "request-vote-response", CountVote(i, m)
  PROVE  VoteStep
<1>1. /\ currentTerm \in [Server -> Nat] /\ votes \in [Server -> SUBSET Server]
      /\ votedFor \in [Server -> Server \cup {Nil}] /\ role \in [Server -> Role]
      /\ m.from \in Server
  BY MessageFields DEF TypeOK, MemberTypeOK
<1>2. /\ m.term = currentTerm[i] /\ role[i] = "candidate" /\ m.voteGranted
      /\ votes' = [votes EXCEPT ![i] = @ \cup {m.from}]
      /\ UNCHANGED <<currentTerm, votedFor>>
  BY DEF CountVote
<1>3. TermStep
  BY <1>1, <1>2 DEF TermStep
<1>4. Granted(m.from, i, currentTerm[i])
  BY <1>2 DEF Granted, IsGrant
<1>5. CASE votes'[i] \in Quorum /\ BecomeLeader(i, currentTerm[i], {})
  <2>1. role' = [role EXCEPT ![i] = "leader"]
    BY <1>5 DEF BecomeLeader, AllAt
  <2>2. RoleStep
    <3>1. /\ votes'[i] \subseteq votes[i] \cup {m.from}
          /\ role[i] # "follower" /\ currentTerm' = currentTerm
      BY <1>1, <1>2
    <3>2. \A k \in Server : k # i => role'[k] = role[k] /\ votes'[k] = votes[k]
      BY <1>1, <1>2, <2>1
    <3> QED
      <4>1. RoleStepOf(i)
        BY <3>1, <1>4, <1>5 DEF RoleStepOf
      <4>2. ASSUME NEW k \in Server, k # i
            PROVE  RoleStepOf(k)
        <5>1. /\ role'[k] = role[k] /\ votes'[k] = votes[k]
              /\ currentTerm'[k] = currentTerm[k]
          BY <4>2, <3>1, <3>2
        <5>2. \A j \in votes'[k] : j \in votes[k] \/ Granted(j, k, currentTerm[k])
          BY <5>1
        <5> QED
          BY <5>1, <5>2 DEF RoleStepOf
      <4> QED
        BY <4>1, <4>2 DEF RoleStep
  <2>3. Send({} \cup
          BroadcastAppend(i, currentTerm'[i], log'[i], nextIndex'[i], commitIndex[i]))
    BY <1>2, <1>5 DEF BecomeLeader, AppendLocal, AllAt
  <2>4. role'[i] = "leader"
    BY <2>1, <1>1
  <2>5. MessageStep
    BY <2>3, <2>4, LeaderSends, BroadcastFields
  <2> QED
    BY <1>3, <2>2, <2>5 DEF VoteStep
<1>6. CASE UNCHANGED <<role, messages>>
  <2>1. RoleStep
    BY <1>1, <1>2, <1>4, <1>6 DEF RoleStep, RoleStepOf
  <2>2. MessageStep
    BY <1>6 DEF MessageStep
  <2> QED
    BY <1>3, <2>1, <2>2 DEF VoteStep
<1> QED
  BY <1>5, <1>6 DEF CountVote

LEMMA FollowerVoteStep ==
  ASSUME TypeOK, NEW i \in Server, NEW m \in messages,
         HandleNewerResponse(i, m) \/ RejectMismatch(i, m) \/ AcceptAppend(i, m)
  PROVE  VoteStep
<1>1. m.term \in Nat /\ currentTerm[i] \in Nat
  BY MessageFields DEF TypeOK, MemberTypeOK
<1>2. CASE HandleNewerResponse(i, m)
  <2>1. TermStep /\ RoleStep
    BY <1>1, <1>2, BecomeFollowerVoteStep DEF HandleNewerResponse
  <2>2. MessageStep
    BY <1>2 DEF HandleNewerResponse, MessageStep
  <2> QED
    BY <2>1, <2>2 DEF VoteStep
<1>3. CASE RejectMismatch(i, m)
  <2>1. TermStep /\ RoleStep
    BY <1>1, <1>3, BecomeFollowerVoteStep DEF RejectMismatch
  <2>2. MessageStep
    BY <1>3, ReplyFields, SendsNeither DEF RejectMismatch
  <2> QED
    BY <2>1, <2>2 DEF VoteStep
<1>4. CASE AcceptAppend(i, m)
  <2>1. TermStep /\ RoleStep
    BY <1>1, <1>4, BecomeFollowerVoteStep DEF AcceptAppend
  <2>2. MessageStep
    <3>1. Send({AppendReply(i, m, m.term, TRUE, LastSent(m), LastSent(m) + 1)})
      BY <1>4 DEF AcceptAppend
    <3> QED
      BY <3>1, ReplyFields, SendsNeither
  <2> QED
    BY <2>1, <2>2 DEF VoteStep
<1> QED
  BY <1>2, <1>3, <1>4

LEMMA RejectStaleAppendVoteStep ==
  ASSUME TypeOK, NEW i \in Server, NEW m \in messages, RejectStaleAppend(i, m)
  PROVE  VoteStep
<1>1. TermStep /\ RoleStep
  BY QuietVoteStep DEF RejectStaleAppend, hardState
<1>2. MessageStep
  BY ReplyFields, SendsNeither DEF RejectStaleAppend
<1> QED
  BY <1>1, <1>2 DEF VoteStep

LEMMA LeaderResponseVoteStep ==
  ASSUME TypeOK, NEW i \in Server, NEW m \in messages,
         RecordSuccess(i, m) \/ RetryEarlier(i, m)
  PROVE  VoteStep
<1>1. role'[i] = "leader" /\ UNCHANGED <<currentTerm, votedFor, role, votes>>
  BY DEF RecordSuccess, RetryEarlier, hardState
<1>2. TermStep /\ RoleStep
  BY <1>1, QuietVoteStep
<1>3. ASSUME NEW n \in NextAppend(i, m)
      PROVE  IsAppend(n) /\ ~IsGrant(n) /\ n.from = i /\ n.term = currentTerm[i]
  BY <1>3 DEF NextAppend, AppendFor, IsAppend, IsGrant
<1>4. \A n \in BroadcastAppend(i, currentTerm[i], log[i], nextIndex'[i], commitIndex'[i]) :
        IsAppend(n) /\ ~IsGrant(n) /\ n.from = i /\ n.term = currentTerm[i]
  BY BroadcastFields
<1>5. \E ms : /\ Send(ms)
              /\ \A n \in ms : /\ IsAppend(n) /\ ~IsGrant(n)
                               /\ n.from = i /\ n.term = currentTerm[i]
  <2>1. CASE RecordSuccess(i, m)
    <3> DEFINE broadcast == IF commitIndex'[i] > commitIndex[i]
                              THEN BroadcastAppend(i, currentTerm[i], log[i],
                                                   nextIndex'[i], commitIndex'[i])
                              ELSE {}
               more == IF nextIndex'[i][m.from] <= Len(log[i])
                         THEN NextAppend(i, m) ELSE {}
    <3>1. Send(broadcast \cup more)
      BY <2>1 DEF RecordSuccess
    <3>2. \A n \in broadcast \cup more :
            IsAppend(n) /\ ~IsGrant(n) /\ n.from = i /\ n.term = currentTerm[i]
      BY <1>3, <1>4
    <3> QED
      BY <3>1, <3>2
  <2>2. CASE RetryEarlier(i, m)
    BY <2>2, <1>3 DEF RetryEarlier
  <2> QED
    BY <2>1, <2>2
<1>6. MessageStep
  BY <1>1, <1>5 DEF MessageStep, Send
<1> QED
  BY <1>2, <1>6 DEF VoteStep

LEMMA NextVoteStep ==
  ASSUME TypeOK, [Next]_vars
  PROVE  VoteStep
<1>1. ASSUME NEW i \in Server, ElectionTimeout(i)
      PROVE  VoteStep
  BY <1>1, ElectionTimeoutVoteStep
<1>2. ASSUME NEW i \in Server, HeartbeatTimeout(i)
      PROVE  VoteStep
  BY <1>2, HeartbeatTimeoutVoteStep
<1>3. ASSUME NEW i \in Server, NEW command \in Command, Propose(i, command)
      PROVE  VoteStep
  BY <1>3, ProposeVoteStep
<1>4. ASSUME NEW i \in Server, Restart(i)
      PROVE  VoteStep
  BY <1>4, RestartVoteStep
<1>5. ASSUME NEW m \in messages, HandleMessage(m)
      PROVE  VoteStep
  <2>1. m.to \in Server
    BY MessageFields DEF TypeOK
  <2>2. CASE HandleVoteRequest(m.to, m)
    BY <2>1, <2>2, GrantVoteVoteStep, RefuseVoteVoteStep DEF HandleVoteRequest
  <2>3. CASE m.type = "request-vote-response" /\ HandleVoteResponse(m.to, m)
    BY <2>1, <2>3, CountVoteVoteStep, FollowerVoteStep DEF HandleVoteResponse
  <2>4. CASE HandleAppendRequest(m.to, m)
    BY <2>1, <2>4, RejectStaleAppendVoteStep, FollowerVoteStep DEF HandleAppendRequest
  <2>5. CASE HandleAppendResponse(m.to, m)
    BY <2>1, <2>5, LeaderResponseVoteStep, FollowerVoteStep DEF HandleAppendResponse
  <2> QED
    BY <1>5, <2>2, <2>3, <2>4, <2>5 DEF HandleMessage
<1>6. CASE UNCHANGED vars
  <2>1. UNCHANGED <<currentTerm, votedFor, role, votes, messages>>
    BY <1>6 DEF vars, hardState
  <2> QED
    BY <2>1, QuietVoteStep DEF VoteStep, MessageStep
<1> QED
  BY <1>1, <1>2, <1>3, <1>4, <1>5, <1>6 DEF Next

LEMMA VoteInvImpliesElectionSafety ==
  ASSUME TypeOK, VoteInv
  PROVE  ElectionSafety
<1>1. ASSUME NEW i \in Server, role[i] = "leader"
      PROVE  Elected(i, currentTerm[i])
  BY <1>1 DEF VoteInv, Elected
<1>2. ASSUME NEW i \in Server, role[i] = "leader",
             NEW j \in Server, role[j] = "leader", currentTerm[j] = currentTerm[i]
      PROVE  j = i
  <2>1. Elected(i, currentTerm[i]) /\ Elected(j, currentTerm[i])
    BY <1>1, <1>2
  <2>2. currentTerm[i] \in Nat
    BY DEF TypeOK, MemberTypeOK
  <2> QED
    BY <2>1, <2>2, ElectedUnique
<1>3. ASSUME NEW i \in Server, role[i] = "leader",
             NEW m \in messages, IsAppend(m), m.term = currentTerm[i]
      PROVE  m.from = i
  <2>1. Elected(i, m.term) /\ Elected(m.from, m.term)
    BY <1>1, <1>3 DEF VoteInv
  <2>2. m.from \in Server /\ m.term \in Nat
    BY MessageFields DEF TypeOK
  <2> QED
    BY <2>1, <2>2, ElectedUnique
<1> QED
  BY <1>2, <1>3 DEF ElectionSafety, IsAppend

LEMMA VoteInvImpliesOneVotePerTerm ==
  ASSUME TypeOK, VoteInv
  PROVE  OneVotePerTerm
<1> SUFFICES ASSUME NEW m \in messages, NEW n \in messages, IsGrant(m), IsGrant(n),
                    m.from = n.from, m.term = n.term
             PROVE  m.to = n.to
  BY DEF OneVotePerTerm, IsGrant
<1>1. /\ m.from \in Server /\ m.to \in Server /\ m.term \in Nat
      /\ n.to \in Server
  BY MessageFields DEF TypeOK
<1>2. Support(m.from, m.to, m.term) /\ Support(m.from, n.to, m.term)
  BY DEF VoteInv
<1> QED
  BY <1>1, <1>2, SupportUnique

\* The votes cast, the votes counted and the elections won stay consistent, in
\* every reachable state of every cluster.
THEOREM VotesAreConsistent == Spec => []VoteInv
<1>1. Init => VoteInv
  BY DEF Init, VoteInv
<1>2. TypeOK /\ TypeOK' /\ VoteInv /\ [Next]_vars => VoteInv'
  BY NextVoteStep, VoteInvStable
<1> QED
  BY <1>1, <1>2, TypeCorrect, PTL DEF Spec

\* No two servers are ever leader of one term, and a leader is the only sender of
\* append requests in its term: whatever is lost, duplicated, reordered or
\* delayed, and whoever restarts.
THEOREM ElectionIsSafe == Spec => []ElectionSafety
  BY VotesAreConsistent, TypeCorrect, VoteInvImpliesElectionSafety, PTL

\* A server never votes for two candidates of one term.
THEOREM VotesAreUnique == Spec => []OneVotePerTerm
  BY VotesAreConsistent, TypeCorrect, VoteInvImpliesOneVotePerTerm, PTL
=============================================================================
