---------------------------- MODULE RaftLogProofs ----------------------------
(***************************************************************************)
(* Theorems about the logs and commit indexes of module Raft, for every    *)
(* cluster, set of commands and bound.                                     *)
(***************************************************************************)
EXTENDS RaftProofs

-----------------------------------------------------------------------------
(* Committed entries                                                       *)

\* What one step does to the committed part of a server's log.
KeepsCommitted(i) ==
    /\ commitIndex'[i] >= commitIndex[i]
    /\ \A k \in 1 .. commitIndex[i] : log'[i][k] = log[i][k]

LEMMA CommitFields ==
  ASSUME TypeOK, NEW i \in Server
  PROVE  /\ log[i] \in Seq(Entry) /\ Len(log[i]) \in Nat
         /\ commitIndex[i] \in Nat /\ commitIndex[i] <= Len(log[i])
  BY DEF TypeOK, LogTypeOK

LEMMA QuietKeepsCommitted ==
  ASSUME TypeOK, UNCHANGED <<commitIndex, log>>
  PROVE  \A i \in Server : KeepsCommitted(i)
  BY CommitFields DEF KeepsCommitted

\* Appending keeps what is there, and a leader's commit index only advances.
LEMMA AppendLocalKeepsCommitted ==
  ASSUME TypeOK, NEW i \in Server, NEW term \in Nat,
         NEW command \in Command \cup {Noop}, NEW others,
         AppendLocal(i, term, command, others)
  PROVE  \A j \in Server : KeepsCommitted(j)
<1> DEFINE entry == [term |-> term, command |-> command]
<1>1. /\ log' = [log EXCEPT ![i] = Append(@, entry)]
      /\ AdvanceLeaderCommit(i, term, log'[i], matchIndex'[i])
  BY DEF AppendLocal
<1>2. /\ log \in [Server -> Seq(Entry)] /\ commitIndex \in [Server -> Nat]
      /\ entry \in Entry /\ log[i] \in Seq(Entry)
  BY DEF TypeOK, LogTypeOK, Entry
<1>3. log'[i] = Append(log[i], entry) /\ log'[i] \in Seq(Entry)
  BY <1>1, <1>2
<1>4. Len(log'[i]) = Len(log[i]) + 1 /\ \A k \in 1 .. Len(log[i]) : log'[i][k] = log[i][k]
  BY <1>2, <1>3
<1>5. commitIndex[i] <= Len(log'[i])
  BY <1>4, CommitFields
<1>6. /\ commitIndex'[i] \in commitIndex[i] .. Len(log'[i])
      /\ \A j \in Server : j # i => commitIndex'[j] = commitIndex[j]
  BY <1>1, <1>2, <1>3, <1>5, AdvanceLeaderCommitType
<1>7. KeepsCommitted(i)
  BY <1>4, <1>6, CommitFields DEF KeepsCommitted
<1>8. ASSUME NEW j \in Server, j # i
      PROVE  KeepsCommitted(j)
  <2>1. log'[j] = log[j] /\ commitIndex'[j] = commitIndex[j]
    BY <1>1, <1>2, <1>6, <1>8
  <2> QED
    BY <2>1, CommitFields DEF KeepsCommitted
<1> QED
  BY <1>7, <1>8

\* A follower keeps its log up to the first conflict, which is never committed.
LEMMA AcceptAppendKeepsCommitted ==
  ASSUME TypeOK, NEW i \in Server, NEW m \in RaftMessage,
         m.type = "append-entries-request", AcceptAppend(i, m)
  PROVE  \A j \in Server : KeepsCommitted(j)
<1>1. /\ m \in AppendEntriesRequest /\ m.leaderCommit \in Nat /\ LastSent(m) \in Nat
  BY RaftMessageFields DEF AppendEntriesRequest, LastSent
<1>2. log \in [Server -> Seq(Entry)] /\ commitIndex \in [Server -> Nat]
  BY DEF TypeOK, LogTypeOK
<1>3. PICK kept \in 0 .. Len(log[i]) :
        /\ IsKept(i, m, kept)
        /\ ~OverwritesCommitted(i, kept)
        /\ log' = [log EXCEPT ![i] = MergedLog(i, m, kept)]
  BY DEF AcceptAppend
<1>4. log'[i] = MergedLog(i, m, kept) /\ commitIndex[i] <= kept
  BY <1>2, <1>3, CommitFields DEF OverwritesCommitted
<1>5. \A k \in 1 .. commitIndex[i] : log'[i][k] = log[i][k]
  BY <1>1, <1>4, CommitFields DEF MergedLog, Larger
<1>6. Len(log'[i]) \in Nat
  BY <1>1, <1>3, <1>4, MergedLogType DEF AcceptAppend
<1>7. commitIndex' = [commitIndex EXCEPT ![i] = CommitAfterAppend(i, m, Len(log'[i]))]
  BY DEF AcceptAppend
<1>8. CommitAfterAppend(i, m, Len(log'[i])) >= commitIndex[i]
  BY <1>1, <1>6, CommitFields DEF CommitAfterAppend, Larger, Smaller
<1>9. KeepsCommitted(i)
  BY <1>2, <1>5, <1>7, <1>8 DEF KeepsCommitted
<1>10. ASSUME NEW j \in Server, j # i
       PROVE  KeepsCommitted(j)
  <2>1. log'[j] = log[j] /\ commitIndex'[j] = commitIndex[j]
    BY <1>2, <1>3, <1>7, <1>10
  <2> QED
    BY <2>1, CommitFields DEF KeepsCommitted
<1> QED
  BY <1>9, <1>10

LEMMA BecomeLeaderKeepsCommitted ==
  ASSUME TypeOK, NEW i \in Server, NEW term \in Nat, NEW others,
         BecomeLeader(i, term, others)
  PROVE  \A j \in Server : KeepsCommitted(j)
  BY AppendLocalKeepsCommitted DEF BecomeLeader, AllAt

LEMMA RecordSuccessKeepsCommitted ==
  ASSUME TypeOK, NEW i \in Server, NEW m, RecordSuccess(i, m)
  PROVE  \A j \in Server : KeepsCommitted(j)
<1>1. /\ commitIndex'[i] \in commitIndex[i] .. Len(log[i])
      /\ \A j \in Server : j # i => commitIndex'[j] = commitIndex[j]
  <2>1. commitIndex \in [Server -> Nat]
    BY DEF TypeOK, LogTypeOK
  <2>2. AdvanceLeaderCommit(i, currentTerm[i], log[i], matchIndex'[i])
    BY DEF RecordSuccess
  <2> QED
    BY <2>1, <2>2, CommitFields, AdvanceLeaderCommitType
<1>2. log' = log
  BY DEF RecordSuccess
<1> QED
  BY <1>1, <1>2, CommitFields DEF KeepsCommitted

LEMMA StepKeepsCommitted ==
  ASSUME TypeOK, NEW i \in Server, NEW ms \in SUBSET RaftMessage, StepOf(i, ms)
  PROVE  \A j \in Server : KeepsCommitted(j)
<1>1. currentTerm[i] \in Nat /\ currentTerm[i] + 1 \in Nat
  BY DEF TypeOK, MemberTypeOK
<1>2. CASE ElectionTimeout(i)
  BY <1>1, <1>2, BecomeLeaderKeepsCommitted, QuietKeepsCommitted DEF ElectionTimeout
<1>3. ASSUME NEW command \in Command, Propose(i, command)
      PROVE  \A j \in Server : KeepsCommitted(j)
  BY <1>1, <1>3, AppendLocalKeepsCommitted DEF Propose
<1>4. CASE HeartbeatTimeout(i) \/ Restart(i)
  BY <1>4, QuietKeepsCommitted DEF HeartbeatTimeout, Restart, hardState
<1>5. ASSUME NEW m \in ms, m.to = i, HandleMessage(m)
      PROVE  \A j \in Server : KeepsCommitted(j)
  <2>1. CASE HandleVoteRequest(i, m)
    BY <2>1, QuietKeepsCommitted DEF HandleVoteRequest, GrantVote, RefuseVote
  <2>2. CASE CountVote(i, m)
    BY <1>1, <2>2, BecomeLeaderKeepsCommitted, QuietKeepsCommitted DEF CountVote
  <2>3. CASE HandleNewerResponse(i, m)
    BY <2>3, QuietKeepsCommitted DEF HandleNewerResponse
  <2>4. CASE m.type = "append-entries-request" /\ AcceptAppend(i, m)
    BY <2>4, AcceptAppendKeepsCommitted
  <2>5. CASE RejectStaleAppend(i, m) \/ RejectMismatch(i, m)
    BY <2>5, QuietKeepsCommitted DEF RejectStaleAppend, RejectMismatch, hardState
  <2>6. CASE RecordSuccess(i, m)
    BY <2>6, RecordSuccessKeepsCommitted
  <2>7. CASE RetryEarlier(i, m)
    BY <2>7, QuietKeepsCommitted DEF RetryEarlier, hardState
  <2> QED
    BY <1>5, <2>1, <2>2, <2>3, <2>4, <2>5, <2>6, <2>7
       DEF HandleMessage, HandleVoteResponse, HandleAppendRequest, HandleAppendResponse
<1> QED
  BY <1>2, <1>3, <1>4, <1>5 DEF StepOf

LEMMA NextKeepsCommitted ==
  ASSUME TypeOK, Next
  PROVE  \A j \in Server : KeepsCommitted(j)
<1>1. messages \in SUBSET RaftMessage
  BY DEF TypeOK, MessagesTypeOK
<1> QED
  BY <1>1, NextIsStep, StepKeepsCommitted

\* No server ever loses or changes an entry it knows to be committed, nor moves its
\* commit index back, in any cluster: the check at raft.ts:267 is enough for it,
\* and the bound of raft.ts:285 never undoes a commit.
THEOREM CommittedStays == Spec => CommittedIsStable
<1>1. TypeOK /\ [Next]_vars =>
        [\A i \in Server :
           /\ commitIndex'[i] >= commitIndex[i]
           /\ \A k \in 1 .. commitIndex[i] : log'[i][k] = log[i][k]]_vars
  BY NextKeepsCommitted DEF KeepsCommitted
<1> QED
  BY <1>1, TypeCorrect, PTL DEF Spec, CommittedIsStable

-----------------------------------------------------------------------------
(* Leaders                                                                 *)

\* What one step does to a server that leads its term and goes on leading it.
KeepsLead(i) ==
    role[i] = "leader" /\ role'[i] = "leader" /\ currentTerm'[i] = currentTerm[i] =>
      /\ \A k \in DOMAIN log[i] : k \in DOMAIN log'[i] /\ log'[i][k] = log[i][k]
      /\ \A j \in Server : matchIndex'[i][j] >= matchIndex[i][j]

LEMMA MatchFields ==
  ASSUME TypeOK, NEW i \in Server
  PROVE  /\ matchIndex[i] \in [Server -> Nat]
         /\ \A j \in Server : matchIndex[i][j] \in Nat
<1>1. matchIndex[i] \in [Server -> Nat]
  BY DEF TypeOK, MemberTypeOK
<1> QED
  BY <1>1

LEMMA StillKeepsLead ==
  ASSUME TypeOK, NEW i \in Server, log'[i] = log[i], matchIndex'[i] = matchIndex[i]
  PROVE  KeepsLead(i)
  BY MatchFields DEF KeepsLead

\* Whoever is made a follower, its log replaced or not, leads no more.
LEMMA BecomeFollowerKeepsLead ==
  ASSUME TypeOK, NEW i \in Server, NEW term, NEW leader, BecomeFollower(i, term, leader),
         UNCHANGED log \/ \E lg : log' = [log EXCEPT ![i] = lg]
  PROVE  \A j \in Server : KeepsLead(j)
<1> SUFFICES ASSUME NEW j \in Server
             PROVE  KeepsLead(j)
  OBVIOUS
<1>1. /\ role \in [Server -> Role] /\ log \in [Server -> Seq(Entry)]
      /\ matchIndex \in [Server -> [Server -> Nat]]
  BY DEF TypeOK, LogTypeOK, MemberTypeOK
<1>2. CASE j = i
  <2>1. role'[i] = "follower"
    BY <1>1 DEF BecomeFollower
  <2> QED
    BY <1>2, <2>1 DEF KeepsLead
<1>3. CASE j # i
  <2>1. log'[j] = log[j] /\ matchIndex'[j] = matchIndex[j]
    BY <1>1, <1>3 DEF BecomeFollower, ForgetVotesAndProgress, AllAt
  <2> QED
    BY <2>1, StillKeepsLead
<1> QED
  BY <1>2, <1>3

\* A server that becomes leader, or proposes, appends to its log.
LEMMA BecomeLeaderKeepsLead ==
  ASSUME TypeOK, NEW i \in Server, role[i] # "leader", NEW term, NEW others,
         BecomeLeader(i, term, others)
  PROVE  \A j \in Server : KeepsLead(j)
<1> SUFFICES ASSUME NEW j \in Server, j # i
             PROVE  KeepsLead(j)
  BY DEF KeepsLead
<1>1. log'[j] = log[j] /\ matchIndex'[j] = matchIndex[j]
  BY DEF BecomeLeader, AppendLocal, TypeOK, LogTypeOK, MemberTypeOK, AllAt
<1> QED
  BY <1>1, StillKeepsLead

LEMMA ProposeKeepsLead ==
  ASSUME TypeOK, NEW i \in Server, NEW command \in Command, Propose(i, command)
  PROVE  \A j \in Server : KeepsLead(j)
<1> DEFINE entry == [term |-> currentTerm[i], command |-> command]
<1>1. /\ log' = [log EXCEPT ![i] = Append(@, entry)]
      /\ UNCHANGED matchIndex
  BY DEF Propose, AppendLocal, progress
<1>2. log \in [Server -> Seq(Entry)] /\ log[i] \in Seq(Entry)
  BY DEF TypeOK, LogTypeOK
<1>3. log'[i] = Append(log[i], entry)
  BY <1>1, <1>2
<1>4. \A k \in DOMAIN log[i] : k \in DOMAIN log'[i] /\ log'[i][k] = log[i][k]
  BY <1>2, <1>3
<1>5. KeepsLead(i)
  BY <1>1, <1>4, MatchFields DEF KeepsLead
<1>6. ASSUME NEW j \in Server, j # i
      PROVE  KeepsLead(j)
  <2>1. log'[j] = log[j] /\ matchIndex'[j] = matchIndex[j]
    BY <1>1, <1>2, <1>6
  <2> QED
    BY <2>1, StillKeepsLead
<1> QED
  BY <1>5, <1>6

\* The larger of what is known and what is answered replaces what is known.
LEMMA RecordSuccessKeepsLead ==
  ASSUME TypeOK, NEW i \in Server, NEW m \in messages,
         m.type = "append-entries-response", RecordSuccess(i, m)
  PROVE  \A j \in Server : KeepsLead(j)
<1> SUFFICES ASSUME NEW j \in Server
             PROVE  KeepsLead(j)
  OBVIOUS
<1>1. m.from \in Server /\ m.matchIndex \in Nat
  BY MessageFields DEF TypeOK, AppendEntriesResponse
<1>2. /\ log' = log
      /\ matchIndex' = [matchIndex EXCEPT ![i][m.from] = MatchAfterSuccess(i, m)]
  BY DEF RecordSuccess
<1>3. matchIndex \in [Server -> [Server -> Nat]]
  BY DEF TypeOK, MemberTypeOK
<1>4. CASE j = i
  <2>1. \A p \in Server : p # m.from => matchIndex'[i][p] = matchIndex[i][p]
    BY <1>1, <1>2, <1>3
  <2>2. matchIndex'[i][m.from] = MatchAfterSuccess(i, m)
    BY <1>1, <1>2, <1>3
  <2>3. MatchAfterSuccess(i, m) >= matchIndex[i][m.from]
    BY <1>1, MatchFields DEF MatchAfterSuccess, Larger
  <2>4. \A p \in Server : matchIndex'[i][p] >= matchIndex[i][p]
    BY <2>1, <2>2, <2>3, MatchFields
  <2> QED
    BY <1>2, <1>4, <2>4 DEF KeepsLead
<1>5. CASE j # i
  <2>1. log'[j] = log[j] /\ matchIndex'[j] = matchIndex[j]
    BY <1>2, <1>3, <1>5
  <2> QED
    BY <2>1, StillKeepsLead
<1> QED
  BY <1>4, <1>5

LEMMA NextKeepsLead ==
  ASSUME TypeOK, [Next]_vars
  PROVE  \A j \in Server : KeepsLead(j)
<1>1. ASSUME UNCHANGED <<log, matchIndex>>
      PROVE  \A j \in Server : KeepsLead(j)
  BY <1>1, StillKeepsLead
<1>2. ASSUME NEW i \in Server, ElectionTimeout(i)
      PROVE  \A j \in Server : KeepsLead(j)
  BY <1>1, <1>2, BecomeLeaderKeepsLead DEF ElectionTimeout, progress
<1>3. ASSUME NEW i \in Server, HeartbeatTimeout(i)
      PROVE  \A j \in Server : KeepsLead(j)
  BY <1>1, <1>3 DEF HeartbeatTimeout, progress
<1>4. ASSUME NEW i \in Server, Restart(i)
      PROVE  \A j \in Server : KeepsLead(j)
  <2> SUFFICES ASSUME NEW j \in Server
               PROVE  KeepsLead(j)
    OBVIOUS
  <2>1. CASE j = i
    BY <1>4, <2>1 DEF Restart, KeepsLead, TypeOK, MemberTypeOK
  <2>2. CASE j # i
    <3>1. log'[j] = log[j] /\ matchIndex'[j] = matchIndex[j]
      BY <1>4, <2>2 DEF Restart, ForgetVotesAndProgress, TypeOK, MemberTypeOK, AllAt
    <3> QED
      BY <3>1, StillKeepsLead
  <2> QED
    BY <2>1, <2>2
<1>5. ASSUME NEW m \in messages, HandleMessage(m)
      PROVE  \A j \in Server : KeepsLead(j)
  <2>1. m.to \in Server
    BY MessageFields DEF TypeOK
  <2>2. CASE GrantVote(m.to, m)
    <3> SUFFICES ASSUME NEW j \in Server
                 PROVE  KeepsLead(j)
      OBVIOUS
    <3>1. CASE j = m.to
      BY <2>2, <3>1 DEF GrantVote, KeepsLead, TypeOK, MemberTypeOK
    <3>2. CASE j # m.to
      <4>1. log'[j] = log[j] /\ matchIndex'[j] = matchIndex[j]
        BY <2>2, <3>2 DEF GrantVote, ForgetVotesAndProgress, progress, TypeOK, MemberTypeOK, AllAt
      <4> QED
        BY <4>1, StillKeepsLead
    <3> QED
      BY <3>1, <3>2
  <2>3. CASE RefuseVote(m.to, m)
    BY <1>1, <2>1, <2>3, BecomeFollowerKeepsLead DEF RefuseVote, ObserveTerm, progress
  <2>4. CASE CountVote(m.to, m)
    BY <1>1, <2>1, <2>4, BecomeLeaderKeepsLead DEF CountVote, progress
  <2>5. CASE HandleNewerResponse(m.to, m)
    BY <2>1, <2>5, BecomeFollowerKeepsLead DEF HandleNewerResponse
  <2>6. CASE RejectStaleAppend(m.to, m)
    BY <1>1, <2>6 DEF RejectStaleAppend, progress
  <2>7. CASE RejectMismatch(m.to, m)
    BY <2>1, <2>7, BecomeFollowerKeepsLead DEF RejectMismatch
  <2>8. CASE AcceptAppend(m.to, m)
    BY <2>1, <2>8, BecomeFollowerKeepsLead DEF AcceptAppend
  <2>9. CASE m.type = "append-entries-response" /\ RecordSuccess(m.to, m)
    BY <2>1, <2>9, RecordSuccessKeepsLead
  <2>10. CASE RetryEarlier(m.to, m)
    BY <1>1, <2>10 DEF RetryEarlier
  <2> QED
    BY <1>5, <2>2, <2>3, <2>4, <2>5, <2>6, <2>7, <2>8, <2>9, <2>10
       DEF HandleMessage, HandleVoteRequest, HandleVoteResponse, HandleAppendRequest,
           HandleAppendResponse
<1> QED
  BY <1>1, <1>2, <1>3, <1>4, <1>5, ProposeKeepsLead DEF Next, vars, progress

\* In any cluster, a server that goes on leading a term only adds to its log, and what
\* it believes of its peers only grows, whatever late, repeated or reordered answers it
\* is given: what it counts towards a commit is never taken back.
THEOREM LeadersNeverGoBack == Spec => LeaderNeverGoesBack
<1>1. TypeOK /\ [Next]_vars =>
        [\A i \in Server :
           role[i] = "leader" /\ role'[i] = "leader" /\ currentTerm'[i] = currentTerm[i] =>
             /\ \A k \in DOMAIN log[i] : k \in DOMAIN log'[i] /\ log'[i][k] = log[i][k]
             /\ \A j \in Server : matchIndex'[i][j] >= matchIndex[i][j]]_vars
  BY NextKeepsLead DEF KeepsLead
<1> QED
  BY <1>1, TypeCorrect, PTL DEF Spec, LeaderNeverGoesBack

-----------------------------------------------------------------------------
(* Requests                                                                *)

Covers(m) == IsAppend(m) => m.leaderCommit <= LastSent(m)

\* What one step sends.
SendsCovering == \A m \in messages' \ messages : Covers(m)

\* A request reaches the end of the log it is built from, and no commit index is
\* beyond that.
LEMMA AppendForCovers ==
  ASSUME NEW i, NEW j, NEW term, NEW lg \in Seq(Entry), NEW next \in Nat \ {0},
         NEW commit \in Nat, commit <= Len(lg)
  PROVE  Covers(AppendFor(i, j, term, lg, next, commit))
<1>1. Len(SubSeq(lg, next, Len(lg))) = IF next <= Len(lg) THEN Len(lg) - next + 1 ELSE 0
  OBVIOUS
<1> QED
  BY <1>1 DEF AppendFor, Covers, LastSent

LEMMA BroadcastCovers ==
  ASSUME NEW i \in Server, NEW term, NEW lg \in Seq(Entry),
         NEW next \in [Server -> Nat \ {0}], NEW commit \in Nat, commit <= Len(lg)
  PROVE  \A m \in BroadcastAppend(i, term, lg, next, commit) : Covers(m)
<1> SUFFICES ASSUME NEW j \in Peers(i)
             PROVE  Covers(AppendFor(i, j, term, lg, next[j], commit))
  BY DEF BroadcastAppend
<1> next[j] \in Nat \ {0}
  BY DEF Peers
<1> QED
  BY AppendForCovers

LEMMA AppendLocalCovers ==
  ASSUME TypeOK, TypeOK', NEW i \in Server, NEW term,
         NEW command \in Command \cup {Noop}, NEW others,
         \A m \in others : Covers(m), AppendLocal(i, term, command, others)
  PROVE  SendsCovering
<1> DEFINE entry == [term |-> term, command |-> command]
<1>1. /\ log' = [log EXCEPT ![i] = Append(@, entry)]
      /\ messages' = messages \cup (others \cup
           BroadcastAppend(i, term, log'[i], nextIndex'[i], commitIndex[i]))
  BY DEF AppendLocal, Send
<1>2. /\ log \in [Server -> Seq(Entry)] /\ log'[i] \in Seq(Entry)
      /\ nextIndex'[i] \in [Server -> Nat \ {0}]
  BY DEF TypeOK, LogTypeOK, MemberTypeOK
<1>3. log'[i] = Append(log[i], entry)
  BY <1>1, <1>2
<1>4. Len(log'[i]) = Len(log[i]) + 1
  BY <1>3, CommitFields
<1>5. commitIndex[i] \in Nat /\ commitIndex[i] <= Len(log'[i])
  BY <1>4, CommitFields
<1>6. \A m \in BroadcastAppend(i, term, log'[i], nextIndex'[i], commitIndex[i]) : Covers(m)
  BY <1>2, <1>5, BroadcastCovers
<1> QED
  BY <1>1, <1>6 DEF SendsCovering

LEMMA BecomeLeaderCovers ==
  ASSUME TypeOK, TypeOK', NEW i \in Server, NEW term, NEW others,
         \A m \in others : Covers(m), BecomeLeader(i, term, others)
  PROVE  SendsCovering
  BY AppendLocalCovers DEF BecomeLeader, AllAt

LEMMA ElectionTimeoutCovers ==
  ASSUME TypeOK, TypeOK', NEW i \in Server, ElectionTimeout(i)
  PROVE  SendsCovering
<1>1. \A m \in VoteRequests(i, currentTerm[i] + 1) : Covers(m)
  BY VoteRequestFields DEF Covers
<1>2. \/ BecomeLeader(i, currentTerm[i] + 1, VoteRequests(i, currentTerm[i] + 1))
      \/ Send(VoteRequests(i, currentTerm[i] + 1))
  BY DEF ElectionTimeout
<1> QED
  BY <1>1, <1>2, BecomeLeaderCovers DEF Send, SendsCovering

LEMMA HeartbeatTimeoutCovers ==
  ASSUME TypeOK, NEW i \in Server, HeartbeatTimeout(i)
  PROVE  SendsCovering
<1>1. nextIndex[i] \in [Server -> Nat \ {0}]
  BY DEF TypeOK, MemberTypeOK
<1> QED
  BY <1>1, CommitFields, BroadcastCovers DEF HeartbeatTimeout, Send, SendsCovering

\* A leader that hears from a follower builds requests from its unchanged log and
\* the commit index it has just moved inside it.
LEMMA LeaderResponseCovers ==
  ASSUME TypeOK, TypeOK', NEW i \in Server, NEW m \in messages,
         RecordSuccess(i, m) \/ RetryEarlier(i, m)
  PROVE  SendsCovering
<1>1. m.from \in Server
  BY MessageFields DEF TypeOK
<1>2. /\ log' = log /\ log[i] \in Seq(Entry)
      /\ commitIndex'[i] \in Nat /\ commitIndex'[i] <= Len(log[i])
      /\ nextIndex'[i] \in [Server -> Nat \ {0}]
      /\ nextIndex'[i][m.from] \in Nat \ {0}
  <2>1. log' = log
    BY DEF RecordSuccess, RetryEarlier
  <2>2. /\ commitIndex'[i] \in Nat /\ commitIndex'[i] <= Len(log'[i])
        /\ log[i] \in Seq(Entry)
    BY DEF TypeOK, LogTypeOK
  <2>3. nextIndex'[i] \in [Server -> Nat \ {0}]
    BY DEF TypeOK, MemberTypeOK
  <2>4. nextIndex'[i][m.from] \in Nat \ {0}
    BY <1>1, <2>3
  <2> QED
    BY <2>1, <2>2, <2>3, <2>4
<1>3. \A n \in NextAppend(i, m) : Covers(n)
  BY <1>2, AppendForCovers DEF NextAppend
<1>4. \A n \in BroadcastAppend(i, currentTerm[i], log[i], nextIndex'[i], commitIndex'[i]) :
        Covers(n)
  BY <1>2, BroadcastCovers
<1>5. \A n \in messages' \ messages :
        \/ n \in NextAppend(i, m)
        \/ n \in BroadcastAppend(i, currentTerm[i], log[i], nextIndex'[i], commitIndex'[i])
  BY DEF RecordSuccess, RetryEarlier, Send
<1> QED
  BY <1>3, <1>4, <1>5 DEF SendsCovering

\* Replies are not requests.
LEMMA ReplyCovers ==
  ASSUME NEW i, NEW m, NEW term, NEW success, NEW match, NEW hint,
         \/ Send({AppendReply(i, m, term, success, match, hint)})
         \/ Send({VoteReply(i, m, term, success)})
  PROVE  SendsCovering
<1>1. /\ Covers(AppendReply(i, m, term, success, match, hint))
      /\ Covers(VoteReply(i, m, term, success))
  BY ReplyFields DEF Covers
<1>2. ASSUME NEW n, Send({n}), Covers(n)
      PROVE  SendsCovering
  BY <1>2 DEF Send, SendsCovering
<1> QED
  BY <1>1, <1>2

LEMMA NextCovers ==
  ASSUME TypeOK, TypeOK', Next
  PROVE  SendsCovering
<1>1. ASSUME NEW i \in Server, ElectionTimeout(i) \/ HeartbeatTimeout(i)
      PROVE  SendsCovering
  BY <1>1, ElectionTimeoutCovers, HeartbeatTimeoutCovers
<1>2. ASSUME NEW i \in Server, NEW command \in Command, Propose(i, command)
      PROVE  SendsCovering
  BY <1>2, AppendLocalCovers DEF Propose
<1>3. ASSUME NEW i \in Server, Restart(i)
      PROVE  SendsCovering
  BY <1>3 DEF Restart, SendsCovering
<1>4. ASSUME NEW m \in messages, HandleMessage(m)
      PROVE  SendsCovering
  <2>1. m.to \in Server
    BY MessageFields DEF TypeOK
  <2>2. CASE HandleVoteRequest(m.to, m)
    BY <2>2, ReplyCovers DEF HandleVoteRequest, GrantVote, RefuseVote
  <2>3. CASE CountVote(m.to, m)
    BY <2>1, <2>3, BecomeLeaderCovers DEF CountVote, SendsCovering
  <2>4. CASE HandleNewerResponse(m.to, m)
    BY <2>4 DEF HandleNewerResponse, SendsCovering
  <2>5. CASE HandleAppendRequest(m.to, m)
    BY <2>5, ReplyCovers
       DEF HandleAppendRequest, RejectStaleAppend, RejectMismatch, AcceptAppend
  <2>6. CASE RecordSuccess(m.to, m) \/ RetryEarlier(m.to, m)
    BY <2>1, <2>6, LeaderResponseCovers
  <2> QED
    BY <1>4, <2>2, <2>3, <2>4, <2>5, <2>6
       DEF HandleMessage, HandleVoteResponse, HandleAppendResponse
<1> QED
  BY <1>1, <1>2, <1>3, <1>4 DEF Next

\* Every request ever sent carries at least what its sender had committed, in any
\* cluster: the follower that takes it over may bound its commit index by the end
\* of its own log (raft.ts:285).
THEOREM AppendsCoverCommit == Spec => []AppendCoversCommit
<1>1. Init => AppendCoversCommit
  BY DEF Init, AppendCoversCommit
<1>2. TypeOK /\ TypeOK' /\ AppendCoversCommit /\ [Next]_vars => AppendCoversCommit'
  <2>1. ASSUME TypeOK, TypeOK', AppendCoversCommit, Next
        PROVE  AppendCoversCommit'
    BY <2>1, NextCovers DEF SendsCovering, Covers, IsAppend, AppendCoversCommit, LastSent
  <2>2. ASSUME AppendCoversCommit, UNCHANGED vars
        PROVE  AppendCoversCommit'
    BY <2>2 DEF vars, AppendCoversCommit, LastSent
  <2> QED
    BY <2>1, <2>2
<1> QED
  BY <1>1, <1>2, TypeCorrect, PTL DEF Spec

-----------------------------------------------------------------------------
(* What a step does to one server                                          *)

\* Everything a step of a server reads and writes, but for messages.
Member(i) ==
    [currentTerm |-> currentTerm[i], votedFor |-> votedFor[i],
     commitIndex |-> commitIndex[i], log |-> log[i], role |-> role[i],
     leaderId |-> leaderId[i], votes |-> votes[i],
     nextIndex |-> nextIndex[i], matchIndex |-> matchIndex[i]]

\* Server i becomes t and the others are left alone.
Becomes(i, t) ==
    /\ currentTerm' = [currentTerm EXCEPT ![i] = t.currentTerm]
    /\ votedFor' = [votedFor EXCEPT ![i] = t.votedFor]
    /\ commitIndex' = [commitIndex EXCEPT ![i] = t.commitIndex]
    /\ log' = [log EXCEPT ![i] = t.log]
    /\ role' = [role EXCEPT ![i] = t.role]
    /\ leaderId' = [leaderId EXCEPT ![i] = t.leaderId]
    /\ votes' = [votes EXCEPT ![i] = t.votes]
    /\ nextIndex' = [nextIndex EXCEPT ![i] = t.nextIndex]
    /\ matchIndex' = [matchIndex EXCEPT ![i] = t.matchIndex]

\* The actions of Raft as relations between the server before, s, the server after, t,
\* and what it sends.  They have no primes: a state can say that they hold.
SameTerm(s, t) == t.currentTerm = s.currentTerm /\ t.votedFor = s.votedFor
SameLog(s, t) == t.commitIndex = s.commitIndex /\ t.log = s.log
SameRole(s, t) == t.role = s.role /\ t.leaderId = s.leaderId
SameProgress(s, t) == t.nextIndex = s.nextIndex /\ t.matchIndex = s.matchIndex

Forgets(t) ==
    /\ t.votes = {}
    /\ t.nextIndex = [j \in Server |-> 1]
    /\ t.matchIndex = [j \in Server |-> 0]

BecomesFollower(s, t, term, leader) ==
    /\ t.currentTerm = term
    /\ t.votedFor = IF term > s.currentTerm THEN Nil ELSE s.votedFor
    /\ t.role = "follower" /\ t.leaderId = leader
    /\ Forgets(t)

Observes(s, t, m) ==
    IF m.term > s.currentTerm
      THEN BecomesFollower(s, t, m.term, Nil)
      ELSE SameTerm(s, t) /\ SameRole(s, t) /\ t.votes = s.votes /\ SameProgress(s, t)

AdvancesCommit(i, s, t, term) ==
    LET reached == {s.commitIndex} \cup Replicated(i, term, t.log, t.matchIndex)
    IN  t.commitIndex \in reached /\ \A k \in reached : k <= t.commitIndex

Appends(i, s, t, sent, term, command, others) ==
    /\ t.log = Append(s.log, [term |-> term, command |-> command])
    /\ sent = others \cup BroadcastAppend(i, term, t.log, t.nextIndex, s.commitIndex)
    /\ AdvancesCommit(i, s, t, term)

BecomesLeader(i, s, t, sent, term, others) ==
    /\ t.role = "leader" /\ t.leaderId = i
    /\ t.nextIndex = [j \in Server |-> Len(s.log) + 1]
    /\ t.matchIndex = [j \in Server |-> 0]
    /\ Appends(i, s, t, sent, term, Noop, others)

VoteRequestsOf(i, s, term) ==
    {[type |-> "request-vote-request", from |-> i, to |-> j, term |-> term,
      lastLogIndex |-> Len(s.log), lastLogTerm |-> TermAt(s.log, Len(s.log))]
       : j \in Peers(i)}

Campaigning(i, s, t, sent) ==
    LET term == s.currentTerm + 1 IN
    /\ s.role # "leader"
    /\ <<i, term>> \in Campaigns
    /\ t.currentTerm = term /\ t.votedFor = i /\ t.votes = {i}
    /\ \/ /\ {i} \in Quorum
          /\ BecomesLeader(i, s, t, sent, term, VoteRequestsOf(i, s, term))
       \/ /\ {i} \notin Quorum
          /\ t.role = "candidate" /\ t.leaderId = Nil
          /\ sent = VoteRequestsOf(i, s, term)
          /\ SameLog(s, t) /\ SameProgress(s, t)

Beating(i, s, t, sent) ==
    /\ s.role = "leader"
    /\ sent = BroadcastAppend(i, s.currentTerm, s.log, s.nextIndex, s.commitIndex)
    /\ SameTerm(s, t) /\ SameLog(s, t) /\ SameRole(s, t) /\ t.votes = s.votes
    /\ SameProgress(s, t)

Proposing(i, s, t, sent, command) ==
    /\ s.role = "leader"
    /\ Len(s.log) < MaxLogLength
    /\ SameProgress(s, t)
    /\ Appends(i, s, t, sent, s.currentTerm, command, {})
    /\ SameTerm(s, t) /\ SameRole(s, t) /\ t.votes = s.votes

CanGrantFrom(s, m) ==
    LET lastTerm == TermAt(s.log, Len(s.log)) IN
    /\ \/ m.term > s.currentTerm
       \/ m.term = s.currentTerm /\ s.votedFor \in {Nil, m.from}
    /\ \/ m.lastLogTerm > lastTerm
       \/ m.lastLogTerm = lastTerm /\ m.lastLogIndex >= Len(s.log)

Granting(i, s, t, sent, m) ==
    /\ CanGrantFrom(s, m)
    /\ t.currentTerm = m.term /\ t.votedFor = m.from
    /\ t.role = "follower" /\ t.leaderId = Nil
    /\ IF m.term > s.currentTerm
         THEN Forgets(t)
         ELSE t.votes = s.votes /\ SameProgress(s, t)
    /\ sent = {VoteReply(i, m, m.term, TRUE)}
    /\ SameLog(s, t)

Refusing(i, s, t, sent, m) ==
    /\ ~CanGrantFrom(s, m)
    /\ Observes(s, t, m)
    /\ sent = {VoteReply(i, m, t.currentTerm, FALSE)}
    /\ SameLog(s, t)

Counting(i, s, t, sent, m) ==
    /\ m.term = s.currentTerm
    /\ s.role = "candidate"
    /\ m.voteGranted
    /\ t.votes = s.votes \cup {m.from}
    /\ \/ t.votes \in Quorum /\ BecomesLeader(i, s, t, sent, s.currentTerm, {})
       \/ /\ t.votes \notin Quorum
          /\ SameLog(s, t) /\ SameRole(s, t) /\ SameProgress(s, t)
          /\ sent = {}
    /\ SameTerm(s, t)

ObservingNewer(s, t, sent, m) ==
    /\ m.term > s.currentTerm
    /\ BecomesFollower(s, t, m.term, Nil)
    /\ sent = {}
    /\ SameLog(s, t)

RejectingStale(i, s, t, sent, m) ==
    /\ m.term < s.currentTerm
    /\ sent = {AppendReply(i, m, s.currentTerm, FALSE, 0, Len(s.log) + 1)}
    /\ SameTerm(s, t) /\ SameLog(s, t) /\ SameRole(s, t) /\ t.votes = s.votes
    /\ SameProgress(s, t)

PreviousIsIn(s, m) ==
    HasIndex(s.log, m.prevLogIndex) /\ TermAt(s.log, m.prevLogIndex) = m.prevLogTerm

RejectingMismatch(i, s, t, sent, m) ==
    /\ m.term >= s.currentTerm
    /\ ~PreviousIsIn(s, m)
    /\ BecomesFollower(s, t, m.term, m.from)
    /\ sent = {AppendReply(i, m, m.term, FALSE, 0,
                           Smaller(m.prevLogIndex, Len(s.log) + 1))}
    /\ SameLog(s, t)

ConflictsAt(s, m, k) ==
    /\ k \in DOMAIN s.log \cap (m.prevLogIndex + 1 .. LastSent(m))
    /\ s.log[k].term # m.entries[k - m.prevLogIndex].term

Accepting(i, s, t, sent, m) ==
    /\ m.term >= s.currentTerm
    /\ PreviousIsIn(s, m)
    /\ BecomesFollower(s, t, m.term, m.from)
    /\ \E kept \in 0 .. Len(s.log) :
         /\ \A k \in 1 .. kept : ~ConflictsAt(s, m, k)
         /\ kept = Len(s.log) \/ ConflictsAt(s, m, kept + 1)
         /\ ~(kept < s.commitIndex)
         /\ t.log = [k \in 1 .. Larger(kept, LastSent(m)) |->
                       IF k <= kept THEN s.log[k] ELSE m.entries[k - m.prevLogIndex]]
    /\ t.commitIndex = Larger(s.commitIndex, Smaller(m.leaderCommit, Len(t.log)))
    /\ sent = {AppendReply(i, m, m.term, TRUE, LastSent(m), LastSent(m) + 1)}

Continuing(i, s, t, m) ==
    {AppendFor(i, m.from, s.currentTerm, s.log, t.nextIndex[m.from], t.commitIndex)}

Recording(i, s, t, sent, m) ==
    /\ m.term = s.currentTerm
    /\ s.role = "leader"
    /\ m.success
    /\ t.matchIndex = [s.matchIndex EXCEPT ![m.from] = Larger(s.matchIndex[m.from], m.matchIndex)]
    /\ t.nextIndex = [s.nextIndex EXCEPT ![m.from] = t.matchIndex[m.from] + 1]
    /\ t.log = s.log
    /\ AdvancesCommit(i, s, t, s.currentTerm)
    /\ sent = (IF t.commitIndex > s.commitIndex
                 THEN BroadcastAppend(i, s.currentTerm, s.log, t.nextIndex, t.commitIndex)
                 ELSE {})
              \cup
              (IF t.nextIndex[m.from] <= Len(s.log) THEN Continuing(i, s, t, m) ELSE {})
    /\ SameTerm(s, t) /\ SameRole(s, t) /\ t.votes = s.votes

Retrying(i, s, t, sent, m) ==
    /\ m.term = s.currentTerm
    /\ s.role = "leader"
    /\ ~m.success
    /\ t.nextIndex = [s.nextIndex EXCEPT
                        ![m.from] = Larger(1, Smaller(s.nextIndex[m.from] - 1, m.rejectHint))]
    /\ SameTerm(s, t) /\ SameLog(s, t) /\ SameRole(s, t) /\ t.votes = s.votes
    /\ t.matchIndex = s.matchIndex
    /\ sent = Continuing(i, s, t, m)

Handling(i, s, t, sent, m) ==
    \/ /\ m.type = "request-vote-request"
       /\ Granting(i, s, t, sent, m) \/ Refusing(i, s, t, sent, m)
    \/ /\ m.type = "request-vote-response"
       /\ Counting(i, s, t, sent, m) \/ ObservingNewer(s, t, sent, m)
    \/ /\ m.type = "append-entries-request"
       /\ \/ RejectingStale(i, s, t, sent, m)
          \/ RejectingMismatch(i, s, t, sent, m)
          \/ Accepting(i, s, t, sent, m)
    \/ /\ m.type = "append-entries-response"
       /\ \/ Recording(i, s, t, sent, m)
          \/ Retrying(i, s, t, sent, m)
          \/ ObservingNewer(s, t, sent, m)

\* Any step but a restart, which may be handed the messages ms.
Reaction(i, s, t, sent, ms) ==
    \/ Campaigning(i, s, t, sent)
    \/ Beating(i, s, t, sent)
    \/ \E command \in Command : Proposing(i, s, t, sent, command)
    \/ \E m \in ms : m.to = i /\ Handling(i, s, t, sent, m)

\* What is to be known of a server that was s, becomes t, while the others stay.
Moves(i, s, t) ==
    /\ s.currentTerm = currentTerm[i] /\ t.currentTerm = currentTerm'[i]
    /\ s.votedFor = votedFor[i] /\ t.votedFor = votedFor'[i]
    /\ s.commitIndex = commitIndex[i] /\ t.commitIndex = commitIndex'[i]
    /\ s.log = log[i] /\ t.log = log'[i]
    /\ s.role = role[i] /\ t.role = role'[i]
    /\ s.leaderId = leaderId[i] /\ t.leaderId = leaderId'[i]
    /\ s.votes = votes[i] /\ t.votes = votes'[i]
    /\ s.nextIndex = nextIndex[i] /\ t.nextIndex = nextIndex'[i]
    /\ s.matchIndex = matchIndex[i] /\ t.matchIndex = matchIndex'[i]
    /\ t.currentTerm = s.currentTerm => currentTerm' = currentTerm
    /\ t.votedFor = s.votedFor => votedFor' = votedFor
    /\ t.commitIndex = s.commitIndex => commitIndex' = commitIndex
    /\ t.log = s.log => log' = log
    /\ t.role = s.role => role' = role
    /\ t.leaderId = s.leaderId => leaderId' = leaderId
    /\ t.votes = s.votes => votes' = votes
    /\ t.nextIndex = s.nextIndex => nextIndex' = nextIndex
    /\ t.matchIndex = s.matchIndex => matchIndex' = matchIndex

LEMMA MemberMoves ==
  ASSUME TypeOK, NEW i \in Server, NEW t, Becomes(i, t), NEW s, s = Member(i)
  PROVE  Moves(i, s, t)
<1>1. ASSUME NEW T, NEW f \in [Server -> T], NEW f2, NEW v, f2 = [f EXCEPT ![i] = v]
      PROVE  f2[i] = v /\ (v = f[i] => f2 = f)
  BY <1>1
<1>2. /\ s.currentTerm = currentTerm[i] /\ t.currentTerm = currentTerm'[i]
      /\ t.currentTerm = s.currentTerm => currentTerm' = currentTerm
  BY <1>1 DEF Becomes, Member, TypeOK, MemberTypeOK, LogTypeOK
<1>3. /\ s.votedFor = votedFor[i] /\ t.votedFor = votedFor'[i]
      /\ t.votedFor = s.votedFor => votedFor' = votedFor
  BY <1>1 DEF Becomes, Member, TypeOK, MemberTypeOK, LogTypeOK
<1>4. /\ s.commitIndex = commitIndex[i] /\ t.commitIndex = commitIndex'[i]
      /\ t.commitIndex = s.commitIndex => commitIndex' = commitIndex
  BY <1>1 DEF Becomes, Member, TypeOK, MemberTypeOK, LogTypeOK
<1>5. /\ s.log = log[i] /\ t.log = log'[i]
      /\ t.log = s.log => log' = log
  BY <1>1 DEF Becomes, Member, TypeOK, MemberTypeOK, LogTypeOK
<1>6. /\ s.role = role[i] /\ t.role = role'[i]
      /\ t.role = s.role => role' = role
  BY <1>1 DEF Becomes, Member, TypeOK, MemberTypeOK, LogTypeOK
<1>7. /\ s.leaderId = leaderId[i] /\ t.leaderId = leaderId'[i]
      /\ t.leaderId = s.leaderId => leaderId' = leaderId
  BY <1>1 DEF Becomes, Member, TypeOK, MemberTypeOK, LogTypeOK
<1>8. /\ s.votes = votes[i] /\ t.votes = votes'[i]
      /\ t.votes = s.votes => votes' = votes
  BY <1>1 DEF Becomes, Member, TypeOK, MemberTypeOK, LogTypeOK
<1>9. /\ s.nextIndex = nextIndex[i] /\ t.nextIndex = nextIndex'[i]
      /\ t.nextIndex = s.nextIndex => nextIndex' = nextIndex
  BY <1>1 DEF Becomes, Member, TypeOK, MemberTypeOK, LogTypeOK
<1>10. /\ s.matchIndex = matchIndex[i] /\ t.matchIndex = matchIndex'[i]
       /\ t.matchIndex = s.matchIndex => matchIndex' = matchIndex
  BY <1>1 DEF Becomes, Member, TypeOK, MemberTypeOK, LogTypeOK
<1> QED
  BY <1>2, <1>3, <1>4, <1>5, <1>6, <1>7, <1>8, <1>9, <1>10 DEF Moves

\* The relations imply the actions.
LEMMA AppendingIsStep ==
  ASSUME NEW i \in Server, NEW sent, NEW t, Becomes(i, t), NEW s, Moves(i, s, t),
         Send(sent), NEW term, NEW command, NEW others,
         Appends(i, s, t, sent, term, command, others)
  PROVE  AppendLocal(i, term, command, others)
<1>1. log' = [log EXCEPT ![i] = Append(@, [term |-> term, command |-> command])]
  BY DEF Moves, Becomes, Appends
<1>2. Send(others \cup BroadcastAppend(i, term, log'[i], nextIndex'[i], commitIndex[i]))
  BY DEF Moves, Appends
<1>3. AdvanceLeaderCommit(i, term, log'[i], matchIndex'[i])
  BY DEF Moves, Becomes, Appends, AdvancesCommit, AdvanceLeaderCommit
<1> QED
  BY <1>1, <1>2, <1>3 DEF AppendLocal

LEMMA LeadingIsStep ==
  ASSUME NEW i \in Server, NEW sent, NEW t, Becomes(i, t), NEW s, Moves(i, s, t),
         Send(sent), NEW term, NEW others, BecomesLeader(i, s, t, sent, term, others)
  PROVE  BecomeLeader(i, term, others)
<1>1. AppendLocal(i, term, Noop, others)
  BY AppendingIsStep DEF BecomesLeader
<1>2. nextIndex' = [nextIndex EXCEPT ![i] = [j \in Server |-> Len(log[i]) + 1]]
  <2>1. s.log = log[i]
    BY DEF Moves
  <2>2. t.nextIndex = [j \in Server |-> Len(log[i]) + 1]
    BY <2>1 DEF BecomesLeader
  <2> QED
    BY <2>2 DEF Becomes
<1>3. /\ role' = [role EXCEPT ![i] = "leader"]
      /\ leaderId' = [leaderId EXCEPT ![i] = i]
      /\ matchIndex' = [matchIndex EXCEPT ![i] = [j \in Server |-> 0]]
  BY DEF BecomesLeader, Becomes
<1> QED
  BY <1>1, <1>2, <1>3 DEF BecomeLeader, AllAt

LEMMA FollowingIsStep ==
  ASSUME NEW i \in Server, NEW t, Becomes(i, t), NEW s, Moves(i, s, t), NEW term, NEW leader,
         BecomesFollower(s, t, term, leader)
  PROVE  BecomeFollower(i, term, leader)
  BY DEF Moves, Becomes, BecomesFollower, BecomeFollower, Forgets, ForgetVotesAndProgress, AllAt

LEMMA CampaigningIsStep ==
  ASSUME TypeOK, NEW i \in Server, NEW sent, NEW t, Becomes(i, t), NEW s, s = Member(i),
         Send(sent), Campaigning(i, s, t, sent)
  PROVE  ElectionTimeout(i)
<1>a. Moves(i, s, t)
  BY MemberMoves
<1>1. VoteRequestsOf(i, s, currentTerm[i] + 1) = VoteRequests(i, currentTerm[i] + 1)
  BY DEF VoteRequestsOf, VoteRequests, Member
<1>2. /\ role[i] # "leader"
      /\ <<i, currentTerm[i] + 1>> \in Campaigns
      /\ currentTerm' = [currentTerm EXCEPT ![i] = @ + 1]
      /\ votedFor' = [votedFor EXCEPT ![i] = i]
      /\ votes' = [votes EXCEPT ![i] = {i}]
  BY <1>a DEF Moves, Campaigning, Becomes
<1>3. CASE /\ {i} \in Quorum
           /\ BecomesLeader(i, s, t, sent, currentTerm[i] + 1,
                            VoteRequestsOf(i, s, currentTerm[i] + 1))
  <2>1. BecomeLeader(i, currentTerm[i] + 1, VoteRequests(i, currentTerm[i] + 1))
    BY <1>a, <1>1, <1>3, LeadingIsStep
  <2> QED
    BY <1>2, <1>3, <2>1 DEF ElectionTimeout
<1>4. CASE /\ {i} \notin Quorum
           /\ t.role = "candidate" /\ t.leaderId = Nil
           /\ sent = VoteRequestsOf(i, s, currentTerm[i] + 1)
           /\ SameLog(s, t) /\ SameProgress(s, t)
  BY <1>a, <1>1, <1>2, <1>4 DEF Moves, Becomes, ElectionTimeout, SameLog, SameProgress, progress
<1> QED
  BY <1>a, <1>3, <1>4 DEF Moves, Campaigning

LEMMA BeatingIsStep ==
  ASSUME TypeOK, NEW i \in Server, NEW sent, NEW t, Becomes(i, t), NEW s, s = Member(i),
         Send(sent), Beating(i, s, t, sent)
  PROVE  HeartbeatTimeout(i)
<1>a. Moves(i, s, t)
  BY MemberMoves
<1> QED
  BY <1>a DEF Moves, Beating, Becomes, HeartbeatTimeout, SameTerm, SameLog, SameRole,
     SameProgress, progress, hardState

LEMMA ProposingIsStep ==
  ASSUME TypeOK, NEW i \in Server, NEW sent, NEW command, NEW t, Becomes(i, t),
         NEW s, s = Member(i),
         Send(sent),
         Proposing(i, s, t, sent, command)
  PROVE  Propose(i, command)
<1>a. Moves(i, s, t)
  BY MemberMoves
<1> QED
  BY <1>a DEF Moves, Proposing, Becomes, Propose, Appends, AppendLocal, Send, AdvancesCommit,
     AdvanceLeaderCommit, SameTerm, SameRole, SameProgress, progress

LEMMA VoteHandlingIsStep ==
  ASSUME TypeOK, NEW i \in Server, NEW sent, NEW m, NEW t, Becomes(i, t), NEW s, s = Member(i),
         Send(sent)
  PROVE  /\ Granting(i, s, t, sent, m) => GrantVote(i, m)
         /\ Refusing(i, s, t, sent, m) => RefuseVote(i, m)
         /\ Counting(i, s, t, sent, m) => CountVote(i, m)
         /\ ObservingNewer(s, t, sent, m) => HandleNewerResponse(i, m)
<1>a. Moves(i, s, t)
  BY MemberMoves
<1>1. CanGrantFrom(s, m) <=> CanGrant(i, m)
  BY DEF CanGrantFrom, CanGrant, UpToDate, Member
<1>2. ASSUME Granting(i, s, t, sent, m) PROVE GrantVote(i, m)
  BY <1>1, <1>2, <1>a DEF Moves, Granting, Becomes, GrantVote, Forgets, ForgetVotesAndProgress,
     SameLog, SameProgress, progress, AllAt
<1>3. ASSUME Refusing(i, s, t, sent, m) PROVE RefuseVote(i, m)
  <2>1. ObserveTerm(i, m)
    BY <1>3, <1>a, FollowingIsStep
       DEF Moves, Refusing, Observes, ObserveTerm, SameTerm, SameRole, SameProgress, progress
  <2> QED
    BY <1>1, <1>3, <1>a, <2>1 DEF Moves, Refusing, RefuseVote, SameLog
<1>4. ASSUME Counting(i, s, t, sent, m) PROVE CountVote(i, m)
  <2>1. /\ m.term = currentTerm[i]
        /\ role[i] = "candidate"
        /\ m.voteGranted
        /\ votes' = [votes EXCEPT ![i] = @ \cup {m.from}]
        /\ UNCHANGED <<currentTerm, votedFor>>
    BY <1>4, <1>a DEF Moves, Counting, Becomes, SameTerm
  <2>2. CASE t.votes \in Quorum /\ BecomesLeader(i, s, t, sent, s.currentTerm, {})
    <3>1. BecomesLeader(i, s, t, sent, currentTerm[i], {})
      BY <1>a, <2>2 DEF Moves
    <3>2. BecomeLeader(i, currentTerm[i], {})
      BY <1>a, <3>1, LeadingIsStep
    <3> QED
      BY <1>a, <2>1, <2>2, <3>2 DEF Moves, CountVote
  <2>3. CASE /\ t.votes \notin Quorum
             /\ SameLog(s, t) /\ SameRole(s, t) /\ SameProgress(s, t)
             /\ sent = {}
    BY <1>a, <2>1, <2>3 DEF Moves, CountVote, SameLog, SameRole, SameProgress, progress, Send
  <2> QED
    BY <1>4, <2>2, <2>3 DEF Counting
<1>5. ASSUME ObservingNewer(s, t, sent, m)
      PROVE  HandleNewerResponse(i, m)
  BY <1>5, <1>a DEF Moves, ObservingNewer, Becomes, HandleNewerResponse, Send,
     BecomesFollower, BecomeFollower, Forgets, ForgetVotesAndProgress, SameLog, AllAt
<1> QED
  BY <1>2, <1>3, <1>4, <1>5

LEMMA RequestHandlingIsStep ==
  ASSUME TypeOK, NEW i \in Server, NEW sent, NEW m, NEW t, Becomes(i, t), NEW s, s = Member(i),
         Send(sent)
  PROVE  /\ RejectingStale(i, s, t, sent, m) => RejectStaleAppend(i, m)
         /\ RejectingMismatch(i, s, t, sent, m) => RejectMismatch(i, m)
         /\ Accepting(i, s, t, sent, m) => AcceptAppend(i, m)
<1>a. Moves(i, s, t)
  BY MemberMoves
<1>1. PreviousIsIn(s, m) <=> PreviousMatches(i, m)
  BY DEF PreviousIsIn, PreviousMatches, Member
<1>2. \A k : ConflictsAt(s, m, k) <=> Conflicts(i, m, k)
  BY DEF ConflictsAt, Conflicts, Member
<1>3. ASSUME RejectingStale(i, s, t, sent, m)
      PROVE  RejectStaleAppend(i, m)
  BY <1>3, <1>a DEF Moves, RejectingStale, Becomes, RejectStaleAppend, SameTerm, SameRole,
     SameLog, SameProgress, progress, hardState
<1>4. ASSUME RejectingMismatch(i, s, t, sent, m)
      PROVE  RejectMismatch(i, m)
  BY <1>1, <1>4, <1>a DEF Moves, RejectingMismatch, Becomes, RejectMismatch,
     BecomesFollower, BecomeFollower, Forgets, ForgetVotesAndProgress, SameLog, AllAt
<1>5. ASSUME Accepting(i, s, t, sent, m)
      PROVE  AcceptAppend(i, m)
  <2>1. BecomeFollower(i, m.term, m.from)
    BY <1>5, <1>a, FollowingIsStep DEF Accepting
  <2>2. \E kept \in 0 .. Len(log[i]) :
         /\ IsKept(i, m, kept)
         /\ ~OverwritesCommitted(i, kept)
         /\ log' = [log EXCEPT ![i] = MergedLog(i, m, kept)]
    <3>1. s.log = log[i] /\ s.commitIndex = commitIndex[i] /\ log' = [log EXCEPT ![i] = t.log]
      BY <1>a DEF Moves, Becomes
    <3>2. PICK kept \in 0 .. Len(log[i]) :
            /\ \A k \in 1 .. kept : ~ConflictsAt(s, m, k)
            /\ kept = Len(log[i]) \/ ConflictsAt(s, m, kept + 1)
            /\ ~(kept < commitIndex[i])
            /\ t.log = [k \in 1 .. Larger(kept, LastSent(m)) |->
                          IF k <= kept THEN log[i][k] ELSE m.entries[k - m.prevLogIndex]]
      BY <1>5, <3>1 DEF Accepting
    <3> QED
      BY <1>2, <3>1, <3>2 DEF IsKept, OverwritesCommitted, MergedLog
  <2> QED
    BY <1>1, <1>5, <1>a, <2>1, <2>2 DEF Moves, Accepting, Becomes, AcceptAppend, CommitAfterAppend
<1> QED
  BY <1>3, <1>4, <1>5

LEMMA ResponseHandlingIsStep ==
  ASSUME TypeOK, NEW i \in Server, NEW sent, NEW m, NEW t, Becomes(i, t), NEW s, s = Member(i),
         Send(sent)
  PROVE  /\ Recording(i, s, t, sent, m) => RecordSuccess(i, m)
         /\ Retrying(i, s, t, sent, m) => RetryEarlier(i, m)
<1>a. Moves(i, s, t)
  BY MemberMoves
<1>1. ASSUME Recording(i, s, t, sent, m) PROVE RecordSuccess(i, m)
  <2>1. matchIndex' = [matchIndex EXCEPT ![i][m.from] = MatchAfterSuccess(i, m)]
    BY <1>1, <1>a DEF Moves, Recording, Becomes, MatchAfterSuccess
  <2>2. nextIndex' = [nextIndex EXCEPT ![i][m.from] = matchIndex'[i][m.from] + 1]
    BY <1>1, <1>a DEF Moves, Recording, Becomes
  <2>3. AdvanceLeaderCommit(i, currentTerm[i], log[i], matchIndex'[i])
    BY <1>1, <1>a DEF Moves, Recording, Becomes, AdvancesCommit, AdvanceLeaderCommit
  <2>4. Continuing(i, s, t, m) = NextAppend(i, m)
    BY <1>1, <1>a DEF Moves, Recording, Continuing, NextAppend
  <2> QED
    BY <1>1, <1>a, <2>1, <2>2, <2>3, <2>4
       DEF Moves, Recording, RecordSuccess, SameTerm, SameRole
<1>2. ASSUME Retrying(i, s, t, sent, m) PROVE RetryEarlier(i, m)
  BY <1>2, <1>a DEF Moves, Retrying, Becomes, RetryEarlier, NextAfterReject, Continuing,
     NextAppend, SameTerm, SameRole, SameLog, hardState
<1> QED
  BY <1>1, <1>2

\* A server that changes as one of the relations says, while the others are left alone,
\* takes a step of Raft.
LEMMA ReactionIsStep ==
  ASSUME TypeOK, NEW i \in Server, NEW sent, NEW ms, NEW t, Becomes(i, t), NEW s, s = Member(i),
         Send(sent),
         Reaction(i, s, t, sent, ms)
  PROVE  StepOf(i, ms)
<1>1. ASSUME NEW m \in ms, m.to = i, Handling(i, s, t, sent, m)
      PROVE  HandleMessage(m)
  BY <1>1, VoteHandlingIsStep, RequestHandlingIsStep, ResponseHandlingIsStep
     DEF Handling, HandleMessage, HandleVoteRequest, HandleVoteResponse,
         HandleAppendRequest, HandleAppendResponse
<1> QED
  BY <1>1, CampaigningIsStep, BeatingIsStep, ProposingIsStep DEF Reaction, StepOf

\* No step of a server changes another.
StepsAlone(i) ==
    \A j \in Server \ {i} :
      /\ currentTerm'[j] = currentTerm[j]
      /\ votedFor'[j] = votedFor[j]
      /\ commitIndex'[j] = commitIndex[j]
      /\ log'[j] = log[j]
      /\ role'[j] = role[j]
      /\ leaderId'[j] = leaderId[j]
      /\ votes'[j] = votes[j]
      /\ nextIndex'[j] = nextIndex[j]
      /\ matchIndex'[j] = matchIndex[j]

LEMMA AppendLocalIsAlone ==
  ASSUME TypeOK, NEW i \in Server, NEW term, NEW command, NEW others,
         AppendLocal(i, term, command, others)
  PROVE  \A j \in Server \ {i} : log'[j] = log[j] /\ commitIndex'[j] = commitIndex[j]
<1>1. /\ log \in [Server -> Seq(Entry)] /\ commitIndex \in [Server -> Nat]
  BY DEF TypeOK, LogTypeOK
<1>2. \A j \in Server \ {i} : log'[j] = log[j]
  BY <1>1 DEF AppendLocal
<1>3. \A j \in Server \ {i} : commitIndex'[j] = commitIndex[j]
  BY <1>1 DEF AppendLocal, AdvanceLeaderCommit
<1> QED
  BY <1>2, <1>3

LEMMA BecomeLeaderIsAlone ==
  ASSUME TypeOK, NEW i \in Server, NEW term, NEW others, BecomeLeader(i, term, others)
  PROVE  \A j \in Server \ {i} :
           /\ log'[j] = log[j] /\ commitIndex'[j] = commitIndex[j]
           /\ role'[j] = role[j] /\ leaderId'[j] = leaderId[j]
           /\ nextIndex'[j] = nextIndex[j] /\ matchIndex'[j] = matchIndex[j]
<1>1. \A j \in Server \ {i} : log'[j] = log[j] /\ commitIndex'[j] = commitIndex[j]
  BY AppendLocalIsAlone DEF BecomeLeader, AllAt
<1> QED
  BY <1>1 DEF BecomeLeader, TypeOK, MemberTypeOK, AllAt

LEMMA BecomeFollowerIsAlone ==
  ASSUME TypeOK, NEW i \in Server, NEW term, NEW leader, BecomeFollower(i, term, leader)
  PROVE  \A j \in Server \ {i} :
           /\ currentTerm'[j] = currentTerm[j] /\ votedFor'[j] = votedFor[j]
           /\ role'[j] = role[j] /\ leaderId'[j] = leaderId[j] /\ votes'[j] = votes[j]
           /\ nextIndex'[j] = nextIndex[j] /\ matchIndex'[j] = matchIndex[j]
  BY DEF BecomeFollower, ForgetVotesAndProgress, TypeOK, MemberTypeOK, AllAt

LEMMA RecordSuccessIsAlone ==
  ASSUME TypeOK, NEW i \in Server, NEW m, RecordSuccess(i, m)
  PROVE  StepsAlone(i)
<1>1. \A j \in Server \ {i} : commitIndex'[j] = commitIndex[j]
  BY DEF RecordSuccess, AdvanceLeaderCommit, TypeOK, LogTypeOK
<1>2. \A j \in Server \ {i} : nextIndex'[j] = nextIndex[j] /\ matchIndex'[j] = matchIndex[j]
  BY DEF RecordSuccess, TypeOK, MemberTypeOK
<1> QED
  BY <1>1, <1>2 DEF RecordSuccess, StepsAlone

LEMMA HandlingIsAlone ==
  ASSUME TypeOK, NEW i \in Server, NEW m, m.to = i, HandleMessage(m)
  PROVE  StepsAlone(i)
<1>1. CASE GrantVote(i, m)
  BY <1>1 DEF GrantVote, ForgetVotesAndProgress, progress, TypeOK, MemberTypeOK, StepsAlone, AllAt
<1>2. CASE RefuseVote(i, m)
  BY <1>2, BecomeFollowerIsAlone DEF RefuseVote, ObserveTerm, progress, StepsAlone
<1>3. CASE CountVote(i, m)
  <2>1. \A j \in Server \ {i} : votes'[j] = votes[j]
    BY <1>3 DEF CountVote, TypeOK, MemberTypeOK
  <2> QED
    BY <1>3, <2>1, BecomeLeaderIsAlone DEF CountVote, progress, StepsAlone
<1>4. CASE HandleNewerResponse(i, m)
  BY <1>4, BecomeFollowerIsAlone DEF HandleNewerResponse, StepsAlone
<1>5. CASE RejectStaleAppend(i, m)
  BY <1>5 DEF RejectStaleAppend, progress, hardState, StepsAlone
<1>6. CASE RejectMismatch(i, m)
  BY <1>6, BecomeFollowerIsAlone DEF RejectMismatch, StepsAlone
<1>7. CASE AcceptAppend(i, m)
  <2>1. \A j \in Server \ {i} : log'[j] = log[j] /\ commitIndex'[j] = commitIndex[j]
    BY <1>7 DEF AcceptAppend, TypeOK, LogTypeOK
  <2> QED
    BY <1>7, <2>1, BecomeFollowerIsAlone DEF AcceptAppend, StepsAlone
<1>8. CASE RetryEarlier(i, m)
  <2>1. \A j \in Server \ {i} : nextIndex'[j] = nextIndex[j]
    BY <1>8 DEF RetryEarlier, TypeOK, MemberTypeOK
  <2> QED
    BY <1>8, <2>1 DEF RetryEarlier, hardState, StepsAlone
<1> QED
  BY <1>1, <1>2, <1>3, <1>4, <1>5, <1>6, <1>7, <1>8, RecordSuccessIsAlone
     DEF HandleMessage, HandleVoteRequest, HandleVoteResponse, HandleAppendRequest,
         HandleAppendResponse

LEMMA StepIsAlone ==
  ASSUME TypeOK, NEW i \in Server, NEW ms, StepOf(i, ms)
  PROVE  StepsAlone(i)
<1>1. CASE ElectionTimeout(i)
  <2>1. \A j \in Server \ {i} :
          currentTerm'[j] = currentTerm[j] /\ votedFor'[j] = votedFor[j] /\ votes'[j] = votes[j]
    BY <1>1 DEF ElectionTimeout, TypeOK, MemberTypeOK
  <2>2. CASE BecomeLeader(i, currentTerm[i] + 1, VoteRequests(i, currentTerm[i] + 1))
    BY <2>1, <2>2, BecomeLeaderIsAlone DEF StepsAlone
  <2>3. CASE /\ role' = [role EXCEPT ![i] = "candidate"]
             /\ leaderId' = [leaderId EXCEPT ![i] = Nil]
             /\ UNCHANGED <<commitIndex, log, progress>>
    BY <2>1, <2>3 DEF progress, StepsAlone, TypeOK, MemberTypeOK
  <2> QED
    BY <1>1, <2>2, <2>3 DEF ElectionTimeout
<1>2. CASE HeartbeatTimeout(i)
  BY <1>2 DEF HeartbeatTimeout, progress, hardState, StepsAlone
<1>3. ASSUME NEW command \in Command, Propose(i, command)
      PROVE  StepsAlone(i)
  BY <1>3, AppendLocalIsAlone DEF Propose, progress, StepsAlone
<1>4. CASE Restart(i)
  BY <1>4 DEF Restart, ForgetVotesAndProgress, hardState, StepsAlone, TypeOK, MemberTypeOK, AllAt
<1> QED
  BY <1>1, <1>2, <1>3, <1>4, HandlingIsAlone DEF StepOf

LEMMA AloneMoves ==
  ASSUME TypeOK, TypeOK', NEW i \in Server, StepsAlone(i),
         NEW s, s = Member(i), NEW t, t = Member(i)'
  PROVE  Becomes(i, t) /\ Moves(i, s, t)
<1>1. ASSUME NEW T, NEW f \in [Server -> T], NEW f2 \in [Server -> T],
             \A j \in Server \ {i} : f2[j] = f[j]
      PROVE  f2 = [f EXCEPT ![i] = f2[i]] /\ (f2[i] = f[i] => f2 = f)
  BY <1>1
<1>2. /\ s.currentTerm = currentTerm[i] /\ t.currentTerm = currentTerm'[i]
      /\ currentTerm' = [currentTerm EXCEPT ![i] = currentTerm'[i]]
      /\ (currentTerm'[i] = currentTerm[i] => currentTerm' = currentTerm)
  BY <1>1 DEF Member, StepsAlone, TypeOK, MemberTypeOK, LogTypeOK
<1>3. /\ s.votedFor = votedFor[i] /\ t.votedFor = votedFor'[i]
      /\ votedFor' = [votedFor EXCEPT ![i] = votedFor'[i]]
      /\ (votedFor'[i] = votedFor[i] => votedFor' = votedFor)
  BY <1>1 DEF Member, StepsAlone, TypeOK, MemberTypeOK, LogTypeOK
<1>4. /\ s.commitIndex = commitIndex[i] /\ t.commitIndex = commitIndex'[i]
      /\ commitIndex' = [commitIndex EXCEPT ![i] = commitIndex'[i]]
      /\ (commitIndex'[i] = commitIndex[i] => commitIndex' = commitIndex)
  BY <1>1 DEF Member, StepsAlone, TypeOK, MemberTypeOK, LogTypeOK
<1>5. /\ s.log = log[i] /\ t.log = log'[i]
      /\ log' = [log EXCEPT ![i] = log'[i]] /\ (log'[i] = log[i] => log' = log)
  BY <1>1 DEF Member, StepsAlone, TypeOK, MemberTypeOK, LogTypeOK
<1>6. /\ s.role = role[i] /\ t.role = role'[i]
      /\ role' = [role EXCEPT ![i] = role'[i]] /\ (role'[i] = role[i] => role' = role)
  BY <1>1 DEF Member, StepsAlone, TypeOK, MemberTypeOK, LogTypeOK
<1>7. /\ s.leaderId = leaderId[i] /\ t.leaderId = leaderId'[i]
      /\ leaderId' = [leaderId EXCEPT ![i] = leaderId'[i]]
      /\ (leaderId'[i] = leaderId[i] => leaderId' = leaderId)
  BY <1>1 DEF Member, StepsAlone, TypeOK, MemberTypeOK, LogTypeOK
<1>8. /\ s.votes = votes[i] /\ t.votes = votes'[i]
      /\ votes' = [votes EXCEPT ![i] = votes'[i]] /\ (votes'[i] = votes[i] => votes' = votes)
  BY <1>1 DEF Member, StepsAlone, TypeOK, MemberTypeOK, LogTypeOK
<1>9. /\ s.nextIndex = nextIndex[i] /\ t.nextIndex = nextIndex'[i]
      /\ nextIndex' = [nextIndex EXCEPT ![i] = nextIndex'[i]]
      /\ (nextIndex'[i] = nextIndex[i] => nextIndex' = nextIndex)
  BY <1>1 DEF Member, StepsAlone, TypeOK, MemberTypeOK, LogTypeOK
<1>10. /\ s.matchIndex = matchIndex[i] /\ t.matchIndex = matchIndex'[i]
       /\ matchIndex' = [matchIndex EXCEPT ![i] = matchIndex'[i]]
       /\ (matchIndex'[i] = matchIndex[i] => matchIndex' = matchIndex)
  BY <1>1 DEF Member, StepsAlone, TypeOK, MemberTypeOK, LogTypeOK
<1>20. Becomes(i, t)
  BY <1>2, <1>3, <1>4, <1>5, <1>6, <1>7, <1>8, <1>9, <1>10 DEF Becomes
<1>21. Moves(i, s, t)
  BY <1>2, <1>3, <1>4, <1>5, <1>6, <1>7, <1>8, <1>9, <1>10 DEF Moves
<1> QED
  BY <1>20, <1>21

\* The actions imply the relations.
LEMMA AdvanceIsAdvancing ==
  ASSUME TypeOK, NEW i \in Server, NEW s, NEW t, Moves(i, s, t), NEW term,
         NEW lg, lg = log'[i], AdvanceLeaderCommit(i, term, lg, matchIndex'[i])
  PROVE  AdvancesCommit(i, s, t, term)
<1>1. PICK commit \in {commitIndex[i]} \cup Replicated(i, term, lg, matchIndex'[i]) :
        /\ \A k \in {commitIndex[i]} \cup Replicated(i, term, lg, matchIndex'[i]) : k <= commit
        /\ commitIndex' = [commitIndex EXCEPT ![i] = commit]
  BY DEF AdvanceLeaderCommit
<1>2. commitIndex'[i] = commit
  BY <1>1 DEF TypeOK, LogTypeOK
<1> QED
  BY <1>1, <1>2 DEF AdvancesCommit, Moves

LEMMA StepIsAppending ==
  ASSUME TypeOK, NEW i \in Server, NEW s, NEW t, Moves(i, s, t),
         NEW term, NEW command, NEW others, AppendLocal(i, term, command, others)
  PROVE  \E sent : Send(sent) /\ Appends(i, s, t, sent, term, command, others)
<1>1. Send(others \cup BroadcastAppend(i, term, t.log, t.nextIndex, s.commitIndex))
  BY DEF AppendLocal, Moves
<1>2. t.log = Append(s.log, [term |-> term, command |-> command])
  BY DEF AppendLocal, Moves, TypeOK, LogTypeOK
<1>3. PICK lg : lg = log'[i] /\ AdvanceLeaderCommit(i, term, lg, matchIndex'[i])
  BY DEF AppendLocal
<1>4. AdvancesCommit(i, s, t, term)
  BY <1>3, AdvanceIsAdvancing
<1> QED
  BY <1>1, <1>2, <1>4 DEF Appends

LEMMA StepIsLeading ==
  ASSUME TypeOK, NEW i \in Server, NEW s, NEW t, Moves(i, s, t),
         NEW term, NEW others, BecomeLeader(i, term, others)
  PROVE  \E sent : Send(sent) /\ BecomesLeader(i, s, t, sent, term, others)
<1>1. PICK sent : Send(sent) /\ Appends(i, s, t, sent, term, Noop, others)
  BY StepIsAppending DEF BecomeLeader, AllAt
<1>2. /\ role'[i] = "leader" /\ leaderId'[i] = i
      /\ nextIndex'[i] = [j \in Server |-> Len(log[i]) + 1]
      /\ matchIndex'[i] = [j \in Server |-> 0]
  BY DEF BecomeLeader, TypeOK, MemberTypeOK, AllAt
<1>3. s.log = log[i]
  BY DEF Moves
<1>4. t.nextIndex = [j \in Server |-> Len(s.log) + 1]
  BY <1>2, <1>3 DEF Moves
<1> QED
  BY <1>1, <1>2, <1>4 DEF Moves, BecomesLeader

LEMMA StepIsFollowing ==
  ASSUME TypeOK, NEW i \in Server, NEW s, NEW t, Moves(i, s, t), NEW term, NEW leader,
         BecomeFollower(i, term, leader)
  PROVE  BecomesFollower(s, t, term, leader)
<1>1. /\ currentTerm'[i] = term
      /\ votedFor'[i] = IF term > currentTerm[i] THEN Nil ELSE votedFor[i]
      /\ role'[i] = "follower" /\ leaderId'[i] = leader /\ votes'[i] = {}
      /\ nextIndex'[i] = [j \in Server |-> 1] /\ matchIndex'[i] = [j \in Server |-> 0]
  BY DEF BecomeFollower, ForgetVotesAndProgress, TypeOK, MemberTypeOK, AllAt
<1> QED
  BY <1>1 DEF Moves, BecomesFollower, Forgets

LEMMA StepIsCampaigning ==
  ASSUME TypeOK, NEW i \in Server, NEW s, NEW t, Moves(i, s, t), ElectionTimeout(i)
  PROVE  \E sent : Send(sent) /\ Campaigning(i, s, t, sent)
<1>1. VoteRequestsOf(i, s, currentTerm[i] + 1) = VoteRequests(i, currentTerm[i] + 1)
  BY DEF VoteRequestsOf, VoteRequests, Moves
<1>2. /\ s.role # "leader"
      /\ <<i, s.currentTerm + 1>> \in Campaigns
      /\ t.currentTerm = s.currentTerm + 1 /\ t.votedFor = i /\ t.votes = {i}
  BY DEF ElectionTimeout, Moves, TypeOK, MemberTypeOK
<1>3. CASE /\ {i} \in Quorum
           /\ BecomeLeader(i, currentTerm[i] + 1, VoteRequests(i, currentTerm[i] + 1))
  <2>1. PICK sent : /\ Send(sent)
                    /\ BecomesLeader(i, s, t, sent, currentTerm[i] + 1,
                                     VoteRequests(i, currentTerm[i] + 1))
    BY <1>3, StepIsLeading
  <2>2. s.currentTerm = currentTerm[i]
    BY DEF Moves
  <2> QED
    BY <1>1, <1>2, <1>3, <2>1, <2>2 DEF Campaigning
<1>4. CASE /\ {i} \notin Quorum
           /\ role' = [role EXCEPT ![i] = "candidate"]
           /\ leaderId' = [leaderId EXCEPT ![i] = Nil]
           /\ Send(VoteRequests(i, currentTerm[i] + 1))
           /\ UNCHANGED <<commitIndex, log, progress>>
  <2>1. t.role = "candidate" /\ t.leaderId = Nil /\ SameLog(s, t) /\ SameProgress(s, t)
    BY <1>4 DEF Moves, SameLog, SameProgress, progress, TypeOK, MemberTypeOK
  <2>2. Send(VoteRequestsOf(i, s, s.currentTerm + 1)) /\ s.currentTerm = currentTerm[i]
    BY <1>1, <1>4 DEF Moves
  <2> QED
    BY <1>2, <1>4, <2>1, <2>2 DEF Campaigning
<1> QED
  BY <1>3, <1>4 DEF ElectionTimeout

LEMMA StepIsBeating ==
  ASSUME TypeOK, NEW i \in Server, NEW s, NEW t, Moves(i, s, t), HeartbeatTimeout(i)
  PROVE  \E sent : Send(sent) /\ Beating(i, s, t, sent)
<1>1. Send(BroadcastAppend(i, s.currentTerm, s.log, s.nextIndex, s.commitIndex))
  BY DEF HeartbeatTimeout, Moves
<1> QED
  BY <1>1 DEF HeartbeatTimeout, Moves, Beating, SameTerm, SameLog, SameRole, SameProgress,
     hardState, progress

LEMMA StepIsProposing ==
  ASSUME TypeOK, NEW i \in Server, NEW s, NEW t, Moves(i, s, t), NEW command, Propose(i, command)
  PROVE  \E sent : Send(sent) /\ Proposing(i, s, t, sent, command)
<1>1. PICK sent : Send(sent) /\ Appends(i, s, t, sent, currentTerm[i], command, {})
  BY StepIsAppending DEF Propose
<1>2. s.currentTerm = currentTerm[i]
  BY DEF Moves
<1> QED
  BY <1>1, <1>2 DEF Propose, Moves, Proposing, SameTerm, SameRole, SameProgress, progress

LEMMA StepIsVoteHandling ==
  ASSUME TypeOK, NEW i \in Server, NEW s, NEW t, Moves(i, s, t), NEW m
  PROVE  /\ GrantVote(i, m) => \E sent : Send(sent) /\ Granting(i, s, t, sent, m)
         /\ RefuseVote(i, m) => \E sent : Send(sent) /\ Refusing(i, s, t, sent, m)
         /\ CountVote(i, m) => \E sent : Send(sent) /\ Counting(i, s, t, sent, m)
         /\ HandleNewerResponse(i, m) =>
              \E sent : Send(sent) /\ ObservingNewer(s, t, sent, m)
<1>1. CanGrantFrom(s, m) <=> CanGrant(i, m)
  BY DEF CanGrantFrom, CanGrant, UpToDate, Moves
<1>2. ASSUME GrantVote(i, m) PROVE \E sent : Send(sent) /\ Granting(i, s, t, sent, m)
  <2>1. /\ t.currentTerm = m.term /\ t.votedFor = m.from
        /\ t.role = "follower" /\ t.leaderId = Nil
        /\ SameLog(s, t)
    BY <1>2 DEF GrantVote, Moves, SameLog, TypeOK, MemberTypeOK
  <2>2. IF m.term > s.currentTerm
          THEN Forgets(t)
          ELSE t.votes = s.votes /\ SameProgress(s, t)
    BY <1>2 DEF GrantVote, ForgetVotesAndProgress, Moves, Forgets, SameProgress, progress,
       TypeOK, MemberTypeOK, AllAt
  <2>3. Send({VoteReply(i, m, m.term, TRUE)})
    BY <1>2 DEF GrantVote
  <2> QED
    BY <1>1, <1>2, <2>1, <2>2, <2>3 DEF GrantVote, Granting
<1>3. ASSUME RefuseVote(i, m) PROVE \E sent : Send(sent) /\ Refusing(i, s, t, sent, m)
  <2>1. Observes(s, t, m)
    BY <1>3, StepIsFollowing
       DEF RefuseVote, ObserveTerm, Moves, Observes, SameTerm, SameRole, SameProgress, progress
  <2>2. Send({VoteReply(i, m, t.currentTerm, FALSE)}) /\ SameLog(s, t)
    BY <1>3 DEF RefuseVote, Moves, SameLog
  <2> QED
    BY <1>1, <1>3, <2>1, <2>2 DEF RefuseVote, Refusing
<1>4. ASSUME CountVote(i, m) PROVE \E sent : Send(sent) /\ Counting(i, s, t, sent, m)
  <2>1. /\ m.term = s.currentTerm
        /\ s.role = "candidate"
        /\ m.voteGranted
        /\ t.votes = s.votes \cup {m.from}
        /\ SameTerm(s, t)
    BY <1>4 DEF CountVote, Moves, SameTerm, TypeOK, MemberTypeOK
  <2>2. CASE votes'[i] \in Quorum /\ BecomeLeader(i, currentTerm[i], {})
    <3>1. PICK sent : Send(sent) /\ BecomesLeader(i, s, t, sent, currentTerm[i], {})
      BY <2>2, StepIsLeading
    <3>2. t.votes \in Quorum /\ s.currentTerm = currentTerm[i]
      BY <2>2 DEF Moves
    <3> QED
      BY <2>1, <3>1, <3>2 DEF Counting
  <2>3. CASE /\ votes'[i] \notin Quorum
             /\ UNCHANGED <<commitIndex, log, role, leaderId, progress, messages>>
    <3>1. /\ t.votes \notin Quorum /\ SameLog(s, t) /\ SameRole(s, t) /\ SameProgress(s, t)
          /\ Send({})
      BY <2>3 DEF Moves, SameLog, SameRole, SameProgress, progress, Send
    <3> QED
      BY <2>1, <3>1 DEF Counting
  <2> QED
    BY <1>4, <2>2, <2>3 DEF CountVote
<1>5. ASSUME HandleNewerResponse(i, m)
      PROVE  \E sent : Send(sent) /\ ObservingNewer(s, t, sent, m)
  <2>1. BecomesFollower(s, t, m.term, Nil)
    BY <1>5, StepIsFollowing DEF HandleNewerResponse
  <2>2. m.term > s.currentTerm /\ SameLog(s, t) /\ Send({})
    BY <1>5 DEF HandleNewerResponse, Moves, SameLog, Send
  <2> QED
    BY <2>1, <2>2 DEF ObservingNewer
<1> QED
  BY <1>2, <1>3, <1>4, <1>5

LEMMA StepIsRequestHandling ==
  ASSUME TypeOK, NEW i \in Server, NEW s, NEW t, Moves(i, s, t), NEW m
  PROVE  /\ RejectStaleAppend(i, m) => \E sent : Send(sent) /\ RejectingStale(i, s, t, sent, m)
         /\ RejectMismatch(i, m) => \E sent : Send(sent) /\ RejectingMismatch(i, s, t, sent, m)
         /\ AcceptAppend(i, m) => \E sent : Send(sent) /\ Accepting(i, s, t, sent, m)
<1>1. PreviousIsIn(s, m) <=> PreviousMatches(i, m)
  BY DEF PreviousIsIn, PreviousMatches, Moves
<1>2. \A k : ConflictsAt(s, m, k) <=> Conflicts(i, m, k)
  BY DEF ConflictsAt, Conflicts, Moves
<1>3. ASSUME RejectStaleAppend(i, m)
      PROVE  \E sent : Send(sent) /\ RejectingStale(i, s, t, sent, m)
  <2>1. Send({AppendReply(i, m, s.currentTerm, FALSE, 0, Len(s.log) + 1)})
    BY <1>3 DEF RejectStaleAppend, Moves
  <2> QED
    BY <1>3, <2>1 DEF RejectStaleAppend, Moves, RejectingStale, SameTerm, SameRole, SameLog,
       SameProgress, progress, hardState
<1>4. ASSUME RejectMismatch(i, m)
      PROVE  \E sent : Send(sent) /\ RejectingMismatch(i, s, t, sent, m)
  <2>1. BecomesFollower(s, t, m.term, m.from)
    BY <1>4, StepIsFollowing DEF RejectMismatch
  <2>2. Send({AppendReply(i, m, m.term, FALSE, 0, Smaller(m.prevLogIndex, Len(s.log) + 1))})
    BY <1>4 DEF RejectMismatch, Moves
  <2>3. m.term >= s.currentTerm /\ SameLog(s, t)
    BY <1>4 DEF RejectMismatch, Moves, SameLog
  <2> QED
    BY <1>1, <1>4, <2>1, <2>2, <2>3 DEF RejectMismatch, RejectingMismatch
<1>5. ASSUME AcceptAppend(i, m)
      PROVE  \E sent : Send(sent) /\ Accepting(i, s, t, sent, m)
  <2>1. BecomesFollower(s, t, m.term, m.from)
    BY <1>5, StepIsFollowing DEF AcceptAppend
  <2>2. m.term >= s.currentTerm /\ PreviousIsIn(s, m)
    BY <1>1, <1>5 DEF AcceptAppend, Moves
  <2>3. \E kept \in 0 .. Len(s.log) :
          /\ \A k \in 1 .. kept : ~ConflictsAt(s, m, k)
          /\ kept = Len(s.log) \/ ConflictsAt(s, m, kept + 1)
          /\ ~(kept < s.commitIndex)
          /\ t.log = [k \in 1 .. Larger(kept, LastSent(m)) |->
                        IF k <= kept THEN s.log[k] ELSE m.entries[k - m.prevLogIndex]]
    <3>1. s.log = log[i] /\ s.commitIndex = commitIndex[i] /\ t.log = log'[i]
      BY DEF Moves
    <3>2. PICK kept \in 0 .. Len(log[i]) :
            /\ IsKept(i, m, kept)
            /\ ~OverwritesCommitted(i, kept)
            /\ log' = [log EXCEPT ![i] = MergedLog(i, m, kept)]
      BY <1>5 DEF AcceptAppend
    <3>3. log'[i] = MergedLog(i, m, kept)
      BY <3>2 DEF TypeOK, LogTypeOK
    <3> QED
      BY <1>2, <3>1, <3>2, <3>3 DEF IsKept, OverwritesCommitted, MergedLog
  <2>4. t.commitIndex = Larger(s.commitIndex, Smaller(m.leaderCommit, Len(t.log)))
    BY <1>5 DEF AcceptAppend, CommitAfterAppend, Moves, TypeOK, LogTypeOK
  <2>5. Send({AppendReply(i, m, m.term, TRUE, LastSent(m), LastSent(m) + 1)})
    BY <1>5 DEF AcceptAppend
  <2> QED
    BY <2>1, <2>2, <2>3, <2>4, <2>5 DEF Accepting
<1> QED
  BY <1>3, <1>4, <1>5

LEMMA StepIsResponseHandling ==
  ASSUME TypeOK, NEW i \in Server, NEW s, NEW t, Moves(i, s, t), NEW m, m.from \in Server
  PROVE  /\ RecordSuccess(i, m) => \E sent : Send(sent) /\ Recording(i, s, t, sent, m)
         /\ RetryEarlier(i, m) => \E sent : Send(sent) /\ Retrying(i, s, t, sent, m)
<1>1. ASSUME RecordSuccess(i, m) PROVE \E sent : Send(sent) /\ Recording(i, s, t, sent, m)
  <2>1. matchIndex'[i] = [matchIndex[i] EXCEPT ![m.from] = MatchAfterSuccess(i, m)]
    BY <1>1 DEF RecordSuccess, TypeOK, MemberTypeOK
  <2>2. nextIndex'[i] = [nextIndex[i] EXCEPT ![m.from] = matchIndex'[i][m.from] + 1]
    BY <1>1 DEF RecordSuccess, TypeOK, MemberTypeOK
  <2>3. AdvancesCommit(i, s, t, s.currentTerm) /\ t.log = s.log
    <3>1. PICK lg, term : /\ lg = log[i] /\ term = currentTerm[i] /\ log' = log
                          /\ AdvanceLeaderCommit(i, term, lg, matchIndex'[i])
      BY <1>1 DEF RecordSuccess
    <3>2. AdvancesCommit(i, s, t, term)
      BY <3>1, AdvanceIsAdvancing
    <3> QED
      BY <3>1, <3>2 DEF Moves
  <2>4. Continuing(i, s, t, m) = NextAppend(i, m)
    BY DEF Moves, Continuing, NextAppend
  <2>5. Send((IF t.commitIndex > s.commitIndex
                THEN BroadcastAppend(i, s.currentTerm, s.log, t.nextIndex, t.commitIndex)
                ELSE {})
             \cup
             (IF t.nextIndex[m.from] <= Len(s.log) THEN Continuing(i, s, t, m) ELSE {}))
    BY <1>1, <2>4 DEF RecordSuccess, Moves
  <2>6. t.matchIndex = [s.matchIndex EXCEPT ![m.from] = Larger(s.matchIndex[m.from], m.matchIndex)]
    BY <2>1 DEF Moves, MatchAfterSuccess
  <2>7. t.nextIndex = [s.nextIndex EXCEPT ![m.from] = t.matchIndex[m.from] + 1]
    BY <2>2 DEF Moves
  <2>8. /\ m.term = s.currentTerm /\ s.role = "leader" /\ m.success
        /\ SameTerm(s, t) /\ SameRole(s, t) /\ t.votes = s.votes
    BY <1>1 DEF RecordSuccess, Moves, SameTerm, SameRole
  <2> QED
    BY <2>3, <2>5, <2>6, <2>7, <2>8 DEF Recording
<1>2. ASSUME RetryEarlier(i, m) PROVE \E sent : Send(sent) /\ Retrying(i, s, t, sent, m)
  <2>1. nextIndex'[i] = [nextIndex[i] EXCEPT ![m.from] = NextAfterReject(i, m)]
    BY <1>2 DEF RetryEarlier, TypeOK, MemberTypeOK
  <2>2. t.nextIndex = [s.nextIndex EXCEPT
                         ![m.from] = Larger(1, Smaller(s.nextIndex[m.from] - 1, m.rejectHint))]
    BY <2>1 DEF Moves, NextAfterReject
  <2>3. Send(Continuing(i, s, t, m))
    BY <1>2 DEF RetryEarlier, Moves, Continuing, NextAppend
  <2> QED
    BY <1>2, <2>2, <2>3 DEF RetryEarlier, Moves, Retrying, SameTerm, SameRole, SameLog, hardState
<1> QED
  BY <1>1, <1>2

\* A step of a server, other than a restart, changes it as one of the relations says,
\* and leaves the others alone.
LEMMA StepIsReaction ==
  ASSUME TypeOK, TypeOK', NEW i \in Server, NEW ms \in SUBSET RaftMessage,
         StepOf(i, ms), ~Restart(i), NEW s, s = Member(i), NEW t, t = Member(i)'
  PROVE  /\ Becomes(i, t)
         /\ \E sent : Send(sent) /\ Reaction(i, s, t, sent, ms)
<1>1. Becomes(i, t) /\ Moves(i, s, t)
  BY StepIsAlone, AloneMoves
<1>2. ASSUME NEW m \in ms, m.to = i, HandleMessage(m)
      PROVE  \E sent : Send(sent) /\ Handling(i, s, t, sent, m)
  <2>1. m.from \in Server
    BY RaftMessageFields
  <2>2. CASE m.type = "request-vote-request" /\ HandleVoteRequest(i, m)
    BY <1>1, <2>2, StepIsVoteHandling DEF HandleVoteRequest, Handling
  <2>3. CASE m.type = "request-vote-response" /\ HandleVoteResponse(i, m)
    BY <1>1, <2>3, StepIsVoteHandling DEF HandleVoteResponse, Handling
  <2>4. CASE m.type = "append-entries-request" /\ HandleAppendRequest(i, m)
    BY <1>1, <2>4, StepIsRequestHandling DEF HandleAppendRequest, Handling
  <2>5. CASE m.type = "append-entries-response" /\ HandleAppendResponse(i, m)
    BY <1>1, <2>1, <2>5, StepIsResponseHandling, StepIsVoteHandling
       DEF HandleAppendResponse, Handling
  <2> QED
    BY <1>2, <2>2, <2>3, <2>4, <2>5 DEF HandleMessage
<1>3. ASSUME NEW command \in Command, Propose(i, command)
      PROVE  \E sent : Send(sent) /\ Proposing(i, s, t, sent, command)
  BY <1>1, <1>3, StepIsProposing
<1>4. \E sent : Send(sent) /\ Reaction(i, s, t, sent, ms)
  BY <1>1, <1>2, <1>3, StepIsCampaigning, StepIsBeating DEF StepOf, Reaction
<1> QED
  BY <1>1, <1>4

\* What a server sends is from itself and of the term it is in then.
LEMMA ReactionSends ==
  ASSUME NEW i, NEW s, NEW t, NEW sent, NEW ms, Reaction(i, s, t, sent, ms)
  PROVE  \A m \in sent : m.from = i /\ m.term = t.currentTerm
<1>1. \A term, lg, next, commit :
        \A m \in BroadcastAppend(i, term, lg, next, commit) : m.from = i /\ m.term = term
  BY DEF BroadcastAppend, AppendFor
<1>2. \A term : \A m \in VoteRequestsOf(i, s, term) : m.from = i /\ m.term = term
  BY DEF VoteRequestsOf
<1>3. CASE Campaigning(i, s, t, sent)
  BY <1>1, <1>2, <1>3 DEF Campaigning, BecomesLeader, Appends
<1>4. CASE Beating(i, s, t, sent)
  BY <1>1, <1>4 DEF Beating, SameTerm
<1>5. ASSUME NEW command \in Command, Proposing(i, s, t, sent, command)
      PROVE  \A m \in sent : m.from = i /\ m.term = t.currentTerm
  BY <1>1, <1>5 DEF Proposing, Appends, SameTerm
<1>6. ASSUME NEW m \in ms, Handling(i, s, t, sent, m)
      PROVE  \A n \in sent : n.from = i /\ n.term = t.currentTerm
  <2>1. CASE Granting(i, s, t, sent, m) \/ Refusing(i, s, t, sent, m)
    BY <2>1 DEF Granting, Refusing, VoteReply
  <2>2. CASE Counting(i, s, t, sent, m)
    BY <1>1, <2>2 DEF Counting, BecomesLeader, Appends, SameTerm
  <2>3. CASE ObservingNewer(s, t, sent, m)
    BY <2>3 DEF ObservingNewer
  <2>4. CASE RejectingStale(i, s, t, sent, m)
    BY <2>4 DEF RejectingStale, AppendReply, SameTerm
  <2>5. CASE RejectingMismatch(i, s, t, sent, m) \/ Accepting(i, s, t, sent, m)
    BY <2>5 DEF RejectingMismatch, Accepting, AppendReply, BecomesFollower
  <2>6. CASE Recording(i, s, t, sent, m) \/ Retrying(i, s, t, sent, m)
    BY <1>1, <2>6 DEF Recording, Retrying, Continuing, AppendFor, SameTerm
  <2> QED
    BY <1>6, <2>1, <2>2, <2>3, <2>4, <2>5, <2>6 DEF Handling
<1> QED
  BY <1>3, <1>4, <1>5, <1>6 DEF Reaction

\* A server never goes back to an earlier term, nor changes its vote within one.
LEMMA ReactionKeepsVote ==
  ASSUME NEW i, NEW s, NEW t, NEW sent, NEW ms \in SUBSET RaftMessage,
         Reaction(i, s, t, sent, ms), s.currentTerm \in Nat, Nil \notin Server
  PROVE  /\ t.currentTerm >= s.currentTerm
         /\ t.currentTerm = s.currentTerm /\ s.votedFor # Nil => t.votedFor = s.votedFor
<1>1. CASE Campaigning(i, s, t, sent)
  BY <1>1 DEF Campaigning
<1>2. CASE Beating(i, s, t, sent)
  BY <1>2 DEF Beating, SameTerm
<1>3. ASSUME NEW command \in Command, Proposing(i, s, t, sent, command)
      PROVE  SameTerm(s, t)
  BY <1>3 DEF Proposing
<1>4. ASSUME NEW m \in ms, Handling(i, s, t, sent, m)
      PROVE  /\ t.currentTerm >= s.currentTerm
             /\ t.currentTerm = s.currentTerm /\ s.votedFor # Nil => t.votedFor = s.votedFor
  <2>0. m.term \in Nat
    BY RaftMessageFields
  <2>1. CASE Granting(i, s, t, sent, m)
    BY <2>0, <2>1 DEF Granting, CanGrantFrom
  <2>a. SameTerm(s, t) => /\ t.currentTerm >= s.currentTerm
                          /\ t.votedFor = s.votedFor
    BY DEF SameTerm
  <2>2. CASE Refusing(i, s, t, sent, m)
    <3>1. Observes(s, t, m)
      BY <2>2 DEF Refusing
    <3>2. SameTerm(s, t) \/ (m.term > s.currentTerm /\ t.currentTerm = m.term)
      BY <3>1 DEF Observes, BecomesFollower
    <3> QED
      BY <2>0, <2>a, <3>2
  <2>3. CASE Counting(i, s, t, sent, m) \/ Recording(i, s, t, sent, m)
               \/ Retrying(i, s, t, sent, m) \/ RejectingStale(i, s, t, sent, m)
    <3>1. SameTerm(s, t)
      BY <2>3 DEF Counting, Recording, Retrying, RejectingStale
    <3> QED
      BY <2>a, <3>1
  <2>4. CASE ObservingNewer(s, t, sent, m)
    BY <2>0, <2>4 DEF ObservingNewer, BecomesFollower
  <2>5. CASE RejectingMismatch(i, s, t, sent, m) \/ Accepting(i, s, t, sent, m)
    <3>1. m.term >= s.currentTerm /\ BecomesFollower(s, t, m.term, m.from)
      BY <2>5 DEF RejectingMismatch, Accepting
    <3> QED
      BY <2>0, <3>1 DEF BecomesFollower
  <2> QED
    BY <1>4, <2>1, <2>2, <2>3, <2>4, <2>5 DEF Handling
<1> QED
  BY <1>1, <1>2, <1>3, <1>4 DEF Reaction, SameTerm
=============================================================================
