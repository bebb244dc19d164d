-------------------------------- MODULE Raft --------------------------------
(***************************************************************************)
(* A cluster of RaftCore state machines (packages/raft-core/src/raft.ts)   *)
(* exchanging messages over a network that loses, duplicates and reorders  *)
(* them.  One action is one call of step(event), with every private method *)
(* it calls, followed by the whole of the Ready it returns: the hard state *)
(* and the log are persisted, the messages are sent and the committed      *)
(* entries are applied (packages/raft-node/src/node.ts, processReady).     *)
(* The steps inside a Ready, and crashes between them, are the subject of  *)
(* module RaftNode.                                                        *)
(*                                                                         *)
(* Logs are sequences: no code path of the runtime ever creates a          *)
(* snapshot, so an entry's index is its position.                          *)
(***************************************************************************)
EXTENDS Integers, Sequences, FiniteSets

CONSTANTS Server,        \* the members of the cluster
          Command,       \* the commands clients propose
          Nil,           \* null
          Noop,          \* the entry a leader appends when it is elected
          Campaigns,     \* bound: <<i, t>> when i may campaign in term t
          Restarts,      \* bound: <<i, t>> when i may restart in term t
          MaxLogLength   \* bound: no command is proposed on a longer log

ASSUME ServerAssumption == IsFiniteSet(Server) /\ Nil \notin Server
ASSUME EntryAssumption == Noop \notin Command
ASSUME BoundAssumption ==
    Campaigns \subseteq Server \X Nat /\ Restarts \subseteq Server \X Nat /\ MaxLogLength \in Nat

VARIABLES currentTerm,   \* hard state: the term
          votedFor,      \* hard state: the candidate voted for in that term
          commitIndex,   \* hard state: entries up to here are committed
          log,           \* the persisted log
          role,          \* "follower", "candidate" or "leader"
          leaderId,      \* the leader this server believes in
          votes,         \* who voted for this candidate
          nextIndex,     \* leader's progress: next entry to send to a peer
          matchIndex,    \* leader's progress: last entry known to be on it
          messages       \* every message ever sent: any of them can be
                         \* delivered late, again, out of order or never

hardState == <<currentTerm, votedFor, commitIndex>>
progress  == <<nextIndex, matchIndex>>
vars == <<hardState, log, role, leaderId, votes, progress, messages>>

-----------------------------------------------------------------------------
(* Data                                                                    *)

Role == {"follower", "candidate", "leader"}
Entry == [term : Nat, command : Command \cup {Noop}]

RequestVoteRequest ==
    [type : {"request-vote-request"}, from : Server, to : Server, term : Nat,
     lastLogIndex : Nat, lastLogTerm : Nat]
RequestVoteResponse ==
    [type : {"request-vote-response"}, from : Server, to : Server, term : Nat,
     voteGranted : BOOLEAN]
AppendEntriesRequest ==
    [type : {"append-entries-request"}, from : Server, to : Server, term : Nat,
     prevLogIndex : Nat, prevLogTerm : Nat, entries : Seq(Entry),
     leaderCommit : Nat]
AppendEntriesResponse ==
    [type : {"append-entries-response"}, from : Server, to : Server, term : Nat,
     success : BOOLEAN, matchIndex : Nat, rejectHint : Nat]
RaftMessage == RequestVoteRequest \cup RequestVoteResponse
                 \cup AppendEntriesRequest \cup AppendEntriesResponse

Peers(i) == Server \ {i}

\* Mutation: half of the cluster is enough.
HalfQuorum == {Q \in SUBSET Server : Cardinality(Q) >= Cardinality(Server) \div 2}

Quorum == {Q \in SUBSET Server : Cardinality(Q) >= (Cardinality(Server) \div 2) + 1}

Larger(a, b)  == IF a >= b THEN a ELSE b
Smaller(a, b) == IF a <= b THEN a ELSE b

\* The term of an entry, 0 at the position before the first one.
TermAt(lg, index) == IF index \in DOMAIN lg THEN lg[index].term ELSE 0
HasIndex(lg, index) == index \in 0 .. Len(lg)

-----------------------------------------------------------------------------
(* Pieces shared by the handlers                                           *)

Send(ms) == messages' = messages \cup ms

\* One index for every peer: what the map of their progress starts with.
AllAt(index) == [j \in Server |-> index]

\* What a server forgets whenever it becomes a follower, and at a restart.  A map that
\* was cleared is never read; it has the same values as that of an empty log.
ForgetVotesAndProgress(i) ==
    /\ votes' = [votes EXCEPT ![i] = {}]
    /\ matchIndex' = [matchIndex EXCEPT ![i] = AllAt(0)]
    /\ nextIndex' = [nextIndex EXCEPT ![i] = AllAt(1)]

BecomeFollower(i, term, leader) ==
    /\ currentTerm' = [currentTerm EXCEPT ![i] = term]
    /\ votedFor' = [votedFor EXCEPT ![i] =
                      IF term > currentTerm[i] THEN Nil ELSE @]
    /\ role' = [role EXCEPT ![i] = "follower"]
    /\ leaderId' = [leaderId EXCEPT ![i] = leader]
    /\ ForgetVotesAndProgress(i)

\* What every message does first: one of a higher term makes its receiver a
\* follower in that term.
ObserveTerm(i, m) ==
    IF m.term > currentTerm[i]
      THEN BecomeFollower(i, m.term, Nil)
      ELSE UNCHANGED <<currentTerm, votedFor, role, leaderId, votes, progress>>

\* Mutation: one entry per request.
AppendOne(i, j, term, lg, next, commit) ==
    [type |-> "append-entries-request", from |-> i, to |-> j, term |-> term,
     prevLogIndex |-> next - 1,
     prevLogTerm |-> TermAt(lg, next - 1),
     entries |-> SubSeq(lg, next, Smaller(next, Len(lg))),
     leaderCommit |-> commit]

\* The request that brings peer j up to date: the whole log from next on.
AppendFor(i, j, term, lg, next, commit) ==
    [type |-> "append-entries-request", from |-> i, to |-> j, term |-> term,
     prevLogIndex |-> next - 1,
     prevLogTerm |-> TermAt(lg, next - 1),
     entries |-> SubSeq(lg, next, Len(lg)),
     leaderCommit |-> commit]

\* Mutation: a peer that holds the whole log is sent nothing.
BroadcastToLagging(i, term, lg, next, commit) ==
    {AppendFor(i, j, term, lg, next[j], commit) : j \in {p \in Peers(i) : next[p] <= Len(lg)}}

BroadcastAppend(i, term, lg, next, commit) ==
    {AppendFor(i, j, term, lg, next[j], commit) : j \in Peers(i)}

\* Mutation: a peer that holds the entry before counts too.
ReplicatedOffByOne(i, term, lg, match) ==
    {k \in DOMAIN lg :
       /\ lg[k].term = term
       /\ {i} \cup {j \in Peers(i) : match[j] >= k - 1} \in Quorum}

\* The entries of the leader's own term that a quorum holds, the leader being
\* one of it.
Replicated(i, term, lg, match) ==
    {k \in DOMAIN lg :
       /\ lg[k].term = term
       /\ {i} \cup {j \in Peers(i) : match[j] >= k} \in Quorum}

\* The commit index moves to the last replicated entry, never backward.
AdvanceLeaderCommit(i, term, lg, match) ==
    \E commit \in {commitIndex[i]} \cup Replicated(i, term, lg, match) :
      /\ \A k \in {commitIndex[i]} \cup Replicated(i, term, lg, match) : k <= commit
      /\ commitIndex' = [commitIndex EXCEPT ![i] = commit]

\* Requests are built before the commit index moves: it moves here only when
\* the leader is a quorum by itself.
AppendLocal(i, term, command, others) ==
    /\ log' = [log EXCEPT ![i] = Append(@, [term |-> term, command |-> command])]
    /\ Send(others \cup
              BroadcastAppend(i, term, log'[i], nextIndex'[i], commitIndex[i]))
    /\ AdvanceLeaderCommit(i, term, log'[i], matchIndex'[i])

BecomeLeader(i, term, others) ==
    /\ role' = [role EXCEPT ![i] = "leader"]
    /\ leaderId' = [leaderId EXCEPT ![i] = i]
    /\ nextIndex' = [nextIndex EXCEPT ![i] = AllAt(Len(log[i]) + 1)]
    /\ matchIndex' = [matchIndex EXCEPT ![i] = AllAt(0)]
    /\ AppendLocal(i, term, Noop, others)

-----------------------------------------------------------------------------
(* Timers, proposals and restarts                                          *)

VoteRequests(i, term) ==
    {[type |-> "request-vote-request", from |-> i, to |-> j, term |-> term,
      lastLogIndex |-> Len(log[i]), lastLogTerm |-> TermAt(log[i], Len(log[i]))]
       : j \in Peers(i)}

\* A leader ignores its election timer.
ElectionTimeout(i) ==
    /\ role[i] # "leader"
    /\ <<i, currentTerm[i] + 1>> \in Campaigns
    /\ currentTerm' = [currentTerm EXCEPT ![i] = @ + 1]
    /\ votedFor' = [votedFor EXCEPT ![i] = i]
    /\ votes' = [votes EXCEPT ![i] = {i}]
    /\ \/ /\ {i} \in Quorum
          /\ BecomeLeader(i, currentTerm[i] + 1, VoteRequests(i, currentTerm[i] + 1))
       \/ /\ {i} \notin Quorum
          /\ role' = [role EXCEPT ![i] = "candidate"]
          /\ leaderId' = [leaderId EXCEPT ![i] = Nil]
          /\ Send(VoteRequests(i, currentTerm[i] + 1))
          /\ UNCHANGED <<commitIndex, log, progress>>

HeartbeatTimeout(i) ==
    /\ role[i] = "leader"
    /\ Send(BroadcastAppend(i, currentTerm[i], log[i], nextIndex[i], commitIndex[i]))
    /\ UNCHANGED <<hardState, log, role, leaderId, votes, progress>>

\* On a server that is not leader the call throws and changes nothing.
Propose(i, command) ==
    /\ role[i] = "leader"
    /\ Len(log[i]) < MaxLogLength
    /\ UNCHANGED progress
    /\ AppendLocal(i, currentTerm[i], command, {})
    /\ UNCHANGED <<currentTerm, votedFor, role, leaderId, votes>>

\* A process that crashed, at any moment, comes back from its storage.
Restart(i) ==
    /\ <<i, currentTerm[i]>> \in Restarts
    /\ role' = [role EXCEPT ![i] = "follower"]
    /\ leaderId' = [leaderId EXCEPT ![i] = Nil]
    /\ ForgetVotesAndProgress(i)
    /\ UNCHANGED <<hardState, log, messages>>

-----------------------------------------------------------------------------
(* Message handlers                                                        *)

\* Mutation: any candidate will do.
AnyLog(i, m) == TRUE

\* Mutation: the longer log wins, whatever its last term.
LongerLog(i, m) == m.lastLogIndex >= Len(log[i])

UpToDate(i, m) ==
    LET lastTerm == TermAt(log[i], Len(log[i]))
    IN  \/ m.lastLogTerm > lastTerm
        \/ m.lastLogTerm = lastTerm /\ m.lastLogIndex >= Len(log[i])

\* Mutation: the vote already cast in this term is not looked at.
GrantAgain(i, m) == m.term >= currentTerm[i] /\ UpToDate(i, m)

\* Evaluated after ObserveTerm: in a new term no vote is cast yet.
CanGrant(i, m) ==
    /\ \/ m.term > currentTerm[i]
       \/ m.term = currentTerm[i] /\ votedFor[i] \in {Nil, m.from}
    /\ UpToDate(i, m)

VoteReply(i, m, term, granted) ==
    [type |-> "request-vote-response", from |-> i, to |-> m.from, term |-> term,
     voteGranted |-> granted]

GrantVote(i, m) ==
    /\ CanGrant(i, m)
    /\ currentTerm' = [currentTerm EXCEPT ![i] = m.term]
    /\ votedFor' = [votedFor EXCEPT ![i] = m.from]
    /\ role' = [role EXCEPT ![i] = "follower"]
    /\ leaderId' = [leaderId EXCEPT ![i] = Nil]
    /\ IF m.term > currentTerm[i]
         THEN ForgetVotesAndProgress(i)
         ELSE UNCHANGED <<votes, progress>>
    /\ Send({VoteReply(i, m, m.term, TRUE)})
    /\ UNCHANGED <<commitIndex, log>>

RefuseVote(i, m) ==
    /\ ~CanGrant(i, m)
    /\ ObserveTerm(i, m)
    /\ Send({VoteReply(i, m, currentTerm'[i], FALSE)})
    /\ UNCHANGED <<commitIndex, log>>

HandleVoteRequest(i, m) == GrantVote(i, m) \/ RefuseVote(i, m)

\* Responses of an older term, refusals, and responses to a server that is no
\* candidate are ignored: they take no step.
CountVote(i, m) ==
    /\ m.term = currentTerm[i]
    /\ role[i] = "candidate"
    /\ m.voteGranted
    /\ votes' = [votes EXCEPT ![i] = @ \cup {m.from}]
    /\ \/ votes'[i] \in Quorum /\ BecomeLeader(i, currentTerm[i], {})
       \/ /\ votes'[i] \notin Quorum
          /\ UNCHANGED <<commitIndex, log, role, leaderId, progress, messages>>
    /\ UNCHANGED <<currentTerm, votedFor>>

\* A response of a higher term, of either kind, only makes a follower.
HandleNewerResponse(i, m) ==
    /\ m.term > currentTerm[i]
    /\ BecomeFollower(i, m.term, Nil)
    /\ UNCHANGED <<commitIndex, log, messages>>

HandleVoteResponse(i, m) == CountVote(i, m) \/ HandleNewerResponse(i, m)

AppendReply(i, m, term, success, match, hint) ==
    [type |-> "append-entries-response", from |-> i, to |-> m.from, term |-> term,
     success |-> success, matchIndex |-> match, rejectHint |-> hint]

RejectStaleAppend(i, m) ==
    /\ m.term < currentTerm[i]
    /\ Send({AppendReply(i, m, currentTerm[i], FALSE, 0, Len(log[i]) + 1)})
    /\ UNCHANGED <<hardState, log, role, leaderId, votes, progress>>

\* Mutation: any entry at that index will do.
PreviousExists(i, m) == HasIndex(log[i], m.prevLogIndex)

\* The follower's log holds the entry the request builds on.
PreviousMatches(i, m) ==
    /\ HasIndex(log[i], m.prevLogIndex)
    /\ TermAt(log[i], m.prevLogIndex) = m.prevLogTerm

RejectMismatch(i, m) ==
    /\ m.term >= currentTerm[i]
    /\ ~PreviousMatches(i, m)
    /\ BecomeFollower(i, m.term, m.from)
    /\ Send({AppendReply(i, m, m.term, FALSE, 0,
                         Smaller(m.prevLogIndex, Len(log[i]) + 1))})
    /\ UNCHANGED <<commitIndex, log>>

LastSent(m) == m.prevLogIndex + Len(m.entries)

\* Entry k of the follower's log contradicts the one the request carries.
Conflicts(i, m, k) ==
    /\ k \in DOMAIN log[i] \cap (m.prevLogIndex + 1 .. LastSent(m))
    /\ log[i][k].term # m.entries[k - m.prevLogIndex].term

\* Mutation: a conflicting tail is never truncated.
KeepsAll(i, m, kept) == kept = Len(log[i])

\* The entries the follower keeps: those before the first conflict, or all.
IsKept(i, m, kept) ==
    /\ \A k \in 1 .. kept : ~Conflicts(i, m, k)
    /\ kept = Len(log[i]) \/ Conflicts(i, m, kept + 1)

\* Mutation: the log ends where the request ends.
EndsWithRequest(i, m, kept) ==
    [k \in 1 .. LastSent(m) |->
       IF k <= kept THEN log[i][k] ELSE m.entries[k - m.prevLogIndex]]

\* The follower's log once it has taken over the entries beyond kept.
MergedLog(i, m, kept) ==
    [k \in 1 .. Larger(kept, LastSent(m)) |->
       IF k <= kept THEN log[i][k] ELSE m.entries[k - m.prevLogIndex]]

\* step throws instead of truncating an entry the follower knows committed.
OverwritesCommitted(i, kept) == kept < commitIndex[i]

\* Mutation: the request's commit index replaces the follower's.
CommitOverwritten(i, m, length) == Smaller(m.leaderCommit, length)

CommitAfterAppend(i, m, length) ==
    Larger(commitIndex[i], Smaller(m.leaderCommit, length))

AcceptAppend(i, m) ==
    /\ m.term >= currentTerm[i]
    /\ PreviousMatches(i, m)
    /\ BecomeFollower(i, m.term, m.from)
    /\ \E kept \in 0 .. Len(log[i]) :
         /\ IsKept(i, m, kept)
         /\ ~OverwritesCommitted(i, kept)
         /\ log' = [log EXCEPT ![i] = MergedLog(i, m, kept)]
    /\ commitIndex' = [commitIndex EXCEPT ![i] =
                         CommitAfterAppend(i, m, Len(log'[i]))]
    /\ Send({AppendReply(i, m, m.term, TRUE, LastSent(m), LastSent(m) + 1)})

HandleAppendRequest(i, m) ==
    RejectStaleAppend(i, m) \/ RejectMismatch(i, m) \/ AcceptAppend(i, m)

\* A message of a leader to m.from that continues where its log ends.
NextAppend(i, m) ==
    {AppendFor(i, m.from, currentTerm[i], log[i], nextIndex'[i][m.from],
               commitIndex'[i])}

\* Mutation: the last answer wins, even when an earlier one said more.
LastAnswer(i, m) == m.matchIndex

MatchAfterSuccess(i, m) == Larger(matchIndex[i][m.from], m.matchIndex)

RecordSuccess(i, m) ==
    /\ m.term = currentTerm[i]
    /\ role[i] = "leader"
    /\ m.success
    /\ matchIndex' = [matchIndex EXCEPT ![i][m.from] = MatchAfterSuccess(i, m)]
    /\ nextIndex' = [nextIndex EXCEPT ![i][m.from] = matchIndex'[i][m.from] + 1]
    /\ AdvanceLeaderCommit(i, currentTerm[i], log[i], matchIndex'[i])
    /\ Send( (IF commitIndex'[i] > commitIndex[i]
                THEN BroadcastAppend(i, currentTerm[i], log[i], nextIndex'[i],
                                     commitIndex'[i])
                ELSE {})
             \cup
             (IF nextIndex'[i][m.from] <= Len(log[i]) THEN NextAppend(i, m) ELSE {}) )
    /\ UNCHANGED <<currentTerm, votedFor, log, role, leaderId, votes>>

NextAfterReject(i, m) ==
    Larger(1, Smaller(nextIndex[i][m.from] - 1, m.rejectHint))

RetryEarlier(i, m) ==
    /\ m.term = currentTerm[i]
    /\ role[i] = "leader"
    /\ ~m.success
    /\ nextIndex' = [nextIndex EXCEPT ![i][m.from] = NextAfterReject(i, m)]
    /\ UNCHANGED <<hardState, log, role, leaderId, votes, matchIndex>>
    /\ Send(NextAppend(i, m))

HandleAppendResponse(i, m) ==
    RecordSuccess(i, m) \/ RetryEarlier(i, m) \/ HandleNewerResponse(i, m)

HandleMessage(m) ==
    \/ /\ m.type = "request-vote-request"
       /\ HandleVoteRequest(m.to, m)
    \/ /\ m.type = "request-vote-response"
       /\ HandleVoteResponse(m.to, m)
    \/ /\ m.type = "append-entries-request"
       /\ HandleAppendRequest(m.to, m)
    \/ /\ m.type = "append-entries-response"
       /\ HandleAppendResponse(m.to, m)

-----------------------------------------------------------------------------
(* Specification                                                           *)

Init ==
    /\ currentTerm = [i \in Server |-> 0]
    /\ votedFor = [i \in Server |-> Nil]
    /\ commitIndex = [i \in Server |-> 0]
    /\ log = [i \in Server |-> <<>>]
    /\ role = [i \in Server |-> "follower"]
    /\ leaderId = [i \in Server |-> Nil]
    /\ votes = [i \in Server |-> {}]
    /\ nextIndex = [i \in Server |-> AllAt(1)]
    /\ matchIndex = [i \in Server |-> AllAt(0)]
    /\ messages = {}

Next ==
    \/ \E i \in Server : ElectionTimeout(i)
    \/ \E i \in Server : HeartbeatTimeout(i)
    \/ \E i \in Server, command \in Command : Propose(i, command)
    \/ \E i \in Server : Restart(i)
    \/ \E m \in messages : HandleMessage(m)

Spec == Init /\ [][Next]_vars

\* A heartbeat of i reaches j: the request that it carries now, which a handler may
\* have sent before.
HeartbeatArrives(i, j) ==
    /\ role[i] = "leader"
    /\ \E m \in messages \cap BroadcastAppend(i, currentTerm[i], log[i], nextIndex[i],
                                              commitIndex[i]) :
         m.to = j /\ HandleMessage(m)

\* The answers that tell server i something: that its term is over, that j has more of
\* its log than it knew, that j lacks what comes before the next request.
Depositions(i) == {m \in messages : m.type = "append-entries-response" /\ m.to = i
                                      /\ m.term > currentTerm[i]}
Answers(i, j) == {m \in messages : m.type = "append-entries-response" /\ m.to = i
                                     /\ m.from = j /\ m.term = currentTerm[i]}
Successes(i, j) == {m \in Answers(i, j) : m.success /\ m.matchIndex > matchIndex[i][j]}
Rejections(i, j) == {m \in Answers(i, j) : ~m.success /\ m.rejectHint < nextIndex[i][j]}

\* Heartbeats are repeated, and not all of them are lost, nor all answers that say the
\* same.  Every other message may be.
Fairness ==
    \A i \in Server :
      /\ WF_vars(HeartbeatTimeout(i))
      /\ WF_vars(\E m \in Depositions(i) : HandleMessage(m))
      /\ \A j \in Peers(i) : /\ SF_vars(HeartbeatArrives(i, j))
                             /\ WF_vars(\E m \in Successes(i, j) : HandleMessage(m))
                             /\ WF_vars(\E m \in Rejections(i, j) : HandleMessage(m))

FairSpec == Spec /\ Fairness

-----------------------------------------------------------------------------
(* Properties                                                              *)

MemberTypeOK ==
    /\ currentTerm \in [Server -> Nat]
    /\ votedFor \in [Server -> Server \cup {Nil}]
    /\ role \in [Server -> Role]
    /\ leaderId \in [Server -> Server \cup {Nil}]
    /\ votes \in [Server -> SUBSET Server]
    /\ nextIndex \in [Server -> [Server -> Nat \ {0}]]
    /\ matchIndex \in [Server -> [Server -> Nat]]

LogTypeOK ==
    /\ log \in [Server -> Seq(Entry)]
    /\ commitIndex \in [Server -> Nat]
    /\ \A i \in Server : commitIndex[i] <= Len(log[i])

MessagesTypeOK == messages \subseteq RaftMessage

\* Every variable keeps its type, every message ever sent is one of the four kinds
\* of types.ts, and the commit index stays inside the log, as raft.ts asserts
\* after every step (assertInvariants).
TypeOK == MemberTypeOK /\ LogTypeOK /\ MessagesTypeOK

\* At most one server is ever leader of a term: no two servers are leader of the
\* same term now, and every append request ever sent in the term of a leader was
\* sent by that leader (raft.ts, becomeLeader and appendFor).
ElectionSafety ==
    \A i \in Server : role[i] = "leader" =>
      /\ \A j \in Server :
           role[j] = "leader" /\ currentTerm[j] = currentTerm[i] => j = i
      /\ \A m \in messages :
           m.type = "append-entries-request" /\ m.term = currentTerm[i] => m.from = i

\* A server grants its vote to one candidate of a term at most, whatever it is
\* asked again and however often it restarts (raft.ts, handleVoteRequest).
OneVotePerTerm ==
    \A m, n \in messages :
      /\ m.type = "request-vote-response" /\ m.voteGranted
      /\ n.type = "request-vote-response" /\ n.voteGranted
      /\ m.from = n.from /\ m.term = n.term
      => m.to = n.to

\* Two logs that hold an entry of the same index and term are identical up to
\* that index (raft.ts, handleAppendRequest).
LogMatching ==
    \A i, j \in Server : \A k \in DOMAIN log[i] \cap DOMAIN log[j] :
      log[i][k].term = log[j][k].term =>
        \A l \in 1 .. k : log[i][l] = log[j][l]

\* A leader holds every entry that a server of its term, or of an earlier one,
\* knows to be committed (raft.ts, handleVoteRequest and advanceLeaderCommit).
LeaderCompleteness ==
    \A i, j \in Server : role[i] = "leader" /\ currentTerm[j] <= currentTerm[i] =>
      \A k \in 1 .. commitIndex[j] : k \in DOMAIN log[i] /\ log[i][k] = log[j][k]

\* Two servers never commit, hence never apply, different entries at one index.
StateMachineSafety ==
    \A i, j \in Server :
      \A k \in 1 .. Smaller(commitIndex[i], commitIndex[j]) : log[i][k] = log[j][k]

\* A committed entry is on a quorum: whatever minority is lost, one of the
\* remaining servers still has it.
CommittedOnQuorum ==
    \A i \in Server : \A k \in 1 .. commitIndex[i] :
      {j \in Server : k \in DOMAIN log[j] /\ log[j][k] = log[i][k]} \in Quorum

\* raft.ts:267 throws 'attempted to overwrite committed entry'.  No request that
\* was ever sent can make its receiver get there.
NeverOverwritesCommitted ==
    \A m \in messages :
      m.type = "append-entries-request" /\ m.term >= currentTerm[m.to]
        /\ PreviousMatches(m.to, m) =>
          \A k \in 1 .. commitIndex[m.to] : ~Conflicts(m.to, m, k)

\* raft.ts:285 bounds the new commit index by the end of the follower's log, not
\* by the last entry of the request, which is right only because every request
\* carries at least what the leader had committed.
AppendCoversCommit ==
    \A m \in messages :
      m.type = "append-entries-request" => m.leaderCommit <= LastSent(m)

\* What a leader believes of a peer of its term is true: the peer's log agrees
\* with the leader's up to matchIndex, however late, often or out of order the
\* peer's answers arrive (raft.ts, handleAppendResponse).
MatchIndexIsTrue ==
    \A i, j \in Server :
      role[i] = "leader" /\ currentTerm[j] = currentTerm[i] =>
        \A k \in 1 .. matchIndex[i][j] :
          /\ k \in DOMAIN log[i]
          /\ k \in DOMAIN log[j]
          /\ log[j][k] = log[i][k]

\* No step removes or replaces a committed entry, or moves a commit index back,
\* on any server; a restart does not either.
CommittedIsStable ==
    [][\A i \in Server :
         /\ commitIndex'[i] >= commitIndex[i]
         /\ \A k \in 1 .. commitIndex[i] : log'[i][k] = log[i][k]]_vars

\* While a server leads a term it never removes an entry of its log, and what it
\* believes of its peers never goes back, late rejections notwithstanding.
LeaderNeverGoesBack ==
    [][\A i \in Server :
         role[i] = "leader" /\ role'[i] = "leader" /\ currentTerm'[i] = currentTerm[i] =>
           /\ \A k \in DOMAIN log[i] : k \in DOMAIN log'[i] /\ log'[i][k] = log[i][k]
           /\ \A j \in Server : matchIndex'[i][j] >= matchIndex[i][j]]_vars

\* A leader that stays one brings every server to its log, all of it committed, also
\* one whose log has diverged, and also when answers to requests of long ago move
\* what it sends next back and forth (raft.ts, handleAppendResponse).
LeaderBringsUpToDate ==
    \A i \in Server :
      <>[](role[i] = "leader") =>
        <>[](\A j \in Server : log[j] = log[i] /\ commitIndex[j] = Len(log[i]))
=============================================================================
