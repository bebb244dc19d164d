--------------------------- MODULE RaftSafetyProofs ---------------------------
(***************************************************************************)
(* Committed entries in module Raft, for every cluster, set of commands    *)
(* and bound: they are never lost and never differ between servers.        *)
(*                                                                         *)
(* An index is chosen in a term when a quorum has acknowledged the log of  *)
(* that term's leader up to it; it is blocked when a quorum has left the   *)
(* term behind without having done so.  The inductive invariant says that  *)
(* every log which might be asked for an entry holds it, or the entry's    *)
(* index is blocked; since two quorums meet, no index is both.             *)
(***************************************************************************)
EXTENDS RaftHistoryProofs

\* A successful answer to an append request, and a vote request.
IsAck(m) == m.type = "append-entries-response" /\ m.success
IsAsk(m) == m.type = "request-vote-request"

\* Two logs are the same up to index k.
Agree(lg1, lg2, k) ==
    k <= Len(lg1) /\ k <= Len(lg2) /\ \A l \in 1 .. k : lg1[l] = lg2[l]

AckedBy(m, j, t, k) == IsAck(m) /\ m.from = j /\ m.term = t /\ m.matchIndex >= k

\* Server j told the leader of term t that it holds its log up to k, or is that leader.
Acked(j, t, k, H) ==
    \/ \E m \in messages : AckedBy(m, j, t, k)
    \/ Elected(j, t) /\ k <= Len(H[t])

\* Index k holds an entry that the leader of term t wrote itself.
Own(t, k, H) == k \in 1 .. Len(H[t]) /\ H[t][k].term = t

\* A quorum holds the log of term t up to k, or did when it said so.
Chosen(t, k, H) == \E Q \in Quorum : \A j \in Q : Acked(j, t, k, H)

\* A quorum has left term t behind without acknowledging k, and never will: k is not
\* chosen in t.
Blocked(t, k, H) ==
    \E Q \in Quorum : \A j \in Q : currentTerm[j] > t /\ ~Acked(j, t, k, H)

\* The log contradicts nothing that is chosen at (t, k), or may become so.
SafeLog(lg, t, k, H) == Agree(lg, H[t], k) \/ Blocked(t, k, H)

-----------------------------------------------------------------------------
(* The parts of the invariant                                              *)

\* No entry is of a term that has not begun.
TermsAreBounded(H) ==
    /\ \A i \in Server : \A k \in 1 .. Len(log[i]) : log[i][k].term <= currentTerm[i]
    /\ \A t \in Nat : \A k \in 1 .. Len(H[t]) : H[t][k].term <= t

\* An append request carries a piece of its leader's log.
IsSlice(m, lg) ==
    /\ lg # <<>>
    /\ LastSent(m) <= Len(lg)
    /\ m.prevLogIndex >= 1 => lg[m.prevLogIndex].term = m.prevLogTerm
    /\ \A l \in 1 .. Len(m.entries) : m.entries[l] = lg[m.prevLogIndex + l]

RequestsAreSlices(H) == \A m \in messages : IsAppend(m) => IsSlice(m, H[m.term])

AcksAreBounded(H) ==
    \A m \in messages : IsAck(m) =>
      m.term <= currentTerm[m.from] /\ m.matchIndex <= Len(H[m.term])

\* What a leader believes of a peer is 0 or what the peer has acknowledged, and it
\* never skips an entry.
ProgressIsAcked ==
    \A i \in Server : role[i] = "leader" =>
      /\ log[i] # <<>>
      /\ \A j \in Server :
           /\ nextIndex[i][j] <= Len(log[i]) + 1
           /\ \/ matchIndex[i][j] = 0
              \/ \E m \in messages : AckedBy(m, j, currentTerm[i], matchIndex[i][j])

\* A vote request describes its candidate's log for as long as it is candidate, and
\* votes are for candidates of terms that have begun.
AsksAreCurrent ==
    \A m \in messages : IsAsk(m) =>
      /\ m.term <= currentTerm[m.from]
      /\ role[m.from] = "candidate" /\ currentTerm[m.from] = m.term =>
           /\ m.lastLogIndex = Len(log[m.from])
           /\ m.lastLogTerm = TermAt(log[m.from], Len(log[m.from]))

GrantsAreAsked == \A m \in messages : IsGrant(m) => m.term <= currentTerm[m.to]

\* In the term of its acknowledgement a server holds what it acknowledged, ...
AckedIsHeld(H) ==
    \A j \in Server : \A t \in Nat : \A k \in Nat \ {0} :
      currentTerm[j] = t /\ Acked(j, t, k, H) => Agree(log[j], H[t], k)

\* ... and in later terms too, unless it is blocked.
AckedIsSafe(H) ==
    \A j \in Server : \A t \in Nat : \A k \in Nat \ {0} :
      Own(t, k, H) /\ Acked(j, t, k, H) => SafeLog(log[j], t, k, H)

\* So does every leader of a later term, ...
HistoryIsSafe(H) ==
    \A t, u \in Nat : \A k \in Nat \ {0} :
      t < u /\ H[u] # <<>> /\ Own(t, k, H) => SafeLog(H[u], t, k, H)

\* ... because a candidate holds what those who voted for it have acknowledged.
CandidatesAreSafe(H) ==
    \A j, c \in Server : \A t, u \in Nat : \A k \in Nat \ {0} :
      /\ role[c] = "candidate" /\ currentTerm[c] = u /\ Granted(j, c, u) /\ t < u
      /\ Own(t, k, H) /\ Acked(j, t, k, H)
      => SafeLog(log[c], t, k, H)

\* Up to commit, the log is what is chosen in some term up to the given one.
CommitIsChosen(lg, term, commit, H) ==
    commit = 0 \/ \E t \in 0 .. term : \E k \in Nat \ {0} :
      commit <= k /\ Own(t, k, H) /\ Chosen(t, k, H) /\ Agree(lg, H[t], commit)

CommitsAreChosen(H) ==
    \A i \in Server : CommitIsChosen(log[i], currentTerm[i], commitIndex[i], H)

RequestCommitsAreChosen(H) ==
    \A m \in messages : IsAppend(m) =>
      CommitIsChosen(H[m.term], m.term, m.leaderCommit, H)

BoundsInv(H) ==
    /\ TermsAreBounded(H)
    /\ RequestsAreSlices(H)
    /\ AcksAreBounded(H)
    /\ ProgressIsAcked
    /\ AsksAreCurrent
    /\ GrantsAreAsked

ChoiceInv(H) ==
    /\ AckedIsHeld(H)
    /\ AckedIsSafe(H)
    /\ HistoryIsSafe(H)
    /\ CandidatesAreSafe(H)
    /\ CommitsAreChosen(H)
    /\ RequestCommitsAreChosen(H)

SafetyInv == \E H \in History : HistoryInv(H) /\ BoundsInv(H) /\ ChoiceInv(H)

-----------------------------------------------------------------------------
(* Logs that agree                                                         *)

LEMMA AgreeLess ==
  ASSUME NEW lg1 \in Seq(Entry), NEW lg2 \in Seq(Entry), NEW k \in Nat,
         NEW j \in 0 .. k, Agree(lg1, lg2, k)
  PROVE  Agree(lg1, lg2, j)
  BY DEF Agree

LEMMA AgreeTransitive ==
  ASSUME NEW lg1 \in Seq(Entry), NEW lg2 \in Seq(Entry), NEW lg3 \in Seq(Entry),
         NEW k \in Nat, Agree(lg1, lg2, k), Agree(lg2, lg3, k)
  PROVE  Agree(lg1, lg3, k) /\ Agree(lg2, lg1, k)
  BY DEF Agree

\* Logs in history that hold an entry of the same term at k agree up to k.
LEMMA SameTermAgree ==
  ASSUME NEW H \in History, NEW lg1 \in Seq(Entry), NEW lg2 \in Seq(Entry),
         InHistory(lg1, H), InHistory(lg2, H),
         NEW k \in 1 .. Len(lg1), k <= Len(lg2), lg1[k].term = lg2[k].term
  PROVE  Agree(lg1, lg2, k)
  BY DEF Agree, InHistory

\* The entry of a log at k is its writer's own.
LEMMA EntryIsOwn ==
  ASSUME NEW H \in History, NEW lg \in Seq(Entry), InHistory(lg, H),
         NEW k \in 1 .. Len(lg), NEW t, t = lg[k].term
  PROVE  t \in Nat /\ H[t] \in Seq(Entry) /\ Agree(lg, H[t], k) /\ Own(t, k, H)
<1>1. t \in Nat /\ H[t] \in Seq(Entry) /\ Len(H[t]) \in Nat
  BY HistoryType
<1>2. k <= Len(H[t]) /\ \A l \in 1 .. k : lg[l] = H[t][l]
  BY DEF InHistory
<1> QED
  BY <1>1, <1>2 DEF Agree, Own

\* The terms of the entries of a log never go down.
LEMMA TermsGrow ==
  ASSUME NEW H \in History, NEW lg \in Seq(Entry), InHistory(lg, H),
         \A t \in Nat : \A k \in 1 .. Len(H[t]) : H[t][k].term <= t,
         NEW k \in 1 .. Len(lg), NEW j \in 1 .. k
  PROVE  lg[j].term <= lg[k].term
<1>1. PICK t : t = lg[k].term
  OBVIOUS
<1>2. t \in Nat /\ H[t] \in Seq(Entry) /\ Agree(lg, H[t], k)
  BY <1>1, EntryIsOwn
<1>3. j \in 1 .. Len(H[t]) /\ lg[j] = H[t][j]
  BY <1>2 DEF Agree
<1>4. H[t][j].term <= t
  BY <1>2, <1>3
<1> QED
  BY <1>1, <1>3, <1>4

LEMMA LogOfTerm ==
  ASSUME NEW H \in History, NEW t \in Nat
  PROVE  H[t] \in Seq(Entry) /\ Len(H[t]) \in Nat
<1>1. H[t] \in Seq(Entry)
  BY DEF History
<1> QED
  BY <1>1

\* A longer history changes nothing of this.
LEMMA ExtendAgree ==
  ASSUME NEW H \in History, NEW H2 \in History, Extends(H, H2),
         NEW lg \in Seq(Entry), NEW t \in Nat, NEW k \in Nat, Agree(lg, H[t], k)
  PROVE  Agree(lg, H2[t], k)
<1>1. Len(H[t]) \in Nat /\ Len(H2[t]) \in Nat
  BY LogOfTerm
<1>2. Len(H[t]) <= Len(H2[t]) /\ \A l \in 1 .. Len(H[t]) : H2[t][l] = H[t][l]
  BY DEF Extends
<1> QED
  BY <1>1, <1>2 DEF Agree

LEMMA ExtendOwn ==
  ASSUME NEW H \in History, NEW H2 \in History, Extends(H, H2),
         NEW t \in Nat, NEW k \in Nat
  PROVE  /\ Own(t, k, H) => Own(t, k, H2)
         /\ Own(t, k, H2) /\ k <= Len(H[t]) => Own(t, k, H)
<1>1. Len(H[t]) \in Nat /\ Len(H2[t]) \in Nat
  BY LogOfTerm
<1>2. Len(H[t]) <= Len(H2[t]) /\ \A l \in 1 .. Len(H[t]) : H2[t][l] = H[t][l]
  BY DEF Extends
<1> QED
  BY <1>1, <1>2 DEF Own

-----------------------------------------------------------------------------
(* What a step sends                                                       *)

\* A vote request is sent in a new term and describes the log.
AsksFor(m, i) ==
    /\ m \in VoteRequests(i, currentTerm'[i])
    /\ currentTerm[i] < currentTerm'[i]
    /\ role'[i] = "candidate" => UNCHANGED log

\* An append request carries what follows nextIndex in the log of a leader.
AppendsFor(m, i) ==
    /\ role'[i] = "leader"
    /\ \E j \in Server, commit \in {commitIndex[i], commitIndex'[i]} :
         m = AppendFor(i, j, currentTerm'[i], log'[i], nextIndex'[i][j], commit)

\* A vote and a successful answer are given to a request.
GrantsTo(m, n) ==
    IsAsk(n) /\ GrantVote(n.to, n) /\ m = VoteReply(n.to, n, n.term, TRUE)
Acknowledges(m, n) ==
    /\ IsAppend(n)
    /\ AcceptAppend(n.to, n)
    /\ m = AppendReply(n.to, n, n.term, TRUE, LastSent(n), LastSent(n) + 1)

Refuses(m) == ~IsAsk(m) /\ ~IsAppend(m) /\ ~IsGrant(m) /\ ~IsAck(m)

SendStep ==
    \A m \in messages' \ messages :
      \/ \E i \in Server : AsksFor(m, i) \/ AppendsFor(m, i)
      \/ \E n \in messages : GrantsTo(m, n) \/ Acknowledges(m, n)
      \/ Refuses(m)

LEMMA SentKinds ==
  ASSUME NEW i, NEW j, NEW m, NEW term, NEW lg, NEW next, NEW commit, NEW match, NEW hint
  PROVE  /\ \A n \in VoteRequests(i, term) :
              IsAsk(n) /\ ~IsAppend(n) /\ ~IsGrant(n) /\ ~IsAck(n)
         /\ LET n == AppendFor(i, j, term, lg, next, commit)
            IN  ~IsAsk(n) /\ IsAppend(n) /\ ~IsGrant(n) /\ ~IsAck(n)
         /\ LET n == VoteReply(i, m, term, TRUE)
            IN  ~IsAsk(n) /\ ~IsAppend(n) /\ IsGrant(n) /\ ~IsAck(n)
         /\ LET n == AppendReply(i, m, term, TRUE, match, hint)
            IN  ~IsAsk(n) /\ ~IsAppend(n) /\ ~IsGrant(n) /\ IsAck(n)
         /\ Refuses(VoteReply(i, m, term, FALSE))
         /\ Refuses(AppendReply(i, m, term, FALSE, match, hint))
  BY DEF VoteRequests, AppendFor, VoteReply, AppendReply, IsAsk, IsAppend, IsGrant, IsAck,
         Refuses

\* Every request of a broadcast is one that follows nextIndex.
LEMMA BroadcastAppendsFor ==
  ASSUME NEW i \in Server, role'[i] = "leader",
         NEW commit \in {commitIndex[i], commitIndex'[i]},
         NEW m \in BroadcastAppend(i, currentTerm'[i], log'[i], nextIndex'[i], commit)
  PROVE  AppendsFor(m, i)
  BY DEF BroadcastAppend, AppendsFor, Peers

LEMMA AppendLocalSendStep ==
  ASSUME NEW i \in Server, NEW term, NEW command, NEW others,
         role'[i] = "leader", currentTerm'[i] = term,
         \A m \in others : AsksFor(m, i), AppendLocal(i, term, command, others)
  PROVE  SendStep
<1>1. messages' = messages \cup (others \cup
           BroadcastAppend(i, currentTerm'[i], log'[i], nextIndex'[i], commitIndex[i]))
  BY DEF AppendLocal, Send
<1> QED
  BY <1>1, BroadcastAppendsFor DEF SendStep

LEMMA LeaderResponseSendStep ==
  ASSUME TypeOK, NEW i \in Server, NEW m \in messages,
         RecordSuccess(i, m) \/ RetryEarlier(i, m)
  PROVE  SendStep
<1>1. m.from \in Server
  BY MessageFields DEF TypeOK
<1>2. role'[i] = "leader" /\ currentTerm'[i] = currentTerm[i] /\ log'[i] = log[i]
  BY DEF RecordSuccess, RetryEarlier, hardState
<1>3. \A n \in NextAppend(i, m) : AppendsFor(n, i)
  BY <1>1, <1>2 DEF NextAppend, AppendsFor
<1>4. \A n \in BroadcastAppend(i, currentTerm[i], log[i], nextIndex'[i], commitIndex'[i]) :
        AppendsFor(n, i)
  BY <1>2, BroadcastAppendsFor
<1>5. \A n \in messages' \ messages :
        \/ n \in NextAppend(i, m)
        \/ n \in BroadcastAppend(i, currentTerm[i], log[i], nextIndex'[i], commitIndex'[i])
  BY DEF RecordSuccess, RetryEarlier, Send
<1> QED
  BY <1>3, <1>4, <1>5 DEF SendStep

LEMMA NextSendStep ==
  ASSUME TypeOK, [Next]_vars
  PROVE  SendStep
<1>1. /\ currentTerm \in [Server -> Nat] /\ role \in [Server -> Role]
  BY DEF TypeOK, MemberTypeOK
<1>2. ASSUME NEW i \in Server, ElectionTimeout(i)
      PROVE  SendStep
  <2>1. currentTerm'[i] = currentTerm[i] + 1 /\ currentTerm[i] < currentTerm'[i]
    BY <1>1, <1>2 DEF ElectionTimeout
  <2>2. CASE BecomeLeader(i, currentTerm[i] + 1, VoteRequests(i, currentTerm[i] + 1))
    <3>1. role'[i] = "leader"
      BY <1>1, <2>2 DEF BecomeLeader, AllAt
    <3>2. \A m \in VoteRequests(i, currentTerm[i] + 1) : AsksFor(m, i)
      BY <2>1, <3>1 DEF AsksFor
    <3> QED
      BY <2>1, <2>2, <3>1, <3>2, AppendLocalSendStep DEF BecomeLeader, AllAt
  <2>3. CASE Send(VoteRequests(i, currentTerm[i] + 1)) /\ UNCHANGED log
    BY <2>1, <2>3 DEF AsksFor, Send, SendStep
  <2> QED
    BY <1>2, <2>2, <2>3 DEF ElectionTimeout
<1>3. ASSUME NEW i \in Server, HeartbeatTimeout(i)
      PROVE  SendStep
  <2>1. /\ role'[i] = "leader" /\ UNCHANGED <<currentTerm, log, nextIndex>>
        /\ messages' = messages \cup
             BroadcastAppend(i, currentTerm[i], log[i], nextIndex[i], commitIndex[i])
    BY <1>3 DEF HeartbeatTimeout, hardState, progress, Send
  <2> QED
    BY <2>1, BroadcastAppendsFor DEF SendStep
<1>4. ASSUME NEW i \in Server, NEW command \in Command, Propose(i, command)
      PROVE  SendStep
  BY <1>4, AppendLocalSendStep DEF Propose
<1>5. ASSUME NEW i \in Server, Restart(i)
      PROVE  SendStep
  BY <1>5 DEF Restart, SendStep
<1>6. ASSUME NEW m \in messages, HandleMessage(m)
      PROVE  SendStep
  <2>1. m.to \in Server
    BY MessageFields DEF TypeOK
  <2>2. CASE IsAsk(m) /\ GrantVote(m.to, m)
    BY <2>2 DEF GrantVote, Send, SendStep, GrantsTo
  <2>3. CASE RefuseVote(m.to, m)
    BY <2>3, SentKinds DEF RefuseVote, Send, SendStep
  <2>4. CASE CountVote(m.to, m)
    <3>1. CASE BecomeLeader(m.to, currentTerm[m.to], {})
      <4>1. role'[m.to] = "leader" /\ currentTerm'[m.to] = currentTerm[m.to]
        BY <1>1, <2>1, <2>4, <3>1 DEF BecomeLeader, CountVote, AllAt
      <4> QED
        BY <2>1, <3>1, <4>1, AppendLocalSendStep DEF BecomeLeader, AllAt
    <3>2. CASE UNCHANGED messages
      BY <3>2 DEF SendStep
    <3> QED
      BY <2>4, <3>1, <3>2 DEF CountVote
  <2>5. CASE HandleNewerResponse(m.to, m)
    BY <2>5 DEF HandleNewerResponse, SendStep
  <2>6. CASE RejectStaleAppend(m.to, m)
    BY <2>6, SentKinds DEF RejectStaleAppend, Send, SendStep
  <2>7. CASE RejectMismatch(m.to, m)
    BY <2>7, SentKinds DEF RejectMismatch, Send, SendStep
  <2>8. CASE IsAppend(m) /\ AcceptAppend(m.to, m)
    <3>1. Send({AppendReply(m.to, m, m.term, TRUE, LastSent(m), LastSent(m) + 1)})
      BY <2>8 DEF AcceptAppend
    <3> QED
      BY <2>8, <3>1 DEF Send, SendStep, Acknowledges
  <2>9. CASE RecordSuccess(m.to, m) \/ RetryEarlier(m.to, m)
    BY <2>1, <2>9, LeaderResponseSendStep
  <2> QED
    BY <1>6, <2>2, <2>3, <2>4, <2>5, <2>6, <2>7, <2>8, <2>9
       DEF HandleMessage, HandleVoteRequest, HandleVoteResponse, HandleAppendRequest,
           HandleAppendResponse, IsAsk, IsAppend
<1>7. CASE UNCHANGED vars
  BY <1>7 DEF vars, SendStep
<1> QED
  BY <1>2, <1>3, <1>4, <1>5, <1>6, <1>7 DEF Next

-----------------------------------------------------------------------------
(* What a step does to logs, progress and commit indexes                   *)

\* A follower takes over a request.
Follows(j, n) == IsAppend(n) /\ n.to = j /\ AcceptAppend(j, n)

\* A leader adds an entry of its term.
Writes(j) ==
    /\ role'[j] = "leader"
    /\ Len(log'[j]) = Len(log[j]) + 1
    /\ \A k \in 1 .. Len(log[j]) : log'[j][k] = log[j][k]
    /\ log'[j][Len(log[j]) + 1].term = currentTerm'[j]

LogStepOf(j) ==
    \/ log'[j] = log[j]
    \/ Writes(j)
    \/ \E n \in messages : Follows(j, n)

LEMMA AcceptFields ==
  ASSUME TypeOK, NEW n \in messages, IsAppend(n), AcceptAppend(n.to, n)
  PROVE  /\ n \in AppendEntriesRequest /\ n.to \in Server /\ n.term \in Nat
         /\ n.prevLogIndex \in Nat /\ n.entries \in Seq(Entry) /\ LastSent(n) \in Nat
         /\ Len(n.entries) \in Nat /\ n.leaderCommit \in Nat
         /\ currentTerm'[n.to] = n.term /\ currentTerm[n.to] <= n.term
         /\ role'[n.to] = "follower"
         /\ \A j \in Server : j # n.to =>
              /\ log'[j] = log[j] /\ role'[j] = role[j] /\ currentTerm'[j] = currentTerm[j]
              /\ commitIndex'[j] = commitIndex[j]
<1>1. /\ n \in AppendEntriesRequest /\ n.to \in Server /\ n.term \in Nat
      /\ n.prevLogIndex \in Nat /\ n.entries \in Seq(Entry) /\ n.leaderCommit \in Nat
  BY MessageFields DEF TypeOK, AppendEntriesRequest, IsAppend
<1>2. Len(n.entries) \in Nat /\ LastSent(n) \in Nat
  BY <1>1 DEF LastSent
<1>3. /\ currentTerm'[n.to] = n.term /\ currentTerm[n.to] <= n.term
      /\ role'[n.to] = "follower"
      /\ \A j \in Server : j # n.to =>
           role'[j] = role[j] /\ currentTerm'[j] = currentTerm[j]
  BY <1>1 DEF AcceptAppend, BecomeFollower, TypeOK, MemberTypeOK
<1>4. \A j \in Server : j # n.to => log'[j] = log[j] /\ commitIndex'[j] = commitIndex[j]
  BY <1>1 DEF AcceptAppend, TypeOK, LogTypeOK
<1> QED
  BY <1>1, <1>2, <1>3, <1>4

LEMMA LeaderWritesFields ==
  ASSUME TypeOK, NEW i \in Server, NEW term \in Nat, NEW command \in Command \cup {Noop},
         LeaderWrites(i, term, command)
  PROVE  /\ Writes(i) /\ currentTerm'[i] = term
         /\ \A j \in Server : j # i => log'[j] = log[j]
<1> DEFINE entry == [term |-> term, command |-> command]
<1>1. log \in [Server -> Seq(Entry)] /\ log[i] \in Seq(Entry)
  BY DEF TypeOK, LogTypeOK
<1>2. /\ log'[i] = Append(log[i], entry)
      /\ \A j \in Server : j # i => log'[j] = log[j]
  BY <1>1 DEF LeaderWrites
<1>3. /\ Len(log'[i]) = Len(log[i]) + 1
      /\ \A k \in 1 .. Len(log[i]) : log'[i][k] = log[i][k]
      /\ log'[i][Len(log[i]) + 1] = entry
  BY <1>1, <1>2
<1>4. role'[i] = "leader" /\ currentTerm'[i] = term
  BY DEF LeaderWrites
<1> QED
  BY <1>2, <1>3, <1>4 DEF Writes

LEMMA GrowsLogStep ==
  ASSUME TypeOK, NEW H \in History, NEW H2 \in History, GrowsTo(H, H2), NEW j \in Server
  PROVE  LogStepOf(j)
<1>1. CASE UNCHANGED log
  BY <1>1 DEF LogStepOf
<1>2. ASSUME NEW m \in messages, IsAppend(m), AcceptAppend(m.to, m)
      PROVE  LogStepOf(j)
  BY <1>2, AcceptFields DEF LogStepOf, Follows
<1>3. ASSUME NEW i \in Server, NEW term \in Nat, NEW command \in Command \cup {Noop},
             LeaderWrites(i, term, command)
      PROVE  LogStepOf(j)
  BY <1>3, LeaderWritesFields DEF LogStepOf
<1> QED
  BY <1>1, <1>2, <1>3 DEF GrowsTo

\* A leader is new and knows nothing of its peers, or learns from answers.
ProgressStepOf(i) ==
    role'[i] = "leader" =>
      \/ /\ log'[i] # <<>>
         /\ \A j \in Server :
              matchIndex'[i][j] = 0 /\ nextIndex'[i][j] <= Len(log'[i]) + 1
      \/ /\ role[i] = "leader" /\ currentTerm'[i] = currentTerm[i]
         /\ \A j \in Server :
              /\ \/ matchIndex'[i][j] = matchIndex[i][j]
                 \/ \E m \in messages : AckedBy(m, j, currentTerm[i], matchIndex'[i][j])
              /\ \/ nextIndex'[i][j] <= nextIndex[i][j]
                 \/ nextIndex'[i][j] = matchIndex'[i][j] + 1

LEMMA ProgressFields ==
  ASSUME TypeOK, NEW i \in Server
  PROVE  /\ nextIndex[i] \in [Server -> Nat \ {0}]
         /\ matchIndex[i] \in [Server -> Nat]
         /\ \A j \in Server : nextIndex[i][j] \in Nat \ {0} /\ matchIndex[i][j] \in Nat
<1>1. nextIndex[i] \in [Server -> Nat \ {0}] /\ matchIndex[i] \in [Server -> Nat]
  BY DEF TypeOK, MemberTypeOK
<1> QED
  BY <1>1

\* Servers whose role, term and progress stay the same, and those that follow.
LEMMA QuietProgressStep ==
  ASSUME TypeOK, NEW i \in Server,
         \/ role'[i] # "leader"
         \/ /\ role'[i] = role[i] /\ currentTerm'[i] = currentTerm[i]
            /\ nextIndex'[i] = nextIndex[i] /\ matchIndex'[i] = matchIndex[i]
  PROVE  ProgressStepOf(i)
  BY ProgressFields DEF ProgressStepOf

LEMMA BecomeLeaderProgressStep ==
  ASSUME TypeOK, NEW i \in Server, NEW term, NEW others,
         BecomeLeader(i, term, others),
         \A j \in Server : j # i => currentTerm'[j] = currentTerm[j]
  PROVE  \A j \in Server : ProgressStepOf(j)
<1>1. /\ role \in [Server -> Role] /\ log \in [Server -> Seq(Entry)]
      /\ nextIndex \in [Server -> [Server -> Nat \ {0}]]
      /\ matchIndex \in [Server -> [Server -> Nat]]
  BY DEF TypeOK, MemberTypeOK, LogTypeOK
<1>2. ASSUME NEW j \in Server, j # i
      PROVE  ProgressStepOf(j)
  <2>1. /\ role'[j] = role[j] /\ currentTerm'[j] = currentTerm[j]
        /\ nextIndex'[j] = nextIndex[j] /\ matchIndex'[j] = matchIndex[j]
    BY <1>1, <1>2 DEF BecomeLeader, AllAt
  <2> QED
    BY <2>1, QuietProgressStep
<1>3. ProgressStepOf(i)
  <2>1. log'[i] = Append(log[i], [term |-> term, command |-> Noop])
    BY <1>1 DEF BecomeLeader, AppendLocal, AllAt
  <2>2. log[i] \in Seq(Entry) /\ Len(log[i]) \in Nat
    BY CommitFields
  <2>3. Len(log'[i]) = Len(log[i]) + 1
    BY <2>1, <2>2
  <2>4. log'[i] # <<>>
    BY <2>2, <2>3
  <2>5. \A j \in Server : nextIndex'[i][j] = Len(log[i]) + 1 /\ matchIndex'[i][j] = 0
    BY <1>1 DEF BecomeLeader, AllAt
  <2> QED
    BY <2>2, <2>3, <2>4, <2>5 DEF ProgressStepOf
<1> QED
  BY <1>2, <1>3

LEMMA BecomeFollowerProgressStep ==
  ASSUME TypeOK, NEW i \in Server, NEW term, NEW leader, BecomeFollower(i, term, leader)
  PROVE  \A j \in Server : ProgressStepOf(j)
<1> SUFFICES ASSUME NEW j \in Server
             PROVE  ProgressStepOf(j)
  OBVIOUS
<1>1. CASE j = i
  <2>1. role'[i] # "leader"
    BY DEF BecomeFollower, TypeOK, MemberTypeOK
  <2> QED
    BY <1>1, <2>1, QuietProgressStep
<1>2. CASE j # i
  <2>1. /\ role'[j] = role[j] /\ currentTerm'[j] = currentTerm[j]
        /\ nextIndex'[j] = nextIndex[j] /\ matchIndex'[j] = matchIndex[j]
    BY <1>2 DEF BecomeFollower, ForgetVotesAndProgress, TypeOK, MemberTypeOK, AllAt
  <2> QED
    BY <2>1, QuietProgressStep
<1> QED
  BY <1>1, <1>2

LEMMA UnchangedProgressStep ==
  ASSUME TypeOK, UNCHANGED <<currentTerm, role, nextIndex, matchIndex>>
  PROVE  \A j \in Server : ProgressStepOf(j)
  BY QuietProgressStep

LEMMA RecordSuccessProgressStep ==
  ASSUME TypeOK, NEW i \in Server, NEW m \in messages,
         m.type = "append-entries-response", RecordSuccess(i, m)
  PROVE  \A j \in Server : ProgressStepOf(j)
<1> SUFFICES ASSUME NEW j \in Server
             PROVE  ProgressStepOf(j)
  OBVIOUS
<1>1. /\ role' = role /\ currentTerm' = currentTerm
      /\ m.term = currentTerm[i] /\ m.success
      /\ matchIndex' = [matchIndex EXCEPT ![i][m.from] = MatchAfterSuccess(i, m)]
      /\ nextIndex' = [nextIndex EXCEPT ![i][m.from] = matchIndex'[i][m.from] + 1]
  BY DEF RecordSuccess
<1>2. /\ nextIndex \in [Server -> [Server -> Nat \ {0}]]
      /\ matchIndex \in [Server -> [Server -> Nat]]
      /\ m.from \in Server
  BY MessageFields DEF TypeOK, MemberTypeOK
<1>3. CASE j # i
  BY <1>1, <1>2, <1>3, QuietProgressStep
<1>4. CASE j = i /\ role[i] = "leader"
  <2> SUFFICES ASSUME NEW p \in Server
               PROVE  /\ \/ matchIndex'[i][p] = matchIndex[i][p]
                         \/ \E n \in messages :
                              AckedBy(n, p, currentTerm[i], matchIndex'[i][p])
                      /\ \/ nextIndex'[i][p] <= nextIndex[i][p]
                         \/ nextIndex'[i][p] = matchIndex'[i][p] + 1
    BY <1>1, <1>4 DEF ProgressStepOf
  <2>1. CASE p # m.from
    <3>1. matchIndex'[i][p] = matchIndex[i][p] /\ nextIndex'[i][p] = nextIndex[i][p]
      BY <1>1, <1>2, <2>1
    <3> QED
      BY <3>1, ProgressFields
  <2>2. CASE p = m.from
    <3>1. /\ matchIndex'[i][p] = MatchAfterSuccess(i, m)
          /\ nextIndex'[i][p] = matchIndex'[i][p] + 1
      BY <1>1, <1>2, <2>2
    <3>2. m.matchIndex \in Nat /\ matchIndex[i][p] \in Nat
      BY MessageFields, ProgressFields DEF TypeOK, AppendEntriesResponse
    <3>3. matchIndex'[i][p] = matchIndex[i][p] \/ matchIndex'[i][p] = m.matchIndex
      BY <3>1, <2>2 DEF MatchAfterSuccess, Larger
    <3>4. AckedBy(m, p, currentTerm[i], m.matchIndex)
      BY <1>1, <2>2, <3>2 DEF AckedBy, IsAck
    <3> QED
      BY <3>1, <3>3, <3>4
  <2> QED
    BY <2>1, <2>2
<1>5. role[i] = "leader"
  BY DEF RecordSuccess
<1> QED
  BY <1>3, <1>4, <1>5

LEMMA RetryEarlierProgressStep ==
  ASSUME TypeOK, NEW i \in Server, NEW m \in messages,
         m.type = "append-entries-response", RetryEarlier(i, m)
  PROVE  \A j \in Server : ProgressStepOf(j)
<1> SUFFICES ASSUME NEW j \in Server, NEW p \in Server
             PROVE  nextIndex'[j][p] <= nextIndex[j][p]
  BY DEF RetryEarlier, hardState, ProgressStepOf
<1>1. /\ nextIndex' = [nextIndex EXCEPT ![i][m.from] = NextAfterReject(i, m)]
      /\ nextIndex \in [Server -> [Server -> Nat \ {0}]]
      /\ m.from \in Server /\ m.rejectHint \in Nat
  BY MessageFields DEF RetryEarlier, TypeOK, MemberTypeOK, AppendEntriesResponse
<1>2. CASE j = i /\ p = m.from
  <2>1. nextIndex'[j][p] = NextAfterReject(i, m) /\ nextIndex[j][p] \in Nat \ {0}
    BY <1>1, <1>2
  <2> QED
    BY <1>1, <1>2, <2>1 DEF NextAfterReject, Larger, Smaller
<1>3. CASE ~(j = i /\ p = m.from)
  <2>1. nextIndex'[j][p] = nextIndex[j][p] /\ nextIndex[j][p] \in Nat \ {0}
    BY <1>1, <1>3
  <2> QED
    BY <2>1
<1> QED
  BY <1>2, <1>3

LEMMA NextProgressStep ==
  ASSUME TypeOK, [Next]_vars
  PROVE  \A j \in Server : ProgressStepOf(j)
<1>1. /\ currentTerm \in [Server -> Nat] /\ role \in [Server -> Role]
  BY DEF TypeOK, MemberTypeOK
<1>2. ASSUME NEW i \in Server, ElectionTimeout(i)
      PROVE  \A j \in Server : ProgressStepOf(j)
  <2>1. \A j \in Server : j # i => currentTerm'[j] = currentTerm[j]
    BY <1>1, <1>2 DEF ElectionTimeout
  <2>2. CASE BecomeLeader(i, currentTerm[i] + 1, VoteRequests(i, currentTerm[i] + 1))
    BY <2>1, <2>2, BecomeLeaderProgressStep
  <2>3. CASE role' = [role EXCEPT ![i] = "candidate"] /\ UNCHANGED progress
    <3>1. role'[i] # "leader" /\ \A j \in Server : j # i => role'[j] = role[j]
      BY <1>1, <2>3
    <3> QED
      BY <2>1, <2>3, <3>1, QuietProgressStep DEF progress
  <2> QED
    BY <1>2, <2>2, <2>3 DEF ElectionTimeout
<1>3. ASSUME NEW i \in Server, HeartbeatTimeout(i)
      PROVE  \A j \in Server : ProgressStepOf(j)
  BY <1>3, UnchangedProgressStep DEF HeartbeatTimeout, hardState, progress
<1>4. ASSUME NEW i \in Server, NEW command \in Command, Propose(i, command)
      PROVE  \A j \in Server : ProgressStepOf(j)
  BY <1>4, UnchangedProgressStep DEF Propose, progress
<1>5. ASSUME NEW i \in Server, Restart(i)
      PROVE  \A j \in Server : ProgressStepOf(j)
  <2>1. role'[i] # "leader"
    BY <1>1, <1>5 DEF Restart
  <2>2. ASSUME NEW j \in Server, j # i
        PROVE  /\ role'[j] = role[j] /\ currentTerm'[j] = currentTerm[j]
               /\ nextIndex'[j] = nextIndex[j] /\ matchIndex'[j] = matchIndex[j]
    BY <1>5, <2>2 DEF Restart, ForgetVotesAndProgress, hardState, TypeOK, MemberTypeOK, AllAt
  <2> QED
    BY <2>1, <2>2, QuietProgressStep
<1>6. ASSUME NEW m \in messages, HandleMessage(m)
      PROVE  \A j \in Server : ProgressStepOf(j)
  <2>1. m.to \in Server
    BY MessageFields DEF TypeOK
  <2>2. CASE GrantVote(m.to, m)
    <3>1. role'[m.to] # "leader" /\ \A j \in Server : j # m.to =>
            role'[j] = role[j] /\ currentTerm'[j] = currentTerm[j]
      BY <1>1, <2>1, <2>2 DEF GrantVote
    <3>2. \A j \in Server : j # m.to =>
            nextIndex'[j] = nextIndex[j] /\ matchIndex'[j] = matchIndex[j]
      BY <2>1, <2>2 DEF GrantVote, ForgetVotesAndProgress, progress, TypeOK, MemberTypeOK, AllAt
    <3> QED
      BY <3>1, <3>2, QuietProgressStep
  <2>3. CASE RefuseVote(m.to, m)
    BY <2>1, <2>3, BecomeFollowerProgressStep, UnchangedProgressStep
       DEF RefuseVote, ObserveTerm, progress
  <2>4. CASE CountVote(m.to, m)
    <3>1. CASE BecomeLeader(m.to, currentTerm[m.to], {})
      BY <2>1, <2>4, <3>1, BecomeLeaderProgressStep DEF CountVote
    <3>2. CASE UNCHANGED <<role, progress>>
      BY <2>4, <3>2, UnchangedProgressStep DEF CountVote, progress
    <3> QED
      BY <2>4, <3>1, <3>2 DEF CountVote
  <2>5. CASE HandleNewerResponse(m.to, m)
    BY <2>1, <2>5, BecomeFollowerProgressStep DEF HandleNewerResponse
  <2>6. CASE RejectStaleAppend(m.to, m)
    BY <2>6, UnchangedProgressStep DEF RejectStaleAppend, hardState, progress
  <2>7. CASE RejectMismatch(m.to, m)
    BY <2>1, <2>7, BecomeFollowerProgressStep DEF RejectMismatch
  <2>8. CASE AcceptAppend(m.to, m)
    BY <2>1, <2>8, BecomeFollowerProgressStep DEF AcceptAppend
  <2>9. CASE m.type = "append-entries-response" /\ RecordSuccess(m.to, m)
    BY <2>1, <2>9, RecordSuccessProgressStep
  <2>10. CASE m.type = "append-entries-response" /\ RetryEarlier(m.to, m)
    BY <2>1, <2>10, RetryEarlierProgressStep
  <2> QED
    BY <1>6, <2>2, <2>3, <2>4, <2>5, <2>6, <2>7, <2>8, <2>9, <2>10
       DEF HandleMessage, HandleVoteRequest, HandleVoteResponse, HandleAppendRequest,
           HandleAppendResponse
<1>7. CASE UNCHANGED vars
  BY <1>7, UnchangedProgressStep DEF vars, hardState, progress
<1> QED
  BY <1>2, <1>3, <1>4, <1>5, <1>6, <1>7 DEF Next

\* A commit index moves to what a quorum holds, or to what a request says.
CommitStepOf(i) ==
    \/ commitIndex'[i] = commitIndex[i]
    \/ /\ role'[i] = "leader"
       /\ commitIndex'[i] \in Replicated(i, currentTerm'[i], log'[i], matchIndex'[i])
    \/ \E n \in messages : Follows(i, n) /\ commitIndex'[i] = n.leaderCommit

LEMMA AdvanceCommitStep ==
  ASSUME TypeOK, NEW i \in Server, role'[i] = "leader",
         AdvanceLeaderCommit(i, currentTerm'[i], log'[i], matchIndex'[i])
  PROVE  \A j \in Server : CommitStepOf(j)
<1>1. PICK commit \in {commitIndex[i]}
                        \cup Replicated(i, currentTerm'[i], log'[i], matchIndex'[i]) :
        commitIndex' = [commitIndex EXCEPT ![i] = commit]
  BY DEF AdvanceLeaderCommit
<1>2. /\ commitIndex'[i] = commit
      /\ \A j \in Server : j # i => commitIndex'[j] = commitIndex[j]
  BY <1>1 DEF TypeOK, LogTypeOK
<1> QED
  BY <1>1, <1>2 DEF CommitStepOf

LEMMA AcceptCommitStep ==
  ASSUME TypeOK, TypeOK', AppendCoversCommit,
         NEW n \in messages, IsAppend(n), AcceptAppend(n.to, n)
  PROVE  \A j \in Server : CommitStepOf(j)
<1> DEFINE i == n.to
<1>1. /\ i \in Server /\ n.leaderCommit \in Nat /\ LastSent(n) \in Nat
      /\ n \in AppendEntriesRequest
      /\ \A j \in Server : j # i => commitIndex'[j] = commitIndex[j]
  BY AcceptFields
<1>2. commitIndex'[i] = CommitAfterAppend(i, n, Len(log'[i]))
  BY <1>1 DEF AcceptAppend, TypeOK, LogTypeOK
<1>3. PICK kept \in 0 .. Len(log[i]) :
        IsKept(i, n, kept) /\ log' = [log EXCEPT ![i] = MergedLog(i, n, kept)]
  BY DEF AcceptAppend
<1>4. log'[i] = MergedLog(i, n, kept)
  BY <1>1, <1>3 DEF TypeOK, LogTypeOK
<1>5. Len(log'[i]) = Larger(kept, LastSent(n))
  BY <1>1, <1>3, <1>4, MergedLogType DEF AcceptAppend
<1>6. n.leaderCommit <= LastSent(n)
  BY DEF AppendCoversCommit, IsAppend
<1>7. n.leaderCommit <= Len(log'[i]) /\ Len(log'[i]) \in Nat
  BY <1>1, <1>3, <1>5, <1>6, CommitFields DEF Larger
<1>8. commitIndex'[i] = commitIndex[i] \/ commitIndex'[i] = n.leaderCommit
  BY <1>1, <1>2, <1>7 DEF CommitAfterAppend, Larger, Smaller
<1> QED
  BY <1>1, <1>8 DEF CommitStepOf, Follows

LEMMA NextCommitStep ==
  ASSUME TypeOK, TypeOK', AppendCoversCommit, [Next]_vars
  PROVE  \A j \in Server : CommitStepOf(j)
<1> USE DEF CommitStepOf
<1>1. /\ currentTerm \in [Server -> Nat] /\ role \in [Server -> Role]
  BY DEF TypeOK, MemberTypeOK
<1>2. ASSUME NEW i \in Server, ElectionTimeout(i)
      PROVE  \A j \in Server : CommitStepOf(j)
  <2>1. CASE BecomeLeader(i, currentTerm[i] + 1, VoteRequests(i, currentTerm[i] + 1))
    <3>1. role'[i] = "leader" /\ currentTerm'[i] = currentTerm[i] + 1
      BY <1>1, <1>2, <2>1 DEF BecomeLeader, ElectionTimeout, AllAt
    <3> QED
      BY <2>1, <3>1, AdvanceCommitStep DEF BecomeLeader, AppendLocal, AllAt
  <2>2. CASE UNCHANGED commitIndex
    BY <2>2
  <2> QED
    BY <1>2, <2>1, <2>2 DEF ElectionTimeout
<1>3. ASSUME NEW i \in Server, NEW command \in Command, Propose(i, command)
      PROVE  \A j \in Server : CommitStepOf(j)
  BY <1>3, AdvanceCommitStep DEF Propose, AppendLocal
<1>4. ASSUME NEW i \in Server, HeartbeatTimeout(i) \/ Restart(i)
      PROVE  \A j \in Server : CommitStepOf(j)
  BY <1>4 DEF HeartbeatTimeout, Restart, hardState
<1>5. ASSUME NEW m \in messages, HandleMessage(m)
      PROVE  \A j \in Server : CommitStepOf(j)
  <2>1. m.to \in Server
    BY MessageFields DEF TypeOK
  <2>2. CASE HandleVoteRequest(m.to, m)
    BY <2>2 DEF HandleVoteRequest, GrantVote, RefuseVote
  <2>3. CASE CountVote(m.to, m)
    <3>1. CASE BecomeLeader(m.to, currentTerm[m.to], {})
      <4>1. role'[m.to] = "leader" /\ currentTerm'[m.to] = currentTerm[m.to]
        BY <1>1, <2>1, <2>3, <3>1 DEF BecomeLeader, CountVote, AllAt
      <4> QED
        BY <2>1, <3>1, <4>1, AdvanceCommitStep DEF BecomeLeader, AppendLocal, AllAt
    <3>2. CASE UNCHANGED commitIndex
      BY <3>2
    <3> QED
      BY <2>3, <3>1, <3>2 DEF CountVote
  <2>4. CASE HandleNewerResponse(m.to, m)
    BY <2>4 DEF HandleNewerResponse
  <2>5. CASE RejectStaleAppend(m.to, m) \/ RejectMismatch(m.to, m)
    BY <2>5 DEF RejectStaleAppend, RejectMismatch, hardState
  <2>6. CASE IsAppend(m) /\ AcceptAppend(m.to, m)
    BY <2>6, AcceptCommitStep
  <2>7. CASE RecordSuccess(m.to, m)
    <3>1. role'[m.to] = "leader" /\ currentTerm' = currentTerm /\ log' = log
      BY <2>7 DEF RecordSuccess
    <3> QED
      BY <2>1, <2>7, <3>1, AdvanceCommitStep DEF RecordSuccess
  <2>8. CASE RetryEarlier(m.to, m)
    BY <2>8 DEF RetryEarlier, hardState
  <2> QED
    BY <1>5, <2>2, <2>3, <2>4, <2>5, <2>6, <2>7, <2>8
       DEF HandleMessage, HandleVoteResponse, HandleAppendRequest, HandleAppendResponse,
           IsAppend
<1>6. CASE UNCHANGED vars
  BY <1>6 DEF vars, hardState
<1> QED
  BY <1>2, <1>3, <1>4, <1>5, <1>6 DEF Next

-----------------------------------------------------------------------------
(* What one step means for the history                                     *)

\* What is known of a step from H to H2.
Step(H, H2) ==
    /\ TypeOK /\ TypeOK' /\ VoteInv /\ VoteInv' /\ AppendCoversCommit
    /\ VoteStep /\ NoSecondCandidacy /\ SendStep
    /\ HistoryInv(H) /\ HistoryInv(H2)' /\ GrowsTo(H, H2) /\ Extends(H, H2)
    /\ \A i \in Server : /\ LogStepOf(i)
                         /\ ProgressStepOf(i)
                         /\ CommitStepOf(i)
                         /\ KeepsCommitted(i)

LEMMA NextStep ==
  ASSUME TypeOK, TypeOK', VoteInv, VoteInv', AppendCoversCommit, [Next]_vars,
         NEW H \in History, HistoryInv(H)
  PROVE  \E H2 \in History : Step(H, H2)
<1>1. PICK H2 \in History : HistoryInv(H2)' /\ GrowsTo(H, H2)
  BY HistoryGrows
<1>2. VoteStep /\ SendStep
  BY NextVoteStep, NextSendStep
<1>3. \A i \in Server : LogStepOf(i) /\ ProgressStepOf(i) /\ CommitStepOf(i)
  BY <1>1, GrowsLogStep, NextProgressStep, NextCommitStep
<1>4. \A i \in Server : KeepsCommitted(i)
  BY NextKeepsCommitted, QuietKeepsCommitted DEF vars, hardState
<1>5. NoSecondCandidacy
  <2>1. CASE NobodyRises
    BY <2>1 DEF NobodyRises
  <2>2. ASSUME NEW i \in Server, NEW term \in Nat, NEW command \in Command \cup {Noop},
               LeaderWrites(i, term, command)
        PROVE  NoSecondCandidacy
    BY <2>2 DEF LeaderWrites, NoSecondCandidacy
  <2> QED
    BY <1>1, <2>1, <2>2 DEF GrowsTo
<1>6. Extends(H, H2)
  <2>1. CASE H2 = H
    BY <2>1, LogOfTerm DEF Extends
  <2>2. ASSUME NEW i \in Server, NEW term \in Nat, NEW command \in Command \cup {Noop},
               LeaderWrites(i, term, command), H2 = [H EXCEPT ![term] = log'[i]]
        PROVE  Extends(H, H2)
    BY <1>2, <2>2, LeaderWritesExtends
  <2> QED
    BY <1>1, <2>1, <2>2 DEF GrowsTo
<1> QED
  BY <1>1, <1>2, <1>3, <1>4, <1>5, <1>6 DEF Step

\* Leader i writes, and makes the history of its term t longer.
GrowsBy(i, t, H, H2) ==
    /\ Writes(i) /\ currentTerm'[i] = t
    /\ H2[t] = log'[i]
    /\ \/ role[i] = "leader" /\ currentTerm[i] = t /\ H[t] = log[i]
       \/ role[i] = "candidate" /\ currentTerm[i] = t
       \/ currentTerm[i] < t
    /\ \A u \in Nat : u # t => H2[u] = H[u]

LEMMA HistoryAt ==
  ASSUME NEW H \in History, NEW H2 \in History, Step(H, H2), NEW t \in Nat
  PROVE  H2[t] = H[t] \/ \E i \in Server : GrowsBy(i, t, H, H2)
<1>1. CASE H2 = H
  BY <1>1
<1>2. ASSUME NEW i \in Server, NEW term \in Nat, NEW command \in Command \cup {Noop},
             LeaderWrites(i, term, command), H2 = [H EXCEPT ![term] = log'[i]]
      PROVE  H2[t] = H[t] \/ \E j \in Server : GrowsBy(j, t, H, H2)
  <2>1. Writes(i) /\ currentTerm'[i] = term
    BY <1>2, LeaderWritesFields DEF Step
  <2>2. H2[term] = log'[i] /\ \A u \in Nat : u # term => H2[u] = H[u]
    BY <1>2 DEF History
  <2>3. role[i] = "leader" /\ currentTerm[i] = term => H[term] = log[i]
    BY DEF Step, HistoryInv, LeadersAreHistory
  <2>4. GrowsBy(i, term, H, H2)
    BY <1>2, <2>1, <2>2, <2>3 DEF GrowsBy, LeaderWrites
  <2> QED
    BY <2>2, <2>4
<1> QED
  BY <1>1, <1>2 DEF Step, GrowsTo

LEMMA StepTypes ==
  ASSUME NEW H \in History, NEW H2 \in History, Step(H, H2), NEW j \in Server
  PROVE  /\ currentTerm[j] \in Nat /\ currentTerm'[j] \in Nat
         /\ currentTerm[j] <= currentTerm'[j]
         /\ log[j] \in Seq(Entry) /\ log'[j] \in Seq(Entry)
         /\ Len(log[j]) \in Nat /\ Len(log'[j]) \in Nat
<1>1. /\ currentTerm[j] \in Nat /\ currentTerm'[j] \in Nat
      /\ currentTerm[j] <= currentTerm'[j]
  BY DEF Step, TypeOK, MemberTypeOK, VoteStep, TermStep
<1>2. log[j] \in Seq(Entry) /\ log'[j] \in Seq(Entry)
  BY DEF Step, TypeOK, LogTypeOK
<1> QED
  BY <1>1, <1>2

LEMMA FollowsFields ==
  ASSUME TypeOK, NEW j \in Server, NEW n \in messages, Follows(j, n)
  PROVE  /\ n.term \in Nat /\ n.prevLogIndex \in Nat /\ n.entries \in Seq(Entry)
         /\ Len(n.entries) \in Nat /\ LastSent(n) \in Nat /\ n.leaderCommit \in Nat
         /\ currentTerm'[j] = n.term /\ currentTerm[j] <= n.term
         /\ role'[j] = "follower"
  BY AcceptFields DEF Follows

-----------------------------------------------------------------------------
(* The log of a follower                                                   *)

\* It keeps a first part of its log, which the request does not contradict, and
\* goes on as the request does.
TakesOver(j, n, kept) ==
    /\ n.prevLogIndex <= kept
    /\ n.prevLogIndex >= 1 => log[j][n.prevLogIndex].term = n.prevLogTerm
    /\ \A k \in n.prevLogIndex + 1 .. kept :
         k <= LastSent(n) => log[j][k].term = n.entries[k - n.prevLogIndex].term
    /\ kept < Len(log[j]) =>
         /\ kept + 1 <= LastSent(n)
         /\ log[j][kept + 1].term # n.entries[(kept + 1) - n.prevLogIndex].term
    /\ Len(log'[j]) = Larger(kept, LastSent(n))
    /\ \A k \in 1 .. Len(log'[j]) :
         log'[j][k] = IF k <= kept THEN log[j][k] ELSE n.entries[k - n.prevLogIndex]

LEMMA FollowerTakesOver ==
  ASSUME TypeOK, NEW j \in Server, NEW n \in messages, Follows(j, n)
  PROVE  \E kept \in 0 .. Len(log[j]) : TakesOver(j, n, kept)
<1> DEFINE p == n.prevLogIndex
<1>1. /\ n \in AppendEntriesRequest /\ n.to = j /\ AcceptAppend(j, n)
      /\ p \in Nat /\ n.entries \in Seq(Entry) /\ Len(n.entries) \in Nat
      /\ LastSent(n) \in Nat
  BY AcceptFields DEF Follows
<1>2. log \in [Server -> Seq(Entry)] /\ log[j] \in Seq(Entry) /\ Len(log[j]) \in Nat
  BY CommitFields DEF TypeOK, LogTypeOK
<1>3. PICK kept \in 0 .. Len(log[j]) :
        IsKept(j, n, kept) /\ log' = [log EXCEPT ![j] = MergedLog(j, n, kept)]
  BY <1>1 DEF AcceptAppend
<1>4. PreviousMatches(j, n)
  BY <1>1 DEF AcceptAppend
<1>5. log'[j] = MergedLog(j, n, kept)
  BY <1>2, <1>3
<1>6. log'[j] \in Seq(Entry) /\ Len(log'[j]) = Larger(kept, LastSent(n))
  BY <1>1, <1>3, <1>4, <1>5, MergedLogType
<1>7. p <= kept
  BY <1>1, <1>2, <1>3, <1>4 DEF PreviousMatches, HasIndex, IsKept, Conflicts
<1>8. p >= 1 => log[j][p].term = n.prevLogTerm
  BY <1>1, <1>2, <1>4 DEF PreviousMatches, HasIndex, TermAt
<1>9. ASSUME NEW k \in p + 1 .. kept, k <= LastSent(n)
      PROVE  log[j][k].term = n.entries[k - p].term
  <2>1. k \in 1 .. kept /\ k \in DOMAIN log[j] \cap (p + 1 .. LastSent(n))
    BY <1>1, <1>2, <1>9
  <2>2. ~Conflicts(j, n, k)
    BY <2>1, <1>3 DEF IsKept
  <2> QED
    BY <2>1, <2>2 DEF Conflicts
<1>10. ASSUME kept < Len(log[j])
       PROVE  /\ kept + 1 <= LastSent(n)
              /\ log[j][kept + 1].term # n.entries[(kept + 1) - p].term
  <2>1. Conflicts(j, n, kept + 1)
    BY <1>2, <1>3, <1>10 DEF IsKept
  <2>2. kept + 1 \in n.prevLogIndex + 1 .. LastSent(n)
    BY <2>1 DEF Conflicts
  <2>3. log[j][kept + 1].term # n.entries[(kept + 1) - p].term
    BY <2>1 DEF Conflicts
  <2> QED
    BY <1>1, <2>2, <2>3
<1>11. \A k \in 1 .. Len(log'[j]) :
         log'[j][k] = IF k <= kept THEN log[j][k] ELSE n.entries[k - p]
  BY <1>5, <1>6 DEF MergedLog
<1> QED
  BY <1>6, <1>7, <1>8, <1>9, <1>10, <1>11 DEF TakesOver

\* A follower keeps what its log has in common with the log a request is cut from.
LEMMA FollowerKeeps ==
  ASSUME TypeOK, NEW j \in Server, NEW n \in messages, Follows(j, n),
         NEW lg \in Seq(Entry), IsSlice(n, lg), NEW k \in Nat, Agree(log[j], lg, k)
  PROVE  Agree(log'[j], lg, k)
<1>1. PICK kept \in 0 .. Len(log[j]) : TakesOver(j, n, kept)
  BY FollowerTakesOver
<1>2. /\ n.prevLogIndex \in Nat /\ LastSent(n) \in Nat /\ Len(log[j]) \in Nat
      /\ Len(n.entries) \in Nat /\ LastSent(n) = n.prevLogIndex + Len(n.entries)
  BY FollowsFields, CommitFields DEF LastSent
<1>3. ASSUME kept < k
      PROVE  FALSE
  <2>1. /\ kept < Len(log[j]) /\ log[j][kept + 1] = lg[kept + 1]
    BY <1>2, <1>3 DEF Agree
  <2>2. /\ (kept + 1) - n.prevLogIndex \in 1 .. Len(n.entries)
        /\ n.prevLogIndex + ((kept + 1) - n.prevLogIndex) = kept + 1
    BY <1>1, <1>2, <2>1 DEF TakesOver
  <2>3. n.entries[(kept + 1) - n.prevLogIndex] = lg[kept + 1]
    BY <2>2 DEF IsSlice
  <2> QED
    BY <1>1, <2>1, <2>3 DEF TakesOver
<1>4. k <= Len(log'[j])
  BY <1>1, <1>2, <1>3 DEF TakesOver, Larger
<1>5. ASSUME NEW l \in 1 .. k
      PROVE  log'[j][l] = log[j][l]
  <2>1. l \in 1 .. Len(log'[j]) /\ l <= kept
    BY <1>1, <1>2, <1>3, <1>4 DEF TakesOver, Larger
  <2> QED
    BY <1>1, <2>1 DEF TakesOver
<1> QED
  BY <1>2, <1>4, <1>5 DEF Agree

\* A follower then has that log up to the last entry sent.
LEMMA FollowerReaches ==
  ASSUME TypeOK, NEW j \in Server, NEW n \in messages, Follows(j, n),
         NEW H \in History, InHistory(log[j], H),
         NEW lg \in Seq(Entry), IsSlice(n, lg), InHistory(lg, H)
  PROVE  Agree(log'[j], lg, LastSent(n))
<1> DEFINE p == n.prevLogIndex
<1>1. PICK kept \in 0 .. Len(log[j]) : TakesOver(j, n, kept)
  BY FollowerTakesOver
<1>2. /\ p \in Nat /\ LastSent(n) \in Nat /\ log[j] \in Seq(Entry) /\ Len(log[j]) \in Nat
      /\ Len(n.entries) \in Nat /\ LastSent(n) = p + Len(n.entries) /\ p <= kept
  BY <1>1, FollowsFields, CommitFields DEF LastSent, TakesOver
<1>3. LastSent(n) <= Len(lg) /\ Len(lg) \in Nat
  BY DEF IsSlice
<1>4. \A l \in p + 1 .. LastSent(n) : n.entries[l - p] = lg[l]
  <2> SUFFICES ASSUME NEW l \in p + 1 .. LastSent(n)
               PROVE  n.entries[l - p] = lg[l]
    OBVIOUS
  <2>1. l - p \in 1 .. Len(n.entries) /\ p + (l - p) = l
    BY <1>2
  <2> QED
    BY <2>1 DEF IsSlice
<1>5. PICK z : z = Smaller(kept, LastSent(n))
  OBVIOUS
<1>6. z \in Nat /\ p <= z /\ z <= kept /\ z <= LastSent(n)
  BY <1>2, <1>5 DEF Smaller
<1>7. Agree(log[j], lg, z)
  <2>1. CASE z = 0
    BY <1>2, <1>3, <2>1 DEF Agree
  <2>2. CASE z >= 1
    <3>1. log[j][z].term = lg[z].term
      <4>1. CASE z = p
        BY <1>1, <2>2, <4>1 DEF TakesOver, IsSlice
      <4>2. CASE z > p
        <5>1. z \in p + 1 .. kept /\ z \in p + 1 .. LastSent(n)
          BY <1>2, <1>6, <4>2
        <5>2. log[j][z].term = n.entries[z - p].term
          BY <1>1, <5>1 DEF TakesOver
        <5> QED
          BY <1>4, <5>1, <5>2
      <4> QED
        BY <1>2, <1>6, <4>1, <4>2
    <3>2. z \in 1 .. Len(log[j]) /\ z <= Len(lg)
      BY <1>2, <1>3, <1>6, <2>2
    <3> QED
      BY <1>2, <3>1, <3>2, SameTermAgree
  <2> QED
    BY <1>6, <2>1, <2>2
<1>8. LastSent(n) <= Len(log'[j]) /\ Len(log'[j]) \in Nat
  BY <1>1, <1>2 DEF TakesOver, Larger
<1>9. ASSUME NEW l \in 1 .. LastSent(n)
      PROVE  log'[j][l] = lg[l]
  <2>1. log'[j][l] = IF l <= kept THEN log[j][l] ELSE n.entries[l - p]
    <3>1. l \in 1 .. Len(log'[j])
      BY <1>2, <1>8
    <3> QED
      BY <1>1, <3>1 DEF TakesOver
  <2>2. CASE l <= kept
    <3>1. l \in 1 .. z
      BY <1>2, <1>5, <2>2 DEF Smaller
    <3> QED
      BY <1>7, <2>1, <2>2, <3>1 DEF Agree
  <2>3. CASE l > kept
    BY <1>2, <1>4, <2>1, <2>3
  <2> QED
    BY <1>2, <2>2, <2>3
<1> QED
  BY <1>3, <1>8, <1>9 DEF Agree

-----------------------------------------------------------------------------
(* What is chosen stays chosen, what is blocked stays blocked              *)

\* What is acknowledged is in a log, and the term of the acknowledgement has begun.
LEMMA AckedPast ==
  ASSUME TypeOK, NEW H \in History, HistoryInv(H), AcksAreBounded(H),
         NEW j \in Server, NEW t \in Nat, NEW k \in Nat \ {0}, Acked(j, t, k, H)
  PROVE  currentTerm[j] >= t /\ k <= Len(H[t])
<1>1. currentTerm[j] \in Nat /\ Len(H[t]) \in Nat
  BY LogOfTerm DEF TypeOK, MemberTypeOK
<1>2. ASSUME NEW m \in messages, AckedBy(m, j, t, k)
      PROVE  currentTerm[j] >= t /\ k <= Len(H[t])
  <2>1. m.matchIndex \in Nat
    BY <1>2, MessageFields DEF TypeOK, AckedBy, IsAck, AppendEntriesResponse
  <2> QED
    BY <1>1, <1>2, <2>1 DEF AcksAreBounded, AckedBy
<1>3. CASE Elected(j, t) /\ k <= Len(H[t])
  <2>1. H[t] # <<>>
    BY <1>1, <1>3
  <2>2. PICK c \in Server : Elected(c, t) /\ currentTerm[c] >= t
    BY <2>1 DEF HistoryInv, HistoryIsLed, Led
  <2> QED
    BY <1>3, <2>2, ElectedUnique
<1> QED
  BY <1>2, <1>3 DEF Acked

LEMMA AckedStable ==
  ASSUME NEW H \in History, NEW H2 \in History, Step(H, H2),
         NEW j \in Server, NEW t \in Nat, NEW k \in Nat, Acked(j, t, k, H)
  PROVE  Acked(j, t, k, H2)'
<1>1. ASSUME NEW m \in messages, AckedBy(m, j, t, k)
      PROVE  Acked(j, t, k, H2)'
  BY <1>1 DEF Acked, AckedBy, Step, VoteStep, MessageStep
<1>2. CASE Elected(j, t) /\ k <= Len(H[t])
  <2>1. Elected(j, t)'
    BY <1>2, ElectedStable DEF Step
  <2>2. k <= Len(H2[t])
    BY <1>2, LogOfTerm DEF Step, Extends
  <2> QED
    BY <2>1, <2>2 DEF Acked
<1> QED
  BY <1>1, <1>2 DEF Acked

\* A server acknowledges an index in its current term only, when it has taken over a
\* request up to it or has written it.
LEMMA AckedOrigin ==
  ASSUME NEW H \in History, NEW H2 \in History, Step(H, H2),
         NEW j \in Server, NEW t \in Nat, NEW k \in Nat \ {0}, Acked(j, t, k, H2)'
  PROVE  \/ Acked(j, t, k, H)
         \/ \E n \in messages : Follows(j, n) /\ n.term = t /\ k <= LastSent(n)
         \/ GrowsBy(j, t, H, H2) /\ k <= Len(log'[j])
<1>1. ASSUME NEW m \in messages', AckedBy(m, j, t, k)
      PROVE  \/ \E n \in messages : AckedBy(n, j, t, k)
             \/ \E n \in messages : Follows(j, n) /\ n.term = t /\ k <= LastSent(n)
  <2>1. CASE m \in messages
    BY <1>1, <2>1
  <2>2. CASE m \notin messages
    <3>1. IsAck(m)
      BY <1>1 DEF AckedBy
    <3>2. ASSUME NEW n \in messages, GrantsTo(m, n)
          PROVE  FALSE
      BY <3>1, <3>2, SentKinds DEF GrantsTo
    <3>3. ASSUME NEW i \in Server, AsksFor(m, i) \/ AppendsFor(m, i)
          PROVE  FALSE
      BY <3>1, <3>3, SentKinds DEF AsksFor, AppendsFor
    <3>4. PICK n \in messages : Acknowledges(m, n)
      BY <2>2, <3>1, <3>2, <3>3 DEF Step, SendStep, Refuses
    <3>5. m.from = n.to /\ m.term = n.term /\ m.matchIndex = LastSent(n)
      BY <3>4 DEF Acknowledges, AppendReply
    <3>6. Follows(j, n) /\ n.term = t /\ k <= LastSent(n)
      BY <1>1, <3>4, <3>5 DEF Acknowledges, AckedBy, Follows
    <3> QED
      BY <3>6
  <2> QED
    BY <2>1, <2>2
<1>2. CASE Elected(j, t)' /\ k <= Len(H2[t])
  <2>1. CASE H2[t] = H[t]
    <3>1. H[t] # <<>>
      BY <1>2, <2>1
    <3>2. PICK c \in Server : Elected(c, t)
      BY <3>1 DEF Step, HistoryInv, HistoryIsLed, Led
    <3>3. c = j
      BY <1>2, <3>2, ElectedStable, ElectedUniqueAfter DEF Step
    <3> QED
      BY <1>2, <2>1, <3>2, <3>3 DEF Acked
  <2>2. ASSUME NEW i \in Server, GrowsBy(i, t, H, H2)
        PROVE  GrowsBy(j, t, H, H2) /\ k <= Len(log'[j])
    <3>1. Elected(i, t)'
      BY <2>2, LeaderIsElected DEF Step, GrowsBy, Writes
    <3>2. i = j
      BY <1>2, <3>1, ElectedUniqueAfter
    <3> QED
      BY <1>2, <2>2, <3>2 DEF GrowsBy
  <2> QED
    BY <2>1, <2>2, HistoryAt
<1>3. \/ \E m \in messages' : AckedBy(m, j, t, k)
      \/ Elected(j, t)' /\ k <= Len(H2[t])
  BY DEF Acked, AckedBy
<1> QED
  BY <1>1, <1>2, <1>3 DEF Acked

\* What is not acknowledged when a server leaves a term never will be.
LEMMA AckedBefore ==
  ASSUME NEW H \in History, NEW H2 \in History, Step(H, H2),
         NEW j \in Server, NEW t \in Nat, NEW k \in Nat \ {0}, Acked(j, t, k, H2)',
         currentTerm'[j] > t
  PROVE  Acked(j, t, k, H)
<1>1. currentTerm'[j] \in Nat
  BY StepTypes
<1>2. ASSUME NEW n \in messages, Follows(j, n), n.term = t
      PROVE  FALSE
  BY <1>1, <1>2, FollowsFields DEF Step
<1> QED
  BY <1>1, <1>2, AckedOrigin DEF GrowsBy

LEMMA BlockedStable ==
  ASSUME NEW H \in History, NEW H2 \in History, Step(H, H2),
         NEW t \in Nat, NEW k \in Nat \ {0}, Blocked(t, k, H)
  PROVE  Blocked(t, k, H2)'
<1>1. PICK Q \in Quorum : \A j \in Q : currentTerm[j] > t /\ ~Acked(j, t, k, H)
  BY DEF Blocked
<1>2. ASSUME NEW j \in Q
      PROVE  currentTerm'[j] > t /\ ~Acked(j, t, k, H2)'
  <2>1. j \in Server
    BY DEF Quorum
  <2>2. currentTerm'[j] > t
    BY <1>1, <2>1, StepTypes
  <2> QED
    BY <1>1, <2>1, <2>2, AckedBefore
<1> QED
  BY <1>2 DEF Blocked, Quorum

LEMMA ChosenStable ==
  ASSUME NEW H \in History, NEW H2 \in History, Step(H, H2),
         NEW t \in Nat, NEW k \in Nat, Chosen(t, k, H)
  PROVE  Chosen(t, k, H2)'
<1>1. PICK Q \in Quorum : \A j \in Q : Acked(j, t, k, H)
  BY DEF Chosen
<1>2. \A j \in Q : Acked(j, t, k, H2)'
  BY <1>1, AckedStable DEF Quorum
<1> QED
  BY <1>2 DEF Chosen, Quorum

\* An index cannot be both.
LEMMA NotBoth ==
  ASSUME NEW H \in History, NEW t \in Nat, NEW k \in Nat,
         Chosen(t, k, H), Blocked(t, k, H)
  PROVE  FALSE
  BY QuorumsIntersect DEF Chosen, Blocked

-----------------------------------------------------------------------------
(* The bounds are kept                                                     *)

LEMMA ProgressStaysAcked ==
  ASSUME NEW H \in History, NEW H2 \in History, Step(H, H2), BoundsInv(H)
  PROVE  ProgressIsAcked'
<1> SUFFICES ASSUME NEW i \in Server, role'[i] = "leader"
             PROVE  /\ log'[i] # <<>>
                    /\ \A j \in Server :
                         /\ nextIndex'[i][j] <= Len(log'[i]) + 1
                         /\ \/ matchIndex'[i][j] = 0
                            \/ \E m \in messages' :
                                 AckedBy(m, j, currentTerm'[i], matchIndex'[i][j])
  BY DEF ProgressIsAcked, AckedBy
<1>1. CASE /\ log'[i] # <<>>
           /\ \A j \in Server :
                matchIndex'[i][j] = 0 /\ nextIndex'[i][j] <= Len(log'[i]) + 1
  BY <1>1
<1>2. CASE /\ role[i] = "leader" /\ currentTerm'[i] = currentTerm[i]
           /\ \A j \in Server :
                /\ \/ matchIndex'[i][j] = matchIndex[i][j]
                   \/ \E m \in messages : AckedBy(m, j, currentTerm[i], matchIndex'[i][j])
                /\ \/ nextIndex'[i][j] <= nextIndex[i][j]
                   \/ nextIndex'[i][j] = matchIndex'[i][j] + 1
  <2>1. /\ log[i] # <<>> /\ H[currentTerm[i]] = log[i]
        /\ log[i] \in Seq(Entry) /\ Len(log[i]) \in Nat /\ Len(log'[i]) \in Nat
    BY <1>2, StepTypes
       DEF BoundsInv, ProgressIsAcked, Step, HistoryInv, LeadersAreHistory
  <2>2. Len(log'[i]) >= Len(log[i])
    <3>1. ASSUME NEW n \in messages, Follows(i, n)
          PROVE  FALSE
      BY <3>1, FollowsFields DEF Step
    <3> QED
      BY <2>1, <3>1 DEF Step, LogStepOf, Writes
  <2>3. log'[i] # <<>>
    BY <2>1, <2>2
  <2> SUFFICES ASSUME NEW j \in Server
               PROVE  /\ nextIndex'[i][j] <= Len(log'[i]) + 1
                      /\ \/ matchIndex'[i][j] = 0
                         \/ \E m \in messages' :
                              AckedBy(m, j, currentTerm'[i], matchIndex'[i][j])
    BY <2>3
  <2>4. \/ matchIndex'[i][j] = 0
        \/ \E m \in messages : AckedBy(m, j, currentTerm[i], matchIndex'[i][j])
    BY <1>2 DEF BoundsInv, ProgressIsAcked
  <2>5. messages \subseteq messages'
    BY DEF Step, VoteStep, MessageStep
  <2>6. /\ nextIndex[i][j] <= Len(log[i]) + 1
        /\ nextIndex[i][j] \in Nat /\ nextIndex'[i][j] \in Nat /\ matchIndex'[i][j] \in Nat
    <3>1. nextIndex[i][j] <= Len(log[i]) + 1
      BY <1>2 DEF BoundsInv, ProgressIsAcked
    <3>2. nextIndex[i][j] \in Nat /\ nextIndex'[i][j] \in Nat /\ matchIndex'[i][j] \in Nat
      <4>1. nextIndex'[i] \in [Server -> Nat \ {0}] /\ matchIndex'[i] \in [Server -> Nat]
        BY DEF Step, TypeOK, MemberTypeOK
      <4> QED
        BY <4>1, ProgressFields DEF Step
    <3> QED
      BY <3>1, <3>2
  <2>7. matchIndex'[i][j] <= Len(log[i])
    <3>1. ASSUME NEW m \in messages, AckedBy(m, j, currentTerm[i], matchIndex'[i][j])
          PROVE  matchIndex'[i][j] <= Len(log[i])
      <4>1. m.matchIndex \in Nat
        BY <3>1, MessageFields
           DEF Step, TypeOK, AckedBy, IsAck, AppendEntriesResponse
      <4>2. m.matchIndex <= Len(H[m.term]) /\ m.term = currentTerm[i]
        BY <3>1 DEF BoundsInv, AcksAreBounded, AckedBy
      <4> QED
        BY <2>1, <2>6, <3>1, <4>1, <4>2 DEF AckedBy
    <3> QED
      BY <2>1, <2>4, <3>1
  <2>8. nextIndex'[i][j] <= Len(log'[i]) + 1
    BY <1>2, <2>1, <2>2, <2>6, <2>7
  <2> QED
    BY <1>2, <2>4, <2>5, <2>8
<1> QED
  BY <1>1, <1>2 DEF Step, ProgressStepOf

\* What a leader sends is a piece of its log.
LEMMA SentIsSlice ==
  ASSUME NEW i, NEW j, NEW term, NEW lg \in Seq(Entry), lg # <<>>,
         NEW next \in 1 .. Len(lg) + 1, NEW commit, NEW m,
         m = AppendFor(i, j, term, lg, next, commit)
  PROVE  IsSlice(m, lg)
<1>1. /\ m.prevLogIndex = next - 1 /\ m.prevLogTerm = TermAt(lg, next - 1)
      /\ m.entries = SubSeq(lg, next, Len(lg))
  BY DEF AppendFor
<1>2. PICK es : es = SubSeq(lg, next, Len(lg))
  OBVIOUS
<1>3. /\ Len(es) = Len(lg) - next + 1
      /\ \A l \in 1 .. Len(es) : es[l] = lg[next - 1 + l]
  BY <1>2
<1>4. LastSent(m) = Len(lg)
  BY <1>1, <1>2, <1>3 DEF LastSent
<1>5. m.prevLogIndex >= 1 => lg[m.prevLogIndex].term = m.prevLogTerm
  BY <1>1 DEF TermAt
<1> QED
  BY <1>1, <1>2, <1>3, <1>4, <1>5 DEF IsSlice

LEMMA ExtendSlice ==
  ASSUME NEW H \in History, NEW H2 \in History, Extends(H, H2),
         NEW m \in AppendEntriesRequest, IsSlice(m, H[m.term])
  PROVE  IsSlice(m, H2[m.term])
<1>1. /\ m.term \in Nat /\ m.prevLogIndex \in Nat /\ Len(m.entries) \in Nat
      /\ LastSent(m) = m.prevLogIndex + Len(m.entries)
  BY DEF AppendEntriesRequest, LastSent
<1>2. PICK g \in Seq(Entry), g2 \in Seq(Entry) : g = H[m.term] /\ g2 = H2[m.term]
  BY <1>1, LogOfTerm
<1>3. Len(g) <= Len(g2) /\ \A l \in 1 .. Len(g) : g2[l] = g[l]
  BY <1>1, <1>2 DEF Extends
<1>4. /\ g # <<>>
      /\ LastSent(m) <= Len(g)
      /\ m.prevLogIndex >= 1 => g[m.prevLogIndex].term = m.prevLogTerm
      /\ \A l \in 1 .. Len(m.entries) : m.entries[l] = g[m.prevLogIndex + l]
  BY <1>2 DEF IsSlice
<1>5. g2 # <<>> /\ LastSent(m) <= Len(g2)
  BY <1>1, <1>3, <1>4
<1>6. ASSUME m.prevLogIndex >= 1
      PROVE  g2[m.prevLogIndex].term = m.prevLogTerm
  <2>1. m.prevLogIndex \in 1 .. Len(g)
    BY <1>1, <1>4, <1>6
  <2> QED
    BY <1>3, <1>4, <1>6, <2>1
<1>7. ASSUME NEW l \in 1 .. Len(m.entries)
      PROVE  m.entries[l] = g2[m.prevLogIndex + l]
  <2>1. m.prevLogIndex + l \in 1 .. Len(g)
    BY <1>1, <1>4
  <2> QED
    BY <1>3, <1>4, <2>1
<1> QED
  BY <1>2, <1>5, <1>6, <1>7 DEF IsSlice

\* The history of a leader's term is its log.
LEMMA LeaderHistory ==
  ASSUME NEW H \in History, NEW H2 \in History, Step(H, H2),
         NEW i \in Server, role'[i] = "leader"
  PROVE  H2[currentTerm'[i]] = log'[i]
  BY DEF Step, HistoryInv, LeadersAreHistory

\* What a step sends of a kind was sent as that kind is sent.
LEMMA SentAppend ==
  ASSUME NEW H \in History, NEW H2 \in History, Step(H, H2),
         NEW m \in messages' \ messages, IsAppend(m)
  PROVE  \E i \in Server : AppendsFor(m, i)
<1>1. ASSUME NEW n \in messages, GrantsTo(m, n) \/ Acknowledges(m, n)
      PROVE  FALSE
  BY <1>1, SentKinds DEF GrantsTo, Acknowledges
<1>2. ASSUME NEW i \in Server, AsksFor(m, i)
      PROVE  FALSE
  BY <1>2, SentKinds DEF AsksFor
<1> QED
  BY <1>1, <1>2 DEF Step, SendStep, Refuses

LEMMA SentAck ==
  ASSUME NEW H \in History, NEW H2 \in History, Step(H, H2),
         NEW m \in messages' \ messages, IsAck(m)
  PROVE  \E n \in messages : Acknowledges(m, n)
<1>1. ASSUME NEW n \in messages, GrantsTo(m, n)
      PROVE  FALSE
  BY <1>1, SentKinds DEF GrantsTo
<1>2. ASSUME NEW i \in Server, AsksFor(m, i) \/ AppendsFor(m, i)
      PROVE  FALSE
  BY <1>2, SentKinds DEF AsksFor, AppendsFor
<1> QED
  BY <1>1, <1>2 DEF Step, SendStep, Refuses

LEMMA SentAsk ==
  ASSUME NEW H \in History, NEW H2 \in History, Step(H, H2),
         NEW m \in messages' \ messages, IsAsk(m)
  PROVE  \E i \in Server : AsksFor(m, i)
<1>1. ASSUME NEW n \in messages, GrantsTo(m, n) \/ Acknowledges(m, n)
      PROVE  FALSE
  BY <1>1, SentKinds DEF GrantsTo, Acknowledges
<1>2. ASSUME NEW i \in Server, AppendsFor(m, i)
      PROVE  FALSE
  BY <1>2, SentKinds DEF AppendsFor
<1> QED
  BY <1>1, <1>2 DEF Step, SendStep, Refuses

LEMMA SentGrant ==
  ASSUME NEW H \in History, NEW H2 \in History, Step(H, H2),
         NEW m \in messages' \ messages, IsGrant(m)
  PROVE  \E n \in messages : GrantsTo(m, n)
<1>1. ASSUME NEW n \in messages, Acknowledges(m, n)
      PROVE  FALSE
  BY <1>1, SentKinds DEF Acknowledges
<1>2. ASSUME NEW i \in Server, AsksFor(m, i) \/ AppendsFor(m, i)
      PROVE  FALSE
  BY <1>2, SentKinds DEF AsksFor, AppendsFor
<1> QED
  BY <1>1, <1>2 DEF Step, SendStep, Refuses

LEMMA RequestsStaySlices ==
  ASSUME NEW H \in History, NEW H2 \in History, Step(H, H2), BoundsInv(H)
  PROVE  RequestsAreSlices(H2)'
<1> SUFFICES ASSUME NEW m \in messages', IsAppend(m)
             PROVE  IsSlice(m, H2[m.term])
  BY DEF RequestsAreSlices
<1>1. CASE m \in messages
  <2>1. m \in AppendEntriesRequest
    BY <1>1, MessageFields DEF Step, TypeOK, IsAppend
  <2> QED
    BY <1>1, <2>1, ExtendSlice DEF Step, BoundsInv, RequestsAreSlices
<1>2. CASE m \notin messages
  <2>1. PICK i \in Server : AppendsFor(m, i)
    BY <1>2, SentAppend
  <2>2. PICK j \in Server, commit \in {commitIndex[i], commitIndex'[i]} :
          m = AppendFor(i, j, currentTerm'[i], log'[i], nextIndex'[i][j], commit)
    BY <2>1 DEF AppendsFor
  <2>3. role'[i] = "leader" /\ m.term = currentTerm'[i] /\ H2[m.term] = log'[i]
    BY <2>1, <2>2, LeaderHistory DEF AppendsFor, AppendFor
  <2>4. /\ log'[i] \in Seq(Entry) /\ log'[i] # <<>>
        /\ nextIndex'[i][j] \in 1 .. Len(log'[i]) + 1
    <3>1. nextIndex'[i] \in [Server -> Nat \ {0}]
      BY DEF Step, TypeOK, MemberTypeOK
    <3>2. log'[i] # <<>> /\ nextIndex'[i][j] <= Len(log'[i]) + 1
      BY <2>3, ProgressStaysAcked DEF ProgressIsAcked
    <3>3. nextIndex'[i][j] \in Nat \ {0}
      BY <3>1
    <3> QED
      BY <3>2, <3>3, StepTypes
  <2> QED
    BY <2>2, <2>3, <2>4, SentIsSlice
<1> QED
  BY <1>1, <1>2

\* A follower takes over a piece of the history of the request's term.
LEMMA FollowsSlice ==
  ASSUME NEW H \in History, NEW H2 \in History, Step(H, H2), BoundsInv(H),
         NEW j \in Server, NEW n \in messages, Follows(j, n)
  PROVE  /\ n.term \in Nat /\ H[n.term] \in Seq(Entry) /\ H[n.term] # <<>>
         /\ IsSlice(n, H[n.term]) /\ LastSent(n) <= Len(H[n.term])
         /\ InHistory(H[n.term], H) /\ InHistory(log[j], H)
<1>1. n.term \in Nat
  BY FollowsFields DEF Step
<1>2. IsSlice(n, H[n.term])
  BY DEF BoundsInv, RequestsAreSlices, Follows
<1>3. H[n.term] \in Seq(Entry)
  BY <1>1, LogOfTerm
<1>4. InHistory(H[n.term], H) /\ InHistory(log[j], H)
  BY <1>1 DEF Step, HistoryInv, HistoryIsClosed, LogsInHistory
<1> QED
  BY <1>1, <1>2, <1>3, <1>4 DEF IsSlice

LEMMA TermsStayBounded ==
  ASSUME NEW H \in History, NEW H2 \in History, Step(H, H2), BoundsInv(H)
  PROVE  TermsAreBounded(H2)'
<1>1. ASSUME NEW i \in Server, NEW k \in 1 .. Len(log'[i])
      PROVE  log'[i][k].term <= currentTerm'[i]
  <2>1. /\ currentTerm[i] \in Nat /\ currentTerm'[i] \in Nat
        /\ currentTerm[i] <= currentTerm'[i]
        /\ Len(log[i]) \in Nat /\ Len(log'[i]) \in Nat
    BY StepTypes
  <2>2. ASSUME NEW l \in 1 .. Len(log[i])
        PROVE  log[i][l].term <= currentTerm'[i]
    <3>1. log[i][l].term \in Nat
      BY StepTypes, HistoryType
    <3>2. log[i][l].term <= currentTerm[i]
      BY DEF BoundsInv, TermsAreBounded
    <3> QED
      BY <2>1, <3>1, <3>2
  <2>3. CASE log'[i] = log[i]
    BY <2>2, <2>3
  <2>4. CASE Writes(i)
    <3>1. k \in 1 .. Len(log[i]) \/ k = Len(log[i]) + 1
      BY <2>1, <2>4 DEF Writes
    <3> QED
      BY <2>1, <2>2, <2>4, <3>1 DEF Writes
  <2>5. ASSUME NEW n \in messages, Follows(i, n)
        PROVE  log'[i][k].term <= currentTerm'[i]
    <3>1. PICK kept \in 0 .. Len(log[i]) : TakesOver(i, n, kept)
      BY <2>5, FollowerTakesOver DEF Step
    <3>2. CASE k <= kept
      <4>1. k \in 1 .. Len(log[i]) /\ log'[i][k] = log[i][k]
        BY <2>1, <3>1, <3>2 DEF TakesOver
      <4> QED
        BY <2>2, <4>1
    <3>3. CASE k > kept
      <4>1. /\ n.prevLogIndex \in Nat /\ Len(n.entries) \in Nat
            /\ LastSent(n) = n.prevLogIndex + Len(n.entries)
            /\ currentTerm'[i] = n.term
        BY <2>5, FollowsFields DEF Step, LastSent
      <4>2. /\ k <= LastSent(n) /\ n.prevLogIndex < k
            /\ log'[i][k] = n.entries[k - n.prevLogIndex]
        BY <2>1, <3>1, <3>3, <4>1 DEF TakesOver, Larger
      <4>3. /\ k - n.prevLogIndex \in 1 .. Len(n.entries)
            /\ n.prevLogIndex + (k - n.prevLogIndex) = k
        BY <4>1, <4>2
      <4>4. n.entries[k - n.prevLogIndex] = H[n.term][k] /\ k \in 1 .. Len(H[n.term])
        <5>1. IsSlice(n, H[n.term]) /\ LastSent(n) <= Len(H[n.term])
          BY <2>5, FollowsSlice
        <5>2. Len(H[n.term]) \in Nat
          BY <2>5, FollowsSlice, LogOfTerm
        <5>3. n.entries[k - n.prevLogIndex] = H[n.term][k]
          BY <4>3, <5>1 DEF IsSlice
        <5> QED
          BY <4>1, <4>2, <5>1, <5>2, <5>3
      <4>5. H[n.term][k].term <= n.term
        BY <2>5, <4>4, FollowsSlice DEF BoundsInv, TermsAreBounded
      <4> QED
        BY <4>1, <4>2, <4>4, <4>5
    <3> QED
      BY <3>2, <3>3
  <2> QED
    BY <2>3, <2>4, <2>5 DEF Step, LogStepOf
<1>2. ASSUME NEW t \in Nat, NEW k \in 1 .. Len(H2[t])
      PROVE  H2[t][k].term <= t
  <2>1. CASE H2[t] = H[t]
    BY <2>1 DEF BoundsInv, TermsAreBounded
  <2>2. ASSUME NEW i \in Server, GrowsBy(i, t, H, H2)
        PROVE  H2[t][k].term <= t
    BY <1>1, <2>2 DEF GrowsBy
  <2> QED
    BY <2>1, <2>2, HistoryAt
<1> QED
  BY <1>1, <1>2 DEF TermsAreBounded

LEMMA AcksStayBounded ==
  ASSUME NEW H \in History, NEW H2 \in History, Step(H, H2), BoundsInv(H)
  PROVE  AcksAreBounded(H2)'
<1> SUFFICES ASSUME NEW m \in messages', IsAck(m)
             PROVE  m.term <= currentTerm'[m.from] /\ m.matchIndex <= Len(H2[m.term])
  BY DEF AcksAreBounded
<1>1. CASE m \in messages
  <2>1. m.from \in Server /\ m.term \in Nat /\ m.matchIndex \in Nat
    BY <1>1, MessageFields DEF Step, TypeOK, IsAck, AppendEntriesResponse
  <2>2. m.term <= currentTerm[m.from] /\ m.matchIndex <= Len(H[m.term])
    BY <1>1 DEF BoundsInv, AcksAreBounded
  <2>3. /\ Len(H[m.term]) \in Nat /\ Len(H2[m.term]) \in Nat
        /\ Len(H[m.term]) <= Len(H2[m.term])
    BY <2>1, LogOfTerm DEF Step, Extends
  <2> QED
    BY <2>1, <2>2, <2>3, StepTypes
<1>2. CASE m \notin messages
  <2>1. PICK n \in messages : Acknowledges(m, n)
    BY <1>2, SentAck
  <2>2. /\ m.from = n.to /\ m.term = n.term /\ m.matchIndex = LastSent(n)
        /\ n.to \in Server /\ Follows(n.to, n)
    BY <2>1, AcceptFields DEF Acknowledges, AppendReply, Follows, Step
  <2>3. n.term \in Nat /\ LastSent(n) \in Nat /\ currentTerm'[n.to] = n.term
    BY <2>2, FollowsFields DEF Step
  <2>4. LastSent(n) <= Len(H[n.term])
    BY <2>2, FollowsSlice
  <2>5. /\ Len(H[n.term]) \in Nat /\ Len(H2[n.term]) \in Nat
        /\ Len(H[n.term]) <= Len(H2[n.term])
    BY <2>3, LogOfTerm DEF Step, Extends
  <2> QED
    BY <2>2, <2>3, <2>4, <2>5
<1> QED
  BY <1>1, <1>2

LEMMA CandidateStays ==
  ASSUME NEW H \in History, NEW H2 \in History, Step(H, H2),
         NEW c \in Server, role'[c] = "candidate"
  PROVE  /\ log'[c] = log[c]
         /\ \/ role[c] = "candidate" /\ currentTerm'[c] = currentTerm[c]
            \/ currentTerm'[c] > currentTerm[c]
<1>1. ASSUME NEW n \in messages, Follows(c, n)
      PROVE  FALSE
  BY <1>1, FollowsFields DEF Step
<1> QED
  BY <1>1 DEF Step, LogStepOf, Writes, NoSecondCandidacy

LEMMA AsksStayCurrent ==
  ASSUME NEW H \in History, NEW H2 \in History, Step(H, H2), BoundsInv(H)
  PROVE  AsksAreCurrent'
<1> SUFFICES ASSUME NEW m \in messages', IsAsk(m)
             PROVE  /\ m.term <= currentTerm'[m.from]
                    /\ role'[m.from] = "candidate" /\ currentTerm'[m.from] = m.term =>
                         /\ m.lastLogIndex = Len(log'[m.from])
                         /\ m.lastLogTerm = TermAt(log'[m.from], Len(log'[m.from]))
  BY DEF AsksAreCurrent
<1>1. CASE m \in messages
  <2>1. m.from \in Server /\ m.term \in Nat
    BY <1>1, MessageFields DEF Step, TypeOK
  <2>2. m.term <= currentTerm[m.from]
    BY <1>1 DEF BoundsInv, AsksAreCurrent
  <2>3. m.term <= currentTerm'[m.from]
    BY <2>1, <2>2, StepTypes
  <2>4. ASSUME role'[m.from] = "candidate", currentTerm'[m.from] = m.term
        PROVE  /\ m.lastLogIndex = Len(log'[m.from])
               /\ m.lastLogTerm = TermAt(log'[m.from], Len(log'[m.from]))
    <3>1. log'[m.from] = log[m.from]
      BY <2>1, <2>4, CandidateStays
    <3>2. role[m.from] = "candidate" /\ currentTerm[m.from] = m.term
      BY <2>1, <2>2, <2>4, CandidateStays, StepTypes
    <3> QED
      BY <1>1, <3>1, <3>2 DEF BoundsInv, AsksAreCurrent
  <2> QED
    BY <2>3, <2>4
<1>2. CASE m \notin messages
  <2>1. PICK i \in Server : AsksFor(m, i)
    BY <1>2, SentAsk
  <2>2. /\ m.from = i /\ m.term = currentTerm'[i]
        /\ m.lastLogIndex = Len(log[i]) /\ m.lastLogTerm = TermAt(log[i], Len(log[i]))
    BY <2>1 DEF AsksFor, VoteRequests
  <2> QED
    BY <2>1, <2>2, StepTypes DEF AsksFor
<1> QED
  BY <1>1, <1>2

LEMMA GrantsStayAsked ==
  ASSUME NEW H \in History, NEW H2 \in History, Step(H, H2), BoundsInv(H)
  PROVE  GrantsAreAsked'
<1> SUFFICES ASSUME NEW m \in messages', IsGrant(m)
             PROVE  m.term <= currentTerm'[m.to]
  BY DEF GrantsAreAsked
<1>1. CASE m \in messages
  <2>1. m.to \in Server /\ m.term \in Nat /\ m.term <= currentTerm[m.to]
    BY <1>1, MessageFields DEF Step, TypeOK, BoundsInv, GrantsAreAsked
  <2> QED
    BY <2>1, StepTypes
<1>2. CASE m \notin messages
  <2>1. PICK n \in messages : GrantsTo(m, n)
    BY <1>2, SentGrant
  <2>2. m.to = n.from /\ m.term = n.term /\ IsAsk(n)
    BY <2>1 DEF GrantsTo, VoteReply
  <2>3. n.from \in Server /\ n.term \in Nat /\ n.term <= currentTerm[n.from]
    BY <2>2, MessageFields DEF Step, TypeOK, BoundsInv, AsksAreCurrent
  <2> QED
    BY <2>2, <2>3, StepTypes
<1> QED
  BY <1>1, <1>2

LEMMA BoundsInvStable ==
  ASSUME NEW H \in History, NEW H2 \in History, Step(H, H2), BoundsInv(H)
  PROVE  BoundsInv(H2)'
<1>1. TermsAreBounded(H2)' /\ RequestsAreSlices(H2)' /\ AcksAreBounded(H2)'
  BY TermsStayBounded, RequestsStaySlices, AcksStayBounded
<1>2. ProgressIsAcked' /\ AsksAreCurrent' /\ GrantsAreAsked'
  BY ProgressStaysAcked, AsksStayCurrent, GrantsStayAsked
<1> QED
  BY <1>1, <1>2 DEF BoundsInv

-----------------------------------------------------------------------------
(* What is chosen stays in the logs that have it                           *)

\* A log keeps what it has in common with the log that a request is cut from.
LEMMA HeldStays ==
  ASSUME NEW H \in History, NEW H2 \in History, Step(H, H2),
         NEW j \in Server, NEW lg \in Seq(Entry), NEW k \in Nat, Agree(log[j], lg, k),
         \A n \in messages : Follows(j, n) => IsSlice(n, lg)
  PROVE  Agree(log'[j], lg, k)
<1>1. CASE log'[j] = log[j]
  BY <1>1
<1>2. CASE Writes(j)
  <2>1. Len(log[j]) \in Nat /\ Len(log'[j]) \in Nat
    BY StepTypes
  <2> QED
    BY <1>2, <2>1 DEF Writes, Agree
<1>3. ASSUME NEW n \in messages, Follows(j, n)
      PROVE  Agree(log'[j], lg, k)
  BY <1>3, FollowerKeeps DEF Step
<1> QED
  BY <1>1, <1>2, <1>3 DEF Step, LogStepOf

\* A server that has the log of a term keeps it in that term ...
LEMMA HeldInTermStays ==
  ASSUME NEW H \in History, NEW H2 \in History, Step(H, H2), BoundsInv(H),
         NEW j \in Server, NEW t \in Nat, NEW k \in Nat, Agree(log[j], H[t], k),
         currentTerm'[j] = t
  PROVE  Agree(log'[j], H2[t], k)
<1>1. ASSUME NEW n \in messages, Follows(j, n)
      PROVE  IsSlice(n, H[t])
  BY <1>1, FollowsFields, FollowsSlice DEF Step
<1>2. Agree(log'[j], H[t], k)
  BY <1>1, HeldStays, LogOfTerm
<1> QED
  BY <1>2, ExtendAgree, StepTypes DEF Step

\* ... and in later terms, because their leaders have it, unless it is blocked.
LEMMA HeldIsSafe ==
  ASSUME NEW H \in History, NEW H2 \in History, Step(H, H2),
         BoundsInv(H), HistoryIsSafe(H),
         NEW j \in Server, NEW t \in Nat, NEW k \in Nat \ {0}, Agree(log[j], H[t], k),
         Own(t, k, H), currentTerm[j] >= t
  PROVE  Agree(log'[j], H2[t], k) \/ Blocked(t, k, H2)'
<1>1. CASE Blocked(t, k, H)
  BY <1>1, BlockedStable
<1>2. CASE ~Blocked(t, k, H)
  <2>1. ASSUME NEW n \in messages, Follows(j, n), n.term > t
        PROVE  Agree(log'[j], H[t], k)
    <3>1. /\ n.term \in Nat /\ H[n.term] \in Seq(Entry) /\ H[n.term] # <<>>
          /\ IsSlice(n, H[n.term])
      BY <2>1, FollowsSlice
    <3>2. Agree(H[n.term], H[t], k)
      BY <1>2, <2>1, <3>1 DEF HistoryIsSafe, SafeLog
    <3>3. Agree(H[t], H[n.term], k)
      BY <3>2 DEF Agree
    <3>4. Agree(log[j], H[n.term], k)
      BY <3>1, <3>3, AgreeTransitive, LogOfTerm, StepTypes
    <3>5. Agree(log'[j], H[n.term], k)
      BY <2>1, <3>1, <3>4, FollowerKeeps DEF Step
    <3> QED
      BY <3>1, <3>2, <3>5, AgreeTransitive, LogOfTerm, StepTypes
  <2>2. ASSUME \A n \in messages : Follows(j, n) => ~(n.term > t)
        PROVE  Agree(log'[j], H[t], k)
    <3>1. ASSUME NEW n \in messages, Follows(j, n)
          PROVE  IsSlice(n, H[t])
      <4>1. n.term = t
        BY <2>2, <3>1, FollowsFields, StepTypes DEF Step
      <4> QED
        BY <3>1, <4>1, FollowsSlice
    <3> QED
      BY <3>1, HeldStays, LogOfTerm
  <2>3. Agree(log'[j], H[t], k)
    BY <2>1, <2>2
  <2> QED
    BY <2>3, ExtendAgree, StepTypes DEF Step
<1> QED
  BY <1>1, <1>2

LEMMA AckedStaysHeld ==
  ASSUME NEW H \in History, NEW H2 \in History, Step(H, H2),
         BoundsInv(H), AckedIsHeld(H)
  PROVE  AckedIsHeld(H2)'
<1> SUFFICES ASSUME NEW j \in Server, NEW t \in Nat, NEW k \in Nat \ {0},
                    currentTerm'[j] = t, Acked(j, t, k, H2)'
             PROVE  Agree(log'[j], H2[t], k)
  BY DEF AckedIsHeld
<1>1. CASE Acked(j, t, k, H)
  <2>1. currentTerm[j] = t
    <3>1. currentTerm[j] >= t
      BY <1>1, AckedPast DEF Step, BoundsInv
    <3> QED
      BY <3>1, StepTypes
  <2>2. Agree(log[j], H[t], k)
    BY <1>1, <2>1 DEF AckedIsHeld
  <2> QED
    BY <2>2, HeldInTermStays
<1>2. ASSUME NEW n \in messages, Follows(j, n), n.term = t, k <= LastSent(n)
      PROVE  Agree(log'[j], H2[t], k)
  <2>1. Agree(log'[j], H[t], LastSent(n))
    BY <1>2, FollowsSlice, FollowerReaches DEF Step
  <2>2. LastSent(n) \in Nat /\ k \in 0 .. LastSent(n)
    BY <1>2, FollowsFields DEF Step
  <2>3. Agree(log'[j], H[t], k)
    BY <2>1, <2>2, AgreeLess, LogOfTerm, StepTypes
  <2> QED
    BY <2>3, ExtendAgree, StepTypes DEF Step
<1>3. CASE GrowsBy(j, t, H, H2) /\ k <= Len(log'[j])
  BY <1>3 DEF GrowsBy, Agree
<1> QED
  BY <1>1, <1>2, <1>3, AckedOrigin

LEMMA AckedStaysSafe ==
  ASSUME NEW H \in History, NEW H2 \in History, Step(H, H2), BoundsInv(H),
         AckedIsHeld(H), AckedIsSafe(H), HistoryIsSafe(H)
  PROVE  AckedIsSafe(H2)'
<1> SUFFICES ASSUME NEW j \in Server, NEW t \in Nat, NEW k \in Nat \ {0},
                    Own(t, k, H2), Acked(j, t, k, H2)'
             PROVE  Agree(log'[j], H2[t], k) \/ Blocked(t, k, H2)'
  BY DEF AckedIsSafe, SafeLog, Own
<1>1. CASE Acked(j, t, k, H)
  <2>1. currentTerm[j] >= t /\ k <= Len(H[t])
    BY <1>1, AckedPast DEF Step, BoundsInv
  <2>2. Own(t, k, H)
    BY <2>1, ExtendOwn DEF Step
  <2>3. Agree(log[j], H[t], k) \/ Blocked(t, k, H)
    BY <1>1, <2>2 DEF AckedIsSafe, SafeLog
  <2> QED
    BY <2>1, <2>2, <2>3, HeldIsSafe, BlockedStable
<1>2. CASE currentTerm'[j] = t
  BY <1>2, AckedStaysHeld DEF AckedIsHeld
<1>3. ASSUME NEW n \in messages, Follows(j, n), n.term = t
      PROVE  currentTerm'[j] = t
  BY <1>3, FollowsFields DEF Step
<1>4. GrowsBy(j, t, H, H2) => currentTerm'[j] = t
  BY DEF GrowsBy
<1> QED
  BY <1>1, <1>2, <1>3, <1>4, AckedOrigin

\* A leader that writes does not lose what its log has.
LEMMA WriterKeeps ==
  ASSUME NEW H \in History, NEW H2 \in History, Step(H, H2),
         NEW i \in Server, Writes(i), NEW t \in Nat, NEW k \in Nat,
         Agree(log[i], H[t], k)
  PROVE  Agree(log'[i], H2[t], k)
<1>1. Len(log[i]) \in Nat /\ Len(log'[i]) \in Nat
  BY StepTypes
<1>2. Agree(log'[i], H[t], k)
  BY <1>1 DEF Writes, Agree
<1> QED
  BY <1>2, ExtendAgree, StepTypes DEF Step

\* Whoever is elected in a later term was voted for by someone who had acknowledged
\* what is chosen.
LEMMA NewLeaderIsSafe ==
  ASSUME NEW H \in History, NEW H2 \in History, Step(H, H2),
         BoundsInv(H), ChoiceInv(H),
         NEW i \in Server, NEW t \in Nat, NEW u \in Nat, t < u,
         NEW k \in Nat \ {0}, Own(t, k, H), GrowsBy(i, u, H, H2),
         \/ role[i] = "candidate" /\ currentTerm[i] = u
         \/ currentTerm[i] < u
  PROVE  Agree(log'[i], H2[t], k) \/ Blocked(t, k, H2)'
<1>1. PICK Q \in Quorum : \A j \in Q : Support(j, i, u)'
  <2>1. Elected(i, u)'
    BY LeaderIsElected DEF Step, GrowsBy, Writes
  <2> QED
    BY <2>1 DEF Elected, Quorum
<1>2. CASE \A j \in Q : ~Acked(j, t, k, H)
  <2>1. ASSUME NEW j \in Q
        PROVE  currentTerm'[j] > t /\ ~Acked(j, t, k, H2)'
    <3>1. j \in Server /\ currentTerm'[j] >= u
      BY <1>1 DEF Quorum, Support
    <3>2. currentTerm'[j] > t
      BY <3>1, StepTypes
    <3> QED
      BY <1>2, <3>1, <3>2, AckedBefore
  <2> QED
    BY <2>1 DEF Blocked, Quorum
<1>3. ASSUME NEW j \in Q, Acked(j, t, k, H)
      PROVE  Agree(log'[i], H2[t], k) \/ Blocked(t, k, H2)'
  <2>1. j \in Server
    BY DEF Quorum
  <2>2. SafeLog(log[i], t, k, H)
    <3>1. CASE j = i
      BY <1>3, <2>1, <3>1 DEF ChoiceInv, AckedIsSafe
    <3>2. CASE j # i
      <4>1. PICK m \in messages' : IsGrant(m) /\ m.from = j /\ m.to = i /\ m.term = u
        BY <1>1, <3>2 DEF Support, Granted
      <4>2. m \in messages
        <5>1. ASSUME NEW n \in messages, GrantsTo(m, n)
              PROVE  FALSE
          <6>1. Len(log'[i]) = Len(log[i])
            BY <5>1 DEF GrantsTo, GrantVote
          <6>2. Len(log'[i]) = Len(log[i]) + 1 /\ Len(log[i]) \in Nat
            BY StepTypes DEF GrowsBy, Writes
          <6> QED
            BY <6>1, <6>2
        <5> QED
          BY <4>1, <5>1, SentGrant
      <4>3. u <= currentTerm[i]
        BY <4>1, <4>2 DEF BoundsInv, GrantsAreAsked
      <4>4. role[i] = "candidate" /\ currentTerm[i] = u
        BY <4>3, StepTypes
      <4> QED
        BY <1>3, <2>1, <4>1, <4>2, <4>4 DEF ChoiceInv, CandidatesAreSafe, Granted
    <3> QED
      BY <3>1, <3>2
  <2> QED
    BY <2>2, WriterKeeps, BlockedStable DEF SafeLog, GrowsBy
<1> QED
  BY <1>2, <1>3

LEMMA HistoryStaysSafe ==
  ASSUME NEW H \in History, NEW H2 \in History, Step(H, H2),
         BoundsInv(H), ChoiceInv(H)
  PROVE  HistoryIsSafe(H2)'
<1> SUFFICES ASSUME NEW t \in Nat, NEW u \in Nat, NEW k \in Nat \ {0},
                    t < u, H2[u] # <<>>, Own(t, k, H2)
             PROVE  Agree(H2[u], H2[t], k) \/ Blocked(t, k, H2)'
  BY DEF HistoryIsSafe, SafeLog, Own
<1>1. Len(H[t]) \in Nat /\ H2[u] \in Seq(Entry)
  BY LogOfTerm
<1>2. CASE k <= Len(H[t]) /\ H2[u] = H[u]
  <2>1. Own(t, k, H)
    BY <1>2, ExtendOwn DEF Step
  <2>2. Agree(H[u], H[t], k) \/ Blocked(t, k, H)
    BY <1>2, <2>1 DEF ChoiceInv, HistoryIsSafe, SafeLog
  <2> QED
    BY <1>1, <1>2, <2>2, ExtendAgree, BlockedStable DEF Step
<1>3. CASE ~(k <= Len(H[t]))
  <2>1. H2[u] = H[u]
    <3>1. H2[t] # H[t]
      BY <1>3, LogOfTerm DEF Own
    <3> QED
      BY <3>1, HistoryAt DEF GrowsBy
  <2>2. PICK c \in Server : Elected(c, u)
    BY <2>1 DEF Step, HistoryInv, HistoryIsLed, Led
  <2>3. PICK Q \in Quorum : \A j \in Q : Support(j, c, u)
    BY <2>2 DEF Elected
  <2>4. ASSUME NEW j \in Q
        PROVE  currentTerm'[j] > t /\ ~Acked(j, t, k, H2)'
    <3>1. j \in Server /\ currentTerm[j] >= u
      BY <2>3 DEF Quorum, Support
    <3>2. currentTerm'[j] > t
      BY <3>1, StepTypes
    <3>3. ~Acked(j, t, k, H)
      BY <1>3, <3>1, AckedPast DEF Step, BoundsInv
    <3> QED
      BY <3>1, <3>2, <3>3, AckedBefore
  <2> QED
    BY <2>4 DEF Blocked, Quorum
<1>4. ASSUME k <= Len(H[t]), NEW i \in Server, GrowsBy(i, u, H, H2)
      PROVE  Agree(H2[u], H2[t], k) \/ Blocked(t, k, H2)'
  <2>1. Own(t, k, H) /\ H2[u] = log'[i]
    BY <1>4, ExtendOwn DEF Step, GrowsBy
  <2>2. CASE role[i] = "leader" /\ currentTerm[i] = u /\ H[u] = log[i]
    <3>1. H[u] # <<>>
      BY <2>2 DEF BoundsInv, ProgressIsAcked
    <3>2. Agree(log[i], H[t], k) \/ Blocked(t, k, H)
      BY <2>1, <2>2, <3>1 DEF ChoiceInv, HistoryIsSafe, SafeLog
    <3> QED
      BY <1>4, <2>1, <3>2, WriterKeeps, BlockedStable DEF GrowsBy
  <2>3. CASE \/ role[i] = "candidate" /\ currentTerm[i] = u
             \/ currentTerm[i] < u
    BY <1>4, <2>1, <2>3, NewLeaderIsSafe
  <2> QED
    BY <1>4, <2>2, <2>3 DEF GrowsBy
<1> QED
  BY <1>2, <1>3, <1>4, HistoryAt

-----------------------------------------------------------------------------
(* Candidates                                                              *)

\* A log that is up to date with one that has what is chosen has it too.
LEMMA UpToDateIsSafe ==
  ASSUME TypeOK, NEW H \in History, HistoryInv(H), TermsAreBounded(H), HistoryIsSafe(H),
         NEW j \in Server, NEW c \in Server, NEW n,
         n.lastLogIndex = Len(log[c]), n.lastLogTerm = TermAt(log[c], Len(log[c])),
         UpToDate(j, n),
         NEW t \in Nat, NEW k \in Nat \ {0}, Own(t, k, H), Agree(log[j], H[t], k)
  PROVE  SafeLog(log[c], t, k, H)
<1>1. PICK a \in Nat, b \in Nat : a = Len(log[j]) /\ b = Len(log[c])
  BY CommitFields
<1>2. /\ log[j] \in Seq(Entry) /\ log[c] \in Seq(Entry)
      /\ InHistory(log[j], H) /\ InHistory(log[c], H)
      /\ H[t] \in Seq(Entry) /\ Len(H[t]) \in Nat
  BY CommitFields, LogOfTerm DEF HistoryInv, LogsInHistory
<1>3. k \in 1 .. a /\ log[j][k].term = t
  BY <1>1, <1>2 DEF Agree, Own
<1>4. PICK r : r = log[j][a].term
  OBVIOUS
<1>5. r \in Nat /\ t <= r
  <2>1. a \in 1 .. Len(log[j]) /\ k \in 1 .. a
    BY <1>1, <1>3
  <2>2. r \in Nat
    BY <1>2, <1>4, <2>1, HistoryType
  <2>3. log[j][k].term <= log[j][a].term
    BY <1>2, <2>1, TermsGrow DEF TermsAreBounded
  <2> QED
    BY <1>3, <1>4, <2>2, <2>3
<1>6. TermAt(log[j], a) = r
  BY <1>1, <1>2, <1>3, <1>4 DEF TermAt
<1>7. \/ TermAt(log[c], b) > r
      \/ TermAt(log[c], b) = r /\ b >= a
  BY <1>1, <1>6 DEF UpToDate
<1>8. b >= 1
  <2>1. b = 0 => TermAt(log[c], b) = 0
    BY <1>2 DEF TermAt
  <2> QED
    BY <1>1, <1>3, <1>5, <1>7, <2>1
<1>9. PICK s : s = log[c][b].term
  OBVIOUS
<1>10. TermAt(log[c], b) = s
  BY <1>1, <1>2, <1>8, <1>9 DEF TermAt
<1>11. /\ s \in Nat /\ H[s] \in Seq(Entry) /\ Len(H[s]) \in Nat
       /\ Agree(log[c], H[s], b) /\ Own(s, b, H)
  BY <1>1, <1>2, <1>8, <1>9, EntryIsOwn, LogOfTerm
<1>12. CASE s = r /\ b >= a
  <2>1. Agree(log[j], H[s], a)
    BY <1>1, <1>2, <1>3, <1>4, <1>12, EntryIsOwn
  <2>2. /\ k \in 0 .. a /\ k \in 0 .. b
    BY <1>3, <1>12
  <2>3. Agree(log[j], H[s], k) /\ Agree(log[c], H[s], k)
    BY <1>2, <1>11, <2>1, <2>2, AgreeLess
  <2>4. Agree(log[c], H[t], k)
    BY <2>3 DEF Agree
  <2> QED
    BY <2>4 DEF SafeLog
<1>13. CASE s > r
  <2>1. t < s /\ H[s] # <<>>
    BY <1>5, <1>8, <1>11, <1>13 DEF Own
  <2>2. CASE Blocked(t, k, H)
    BY <2>2 DEF SafeLog
  <2>3. CASE Agree(H[s], H[t], k)
    <3>1. k <= b
      <4>1. SUFFICES ASSUME b < k
                     PROVE  FALSE
        BY <1>3
      <4>2. k \in 1 .. Len(H[s]) /\ b \in 1 .. k /\ H[s][k].term = t /\ H[s][b].term = s
        BY <1>8, <1>11, <2>3, <4>1 DEF Agree, Own
      <4>3. InHistory(H[s], H)
        BY <1>11 DEF HistoryInv, HistoryIsClosed
      <4>4. H[s][b].term <= H[s][k].term
        BY <1>11, <4>2, <4>3, TermsGrow DEF TermsAreBounded
      <4> QED
        BY <1>11, <2>1, <4>2, <4>4
    <3>2. Agree(log[c], H[s], k)
      BY <1>2, <1>11, <3>1, AgreeLess
    <3>3. Agree(log[c], H[t], k)
      BY <2>3, <3>2 DEF Agree
    <3> QED
      BY <3>3 DEF SafeLog
  <2> QED
    BY <1>11, <2>1, <2>2, <2>3 DEF HistoryIsSafe, SafeLog
<1> QED
  BY <1>7, <1>10, <1>12, <1>13

LEMMA CandidatesStaySafe ==
  ASSUME NEW H \in History, NEW H2 \in History, Step(H, H2),
         BoundsInv(H), ChoiceInv(H)
  PROVE  CandidatesAreSafe(H2)'
<1> SUFFICES ASSUME NEW j \in Server, NEW c \in Server,
                    NEW t \in Nat, NEW u \in Nat, NEW k \in Nat \ {0},
                    role'[c] = "candidate", currentTerm'[c] = u, Granted(j, c, u)',
                    t < u, Own(t, k, H2), Acked(j, t, k, H2)'
             PROVE  Agree(log'[c], H2[t], k) \/ Blocked(t, k, H2)'
  BY DEF CandidatesAreSafe, SafeLog, Own
<1>1. PICK m \in messages' : IsGrant(m) /\ m.from = j /\ m.to = c /\ m.term = u
  BY DEF Granted
<1>2. currentTerm'[j] > t
  <2>1. Support(m.from, m.to, m.term)'
    BY <1>1 DEF Step, VoteInv
  <2> QED
    BY <1>1, <2>1, StepTypes DEF Support
<1>3. Acked(j, t, k, H)
  BY <1>2, AckedBefore
<1>4. Own(t, k, H)
  BY <1>3, AckedPast, ExtendOwn DEF Step, BoundsInv
<1>5. ASSUME u <= currentTerm[c]
      PROVE  role[c] = "candidate" /\ currentTerm[c] = u
  BY <1>5, CandidateStays, StepTypes
<1>6. SafeLog(log[c], t, k, H)
  <2>1. CASE m \in messages
    <3>1. u <= currentTerm[c]
      BY <1>1, <2>1 DEF BoundsInv, GrantsAreAsked
    <3> QED
      BY <1>1, <1>3, <1>4, <1>5, <2>1, <3>1 DEF ChoiceInv, CandidatesAreSafe, Granted
  <2>2. CASE m \notin messages
    <3>1. PICK n \in messages : GrantsTo(m, n)
      BY <1>1, <2>2, SentGrant
    <3>2. n.to = j /\ n.from = c /\ n.term = u /\ IsAsk(n) /\ UpToDate(j, n)
      BY <1>1, <3>1 DEF GrantsTo, VoteReply, GrantVote, CanGrant
    <3>3. u <= currentTerm[c]
      BY <3>2 DEF BoundsInv, AsksAreCurrent
    <3>4. n.lastLogIndex = Len(log[c]) /\ n.lastLogTerm = TermAt(log[c], Len(log[c]))
      BY <1>5, <3>2, <3>3 DEF BoundsInv, AsksAreCurrent
    <3>5. SafeLog(log[j], t, k, H)
      BY <1>3, <1>4 DEF ChoiceInv, AckedIsSafe
    <3>6. CASE Agree(log[j], H[t], k)
      BY <1>4, <3>2, <3>4, <3>6, UpToDateIsSafe DEF Step, BoundsInv, ChoiceInv
    <3> QED
      BY <3>5, <3>6 DEF SafeLog
  <2> QED
    BY <2>1, <2>2
<1>7. log'[c] = log[c]
  BY CandidateStays
<1> QED
  BY <1>6, <1>7, ExtendAgree, BlockedStable, StepTypes DEF SafeLog, Step

-----------------------------------------------------------------------------
(* Commit indexes                                                          *)

\* After the step the log is, up to commit, what is chosen.
IsChosenAfter(lg, term, commit, H2) ==
    commit = 0 \/ \E t \in 0 .. term : \E k \in Nat \ {0} :
      commit <= k /\ Own(t, k, H2) /\ Chosen(t, k, H2)' /\ Agree(lg, H2[t], commit)

LEMMA ChosenCommitStays ==
  ASSUME NEW H \in History, NEW H2 \in History, Step(H, H2),
         NEW lg \in Seq(Entry), NEW term \in Nat, NEW commit \in Nat,
         CommitIsChosen(lg, term, commit, H),
         NEW lg2 \in Seq(Entry), NEW term2 \in Nat, term <= term2,
         Agree(lg2, lg, commit)
  PROVE  IsChosenAfter(lg2, term2, commit, H2)
<1>1. CASE commit = 0
  BY <1>1 DEF IsChosenAfter
<1>2. CASE commit # 0
  <2>1. PICK t \in 0 .. term : \E k \in Nat \ {0} :
          commit <= k /\ Own(t, k, H) /\ Chosen(t, k, H) /\ Agree(lg, H[t], commit)
    BY <1>2 DEF CommitIsChosen
  <2>2. PICK k \in Nat \ {0} :
          commit <= k /\ Own(t, k, H) /\ Chosen(t, k, H) /\ Agree(lg, H[t], commit)
    BY <2>1
  <2>3. t \in Nat /\ t \in 0 .. term2
    OBVIOUS
  <2>4. Own(t, k, H2) /\ Chosen(t, k, H2)'
    BY <2>2, <2>3, ExtendOwn, ChosenStable DEF Step
  <2>5. Agree(lg2, H[t], commit)
    BY <2>2, <2>3, AgreeTransitive, LogOfTerm
  <2>6. Agree(lg2, H2[t], commit)
    BY <2>3, <2>5, ExtendAgree DEF Step
  <2> QED
    BY <2>2, <2>3, <2>4, <2>6 DEF IsChosenAfter
<1> QED
  BY <1>1, <1>2

\* A leader commits what it has the acknowledgements of a quorum for, in its own term
\* only.
LEMMA ReplicatedIsChosen ==
  ASSUME NEW H \in History, NEW H2 \in History, Step(H, H2), BoundsInv(H),
         NEW i \in Server, role'[i] = "leader", NEW t, t = currentTerm'[i],
         NEW k \in Replicated(i, t, log'[i], matchIndex'[i])
  PROVE  k \in Nat \ {0} /\ Own(t, k, H2) /\ Chosen(t, k, H2)' /\ k <= Len(log'[i])
<1>1. /\ log'[i] \in Seq(Entry) /\ Len(log'[i]) \in Nat /\ H2[t] = log'[i] /\ t \in Nat
  BY StepTypes, LeaderHistory
<1>2. /\ k \in 1 .. Len(log'[i]) /\ log'[i][k].term = t
      /\ {i} \cup {j \in Peers(i) : matchIndex'[i][j] >= k} \in Quorum
  BY <1>1 DEF Replicated
<1>3. Own(t, k, H2)
  BY <1>1, <1>2 DEF Own
<1>4. Acked(i, t, k, H2)'
  BY <1>1, <1>2, LeaderIsElected DEF Acked, Step
<1>5. ASSUME NEW j \in Peers(i), matchIndex'[i][j] >= k
      PROVE  Acked(j, t, k, H2)'
  <2>1. j \in Server /\ matchIndex'[i][j] \in Nat
    <3>1. matchIndex'[i] \in [Server -> Nat]
      BY DEF Step, TypeOK, MemberTypeOK
    <3> QED
      BY <3>1 DEF Peers
  <2>2. PICK m \in messages' : AckedBy(m, j, t, matchIndex'[i][j])
    BY <1>2, <1>5, <2>1, ProgressStaysAcked DEF ProgressIsAcked, AckedBy
  <2>3. m.matchIndex \in Nat
    <3>1. MessagesTypeOK'
      BY DEF Step, TypeOK
    <3>2. m \in RaftMessage /\ m.type = "append-entries-response"
      BY <2>2, <3>1 DEF MessagesTypeOK, AckedBy, IsAck
    <3> QED
      BY <3>2 DEF RaftMessage, RequestVoteRequest, RequestVoteResponse,
                  AppendEntriesRequest, AppendEntriesResponse
  <2>4. AckedBy(m, j, t, k)
    BY <1>2, <1>5, <2>1, <2>2, <2>3 DEF AckedBy
  <2> QED
    BY <2>4 DEF Acked, AckedBy
<1>6. Chosen(t, k, H2)'
  <2>1. \A j \in {i} \cup {p \in Peers(i) : matchIndex'[i][p] >= k} : Acked(j, t, k, H2)'
    BY <1>4, <1>5
  <2> QED
    BY <1>2, <2>1 DEF Chosen, Quorum
<1> QED
  BY <1>2, <1>3, <1>6

LEMMA CommitsAreChosenAfter ==
  ASSUME NEW H \in History, NEW H2 \in History, Step(H, H2),
         BoundsInv(H), ChoiceInv(H), NEW i \in Server
  PROVE  IsChosenAfter(log'[i], currentTerm'[i], commitIndex'[i], H2)
<1>1. /\ log[i] \in Seq(Entry) /\ log'[i] \in Seq(Entry) /\ Len(log[i]) \in Nat
      /\ Len(log'[i]) \in Nat
      /\ currentTerm[i] \in Nat /\ currentTerm'[i] \in Nat
      /\ currentTerm[i] <= currentTerm'[i]
  BY StepTypes
<1>2. /\ commitIndex[i] \in Nat /\ commitIndex[i] <= Len(log[i])
      /\ commitIndex'[i] \in Nat /\ commitIndex'[i] <= Len(log'[i])
  BY DEF Step, TypeOK, LogTypeOK
<1>3. CASE commitIndex'[i] = commitIndex[i]
  <2>1. Agree(log'[i], log[i], commitIndex[i])
    BY <1>1, <1>2, <1>3 DEF Step, KeepsCommitted, Agree
  <2>2. CommitIsChosen(log[i], currentTerm[i], commitIndex[i], H)
    BY DEF ChoiceInv, CommitsAreChosen
  <2> QED
    BY <1>1, <1>2, <1>3, <2>1, <2>2, ChosenCommitStays
<1>4. CASE /\ role'[i] = "leader"
           /\ commitIndex'[i] \in Replicated(i, currentTerm'[i], log'[i], matchIndex'[i])
  <2>1. PICK t \in Nat, k \in Nat : t = currentTerm'[i] /\ k = commitIndex'[i]
    BY <1>1, <1>2
  <2>2. k \in Nat \ {0} /\ Own(t, k, H2) /\ Chosen(t, k, H2)' /\ k <= Len(log'[i])
    BY <1>4, <2>1, ReplicatedIsChosen
  <2>3. Agree(log'[i], H2[t], k)
    BY <1>1, <1>4, <2>1, <2>2, LeaderHistory DEF Agree
  <2> QED
    BY <2>1, <2>2, <2>3 DEF IsChosenAfter
<1>5. ASSUME NEW n \in messages, Follows(i, n), commitIndex'[i] = n.leaderCommit
      PROVE  IsChosenAfter(log'[i], currentTerm'[i], commitIndex'[i], H2)
  <2>1. CommitIsChosen(H[n.term], n.term, n.leaderCommit, H)
    BY <1>5 DEF ChoiceInv, RequestCommitsAreChosen, Follows
  <2>2. /\ n.term \in Nat /\ H[n.term] \in Seq(Entry)
        /\ n.leaderCommit \in Nat /\ LastSent(n) \in Nat /\ n.term = currentTerm'[i]
    BY <1>5, FollowsFields, FollowsSlice DEF Step
  <2>3. Agree(log'[i], H[n.term], LastSent(n))
    BY <1>5, FollowsSlice, FollowerReaches DEF Step
  <2>4. n.leaderCommit \in 0 .. LastSent(n)
    BY <1>5, <2>2 DEF Step, AppendCoversCommit, Follows, IsAppend
  <2>5. Agree(log'[i], H[n.term], n.leaderCommit)
    BY <1>1, <2>2, <2>3, <2>4, AgreeLess
  <2> QED
    BY <1>1, <1>5, <2>1, <2>2, <2>5, ChosenCommitStays
<1> QED
  BY <1>3, <1>4, <1>5 DEF Step, CommitStepOf

LEMMA RequestCommitsAreChosenAfter ==
  ASSUME NEW H \in History, NEW H2 \in History, Step(H, H2),
         BoundsInv(H), ChoiceInv(H), NEW m \in messages', IsAppend(m)
  PROVE  IsChosenAfter(H2[m.term], m.term, m.leaderCommit, H2)
<1>1. CASE m \in messages
  <2>1. m.term \in Nat /\ m.leaderCommit \in Nat /\ LastSent(m) \in Nat
    BY <1>1, MessageFields DEF Step, TypeOK, IsAppend, AppendEntriesRequest, LastSent
  <2>2. /\ H[m.term] \in Seq(Entry) /\ Len(H[m.term]) \in Nat
        /\ H2[m.term] \in Seq(Entry) /\ Len(H2[m.term]) \in Nat
    BY <2>1, LogOfTerm
  <2>3. m.leaderCommit <= Len(H[m.term])
    <3>1. m.leaderCommit <= LastSent(m)
      BY <1>1 DEF Step, AppendCoversCommit, IsAppend
    <3>2. LastSent(m) <= Len(H[m.term])
      BY <1>1 DEF BoundsInv, RequestsAreSlices, IsSlice
    <3> QED
      BY <2>1, <2>2, <3>1, <3>2
  <2>4. Agree(H[m.term], H[m.term], m.leaderCommit)
    BY <2>3 DEF Agree
  <2>5. Agree(H2[m.term], H[m.term], m.leaderCommit)
    <3>1. Agree(H[m.term], H2[m.term], m.leaderCommit)
      BY <2>1, <2>2, <2>4, ExtendAgree DEF Step
    <3> QED
      BY <3>1 DEF Agree
  <2>6. CommitIsChosen(H[m.term], m.term, m.leaderCommit, H)
    BY <1>1 DEF ChoiceInv, RequestCommitsAreChosen
  <2> QED
    BY <2>1, <2>2, <2>5, <2>6, ChosenCommitStays
<1>2. CASE m \notin messages
  <2>1. PICK i \in Server : AppendsFor(m, i)
    BY <1>2, SentAppend
  <2>2. /\ role'[i] = "leader" /\ m.term = currentTerm'[i]
        /\ m.leaderCommit \in {commitIndex[i], commitIndex'[i]}
    BY <2>1 DEF AppendsFor, AppendFor
  <2>3. /\ commitIndex[i] \in Nat /\ commitIndex'[i] \in Nat
        /\ commitIndex[i] <= commitIndex'[i]
    BY DEF Step, TypeOK, LogTypeOK, KeepsCommitted
  <2>4. PICK c \in Nat : c = commitIndex'[i] /\ m.leaderCommit \in 0 .. c
    BY <2>2, <2>3
  <2>5. H2[m.term] = log'[i] /\ log'[i] \in Seq(Entry)
    BY <2>2, LeaderHistory, StepTypes
  <2>6. IsChosenAfter(H2[m.term], m.term, c, H2)
    BY <2>2, <2>4, <2>5, CommitsAreChosenAfter
  <2>7. CASE m.leaderCommit = 0
    BY <2>7 DEF IsChosenAfter
  <2>8. CASE m.leaderCommit # 0
    <3>1. PICK t \in 0 .. m.term : \E k \in Nat \ {0} :
            c <= k /\ Own(t, k, H2) /\ Chosen(t, k, H2)' /\ Agree(H2[m.term], H2[t], c)
      BY <2>4, <2>6, <2>8 DEF IsChosenAfter
    <3>2. PICK k \in Nat \ {0} :
            c <= k /\ Own(t, k, H2) /\ Chosen(t, k, H2)' /\ Agree(H2[m.term], H2[t], c)
      BY <3>1
    <3>3. Agree(H2[m.term], H2[t], m.leaderCommit)
      BY <2>4, <3>2 DEF Agree
    <3> QED
      BY <2>4, <3>2, <3>3 DEF IsChosenAfter
  <2> QED
    BY <2>7, <2>8
<1> QED
  BY <1>1, <1>2

LEMMA ChoiceInvStable ==
  ASSUME NEW H \in History, NEW H2 \in History, Step(H, H2),
         BoundsInv(H), ChoiceInv(H)
  PROVE  ChoiceInv(H2)'
<1>1. AckedIsHeld(H2)' /\ AckedIsSafe(H2)'
  BY AckedStaysHeld, AckedStaysSafe DEF ChoiceInv
<1>2. HistoryIsSafe(H2)' /\ CandidatesAreSafe(H2)'
  BY HistoryStaysSafe, CandidatesStaySafe
<1>3. CommitsAreChosen(H2)'
  BY CommitsAreChosenAfter DEF CommitsAreChosen, CommitIsChosen, IsChosenAfter, Own, Agree
<1>4. RequestCommitsAreChosen(H2)'
  BY RequestCommitsAreChosenAfter
     DEF RequestCommitsAreChosen, CommitIsChosen, IsChosenAfter, Own, Agree
<1> QED
  BY <1>1, <1>2, <1>3, <1>4 DEF ChoiceInv

-----------------------------------------------------------------------------
(* The inductive invariant                                                 *)

LEMMA SafetyInvStable ==
  ASSUME TypeOK, TypeOK', VoteInv, VoteInv', AppendCoversCommit, SafetyInv, [Next]_vars
  PROVE  SafetyInv'
<1>1. PICK H \in History : HistoryInv(H) /\ BoundsInv(H) /\ ChoiceInv(H)
  BY DEF SafetyInv
<1>2. PICK H2 \in History : Step(H, H2)
  BY <1>1, NextStep
<1>3. HistoryInv(H2)' /\ BoundsInv(H2)' /\ ChoiceInv(H2)'
  BY <1>1, <1>2, BoundsInvStable, ChoiceInvStable DEF Step
<1> QED
  BY <1>3 DEF SafetyInv

LEMMA InitSafetyInv ==
  ASSUME Init
  PROVE  SafetyInv
<1>1. PICK H \in History : \A t \in Nat : H[t] = <<>>
  <2>1. [t \in Nat |-> <<>>] \in History
    BY DEF History
  <2> QED
    BY <2>1
<1>2. /\ messages = {} /\ \A t \in Nat : H[t] = <<>> /\ Len(H[t]) = 0
      /\ \A i \in Server : /\ log[i] = <<>> /\ Len(log[i]) = 0 /\ role[i] = "follower"
                           /\ commitIndex[i] = 0
  BY <1>1 DEF Init
<1>3. HistoryInv(H)
  BY <1>2 DEF HistoryInv, LogsInHistory, RequestsInHistory, HistoryIsClosed,
              LeadersAreHistory, HistoryIsLed, InHistory
<1>4. BoundsInv(H)
  BY <1>2 DEF BoundsInv, TermsAreBounded, RequestsAreSlices, AcksAreBounded,
              ProgressIsAcked, AsksAreCurrent, GrantsAreAsked
<1>5. ASSUME NEW j \in Server, NEW t \in Nat, NEW k \in Nat \ {0}
      PROVE  ~Acked(j, t, k, H) /\ ~Own(t, k, H)
  BY <1>2 DEF Acked, Own
<1>6. ChoiceInv(H)
  BY <1>2, <1>5
     DEF ChoiceInv, AckedIsHeld, AckedIsSafe, HistoryIsSafe, CandidatesAreSafe,
         CommitsAreChosen, RequestCommitsAreChosen, CommitIsChosen
<1> QED
  BY <1>3, <1>4, <1>6 DEF SafetyInv

\* The inductive invariant holds in every reachable state: whatever a quorum has
\* acknowledged is in every log that may be asked for it.
THEOREM ChosenIsSafe == Spec => []SafetyInv
<1>1. TypeOK /\ TypeOK' /\ VoteInv /\ VoteInv' /\ AppendCoversCommit /\ SafetyInv
        /\ [Next]_vars => SafetyInv'
  BY SafetyInvStable
<1> QED
  BY <1>1, InitSafetyInv, TypeCorrect, VotesAreConsistent, AppendsCoverCommit, PTL DEF Spec

-----------------------------------------------------------------------------
(* What follows for committed entries                                      *)

\* Up to its commit index a log is the log of the leader that committed it, a quorum
\* has that, and every leader of a later term does.
CommittedBy(i, t, k, H) ==
    /\ t \in Nat /\ k \in Nat \ {0} /\ H[t] \in Seq(Entry)
    /\ t <= currentTerm[i] /\ commitIndex[i] <= k
    /\ Own(t, k, H) /\ Chosen(t, k, H) /\ Agree(log[i], H[t], commitIndex[i])
    /\ \A u \in Nat : t <= u /\ H[u] # <<>> => Agree(H[u], H[t], k)

LEMMA Committed ==
  ASSUME TypeOK, NEW H \in History, ChoiceInv(H),
         NEW i \in Server, commitIndex[i] # 0
  PROVE  \E t \in Nat, k \in Nat \ {0} : CommittedBy(i, t, k, H)
<1>1. PICK t \in 0 .. currentTerm[i] : \E k \in Nat \ {0} :
        /\ commitIndex[i] <= k /\ Own(t, k, H) /\ Chosen(t, k, H)
        /\ Agree(log[i], H[t], commitIndex[i])
  BY DEF ChoiceInv, CommitsAreChosen, CommitIsChosen
<1>2. PICK k \in Nat \ {0} :
        /\ commitIndex[i] <= k /\ Own(t, k, H) /\ Chosen(t, k, H)
        /\ Agree(log[i], H[t], commitIndex[i])
  BY <1>1
<1>3. t \in Nat /\ t <= currentTerm[i] /\ H[t] \in Seq(Entry)
  BY LogOfTerm DEF TypeOK, MemberTypeOK
<1>4. ASSUME NEW u \in Nat, t <= u, H[u] # <<>>
      PROVE  Agree(H[u], H[t], k)
  <2>1. CASE u = t
    BY <1>2, <1>3, <2>1 DEF Own, Agree
  <2>2. CASE t < u
    BY <1>2, <1>3, <1>4, <2>2, NotBoth DEF ChoiceInv, HistoryIsSafe, SafeLog
  <2> QED
    BY <1>3, <1>4, <2>1, <2>2
<1> QED
  BY <1>2, <1>3, <1>4 DEF CommittedBy

LEMMA SafetyInvImpliesLeaderCompleteness ==
  ASSUME TypeOK, SafetyInv
  PROVE  LeaderCompleteness
<1>1. PICK H \in History : HistoryInv(H) /\ BoundsInv(H) /\ ChoiceInv(H)
  BY DEF SafetyInv
<1> SUFFICES ASSUME NEW i \in Server, NEW j \in Server,
                    role[i] = "leader", currentTerm[j] <= currentTerm[i],
                    NEW l \in 1 .. commitIndex[j]
             PROVE  l \in DOMAIN log[i] /\ log[i][l] = log[j][l]
  BY DEF LeaderCompleteness
<1>2. /\ currentTerm[i] \in Nat /\ currentTerm[j] \in Nat
      /\ commitIndex[j] \in Nat /\ commitIndex[j] # 0
      /\ log[i] \in Seq(Entry) /\ Len(log[i]) \in Nat
  BY CommitFields DEF TypeOK, MemberTypeOK
<1>3. H[currentTerm[i]] = log[i] /\ log[i] # <<>>
  BY <1>1 DEF HistoryInv, LeadersAreHistory, BoundsInv, ProgressIsAcked
<1>4. PICK t \in Nat, k \in Nat \ {0} : CommittedBy(j, t, k, H)
  BY <1>1, <1>2, Committed
<1>5. t <= currentTerm[i] /\ l \in 1 .. k
  BY <1>2, <1>4 DEF CommittedBy
<1>6. Agree(log[i], H[t], k) /\ Agree(log[j], H[t], commitIndex[j])
  BY <1>2, <1>3, <1>4, <1>5 DEF CommittedBy
<1> QED
  BY <1>2, <1>5, <1>6 DEF Agree

LEMMA SafetyInvImpliesStateMachineSafety ==
  ASSUME TypeOK, SafetyInv
  PROVE  StateMachineSafety
<1>1. PICK H \in History : HistoryInv(H) /\ BoundsInv(H) /\ ChoiceInv(H)
  BY DEF SafetyInv
<1>2. ASSUME NEW i \in Server, NEW j \in Server, NEW l \in Nat \ {0},
             l <= commitIndex[i], l <= commitIndex[j],
             NEW t \in Nat, NEW k \in Nat \ {0}, CommittedBy(i, t, k, H),
             NEW u \in Nat, NEW h \in Nat \ {0}, CommittedBy(j, u, h, H), t <= u
      PROVE  log[i][l] = log[j][l]
  <2>1. commitIndex[i] \in Nat /\ commitIndex[j] \in Nat
    BY CommitFields
  <2>2. H[u] # <<>>
    BY <1>2, LogOfTerm DEF CommittedBy, Own
  <2>3. Agree(H[u], H[t], k)
    BY <1>2, <2>2 DEF CommittedBy
  <2>4. Agree(log[i], H[t], commitIndex[i]) /\ Agree(log[j], H[u], commitIndex[j])
    BY <1>2 DEF CommittedBy
  <2>5. l \in 1 .. k /\ l \in 1 .. commitIndex[i] /\ l \in 1 .. commitIndex[j]
    BY <1>2, <2>1 DEF CommittedBy
  <2> QED
    BY <2>3, <2>4, <2>5 DEF Agree
<1> SUFFICES ASSUME NEW i \in Server, NEW j \in Server,
                    NEW l \in 1 .. Smaller(commitIndex[i], commitIndex[j])
             PROVE  log[i][l] = log[j][l]
  BY DEF StateMachineSafety
<1>3. /\ l \in Nat \ {0} /\ l <= commitIndex[i] /\ l <= commitIndex[j]
      /\ commitIndex[i] # 0 /\ commitIndex[j] # 0
  BY CommitFields DEF Smaller
<1>4. PICK t \in Nat, k \in Nat \ {0} : CommittedBy(i, t, k, H)
  BY <1>1, <1>3, Committed
<1>5. PICK u \in Nat, h \in Nat \ {0} : CommittedBy(j, u, h, H)
  BY <1>1, <1>3, Committed
<1>6. CASE t <= u
  BY <1>2, <1>3, <1>4, <1>5, <1>6
<1>7. CASE u <= t
  BY <1>2, <1>3, <1>4, <1>5, <1>7
<1> QED
  BY <1>6, <1>7

\* More servers than a quorum are a quorum.
LEMMA LargerQuorum ==
  ASSUME NEW Q \in Quorum, NEW P \in SUBSET Server, Q \subseteq P
  PROVE  P \in Quorum
<1>1. IsFiniteSet(P) /\ IsFiniteSet(Server)
  BY ServerAssumption, FS_Subset
<1>2. Cardinality(Q) <= Cardinality(P)
  BY <1>1, FS_Subset
<1>3. Cardinality(P) \in Nat /\ Cardinality(Q) \in Nat /\ Cardinality(Server) \in Nat
  BY <1>1, FS_Subset, FS_CardinalityType
<1> QED
  BY <1>2, <1>3 DEF Quorum

LEMMA SafetyInvImpliesCommittedOnQuorum ==
  ASSUME TypeOK, SafetyInv
  PROVE  CommittedOnQuorum
<1>1. PICK H \in History : HistoryInv(H) /\ BoundsInv(H) /\ ChoiceInv(H)
  BY DEF SafetyInv
<1> SUFFICES ASSUME NEW i \in Server, NEW l \in 1 .. commitIndex[i]
             PROVE  {j \in Server : l \in DOMAIN log[j] /\ log[j][l] = log[i][l]} \in Quorum
  BY DEF CommittedOnQuorum
<1>2. commitIndex[i] \in Nat /\ commitIndex[i] # 0
  BY CommitFields
<1>3. PICK t \in Nat, k \in Nat \ {0} : CommittedBy(i, t, k, H)
  BY <1>1, <1>2, Committed
<1>4. PICK Q \in Quorum : \A j \in Q : Acked(j, t, k, H)
  BY <1>3 DEF CommittedBy, Chosen
<1>5. ASSUME NEW j \in Q
      PROVE  j \in Server /\ l \in DOMAIN log[j] /\ log[j][l] = log[i][l]
  <2>1. j \in Server
    BY DEF Quorum
  <2>2. Agree(log[j], H[t], k)
    BY <1>1, <1>3, <1>4, <2>1, NotBoth DEF ChoiceInv, AckedIsSafe, SafeLog, CommittedBy
  <2>3. Agree(log[i], H[t], commitIndex[i]) /\ l \in 1 .. k
    BY <1>2, <1>3 DEF CommittedBy
  <2>4. log[j] \in Seq(Entry) /\ Len(log[j]) \in Nat
    BY <2>1, CommitFields
  <2> QED
    BY <2>1, <2>2, <2>3, <2>4 DEF Agree
<1> QED
  BY <1>4, <1>5, LargerQuorum

LEMMA SafetyInvImpliesNeverOverwrites ==
  ASSUME TypeOK, SafetyInv
  PROVE  NeverOverwritesCommitted
<1>1. PICK H \in History : HistoryInv(H) /\ BoundsInv(H) /\ ChoiceInv(H)
  BY DEF SafetyInv
<1> SUFFICES ASSUME NEW m \in messages, IsAppend(m), m.term >= currentTerm[m.to],
                    NEW l \in 1 .. commitIndex[m.to], Conflicts(m.to, m, l)
             PROVE  FALSE
  BY DEF NeverOverwritesCommitted, IsAppend
<1>2. /\ m.to \in Server /\ m.term \in Nat /\ m.prevLogIndex \in Nat
      /\ Len(m.entries) \in Nat /\ LastSent(m) = m.prevLogIndex + Len(m.entries)
  BY MessageFields DEF TypeOK, IsAppend, AppendEntriesRequest, LastSent
<1>3. /\ commitIndex[m.to] \in Nat /\ commitIndex[m.to] # 0
      /\ currentTerm[m.to] \in Nat
  BY <1>2, CommitFields DEF TypeOK, MemberTypeOK
<1>4. IsSlice(m, H[m.term])
  BY <1>1 DEF BoundsInv, RequestsAreSlices
<1>5. PICK t \in Nat, k \in Nat \ {0} : CommittedBy(m.to, t, k, H)
  BY <1>1, <1>2, <1>3, Committed
<1>6. Agree(H[m.term], H[t], k)
  BY <1>2, <1>3, <1>4, <1>5 DEF CommittedBy, IsSlice
<1>7. Agree(log[m.to], H[t], commitIndex[m.to]) /\ l \in 1 .. k
  BY <1>3, <1>5 DEF CommittedBy
<1>8. log[m.to][l] = H[m.term][l]
  BY <1>6, <1>7 DEF Agree
<1>9. l \in m.prevLogIndex + 1 .. LastSent(m)
  BY DEF Conflicts
<1>10. /\ l - m.prevLogIndex \in 1 .. Len(m.entries)
       /\ m.prevLogIndex + (l - m.prevLogIndex) = l
  BY <1>2, <1>9
<1>11. m.entries[l - m.prevLogIndex] = H[m.term][l]
  BY <1>4, <1>10 DEF IsSlice
<1> QED
  BY <1>8, <1>11 DEF Conflicts

LEMMA SafetyInvImpliesMatchIndex ==
  ASSUME TypeOK, SafetyInv
  PROVE  MatchIndexIsTrue
<1>1. PICK H \in History : HistoryInv(H) /\ BoundsInv(H) /\ ChoiceInv(H)
  BY DEF SafetyInv
<1> SUFFICES ASSUME NEW i \in Server, NEW j \in Server,
                    role[i] = "leader", currentTerm[j] = currentTerm[i],
                    NEW l \in 1 .. matchIndex[i][j]
             PROVE  l \in DOMAIN log[i] /\ l \in DOMAIN log[j] /\ log[j][l] = log[i][l]
  BY DEF MatchIndexIsTrue
<1>2. PICK t \in Nat, k \in Nat : t = currentTerm[i] /\ k = matchIndex[i][j]
  BY ProgressFields DEF TypeOK, MemberTypeOK
<1>3. k # 0 /\ l \in 1 .. k
  BY <1>2
<1>4. \E m \in messages : AckedBy(m, j, t, k)
  BY <1>1, <1>2, <1>3 DEF BoundsInv, ProgressIsAcked
<1>5. Agree(log[j], H[t], k)
  BY <1>1, <1>2, <1>3, <1>4 DEF ChoiceInv, AckedIsHeld, Acked
<1>6. H[t] = log[i]
  BY <1>1, <1>2 DEF HistoryInv, LeadersAreHistory
<1>7. /\ log[i] \in Seq(Entry) /\ Len(log[i]) \in Nat
      /\ log[j] \in Seq(Entry) /\ Len(log[j]) \in Nat
  BY CommitFields
<1> QED
  BY <1>3, <1>5, <1>6, <1>7 DEF Agree

\* A leader of any term holds everything that anyone committed in its own term or
\* before it: UpToDate (raft.ts, handleVoteRequest) is the right test of a candidate's
\* log, and a leader commits by counting only entries of its own term
\* (advanceLeaderCommit).
THEOREM LeadersAreComplete == Spec => []LeaderCompleteness
  BY ChosenIsSafe, TypeCorrect, SafetyInvImpliesLeaderCompleteness, PTL

\* No two servers of any cluster ever commit, and so apply, different entries at the
\* same index.
THEOREM StateMachinesAreSafe == Spec => []StateMachineSafety
  BY ChosenIsSafe, TypeCorrect, SafetyInvImpliesStateMachineSafety, PTL

\* Every committed entry is in the logs of a quorum, from when it is committed and for
\* ever: no server of that quorum gives it up for a later leader's log.
THEOREM CommittedIsOnQuorum == Spec => []CommittedOnQuorum
  BY ChosenIsSafe, TypeCorrect, SafetyInvImpliesCommittedOnQuorum, PTL

\* The error 'attempted to overwrite committed entry' (raft.ts:267) is never thrown:
\* no request ever sent, delivered at any time, contradicts what its receiver has
\* committed.
THEOREM CommittedIsNeverOverwritten == Spec => []NeverOverwritesCommitted
  BY ChosenIsSafe, TypeCorrect, SafetyInvImpliesNeverOverwrites, PTL

\* What a leader believes of the logs of its peers (raft.ts, handleAppendResponse) is
\* true of every peer that is still in its term.
THEOREM MatchIndexesAreTrue == Spec => []MatchIndexIsTrue
  BY ChosenIsSafe, TypeCorrect, SafetyInvImpliesMatchIndex, PTL

-----------------------------------------------------------------------------
(* What is sent is in the sender                                           *)

\* While the sender of a message is in its term, its vote and its log say what the
\* message says.
SentIsHeld ==
    \A m \in messages : m.term = currentTerm[m.from] =>
      /\ IsGrant(m) => votedFor[m.from] = m.to
      /\ IsAck(m) => m.matchIndex <= Len(log[m.from])
      /\ IsAppend(m) => \A k \in DOMAIN m.entries :
           /\ m.prevLogIndex + k \in DOMAIN log[m.from]
           /\ log[m.from][m.prevLogIndex + k] = m.entries[k]

LEMMA SafetyInvImpliesSentIsHeld ==
  ASSUME TypeOK, VoteInv, SafetyInv
  PROVE  SentIsHeld
<1>1. PICK H \in History : HistoryInv(H) /\ BoundsInv(H) /\ ChoiceInv(H)
  BY DEF SafetyInv
<1> SUFFICES ASSUME NEW m \in messages, m.term = currentTerm[m.from]
             PROVE  /\ IsGrant(m) => votedFor[m.from] = m.to
                    /\ IsAck(m) => m.matchIndex <= Len(log[m.from])
                    /\ IsAppend(m) => \A k \in DOMAIN m.entries :
                         /\ m.prevLogIndex + k \in DOMAIN log[m.from]
                         /\ log[m.from][m.prevLogIndex + k] = m.entries[k]
  BY DEF SentIsHeld
<1>2. /\ m.from \in Server /\ m.term \in Nat
      /\ IsAck(m) => m \in AppendEntriesResponse
      /\ IsAppend(m) => m \in AppendEntriesRequest
  BY MessageFields DEF TypeOK, IsAck, IsAppend
<1>3. log[m.from] \in Seq(Entry) /\ Len(log[m.from]) \in Nat
  BY <1>2, CommitFields
<1>4. IsGrant(m) => votedFor[m.from] = m.to
  BY DEF VoteInv, Support
<1>5. ASSUME NEW k \in Nat \ {0}, Acked(m.from, m.term, k, H)
      PROVE  Agree(log[m.from], H[m.term], k)
  BY <1>1, <1>2, <1>5 DEF ChoiceInv, AckedIsHeld
<1>6. ASSUME IsAck(m) PROVE m.matchIndex <= Len(log[m.from])
  <2>1. m.matchIndex \in Nat
    BY <1>2, <1>6 DEF AppendEntriesResponse
  <2>2. CASE m.matchIndex = 0
    BY <1>3, <2>2
  <2>3. CASE m.matchIndex # 0
    <3>1. Acked(m.from, m.term, m.matchIndex, H)
      BY <1>6, <2>1 DEF Acked, AckedBy
    <3> QED
      BY <1>5, <2>1, <2>3, <3>1 DEF Agree
  <2> QED
    BY <2>2, <2>3
<1>7. ASSUME IsAppend(m), NEW k \in DOMAIN m.entries
      PROVE  /\ m.prevLogIndex + k \in DOMAIN log[m.from]
             /\ log[m.from][m.prevLogIndex + k] = m.entries[k]
  <2>1. /\ m.prevLogIndex \in Nat /\ m.entries \in Seq(Entry) /\ Len(m.entries) \in Nat
        /\ k \in 1 .. Len(m.entries)
    BY <1>2, <1>7 DEF AppendEntriesRequest
  <2>2. /\ H[m.term] \in Seq(Entry) /\ Len(H[m.term]) \in Nat
        /\ m.prevLogIndex + k <= Len(H[m.term])
        /\ m.entries[k] = H[m.term][m.prevLogIndex + k]
    BY <1>1, <1>2, <1>7, <2>1, LogOfTerm DEF BoundsInv, RequestsAreSlices, IsSlice, LastSent
  <2>3. Elected(m.from, m.term)
    BY <1>7 DEF VoteInv
  <2>4. Agree(log[m.from], H[m.term], m.prevLogIndex + k)
    BY <1>5, <2>1, <2>2, <2>3 DEF Acked
  <2>5. m.prevLogIndex + k \in 1 .. Len(log[m.from])
    BY <1>3, <2>1, <2>4 DEF Agree
  <2> QED
    BY <1>3, <2>1, <2>2, <2>4, <2>5 DEF Agree
<1> QED
  BY <1>4, <1>6, <1>7

\* What a server has told others in its term, by its vote, an acknowledgement or a
\* request, stays true of it as long as it is in that term: raft.ts has no step that
\* takes back what a message of the term said.
THEOREM SentStaysTrue == Spec => []SentIsHeld
  BY ChosenIsSafe, VotesAreConsistent, TypeCorrect, SafetyInvImpliesSentIsHeld, PTL
=============================================================================
