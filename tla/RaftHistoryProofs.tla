-------------------------- MODULE RaftHistoryProofs --------------------------
(***************************************************************************)
(* Log matching in module Raft, for every cluster, set of commands and     *)
(* bound.  The inductive invariant says that there is a history: for each  *)
(* term the log its leader has, or had when it stopped leading.  Whatever  *)
(* entry of a term is found, in a log or in a request, what comes before   *)
(* it is what comes before it in the history of that term.                 *)
(***************************************************************************)
EXTENDS RaftLogProofs

\* One log for each term.
History == [Nat -> Seq(Entry)]

\* Up to any entry, a log is what the history of that entry's term is.
InHistory(lg, H) ==
    \A k \in 1 .. Len(lg) :
      /\ k <= Len(H[lg[k].term])
      /\ \A l \in 1 .. k : lg[l] = H[lg[k].term][l]

\* The same for entries that follow index prev, whose term is prevTerm.
SegmentInHistory(prev, prevTerm, entries, H) ==
    \A k \in 1 .. Len(entries) :
      /\ prev + k <= Len(H[entries[k].term])
      /\ \A l \in 1 .. k : entries[l] = H[entries[k].term][prev + l]
      /\ prev >= 1 => H[entries[k].term][prev].term = prevTerm

RequestInHistory(m, H) ==
    SegmentInHistory(m.prevLogIndex, m.prevLogTerm, m.entries, H)

\* Someone was elected in term t, and cannot be elected in it again.
Led(t) ==
    \E c \in Server :
      /\ Elected(c, t)
      /\ currentTerm[c] >= t
      /\ currentTerm[c] = t => role[c] # "candidate"

\* The parts of the invariant; the history of a term is itself such a log, and only
\* a term that had a leader has one.
LogsInHistory(H) == \A i \in Server : InHistory(log[i], H)
RequestsInHistory(H) == \A m \in messages : IsAppend(m) => RequestInHistory(m, H)
HistoryIsClosed(H) == \A t \in Nat : InHistory(H[t], H)
LeadersAreHistory(H) == \A i \in Server : role[i] = "leader" => H[currentTerm[i]] = log[i]
HistoryIsLed(H) == \A t \in Nat : H[t] # <<>> => Led(t)

HistoryInv(H) ==
    /\ LogsInHistory(H)
    /\ RequestsInHistory(H)
    /\ HistoryIsClosed(H)
    /\ LeadersAreHistory(H)
    /\ HistoryIsLed(H)

LogInv == \E H \in History : HistoryInv(H)

-----------------------------------------------------------------------------
(* Sequences and histories                                                 *)

LEMMA HistoryType ==
  ASSUME NEW H \in History, NEW lg \in Seq(Entry), NEW k \in 1 .. Len(lg)
  PROVE  /\ lg[k] \in Entry /\ lg[k].term \in Nat
         /\ H[lg[k].term] \in Seq(Entry) /\ Len(H[lg[k].term]) \in Nat
<1>1. lg[k] \in Entry
  OBVIOUS
<1>2. lg[k].term \in Nat
  BY <1>1 DEF Entry
<1>3. H[lg[k].term] \in Seq(Entry)
  BY <1>2 DEF History
<1> QED
  BY <1>1, <1>2, <1>3

\* What is cut out of a log that is in history is in history.
LEMMA SubSeqInHistory ==
  ASSUME NEW H \in History, NEW lg \in Seq(Entry), InHistory(lg, H),
         NEW next \in Nat \ {0}
  PROVE  SegmentInHistory(next - 1, TermAt(lg, next - 1), SubSeq(lg, next, Len(lg)), H)
<1> DEFINE es == SubSeq(lg, next, Len(lg))
<1>1. /\ es \in Seq(Entry)
      /\ Len(es) = IF next <= Len(lg) THEN Len(lg) - next + 1 ELSE 0
      /\ \A l \in 1 .. Len(es) : es[l] = lg[next - 1 + l]
  OBVIOUS
<1> SUFFICES ASSUME NEW k \in 1 .. Len(es)
             PROVE  /\ next - 1 + k <= Len(H[es[k].term])
                    /\ \A l \in 1 .. k : es[l] = H[es[k].term][next - 1 + l]
                    /\ next - 1 >= 1 =>
                         H[es[k].term][next - 1].term = TermAt(lg, next - 1)
  BY DEF SegmentInHistory
<1> HIDE DEF es
<1>2. next - 1 + k \in 1 .. Len(lg) /\ es[k] = lg[next - 1 + k]
  BY <1>1
<1> DEFINE h == H[es[k].term]
<1>3. h \in Seq(Entry) /\ Len(h) \in Nat
  BY <1>2, HistoryType
<1>4. next - 1 + k <= Len(h) /\ \A l \in 1 .. next - 1 + k : lg[l] = h[l]
  BY <1>2 DEF InHistory
<1> HIDE DEF h
<1>5. ASSUME NEW l \in 1 .. k
      PROVE  es[l] = h[next - 1 + l]
  <2>1. next - 1 + l \in 1 .. next - 1 + k /\ l \in 1 .. Len(es)
    BY <1>1
  <2>2. es[l] = lg[next - 1 + l]
    BY <1>1, <2>1
  <2>3. lg[next - 1 + l] = h[next - 1 + l]
    BY <1>4, <2>1
  <2> QED
    BY <2>2, <2>3
<1>6. next - 1 >= 1 => h[next - 1].term = TermAt(lg, next - 1)
  <2>1. CASE next - 1 >= 1
    <3>1. next - 1 \in 1 .. next - 1 + k /\ next - 1 \in DOMAIN lg
      BY <2>1, <1>2
    <3> QED
      BY <3>1, <1>4 DEF TermAt
  <2> QED
    BY <2>1
<1> QED
  BY <1>4, <1>5, <1>6 DEF h

\* A log of which a first part is kept and a segment takes the place of the rest
\* is in history if both were, and agree where they overlap: the entries were
\* written one after the other.
LEMMA SpliceInHistory ==
  ASSUME NEW H \in History, \A t \in Nat : InHistory(H[t], H),
         NEW lg \in Seq(Entry), InHistory(lg, H),
         NEW p \in Nat, NEW pt, NEW es \in Seq(Entry), SegmentInHistory(p, pt, es, H),
         NEW kept \in 0 .. Len(lg), p <= kept,
         p >= 1 => lg[p].term = pt,
         \A k \in p + 1 .. kept : k - p <= Len(es) => lg[k].term = es[k - p].term,
         NEW M \in Seq(Entry), Len(M) = Larger(kept, p + Len(es)),
         \A k \in 1 .. Len(M) : M[k] = IF k <= kept THEN lg[k] ELSE es[k - p]
  PROVE  InHistory(M, H)
<1> SUFFICES ASSUME NEW k \in 1 .. Len(M)
             PROVE  /\ k <= Len(H[M[k].term])
                    /\ \A l \in 1 .. k : M[l] = H[M[k].term][l]
  BY DEF InHistory
<1> DEFINE h == H[M[k].term]
<1>1. M[k].term \in Nat /\ h \in Seq(Entry) /\ Len(h) \in Nat
  BY HistoryType
<1>2. CASE k <= kept
  <2>1. k \in 1 .. Len(lg) /\ M[k] = lg[k]
    BY <1>2
  <2>2. k <= Len(h) /\ \A l \in 1 .. k : lg[l] = h[l]
    BY <2>1 DEF InHistory
  <2>3. \A l \in 1 .. k : M[l] = lg[l]
    BY <1>2
  <2> QED
    BY <2>2, <2>3
<1>3. CASE k > kept
  <2>1. k - p \in 1 .. Len(es) /\ M[k] = es[k - p]
    BY <1>3 DEF Larger
  <2>2. /\ p + (k - p) <= Len(h)
        /\ \A l \in 1 .. k - p : es[l] = h[p + l]
        /\ p >= 1 => h[p].term = pt
    BY <2>1 DEF SegmentInHistory
  <2> HIDE DEF h
  <2>3. \A l \in p + 1 .. k : es[l - p] = h[l]
    <3> SUFFICES ASSUME NEW l \in p + 1 .. k PROVE es[l - p] = h[l]
      OBVIOUS
    <3>1. l - p \in 1 .. k - p /\ p + (l - p) = l
      OBVIOUS
    <3> QED
      BY <3>1, <2>2
  <2>4. ASSUME NEW l \in 1 .. k, l > kept
        PROVE  M[l] = h[l]
    BY <2>3, <2>4
  <2>5. ASSUME NEW l \in 1 .. k, l <= kept, l > p
        PROVE  M[l] = h[l]
    <3>9. l \in 1 .. Len(M) /\ k - p <= Len(es)
      BY <2>1
    <3>1. /\ M[l] = lg[l] /\ l \in 1 .. Len(lg) /\ l \in p + 1 .. k
          /\ l - p \in 1 .. Len(es) /\ p + (l - p) = l
      <4>1. l \in 1 .. Len(lg) /\ l \in p + 1 .. k
        BY <2>5
      <4>2. M[l] = lg[l]
        BY <2>5, <3>9
      <4>3. l - p \in 1 .. Len(es) /\ p + (l - p) = l
        BY <2>5, <3>9
      <4> QED
        BY <4>1, <4>2, <4>3
    <3>2. lg[l].term = es[l - p].term
      BY <2>5, <3>1
    <3>3. lg[l] = H[lg[l].term][l]
      BY <3>1 DEF InHistory
    <3>4. es[l - p] = H[es[l - p].term][p + (l - p)]
      BY <3>1 DEF SegmentInHistory
    <3> QED
      BY <2>3, <3>1, <3>2, <3>3, <3>4
  <2>6. ASSUME NEW l \in 1 .. k, l <= p
        PROVE  M[l] = h[l]
    <3>1. M[l] = lg[l] /\ p >= 1 /\ p \in 1 .. Len(lg) /\ l \in 1 .. p
      BY <2>6
    <3>2. lg[p].term = h[p].term
      BY <2>2, <3>1
    <3>3. lg[l] = H[lg[p].term][l]
      BY <3>1 DEF InHistory
    <3>4. p \in 1 .. Len(h)
      BY <1>1, <1>3, <2>2, <3>1 DEF h
    <3>5. InHistory(h, H)
      BY <1>1 DEF h
    <3>6. h[l] = H[h[p].term][l]
      BY <3>1, <3>4, <3>5 DEF InHistory
    <3> QED
      BY <3>1, <3>2, <3>3, <3>6
  <2>7. k <= Len(h)
    BY <2>2
  <2> QED
    BY <2>4, <2>5, <2>6, <2>7 DEF h
<1> QED
  BY <1>2, <1>3

-----------------------------------------------------------------------------
(* A longer history                                                        *)

Extends(H, H2) ==
    \A t \in Nat : /\ Len(H[t]) <= Len(H2[t])
                   /\ \A l \in 1 .. Len(H[t]) : H2[t][l] = H[t][l]

LEMMA ExtendInHistory ==
  ASSUME NEW H \in History, NEW H2 \in History, Extends(H, H2),
         NEW lg \in Seq(Entry), InHistory(lg, H)
  PROVE  InHistory(lg, H2)
<1> SUFFICES ASSUME NEW k \in 1 .. Len(lg)
             PROVE  /\ k <= Len(H2[lg[k].term])
                    /\ \A l \in 1 .. k : lg[l] = H2[lg[k].term][l]
  BY DEF InHistory
<1> DEFINE t == lg[k].term
<1>1. t \in Nat /\ Len(H[t]) \in Nat /\ Len(H2[t]) \in Nat
  BY HistoryType
<1>2. k <= Len(H[t]) /\ \A l \in 1 .. k : lg[l] = H[t][l]
  BY DEF InHistory
<1> HIDE DEF t
<1>3. Len(H[t]) <= Len(H2[t]) /\ \A l \in 1 .. Len(H[t]) : H2[t][l] = H[t][l]
  BY <1>1 DEF Extends
<1>4. k <= Len(H2[t]) /\ \A l \in 1 .. k : lg[l] = H2[t][l]
  BY <1>1, <1>2, <1>3
<1> QED
  BY <1>4 DEF t

LEMMA ExtendSegment ==
  ASSUME NEW H \in History, NEW H2 \in History, Extends(H, H2),
         NEW p \in Nat, NEW pt, NEW es \in Seq(Entry), SegmentInHistory(p, pt, es, H)
  PROVE  SegmentInHistory(p, pt, es, H2)
<1> SUFFICES ASSUME NEW k \in 1 .. Len(es)
             PROVE  /\ p + k <= Len(H2[es[k].term])
                    /\ \A l \in 1 .. k : es[l] = H2[es[k].term][p + l]
                    /\ p >= 1 => H2[es[k].term][p].term = pt
  BY DEF SegmentInHistory
<1> DEFINE t == es[k].term
<1>1. t \in Nat /\ Len(H[t]) \in Nat /\ Len(H2[t]) \in Nat
  BY HistoryType
<1>2. /\ p + k <= Len(H[t])
      /\ \A l \in 1 .. k : es[l] = H[t][p + l]
      /\ p >= 1 => H[t][p].term = pt
  BY DEF SegmentInHistory
<1> HIDE DEF t
<1>3. Len(H[t]) <= Len(H2[t]) /\ \A l \in 1 .. Len(H[t]) : H2[t][l] = H[t][l]
  BY <1>1 DEF Extends
<1>4. p + k <= Len(H2[t]) /\ (p >= 1 => H2[t][p].term = pt)
  BY <1>1, <1>2, <1>3
<1>5. \A l \in 1 .. k : es[l] = H2[t][p + l]
  <2> SUFFICES ASSUME NEW l \in 1 .. k PROVE es[l] = H2[t][p + l]
    OBVIOUS
  <2>1. p + l \in 1 .. Len(H[t])
    BY <1>1, <1>2
  <2> QED
    BY <2>1, <1>2, <1>3
<1> QED
  BY <1>4, <1>5 DEF t

-----------------------------------------------------------------------------
(* What a step does to logs, leaders and requests                          *)

\* The request carries the end of a log.
BuiltFrom(m, lg) ==
    \E next \in Nat \ {0} :
      /\ m.prevLogIndex = next - 1
      /\ m.prevLogTerm = TermAt(lg, next - 1)
      /\ m.entries = SubSeq(lg, next, Len(lg))

SendsFromLogs ==
    \A m \in messages' \ messages :
      IsAppend(m) => \E i \in Server : BuiltFrom(m, log'[i])

\* No step lets anyone be candidate in a term it led.
NoSecondCandidacy ==
    \A c \in Server : role'[c] = "candidate" =>
      \/ role[c] = "candidate" /\ currentTerm'[c] = currentTerm[c]
      \/ currentTerm'[c] > currentTerm[c]

\* Nobody comes to lead.
NobodyRises ==
    /\ NoSecondCandidacy
    /\ \A i \in Server : role'[i] = "leader" =>
         role[i] = "leader" /\ currentTerm'[i] = currentTerm[i]

\* A leader, old or new, writes an entry of its term.
LeaderWrites(i, term, command) ==
    /\ log' = [log EXCEPT ![i] = Append(@, [term |-> term, command |-> command])]
    /\ role'[i] = "leader" /\ currentTerm'[i] = term
    /\ \/ role[i] = "leader" /\ currentTerm[i] = term
       \/ role[i] = "candidate" /\ currentTerm[i] = term
       \/ currentTerm[i] < term
    /\ \A j \in Server : j # i => role'[j] = role[j] /\ currentTerm'[j] = currentTerm[j]

LogStep ==
    \/ UNCHANGED log /\ NobodyRises
    \/ NobodyRises /\ \E m \in messages : IsAppend(m) /\ AcceptAppend(m.to, m)
    \/ \E i \in Server, term \in Nat, command \in Command \cup {Noop} :
         LeaderWrites(i, term, command)

LEMMA BuiltFromLog ==
  ASSUME NEW i, NEW j, NEW term, NEW lg, NEW next \in Nat \ {0}, NEW commit
  PROVE  BuiltFrom(AppendFor(i, j, term, lg, next, commit), lg)
  BY DEF BuiltFrom, AppendFor

LEMMA BroadcastBuiltFrom ==
  ASSUME NEW i \in Server, NEW term, NEW lg, NEW next \in [Server -> Nat \ {0}], NEW commit
  PROVE  \A m \in BroadcastAppend(i, term, lg, next, commit) : BuiltFrom(m, lg)
<1> SUFFICES ASSUME NEW j \in Peers(i)
             PROVE  BuiltFrom(AppendFor(i, j, term, lg, next[j], commit), lg)
  BY DEF BroadcastAppend
<1> next[j] \in Nat \ {0}
  BY DEF Peers
<1> QED
  BY BuiltFromLog

LEMMA AppendLocalSends ==
  ASSUME TypeOK', NEW i \in Server, NEW term, NEW command, NEW others,
         \A m \in others : ~IsAppend(m), AppendLocal(i, term, command, others)
  PROVE  SendsFromLogs
<1>1. messages' = messages \cup (others \cup
           BroadcastAppend(i, term, log'[i], nextIndex'[i], commitIndex[i]))
  BY DEF AppendLocal, Send
<1>2. nextIndex'[i] \in [Server -> Nat \ {0}]
  BY DEF TypeOK, MemberTypeOK
<1>3. \A m \in BroadcastAppend(i, term, log'[i], nextIndex'[i], commitIndex[i]) :
        BuiltFrom(m, log'[i])
  BY <1>2, BroadcastBuiltFrom
<1> QED
  BY <1>1, <1>3 DEF SendsFromLogs

LEMMA ReplySends ==
  ASSUME NEW i, NEW m, NEW term, NEW success, NEW match, NEW hint,
         \/ Send({AppendReply(i, m, term, success, match, hint)})
         \/ Send({VoteReply(i, m, term, success)})
  PROVE  SendsFromLogs
<1>1. /\ ~IsAppend(AppendReply(i, m, term, success, match, hint))
      /\ ~IsAppend(VoteReply(i, m, term, success))
  BY ReplyFields
<1> QED
  BY <1>1 DEF Send, SendsFromLogs

LEMMA LeaderResponseSends ==
  ASSUME TypeOK, TypeOK', NEW i \in Server, NEW m \in messages,
         RecordSuccess(i, m) \/ RetryEarlier(i, m)
  PROVE  SendsFromLogs
<1>1. m.from \in Server
  BY MessageFields DEF TypeOK
<1>2. log' = log
  BY DEF RecordSuccess, RetryEarlier
<1>3. nextIndex'[i] \in [Server -> Nat \ {0}] /\ nextIndex'[i][m.from] \in Nat \ {0}
  <2>1. nextIndex'[i] \in [Server -> Nat \ {0}]
    BY DEF TypeOK, MemberTypeOK
  <2> QED
    BY <1>1, <2>1
<1>4. \A n \in NextAppend(i, m) : BuiltFrom(n, log'[i])
  BY <1>2, <1>3, BuiltFromLog DEF NextAppend
<1>5. \A n \in BroadcastAppend(i, currentTerm[i], log[i], nextIndex'[i], commitIndex'[i]) :
        BuiltFrom(n, log'[i])
  BY <1>2, <1>3, BroadcastBuiltFrom
<1>6. \A n \in messages' \ messages :
        \/ n \in NextAppend(i, m)
        \/ n \in BroadcastAppend(i, currentTerm[i], log[i], nextIndex'[i], commitIndex'[i])
  BY DEF RecordSuccess, RetryEarlier, Send
<1> QED
  BY <1>4, <1>5, <1>6 DEF SendsFromLogs

LEMMA NextSends ==
  ASSUME TypeOK, TypeOK', Next
  PROVE  SendsFromLogs
<1>1. ASSUME NEW i \in Server, ElectionTimeout(i)
      PROVE  SendsFromLogs
  <2>1. \A m \in VoteRequests(i, currentTerm[i] + 1) : ~IsAppend(m)
    BY VoteRequestFields
  <2>2. \/ BecomeLeader(i, currentTerm[i] + 1, VoteRequests(i, currentTerm[i] + 1))
        \/ Send(VoteRequests(i, currentTerm[i] + 1))
    BY <1>1 DEF ElectionTimeout
  <2> QED
    BY <2>1, <2>2, AppendLocalSends DEF BecomeLeader, Send, SendsFromLogs, AllAt
<1>2. ASSUME NEW i \in Server, HeartbeatTimeout(i)
      PROVE  SendsFromLogs
  <2>1. nextIndex[i] \in [Server -> Nat \ {0}]
    BY DEF TypeOK, MemberTypeOK
  <2> QED
    BY <1>2, <2>1, BroadcastBuiltFrom DEF HeartbeatTimeout, Send, SendsFromLogs
<1>3. ASSUME NEW i \in Server, NEW command \in Command, Propose(i, command)
      PROVE  SendsFromLogs
  BY <1>3, AppendLocalSends DEF Propose
<1>4. ASSUME NEW i \in Server, Restart(i)
      PROVE  SendsFromLogs
  BY <1>4 DEF Restart, SendsFromLogs
<1>5. ASSUME NEW m \in messages, HandleMessage(m)
      PROVE  SendsFromLogs
  <2>1. m.to \in Server
    BY MessageFields DEF TypeOK
  <2>2. CASE HandleVoteRequest(m.to, m)
    BY <2>2, ReplySends DEF HandleVoteRequest, GrantVote, RefuseVote
  <2>3. CASE CountVote(m.to, m)
    BY <2>1, <2>3, AppendLocalSends DEF CountVote, BecomeLeader, SendsFromLogs, AllAt
  <2>4. CASE HandleNewerResponse(m.to, m)
    BY <2>4 DEF HandleNewerResponse, SendsFromLogs
  <2>5. CASE HandleAppendRequest(m.to, m)
    BY <2>5, ReplySends
       DEF HandleAppendRequest, RejectStaleAppend, RejectMismatch, AcceptAppend
  <2>6. CASE RecordSuccess(m.to, m) \/ RetryEarlier(m.to, m)
    BY <2>1, <2>6, LeaderResponseSends
  <2> QED
    BY <1>5, <2>2, <2>3, <2>4, <2>5, <2>6
       DEF HandleMessage, HandleVoteResponse, HandleAppendResponse
<1> QED
  BY <1>1, <1>2, <1>3, <1>4, <1>5 DEF Next

\* Whoever becomes a follower is not leader.
LEMMA FollowersDoNotRise ==
  ASSUME TypeOK, NEW i \in Server, NEW term, NEW leader,
         BecomeFollower(i, term, leader)
  PROVE  NobodyRises
  BY DEF NobodyRises, NoSecondCandidacy, BecomeFollower, TypeOK, MemberTypeOK

LEMMA QuietDoesNotRise ==
  ASSUME UNCHANGED <<currentTerm, role>>
  PROVE  NobodyRises
  BY DEF NobodyRises, NoSecondCandidacy

LEMMA BecomeLeaderWrites ==
  ASSUME TypeOK, NEW i \in Server, NEW term \in Nat, NEW others,
         BecomeLeader(i, term, others),
         currentTerm' = [currentTerm EXCEPT ![i] = term],
         \/ role[i] = "candidate" /\ currentTerm[i] = term
         \/ currentTerm[i] < term
  PROVE  LogStep
<1>1. LeaderWrites(i, term, Noop)
  BY DEF LeaderWrites, BecomeLeader, AppendLocal, TypeOK, MemberTypeOK, AllAt
<1> QED
  BY <1>1 DEF LogStep

LEMMA NextLogStep ==
  ASSUME TypeOK, Next
  PROVE  LogStep
<1>1. /\ currentTerm \in [Server -> Nat] /\ role \in [Server -> Role]
  BY DEF TypeOK, MemberTypeOK
<1>2. ASSUME NEW i \in Server, ElectionTimeout(i)
      PROVE  LogStep
  <2>1. /\ currentTerm[i] + 1 \in Nat /\ currentTerm[i] < currentTerm[i] + 1
        /\ currentTerm' = [currentTerm EXCEPT ![i] = currentTerm[i] + 1]
    BY <1>1, <1>2 DEF ElectionTimeout
  <2>2. CASE BecomeLeader(i, currentTerm[i] + 1, VoteRequests(i, currentTerm[i] + 1))
    BY <2>1, <2>2, BecomeLeaderWrites
  <2>3. CASE role' = [role EXCEPT ![i] = "candidate"] /\ UNCHANGED log
    BY <1>1, <2>1, <2>3 DEF LogStep, NobodyRises, NoSecondCandidacy
  <2> QED
    BY <1>2, <2>2, <2>3 DEF ElectionTimeout
<1>3. ASSUME NEW i \in Server, HeartbeatTimeout(i)
      PROVE  LogStep
  BY <1>3, QuietDoesNotRise DEF HeartbeatTimeout, hardState, LogStep
<1>4. ASSUME NEW i \in Server, NEW command \in Command, Propose(i, command)
      PROVE  LogStep
  <2>1. LeaderWrites(i, currentTerm[i], command)
    BY <1>4 DEF LeaderWrites, Propose, AppendLocal
  <2> QED
    BY <1>1, <2>1 DEF LogStep
<1>5. ASSUME NEW i \in Server, Restart(i)
      PROVE  LogStep
  BY <1>1, <1>5 DEF Restart, hardState, LogStep, NobodyRises, NoSecondCandidacy
<1>6. ASSUME NEW m \in messages, HandleMessage(m)
      PROVE  LogStep
  <2>1. m.to \in Server
    BY MessageFields DEF TypeOK
  <2>2. CASE HandleVoteRequest(m.to, m)
    <3>1. CASE GrantVote(m.to, m)
      BY <1>1, <2>1, <3>1 DEF GrantVote, LogStep, NobodyRises, NoSecondCandidacy
    <3>2. CASE RefuseVote(m.to, m)
      BY <2>1, <3>2, FollowersDoNotRise, QuietDoesNotRise
         DEF RefuseVote, ObserveTerm, LogStep
    <3> QED
      BY <2>2, <3>1, <3>2 DEF HandleVoteRequest
  <2>3. CASE CountVote(m.to, m)
    <3>1. CASE BecomeLeader(m.to, currentTerm[m.to], {})
      BY <1>1, <2>1, <2>3, <3>1, BecomeLeaderWrites DEF CountVote
    <3>2. CASE UNCHANGED <<log, role>>
      BY <2>3, <3>2, QuietDoesNotRise DEF CountVote, LogStep
    <3> QED
      BY <2>3, <3>1, <3>2 DEF CountVote
  <2>4. CASE HandleNewerResponse(m.to, m)
    BY <2>1, <2>4, FollowersDoNotRise DEF HandleNewerResponse, LogStep
  <2>5. CASE IsAppend(m) /\ AcceptAppend(m.to, m)
    <3>1. NobodyRises
      BY <2>1, <2>5, FollowersDoNotRise DEF AcceptAppend
    <3> QED
      BY <2>5, <3>1 DEF LogStep
  <2>6. CASE RejectStaleAppend(m.to, m)
    BY <2>6, QuietDoesNotRise DEF RejectStaleAppend, hardState, LogStep
  <2>7. CASE RejectMismatch(m.to, m)
    BY <2>1, <2>7, FollowersDoNotRise DEF RejectMismatch, LogStep
  <2>8. CASE RecordSuccess(m.to, m) \/ RetryEarlier(m.to, m)
    BY <2>8, QuietDoesNotRise DEF RecordSuccess, RetryEarlier, hardState, LogStep
  <2> QED
    BY <1>6, <2>2, <2>3, <2>4, <2>5, <2>6, <2>7, <2>8
       DEF HandleMessage, HandleVoteResponse, HandleAppendRequest,
           HandleAppendResponse, IsAppend
<1> QED
  BY <1>2, <1>3, <1>4, <1>5, <1>6 DEF Next

-----------------------------------------------------------------------------
(* Elections                                                               *)

LEMMA LeaderIsElected ==
  ASSUME VoteInv', NEW i \in Server, role'[i] = "leader", NEW t, t = currentTerm'[i]
  PROVE  Elected(i, t)'
<1>1. /\ votes'[i] \in Quorum
      /\ \A j \in votes'[i] : Support(j, i, currentTerm[i])'
  BY DEF VoteInv, Quorum
<1> QED
  BY <1>1 DEF Elected, Quorum

LEMMA ElectedStable ==
  ASSUME TypeOK, TypeOK', VoteStep, NEW c \in Server, NEW t \in Nat, Elected(c, t)
  PROVE  Elected(c, t)'
<1>1. PICK Q \in Quorum : \A j \in Q : Support(j, c, t)
  BY DEF Elected
<1>2. \A j \in Q : Support(j, c, t)'
  BY <1>1, SupportStable DEF Quorum, VoteStep
<1> QED
  BY <1>2 DEF Elected, Quorum

LEMMA ElectedUniqueAfter ==
  ASSUME NEW i1 \in Server, NEW i2 \in Server, NEW t \in Nat,
         Elected(i1, t)', Elected(i2, t)'
  PROVE  i1 = i2
<1>1. PICK P \in Quorum : \A j \in P : Support(j, i1, t)'
  BY DEF Elected, Quorum
<1>2. PICK Q \in Quorum : \A j \in Q : Support(j, i2, t)'
  BY DEF Elected, Quorum
<1>3. PICK j \in Server : j \in P /\ j \in Q
  BY QuorumsIntersect
<1>4. Support(j, i1, t)' /\ Support(j, i2, t)'
  BY <1>1, <1>2, <1>3
<1> QED
  BY <1>4 DEF Support

LEMMA LedStable ==
  ASSUME TypeOK, TypeOK', VoteStep, NoSecondCandidacy, NEW t \in Nat, Led(t)
  PROVE  Led(t)'
<1>1. PICK c \in Server : /\ Elected(c, t)
                          /\ currentTerm[c] >= t
                          /\ currentTerm[c] = t => role[c] # "candidate"
  BY DEF Led
<1>2. Elected(c, t)'
  BY <1>1, ElectedStable
<1>3. /\ currentTerm[c] \in Nat /\ currentTerm'[c] \in Nat
      /\ currentTerm'[c] >= currentTerm[c]
  BY DEF TypeOK, MemberTypeOK, VoteStep, TermStep
<1>4. currentTerm'[c] >= t /\ (currentTerm'[c] = t => role'[c] # "candidate")
  BY <1>1, <1>3 DEF NoSecondCandidacy
<1> QED
  BY <1>2, <1>4 DEF Led

-----------------------------------------------------------------------------
(* The history invariant                                                   *)

\* What is sent is cut out of a log that is in history.
LEMMA RequestsStayInHistory ==
  ASSUME TypeOK, TypeOK', SendsFromLogs, NEW H \in History, LogsInHistory(H)',
         \A m \in messages : IsAppend(m) => RequestInHistory(m, H)
  PROVE  RequestsInHistory(H)'
<1> SUFFICES ASSUME NEW m \in messages', IsAppend(m)
             PROVE  RequestInHistory(m, H)
  BY DEF RequestsInHistory
<1>1. CASE m \in messages
  BY <1>1
<1>2. CASE m \notin messages
  <2>1. PICK i \in Server : BuiltFrom(m, log'[i])
    BY <1>2 DEF SendsFromLogs
  <2>2. log'[i] \in Seq(Entry) /\ InHistory(log'[i], H)
    BY DEF TypeOK, LogTypeOK, LogsInHistory
  <2>3. PICK next \in Nat \ {0} :
          /\ m.prevLogIndex = next - 1
          /\ m.prevLogTerm = TermAt(log'[i], next - 1)
          /\ m.entries = SubSeq(log'[i], next, Len(log'[i]))
    BY <2>1 DEF BuiltFrom
  <2> QED
    BY <2>2, <2>3, SubSeqInHistory DEF RequestInHistory
<1> QED
  BY <1>1, <1>2

\* A step that appends nothing at a leader leaves the history as it is.
LEMMA HistoryUnchanged ==
  ASSUME TypeOK, TypeOK', VoteStep, SendsFromLogs, NobodyRises,
         NEW H \in History, HistoryInv(H), LogsInHistory(H)',
         \A i \in Server : role'[i] = "leader" => log'[i] = log[i]
  PROVE  HistoryInv(H)'
<1>1. RequestsInHistory(H)'
  BY RequestsStayInHistory DEF HistoryInv, RequestsInHistory
<1>2. HistoryIsClosed(H)'
  BY DEF HistoryInv, HistoryIsClosed
<1>3. LeadersAreHistory(H)'
  BY DEF HistoryInv, LeadersAreHistory, NobodyRises
<1>4. HistoryIsLed(H)'
  BY LedStable DEF HistoryInv, HistoryIsLed, NobodyRises
<1> QED
  BY <1>1, <1>2, <1>3, <1>4 DEF HistoryInv

\* The follower's new log is what it kept, followed by what the request carries.
LEMMA AcceptedIsInHistory ==
  ASSUME TypeOK, NEW H \in History, HistoryInv(H),
         NEW m \in messages, IsAppend(m), AcceptAppend(m.to, m)
  PROVE  LogsInHistory(H)'
<1> DEFINE i == m.to
           p == m.prevLogIndex
<1>1. /\ m \in AppendEntriesRequest /\ i \in Server
      /\ p \in Nat /\ m.entries \in Seq(Entry)
  BY MessageFields DEF TypeOK, AppendEntriesRequest, IsAppend
<1>2. log \in [Server -> Seq(Entry)] /\ log[i] \in Seq(Entry)
  BY <1>1 DEF TypeOK, LogTypeOK
<1>3. PICK kept \in 0 .. Len(log[i]) :
        /\ IsKept(i, m, kept)
        /\ log' = [log EXCEPT ![i] = MergedLog(i, m, kept)]
  BY DEF AcceptAppend
<1>4. PreviousMatches(i, m)
  BY DEF AcceptAppend
<1> DEFINE M == MergedLog(i, m, kept)
<1>5. M \in Seq(Entry) /\ Len(M) = Larger(kept, p + Len(m.entries))
  BY <1>1, <1>3, <1>4, MergedLogType DEF LastSent
<1>6. p <= kept
  BY <1>1, <1>2, <1>3, <1>4 DEF PreviousMatches, HasIndex, IsKept, Conflicts
<1>7. p >= 1 => log[i][p].term = m.prevLogTerm
  BY <1>1, <1>2, <1>4 DEF PreviousMatches, HasIndex, TermAt
<1>8. ASSUME NEW k \in p + 1 .. kept, k - p <= Len(m.entries)
      PROVE  log[i][k].term = m.entries[k - p].term
  <2>1. k \in 1 .. kept /\ k \in DOMAIN log[i] \cap (p + 1 .. LastSent(m))
    BY <1>1, <1>2, <1>8 DEF LastSent
  <2>2. ~Conflicts(i, m, k)
    BY <2>1, <1>3 DEF IsKept
  <2> QED
    BY <2>1, <2>2 DEF Conflicts
<1>9. \A k \in 1 .. Len(M) : M[k] = IF k <= kept THEN log[i][k] ELSE m.entries[k - p]
  BY <1>5 DEF MergedLog, LastSent
<1>10. /\ \A t \in Nat : InHistory(H[t], H)
       /\ InHistory(log[i], H)
       /\ SegmentInHistory(p, m.prevLogTerm, m.entries, H)
  BY <1>1
     DEF HistoryInv, HistoryIsClosed, LogsInHistory, RequestsInHistory, RequestInHistory
<1>11. kept \in 0 .. Len(log[i])
  BY <1>3
<1> HIDE DEF M, i, p
<1>12. InHistory(M, H)
  BY <1>1, <1>2, <1>5, <1>6, <1>7, <1>8, <1>9, <1>10, <1>11, SpliceInHistory, ZenonT(30)
<1>13. log'[i] = M /\ \A j \in Server : j # i => log'[j] = log[j]
  BY <1>1, <1>2, <1>3 DEF M
<1> QED
  BY <1>12, <1>13 DEF LogsInHistory, HistoryInv

\* What a leader writes comes after what the history of its term holds, which is its
\* own log, or nothing before its first entry.
LEMMA LeaderWritesAfter ==
  ASSUME TypeOK, TypeOK', VoteStep, VoteInv', NEW H \in History, HistoryInv(H),
         NEW i \in Server, NEW term \in Nat, NEW command \in Command \cup {Noop},
         LeaderWrites(i, term, command)
  PROVE  \/ H[term] = <<>>
         \/ role[i] = "leader" /\ currentTerm[i] = term /\ H[term] = log[i]
<1>1. CASE role[i] = "leader" /\ currentTerm[i] = term
  BY <1>1 DEF HistoryInv, LeadersAreHistory
<1>2. CASE \/ role[i] = "candidate" /\ currentTerm[i] = term
           \/ currentTerm[i] < term
  <2>1. ASSUME Led(term)
        PROVE  FALSE
    <3>1. PICK c \in Server : /\ Elected(c, term)
                              /\ currentTerm[c] >= term
                              /\ currentTerm[c] = term => role[c] # "candidate"
      BY <2>1 DEF Led
    <3>2. Elected(i, term)'
      BY LeaderIsElected DEF LeaderWrites
    <3>3. c = i
      BY <3>1, <3>2, ElectedStable, ElectedUniqueAfter
    <3> QED
      BY <3>1, <3>3, <1>2 DEF TypeOK, MemberTypeOK
  <2> QED
    BY <2>1 DEF HistoryInv, HistoryIsLed
<1> QED
  BY <1>1, <1>2 DEF LeaderWrites

LEMMA LeaderWritesExtends ==
  ASSUME TypeOK, TypeOK', VoteStep, VoteInv', NEW H \in History, HistoryInv(H),
         NEW i \in Server, NEW term \in Nat, NEW command \in Command \cup {Noop},
         LeaderWrites(i, term, command),
         NEW H2 \in History, H2 = [H EXCEPT ![term] = log'[i]]
  PROVE  Extends(H, H2)
<1> DEFINE entry == [term |-> term, command |-> command]
<1>1. log \in [Server -> Seq(Entry)] /\ log[i] \in Seq(Entry)
  BY DEF TypeOK, LogTypeOK
<1>2. log'[i] = Append(log[i], entry)
  BY <1>1 DEF LeaderWrites
<1>3. Len(log[i]) <= Len(log'[i]) /\ \A k \in 1 .. Len(log[i]) : log'[i][k] = log[i][k]
  BY <1>1, <1>2
<1>4. /\ Len(H[term]) <= Len(log'[i])
      /\ \A l \in 1 .. Len(H[term]) : log'[i][l] = H[term][l]
  <2>1. H[term] = <<>> \/ H[term] = log[i]
    BY LeaderWritesAfter
  <2> QED
    BY <1>1, <1>2, <1>3, <2>1
<1>5. H2[term] = log'[i] /\ \A t \in Nat : t # term => H2[t] = H[t]
  BY DEF History
<1>6. \A t \in Nat : Len(H[t]) \in Nat
  BY DEF History
<1> QED
  BY <1>4, <1>5, <1>6 DEF Extends

\* A leader's entry makes the history of its term longer.
LEMMA LeaderWritesHistory ==
  ASSUME TypeOK, TypeOK', VoteStep, VoteInv', SendsFromLogs,
         NEW H \in History, HistoryInv(H),
         NEW i \in Server, NEW term \in Nat, NEW command \in Command \cup {Noop},
         LeaderWrites(i, term, command),
         NEW H2 \in History, H2 = [H EXCEPT ![term] = log'[i]]
  PROVE  HistoryInv(H2)'
<1> DEFINE entry == [term |-> term, command |-> command]
<1>1. /\ log \in [Server -> Seq(Entry)] /\ log[i] \in Seq(Entry) /\ log'[i] \in Seq(Entry)
      /\ currentTerm \in [Server -> Nat]
  BY DEF TypeOK, LogTypeOK, MemberTypeOK
<1>2. /\ log'[i] = Append(log[i], entry)
      /\ \A j \in Server : j # i => log'[j] = log[j]
  BY <1>1 DEF LeaderWrites
<1>3. /\ Len(log[i]) \in Nat
      /\ Len(log'[i]) = Len(log[i]) + 1
      /\ \A k \in 1 .. Len(log[i]) : log'[i][k] = log[i][k]
      /\ log'[i][Len(log[i]) + 1] = entry
  BY <1>1, <1>2
<1>4. H2 \in History /\ H2[term] = log'[i] /\ \A t \in Nat : t # term => H2[t] = H[t]
  BY DEF History
<1>5. NoSecondCandidacy
  BY DEF NoSecondCandidacy, LeaderWrites
<1>6. Elected(i, term)' /\ role'[i] = "leader" /\ currentTerm'[i] = term
  BY LeaderIsElected DEF LeaderWrites
<1>8. Extends(H, H2)
  BY LeaderWritesExtends
<1>9. InHistory(log'[i], H2)
  <2>1. InHistory(log[i], H2)
    BY <1>1, <1>4, <1>8, ExtendInHistory DEF HistoryInv, LogsInHistory
  <2> SUFFICES ASSUME NEW k \in 1 .. Len(log'[i])
               PROVE  /\ k <= Len(H2[log'[i][k].term])
                      /\ \A l \in 1 .. k : log'[i][l] = H2[log'[i][k].term][l]
    BY DEF InHistory
  <2>2. CASE k \in 1 .. Len(log[i])
    <3>1. log'[i][k] = log[i][k] /\ \A l \in 1 .. k : log'[i][l] = log[i][l]
      BY <1>3, <2>2
    <3> QED
      BY <2>1, <2>2, <3>1 DEF InHistory
  <2>3. CASE k = Len(log[i]) + 1
    <3>1. log'[i][k].term = term
      BY <1>3, <2>3
    <3> QED
      BY <1>3, <1>4, <2>3, <3>1
  <2> QED
    BY <1>3, <2>2, <2>3
<1>10. LogsInHistory(H2)'
  <2>1. ASSUME NEW j \in Server, j # i
        PROVE  InHistory(log'[j], H2)
    BY <2>1, <1>1, <1>2, <1>4, <1>8, ExtendInHistory DEF HistoryInv, LogsInHistory
  <2> QED
    BY <1>9, <2>1 DEF LogsInHistory
<1>11. RequestsInHistory(H2)'
  <2>1. ASSUME NEW m \in messages, IsAppend(m)
        PROVE  RequestInHistory(m, H2)
    <3>1. m.prevLogIndex \in Nat /\ m.entries \in Seq(Entry)
      BY <2>1, MessageFields DEF TypeOK, AppendEntriesRequest, IsAppend
    <3> QED
      BY <2>1, <3>1, <1>4, <1>8, ExtendSegment
         DEF HistoryInv, RequestsInHistory, RequestInHistory
  <2> QED
    BY <1>4, <1>10, <2>1, RequestsStayInHistory
<1>12. HistoryIsClosed(H2)'
  <2>1. ASSUME NEW t \in Nat, t # term
        PROVE  InHistory(H2[t], H2)
    <3>1. H[t] \in Seq(Entry) /\ InHistory(H[t], H) /\ H2[t] = H[t]
      BY <2>1, <1>4 DEF History, HistoryInv, HistoryIsClosed
    <3> QED
      BY <3>1, <1>4, <1>8, ExtendInHistory
  <2> QED
    BY <2>1, <1>4, <1>9 DEF HistoryIsClosed
<1>13. LeadersAreHistory(H2)'
  <2> SUFFICES ASSUME NEW j \in Server, role'[j] = "leader"
               PROVE  H2[currentTerm'[j]] = log'[j]
    BY DEF LeadersAreHistory
  <2>1. CASE j = i
    BY <2>1, <1>4, <1>6
  <2>2. CASE j # i
    <3>1. role[j] = "leader" /\ currentTerm'[j] = currentTerm[j] /\ log'[j] = log[j]
      BY <2>2, <1>2 DEF LeaderWrites
    <3>2. currentTerm'[j] # term
      BY <2>2, <1>6, LeaderIsElected, ElectedUniqueAfter
    <3> QED
      BY <3>1, <3>2, <1>1, <1>4 DEF HistoryInv, LeadersAreHistory
  <2> QED
    BY <2>1, <2>2
<1>14. HistoryIsLed(H2)'
  <2>1. Led(term)'
    BY <1>6 DEF Led
  <2>2. ASSUME NEW t \in Nat, t # term, H2[t] # <<>>
        PROVE  Led(t)'
    BY <2>2, <1>4, <1>5, LedStable DEF HistoryInv, HistoryIsLed
  <2> QED
    BY <2>1, <2>2 DEF HistoryIsLed
<1> QED
  BY <1>10, <1>11, <1>12, <1>13, <1>14 DEF HistoryInv

\* One step leaves the history as it is, or makes that of one term longer by what
\* its leader writes.
GrowsTo(H, H2) ==
    \/ /\ H2 = H
       /\ NobodyRises
       /\ \/ UNCHANGED log
          \/ \E m \in messages : IsAppend(m) /\ AcceptAppend(m.to, m)
    \/ \E i \in Server, term \in Nat, command \in Command \cup {Noop} :
         /\ LeaderWrites(i, term, command)
         /\ H2 = [H EXCEPT ![term] = log'[i]]

LEMMA HistoryGrows ==
  ASSUME TypeOK, TypeOK', VoteInv', NEW H \in History, HistoryInv(H), [Next]_vars
  PROVE  \E H2 \in History : HistoryInv(H2)' /\ GrowsTo(H, H2)
<1>2. CASE Next
  <2>1. VoteStep /\ SendsFromLogs /\ LogStep
    BY <1>2, NextVoteStep, NextSends, NextLogStep
  <2>2. CASE UNCHANGED log /\ NobodyRises
    <3>1. LogsInHistory(H)'
      BY <2>2 DEF HistoryInv, LogsInHistory
    <3> QED
      BY <2>1, <2>2, <3>1, HistoryUnchanged DEF GrowsTo
  <2>3. CASE NobodyRises /\ \E m \in messages : IsAppend(m) /\ AcceptAppend(m.to, m)
    <3>1. PICK m \in messages : IsAppend(m) /\ AcceptAppend(m.to, m)
      BY <2>3
    <3>2. LogsInHistory(H)'
      BY <3>1, AcceptedIsInHistory
    <3>3. \A i \in Server : role'[i] = "leader" => log'[i] = log[i]
      BY <3>1 DEF AcceptAppend, BecomeFollower, TypeOK, MemberTypeOK, LogTypeOK
    <3> QED
      BY <2>1, <2>3, <3>2, <3>3, HistoryUnchanged DEF GrowsTo
  <2>4. ASSUME NEW i \in Server, NEW term \in Nat, NEW command \in Command \cup {Noop},
               LeaderWrites(i, term, command)
        PROVE  \E H2 \in History : HistoryInv(H2)' /\ GrowsTo(H, H2)
    <3>1. [H EXCEPT ![term] = log'[i]] \in History
      BY DEF History, TypeOK, LogTypeOK
    <3>2. PICK H2 \in History : H2 = [H EXCEPT ![term] = log'[i]]
      BY <3>1
    <3>3. HistoryInv(H2)'
      BY <2>1, <2>4, <3>2, LeaderWritesHistory
    <3> QED
      BY <2>4, <3>2, <3>3 DEF GrowsTo
  <2> QED
    BY <2>1, <2>2, <2>3, <2>4 DEF LogStep
<1>3. CASE UNCHANGED vars
  <2>1. HistoryInv(H)'
    BY <1>3 DEF vars, hardState, HistoryInv, LogsInHistory, RequestsInHistory,
         HistoryIsClosed, LeadersAreHistory, HistoryIsLed, Led, Elected, Support, Granted
  <2>2. UNCHANGED log /\ NobodyRises
    BY <1>3, QuietDoesNotRise DEF vars, hardState
  <2> QED
    BY <2>1, <2>2 DEF GrowsTo
<1> QED
  BY <1>2, <1>3

LEMMA LogInvStable ==
  ASSUME TypeOK, TypeOK', VoteInv', LogInv, [Next]_vars
  PROVE  LogInv'
<1>1. PICK H \in History : HistoryInv(H)
  BY DEF LogInv
<1>2. PICK H2 \in History : HistoryInv(H2)'
  BY <1>1, HistoryGrows
<1> QED
  BY <1>2 DEF LogInv

LEMMA InitLogInv ==
  ASSUME Init
  PROVE  LogInv
<1> DEFINE H == [t \in Nat |-> <<>>]
<1>1. H \in History
  BY DEF History
<1>2. HistoryInv(H)
  BY DEF Init, HistoryInv, LogsInHistory, RequestsInHistory, HistoryIsClosed,
         LeadersAreHistory, HistoryIsLed, InHistory, AllAt
<1> QED
  BY <1>1, <1>2 DEF LogInv

LEMMA LogInvImpliesLogMatching ==
  ASSUME TypeOK, LogInv
  PROVE  LogMatching
<1>1. PICK H \in History : HistoryInv(H)
  BY DEF LogInv
<1> SUFFICES ASSUME NEW i \in Server, NEW j \in Server,
                    NEW k \in DOMAIN log[i] \cap DOMAIN log[j],
                    log[i][k].term = log[j][k].term,
                    NEW l \in 1 .. k
             PROVE  log[i][l] = log[j][l]
  BY DEF LogMatching
<1>2. k \in 1 .. Len(log[i]) /\ k \in 1 .. Len(log[j])
  BY CommitFields
<1>3. InHistory(log[i], H) /\ InHistory(log[j], H)
  BY <1>1 DEF HistoryInv, LogsInHistory
<1>4. log[i][l] = H[log[i][k].term][l]
  BY <1>2, <1>3 DEF InHistory
<1>5. log[j][l] = H[log[j][k].term][l]
  BY <1>2, <1>3 DEF InHistory
<1> QED
  BY <1>4, <1>5

\* Logs and requests always have a common history, one log for each term.
THEOREM LogsHaveAHistory == Spec => []LogInv
<1>1. TypeOK /\ TypeOK' /\ VoteInv' /\ LogInv /\ [Next]_vars => LogInv'
  BY LogInvStable
<1> QED
  BY <1>1, InitLogInv, TypeCorrect, VotesAreConsistent, PTL DEF Spec

\* Two logs that hold an entry of one index and term are identical up to it, in
\* every reachable state of every cluster: comparing the term of one entry, as
\* handleAppendRequest does (raft.ts:254), compares whole logs.
THEOREM LogsMatch == Spec => []LogMatching
  BY LogsHaveAHistory, TypeCorrect, LogInvImpliesLogMatching, PTL
=============================================================================
