----------------------------- MODULE MCRaftNode -----------------------------
(***************************************************************************)
(* Instances of RaftNode for TLC: who campaigns, crashes and fails, where  *)
(* the cluster starts from, and the view that leaves the history out.      *)
(***************************************************************************)
EXTENDS RaftNode

CONSTANTS a, b, c, x, y

Solo == {a}
Trio == {a, b, c}
OneCommand == {x}
TwoCommands == {x, y}
Nobody == {}
OnlyA == {a}
OnlyB == {b}
OnlyC == {c}
Both == {a, b}
FromC == {c} \X Trio
BetweenBoth == {<<a, b>>, <<b, a>>}

\* A single server leads in two terms.
SoloTerms == {a} \X {1, 2}

\* A second leader takes over from the first.
Handover == {<<a, 1>>, <<b, 2>>}

\* One campaigns, and again.
TwoCampaigns == {a} \X {1, 2}

\* No more campaigns.
NoCampaigns == {}

-----------------------------------------------------------------------------
(* Clusters that are on their way                                          *)

Blank == [currentTerm |-> 0, votedFor |-> Nil, commitIndex |-> 0,
          log |-> <<>>, appliedIndex |-> 0]

\* c has never been started.
WithoutC ==
    /\ Core!Init
    /\ appliedIndex = [i \in Server |-> 0]
    /\ messages = {} /\ accepted = {}
    /\ phase = [i \in Server |-> IF i = c THEN "down" ELSE "idle"]
    /\ healthy = [i \in Server |-> TRUE]
    /\ disk = [i \in Server |-> Blank]
    /\ machine = [i \in Server |-> <<>>]
    /\ settled = [i \in Server |-> Fresh]
WithoutCSpec == WithoutC /\ [][Next]_vars
FairWithoutCSpec == WithoutCSpec /\ Fairness

\* a and b are candidates of term 1: each has voted for itself, and what reached
\* the network of its requests are those to c.
Term(t) == [i \in Server |-> IF i = c THEN 0 ELSE t]
Request(i) == [type |-> "request-vote-request", from |-> i, to |-> c, term |-> 1,
               lastLogIndex |-> 0, lastLogTerm |-> 0]
SplitVote ==
    /\ currentTerm = Term(1)
    /\ votedFor = [i \in Server |-> IF i = c THEN Nil ELSE i]
    /\ commitIndex = [i \in Server |-> 0]
    /\ log = [i \in Server |-> <<>>]
    /\ role = [i \in Server |-> IF i = c THEN "follower" ELSE "candidate"]
    /\ leaderId = [i \in Server |-> Nil]
    /\ votes = [i \in Server |-> IF i = c THEN {} ELSE {i}]
    /\ nextIndex = [i \in Server |-> Core!AllAt(1)]
    /\ matchIndex = [i \in Server |-> Core!AllAt(0)]
    /\ appliedIndex = [i \in Server |-> 0]
    /\ outbound = {}
    /\ messages = {Request(a), Request(b)} /\ accepted = messages
    /\ phase = [i \in Server |-> "idle"]
    /\ healthy = [i \in Server |-> TRUE]
    /\ disk = [i \in Server |->
                 [Blank EXCEPT !.currentTerm = currentTerm[i], !.votedFor = votedFor[i]]]
    /\ machine = [i \in Server |-> <<>>]
    /\ settled = [i \in Server |-> Volatile(i)]
SplitVoteSpec == SplitVote /\ [][Next]_vars

\* Neither the messages of Readies that were lost before they were sent, nor the
\* leader a server would name to a client, have a part in any later step.
Relevant == <<currentTerm, votedFor, commitIndex, log, role, votes, nextIndex, matchIndex,
              appliedIndex, outbound, messages, phase, healthy, disk, machine, settled>>
=============================================================================
