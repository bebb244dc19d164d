------------------------------- MODULE MCRaft -------------------------------
(***************************************************************************)
(* Instances of Raft for TLC: who may campaign and restart in which term,  *)
(* where the cluster starts from, and the view that forgets messages which *)
(* can never again have an effect.                                         *)
(***************************************************************************)
EXTENDS Raft, TLC

CONSTANTS a, b, c, x

Trio == {a, b, c}
OneCommand == {x}

Symmetry == Permutations(Server) \cup Permutations(Command)

\* Everyone may campaign in the first term, and restart in it.
FirstTerm == Trio \X {1}

\* A second leader takes over from the first.
Handover == {<<a, 1>>, <<b, 2>>}
HandoverRestarts == Trio \X (0 .. 2)

-----------------------------------------------------------------------------
(* Clusters that come back from storage: every process has restarted and   *)
(* every message in flight is lost.                                        *)

Recovered(logs, terms, ballots, commits) ==
    /\ currentTerm = terms
    /\ votedFor = ballots
    /\ commitIndex = commits
    /\ log = logs
    /\ role = [i \in Server |-> "follower"]
    /\ leaderId = [i \in Server |-> Nil]
    /\ votes = [i \in Server |-> {}]
    /\ nextIndex = [i \in Server |-> AllAt(1)]
    /\ matchIndex = [i \in Server |-> AllAt(0)]
    /\ messages = {}

On(term, command) == [term |-> term, command |-> command]
At(va, vb, vc) == [i \in Trio |-> CASE i = a -> va [] i = b -> vb [] i = c -> vc]

\* a led term 1 and b term 2, both with the vote of c, and neither got any entry
\* to another server.
TwoLostLeadersInit ==
    Recovered(At(<<On(1, Noop), On(1, x)>>, <<On(2, Noop)>>, <<>>),
              At(2, 2, 2), At(Nil, b, b), At(0, 0, 0))
TwoLostLeadersSpec == TwoLostLeadersInit /\ [][Next]_vars

\* b leads again, perhaps; then a or c does.
ComeBack == {<<b, 3>>, <<a, 4>>, <<c, 4>>}

-----------------------------------------------------------------------------
\* A response is spent when its receiver ignores it, now and for ever: it is of an
\* older term, or of a term in which the receiver can no longer be a candidate
\* (for a vote) or a leader (for an append), or it repeats a vote already counted.
\* Terms only grow and a server that is a follower in a term stays one in it.
IsSpent(m) ==
    \/ /\ m.type = "request-vote-response"
       /\ \/ m.term < currentTerm[m.to]
          \/ /\ m.term = currentTerm[m.to]
             /\ \/ ~m.voteGranted
                \/ role[m.to] # "candidate"
                \/ m.from \in votes[m.to]
    \/ /\ m.type = "append-entries-response"
       /\ \/ m.term < currentTerm[m.to]
          \/ m.term = currentTerm[m.to] /\ role[m.to] = "follower"

\* States that differ only in spent messages, and in the leader a server would
\* name to a client, which no handler reads, have the same future.
Unspent == <<hardState, log, role, votes, progress, {m \in messages : ~IsSpent(m)}>>
=============================================================================
