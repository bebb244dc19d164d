----------------------------- MODULE Visualizer ------------------------------
(***************************************************************************)
(* The visualizer's server: the routes and the queue of operations         *)
(* (packages/raft-visualizer/src/server/index.ts) over the controller of a *)
(* simulated cluster (simulation-controller.ts), which runs its nodes on   *)
(* one in-memory network.                                                  *)
(*                                                                         *)
(* The storage and the network answer within the microtask queue, so an    *)
(* operation runs without a break up to the place where it waits for a     *)
(* macrotask (settleLocalWork).  Requests, timers and signals come in      *)
(* there: an operation is a first step, for drain a step per message, and  *)
(* the step that publishes and answers.  What the nodes do is any burst of *)
(* messages and the answer to any proposal; the values they hold, and the  *)
(* words of the timeline, are left out.  A node fails when an entry it     *)
(* commits holds a command that its codec does not decode, which a put of  *)
(* anything but a string is (kv-state-machine.ts): it rejects what is      *)
(* proposed to it, throws at every message, and no restart recovers it.    *)
(***************************************************************************)
EXTENDS MemoryNetwork, FiniteSets

CONSTANTS Client,      \* pages that post an action and wait for its answer
          Stream,      \* pages that listen to /api/events
          DrainLimit,  \* deliveries of one drain
          MaxProposals \* bound: servers with a proposal under way

ASSUME LimitAssumption == DrainLimit \in Nat \ {0} /\ MaxProposals \in Nat

VARIABLES ops,         \* the clients whose operations are chained, the first one running
          phase,       \* how far that one is: "queued", "draining" or "settling"
          delivered,   \* what the drain has delivered
          online,      \* the controller's flag of every replica
          failed,      \* the servers whose node has failed
          proposals,   \* the servers with a proposal whose outcome is not recorded yet
          subscribed,  \* whether broadcast listens to the simulation the server holds
          eventClients,
          upToDate,    \* history: the streams whose last event shows the present state
          dead,        \* history: the simulation was stopped and is still the one held
          unpublished, \* history: an operation failed after it changed something, and
                       \* nothing was published since
          closed       \* shutdown was called

chain == <<ops, phase, delivered>>
nodes == <<online, failed, proposals>>
streams == <<subscribed, eventClients, upToDate, unpublished>>
vars == <<network, chain, nodes, streams, dead, closed>>

TypeOK ==
    /\ NetworkTypeOK
    /\ ops \in Seq(Client) /\ phase \in {"queued", "draining", "settling"}
    /\ delivered \in 0 .. DrainLimit
    /\ {online, failed, proposals} \subseteq SUBSET Server
    /\ upToDate \subseteq eventClients /\ eventClients \subseteq Stream
    /\ {subscribed, dead, unpublished, closed} \subseteq BOOLEAN

Init ==
    /\ FreshNetwork /\ handlers = Server
    /\ ops = <<>> /\ phase = "queued" /\ delivered = 0
    /\ online = Server /\ failed = {} /\ proposals = {}
    /\ subscribed = TRUE /\ eventClients = {} /\ upToDate = {}
    /\ dead = FALSE /\ unpublished = FALSE /\ closed = FALSE

-----------------------------------------------------------------------------
(* The pages                                                               *)

\* The body of a request has arrived, which may be after shutdown was called.
Post(c) ==
    /\ c \notin ToSet(ops)
    /\ ops' = Append(ops, c)
    /\ UNCHANGED <<network, phase, delivered, nodes, streams, dead, closed>>

\* A stream starts with the present state.
Connect(s) ==
    /\ ~closed /\ s \notin eventClients
    /\ eventClients' = eventClients \cup {s}
    /\ upToDate' = upToDate \cup {s}
    /\ UNCHANGED <<network, chain, nodes, subscribed, unpublished, dead, closed>>

Disconnect(s) ==
    /\ s \in eventClients
    /\ eventClients' = eventClients \ {s}
    /\ upToDate' = upToDate \ {s}
    /\ UNCHANGED <<network, chain, nodes, subscribed, unpublished, dead, closed>>

-----------------------------------------------------------------------------
(* The chain of operations                                                 *)

\* Every listener of the simulation gets its present state.
Shown == IF subscribed THEN eventClients ELSE {}
Publish ==
    /\ upToDate' = Shown
    /\ unpublished' = (unpublished /\ ~subscribed)
    /\ UNCHANGED <<subscribed, eventClients>>

\* What is true after a step that publishes nothing, of an operation that goes on and
\* of one that fails.
NotYetShown == upToDate' = {} /\ UNCHANGED <<subscribed, eventClients, unpublished>>
NeverShown == upToDate' = {} /\ unpublished' = TRUE /\ UNCHANGED <<subscribed, eventClients>>

\* Mutation: an operation that fails is put at the end of the chain.
RetriedLater == Append(Tail(ops), Head(ops))

\* The first operation of the chain is answered, well or badly, and the next begins.
AfterAnswer == Tail(ops)
AfterFailure == Tail(ops)

Begins == ops # <<>> /\ phase = "queued"

\* An operation has done its part, and waits for the macrotask before it publishes.
Executed ==
    /\ phase' = "settling" /\ NotYetShown
    /\ UNCHANGED <<ops, delivered, dead, closed>>

Settle ==
    /\ phase = "settling"
    /\ Publish
    /\ phase' = "queued" /\ ops' = AfterAnswer
    /\ UNCHANGED <<network, delivered, nodes, dead, closed>>

\* An operation that throws before it changes anything: an unknown member or group,
\* a member that is offline, or is online already, a message that is gone, a node
\* that is no leader, that has stopped or failed, or that cannot start from what it
\* stored.  One that throws later is an action of its own.
Refuse ==
    /\ Begins
    /\ ops' = AfterFailure
    /\ UNCHANGED <<network, phase, delivered, nodes, streams, dead, closed>>

\* campaign and heartbeat
Prompt(s) ==
    /\ Begins /\ s \in online \ failed
    /\ SendFrom(s)
    /\ Executed /\ UNCHANGED nodes

\* Nobody waits for a proposal here.  A member that is alone commits what it takes at
\* once, and is answered or fails at once.
WaitsFor(s) == IF Server = {s} THEN {} ELSE {s}
FailsAlone(s) == IF Server = {s} THEN {{}, {s}} ELSE {{}}

\* A node that has stopped or failed still says it leads, and its refusal is recorded
\* like any other outcome.
Propose(s) ==
    /\ Begins /\ s \in online
    /\ \/ /\ s \notin failed /\ SendFrom(s)
          /\ \E failing \in FailsAlone(s) :
                /\ failed' = failed \cup failing
                /\ proposals' = (proposals \cup WaitsFor(s)) \ failing
          /\ Cardinality(proposals') <= MaxProposals
       \/ s \in failed \cup (Server \ handlers) /\ UNCHANGED <<network, failed, proposals>>
    /\ Executed /\ UNCHANGED online

\* Mutation: the partition before is not healed.
EdgesLeft == blocked

\* A partition replaces the one before.
EdgesToCut == Healed
Partition(left) ==
    /\ Begins /\ left # {} /\ left # Server
    /\ SetBlocked(Partitioned(EdgesToCut, left, Server \ left))
    /\ Executed /\ UNCHANGED nodes

HealAll ==
    /\ Begins /\ SetBlocked(Healed)
    /\ Executed /\ UNCHANGED nodes

\* Mutation: proposals are left to their timeout.
StopsAtOnce(servers) == Unregister(servers) /\ UNCHANGED proposals

\* What the nodes that stop leave behind: their proposals are rejected, their
\* endpoints unregistered.
StopNodes(servers) ==
    /\ Unregister(servers)
    /\ proposals' = proposals \ servers

Disable(s) ==
    /\ Begins /\ s \in online
    /\ StopNodes({s})
    /\ online' = online \ {s}
    /\ Executed /\ UNCHANGED <<queue, nextMessageId, blocked, failed>>

\* The new node decodes every committed entry it finds in its storage.
Restart(s) ==
    /\ Begins /\ s \notin online \cup failed
    /\ Register(s)
    /\ online' = online \cup {s}
    /\ Executed /\ UNCHANGED <<queue, nextMessageId, blocked, failed, proposals>>

Reorder ==
    /\ Begins /\ ReverseQueue
    /\ Executed /\ UNCHANGED nodes

-----------------------------------------------------------------------------
(* Operations on one message                                               *)

\* A delivery may bring its receiver the commit that answers its proposal.
Deliver(i) ==
    /\ Reaches(queue[i]) => queue[i].to \notin failed
    /\ proposals' \in {proposals, proposals \ {queue[i].to}}
    /\ proposals' # proposals => Reaches(queue[i])
    /\ DeliverAt(i)
    /\ UNCHANGED <<online, failed>>

\* Or the command that makes it fail, or a message to a node that has failed.
BurstsOf(s) == IF s \in failed THEN {<<>>} ELSE Sends(s)

\* The operation fails with the delivery, and does not come to publish anything; but
\* the rejection of a proposal that waits for the node is recorded and published.
DeliveryFails(i) ==
    /\ LET receiver == queue[i].to
       IN  /\ ThrowAt(i, BurstsOf(receiver))
           /\ failed' = failed \cup {receiver}
           /\ proposals' = proposals \ {receiver}
           /\ IF receiver \in proposals THEN Publish ELSE NeverShown
    /\ phase' = "queued" /\ delivered' = 0 /\ ops' = AfterFailure
    /\ UNCHANGED <<online, dead, closed>>

DeliverMessage(id) ==
    /\ Begins
    /\ \E i \in Found(id) : Deliver(i)
    /\ Executed

\* Also how a step fails, with the id of the first message.
DeliverMessageFails(id) ==
    /\ Begins
    /\ \E i \in Found(id) : DeliveryFails(i)

DropMessage(id) ==
    /\ Begins
    /\ \E i \in Found(id) : DropAt(i)
    /\ Executed /\ UNCHANGED nodes

DuplicateMessage(id) ==
    /\ Begins
    /\ \E i \in Found(id) : DuplicateAt(i)
    /\ Executed /\ UNCHANGED nodes

\* The first message, or none.
StepOnce ==
    /\ Begins
    /\ IF queue = <<>> THEN UNCHANGED <<network, nodes>> ELSE Deliver(1)
    /\ Executed

BeginDrain ==
    /\ Begins
    /\ phase' = "draining" /\ delivered' = 0
    /\ UNCHANGED <<network, ops, nodes, streams, dead, closed>>

DrainStep ==
    /\ phase = "draining" /\ queue # <<>> /\ delivered < DrainLimit
    /\ delivered' = delivered + 1
    /\ Deliver(1)
    /\ NotYetShown /\ UNCHANGED <<ops, phase, dead, closed>>

DrainStepFails ==
    /\ phase = "draining" /\ queue # <<>> /\ delivered < DrainLimit
    /\ DeliveryFails(1)

DrainEnds ==
    /\ phase = "draining" /\ queue = <<>>
    /\ delivered' = 0
    /\ phase' = "settling"
    /\ UNCHANGED <<network, ops, nodes, streams, dead, closed>>

\* The limit: the operation fails, with all it has delivered, and nothing is published.
DrainOverruns ==
    /\ phase = "draining" /\ queue # <<>> /\ delivered = DrainLimit
    /\ delivered' = 0
    /\ phase' = "queued" /\ ops' = AfterFailure
    /\ unpublished' = TRUE
    /\ UNCHANGED <<network, nodes, subscribed, eventClients, upToDate, dead, closed>>

-----------------------------------------------------------------------------
(* Reset, time and shutdown                                                *)

\* Mutation: a new listener waits for the next change.
SubscribesForLater ==
    /\ subscribed' = TRUE
    /\ upToDate' = {} /\ unpublished' = FALSE
    /\ UNCHANGED eventClients

\* subscribe calls its listener with the state of the new simulation at once.
Subscribe ==
    /\ subscribed' = TRUE
    /\ upToDate' = eventClients /\ unpublished' = FALSE
    /\ UNCHANGED eventClients

\* The server replaces the simulation.  It first leaves and stops the old one, so a
\* new one that cannot be made (RaftCore takes 1, 3 or 5 members) leaves it dead.
Reset ==
    /\ Begins
    /\ queue' = <<>> /\ nextMessageId' = 1 /\ blocked' = {} /\ handlers' = Server
    /\ online' = Server /\ failed' = {} /\ proposals' = {}
    /\ Subscribe
    /\ dead' = FALSE
    /\ ops' = AfterAnswer
    /\ UNCHANGED <<phase, delivered, closed>>

ResetFails ==
    /\ Begins
    /\ StopNodes(online)
    /\ subscribed' = FALSE /\ upToDate' = {} /\ UNCHANGED eventClients
    /\ dead' = TRUE
    /\ ops' = AfterFailure
    /\ UNCHANGED <<queue, nextMessageId, blocked, online, failed, unpublished, phase, delivered, closed>>

\* A minute after it was made, a proposal is recorded as ambiguous.
ProposalTimesOut(s) ==
    /\ s \in proposals
    /\ proposals' \in {proposals, proposals \ {s}}
    /\ Publish
    /\ UNCHANGED <<network, chain, online, failed, dead, closed>>

\* On a signal, whatever operation is under way, which goes on, as do those behind it.
Shutdown ==
    /\ ~closed /\ closed' = TRUE
    /\ subscribed' = FALSE /\ eventClients' = {} /\ upToDate' = {}
    /\ StopNodes(online)
    /\ dead' = TRUE
    /\ UNCHANGED <<queue, nextMessageId, blocked, chain, online, failed, unpublished>>

-----------------------------------------------------------------------------
Operation ==
    \/ Settle \/ Refuse \/ HealAll \/ Reorder \/ StepOnce
    \/ BeginDrain \/ DrainStep \/ DrainStepFails \/ DrainEnds \/ DrainOverruns
    \/ Reset \/ ResetFails
    \/ \E s \in Server : Prompt(s) \/ Propose(s) \/ Disable(s) \/ Restart(s)
    \/ \E left \in SUBSET Server : Partition(left)
    \/ \E id \in 1 .. MaxId : \/ DeliverMessage(id) \/ DeliverMessageFails(id)
                             \/ DropMessage(id) \/ DuplicateMessage(id)

Next ==
    \/ Operation \/ Shutdown
    \/ \E c \in Client : Post(c)
    \/ \E s \in Stream : Connect(s) \/ Disconnect(s)
    \/ \E s \in Server : ProposalTimesOut(s)

\* The event loop runs what is ready: the chain goes on while anything is on it.
Spec == Init /\ [][Next]_vars /\ WF_vars(Operation)

-----------------------------------------------------------------------------
(* Properties                                                              *)

\* No two pending messages share an id: what a page asks for by id is done to that
\* message (deliverById, dropById, duplicateById take the first that has it).
IdsAreDistinct ==
    \A i, j \in DOMAIN queue : queue[i].id = queue[j].id => i = j

\* The blocked edges are those between two groups that make up the cluster, in both
\* directions, or none: partitions asked for one after the other do not add up.
CutIsClean ==
    blocked = {} \/ \E left \in SUBSET Server : blocked = Between(left, Server \ left)

\* The network knows exactly the replicas whose flag says online, and no proposal is
\* waited for at another, nor at one whose node has failed.  A dead simulation knows
\* no others.
FlagsAreTrue ==
    /\ handlers \subseteq online /\ proposals \subseteq handlers \ failed
    /\ ~dead => handlers = online

\* Between operations every page that listens has been sent the present state, unless
\* the simulation is dead, or an operation that failed half way (a drain at its
\* limit, a delivery whose handler threw) was the last to change it: what the others
\* change, a reset, and the outcome of a proposal whenever it comes are published,
\* and with them what such a failure left.
StreamsAreCurrent ==
    phase = "queued" /\ ~dead /\ ~unpublished => upToDate = eventClients

\* Within one simulation an id that is taken is never given again: a page that acts on
\* a message it saw hits that message or none.
IdIsNeverReused ==
    [][~Reset => \A i \in DOMAIN queue' :
          queue'[i] \in ToSet(queue) \/ queue'[i].id >= nextMessageId]_vars

\* Every operation is answered, also one behind an operation that failed, and also
\* when a signal arrives meanwhile.
EveryRequestIsAnswered == \A c \in Client : (c \in ToSet(ops)) ~> (c \notin ToSet(ops))
=============================================================================
