---------------------------- MODULE MemoryNetwork ----------------------------
(***************************************************************************)
(* The in-memory network (packages/raft-transport-memory/src/index.ts):    *)
(* one queue of pending messages for all servers, which whoever holds the  *)
(* network delivers, drops, repeats or reverses by hand; a set of blocked  *)
(* edges, looked at when a message is sent and again when it is delivered; *)
(* and the handlers of the endpoints that have been started.  Every        *)
(* operation here is one call, and leaves alone what it does not name.     *)
(***************************************************************************)
EXTENDS Integers, SequencesExt

CONSTANTS Server,      \* the members of the cluster
          Talk,        \* bound: the edges that messages are sent on
          MaxId,       \* bound: ids of messages
          MaxBurst     \* bound: messages a node sends in one turn

ASSUME NetworkBounds == {MaxId, MaxBurst} \subseteq Nat

VARIABLES queue,         \* the pending messages
          nextMessageId,
          blocked,       \* the blocked edges
          handlers       \* the servers whose endpoint is started

network == <<queue, nextMessageId, blocked, handlers>>

Edge == {e \in Server \X Server : e[1] # e[2]}
Envelope == {e \in [from : Server, to : Server] : <<e.from, e.to>> \in Talk}
Pending == {m \in [id : 1 .. MaxId, from : Server, to : Server] : <<m.from, m.to>> \in Talk}

NetworkTypeOK ==
    /\ queue \in Seq(Pending) /\ nextMessageId \in 1 .. MaxId + 1
    /\ blocked \subseteq Edge /\ handlers \subseteq Server

FreshNetwork == queue = <<>> /\ nextMessageId = 1 /\ blocked = {}

-----------------------------------------------------------------------------
(* The queue                                                               *)

Passes(message) == <<message.from, message.to>> \notin blocked

\* Mutation: a message is numbered by its place.
NumberedByLength(sent, first) ==
    [i \in DOMAIN sent |-> [id |-> Len(queue) + i, from |-> sent[i].from, to |-> sent[i].to]]

\* Mutation: the counter is advanced after the next id is taken.
NumberedFromZero(sent, first) ==
    [i \in DOMAIN sent |-> [id |-> first + i - 2, from |-> sent[i].from, to |-> sent[i].to]]

\* Ids follow each other.
Numbered(sent, first) ==
    [i \in DOMAIN sent |->
        [id |-> first + i - 1, from |-> sent[i].from, to |-> sent[i].to]]

\* What node s may hand to its endpoint in one turn; a message whose edge is blocked
\* leaves no trace, so those are left out.
Sends(s) ==
    SeqOf({e \in Envelope : e.from = s /\ Passes(e)}, MaxBurst)

\* The messages of a burst join the messages that are left.
Enqueue(left, sent) ==
    /\ nextMessageId' = nextMessageId + Len(sent)
    /\ nextMessageId' <= MaxId + 1
    /\ queue' = left \o Numbered(sent, nextMessageId)

\* Where findIndex finds an id, if it is there.
Found(id) ==
    {i \in DOMAIN queue : queue[i].id = id /\ \A j \in 1 .. i - 1 : queue[j].id # id}

DropAt(i) ==
    /\ queue' = RemoveAt(queue, i)
    /\ UNCHANGED <<nextMessageId, blocked, handlers>>

\* Delivering takes a message out first, and then hands it to its receiver, if there
\* is one and the edge is open.
Reaches(message) == message.to \in handlers /\ Passes(message)

HandleAt(i, bursts) ==
    /\ Reaches(queue[i])
    /\ \E sent \in bursts : Enqueue(RemoveAt(queue, i), sent)
    /\ UNCHANGED <<blocked, handlers>>

\* The handler runs to its end, and its node may send.
DeliverAt(i) ==
    \/ HandleAt(i, Sends(queue[i].to))
    \/ ~Reaches(queue[i]) /\ DropAt(i)

\* The handler throws, before its node sent anything or after, and so does the
\* delivery; the message is gone all the same.
ThrowAt(i, bursts) == HandleAt(i, bursts \cup {<<>>})

\* Mutation: the copy keeps the id.
ExactCopy(message) == message

Copy(message) == [message EXCEPT !.id = nextMessageId]

\* The copy, with an id of its own, goes before its original.
DuplicateAt(i) ==
    /\ nextMessageId <= MaxId
    /\ queue' = InsertAt(queue, i, Copy(queue[i]))
    /\ nextMessageId' = nextMessageId + 1
    /\ UNCHANGED <<blocked, handlers>>

ReverseQueue ==
    /\ queue' = Reverse(queue)
    /\ UNCHANGED <<nextMessageId, blocked, handlers>>

\* A node's turn that no message caused.
SendFrom(s) ==
    /\ s \in handlers
    /\ \E sent \in Sends(s) : Enqueue(queue, sent)
    /\ UNCHANGED <<blocked, handlers>>

-----------------------------------------------------------------------------
(* The edges and the endpoints                                             *)

Between(left, right) == (left \X right) \cup (right \X left)

\* The edges that are blocked when a partition has been added to edges.
Partitioned(edges, left, right) == edges \cup Between(left, right)

Healed == {}

SetBlocked(edges) ==
    /\ blocked' = edges
    /\ UNCHANGED <<queue, nextMessageId, handlers>>

Register(s) ==
    /\ s \notin handlers
    /\ handlers' = handlers \cup {s}

Unregister(servers) == handlers' = handlers \ servers
=============================================================================
