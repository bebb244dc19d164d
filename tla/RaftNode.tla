------------------------------ MODULE RaftNode ------------------------------
(***************************************************************************)
(* The runtime around a RaftCore (packages/raft-node/src/node.ts).  A node *)
(* takes one event at a time: the core steps in memory and returns a       *)
(* Ready; the runtime persists it, sends its messages one by one, applies  *)
(* the entries it commits one by one, recording each in the storage, and   *)
(* tells the core to advance.  The storage or the state machine may fail,  *)
(* and the process may crash, between any two of these steps; a process    *)
(* that starts again has nothing but its storage.                          *)
(*                                                                         *)
(* The core is module Raft: Core!A(i) is a step of the core of node i,     *)
(* whose messages stay in the node until its Ready is persisted.           *)
(***************************************************************************)
EXTENDS Integers, Sequences, FiniteSets

CONSTANTS Server, Command, Nil, Noop,
          Campaigns,       \* bound: <<i, t>> when i may campaign in term t
          MaxLogLength,    \* bound: no command is proposed on a longer log
          Faulty,          \* bound: nodes whose storage or machine may fail
          Lossy,           \* bound: <<i, j>> when a send of i to j may fail
          Crashing,        \* bound: nodes that may crash and start again
          AutomaticTimers  \* whether timers run, or the caller drives the node

ASSUME ServerAssumption == IsFiniteSet(Server) /\ Nil \notin Server
ASSUME EntryAssumption == Noop \notin Command
ASSUME BoundAssumption == Campaigns \subseteq Server \X Nat /\ MaxLogLength \in Nat
ASSUME TimersAssumption == AutomaticTimers \in BOOLEAN
ASSUME FaultAssumption == Faulty \cup Crashing \subseteq Server /\ Lossy \subseteq Server \X Server

VARIABLES currentTerm, votedFor, commitIndex, log,        \* the core, in memory
          role, leaderId, votes, nextIndex, matchIndex,
          appliedIndex,  \* the core: entries up to here are applied
          outbound,      \* messages of Readies that are not sent yet
          messages,      \* messages handed to the network
          phase,         \* where the node is in its Ready
          healthy,       \* FALSE once the runtime has failed
          disk,          \* the storage of the node
          machine,       \* the commands its state machine was given
          settled,       \* history: the core's volatile state when it last agreed
                         \* with its storage
          accepted       \* history: the messages of every persisted Ready

election == <<role, leaderId, votes, nextIndex, matchIndex>>
core == <<currentTerm, votedFor, commitIndex, log, election>>
history == <<settled, accepted>>
vars == <<core, appliedIndex, outbound, messages, phase, healthy, disk, machine, history>>

Core == INSTANCE Raft WITH messages <- outbound, Restarts <- {}

\* "idle": no Ready is outstanding.  "persist": it is being persisted.
\* "finish": it is persisted, its messages and entries are being handled.
\* "apply": the state machine has taken an entry, the storage has not recorded it.
\* "stuck": the Ready failed half-way and the core waits for it for ever.
\* "down": there is no process.
Phase == {"idle", "persist", "finish", "apply", "stuck", "down"}

Disk == [currentTerm : Nat, votedFor : Server \cup {Nil}, commitIndex : Nat,
         log : Seq(Core!Entry), appliedIndex : Nat]

Volatile(i) == [role |-> role[i], leaderId |-> leaderId[i], votes |-> votes[i],
                nextIndex |-> nextIndex[i], matchIndex |-> matchIndex[i]]

\* A core that has just been constructed.
Fresh == [role |-> "follower", leaderId |-> Nil, votes |-> {},
          nextIndex |-> [j \in Server |-> 1], matchIndex |-> [j \in Server |-> 0]]

HardState(i) == [currentTerm |-> currentTerm[i], votedFor |-> votedFor[i],
                 commitIndex |-> commitIndex[i]]

Outgoing(i) == {m \in outbound : m.from = i}

-----------------------------------------------------------------------------
(* One event at a time                                                     *)

\* The events a running node takes: timers and proposals only when it is
\* healthy, messages always.
Event(i) ==
    \/ healthy[i] /\ Core!ElectionTimeout(i)
    \/ healthy[i] /\ Core!HeartbeatTimeout(i)
    \/ healthy[i] /\ \E command \in Command : Core!Propose(i, command)
    \/ \E m \in messages : m.to = i /\ Core!HandleMessage(m)

\* step returns a Ready when there is something to persist or to send.
ReturnsReady(i) ==
    \/ Outgoing(i)' # {}
    \/ HardState(i)' # HardState(i)
    \/ log'[i] # log[i]

Step(i) ==
    /\ phase[i] = "idle"
    /\ Event(i)
    /\ phase' = [phase EXCEPT ![i] = IF ReturnsReady(i) THEN "persist" ELSE "idle"]
    /\ settled' = [settled EXCEPT ![i] = IF ReturnsReady(i) THEN @ ELSE Volatile(i)']
    /\ UNCHANGED <<appliedIndex, messages, healthy, disk, machine, accepted>>

\* Mutation: nobody looks at the timer's rejected promise.
TimerErrorIgnored(i) == FALSE

\* While a Ready is outstanding step throws, and only a timer's own call turns
\* that into a failure of the node.
TimerFindsCoreStuck(i) ==
    /\ AutomaticTimers
    /\ phase[i] = "stuck" /\ healthy[i]
    /\ healthy' = [healthy EXCEPT ![i] = FALSE]
    /\ UNCHANGED <<core, appliedIndex, outbound, messages, phase, disk, machine, history>>

-----------------------------------------------------------------------------
(* A Ready                                                                 *)

Persist(i) ==
    /\ phase[i] = "persist"
    /\ disk' = [disk EXCEPT ![i] =
                  [currentTerm |-> currentTerm[i], votedFor |-> votedFor[i],
                   commitIndex |-> commitIndex[i], log |-> log[i],
                   appliedIndex |-> @.appliedIndex]]
    /\ phase' = [phase EXCEPT ![i] = "finish"]
    /\ accepted' = accepted \cup Outgoing(i)
    /\ settled' = [settled EXCEPT ![i] = Volatile(i)]
    /\ UNCHANGED <<core, appliedIndex, outbound, messages, healthy, machine>>

\* Mutation: messages leave while the Ready is being persisted.
SendsEarly(i) == phase[i] \in {"persist", "finish"}

MaySend(i) == phase[i] = "finish"

MayBeLost(i) == {m \in Outgoing(i) : <<i, m.to>> \in Lossy}

\* Mutation: the error of a send leaves processReady.
SendErrorEndsReady(i) ==
    /\ phase[i] = "finish"
    /\ Outgoing(i) # {}
    /\ outbound' = outbound \ Outgoing(i)
    /\ \E lost \in SUBSET MayBeLost(i) :
         /\ messages' = messages \cup (Outgoing(i) \ lost)
         /\ phase' = IF lost = {} THEN phase ELSE [phase EXCEPT ![i] = "stuck"]
    /\ UNCHANGED <<core, appliedIndex, healthy, disk, machine, history>>

\* The messages are sent one by one, and one that cannot be sent does not keep the
\* next from being sent.  They are one step here: the network may deliver the first
\* of them long before the last, or after it.
SendMessages(i) ==
    /\ MaySend(i)
    /\ Outgoing(i) # {}
    /\ outbound' = outbound \ Outgoing(i)
    /\ \E lost \in SUBSET MayBeLost(i) : messages' = messages \cup (Outgoing(i) \ lost)
    /\ UNCHANGED <<core, appliedIndex, phase, healthy, disk, machine, history>>

\* The next committed entry, once every message is sent.
NextApplied(i) == disk[i].appliedIndex + 1

\* Mutation: the last committed entry is left out.
StopsBeforeLast(i) ==
    /\ phase[i] = "finish"
    /\ Outgoing(i) = {}
    /\ NextApplied(i) < commitIndex[i]

MayApply(i) ==
    /\ phase[i] = "finish"
    /\ Outgoing(i) = {}
    /\ NextApplied(i) <= commitIndex[i]

RecordApplied(i) == disk' = [disk EXCEPT ![i].appliedIndex = NextApplied(i)]

\* An entry without a command is only recorded.
SkipNoop(i) ==
    /\ MayApply(i)
    /\ log[i][NextApplied(i)].command = Noop
    /\ RecordApplied(i)
    /\ UNCHANGED <<core, appliedIndex, outbound, messages, phase, healthy, machine, history>>

ApplyCommand(i) ==
    /\ MayApply(i)
    /\ log[i][NextApplied(i)].command # Noop
    /\ machine' = [machine EXCEPT ![i] = Append(@, log[i][NextApplied(i)].command)]
    /\ phase' = [phase EXCEPT ![i] = "apply"]
    /\ UNCHANGED <<core, appliedIndex, outbound, messages, healthy, disk, history>>

FinishCommand(i) ==
    /\ phase[i] = "apply"
    /\ RecordApplied(i)
    /\ phase' = [phase EXCEPT ![i] = "finish"]
    /\ UNCHANGED <<core, appliedIndex, outbound, messages, healthy, machine, history>>

Advance(i) ==
    /\ phase[i] = "finish"
    /\ Outgoing(i) = {}
    /\ disk[i].appliedIndex = commitIndex[i]
    /\ appliedIndex' = [appliedIndex EXCEPT ![i] = commitIndex[i]]
    /\ phase' = [phase EXCEPT ![i] = "idle"]
    /\ UNCHANGED <<core, outbound, messages, healthy, disk, machine, history>>

-----------------------------------------------------------------------------
(* Failures                                                                *)

Fail(i) == healthy' = [healthy EXCEPT ![i] = FALSE]

Abandon(i) ==
    /\ i \in Faulty
    /\ phase' = [phase EXCEPT ![i] = "stuck"]
    /\ outbound' = outbound \ Outgoing(i)
    /\ UNCHANGED <<core, appliedIndex, messages, disk, machine, history>>

PersistFails(i) == phase[i] = "persist" /\ Fail(i) /\ Abandon(i)

\* The storage does not record an entry without a command: the error leaves
\* processReady, and nobody marks the node as failed.
SkipNoopFails(i) ==
    /\ MayApply(i)
    /\ log[i][NextApplied(i)].command = Noop
    /\ UNCHANGED healthy
    /\ Abandon(i)

\* The state machine throws, or the storage does not record what it applied.
ApplyFails(i) ==
    /\ \/ MayApply(i) /\ log[i][NextApplied(i)].command # Noop
       \/ phase[i] = "apply"
    /\ Fail(i)
    /\ Abandon(i)

Crash(i) ==
    /\ i \in Crashing
    /\ phase[i] # "down"
    /\ phase' = [phase EXCEPT ![i] = "down"]
    /\ outbound' = outbound \ Outgoing(i)
    /\ machine' = [machine EXCEPT ![i] = <<>>]
    /\ settled' = [settled EXCEPT ![i] = Fresh]
    /\ UNCHANGED <<core, appliedIndex, messages, healthy, disk, accepted>>

\* The commands among the first entries of a log.
CommandsUpTo(lg, index) ==
    LET commands[n \in 0 .. index] ==
          IF n = 0 THEN <<>>
          ELSE IF lg[n].command = Noop THEN commands[n - 1]
          ELSE Append(commands[n - 1], lg[n].command)
    IN  commands[index]

\* Mutation: what was applied before the crash is not applied again.
ResumesWhereItStopped(i) ==
    LET skipped == Len(CommandsUpTo(disk[i].log, disk[i].appliedIndex))
        all == CommandsUpTo(disk[i].log, disk[i].commitIndex)
    IN  SubSeq(all, skipped + 1, Len(all))

\* A new state machine is given every committed command again.
Replayed(i) == CommandsUpTo(disk[i].log, disk[i].commitIndex)

\* Mutation: the vote is not loaded.
ForgetsVote(i) == votedFor' = [votedFor EXCEPT ![i] = Nil]

LoadVote(i) == votedFor' = [votedFor EXCEPT ![i] = disk[i].votedFor]

\* create, then start.
Start(i) ==
    /\ i \in Crashing
    /\ phase[i] = "down"
    /\ phase' = [phase EXCEPT ![i] = "idle"]
    /\ healthy' = [healthy EXCEPT ![i] = TRUE]
    /\ machine' = [machine EXCEPT ![i] = Replayed(i)]
    /\ disk' = [disk EXCEPT ![i].appliedIndex = disk[i].commitIndex]
    /\ appliedIndex' = [appliedIndex EXCEPT ![i] = disk[i].commitIndex]
    /\ currentTerm' = [currentTerm EXCEPT ![i] = disk[i].currentTerm]
    /\ LoadVote(i)
    /\ commitIndex' = [commitIndex EXCEPT ![i] = disk[i].commitIndex]
    /\ log' = [log EXCEPT ![i] = disk[i].log]
    /\ role' = [role EXCEPT ![i] = Fresh.role]
    /\ leaderId' = [leaderId EXCEPT ![i] = Fresh.leaderId]
    /\ votes' = [votes EXCEPT ![i] = Fresh.votes]
    /\ nextIndex' = [nextIndex EXCEPT ![i] = Fresh.nextIndex]
    /\ matchIndex' = [matchIndex EXCEPT ![i] = Fresh.matchIndex]
    /\ UNCHANGED <<outbound, messages, history>>

-----------------------------------------------------------------------------
(* Specification                                                           *)

Init ==
    /\ Core!Init
    /\ appliedIndex = [i \in Server |-> 0]
    /\ messages = {}
    /\ phase = [i \in Server |-> "idle"]
    /\ healthy = [i \in Server |-> TRUE]
    /\ disk = [i \in Server |-> [currentTerm |-> 0, votedFor |-> Nil, commitIndex |-> 0,
                                 log |-> <<>>, appliedIndex |-> 0]]
    /\ machine = [i \in Server |-> <<>>]
    /\ settled = [i \in Server |-> Fresh]
    /\ accepted = {}

\* The runtime's own steps, which need no event.
HandleReady(i) ==
    \/ Persist(i)
    \/ SendMessages(i)
    \/ SkipNoop(i)
    \/ ApplyCommand(i)
    \/ FinishCommand(i)
    \/ Advance(i)

Failure(i) ==
    \/ PersistFails(i)
    \/ SkipNoopFails(i)
    \/ ApplyFails(i)
    \/ Crash(i)

Next == \E i \in Server :
    Step(i) \/ HandleReady(i) \/ TimerFindsCoreStuck(i) \/ Failure(i) \/ Start(i)

Spec == Init /\ [][Next]_vars

\* Every call the runtime awaits settles, and a repeating timer fires.
Fairness == \A i \in Server : WF_vars(HandleReady(i)) /\ WF_vars(TimerFindsCoreStuck(i))

FairSpec == Spec /\ Fairness

-----------------------------------------------------------------------------
(* Properties                                                              *)

CoreTypeOK ==
    /\ Core!MemberTypeOK
    /\ Core!LogTypeOK
    /\ Core!MessagesTypeOK
    /\ appliedIndex \in [Server -> Nat]

RuntimeTypeOK ==
    /\ phase \in [Server -> Phase]
    /\ healthy \in [Server -> BOOLEAN]
    /\ disk \in [Server -> Disk]
    /\ machine \in [Server -> Seq(Command)]
    /\ messages \subseteq accepted
    /\ accepted \subseteq Core!RaftMessage

\* Every variable keeps its type, and nothing is sent that was not persisted
\* before; what raft.ts asserts of the applied index holds.
TypeOK ==
    /\ CoreTypeOK
    /\ RuntimeTypeOK
    /\ \A i \in Server : appliedIndex[i] <= commitIndex[i]

\* README.md:68: a vote or a successful append response does not leave the
\* process until the term, vote and log behind it are durable: they are on the
\* sender's disk as long as it is in that term, whatever fails or crashes.
SentIsDurable ==
    \A m \in messages :
      LET d == disk[m.from] IN
      /\ m.term <= d.currentTerm
      /\ m.type = "request-vote-response" /\ m.voteGranted /\ m.term = d.currentTerm
           => d.votedFor = m.to
      /\ m.type = "append-entries-response" /\ m.success /\ m.term = d.currentTerm
           => m.matchIndex <= Len(d.log)
      /\ m.type = "append-entries-request" /\ m.term = d.currentTerm
           => \A k \in DOMAIN m.entries :
                m.prevLogIndex + k \in DOMAIN d.log /\ d.log[m.prevLogIndex + k] = m.entries[k]

\* The state machine of a running process was given exactly the committed
\* commands of its disk, in order and once each, up to the applied index; the
\* one being applied is ahead of it.
MachineFollowsDisk ==
    \A i \in Server : phase[i] \notin {"down", "stuck"} =>
      machine[i] = CommandsUpTo(disk[i].log,
                     IF phase[i] = "apply" THEN NextApplied(i) ELSE disk[i].appliedIndex)

\* The storage never has a reason to refuse a Ready (restartable-storage.ts,
\* persist): it keeps every committed entry, moves no term, commit or applied
\* index back, does not change a vote and has every entry it calls committed.
BatchIsAcceptable ==
    \A i \in Server : phase[i] = "persist" =>
      LET d == disk[i] IN
      /\ \A k \in 1 .. d.commitIndex : k \in DOMAIN log[i] /\ log[i][k] = d.log[k]
      /\ currentTerm[i] >= d.currentTerm
      /\ currentTerm[i] = d.currentTerm /\ d.votedFor # Nil => votedFor[i] = d.votedFor
      /\ d.commitIndex <= commitIndex[i] /\ commitIndex[i] <= Len(log[i])
      /\ d.appliedIndex <= commitIndex[i]

\* What a cluster's storages hold, with the volatile state that goes with it and
\* the messages of the persisted Readies, is a state of module Raft, and every
\* step of a node is a step of Raft or none: a crash anywhere is a restart.
Durable == INSTANCE Raft WITH
    currentTerm <- [i \in Server |-> disk[i].currentTerm],
    votedFor    <- [i \in Server |-> disk[i].votedFor],
    commitIndex <- [i \in Server |-> disk[i].commitIndex],
    log         <- [i \in Server |-> disk[i].log],
    role        <- [i \in Server |-> settled[i].role],
    leaderId    <- [i \in Server |-> settled[i].leaderId],
    votes       <- [i \in Server |-> settled[i].votes],
    nextIndex   <- [i \in Server |-> settled[i].nextIndex],
    matchIndex  <- [i \in Server |-> settled[i].matchIndex],
    messages    <- accepted,
    Restarts    <- Server \X Nat

ImplementsRaft == Durable!Spec

\* Unless its storage or its machine fails or the process dies, a node handles a
\* Ready to its end, whatever sends fail on the way: it is free again for the next
\* event.
ReadyIsFinished ==
    \A i \in Server :
      phase[i] \in {"persist", "finish", "apply"} ~>
        phase[i] \in {"idle", "down"} \cup (IF i \in Faulty THEN {"stuck"} ELSE {})

\* A node whose core waits for a Ready that failed is reported as unhealthy.
FailureIsNoticed ==
    \A i \in Server : phase[i] = "stuck" ~> ~healthy[i] \/ phase[i] = "down"
=============================================================================
