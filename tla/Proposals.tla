------------------------------ MODULE Proposals ------------------------------
(***************************************************************************)
(* Client proposals on one node (packages/raft-node/src/node.ts, propose   *)
(* and apply).  A call first looks, at once, at the node's role, at the    *)
(* results it remembers and at the proposals it still owes an answer; a    *)
(* new one joins the queue, and the core sees it later, when the role may  *)
(* have changed.  Applying an entry answers whoever waits for its command  *)
(* ID.  A node that is stopped answers everyone at once, and then lets the *)
(* queue run before it closes its storage.  Consensus is the environment:  *)
(* it wins and loses elections, brings other leaders' entries, which       *)
(* replace entries that are not committed, and commits.                    *)
(***************************************************************************)
EXTENDS Integers, Sequences

CONSTANTS Id,            \* command IDs
          Bytes,         \* encoded commands
          Foreign,       \* entries that other leaders may bring: pairs <<id, bytes>>
          Nobody,        \* no call
          Retention,     \* results that are remembered
          MayFail,       \* whether the node may fail or be stopped
          MaxCalls,      \* bound: calls of propose
          MaxLength,     \* bound: the index of another leader's entry
          MaxLeads       \* bound: elections won

ASSUME BoundAssumption ==
    /\ Foreign \subseteq Id \X Bytes /\ MayFail \in BOOLEAN
    /\ {Retention, MaxCalls, MaxLength, MaxLeads} \subseteq Nat
ASSUME NobodyAssumption == Nobody \notin Nat

VARIABLES role,       \* "leader" or "follower", as the core reports it
          mode,       \* "running", "stopped" or, with its storage, "closed"
          healthy,    \* false once a Ready has failed: it stays outstanding
          leads,      \* elections won so far
          log,        \* the commands of the log
          applied,    \* the first entries of it that are committed and applied
          calls,      \* the calls of propose, and the answer each got
          queue,      \* the calls whose proposal the core has not seen yet
          pending,    \* for each ID, the call whose promise is to be settled
          completed   \* the remembered results, oldest first

consensus == <<role, leads, log, applied>>
client == <<calls, queue, pending, completed>>
vars == <<mode, healthy, consensus, client>>

\* assertRunning.
IsRunning == mode = "running" /\ healthy

\* Readies are still persisted, sent and applied while stop waits for the queue.
IsWorking == healthy /\ mode # "closed"

\* lead: the leadership of this node in which the entry was appended, 0 when
\* another leader appended it.
Entry == [id : Id, bytes : Bytes, lead : 0 .. MaxLeads]

\* A result stands for the command it is the result of.
Results == {<<"result", b>> : b \in Bytes}
Errors == {<<e>> : e \in {"NotLeaderError", "NodeStoppedError", "CommandIdConflictError",
                          "ProposalTimeoutError", "StateMachineError", "StorageError", "Error"}}
Waiting == <<"waiting">>
Result(bytes) == <<"result", bytes>>
Error(name) == <<name>>

\* promise: the call whose promise this one waits for.
Call == [id : Id, bytes : Bytes, timed : BOOLEAN, promise : 0 .. MaxCalls,
         answer : {Waiting} \cup Results \cup Errors]

Asked(id, bytes, timed, promise, answer) ==
    calls' = Append(calls, [id |-> id, bytes |-> bytes, timed |-> timed,
                            promise |-> promise, answer |-> answer])

\* A promise that is settled answers every call that still waits for it.
Settle(promises, answer) ==
    calls' = [n \in DOMAIN calls |->
                IF calls[n].promise \in promises /\ calls[n].answer = Waiting
                  THEN [calls[n] EXCEPT !.answer = answer]
                  ELSE calls[n]]

Smaller(m, n) == IF m <= n THEN m ELSE n

Remembered(id) == {r \in {completed[k] : k \in DOMAIN completed} : r.id = id}

-----------------------------------------------------------------------------
(* propose: what happens at once                                           *)

Refuse(id, bytes, timed, name) ==
    /\ Asked(id, bytes, timed, 0, Error(name))
    /\ UNCHANGED <<queue, pending>>

ReturnRemembered(id, bytes, timed) ==
    /\ \E r \in Remembered(id) :
         Asked(id, bytes, timed, 0,
               IF r.bytes = bytes THEN Result(bytes) ELSE Error("CommandIdConflictError"))
    /\ UNCHANGED <<queue, pending>>

\* The same command again shares the promise of the first call.
JoinPending(id, bytes, timed) ==
    /\ Remembered(id) = {}
    /\ pending[id] # Nobody
    /\ IF calls[pending[id]].bytes = bytes
         THEN Asked(id, bytes, timed, pending[id], Waiting)
         ELSE Asked(id, bytes, timed, 0, Error("CommandIdConflictError"))
    /\ UNCHANGED <<queue, pending>>

Enqueue(id, bytes, timed) ==
    LET call == Len(calls) + 1 IN
    /\ Remembered(id) = {}
    /\ pending[id] = Nobody
    /\ pending' = [pending EXCEPT ![id] = call]
    /\ queue' = Append(queue, call)
    /\ Asked(id, bytes, timed, call, Waiting)

Propose(id, bytes, timed) ==
    /\ Len(calls) < MaxCalls
    /\ IF ~IsRunning THEN Refuse(id, bytes, timed, "NodeStoppedError")
       ELSE IF role # "leader" THEN Refuse(id, bytes, timed, "NotLeaderError")
       ELSE \/ ReturnRemembered(id, bytes, timed)
            \/ JoinPending(id, bytes, timed)
            \/ Enqueue(id, bytes, timed)
    /\ UNCHANGED <<mode, healthy, consensus, completed>>

\* Mutation: the call is forgotten with its timeout.
TimeoutForgets(call) ==
    pending' = [pending EXCEPT ![calls[call].id] = IF @ = call THEN Nobody ELSE @]

AfterTimeout(call) == UNCHANGED pending

\* The timer of a call starts once the core has seen its proposal.
Timeout(call) ==
    /\ calls[call].timed
    /\ calls[call].answer = Waiting
    /\ \A k \in DOMAIN queue : queue[k] # call
    /\ calls' = [calls EXCEPT ![call].answer = Error("ProposalTimeoutError")]
    /\ AfterTimeout(call)
    /\ UNCHANGED <<mode, healthy, consensus, queue, completed>>

-----------------------------------------------------------------------------
(* The queue                                                               *)

\* Mutation: the calls of the queue are left to their turn.
LeavesQueued(name) ==
    LET queued == {queue[k] : k \in DOMAIN queue} IN
    /\ Settle({pending[id] : id \in Id} \ ({Nobody} \cup queued), Error(name))
    /\ pending' = [id \in Id |-> IF pending[id] \in queued THEN pending[id] ELSE Nobody]

RejectAll(name) ==
    /\ Settle({pending[id] : id \in Id} \ {Nobody}, Error(name))
    /\ pending' = [id \in Id |-> Nobody]

\* fail: the Ready is never advanced, so that every later step of the core throws.
Fail(name) ==
    /\ healthy' = FALSE
    /\ RejectAll(name)

AppendEntry(call) ==
    /\ role = "leader"
    /\ log' = Append(log, [id |-> calls[call].id, bytes |-> calls[call].bytes,
                           lead |-> leads])

\* Mutation: the call is answered as soon as its entry is in the leader's log.
AnsweredTooSoon(call) ==
    /\ healthy
    /\ AppendEntry(call)
    /\ pending' = [pending EXCEPT ![calls[call].id] = Nobody]
    /\ Settle({call}, Result(calls[call].bytes))
    /\ UNCHANGED healthy

Accepted(call) ==
    /\ healthy
    /\ AppendEntry(call)
    /\ UNCHANGED <<healthy, calls, pending>>

\* The core appends the entry, and the storage does not take it.
NotPersisted(call) ==
    /\ MayFail
    /\ healthy
    /\ AppendEntry(call)
    /\ Fail("StorageError")

\* The role has changed since the call, or a Ready has failed: step throws.
Thrown(call) ==
    /\ role # "leader" \/ ~healthy
    /\ pending' = [pending EXCEPT ![calls[call].id] = Nobody]
    /\ Settle({call}, Error("Error"))
    /\ UNCHANGED <<healthy, log>>

\* The queue goes on whatever became of the node: stop waits for it.
RunProposal ==
    /\ queue # <<>>
    /\ queue' = Tail(queue)
    /\ \/ Accepted(Head(queue))
       \/ NotPersisted(Head(queue))
       \/ Thrown(Head(queue))
    /\ UNCHANGED <<mode, role, leads, applied, completed>>

\* The oldest results beyond the retention are forgotten.
Forget(results) ==
    IF Len(results) > Retention
      THEN SubSeq(results, Len(results) - Retention + 1, Len(results))
      ELSE results

\* A result that replaces another one keeps its place.
Remember(id, bytes) ==
    IF Remembered(id) = {}
      THEN Append(completed, [id |-> id, bytes |-> bytes])
      ELSE [k \in DOMAIN completed |->
              IF completed[k].id = id THEN [id |-> id, bytes |-> bytes] ELSE completed[k]]

\* Mutation: nobody is told.
AnswerNobody(id, answer) == UNCHANGED <<calls, pending>>

Answer(id, answer) ==
    /\ Settle({pending[id]} \ {Nobody}, answer)
    /\ pending' = [pending EXCEPT ![id] = Nobody]

\* The next entry is committed and applied.
Apply ==
    /\ IsWorking
    /\ applied < Len(log)
    /\ applied' = applied + 1
    /\ LET e == log[applied'] IN
         /\ Answer(e.id, Result(e.bytes))
         /\ completed' = Forget(Remember(e.id, e.bytes))
    /\ UNCHANGED <<mode, healthy, role, leads, log, queue>>

\* Nothing is written once the storage is closed.
MayGoWrong == healthy /\ (MayFail \/ mode = "closed")

\* The state machine throws, or the storage does not record what it applied.
ApplyFails ==
    /\ MayGoWrong
    /\ applied < Len(log)
    /\ Fail("StateMachineError")
    /\ UNCHANGED <<mode, consensus, queue, completed>>

\* The Ready of a message or of a timer is not persisted.
PersistFails ==
    /\ MayGoWrong
    /\ Fail("StorageError")
    /\ UNCHANGED <<mode, consensus, queue, completed>>

\* stop, as far as the queue it waits for.
Stop ==
    /\ MayFail
    /\ mode = "running"
    /\ mode' = "stopped"
    /\ RejectAll("NodeStoppedError")
    /\ UNCHANGED <<healthy, consensus, queue, completed>>

Close ==
    /\ mode = "stopped"
    /\ queue = <<>>
    /\ mode' = "closed"
    /\ UNCHANGED <<healthy, consensus, client>>

-----------------------------------------------------------------------------
(* Consensus                                                               *)

WinElection ==
    /\ IsWorking /\ role = "follower"
    /\ leads < MaxLeads
    /\ leads' = leads + 1
    /\ role' = "leader"
    /\ UNCHANGED <<mode, healthy, log, applied, client>>

LoseLeadership ==
    /\ IsWorking /\ role = "leader"
    /\ role' = "follower"
    /\ UNCHANGED <<mode, healthy, leads, log, applied, client>>

\* Mutation: entries that are applied can be replaced.
FirstReplaceable == 1

FirstUnapplied == applied + 1

\* Another leader's entry replaces everything from its index on.
ReceiveEntry ==
    /\ IsWorking /\ role = "follower"
    /\ \E index \in FirstUnapplied .. Smaller(Len(log) + 1, MaxLength), e \in Foreign :
         log' = Append(SubSeq(log, 1, index - 1), [id |-> e[1], bytes |-> e[2], lead |-> 0])
    /\ UNCHANGED <<mode, healthy, role, leads, applied, client>>

-----------------------------------------------------------------------------
(* Specification                                                           *)

Init ==
    /\ role = "follower" /\ mode = "running" /\ healthy = TRUE /\ leads = 0
    /\ log = <<>> /\ applied = 0
    /\ calls = <<>> /\ queue = <<>>
    /\ pending = [id \in Id |-> Nobody]
    /\ completed = <<>>

Next ==
    \/ \E id \in Id, bytes \in Bytes, timed \in BOOLEAN : Propose(id, bytes, timed)
    \/ \E call \in DOMAIN calls : Timeout(call)
    \/ RunProposal
    \/ Apply
    \/ ApplyFails
    \/ PersistFails
    \/ Stop
    \/ Close
    \/ WinElection
    \/ LoseLeadership
    \/ ReceiveEntry

Spec == Init /\ [][Next]_vars

\* The queue is drained, and a quorum goes on committing what the leader has.
FairSpec == Spec /\ WF_vars(RunProposal) /\ WF_vars(Apply)

-----------------------------------------------------------------------------
(* Properties                                                              *)

\* Every variable keeps its type, and no more results are remembered than the
\* retention allows.
TypeOK ==
    /\ role \in {"leader", "follower"}
    /\ mode \in {"running", "stopped", "closed"} /\ healthy \in BOOLEAN
    /\ leads \in 0 .. MaxLeads
    /\ log \in Seq(Entry) /\ applied \in 0 .. Len(log)
    /\ calls \in Seq(Call)
    /\ queue \in Seq(DOMAIN calls)
    /\ pending \in [Id -> DOMAIN calls \cup {Nobody}]
    /\ completed \in Seq([id : Id, bytes : Bytes]) /\ Len(completed) <= Retention

\* A call that waits is reachable from the pending map, through the promise it
\* shares: whoever applies its command, fails or stops the node will answer it
\* (node.ts, propose, apply, fail and stop).
EveryWaitIsOwed ==
    \A n \in DOMAIN calls :
      calls[n].answer = Waiting => pending[calls[n].id] = calls[n].promise

\* No promise is left open on a node that failed or was stopped, neither that of a
\* call whose proposal the core has not seen, which still runs and may be applied
\* while stop waits for the queue, nor that of a call that shares it (node.ts:166,
\* 169 and 335).
NothingOwedAfterStop ==
    ~IsRunning => \A n \in DOMAIN calls : calls[n].answer # Waiting

\* README.md:40: a proposal resolves after the local state machine has applied an
\* entry of its command ID; the entry is never one that may still be replaced.
ResultIsOfAppliedEntry ==
    \A n \in DOMAIN calls : calls[n].answer \in Results =>
      \E k \in 1 .. applied :
        log[k].id = calls[n].id /\ Result(log[k].bytes) = calls[n].answer

\* While a node leads, and remembers its results, retries of a command ID add no
\* second entry, whether the first is queued, in the log or applied, and whether
\* its caller has timed out.
OncePerLeadership ==
    \A k, l \in DOMAIN log :
      log[k].id = log[l].id /\ log[k].lead = log[l].lead /\ log[k].lead # 0 => k = l

IsWaiting(n) == n \in DOMAIN calls /\ calls[n].answer = Waiting

\* A call whose command is in the log of a node that leads, and goes on leading,
\* is answered: committing and applying the log reaches it.
InLogIsAnswered ==
    \A n \in 1 .. MaxCalls :
      /\ IsWaiting(n) /\ role = "leader"
      /\ \E k \in applied + 1 .. Len(log) : log[k].id = calls[n].id
      ~> role # "leader" \/ ~IsWaiting(n)

\* On a node that leads, and goes on leading, every call is answered, with no
\* need of a timeout.
LeaderAnswers ==
    \A n \in 1 .. MaxCalls :
      (IsWaiting(n) /\ role = "leader") ~> (role # "leader" \/ ~IsWaiting(n))

\* docs/adr/0009-command-id-retention.md:5: a command ID with different bytes is
\* rejected; a caller never gets the result of other bytes than its own.
ResultIsOfOwnBytes ==
    \A n \in DOMAIN calls :
      calls[n].answer \in Results => calls[n].answer = Result(calls[n].bytes)
=============================================================================
