--------------------------- MODULE ProposalsProofs ---------------------------
(***************************************************************************)
(* Theorems about module Proposals, for any commands, entries of other     *)
(* leaders, failures and bounds.  Two of them, about who is owed an answer *)
(* and about retries, need that no result is forgotten: the retention is   *)
(* not less than the number of command IDs in use.                         *)
(***************************************************************************)
EXTENDS Proposals, FiniteSets, FiniteSetTheorems, SequenceTheorems, TLAPS

\* No result is ever forgotten.
NothingForgotten == IsFiniteSet(Id) /\ Cardinality(Id) <= Retention

-----------------------------------------------------------------------------
(* The inductive invariant                                                 *)

\* A call shares the promise of a call of its own ID, which may be itself.
PromisesAreShared ==
    \A n \in DOMAIN calls :
      /\ calls[n].answer = Waiting => calls[n].promise # 0
      /\ calls[n].promise # 0 =>
           /\ calls[n].promise \in DOMAIN calls
           /\ calls[calls[n].promise].id = calls[n].id

PendingIsOfItsId == \A id \in Id : pending[id] # Nobody => calls[pending[id]].id = id

\* There is one result for an ID, that of an entry which was applied.
ResultsAreOfApplied ==
    /\ \A k, l \in DOMAIN completed : completed[k].id = completed[l].id => k = l
    /\ \A k \in DOMAIN completed : \E l \in 1 .. applied :
         log[l].id = completed[k].id /\ log[l].bytes = completed[k].bytes

AnswerInv ==
    /\ TypeOK
    /\ PromisesAreShared
    /\ PendingIsOfItsId
    /\ ResultsAreOfApplied
    /\ ResultIsOfAppliedEntry

\* While the node runs, a call of the queue is still owed its answer, unless another
\* leader's entry of its ID was applied first.
QueueIsOwed ==
    IsRunning =>
      \A k \in DOMAIN queue : \A id \in Id : id = calls[queue[k]].id =>
        \/ pending[id] = queue[k]
        \/ pending[id] = Nobody /\ \E l \in DOMAIN completed : completed[l].id = id

\* There is one call for an ID in the queue, also when the node has stopped.
QueuedOnce ==
    \A k, l \in DOMAIN queue : calls[queue[k]].id = calls[queue[l]].id => k = l

OwedInv == QueueIsOwed /\ QueuedOnce /\ EveryWaitIsOwed /\ NothingOwedAfterStop

\* A new call of this ID is not queued.
Known(id) == pending[id] # Nobody \/ \E l \in DOMAIN completed : completed[l].id = id

\* The commands that a leader has appended are not on their way again, and known as
\* long as the node accepts calls.
AppendedIsKnown ==
    role = "leader" /\ leads # 0 =>
      \A k \in DOMAIN log : log[k].lead = leads =>
        /\ IsRunning => Known(log[k].id)
        /\ \A n \in DOMAIN queue : calls[queue[n]].id # log[k].id

LeadsAreCounted == \A k \in DOMAIN log : log[k].lead <= leads

LeadInv == LeadsAreCounted /\ AppendedIsKnown /\ OncePerLeadership

-----------------------------------------------------------------------------
(* Calls and their answers                                                 *)

LEMMA Bounds ==
  /\ Foreign \subseteq Id \X Bytes
  /\ Retention \in Nat /\ MaxCalls \in Nat /\ MaxLength \in Nat /\ MaxLeads \in Nat
  BY BoundAssumption

LEMMA AnswerKinds ==
  /\ Waiting \notin Results /\ Waiting \notin Errors
  /\ Results \cap Errors = {}
  /\ \A b \in Bytes : Result(b) \in Results
  /\ \A e : Error(e) \notin Results /\ (Error(e) = Waiting => e = "waiting")
  BY DEF Waiting, Results, Errors, Result, Error

LEMMA ErrorsAreErrors ==
  \A e \in {"NotLeaderError", "NodeStoppedError", "CommandIdConflictError",
            "ProposalTimeoutError", "StateMachineError", "StorageError", "Error"} :
    Error(e) \in Errors /\ Error(e) # Waiting
  BY DEF Error, Errors, Waiting

\* A new call leaves the earlier ones alone.
LEMMA AskedFields ==
  ASSUME TypeOK, NEW id \in Id, NEW bytes \in Bytes, NEW timed \in BOOLEAN,
         NEW promise \in 0 .. MaxCalls, NEW answer \in {Waiting} \cup Results \cup Errors,
         Asked(id, bytes, timed, promise, answer)
  PROVE  /\ calls' \in Seq(Call) /\ Len(calls) \in Nat /\ Len(calls') = Len(calls) + 1
         /\ DOMAIN calls = 1 .. Len(calls) /\ DOMAIN calls' = 1 .. Len(calls) + 1
         /\ \A n \in DOMAIN calls : n \in DOMAIN calls' /\ calls'[n] = calls[n]
         /\ LET call == calls'[Len(calls) + 1] IN
              /\ call.id = id /\ call.bytes = bytes /\ call.promise = promise
              /\ call.answer = answer
<1> DEFINE call == [id |-> id, bytes |-> bytes, timed |-> timed, promise |-> promise,
                    answer |-> answer]
<1>1. calls \in Seq(Call) /\ call \in Call /\ calls' = Append(calls, call)
  BY DEF TypeOK, Call, Asked
<1> HIDE DEF call
<1>2. /\ calls' \in Seq(Call) /\ Len(calls) \in Nat /\ Len(calls') = Len(calls) + 1
      /\ DOMAIN calls = 1 .. Len(calls) /\ DOMAIN calls' = 1 .. Len(calls) + 1
      /\ \A n \in DOMAIN calls : n \in DOMAIN calls' /\ calls'[n] = calls[n]
      /\ calls'[Len(calls) + 1] = call
  BY <1>1
<1> QED
  BY <1>2 DEF call

\* A call keeps everything but its answer, which changes once.
LEMMA SettleFields ==
  ASSUME TypeOK, NEW promises, NEW answer \in Results \cup Errors,
         Settle(promises, answer)
  PROVE  /\ calls' \in Seq(Call) /\ DOMAIN calls' = DOMAIN calls
         /\ \A n \in DOMAIN calls :
              /\ calls'[n].id = calls[n].id /\ calls'[n].bytes = calls[n].bytes
              /\ calls'[n].promise = calls[n].promise
              /\ calls'[n].answer = IF calls[n].promise \in promises
                                       /\ calls[n].answer = Waiting
                                      THEN answer ELSE calls[n].answer
<1>1. /\ calls \in Seq(Call)
      /\ calls' = [n \in DOMAIN calls |->
                IF calls[n].promise \in promises /\ calls[n].answer = Waiting
                  THEN [calls[n] EXCEPT !.answer = answer]
                  ELSE calls[n]]
  BY DEF TypeOK, Settle
<1>2. DOMAIN calls' = DOMAIN calls /\ DOMAIN calls = 1 .. Len(calls) /\ Len(calls) \in Nat
  BY <1>1
<1>3. \A n \in DOMAIN calls : calls[n] \in Call
  BY <1>1
<1>4. \A n \in DOMAIN calls : [calls[n] EXCEPT !.answer = answer] \in Call
  BY <1>3 DEF Call
<1>5. \A n \in DOMAIN calls : calls'[n] \in Call
  BY <1>1, <1>3, <1>4
<1>6. calls' \in Seq(Call)
  BY <1>1, <1>2, <1>5
<1>7. \A n \in DOMAIN calls :
              /\ calls'[n].id = calls[n].id /\ calls'[n].bytes = calls[n].bytes
              /\ calls'[n].promise = calls[n].promise
              /\ calls'[n].answer = IF calls[n].promise \in promises
                                       /\ calls[n].answer = Waiting
                                      THEN answer ELSE calls[n].answer
  <2> SUFFICES ASSUME NEW n \in DOMAIN calls
               PROVE  /\ calls'[n].id = calls[n].id /\ calls'[n].bytes = calls[n].bytes
                      /\ calls'[n].promise = calls[n].promise
                      /\ calls'[n].answer = IF calls[n].promise \in promises
                                               /\ calls[n].answer = Waiting
                                              THEN answer ELSE calls[n].answer
    OBVIOUS
  <2>1. calls'[n] = IF calls[n].promise \in promises /\ calls[n].answer = Waiting
                      THEN [calls[n] EXCEPT !.answer = answer]
                      ELSE calls[n]
    BY <1>1
  <2> QED
    BY <1>3, <2>1 DEF Call
<1> QED
  BY <1>2, <1>6, <1>7

\* What a call of propose does: it is answered at once, from what is remembered or by
\* an error, or it waits, for the promise of an earlier call or its own.
AnswersAtOnce(id, promise, answer) ==
    /\ promise = 0 /\ answer # Waiting
    /\ answer \in Results =>
         \E k \in DOMAIN completed :
           completed[k].id = id /\ answer = Result(completed[k].bytes)
    /\ UNCHANGED <<queue, pending>>

Joins(id, promise, answer) ==
    /\ IsRunning
    /\ pending[id] # Nobody
    /\ promise = pending[id] /\ answer = Waiting
    /\ UNCHANGED <<queue, pending>>

Queues(id, promise, answer) ==
    /\ IsRunning
    /\ Remembered(id) = {} /\ pending[id] = Nobody
    /\ promise = Len(calls) + 1 /\ answer = Waiting
    /\ pending' = [pending EXCEPT ![id] = promise]
    /\ queue' = Append(queue, promise)

Proposes(id, bytes, timed) ==
    \E promise \in 0 .. MaxCalls, answer \in {Waiting} \cup Results \cup Errors :
      /\ Asked(id, bytes, timed, promise, answer)
      /\ \/ AnswersAtOnce(id, promise, answer)
         \/ Joins(id, promise, answer)
         \/ Queues(id, promise, answer)

LEMMA ProposeCases ==
  ASSUME TypeOK, NEW id \in Id, NEW bytes \in Bytes, NEW timed \in BOOLEAN,
         Propose(id, bytes, timed)
  PROVE  Proposes(id, bytes, timed)
<1>1. /\ calls \in Seq(Call) /\ Len(calls) \in Nat /\ DOMAIN calls = 1 .. Len(calls)
      /\ Len(calls) < MaxCalls /\ MaxCalls \in Nat
      /\ pending[id] \in DOMAIN calls \cup {Nobody}
  BY Bounds DEF TypeOK, Propose
<1>2. ASSUME NEW name \in {"NotLeaderError", "NodeStoppedError", "CommandIdConflictError"},
             Asked(id, bytes, timed, 0, Error(name)), UNCHANGED <<queue, pending>>
      PROVE  Proposes(id, bytes, timed)
  <2>1. 0 \in 0 .. MaxCalls /\ Error(name) \in Errors /\ Error(name) # Waiting
    BY <1>1, <1>2, ErrorsAreErrors
  <2>2. Error(name) \notin Results
    BY AnswerKinds
  <2> QED
    BY <1>2, <2>1, <2>2 DEF Proposes, AnswersAtOnce
<1>3. CASE ReturnRemembered(id, bytes, timed)
  <2>1. PICK r \in Remembered(id) :
          Asked(id, bytes, timed, 0,
                IF r.bytes = bytes THEN Result(bytes) ELSE Error("CommandIdConflictError"))
    BY <1>3 DEF ReturnRemembered
  <2>2. PICK k \in DOMAIN completed : completed[k].id = id /\ r = completed[k]
    BY DEF Remembered
  <2>3. UNCHANGED <<queue, pending>>
    BY <1>3 DEF ReturnRemembered
  <2>4. CASE r.bytes = bytes
    <3>1. Result(bytes) \in Results /\ Result(bytes) # Waiting /\ 0 \in 0 .. MaxCalls
      BY <1>1, AnswerKinds
    <3>2. Asked(id, bytes, timed, 0, Result(bytes))
      BY <2>1, <2>4
    <3> QED
      BY <2>2, <2>3, <2>4, <3>1, <3>2 DEF Proposes, AnswersAtOnce
  <2>5. CASE r.bytes # bytes
    BY <1>2, <2>1, <2>3, <2>5
  <2> QED
    BY <2>4, <2>5
<1>4. CASE JoinPending(id, bytes, timed) /\ IsRunning
  <2>1. /\ pending[id] # Nobody /\ UNCHANGED <<queue, pending>>
        /\ pending[id] \in 0 .. MaxCalls
    BY <1>1, <1>4 DEF JoinPending
  <2>2. CASE Asked(id, bytes, timed, pending[id], Waiting)
    BY <1>4, <2>1, <2>2 DEF Proposes, Joins
  <2>3. CASE Asked(id, bytes, timed, 0, Error("CommandIdConflictError"))
    BY <1>2, <2>1, <2>3
  <2> QED
    BY <1>4, <2>2, <2>3 DEF JoinPending
<1>5. CASE Enqueue(id, bytes, timed) /\ IsRunning
  <2>1. Len(calls) + 1 \in 0 .. MaxCalls
    BY <1>1
  <2> QED
    BY <1>5, <2>1 DEF Enqueue, Proposes, Queues
<1> QED
  BY <1>2, <1>3, <1>4, <1>5 DEF Propose, Refuse

-----------------------------------------------------------------------------
(* Results                                                                 *)

StoredResult == [id : Id, bytes : Bytes]

LEMMA RememberedAt ==
  ASSUME NEW id
  PROVE  Remembered(id) # {} <=> \E k \in DOMAIN completed : completed[k].id = id
  BY DEF Remembered

\* One result is added, or replaces the one of its ID.
LEMMA RememberFields ==
  ASSUME TypeOK, ResultsAreOfApplied, NEW id \in Id, NEW bytes \in Bytes,
         NEW results, results = Remember(id, bytes)
  PROVE  /\ results \in Seq(StoredResult)
         /\ \A k, l \in DOMAIN results : results[k].id = results[l].id => k = l
         /\ \E k \in DOMAIN results : results[k].id = id
         /\ \A k \in DOMAIN completed :
              \E l \in DOMAIN results : results[l].id = completed[k].id
         /\ \A k \in DOMAIN results :
              \/ results[k].id = id /\ results[k].bytes = bytes
              \/ \E l \in DOMAIN completed : results[k] = completed[l]
<1> DEFINE new == [id |-> id, bytes |-> bytes]
<1>1. /\ completed \in Seq(StoredResult) /\ new \in StoredResult
      /\ new.id = id /\ new.bytes = bytes
  BY DEF TypeOK, StoredResult
<1>2. /\ DOMAIN completed = 1 .. Len(completed) /\ Len(completed) \in Nat
      /\ \A k \in DOMAIN completed : completed[k] \in StoredResult
  BY <1>1
<1>3. CASE Remembered(id) = {}
  <2>1. results = Append(completed, new)
    BY <1>3 DEF Remember
  <2> HIDE DEF new
  <2>2. /\ results \in Seq(StoredResult)
        /\ DOMAIN results = 1 .. Len(completed) + 1
        /\ results[Len(completed) + 1] = new
        /\ \A k \in DOMAIN completed : k \in DOMAIN results /\ results[k] = completed[k]
    BY <1>1, <1>2, <2>1
  <2>3. \A k \in DOMAIN completed : completed[k].id # id
    BY <1>3, RememberedAt
  <2>4. \A k \in DOMAIN results : k \in DOMAIN completed \/ k = Len(completed) + 1
    BY <1>2, <2>2
  <2>5. \A k, l \in DOMAIN results : results[k].id = results[l].id => k = l
    BY <1>1, <2>2, <2>3, <2>4 DEF ResultsAreOfApplied
  <2>6. Len(completed) + 1 \in DOMAIN results
    BY <1>2, <2>2
  <2> QED
    BY <1>1, <2>2, <2>4, <2>5, <2>6
<1>4. CASE Remembered(id) # {}
  <2>1. results = [k \in DOMAIN completed |->
                     IF completed[k].id = id THEN new ELSE completed[k]]
    BY <1>4 DEF Remember
  <2> HIDE DEF new
  <2>2. /\ DOMAIN results = DOMAIN completed
        /\ \A k \in DOMAIN results : results[k] \in StoredResult
    BY <1>1, <1>2, <2>1
  <2>3. results \in Seq(StoredResult)
    BY <1>2, <2>1, <2>2
  <2>4. \A k \in DOMAIN completed : results[k].id = completed[k].id
    BY <1>1, <2>1
  <2>5. \A k \in DOMAIN results : results[k] = new \/ results[k] = completed[k]
    BY <2>1
  <2>6. \E k \in DOMAIN completed : completed[k].id = id
    BY <1>4, RememberedAt
  <2>7. \A k, l \in DOMAIN results : results[k].id = results[l].id => k = l
    BY <2>2, <2>4 DEF ResultsAreOfApplied
  <2> QED
    BY <1>1, <2>2, <2>3, <2>4, <2>5, <2>6, <2>7
<1> QED
  BY <1>3, <1>4

\* What is left is the end of what was there.
LEMMA ForgetFields ==
  ASSUME NEW S, NEW results \in Seq(S), NEW left, left = Forget(results)
  PROVE  /\ left \in Seq(S) /\ Len(left) <= Retention
         /\ \E d \in Nat : \A k \in DOMAIN left :
              k + d \in DOMAIN results /\ left[k] = results[k + d]
         /\ Len(results) <= Retention => left = results
<1>1. Len(results) \in Nat /\ Retention \in Nat /\ DOMAIN results = 1 .. Len(results)
  BY Bounds
<1>2. CASE Len(results) > Retention
  <2> DEFINE d == Len(results) - Retention
  <2>1. d \in Nat /\ d + 1 \in 1 .. Len(results) + 1
    BY <1>1, <1>2
  <2>2. left = SubSeq(results, d + 1, Len(results))
    BY <1>2 DEF Forget
  <2> HIDE DEF d
  <2>3. Len(results) - d = Retention
    BY <1>1 DEF d
  <2>4. /\ left \in Seq(S) /\ Len(left) = Retention
        /\ \A k \in 1 .. Retention : left[k] = results[k + d]
    BY <1>1, <2>1, <2>2, <2>3
  <2>5. /\ left \in Seq(S) /\ Len(left) = Retention /\ DOMAIN left = 1 .. Retention
        /\ \A k \in 1 .. Retention : left[k] = results[k + d]
    BY <2>4
  <2>6. \A k \in DOMAIN left : k + d \in DOMAIN results /\ left[k] = results[k + d]
    BY <1>1, <2>1, <2>5, <2>3
  <2> QED
    BY <1>1, <1>2, <2>1, <2>5, <2>6
<1>3. CASE ~(Len(results) > Retention)
  <2>1. left = results
    BY <1>3 DEF Forget
  <2>2. \A k \in DOMAIN left : k + 0 \in DOMAIN results /\ left[k] = results[k + 0]
    BY <1>1, <2>1
  <2>3. \E d \in Nat : \A k \in DOMAIN left :
          k + d \in DOMAIN results /\ left[k] = results[k + d]
    <3> WITNESS 0 \in Nat
    <3> QED
      BY <2>2
  <2>4. left \in Seq(S) /\ Len(left) <= Retention
    BY <1>1, <1>3, <2>1
  <2> QED
    BY <2>1, <2>3, <2>4, Zenon
<1> QED
  BY <1>2, <1>3

\* There are no more results than IDs.
LEMMA ResultsFit ==
  ASSUME NothingForgotten, NEW results \in Seq(StoredResult),
         \A k, l \in DOMAIN results : results[k].id = results[l].id => k = l
  PROVE  Len(results) <= Retention
<1>1. Len(results) \in Nat /\ DOMAIN results = 1 .. Len(results)
  OBVIOUS
<1>2. IsFiniteSet(1 .. Len(results)) /\ Cardinality(1 .. Len(results)) = Len(results)
  BY <1>1, FS_Interval
<1>3. Cardinality(Id) \in Nat /\ Cardinality(Id) <= Retention /\ Retention \in Nat
  BY FS_CardinalityType, Bounds DEF NothingForgotten
<1>4. SUFFICES ASSUME Cardinality(Id) < Len(results)
               PROVE  FALSE
  BY <1>1, <1>3
<1> DEFINE ids == [k \in 1 .. Len(results) |-> results[k].id]
<1>5. \A k \in 1 .. Len(results) : results[k] \in StoredResult
  BY <1>1
<1>6. ids \in [1 .. Len(results) -> Id]
  BY <1>5 DEF StoredResult
<1> HIDE DEF ids
<1>7. \E k, l \in 1 .. Len(results) : k # l /\ ids[k] = ids[l]
  BY <1>2, <1>4, <1>6, FS_PigeonHole DEF NothingForgotten
<1> QED
  BY <1>1, <1>7 DEF ids

-----------------------------------------------------------------------------
(* Answers                                                                 *)

LEMMA Fields ==
  ASSUME TypeOK
  PROVE  /\ calls \in Seq(Call) /\ DOMAIN calls = 1 .. Len(calls) /\ Len(calls) \in Nat
         /\ \A n \in DOMAIN calls :
              /\ calls[n].id \in Id /\ calls[n].bytes \in Bytes
              /\ calls[n].promise \in Nat /\ calls[n].promise # Nobody
              /\ calls[n].answer \in {Waiting} \cup Results \cup Errors
         /\ queue \in Seq(DOMAIN calls) /\ DOMAIN queue = 1 .. Len(queue) /\ Len(queue) \in Nat
         /\ \A k \in DOMAIN queue : queue[k] \in DOMAIN calls
         /\ pending \in [Id -> DOMAIN calls \cup {Nobody}] /\ Nobody \notin DOMAIN calls
         /\ log \in Seq(Entry) /\ DOMAIN log = 1 .. Len(log) /\ Len(log) \in Nat
         /\ \A k \in DOMAIN log : log[k] \in Entry
         /\ applied \in Nat /\ applied <= Len(log)
<1>1. /\ calls \in Seq(Call) /\ queue \in Seq(DOMAIN calls) /\ log \in Seq(Entry)
      /\ pending \in [Id -> DOMAIN calls \cup {Nobody}] /\ applied \in 0 .. Len(log)
  BY DEF TypeOK
<1>2. /\ DOMAIN calls = 1 .. Len(calls) /\ Len(calls) \in Nat
      /\ \A n \in DOMAIN calls : calls[n] \in Call
  BY <1>1
<1>3. \A n \in DOMAIN calls :
        /\ calls[n].id \in Id /\ calls[n].bytes \in Bytes
        /\ calls[n].promise \in 0 .. MaxCalls
        /\ calls[n].answer \in {Waiting} \cup Results \cup Errors
  BY <1>2 DEF Call
<1>4. \A n \in DOMAIN calls : calls[n].promise \in Nat /\ calls[n].promise # Nobody
  BY <1>3, Bounds, NobodyAssumption
<1>5. /\ DOMAIN queue = 1 .. Len(queue) /\ Len(queue) \in Nat
      /\ \A k \in DOMAIN queue : queue[k] \in DOMAIN calls
  BY <1>1
<1>6. /\ DOMAIN log = 1 .. Len(log) /\ Len(log) \in Nat
      /\ \A k \in DOMAIN log : log[k] \in Entry
  BY <1>1
<1>7. Nobody \notin DOMAIN calls
  BY <1>2, NobodyAssumption
<1> QED
  BY <1>1, <1>2, <1>3, <1>4, <1>5, <1>6, <1>7

\* An applied entry has the ID and the result of an answered call.
IsAnswered(n) ==
    \E k \in 1 .. applied :
      log[k].id = calls[n].id /\ Result(log[k].bytes) = calls[n].answer

LEMMA ProposeKeepsAnswers ==
  ASSUME AnswerInv, NEW id \in Id, NEW bytes \in Bytes, NEW timed \in BOOLEAN,
         Propose(id, bytes, timed)
  PROVE  AnswerInv'
<1> USE DEF AnswerInv
<1>1. UNCHANGED <<mode, healthy, role, leads, log, applied, completed>>
  BY DEF Propose, consensus
<1>2. PICK promise \in 0 .. MaxCalls, answer \in {Waiting} \cup Results \cup Errors :
        /\ Asked(id, bytes, timed, promise, answer)
        /\ \/ AnswersAtOnce(id, promise, answer)
           \/ Joins(id, promise, answer)
           \/ Queues(id, promise, answer)
  BY ProposeCases DEF Proposes
<1> DEFINE new == Len(calls) + 1
<1>3. /\ calls' \in Seq(Call) /\ Len(calls) \in Nat /\ DOMAIN calls' = 1 .. new
      /\ new \in DOMAIN calls' /\ DOMAIN calls = 1 .. Len(calls)
      /\ \A n \in DOMAIN calls : n \in DOMAIN calls' /\ calls'[n] = calls[n]
      /\ calls'[new].id = id /\ calls'[new].bytes = bytes
      /\ calls'[new].promise = promise /\ calls'[new].answer = answer
      /\ \A n \in DOMAIN calls' : n \in DOMAIN calls \/ n = new
  BY <1>2, AskedFields
<1> HIDE DEF new
<1>4. \/ pending' = pending /\ queue' = queue
      \/ pending' = [pending EXCEPT ![id] = new] /\ queue' = Append(queue, new)
  BY <1>2 DEF AnswersAtOnce, Joins, Queues, new
<1>5. queue' \in Seq(DOMAIN calls') /\ pending' \in [Id -> DOMAIN calls' \cup {Nobody}]
  <2>1. queue \in Seq(DOMAIN calls')
    BY <1>3, Fields, SeqMonotonic
  <2>2. new \in DOMAIN calls' /\ queue' \in {queue, Append(queue, new)}
    BY <1>3, <1>4
  <2>3. Append(queue, new) \in Seq(DOMAIN calls')
    BY <2>1, <2>2, AppendProperties
  <2>4. DOMAIN calls \subseteq DOMAIN calls'
    BY <1>3
  <2>5. pending' \in [Id -> DOMAIN calls' \cup {Nobody}]
    BY <1>4, <2>2, <2>4, Fields
  <2> QED
    BY <2>1, <2>2, <2>3, <2>5
<1>6. TypeOK'
  BY <1>1, <1>3, <1>5 DEF TypeOK
<1>7. PendingIsOfItsId'
  BY <1>3, <1>4, Fields DEF PendingIsOfItsId
<1>8. promise # 0 => promise \in DOMAIN calls' /\ calls'[promise].id = id
  BY <1>2, <1>3, Fields DEF AnswersAtOnce, Joins, Queues, PendingIsOfItsId, new
<1>9. answer = Waiting => promise # 0
  BY <1>2, <1>3, Fields, NobodyAssumption DEF AnswersAtOnce, Joins, Queues
<1>10. PromisesAreShared'
  BY <1>3, <1>8, <1>9 DEF PromisesAreShared
<1>11. ResultsAreOfApplied'
  BY <1>1 DEF ResultsAreOfApplied
<1>12. answer \in Results => \E k \in 1 .. applied :
         log[k].id = id /\ Result(log[k].bytes) = answer
  BY <1>2, AnswerKinds DEF AnswersAtOnce, Joins, Queues, ResultsAreOfApplied
<1>13. ResultIsOfAppliedEntry'
  BY <1>1, <1>3, <1>12 DEF ResultIsOfAppliedEntry
<1> QED
  BY <1>6, <1>7, <1>10, <1>11, <1>13

\* What answers those who share a promise keeps everything else.
LEMMA SettleKeepsAnswers ==
  ASSUME AnswerInv, NEW promises, NEW answer \in Results \cup Errors,
         Settle(promises, answer),
         \A id \in Id : pending'[id] \in {pending[id], Nobody},
         pending' = [id \in Id |-> pending'[id]],
         queue' \in Seq(DOMAIN calls)
  PROVE  /\ PendingIsOfItsId' /\ PromisesAreShared'
         /\ calls' \in Seq(Call) /\ queue' \in Seq(DOMAIN calls')
         /\ pending' \in [Id -> DOMAIN calls' \cup {Nobody}]
<1> USE DEF AnswerInv
<1>1. /\ calls' \in Seq(Call) /\ DOMAIN calls' = DOMAIN calls
      /\ \A n \in DOMAIN calls :
           /\ calls'[n].id = calls[n].id /\ calls'[n].promise = calls[n].promise
           /\ calls'[n].answer = Waiting => calls[n].answer = Waiting
  BY SettleFields, AnswerKinds
<1>2. PendingIsOfItsId'
  BY <1>1, Fields DEF PendingIsOfItsId
<1>3. PromisesAreShared'
  BY <1>1 DEF PromisesAreShared
<1>4. \A id \in Id : pending'[id] \in DOMAIN calls' \cup {Nobody}
  BY <1>1, Fields
<1>5. pending' \in [Id -> DOMAIN calls' \cup {Nobody}]
  BY <1>4
<1> QED
  BY <1>1, <1>2, <1>3, <1>5

LEMMA ErrorKeepsResults ==
  ASSUME AnswerInv, NEW promises, NEW answer \in Errors, Settle(promises, answer),
         applied' = applied, \A k \in 1 .. applied : log'[k] = log[k]
  PROVE  ResultIsOfAppliedEntry'
<1>1. /\ DOMAIN calls' = DOMAIN calls
      /\ \A n \in DOMAIN calls :
           /\ calls'[n].id = calls[n].id
           /\ calls'[n].answer \in Results => calls'[n].answer = calls[n].answer
  BY SettleFields, AnswerKinds DEF AnswerInv
<1> QED
  BY <1>1 DEF AnswerInv, ResultIsOfAppliedEntry

LEMMA RejectAllKeepsAnswers ==
  ASSUME AnswerInv,
         NEW name \in {"StateMachineError", "NodeStoppedError", "StorageError"},
         RejectAll(name), UNCHANGED <<consensus, queue, completed>>,
         mode' \in {"running", "stopped", "closed"}, healthy' \in BOOLEAN
  PROVE  AnswerInv'
<1> USE DEF AnswerInv
<1>1. /\ Settle({pending[id] : id \in Id} \ {Nobody}, Error(name))
      /\ pending' = [id \in Id |-> Nobody] /\ Error(name) \in Errors
  BY ErrorsAreErrors DEF RejectAll
<1>2. UNCHANGED <<role, leads, log, applied, queue, completed>>
  BY DEF consensus
<1>3. /\ PendingIsOfItsId' /\ PromisesAreShared'
      /\ calls' \in Seq(Call) /\ queue' \in Seq(DOMAIN calls')
      /\ pending' \in [Id -> DOMAIN calls' \cup {Nobody}]
  BY <1>1, <1>2, Fields, SettleKeepsAnswers
<1>4. TypeOK'
  BY <1>2, <1>3 DEF TypeOK
<1>5. ResultIsOfAppliedEntry'
  BY <1>1, <1>2, ErrorKeepsResults
<1>6. ResultsAreOfApplied'
  BY <1>2 DEF ResultsAreOfApplied
<1> QED
  BY <1>3, <1>4, <1>5, <1>6

LEMMA TimeoutKeepsAnswers ==
  ASSUME AnswerInv, NEW call \in DOMAIN calls, Timeout(call)
  PROVE  AnswerInv'
<1> USE DEF AnswerInv
<1> DEFINE late == Error("ProposalTimeoutError")
<1>1. UNCHANGED <<mode, healthy, role, leads, log, applied, queue, pending, completed>>
  BY DEF Timeout, AfterTimeout, consensus
<1>2. late \in Errors /\ late # Waiting /\ late \notin Results
  BY ErrorsAreErrors, AnswerKinds
<1>3. calls' = [calls EXCEPT ![call].answer = late]
  BY DEF Timeout
<1> HIDE DEF late
<1>4. /\ calls' \in Seq(Call) /\ DOMAIN calls' = DOMAIN calls
      /\ \A n \in DOMAIN calls :
           /\ calls'[n].id = calls[n].id /\ calls'[n].promise = calls[n].promise
           /\ calls'[n].answer \in {calls[n].answer, late}
  <2>1. \A n \in DOMAIN calls : calls[n] \in Call
    BY Fields
  <2>2. [calls[call] EXCEPT !.answer = late] \in Call
    BY <1>2, <2>1 DEF Call
  <2>3. calls' = [calls EXCEPT ![call] = [calls[call] EXCEPT !.answer = late]]
    BY <1>3
  <2>4. calls' \in Seq(Call) /\ DOMAIN calls' = DOMAIN calls
    BY <2>2, <2>3, Fields
  <2>5. \A n \in DOMAIN calls :
           /\ calls'[n].id = calls[n].id /\ calls'[n].promise = calls[n].promise
           /\ calls'[n].answer \in {calls[n].answer, late}
    BY <2>1, <2>3 DEF Call
  <2> QED
    BY <2>4, <2>5
<1>5. TypeOK'
  BY <1>1, <1>4 DEF TypeOK
<1>6. PendingIsOfItsId'
  BY <1>1, <1>4, Fields DEF PendingIsOfItsId
<1>7. PromisesAreShared'
  BY <1>2, <1>4 DEF PromisesAreShared
<1>8. ResultsAreOfApplied'
  BY <1>1 DEF ResultsAreOfApplied
<1>9. ResultIsOfAppliedEntry'
  BY <1>1, <1>2, <1>4 DEF ResultIsOfAppliedEntry
<1> QED
  BY <1>5, <1>6, <1>7, <1>8, <1>9

LEMMA RunProposalFields ==
  ASSUME TypeOK, RunProposal
  PROVE  /\ 1 \in DOMAIN queue /\ queue[1] \in DOMAIN calls
         /\ UNCHANGED <<mode, role, leads, applied, completed>>
         /\ Accepted(queue[1]) \/ NotPersisted(queue[1]) \/ Thrown(queue[1])
         /\ queue' \in Seq(DOMAIN calls)
         /\ \A k \in DOMAIN queue' :
              k + 1 \in DOMAIN queue /\ k + 1 # 1 /\ queue'[k] = queue[k + 1]
<1>1. /\ queue \in Seq(DOMAIN calls) /\ queue # <<>> /\ queue' = Tail(queue)
      /\ DOMAIN queue = 1 .. Len(queue) /\ Len(queue) \in Nat
  BY Fields DEF RunProposal
<1>2. /\ Head(queue) = queue[1] /\ queue' \in Seq(DOMAIN calls)
      /\ Len(queue') = Len(queue) - 1
      /\ \A k \in 1 .. Len(queue') : queue'[k] = queue[k + 1]
  BY <1>1
<1>3. Len(queue) > 0
  BY <1>1
<1>4. 1 \in DOMAIN queue /\ queue[1] \in DOMAIN calls
  BY <1>1, <1>3, Fields
<1>5. DOMAIN queue' = 1 .. Len(queue')
  BY <1>2
<1>6. \A k \in DOMAIN queue' :
              k + 1 \in DOMAIN queue /\ k + 1 # 1 /\ queue'[k] = queue[k + 1]
  BY <1>1, <1>2, <1>5
<1> QED
  BY <1>2, <1>4, <1>6 DEF RunProposal

\* The entry of a call is of the call's ID and of the present leadership.
LEMMA AppendFields ==
  ASSUME TypeOK, NEW call \in DOMAIN calls, AppendEntry(call)
  PROVE  /\ role = "leader"
         /\ log' \in Seq(Entry) /\ Len(log') = Len(log) + 1
         /\ DOMAIN log' = 1 .. Len(log) + 1
         /\ \A k \in DOMAIN log : k \in DOMAIN log' /\ log'[k] = log[k]
         /\ log'[Len(log) + 1].id = calls[call].id
         /\ log'[Len(log) + 1].lead = leads
<1> DEFINE entry == [id |-> calls[call].id, bytes |-> calls[call].bytes, lead |-> leads]
<1>1. /\ log' = Append(log, entry) /\ entry.id = calls[call].id /\ entry.lead = leads
      /\ role = "leader"
  BY DEF AppendEntry
<1>2. entry \in Entry
  BY Fields DEF Entry, TypeOK
<1> HIDE DEF entry
<1>3. /\ log' \in Seq(Entry) /\ Len(log') = Len(log) + 1
      /\ DOMAIN log' = 1 .. Len(log) + 1
      /\ \A k \in DOMAIN log : k \in DOMAIN log' /\ log'[k] = log[k]
      /\ log'[Len(log) + 1] = entry
  BY <1>1, <1>2, Fields
<1> QED
  BY <1>1, <1>3

LEMMA RunProposalKeepsAnswers ==
  ASSUME AnswerInv, RunProposal
  PROVE  AnswerInv'
<1> USE DEF AnswerInv
<1>1. /\ UNCHANGED <<mode, role, leads, applied, completed>>
      /\ queue[1] \in DOMAIN calls /\ queue' \in Seq(DOMAIN calls)
      /\ Accepted(queue[1]) \/ NotPersisted(queue[1]) \/ Thrown(queue[1])
  BY RunProposalFields
<1>2. ASSUME AppendEntry(queue[1])
      PROVE  /\ log' \in Seq(Entry) /\ applied \in 0 .. Len(log')
             /\ \A k \in 1 .. applied : log'[k] = log[k]
  <2>1. /\ log' \in Seq(Entry) /\ Len(log') = Len(log) + 1
        /\ \A k \in DOMAIN log : log'[k] = log[k]
    BY <1>1, <1>2, AppendFields
  <2>2. applied \in 0 .. Len(log') /\ 1 .. applied \subseteq DOMAIN log
    BY <2>1, Fields
  <2> QED
    BY <2>1, <2>2
<1>3. CASE Accepted(queue[1])
  <2>1. UNCHANGED <<calls, pending, healthy>> /\ AppendEntry(queue[1])
    BY <1>3 DEF Accepted
  <2>2. TypeOK'
    BY <1>1, <1>2, <2>1 DEF TypeOK
  <2>3. PendingIsOfItsId' /\ PromisesAreShared'
    BY <2>1 DEF PendingIsOfItsId, PromisesAreShared
  <2>4. ResultsAreOfApplied' /\ ResultIsOfAppliedEntry'
    BY <1>1, <1>2, <2>1 DEF ResultsAreOfApplied, ResultIsOfAppliedEntry
  <2> QED
    BY <2>2, <2>3, <2>4
<1>4. ASSUME NEW promises, NEW name, Settle(promises, Error(name)), Error(name) \in Errors,
             \A id \in Id : pending'[id] \in {pending[id], Nobody},
             pending' = [id \in Id |-> pending'[id]], healthy' \in BOOLEAN,
             log' \in Seq(Entry), applied \in 0 .. Len(log'),
             \A k \in 1 .. applied : log'[k] = log[k]
      PROVE  AnswerInv'
  <2>1. /\ PendingIsOfItsId' /\ PromisesAreShared'
        /\ calls' \in Seq(Call) /\ queue' \in Seq(DOMAIN calls')
        /\ pending' \in [Id -> DOMAIN calls' \cup {Nobody}]
    BY <1>1, <1>4, SettleKeepsAnswers
  <2>2. TypeOK'
    BY <1>1, <1>4, <2>1 DEF TypeOK
  <2>3. ResultIsOfAppliedEntry'
    BY <1>1, <1>4, ErrorKeepsResults
  <2>4. ResultsAreOfApplied'
    BY <1>1, <1>4 DEF ResultsAreOfApplied
  <2> QED
    BY <2>1, <2>2, <2>3, <2>4
<1>5. CASE NotPersisted(queue[1])
  <2>1. /\ AppendEntry(queue[1]) /\ healthy' \in BOOLEAN
        /\ Settle({pending[id] : id \in Id} \ {Nobody}, Error("StorageError"))
        /\ pending' = [id \in Id |-> Nobody] /\ Error("StorageError") \in Errors
    BY <1>5, ErrorsAreErrors DEF NotPersisted, Fail, RejectAll
  <2>2. /\ \A id \in Id : pending'[id] \in {pending[id], Nobody}
        /\ pending' = [id \in Id |-> pending'[id]]
    BY <2>1
  <2> QED
    BY <1>2, <1>4, <2>1, <2>2
<1>6. CASE Thrown(queue[1])
  <2>1. /\ Settle({queue[1]}, Error("Error")) /\ Error("Error") \in Errors
        /\ pending' = [pending EXCEPT ![calls[queue[1]].id] = Nobody]
        /\ log' = log /\ healthy' = healthy
    BY <1>6, ErrorsAreErrors DEF Thrown
  <2>2. /\ \A id \in Id : pending'[id] \in {pending[id], Nobody}
        /\ pending' = [id \in Id |-> pending'[id]]
    BY <2>1, Fields
  <2>3. healthy \in BOOLEAN /\ log \in Seq(Entry) /\ applied \in 0 .. Len(log)
    BY DEF TypeOK
  <2> QED
    BY <1>4, <2>1, <2>2, <2>3
<1> QED
  BY <1>1, <1>3, <1>5, <1>6

\* What applying the next entry does to calls and results.
LEMMA ApplyFields ==
  ASSUME TypeOK, ResultsAreOfApplied, Apply
  PROVE  /\ UNCHANGED <<mode, healthy, role, leads, log, queue>>
         /\ applied + 1 \in DOMAIN log /\ applied' = applied + 1
         /\ LET e == log[applied + 1]
                results == Remember(e.id, e.bytes)
            IN  /\ e.id \in Id /\ e.bytes \in Bytes
                /\ Result(e.bytes) \in Results
                /\ Settle({pending[e.id]} \ {Nobody}, Result(e.bytes))
                /\ pending' = [pending EXCEPT ![e.id] = Nobody]
                /\ completed' = Forget(results)
<1>1. applied + 1 \in DOMAIN log /\ applied' = applied + 1
  BY Fields DEF Apply
<1>2. log[applied + 1] \in Entry
  BY <1>1, Fields
<1>3. log[applied + 1].id \in Id /\ log[applied + 1].bytes \in Bytes
  BY <1>2 DEF Entry
<1> QED
  BY <1>1, <1>3, AnswerKinds DEF Apply, Answer

LEMMA ApplyKeepsAnswers ==
  ASSUME AnswerInv, Apply
  PROVE  AnswerInv'
<1> USE DEF AnswerInv
<1>1. PICK e, results : e = log[applied + 1] /\ results = Remember(e.id, e.bytes)
  OBVIOUS
<1>2. /\ UNCHANGED <<mode, healthy, role, leads, log, queue>>
      /\ applied + 1 \in DOMAIN log /\ applied' = applied + 1
      /\ e.id \in Id /\ e.bytes \in Bytes /\ Result(e.bytes) \in Results
      /\ Settle({pending[e.id]} \ {Nobody}, Result(e.bytes))
      /\ pending' = [pending EXCEPT ![e.id] = Nobody]
      /\ completed' = Forget(results)
  BY <1>1, ApplyFields
<1>3. /\ \A id \in Id : pending'[id] \in {pending[id], Nobody}
      /\ pending' = [id \in Id |-> pending'[id]]
  BY <1>2, Fields
<1>4. /\ PendingIsOfItsId' /\ PromisesAreShared'
      /\ calls' \in Seq(Call) /\ queue' \in Seq(DOMAIN calls')
      /\ pending' \in [Id -> DOMAIN calls' \cup {Nobody}]
  BY <1>2, <1>3, Fields, SettleKeepsAnswers
<1>5. /\ results \in Seq(StoredResult)
      /\ \A k, l \in DOMAIN results : results[k].id = results[l].id => k = l
      /\ \A k \in DOMAIN results :
              \/ results[k].id = e.id /\ results[k].bytes = e.bytes
              \/ \E l \in DOMAIN completed : results[k] = completed[l]
  BY <1>1, <1>2, RememberFields
<1>6. completed' \in Seq(StoredResult) /\ Len(completed') <= Retention
  BY <1>2, <1>5, ForgetFields
<1>7. TypeOK'
  <2>1. applied' \in 0 .. Len(log')
    BY <1>2, Fields
  <2> QED
    BY <1>2, <1>4, <1>6, <2>1 DEF TypeOK, StoredResult
<1>8. ResultsAreOfApplied'
  <2>1. PICK d \in Nat : \A k \in DOMAIN completed' :
                           k + d \in DOMAIN results /\ completed'[k] = results[k + d]
    BY <1>2, <1>5, ForgetFields
  <2>2. DOMAIN completed' \subseteq Nat
    BY <1>6
  <2>3. \A k, l \in DOMAIN completed' : completed'[k].id = completed'[l].id => k = l
    BY <1>5, <2>1, <2>2
  <2>4. \A k \in DOMAIN results : \E l \in 1 .. applied + 1 :
          log[l].id = results[k].id /\ log[l].bytes = results[k].bytes
    <3> SUFFICES ASSUME NEW k \in DOMAIN results
                 PROVE  \E l \in 1 .. applied + 1 :
                          log[l].id = results[k].id /\ log[l].bytes = results[k].bytes
      OBVIOUS
    <3>1. applied + 1 \in 1 .. applied + 1 /\ 1 .. applied \subseteq 1 .. applied + 1
      BY Fields
    <3>2. CASE results[k].id = e.id /\ results[k].bytes = e.bytes
      BY <1>1, <3>1, <3>2
    <3>3. CASE \E l \in DOMAIN completed : results[k] = completed[l]
      BY <3>1, <3>3 DEF ResultsAreOfApplied
    <3> QED
      BY <1>5, <3>2, <3>3
  <2> QED
    BY <1>2, <2>1, <2>3, <2>4 DEF ResultsAreOfApplied
<1>9. ResultIsOfAppliedEntry'
  <2>1. /\ DOMAIN calls' = DOMAIN calls
        /\ \A n \in DOMAIN calls :
             /\ calls'[n].id = calls[n].id
             /\ calls'[n].answer = IF /\ calls[n].promise \in {pending[e.id]} \ {Nobody}
                                      /\ calls[n].answer = Waiting
                                     THEN Result(e.bytes) ELSE calls[n].answer
    BY <1>2, SettleFields
  <2>2. \A n \in DOMAIN calls :
          calls[n].promise \in {pending[e.id]} \ {Nobody} /\ calls[n].answer = Waiting
            => calls[n].id = e.id
    BY <1>2, Fields DEF PendingIsOfItsId, PromisesAreShared
  <2>3. applied + 1 \in 1 .. applied + 1 /\ 1 .. applied \subseteq 1 .. applied + 1
    BY Fields
  <2>4. ASSUME NEW n \in DOMAIN calls, calls'[n].answer \in Results
        PROVE  \E k \in 1 .. applied + 1 :
                 log[k].id = calls'[n].id /\ Result(log[k].bytes) = calls'[n].answer
    <3>1. CASE calls[n].promise \in {pending[e.id]} \ {Nobody} /\ calls[n].answer = Waiting
      BY <1>1, <2>1, <2>2, <2>3, <3>1
    <3>2. CASE calls'[n].answer = calls[n].answer
      BY <2>1, <2>3, <2>4, <3>2 DEF ResultIsOfAppliedEntry
    <3> QED
      BY <2>1, <3>1, <3>2
  <2> QED
    BY <1>2, <2>1, <2>4 DEF ResultIsOfAppliedEntry
<1> QED
  BY <1>4, <1>7, <1>8, <1>9

\* Another leader's entry comes after everything that is applied.
LEMMA ReceiveFields ==
  ASSUME TypeOK, ReceiveEntry
  PROVE  /\ role = "follower"
         /\ UNCHANGED <<mode, healthy, role, leads, applied, calls, queue, pending, completed>>
         /\ log' \in Seq(Entry) /\ applied <= Len(log')
         /\ DOMAIN log' = 1 .. Len(log') /\ Len(log') - 1 <= Len(log)
         /\ \A k \in 1 .. Len(log') - 1 : log'[k] = log[k]
         /\ log'[Len(log')].lead = 0
         /\ \A k \in 1 .. applied : log'[k] = log[k]
<1>1. PICK index \in applied + 1 .. Smaller(Len(log) + 1, MaxLength), e \in Foreign :
        log' = Append(SubSeq(log, 1, index - 1), [id |-> e[1], bytes |-> e[2], lead |-> 0])
  BY DEF ReceiveEntry, FirstUnapplied
<1> DEFINE entry == [id |-> e[1], bytes |-> e[2], lead |-> 0]
<1>2. entry \in Entry /\ entry.lead = 0
  BY Bounds DEF Entry
<1>3. log' = Append(SubSeq(log, 1, index - 1), entry)
  BY <1>1
<1> HIDE DEF entry
<1>4. /\ index \in Nat /\ applied + 1 <= index /\ index - 1 \in 0 .. Len(log)
      /\ applied \in Nat /\ log \in Seq(Entry) /\ Len(log) \in Nat
  BY <1>1, Fields, Bounds DEF Smaller
<1>5. /\ SubSeq(log, 1, index - 1) \in Seq(Entry)
      /\ Len(SubSeq(log, 1, index - 1)) = index - 1
      /\ \A k \in 1 .. index - 1 : SubSeq(log, 1, index - 1)[k] = log[k]
  BY <1>4
<1> DEFINE kept == SubSeq(log, 1, index - 1)
<1> HIDE DEF kept
<1>6. /\ log' = Append(kept, entry) /\ kept \in Seq(Entry) /\ Len(kept) = index - 1
      /\ \A k \in 1 .. index - 1 : kept[k] = log[k]
  BY <1>3, <1>5 DEF kept
<1>7. /\ log' \in Seq(Entry) /\ Len(log') = index /\ log'[index] = entry
      /\ DOMAIN log' = 1 .. Len(log')
      /\ \A k \in 1 .. index - 1 : log'[k] = kept[k]
  BY <1>2, <1>4, <1>6
<1>8. UNCHANGED <<mode, healthy, role, leads, applied, calls, queue, pending, completed>>
  BY DEF ReceiveEntry, client
<1>9. role = "follower"
  BY DEF ReceiveEntry
<1> QED
  BY <1>2, <1>4, <1>6, <1>7, <1>8, <1>9

LEMMA ReceiveKeepsAnswers ==
  ASSUME AnswerInv, ReceiveEntry
  PROVE  AnswerInv'
<1> USE DEF AnswerInv
<1>1. /\ UNCHANGED <<mode, healthy, role, leads, applied, calls, queue, pending, completed>>
      /\ log' \in Seq(Entry) /\ applied <= Len(log')
      /\ \A k \in 1 .. applied : log'[k] = log[k]
  BY ReceiveFields
<1>2. TypeOK'
  <2>1. applied' \in 0 .. Len(log')
    BY <1>1, Fields
  <2> QED
    BY <1>1, <2>1 DEF TypeOK
<1>3. PendingIsOfItsId' /\ PromisesAreShared'
  BY <1>1 DEF PendingIsOfItsId, PromisesAreShared
<1>4. ResultsAreOfApplied' /\ ResultIsOfAppliedEntry'
  BY <1>1 DEF ResultsAreOfApplied, ResultIsOfAppliedEntry
<1> QED
  BY <1>2, <1>3, <1>4

LEMMA QuietKeepsAnswers ==
  ASSUME AnswerInv, UNCHANGED <<healthy, log, applied, calls, queue, pending, completed>>,
         role' \in {"leader", "follower"}, leads' \in 0 .. MaxLeads,
         mode' \in {"running", "stopped", "closed"}
  PROVE  AnswerInv'
<1> USE DEF AnswerInv
<1>1. TypeOK'
  BY DEF TypeOK
<1>2. PendingIsOfItsId' /\ PromisesAreShared'
  BY DEF PendingIsOfItsId, PromisesAreShared
<1>3. ResultsAreOfApplied' /\ ResultIsOfAppliedEntry'
  BY DEF ResultsAreOfApplied, ResultIsOfAppliedEntry
<1> QED
  BY <1>1, <1>2, <1>3

LEMMA ElectionFields ==
  ASSUME TypeOK, WinElection \/ LoseLeadership
  PROVE  /\ UNCHANGED <<mode, healthy, log, applied, calls, queue, pending, completed>>
         /\ \/ role' = "leader" /\ leads' = leads + 1
            \/ role' = "follower" /\ leads' = leads
         /\ role' \in {"leader", "follower"} /\ leads' \in 0 .. MaxLeads
         /\ leads \in Nat
  BY Bounds DEF WinElection, LoseLeadership, client, TypeOK

LEMMA AnswerInvStable ==
  ASSUME AnswerInv, [Next]_vars
  PROVE  AnswerInv'
<1> USE DEF AnswerInv
<1>1. CASE ApplyFails \/ PersistFails
  BY <1>1, RejectAllKeepsAnswers DEF ApplyFails, PersistFails, Fail, TypeOK
<1>2. CASE Stop
  BY <1>2, RejectAllKeepsAnswers DEF Stop, TypeOK
<1>3. CASE WinElection \/ LoseLeadership
  BY <1>3, ElectionFields, QuietKeepsAnswers DEF TypeOK
<1>4. CASE Close
  BY <1>4, QuietKeepsAnswers DEF Close, consensus, client, TypeOK
<1>5. CASE UNCHANGED vars
  <2>1. UNCHANGED <<mode, healthy, role, leads, log, applied, calls, queue, pending, completed>>
    BY <1>5 DEF vars, consensus, client
  <2> QED
    BY <2>1, QuietKeepsAnswers DEF TypeOK
<1> QED
  BY <1>1, <1>2, <1>3, <1>4, <1>5, ProposeKeepsAnswers, TimeoutKeepsAnswers,
     RunProposalKeepsAnswers, ApplyKeepsAnswers, ReceiveKeepsAnswers DEF Next

LEMMA InitAnswerInv == Init => AnswerInv
<1> SUFFICES ASSUME Init
             PROVE  AnswerInv
  OBVIOUS
<1> USE DEF Init
<1>1. TypeOK
  <2>1. /\ Len(<<>>) = 0 /\ <<>> \in Seq(Entry) /\ <<>> \in Seq(Call)
        /\ <<>> \in Seq(DOMAIN calls) /\ <<>> \in Seq([id : Id, bytes : Bytes])
    BY EmptySeq
  <2>2. leads \in 0 .. MaxLeads /\ applied \in 0 .. Len(log)
    BY <2>1, Bounds
  <2>3. Len(completed) <= Retention
    BY <2>1, Bounds
  <2>4. pending \in [Id -> DOMAIN calls \cup {Nobody}]
    OBVIOUS
  <2> QED
    BY <2>1, <2>2, <2>3, <2>4 DEF TypeOK
<1>2. DOMAIN calls = {} /\ DOMAIN completed = {}
  OBVIOUS
<1>3. PromisesAreShared /\ PendingIsOfItsId
  BY <1>2 DEF PromisesAreShared, PendingIsOfItsId
<1>4. ResultsAreOfApplied /\ ResultIsOfAppliedEntry
  BY <1>2 DEF ResultsAreOfApplied, ResultIsOfAppliedEntry
<1> QED
  BY <1>1, <1>3, <1>4 DEF AnswerInv

\* The inductive invariant of answers holds for any commands, other leaders' entries,
\* retention and bounds: promises are shared within an ID, and the remembered results
\* are of applied entries.
THEOREM AnswersAreTrue == Spec => []AnswerInv
<1>1. AnswerInv /\ [Next]_vars => AnswerInv'
  BY AnswerInvStable
<1> QED
  BY <1>1, InitAnswerInv, PTL DEF Spec

\* Every variable keeps its type, and no more results are remembered than the
\* retention allows, for any bounds (node.ts:293).
THEOREM TypeCorrect == Spec => []TypeOK
<1>1. AnswerInv => TypeOK
  BY DEF AnswerInv
<1> QED
  BY <1>1, AnswersAreTrue, PTL

\* Whoever is given a result, by the entry it waited for, by one it joined or by what is
\* remembered, is given that of an entry of its ID which this node has applied, however
\* few results are remembered (node.ts, propose and apply).
THEOREM ResultsAreTrue == Spec => []ResultIsOfAppliedEntry
<1>1. AnswerInv => ResultIsOfAppliedEntry
  BY DEF AnswerInv
<1> QED
  BY <1>1, AnswersAreTrue, PTL

-----------------------------------------------------------------------------
(* Who is owed an answer, as long as results are not forgotten             *)

LEMMA StillWaits ==
  ASSUME TypeOK, NEW promises, NEW answer \in Results \cup Errors,
         Settle(promises, answer)
  PROVE  /\ DOMAIN calls' = DOMAIN calls
         /\ \A n \in DOMAIN calls :
              /\ calls'[n].id = calls[n].id /\ calls'[n].promise = calls[n].promise
              /\ calls'[n].answer = Waiting =>
                   calls[n].answer = Waiting /\ calls[n].promise \notin promises
  BY SettleFields, AnswerKinds

LEMMA RememberedStays ==
  ASSUME NothingForgotten, TypeOK, ResultsAreOfApplied, Apply
  PROVE  /\ \A k \in DOMAIN completed :
              \E l \in DOMAIN completed' : completed'[l].id = completed[k].id
         /\ \E l \in DOMAIN completed' : completed'[l].id = log[applied + 1].id
<1>1. PICK e, results : e = log[applied + 1] /\ results = Remember(e.id, e.bytes)
  OBVIOUS
<1>2. e.id \in Id /\ e.bytes \in Bytes /\ completed' = Forget(results)
  BY <1>1, ApplyFields
<1>3. /\ results \in Seq(StoredResult)
      /\ \A k, l \in DOMAIN results : results[k].id = results[l].id => k = l
      /\ \E k \in DOMAIN results : results[k].id = e.id
      /\ \A k \in DOMAIN completed :
           \E l \in DOMAIN results : results[l].id = completed[k].id
  BY <1>1, <1>2, RememberFields
<1>4. completed' = results
  BY <1>2, <1>3, ResultsFit, ForgetFields
<1> QED
  BY <1>1, <1>3, <1>4

\* A new call waits for what is pending for its ID, which may be itself.
LEMMA ProposeKeepsOwed ==
  ASSUME AnswerInv, OwedInv, NEW id \in Id, NEW bytes \in Bytes, NEW timed \in BOOLEAN,
         Propose(id, bytes, timed)
  PROVE  OwedInv'
<1> USE DEF OwedInv
<1>1. TypeOK /\ UNCHANGED <<mode, healthy, completed>>
  BY DEF Propose, AnswerInv
<1>2. PICK promise \in 0 .. MaxCalls, answer \in {Waiting} \cup Results \cup Errors :
        /\ Asked(id, bytes, timed, promise, answer)
        /\ \/ AnswersAtOnce(id, promise, answer)
           \/ Joins(id, promise, answer)
           \/ Queues(id, promise, answer)
  BY <1>1, ProposeCases DEF Proposes
<1>3. PICK new : new = Len(calls) + 1
  OBVIOUS
<1>4. /\ new \notin DOMAIN calls
      /\ \A n \in DOMAIN calls : calls'[n] = calls[n]
      /\ calls'[new].id = id /\ calls'[new].promise = promise /\ calls'[new].answer = answer
      /\ \A n \in DOMAIN calls' : n \in DOMAIN calls \/ n = new
  BY <1>1, <1>2, <1>3, AskedFields
<1>5. Remembered(id) = {} => ~\E l \in DOMAIN completed : completed[l].id = id
  BY RememberedAt
<1>6. /\ \A k \in DOMAIN queue : queue[k] \in DOMAIN calls
      /\ \A n \in DOMAIN calls : calls[n].id \in Id /\ calls[n].promise # Nobody
      /\ pending \in [Id -> DOMAIN calls \cup {Nobody}] /\ Nobody \notin DOMAIN calls
      /\ queue \in Seq(DOMAIN calls) /\ DOMAIN queue = 1 .. Len(queue) /\ Len(queue) \in Nat
  BY <1>1, Fields
<1>7. NothingOwedAfterStop'
  BY <1>1, <1>2, <1>4 DEF NothingOwedAfterStop, IsRunning, AnswersAtOnce, Joins, Queues
<1>8. CASE AnswersAtOnce(id, promise, answer) \/ Joins(id, promise, answer)
  <2>1. UNCHANGED <<queue, pending>>
    BY <1>8 DEF AnswersAtOnce, Joins
  <2>2. \A k \in DOMAIN queue : calls'[queue[k]] = calls[queue[k]]
    BY <1>4, <1>6
  <2>3. QueueIsOwed' /\ QueuedOnce'
    BY <1>1, <2>1, <2>2 DEF QueueIsOwed, QueuedOnce, IsRunning
  <2>4. answer = Waiting => pending[id] = promise
    BY <1>8 DEF AnswersAtOnce, Joins
  <2>5. EveryWaitIsOwed'
    BY <1>4, <2>1, <2>4 DEF EveryWaitIsOwed
  <2> QED
    BY <1>7, <2>3, <2>5
<1>9. CASE Queues(id, promise, answer)
  <2>1. /\ Remembered(id) = {} /\ pending[id] = Nobody /\ promise = new
        /\ pending' = [pending EXCEPT ![id] = new] /\ queue' = Append(queue, new)
        /\ IsRunning
    BY <1>3, <1>9 DEF Queues
  <2>2. /\ \A k \in DOMAIN queue' : k \in DOMAIN queue \/ k = Len(queue) + 1
        /\ \A k \in DOMAIN queue : queue'[k] = queue[k]
        /\ queue'[Len(queue) + 1] = new
    BY <1>6, <2>1, AppendProperties
  <2>3. \A k \in DOMAIN queue :
          /\ calls'[queue'[k]] = calls[queue[k]] /\ queue'[k] = queue[k]
          /\ calls[queue[k]].id \in Id /\ calls[queue[k]].id # id
    BY <1>4, <1>5, <1>6, <2>1, <2>2 DEF QueueIsOwed
  <2>4. \A other \in Id : other # id => pending'[other] = pending[other]
    BY <1>6, <2>1
  <2>5. pending'[id] = new
    BY <1>6, <2>1
  <2>6. \A k \in DOMAIN queue' : \A other \in Id : other = calls'[queue'[k]].id =>
           \/ pending'[other] = queue'[k]
           \/ pending'[other] = Nobody /\ \E l \in DOMAIN completed' : completed'[l].id = other
    BY <1>1, <1>4, <2>1, <2>2, <2>3, <2>4, <2>5 DEF QueueIsOwed
  <2>7. \A k, l \in DOMAIN queue' : calls'[queue'[k]].id = calls'[queue'[l]].id => k = l
    BY <1>4, <2>1, <2>2, <2>3 DEF QueuedOnce
  <2>8. QueueIsOwed' /\ QueuedOnce'
    BY <2>6, <2>7 DEF QueueIsOwed, QueuedOnce
  <2>9. \A n \in DOMAIN calls : calls[n].answer = Waiting =>
          calls[n].id # id /\ pending'[calls[n].id] = pending[calls[n].id]
    BY <1>6, <2>1 DEF EveryWaitIsOwed
  <2>10. EveryWaitIsOwed'
    BY <1>4, <2>1, <2>5, <2>9 DEF EveryWaitIsOwed
  <2> QED
    BY <1>7, <2>8, <2>10
<1> QED
  BY <1>2, <1>8, <1>9

LEMMA TimeoutKeepsOwed ==
  ASSUME AnswerInv, OwedInv, NEW call \in DOMAIN calls, Timeout(call)
  PROVE  OwedInv'
<1> USE DEF OwedInv
<1>1. UNCHANGED <<mode, healthy, queue, pending, completed>> /\ TypeOK
  BY DEF Timeout, AfterTimeout, AnswerInv
<1>2. /\ DOMAIN calls' = DOMAIN calls
      /\ \A n \in DOMAIN calls :
           /\ calls'[n].id = calls[n].id /\ calls'[n].promise = calls[n].promise
           /\ calls'[n].answer = Waiting => calls[n].answer = Waiting
  <2> DEFINE late == Error("ProposalTimeoutError")
  <2>1. calls' = [calls EXCEPT ![call].answer = late] /\ late # Waiting
    BY ErrorsAreErrors DEF Timeout
  <2> HIDE DEF late
  <2>2. \A n \in DOMAIN calls : calls[n] \in Call
    BY <1>1, Fields
  <2> QED
    BY <2>1, <2>2 DEF Call
<1>3. \A k \in DOMAIN queue : calls'[queue[k]].id = calls[queue[k]].id
  BY <1>1, <1>2, Fields
<1>4. QueueIsOwed' /\ QueuedOnce'
  BY <1>1, <1>3 DEF QueueIsOwed, QueuedOnce, IsRunning
<1>5. EveryWaitIsOwed' /\ NothingOwedAfterStop'
  BY <1>1, <1>2 DEF EveryWaitIsOwed, NothingOwedAfterStop, IsRunning
<1> QED
  BY <1>4, <1>5

\* Whoever waits is in the pending map, all of which is rejected.
LEMMA RejectAllKeepsOwed ==
  ASSUME AnswerInv, OwedInv,
         NEW name \in {"StateMachineError", "NodeStoppedError", "StorageError"},
         RejectAll(name), ~IsRunning',
         \A k, l \in DOMAIN queue' : calls[queue'[k]].id = calls[queue'[l]].id => k = l,
         \A k \in DOMAIN queue' : queue'[k] \in DOMAIN calls
  PROVE  OwedInv'
<1>1. /\ Settle({pending[id] : id \in Id} \ {Nobody}, Error(name))
      /\ Error(name) \in Errors
  BY ErrorsAreErrors DEF RejectAll
<1>2. /\ DOMAIN calls' = DOMAIN calls
      /\ \A n \in DOMAIN calls :
            /\ calls'[n].id = calls[n].id
            /\ calls'[n].answer = Waiting =>
                 /\ calls[n].answer = Waiting
                 /\ calls[n].promise \notin {pending[id] : id \in Id} \ {Nobody}
  BY <1>1, StillWaits DEF AnswerInv
<1>3. \A n \in DOMAIN calls : calls'[n].answer # Waiting
  <2>1. \A n \in DOMAIN calls : calls[n].id \in Id /\ calls[n].promise # Nobody
    BY Fields DEF AnswerInv
  <2> QED
    BY <1>2, <2>1 DEF OwedInv, EveryWaitIsOwed
<1>4. QueuedOnce'
  BY <1>2 DEF QueuedOnce
<1> QED
  BY <1>2, <1>3, <1>4 DEF OwedInv, QueueIsOwed, EveryWaitIsOwed, NothingOwedAfterStop

\* While the node runs, the call whose turn it is owns its ID; afterwards nobody waits.
LEMMA RunProposalKeepsOwed ==
  ASSUME AnswerInv, OwedInv, RunProposal
  PROVE  OwedInv'
<1> USE DEF OwedInv
<1>1. /\ 1 \in DOMAIN queue /\ queue[1] \in DOMAIN calls
      /\ UNCHANGED <<mode, completed>>
      /\ Accepted(queue[1]) \/ NotPersisted(queue[1]) \/ Thrown(queue[1])
      /\ \A k \in DOMAIN queue' :
              k + 1 \in DOMAIN queue /\ k + 1 # 1 /\ queue'[k] = queue[k + 1]
      /\ DOMAIN queue' \subseteq Nat
  BY RunProposalFields DEF AnswerInv
<1>2. /\ \A k, l \in DOMAIN queue' : calls[queue'[k]].id = calls[queue'[l]].id => k = l
      /\ \A k \in DOMAIN queue' : calls[queue'[k]].id # calls[queue[1]].id
  BY <1>1 DEF QueuedOnce
<1>3. CASE Accepted(queue[1])
  <2>1. UNCHANGED <<calls, pending, healthy>>
    BY <1>3 DEF Accepted
  <2>2. EveryWaitIsOwed' /\ NothingOwedAfterStop' /\ QueuedOnce'
    BY <1>1, <1>2, <2>1 DEF EveryWaitIsOwed, NothingOwedAfterStop, QueuedOnce, IsRunning
  <2>3. QueueIsOwed'
    BY <1>1, <2>1 DEF QueueIsOwed, IsRunning
  <2> QED
    BY <2>2, <2>3
<1>4. CASE NotPersisted(queue[1])
  <2>1. RejectAll("StorageError") /\ ~IsRunning'
    BY <1>4 DEF NotPersisted, Fail, IsRunning
  <2>2. \A k \in DOMAIN queue' : queue'[k] \in DOMAIN calls
    BY <1>1, Fields DEF AnswerInv
  <2> QED
    BY <1>2, <2>1, <2>2, RejectAllKeepsOwed
<1>5. CASE Thrown(queue[1])
  <2>1. PICK call, id : call = queue[1] /\ id = calls[call].id
    OBVIOUS
  <2>2. /\ Settle({call}, Error("Error")) /\ Error("Error") \in Errors
        /\ pending' = [pending EXCEPT ![id] = Nobody] /\ healthy' = healthy
    BY <1>5, <2>1, ErrorsAreErrors DEF Thrown
  <2>3. /\ DOMAIN calls' = DOMAIN calls
        /\ \A n \in DOMAIN calls :
              /\ calls'[n].id = calls[n].id /\ calls'[n].promise = calls[n].promise
              /\ calls'[n].answer = Waiting =>
                   calls[n].answer = Waiting /\ calls[n].promise # call
    BY <2>2, StillWaits DEF AnswerInv
  <2>4. /\ pending \in [Id -> DOMAIN calls \cup {Nobody}] /\ id \in Id
        /\ \A n \in DOMAIN calls : calls[n].id \in Id /\ calls[n].promise # Nobody
        /\ \A k \in DOMAIN queue : queue[k] \in DOMAIN calls
    BY <1>1, <2>1, Fields DEF AnswerInv
  <2>5. \A other \in Id : other # id => pending'[other] = pending[other]
    BY <2>2, <2>4
  <2>6. IsRunning' = IsRunning
    BY <1>1, <2>2 DEF IsRunning
  <2>7. NothingOwedAfterStop'
    BY <2>3, <2>6 DEF NothingOwedAfterStop
  <2>8. IsRunning => pending[id] \in {call, Nobody}
    BY <1>1, <2>1, <2>4 DEF QueueIsOwed
  <2>9. EveryWaitIsOwed'
    BY <2>3, <2>4, <2>5, <2>6, <2>7, <2>8 DEF EveryWaitIsOwed, NothingOwedAfterStop
  <2>10. \A k \in DOMAIN queue' :
          /\ calls'[queue'[k]].id = calls[queue'[k]].id /\ calls[queue'[k]].id \in Id
          /\ calls[queue'[k]].id # id
    BY <1>1, <1>2, <2>1, <2>3, <2>4
  <2>11. IsRunning => \A k \in DOMAIN queue' : \A other \in Id :
          other = calls'[queue'[k]].id =>
            \/ pending'[other] = queue'[k]
            \/ pending'[other] = Nobody
                 /\ \E l \in DOMAIN completed' : completed'[l].id = other
    BY <1>1, <2>5, <2>10 DEF QueueIsOwed
  <2>12. QueueIsOwed' /\ QueuedOnce'
    BY <1>2, <2>6, <2>10, <2>11 DEF QueueIsOwed, QueuedOnce
  <2> QED
    BY <2>7, <2>9, <2>12
<1> QED
  BY <1>1, <1>3, <1>4, <1>5

LEMMA ApplyKeepsOwed ==
  ASSUME NothingForgotten, AnswerInv, OwedInv, Apply
  PROVE  OwedInv'
<1> USE DEF OwedInv
<1>1. PICK e : e = log[applied + 1]
  OBVIOUS
<1>2. /\ UNCHANGED <<mode, healthy, queue>>
      /\ e.id \in Id /\ Result(e.bytes) \in Results
      /\ Settle({pending[e.id]} \ {Nobody}, Result(e.bytes))
      /\ pending' = [pending EXCEPT ![e.id] = Nobody]
  BY <1>1, ApplyFields DEF AnswerInv
<1>3. /\ DOMAIN calls' = DOMAIN calls
      /\ \A n \in DOMAIN calls :
            /\ calls'[n].id = calls[n].id /\ calls'[n].promise = calls[n].promise
            /\ calls'[n].answer = Waiting =>
                 /\ calls[n].answer = Waiting
                 /\ calls[n].promise \notin {pending[e.id]} \ {Nobody}
  BY <1>2, StillWaits DEF AnswerInv
<1>4. /\ pending \in [Id -> DOMAIN calls \cup {Nobody}]
      /\ \A n \in DOMAIN calls : calls[n].id \in Id /\ calls[n].promise # Nobody
      /\ \A k \in DOMAIN queue : queue[k] \in DOMAIN calls
  BY Fields DEF AnswerInv
<1>5. /\ pending'[e.id] = Nobody
      /\ \A other \in Id : other # e.id => pending'[other] = pending[other]
  BY <1>2, <1>4
<1>6. /\ \A k \in DOMAIN completed :
           \E l \in DOMAIN completed' : completed'[l].id = completed[k].id
      /\ \E l \in DOMAIN completed' : completed'[l].id = e.id
  BY <1>1, RememberedStays DEF AnswerInv
<1>7. EveryWaitIsOwed'
  BY <1>3, <1>4, <1>5 DEF EveryWaitIsOwed
<1>8. NothingOwedAfterStop'
  BY <1>2, <1>3 DEF NothingOwedAfterStop, IsRunning
<1>9. \A k \in DOMAIN queue :
        /\ calls'[queue[k]].id = calls[queue[k]].id
        /\ calls[queue[k]].id \in Id
  BY <1>3, <1>4
<1>10. IsRunning =>
        \A k \in DOMAIN queue : \A other \in Id : other = calls'[queue[k]].id =>
          \/ pending'[other] = queue[k]
          \/ pending'[other] = Nobody /\ \E l \in DOMAIN completed' : completed'[l].id = other
  BY <1>2, <1>5, <1>6, <1>9 DEF QueueIsOwed
<1>11. QueueIsOwed' /\ QueuedOnce'
  BY <1>2, <1>9, <1>10 DEF QueueIsOwed, QueuedOnce, IsRunning
<1> QED
  BY <1>7, <1>8, <1>11

LEMMA OwedInvStable ==
  ASSUME NothingForgotten, AnswerInv, OwedInv, [Next]_vars
  PROVE  OwedInv'
<1>1. ASSUME UNCHANGED <<calls, queue, pending, completed>>, IsRunning' = IsRunning
      PROVE  OwedInv'
  BY <1>1 DEF OwedInv, QueueIsOwed, QueuedOnce, EveryWaitIsOwed, NothingOwedAfterStop
<1>2. ASSUME NEW name \in {"StateMachineError", "NodeStoppedError", "StorageError"},
             RejectAll(name), ~IsRunning', UNCHANGED queue
      PROVE  OwedInv'
  BY <1>2, RejectAllKeepsOwed, Fields DEF AnswerInv, OwedInv, QueuedOnce
<1>3. CASE ApplyFails \/ PersistFails \/ Stop
  BY <1>2, <1>3 DEF ApplyFails, PersistFails, Stop, Fail, IsRunning
<1>4. CASE Close
  BY <1>1, <1>4 DEF Close, IsRunning, client
<1>5. CASE WinElection \/ LoseLeadership
  BY <1>1, <1>5, ElectionFields DEF AnswerInv, IsRunning
<1>6. CASE ReceiveEntry
  BY <1>1, <1>6, ReceiveFields DEF AnswerInv, IsRunning
<1>7. CASE UNCHANGED vars
  BY <1>1, <1>7 DEF vars, client, IsRunning
<1> QED
  BY <1>3, <1>4, <1>5, <1>6, <1>7, ProposeKeepsOwed, TimeoutKeepsOwed,
     RunProposalKeepsOwed, ApplyKeepsOwed DEF Next

LEMMA InitOwedInv == Init => OwedInv
  BY DEF Init, OwedInv, QueueIsOwed, QueuedOnce, EveryWaitIsOwed, NothingOwedAfterStop

\* As long as no result is forgotten, the inductive invariant of waiting calls holds:
\* who waits, or is on the way to the core, is in the pending map.
THEOREM WaitsAreOwed == ASSUME NothingForgotten PROVE Spec => []OwedInv
<1>1. AnswerInv /\ OwedInv /\ [Next]_vars => OwedInv'
  BY OwedInvStable
<1> QED
  BY <1>1, InitOwedInv, AnswersAreTrue, PTL DEF Spec


\* As long as no result is forgotten, a call that waits can be reached through the
\* pending map by what applies its command, fails or stops the node, whatever the order
\* of calls, timeouts, elections and other leaders' entries (node.ts, propose and apply).
THEOREM WaitsAreReachable == ASSUME NothingForgotten PROVE Spec => []EveryWaitIsOwed
<1>1. OwedInv => EveryWaitIsOwed
  BY DEF OwedInv
<1> QED
  BY <1>1, WaitsAreOwed, PTL

\* As long as no result is forgotten, no promise is left open on a node that has failed
\* or stopped, whatever still runs, throws or is applied while stop waits for the queue
\* (node.ts:166, 169 and 335).
THEOREM NobodyWaitsAfterStop ==
  ASSUME NothingForgotten PROVE Spec => []NothingOwedAfterStop
<1>1. OwedInv => NothingOwedAfterStop
  BY DEF OwedInv
<1> QED
  BY <1>1, WaitsAreOwed, PTL

-----------------------------------------------------------------------------
(* Retries in one leadership                                               *)

\* A step that leaves the log and the role alone, forgets no ID and queues no call.
LEMMA SameLogKeepsLead ==
  ASSUME TypeOK, LeadInv, UNCHANGED <<role, leads, log>>,
         IsRunning' /\ role = "leader" =>
           IsRunning /\ \A id \in Id : Known(id) => Known(id)',
         \A n \in DOMAIN queue' : \E m \in DOMAIN queue :
           calls'[queue'[n]].id = calls[queue[m]].id
  PROVE  LeadInv'
<1> USE DEF LeadInv
<1>1. LeadsAreCounted' /\ OncePerLeadership'
  BY DEF LeadsAreCounted, OncePerLeadership
<1>2. SUFFICES ASSUME role = "leader", leads # 0,
                      NEW k \in DOMAIN log, log[k].lead = leads
               PROVE  /\ IsRunning' => Known(log[k].id)'
                      /\ \A n \in DOMAIN queue' : calls'[queue'[n]].id # log[k].id
  BY <1>1 DEF AppendedIsKnown
<1>3. PICK id : id = log[k].id
  OBVIOUS
<1>4. id \in Id /\ log' = log
  BY <1>3, Fields DEF Entry
<1>5. (IsRunning => Known(id)) /\ \A n \in DOMAIN queue : calls[queue[n]].id # id
  BY <1>2, <1>3 DEF AppendedIsKnown
<1>6. (IsRunning' => Known(id)') /\ \A n \in DOMAIN queue' : calls'[queue'[n]].id # id
  BY <1>2, <1>4, <1>5
<1> QED
  BY <1>3, <1>4, <1>6 DEF Known

\* A new call is queued only when its ID is not known.
LEMMA ProposeKeepsLeadInv ==
  ASSUME TypeOK, LeadInv, NEW id \in Id, NEW bytes \in Bytes, NEW timed \in BOOLEAN,
         Propose(id, bytes, timed)
  PROVE  LeadInv'
<1>1. UNCHANGED <<mode, healthy, role, leads, log, completed>>
  BY DEF Propose, consensus
<1>2. PICK promise \in 0 .. MaxCalls, answer \in {Waiting} \cup Results \cup Errors :
        /\ Asked(id, bytes, timed, promise, answer)
        /\ \/ AnswersAtOnce(id, promise, answer)
           \/ Joins(id, promise, answer)
           \/ Queues(id, promise, answer)
  BY ProposeCases DEF Proposes
<1>3. PICK new : new = Len(calls) + 1
  OBVIOUS
<1>4. /\ \A n \in DOMAIN calls : calls'[n] = calls[n]
      /\ calls'[new].id = id
  BY <1>2, <1>3, AskedFields
<1>5. \A n \in DOMAIN queue : calls'[queue[n]].id = calls[queue[n]].id
  BY <1>4, Fields
<1>6. CASE AnswersAtOnce(id, promise, answer) \/ Joins(id, promise, answer)
  <2>1. UNCHANGED <<queue, pending>>
    BY <1>6 DEF AnswersAtOnce, Joins
  <2>2. \A other \in Id : Known(other) => Known(other)'
    BY <1>1, <2>1 DEF Known
  <2> QED
    BY <1>1, <1>5, <2>1, <2>2, SameLogKeepsLead DEF IsRunning
<1>7. CASE Queues(id, promise, answer)
  <2>1. /\ Remembered(id) = {} /\ pending[id] = Nobody
        /\ pending' = [pending EXCEPT ![id] = new] /\ queue' = Append(queue, new)
    BY <1>3, <1>7 DEF Queues
  <2>2. \A n \in DOMAIN queue' : \/ n \in DOMAIN queue /\ queue'[n] = queue[n]
                                 \/ queue'[n] = new
    BY <2>1, Fields, AppendProperties
  <2>3. ~Known(id)
    BY <2>1, RememberedAt DEF Known
  <2>4. \A other \in Id : other # id /\ Known(other) => Known(other)'
    BY <1>1, <2>1, Fields DEF Known
  <2>5. LeadsAreCounted' /\ OncePerLeadership'
    BY <1>1 DEF LeadInv, LeadsAreCounted, OncePerLeadership
  <2>6. ASSUME role = "leader", leads # 0, NEW k \in DOMAIN log, log[k].lead = leads
        PROVE  /\ Known(log[k].id)'
               /\ \A n \in DOMAIN queue' : calls'[queue'[n]].id # log[k].id
    <3>1. PICK other : other = log[k].id
      OBVIOUS
    <3>2. other \in Id /\ log' = log
      BY <1>1, <3>1, Fields DEF Entry
    <3>3. IsRunning
      BY <1>7 DEF Queues
    <3>4. Known(other) /\ \A n \in DOMAIN queue : calls[queue[n]].id # other
      BY <2>6, <3>1, <3>3 DEF LeadInv, AppendedIsKnown
    <3>5. other # id
      BY <2>3, <3>4
    <3>6. Known(other)' /\ \A n \in DOMAIN queue' : calls'[queue'[n]].id # other
      BY <1>4, <1>5, <2>2, <2>4, <3>2, <3>4, <3>5
    <3> QED
      BY <3>1, <3>2, <3>6 DEF Known
  <2>7. AppendedIsKnown'
    BY <1>1, <2>6 DEF AppendedIsKnown
  <2> QED
    BY <2>5, <2>7 DEF LeadInv
<1> QED
  BY <1>2, <1>6, <1>7

LEMMA TimeoutKeepsLeadInv ==
  ASSUME TypeOK, LeadInv, NEW call \in DOMAIN calls, Timeout(call)
  PROVE  LeadInv'
<1>1. UNCHANGED <<mode, healthy, role, leads, log, queue, pending, completed>>
  BY DEF Timeout, AfterTimeout, consensus
<1>2. \A n \in DOMAIN calls : calls'[n].id = calls[n].id
  <2>1. \A n \in DOMAIN calls : calls[n] \in Call
    BY Fields
  <2> QED
    BY <2>1 DEF Timeout, Call
<1>3. \A n \in DOMAIN queue : calls'[queue[n]].id = calls[queue[n]].id
  BY <1>2, Fields
<1>4. \A id \in Id : Known(id) => Known(id)'
  BY <1>1 DEF Known
<1> QED
  BY <1>1, <1>3, <1>4, SameLogKeepsLead DEF IsRunning

\* A proposal becomes the only entry of its ID in this leadership.
LEMMA AppendKeepsLeadInv ==
  ASSUME AnswerInv, OwedInv, LeadInv, RunProposal, AppendEntry(queue[1]),
         \A n \in DOMAIN calls : calls'[n].id = calls[n].id,
         IsRunning' => IsRunning /\ UNCHANGED pending
  PROVE  LeadInv'
<1> USE DEF LeadInv
<1>1. PICK call : call = queue[1]
  OBVIOUS
<1>2. PICK id, new : id = calls[call].id /\ new = Len(log) + 1
  OBVIOUS
<1>3. /\ TypeOK /\ call \in DOMAIN calls /\ 1 \in DOMAIN queue
      /\ UNCHANGED <<role, leads, completed>>
      /\ \A k \in DOMAIN queue' :
           k + 1 \in DOMAIN queue /\ k + 1 # 1 /\ queue'[k] = queue[k + 1]
  BY <1>1, RunProposalFields DEF AnswerInv
<1>4. /\ role = "leader" /\ new \notin DOMAIN log
      /\ \A k \in DOMAIN log' : k \in DOMAIN log \/ k = new
      /\ \A k \in DOMAIN log : log'[k] = log[k]
      /\ log'[new].id = id /\ log'[new].lead = leads
  <2>1. /\ role = "leader" /\ DOMAIN log' = 1 .. Len(log) + 1
        /\ \A k \in DOMAIN log : k \in DOMAIN log' /\ log'[k] = log[k]
        /\ log'[Len(log) + 1].id = calls[call].id
        /\ log'[Len(log) + 1].lead = leads
    BY <1>1, <1>3, AppendFields
  <2>2. DOMAIN log = 1 .. Len(log) /\ Len(log) \in Nat
    BY <1>3, Fields
  <2> QED
    BY <1>2, <2>1, <2>2
<1>5. leads \in Nat /\ \A k \in DOMAIN log : log[k].lead \in Nat
  BY <1>3, Fields, Bounds DEF TypeOK, Entry
<1>6. id \in Id /\ pending \in [Id -> DOMAIN calls \cup {Nobody}] /\ Nobody \notin DOMAIN calls
  BY <1>2, <1>3, Fields
<1>7. IsRunning => Known(id)
  BY <1>1, <1>2, <1>3, <1>6 DEF OwedInv, QueueIsOwed, Known
<1>8. \A k \in DOMAIN log : leads # 0 /\ log[k].lead = leads => log[k].id # id
  BY <1>1, <1>2, <1>3, <1>4 DEF AppendedIsKnown
<1>9. LeadsAreCounted'
  BY <1>3, <1>4, <1>5 DEF LeadsAreCounted
<1>10. OncePerLeadership'
  BY <1>4, <1>8 DEF OncePerLeadership
<1>11. \A n \in DOMAIN queue' : /\ queue'[n] \in DOMAIN calls
                                  /\ calls'[queue'[n]].id = calls[queue'[n]].id
                                  /\ calls[queue'[n]].id # id
  BY <1>1, <1>2, <1>3, Fields DEF OwedInv, QueuedOnce
<1>12. IsRunning' => \A other \in Id : Known(other) => Known(other)'
  BY <1>3 DEF Known
<1>13. AppendedIsKnown'
  <2>1. ASSUME leads # 0, NEW k \in DOMAIN log', log'[k].lead = leads,
               NEW other, other = log'[k].id
        PROVE  /\ IsRunning' => Known(other)'
               /\ \A n \in DOMAIN queue' : calls'[queue'[n]].id # other
    <3>1. CASE k = new
      <4>1. other = id
        BY <1>4, <2>1, <3>1
      <4>2. IsRunning' => Known(other)'
        BY <1>6, <1>7, <1>12, <4>1
      <4> QED
        BY <1>11, <4>1, <4>2
    <3>2. CASE k \in DOMAIN log
      <4>1. /\ IsRunning => Known(log[k].id)
            /\ \A n \in DOMAIN queue : calls[queue[n]].id # log[k].id
        BY <1>3, <1>4, <2>1, <3>2 DEF AppendedIsKnown
      <4>2. other = log[k].id /\ other \in Id
        BY <1>3, <1>4, <2>1, <3>2, Fields DEF Entry
      <4>3. IsRunning' => Known(other)'
        BY <1>12, <4>1, <4>2 DEF Known
      <4>4. \A n \in DOMAIN queue' : calls'[queue'[n]].id # other
        BY <1>3, <1>11, <4>1, <4>2
      <4> QED
        BY <4>3, <4>4
    <3> QED
      BY <1>4, <3>1, <3>2
  <2>2. leads # 0 => \A k \in DOMAIN log' : log'[k].lead = leads =>
          /\ IsRunning' => \/ pending'[log'[k].id] # Nobody
                           \/ \E l \in DOMAIN completed' : completed'[l].id = log'[k].id
          /\ \A n \in DOMAIN queue' : calls'[queue'[n]].id # log'[k].id
    BY <2>1 DEF Known
  <2> QED
    BY <1>3, <2>2 DEF AppendedIsKnown, Known
<1> QED
  BY <1>9, <1>10, <1>13

\* Applying an entry of an ID replaces what is pending for it by its result.
LEMMA ApplyKeepsLeadInv ==
  ASSUME NothingForgotten, AnswerInv, LeadInv, Apply
  PROVE  LeadInv'
<1>1. PICK e : e = log[applied + 1]
  OBVIOUS
<1>2. /\ UNCHANGED <<mode, healthy, role, leads, log, queue>>
      /\ e.id \in Id /\ Result(e.bytes) \in Results
      /\ Settle({pending[e.id]} \ {Nobody}, Result(e.bytes))
      /\ pending' = [pending EXCEPT ![e.id] = Nobody]
  BY <1>1, ApplyFields DEF AnswerInv
<1>3. \A n \in DOMAIN calls : calls'[n].id = calls[n].id
  BY <1>2, StillWaits DEF AnswerInv
<1>4. \A n \in DOMAIN queue : calls'[queue[n]].id = calls[queue[n]].id
  BY <1>3, Fields DEF AnswerInv
<1>5. /\ \A k \in DOMAIN completed :
           \E l \in DOMAIN completed' : completed'[l].id = completed[k].id
      /\ \E l \in DOMAIN completed' : completed'[l].id = e.id
  BY <1>1, RememberedStays DEF AnswerInv
<1>6. \A id \in Id : id # e.id => pending'[id] = pending[id]
  BY <1>2, Fields DEF AnswerInv
<1>7. \A id \in Id : Known(id) => Known(id)'
  BY <1>5, <1>6 DEF Known
<1> QED
  BY <1>2, <1>4, <1>7, SameLogKeepsLead DEF AnswerInv, IsRunning

\* No entry is of the leadership that begins.
LEMMA ElectionKeepsLeadInv ==
  ASSUME TypeOK, LeadInv, WinElection \/ LoseLeadership
  PROVE  LeadInv'
<1>1. /\ UNCHANGED <<log, mode, healthy, calls, queue, pending, completed>> /\ leads \in Nat
      /\ \/ role' = "leader" /\ leads' = leads + 1
         \/ role' = "follower" /\ leads' = leads
  BY ElectionFields
<1>2. \A k \in DOMAIN log : log[k].lead \in Nat /\ log[k].lead <= leads
  BY Fields, Bounds DEF LeadInv, LeadsAreCounted, Entry
<1>3. LeadsAreCounted'
  BY <1>1, <1>2 DEF LeadsAreCounted
<1>4. AppendedIsKnown'
  BY <1>1, <1>2 DEF AppendedIsKnown
<1>5. OncePerLeadership'
  BY <1>1 DEF LeadInv, OncePerLeadership
<1> QED
  BY <1>3, <1>4, <1>5 DEF LeadInv

LEMMA ReceiveKeepsLeadInv ==
  ASSUME TypeOK, LeadInv, ReceiveEntry
  PROVE  LeadInv'
<1>1. /\ role' = "follower" /\ leads' = leads
      /\ \A k \in DOMAIN log' : \/ k \in DOMAIN log /\ log'[k] = log[k]
                                \/ k = Len(log') /\ log'[k].lead = 0
  <2>1. /\ role = "follower" /\ UNCHANGED <<role, leads>>
        /\ log' \in Seq(Entry)
        /\ DOMAIN log' = 1 .. Len(log') /\ Len(log') - 1 <= Len(log)
        /\ \A k \in 1 .. Len(log') - 1 : log'[k] = log[k]
        /\ log'[Len(log')].lead = 0
    BY ReceiveFields
  <2>2. Len(log') \in Nat /\ DOMAIN log = 1 .. Len(log) /\ Len(log) \in Nat
    BY <2>1, Fields
  <2> QED
    BY <2>1, <2>2
<1>2. leads \in Nat
  BY Bounds DEF TypeOK
<1>3. LeadsAreCounted'
  BY <1>1, <1>2 DEF LeadInv, LeadsAreCounted
<1>4. AppendedIsKnown'
  BY <1>1 DEF AppendedIsKnown
<1>5. OncePerLeadership'
  BY <1>1 DEF LeadInv, OncePerLeadership
<1> QED
  BY <1>3, <1>4, <1>5 DEF LeadInv

LEMMA LeadInvStable ==
  ASSUME NothingForgotten, AnswerInv, OwedInv, LeadInv, [Next]_vars
  PROVE  LeadInv'
<1>1. TypeOK
  BY DEF AnswerInv
<1>2. ASSUME NEW name \in {"StateMachineError", "NodeStoppedError", "StorageError"},
             RejectAll(name)
      PROVE  \A n \in DOMAIN calls : calls'[n].id = calls[n].id
  BY <1>1, <1>2, StillWaits, ErrorsAreErrors DEF RejectAll
<1>3. ASSUME NEW name \in {"StateMachineError", "NodeStoppedError", "StorageError"},
             RejectAll(name), UNCHANGED <<role, leads, log, queue>>, ~IsRunning'
      PROVE  LeadInv'
  <2>1. \A n \in DOMAIN queue : calls'[queue[n]].id = calls[queue[n]].id
    BY <1>1, <1>2, <1>3, Fields
  <2> QED
    BY <1>1, <1>3, <2>1, SameLogKeepsLead
<1>4. CASE ApplyFails \/ PersistFails \/ Stop
  BY <1>3, <1>4 DEF ApplyFails, PersistFails, Stop, Fail, IsRunning, consensus
<1>5. CASE Close
  BY <1>1, <1>5, SameLogKeepsLead DEF Close, IsRunning, consensus, client
<1>6. CASE RunProposal
  <2>1. CASE Accepted(queue[1])
    BY <1>6, <2>1, AppendKeepsLeadInv, RunProposalFields DEF Accepted, IsRunning, AnswerInv
  <2>2. CASE NotPersisted(queue[1])
    BY <1>2, <1>6, <2>2, AppendKeepsLeadInv DEF NotPersisted, Fail, IsRunning
  <2>3. CASE Thrown(queue[1])
    <3>1. /\ UNCHANGED <<mode, healthy, role, leads, log, completed>>
          /\ \A k \in DOMAIN queue' : k + 1 \in DOMAIN queue /\ queue'[k] = queue[k + 1]
      BY <1>1, <1>6, <2>3, RunProposalFields DEF Thrown
    <3>2. \A n \in DOMAIN calls : calls'[n].id = calls[n].id
      BY <1>1, <2>3, StillWaits, ErrorsAreErrors DEF Thrown
    <3>3. \A k \in DOMAIN queue' : calls'[queue'[k]].id = calls[queue[k + 1]].id
      BY <1>1, <3>1, <3>2, Fields
    <3>4. role = "leader" => ~IsRunning'
      BY <2>3, <3>1 DEF Thrown, IsRunning
    <3> QED
      BY <1>1, <3>1, <3>3, <3>4, SameLogKeepsLead
  <2> QED
    BY <1>1, <1>6, <2>1, <2>2, <2>3, RunProposalFields
<1>7. CASE UNCHANGED vars
  <2>1. UNCHANGED <<mode, healthy, role, leads, log, calls, queue, pending, completed>>
    BY <1>7 DEF vars, consensus, client
  <2>2. \A id \in Id : Known(id) => Known(id)'
    BY <2>1 DEF Known
  <2> QED
    BY <1>1, <2>1, <2>2, SameLogKeepsLead DEF IsRunning
<1> QED
  BY <1>1, <1>4, <1>5, <1>6, <1>7, ProposeKeepsLeadInv, TimeoutKeepsLeadInv,
     ApplyKeepsLeadInv, ElectionKeepsLeadInv, ReceiveKeepsLeadInv DEF Next

LEMMA InitLeadInv == Init => LeadInv
  BY DEF Init, LeadInv, LeadsAreCounted, AppendedIsKnown, OncePerLeadership

\* As long as no result is forgotten, one leadership appends one entry for a command ID,
\* however often the command is proposed again and whoever has timed out meanwhile: an
\* ID whose entry was appended stays in the pending map until its result is remembered
\* (docs/adr/0009-command-id-retention.md; node.ts, propose and apply).
THEOREM OneEntryPerLeadership ==
  ASSUME NothingForgotten PROVE Spec => []OncePerLeadership
<1>1. AnswerInv /\ OwedInv /\ LeadInv /\ [Next]_vars => LeadInv'
  BY LeadInvStable
<1>2. LeadInv => OncePerLeadership
  BY DEF LeadInv
<1> QED
  BY <1>1, <1>2, InitLeadInv, AnswersAreTrue, WaitsAreOwed, PTL DEF Spec
=============================================================================
