---------------------------- MODULE StorageProofs ----------------------------
(***************************************************************************)
(* Theorems about module Storage, for any candidates, terms, indexes and   *)
(* number of processes.                                                    *)
(***************************************************************************)
EXTENDS Storage, TLAPS

-----------------------------------------------------------------------------
(* The queue of microtasks                                                 *)

IsCall(op) == op \in Calls \cup {"cover"}

\* A microtask agrees with the state of its handle, on a storage of kind k whose
\* handles have the lives l and the outcomes o.
Fits(t, k, l, o) ==
    /\ l[t.handle] # "unopened"
    /\ k = "durable" => l[t.handle] # "stopped"
    /\ t.op = "close" => l[t.handle] = "closing"
    /\ t.op = "stopped" => l[t.handle] = "closed"
    /\ t.op = "cover" => k = "volatile"
    /\ IsCall(t.op) => o[t.handle] = "pending"

\* Of two microtasks of one handle at most one is a call's, neither repeats the
\* other, and on the durable storage nothing comes after the end of stop.
Apart(s, t, k) ==
    s.handle = t.handle =>
      /\ s.op # t.op
      /\ ~(IsCall(s.op) /\ IsCall(t.op))
      /\ k = "durable" => s.op # "stopped"

InOrder(q, k) == \A i, j \in DOMAIN q : i < j => Apart(q[i], q[j], k)

\* Processes open handles in turn: the newest is n, and the others have stopped.
IsNewest(n) ==
    /\ n \in Handle
    /\ \A h \in Handle : (life[h] # "unopened" <=> h <= n) /\ (h < n => life[h] = "stopped")
    /\ kind = "volatile" => n = 1

QueueInv ==
    /\ kind \in {"volatile", "durable"}
    /\ tasks \in Seq(Task)
    /\ life \in [Handle -> {"unopened", "open", "closing", "closed", "stopped"}]
    /\ outcome \in [Handle -> {"pending", "done", "refused"}]
    /\ \E n \in Handle : IsNewest(n)
    /\ \A i \in DOMAIN tasks : Fits(tasks[i], kind, life, outcome)
    /\ InOrder(tasks, kind)

LEMMA TailElements ==
  ASSUME NEW q \in Seq(Task), q # <<>>
  PROVE  /\ Tail(q) \in Seq(Task) /\ Head(q) \in Task /\ Head(q) = q[1] /\ 1 \in DOMAIN q
         /\ \A i \in DOMAIN Tail(q) :
              /\ i \in Nat /\ i > 0
              /\ i + 1 \in DOMAIN q /\ Tail(q)[i] = q[i + 1]
  OBVIOUS

LEMMA AppendElements ==
  ASSUME NEW q \in Seq(Task), NEW t \in Task
  PROVE  /\ Append(q, t) \in Seq(Task)
         /\ \A i \in DOMAIN Append(q, t) :
              \/ i \in DOMAIN q /\ Append(q, t)[i] = q[i]
              \/ i = Len(q) + 1 /\ Append(q, t)[i] = t
         /\ DOMAIN q = 1 .. Len(q) /\ Len(q) \in Nat
  OBVIOUS

LEMMA TailInOrder ==
  ASSUME NEW q \in Seq(Task), q # <<>>, InOrder(q, kind)
  PROVE  InOrder(Tail(q), kind) /\ \A i \in DOMAIN Tail(q) : Apart(Head(q), Tail(q)[i], kind)
<1>1. /\ Tail(q) \in Seq(Task) /\ Head(q) = q[1] /\ 1 \in DOMAIN q
      /\ \A i \in DOMAIN Tail(q) :
           i \in Nat /\ i > 0 /\ i + 1 \in DOMAIN q /\ Tail(q)[i] = q[i + 1]
  BY TailElements
<1>2. InOrder(Tail(q), kind)
  <2> SUFFICES ASSUME NEW i \in DOMAIN Tail(q), NEW j \in DOMAIN Tail(q), i < j
               PROVE  Apart(Tail(q)[i], Tail(q)[j], kind)
    BY DEF InOrder
  <2>1. i + 1 \in DOMAIN q /\ j + 1 \in DOMAIN q /\ i + 1 < j + 1
    BY <1>1
  <2> QED
    BY <1>1, <2>1 DEF InOrder
<1>3. ASSUME NEW i \in DOMAIN Tail(q)
      PROVE  Apart(Head(q), Tail(q)[i], kind)
  <2>1. i + 1 \in DOMAIN q /\ 1 < i + 1
    BY <1>1
  <2> QED
    BY <1>1, <2>1 DEF InOrder
<1> QED
  BY <1>2, <1>3

LEMMA AppendInOrder ==
  ASSUME NEW q \in Seq(Task), NEW t \in Task, InOrder(q, kind),
         \A i \in DOMAIN q : Apart(q[i], t, kind)
  PROVE  InOrder(Append(q, t), kind)
<1> SUFFICES ASSUME NEW i \in DOMAIN Append(q, t), NEW j \in DOMAIN Append(q, t), i < j
             PROVE  Apart(Append(q, t)[i], Append(q, t)[j], kind)
  BY DEF InOrder
<1>1. /\ (i \in DOMAIN q /\ Append(q, t)[i] = q[i]) \/ i = Len(q) + 1
      /\ \/ j \in DOMAIN q /\ Append(q, t)[j] = q[j]
         \/ j = Len(q) + 1 /\ Append(q, t)[j] = t
      /\ DOMAIN q = 1 .. Len(q) /\ Len(q) \in Nat
  BY AppendElements
<1>2. i \in DOMAIN q /\ Append(q, t)[i] = q[i]
  BY <1>1
<1> QED
  BY <1>1, <1>2 DEF InOrder

LEMMA NewestIs ==
  ASSUME NEW n, IsNewest(n)
  PROVE  Newest = n
<1> DEFINE Opened == {h \in Handle : life[h] # "unopened"}
<1>1. n \in Opened /\ n \in Nat /\ \A h \in Opened : h \in Nat /\ h <= n
  BY StorageBounds DEF IsNewest, Handle
<1>2. ASSUME NEW m \in Opened, \A h \in Opened : m >= h
      PROVE  m = n
  BY <1>1, <1>2
<1>3. \A h \in Opened : n >= h
  BY <1>1
<1>4. Max(Opened) = n
  BY <1>1, <1>2, <1>3 DEF Max
<1> QED
  BY <1>4 DEF Newest

\* The microtask that runs is of the newest handle.
LEMMA OneRuns ==
  ASSUME QueueInv, NEW h \in Handle, NEW op, IsNext(op, h)
  PROVE  h = Newest /\ IsNewest(h)
<1>1. PICK n \in Handle : IsNewest(n)
  BY DEF QueueInv
<1>2. Head(tasks) = tasks[1] /\ 1 \in DOMAIN tasks /\ Head(tasks).handle = h
  BY TailElements DEF QueueInv, IsNext
<1>3. life[h] # "unopened" /\ (kind = "durable" => life[h] # "stopped")
  BY <1>2 DEF QueueInv, Fits
<1>4. h <= n /\ (kind = "durable" => ~(h < n)) /\ (kind = "volatile" => n = 1)
  BY <1>1, <1>3 DEF IsNewest
<1>5. h \in Nat /\ h >= 1 /\ n \in Nat /\ kind \in {"volatile", "durable"}
  BY StorageBounds DEF Handle, QueueInv
<1>6. h = n
  BY <1>4, <1>5
<1> QED
  BY <1>1, <1>6, NewestIs

LEMMA QueueStart ==
  ASSUME Init
  PROVE  QueueInv
<1>1. 1 \in Handle /\ \A h \in Handle : h \in Nat /\ h >= 1
  BY StorageBounds DEF Handle
<1>2. IsNewest(1)
  BY <1>1 DEF Init, IsNewest
<1> QED
  BY <1>1, <1>2 DEF Init, QueueInv, InOrder

\* The head has gone, its handle is settled or in another state, and the rest fits.
LEMMA HeadRuns ==
  ASSUME QueueInv, NEW h \in Handle, NEW op, IsNext(op, h)
  PROVE  /\ Tail(tasks) \in Seq(Task) /\ InOrder(Tail(tasks), kind)
         /\ Head(tasks) \in Task /\ Fits(Head(tasks), kind, life, outcome)
         /\ \A i \in DOMAIN Tail(tasks) :
              /\ Tail(tasks)[i] \in Task
              /\ Fits(Tail(tasks)[i], kind, life, outcome)
              /\ Apart(Head(tasks), Tail(tasks)[i], kind)
<1>1. tasks \in Seq(Task) /\ tasks # <<>> /\ InOrder(tasks, kind)
  BY DEF QueueInv, IsNext
<1>2. /\ Tail(tasks) \in Seq(Task) /\ Head(tasks) \in Task
      /\ Head(tasks) = tasks[1] /\ 1 \in DOMAIN tasks
      /\ \A i \in DOMAIN Tail(tasks) : i + 1 \in DOMAIN tasks /\ Tail(tasks)[i] = tasks[i + 1]
  BY <1>1, TailElements
<1>3. /\ InOrder(Tail(tasks), kind)
      /\ \A i \in DOMAIN Tail(tasks) : Apart(Head(tasks), Tail(tasks)[i], kind)
  BY <1>1, TailInOrder
<1>4. /\ Fits(Head(tasks), kind, life, outcome)
      /\ \A i \in DOMAIN Tail(tasks) : Fits(Tail(tasks)[i], kind, life, outcome)
  BY <1>2 DEF QueueInv
<1>5. \A i \in DOMAIN Tail(tasks) : Tail(tasks)[i] \in Task
  BY <1>1, <1>2
<1> QED
  BY <1>2, <1>3, <1>4, <1>5

\* A queue with one more microtask at its end, which keeps apart from the others.
LEMMA OneMore ==
  ASSUME NEW q \in Seq(Task), NEW t \in Task, InOrder(q, kind),
         \A i \in DOMAIN q : Fits(q[i], kind', life', outcome') /\ Apart(q[i], t, kind),
         Fits(t, kind', life', outcome'), kind' = kind
  PROVE  /\ Append(q, t) \in Seq(Task)
         /\ InOrder(Append(q, t), kind')
         /\ \A i \in DOMAIN Append(q, t) : Fits(Append(q, t)[i], kind', life', outcome')
<1>1. InOrder(Append(q, t), kind)
  BY AppendInOrder
<1>2. InOrder(Append(q, t), kind')
  BY <1>1 DEF InOrder, Apart
<1>3. /\ Append(q, t) \in Seq(Task)
      /\ \A i \in DOMAIN Append(q, t) :
           (i \in DOMAIN q /\ Append(q, t)[i] = q[i]) \/ Append(q, t)[i] = t
  BY AppendElements
<1> QED
  BY <1>2, <1>3

LEMMA TaskFields ==
  /\ \A t \in Task : t.handle \in Handle
  /\ \A op \in Calls \cup {"cover", "close", "stopped"}, h \in Handle :
       Microtask(op, h) \in Task /\ Microtask(op, h).op = op /\ Microtask(op, h).handle = h
  /\ \A op \in Calls \cup {"cover"} : IsCall(op) /\ op \notin {"close", "stopped"}
  /\ ~IsCall("close") /\ ~IsCall("stopped")
  BY DEF Task, Microtask, IsCall, Calls, Writes

\* The call at the head ends.
LEMMA CallEnds ==
  ASSUME QueueInv, NEW h \in Handle, NEW op \in Calls \cup {"cover"}, IsNext(op, h),
         NEW r \in {"done", "refused"}, tasks' = Tail(tasks),
         outcome' = [outcome EXCEPT ![h] = r], UNCHANGED <<kind, life>>
  PROVE  QueueInv'
<1>1. /\ tasks' \in Seq(Task) /\ InOrder(Tail(tasks), kind)
      /\ \A i \in DOMAIN tasks' : /\ tasks'[i] \in Task /\ Fits(tasks'[i], kind, life, outcome)
                                  /\ Apart(Head(tasks), tasks'[i], kind)
  BY HeadRuns
<1>2. InOrder(tasks', kind')
  BY <1>1 DEF InOrder, Apart
<1>3. ASSUME NEW i \in DOMAIN tasks'
      PROVE  Fits(tasks'[i], kind', life', outcome')
  <2>0. IsCall(op) /\ Head(tasks).op = op /\ Head(tasks).handle = h
    BY DEF IsCall, IsNext
  <2>1. IsCall(tasks'[i].op) => tasks'[i].handle # h
    <3> DEFINE t == tasks'[i]
    <3>1. Apart(Head(tasks), t, kind)
      BY <1>1
    <3> HIDE DEF t
    <3> QED
      BY <2>0, <3>1 DEF Apart, t
  <2>2. IsCall(tasks'[i].op) => outcome'[tasks'[i].handle] = "pending"
    BY <1>1, <2>1, TaskFields DEF Fits, QueueInv
  <2> QED
    BY <1>1, <2>2 DEF Fits
<1>4. outcome' \in [Handle -> {"pending", "done", "refused"}]
  BY DEF QueueInv
<1>5. \E n \in Handle : IsNewest(n)'
  BY DEF QueueInv, IsNewest
<1> QED
  BY <1>1, <1>2, <1>3, <1>4, <1>5 DEF QueueInv

LEMMA CallQueues ==
  ASSUME QueueInv, NEW h \in Handle, NEW op \in Calls, Call(h, op)
  PROVE  QueueInv'
<1> DEFINE t == Microtask(op, h)
<1>1. UNCHANGED <<kind, life>> /\ outcome[h] # "pending" /\ life[h] # "unopened"
  BY DEF Call
<1>2. /\ t \in Task /\ t.op = op /\ t.handle = h
      /\ IsCall(op) /\ op \notin {"close", "stopped", "cover"}
  BY TaskFields DEF Calls, Writes
<1> HIDE DEF t
<1>3. \A i \in DOMAIN tasks :
        /\ tasks[i] \in Task /\ tasks[i].handle \in Handle
        /\ Fits(tasks[i], kind, life, outcome)
  BY TaskFields DEF QueueInv
<1>4. outcome' \in [Handle -> {"pending", "done", "refused"}]
  BY DEF QueueInv, Call
<1>5. \A i \in DOMAIN tasks : Fits(tasks[i], kind', life', outcome')
  BY <1>1, <1>3 DEF Fits, Call, QueueInv
<1>6. \E n \in Handle : IsNewest(n)'
  BY <1>1 DEF QueueInv, IsNewest
<1>7. CASE IsOpen(h)
  <2>1. tasks' = Append(tasks, t) /\ outcome'[h] = "pending"
    BY <1>7 DEF Call, QueueInv, t
  <2>2. Fits(t, kind', life', outcome')
    BY <1>1, <1>2, <1>7, <2>1 DEF Fits, IsOpen
  <2>3. \A i \in DOMAIN tasks : Apart(tasks[i], t, kind)
    BY <1>1, <1>2, <1>3, <1>7 DEF Apart, Fits, IsOpen
  <2>4. /\ tasks' \in Seq(Task) /\ InOrder(tasks', kind')
        /\ \A i \in DOMAIN tasks' : Fits(tasks'[i], kind', life', outcome')
    BY <1>1, <1>2, <1>5, <2>1, <2>2, <2>3, OneMore DEF QueueInv
  <2> QED
    BY <1>1, <1>4, <1>6, <2>4 DEF QueueInv
<1>8. CASE ~IsOpen(h)
  <2>1. tasks' = tasks
    BY <1>8 DEF Call
  <2>2. InOrder(tasks', kind')
    BY <1>1, <2>1 DEF QueueInv, InOrder, Apart
  <2> QED
    BY <1>1, <1>4, <1>5, <1>6, <2>1, <2>2 DEF QueueInv
<1> QED
  BY <1>7, <1>8

LEMMA CloseQueues ==
  ASSUME QueueInv, NEW h \in Handle, Close(h)
  PROVE  QueueInv'
<1> DEFINE t == Microtask("close", h)
<1>1. /\ UNCHANGED <<kind, outcome>> /\ life[h] = "open"
      /\ life' = [life EXCEPT ![h] = "closing"] /\ tasks' = Append(tasks, t)
  BY DEF Close
<1>2. t \in Task /\ t.op = "close" /\ t.handle = h /\ ~IsCall("close")
  BY TaskFields
<1> HIDE DEF t
<1>3. \A i \in DOMAIN tasks :
        /\ tasks[i] \in Task /\ tasks[i].handle \in Handle
        /\ Fits(tasks[i], kind, life, outcome)
  BY TaskFields DEF QueueInv
<1>4. life' \in [Handle -> {"unopened", "open", "closing", "closed", "stopped"}]
  BY <1>1 DEF QueueInv
<1>5. \A i \in DOMAIN tasks : Fits(tasks[i], kind', life', outcome')
  BY <1>1, <1>3 DEF Fits, QueueInv
<1>6. \E n \in Handle : IsNewest(n)'
  BY <1>1 DEF QueueInv, IsNewest
<1>7. Fits(t, kind', life', outcome')
  BY <1>1, <1>2 DEF Fits, QueueInv
<1>8. \A i \in DOMAIN tasks : Apart(tasks[i], t, kind)
  BY <1>1, <1>2, <1>3 DEF Apart, Fits
<1>9. /\ tasks' \in Seq(Task) /\ InOrder(tasks', kind')
      /\ \A i \in DOMAIN tasks' : Fits(tasks'[i], kind', life', outcome')
  BY <1>1, <1>2, <1>5, <1>7, <1>8, OneMore DEF QueueInv
<1> QED
  BY <1>1, <1>4, <1>6, <1>9 DEF QueueInv

LEMMA OpenQueues ==
  ASSUME QueueInv, NEW h \in Handle, Open(h)
  PROVE  QueueInv'
<1>1. /\ UNCHANGED <<kind, outcome, tasks>> /\ kind = "durable" /\ h > 1
      /\ life[h] = "unopened" /\ life[h - 1] = "stopped" /\ life' = [life EXCEPT ![h] = "open"]
  BY DEF Open
<1>2. \A i \in DOMAIN tasks : tasks[i].handle \in Handle /\ Fits(tasks[i], kind, life, outcome)
  BY TaskFields DEF QueueInv
<1>3. \A i \in DOMAIN tasks : Fits(tasks[i], kind', life', outcome')
  BY <1>1, <1>2 DEF Fits, QueueInv
<1>4. InOrder(tasks', kind')
  BY <1>1 DEF QueueInv, InOrder, Apart
<1>5. PICK n \in Handle : IsNewest(n)
  BY DEF QueueInv
<1>6. h \in Nat /\ n \in Nat /\ h - 1 \in Handle /\ \A g \in Handle : g \in Nat
  BY <1>1, StorageBounds DEF Handle
<1>7. h = n + 1
  BY <1>1, <1>5, <1>6 DEF IsNewest
<1>8. \A g \in Handle : (life'[g] # "unopened" <=> g <= h) /\ (g < h => life'[g] = "stopped")
  <2> SUFFICES ASSUME NEW g \in Handle
               PROVE  (life'[g] # "unopened" <=> g <= h) /\ (g < h => life'[g] = "stopped")
    OBVIOUS
  <2>1. CASE g = h
    BY <2>1, <1>1, <1>6 DEF QueueInv
  <2>2. CASE g = n
    BY <2>2, <1>1, <1>5, <1>6, <1>7 DEF QueueInv, IsNewest
  <2>3. CASE g # h /\ g # n
    BY <2>3, <1>1, <1>5, <1>6, <1>7 DEF QueueInv, IsNewest
  <2> QED
    BY <2>1, <2>2, <2>3
<1>9. IsNewest(h)'
  BY <1>1, <1>8 DEF IsNewest
<1> QED
  BY <1>1, <1>3, <1>4, <1>9 DEF QueueInv

LEMMA CloseRuns ==
  ASSUME QueueInv, NEW h \in Handle, RunClose(h)
  PROVE  QueueInv'
<1> DEFINE t == Microtask("stopped", h)
<1>1. /\ UNCHANGED <<kind, outcome>> /\ IsNext("close", h)
      /\ life' = [life EXCEPT ![h] = "closed"] /\ tasks' = Append(Tail(tasks), t)
  BY DEF RunClose
<1>2. t \in Task /\ t.op = "stopped" /\ t.handle = h /\ ~IsCall("stopped")
  BY TaskFields
<1> HIDE DEF t
<1>3. /\ Tail(tasks) \in Seq(Task) /\ InOrder(Tail(tasks), kind)
      /\ Fits(Head(tasks), kind, life, outcome)
      /\ \A i \in DOMAIN Tail(tasks) :
           /\ Tail(tasks)[i] \in Task /\ Tail(tasks)[i].handle \in Handle
           /\ Fits(Tail(tasks)[i], kind, life, outcome)
           /\ Apart(Head(tasks), Tail(tasks)[i], kind)
  BY <1>1, HeadRuns, TaskFields
<1>4. Head(tasks).op = "close" /\ Head(tasks).handle = h /\ life[h] = "closing"
  BY <1>1, <1>3 DEF IsNext, Fits
<1>5. life' \in [Handle -> {"unopened", "open", "closing", "closed", "stopped"}]
  BY <1>1 DEF QueueInv
<1>6. \E n \in Handle : IsNewest(n)'
  BY <1>1, <1>4 DEF QueueInv, IsNewest
<1>7. \A i \in DOMAIN Tail(tasks) : Fits(Tail(tasks)[i], kind', life', outcome')
  BY <1>1, <1>3, <1>4 DEF Fits, Apart, QueueInv
<1>8. Fits(t, kind', life', outcome')
  BY <1>1, <1>2 DEF Fits, QueueInv
<1>9. \A i \in DOMAIN Tail(tasks) : Apart(Tail(tasks)[i], t, kind)
  BY <1>2, <1>3, <1>4 DEF Apart, Fits
<1>10. /\ tasks' \in Seq(Task) /\ InOrder(tasks', kind')
       /\ \A i \in DOMAIN tasks' : Fits(tasks'[i], kind', life', outcome')
  BY <1>1, <1>2, <1>3, <1>7, <1>8, <1>9, OneMore
<1> QED
  BY <1>1, <1>5, <1>6, <1>10 DEF QueueInv

LEMMA StopEnds ==
  ASSUME QueueInv, NEW h \in Handle, RunStopped(h)
  PROVE  QueueInv'
<1>1. /\ UNCHANGED <<kind, outcome>> /\ IsNext("stopped", h)
      /\ life' = [life EXCEPT ![h] = "stopped"] /\ tasks' = Tail(tasks)
  BY DEF RunStopped
<1>2. /\ tasks' \in Seq(Task) /\ InOrder(Tail(tasks), kind)
      /\ Fits(Head(tasks), kind, life, outcome)
      /\ \A i \in DOMAIN tasks' :
           /\ tasks'[i] \in Task /\ tasks'[i].handle \in Handle
           /\ Fits(tasks'[i], kind, life, outcome)
           /\ Apart(Head(tasks), tasks'[i], kind)
  BY <1>1, HeadRuns, TaskFields
<1>3. Head(tasks).op = "stopped" /\ Head(tasks).handle = h /\ life[h] = "closed"
  BY <1>1, <1>2 DEF IsNext, Fits
<1>4. life' \in [Handle -> {"unopened", "open", "closing", "closed", "stopped"}]
  BY <1>1 DEF QueueInv
<1>5. \E n \in Handle : IsNewest(n)'
  BY <1>1, <1>3 DEF QueueInv, IsNewest
<1>6. \A i \in DOMAIN tasks' : Fits(tasks'[i], kind', life', outcome')
  BY <1>1, <1>2, <1>3 DEF Fits, Apart, QueueInv
<1>7. InOrder(tasks', kind')
  BY <1>1, <1>2
<1> QED
  BY <1>1, <1>2, <1>4, <1>5, <1>6, <1>7 DEF QueueInv

\* The volatile storage goes on with a snapshot after its first turn.
LEMMA CoverQueues ==
  ASSUME QueueInv, NEW h \in Handle, IsNext("install", h), kind = "volatile",
         NEW t \in Task, t.op = "cover", t.handle = h,
         tasks' = Append(Tail(tasks), t), UNCHANGED <<kind, life, outcome>>
  PROVE  QueueInv'
<1>1. /\ Tail(tasks) \in Seq(Task) /\ InOrder(Tail(tasks), kind)
      /\ Fits(Head(tasks), kind, life, outcome)
      /\ \A i \in DOMAIN Tail(tasks) :
           /\ Tail(tasks)[i] \in Task
           /\ Fits(Tail(tasks)[i], kind, life, outcome)
           /\ Apart(Head(tasks), Tail(tasks)[i], kind)
  BY HeadRuns
<1>2. /\ Head(tasks).op = "install" /\ Head(tasks).handle = h
      /\ IsCall("install") /\ IsCall("cover")
  BY DEF IsNext, IsCall, Calls
<1>3. \A i \in DOMAIN Tail(tasks) : Fits(Tail(tasks)[i], kind', life', outcome')
  BY <1>1
<1>4. Fits(t, kind', life', outcome')
  BY <1>1, <1>2 DEF Fits
<1>5. \A i \in DOMAIN Tail(tasks) : Apart(Tail(tasks)[i], t, kind)
  BY <1>1, <1>2 DEF Apart
<1>6. /\ tasks' \in Seq(Task) /\ InOrder(tasks', kind')
      /\ \A i \in DOMAIN tasks' : Fits(tasks'[i], kind', life', outcome')
  BY <1>1, <1>3, <1>4, <1>5, OneMore
<1>7. \E n \in Handle : IsNewest(n)'
  BY DEF QueueInv, IsNewest
<1> QED
  BY <1>6, <1>7 DEF QueueInv

\* A call that runs to its end in one turn.
LEMMA RunEnds ==
  ASSUME QueueInv, NEW h \in Handle,
         RunLoad(h) \/ RunPersist(h) \/ RunInstall(h) \/ RunCover(h) \/ RunCompact(h)
  PROVE  QueueInv'
<1>1. \E op \in Calls \cup {"cover"}, r \in {"done", "refused"} :
         /\ IsNext(op, h) /\ tasks' = Tail(tasks)
         /\ outcome' = [outcome EXCEPT ![h] = r] /\ UNCHANGED <<kind, life>>
  <2>1. {"load", "install", "compact"} \subseteq Calls /\ Writes \subseteq Calls
    BY DEF Calls
  <2>2. CASE RunLoad(h)
    BY <2>1, <2>2 DEF RunLoad, Settle
  <2>3. CASE RunPersist(h)
    <3>1. PICK op \in Writes : \E batch \in Batch(op) :
            /\ IsNext(op, h) /\ tasks' = Tail(tasks) /\ UNCHANGED <<kind, life>>
            /\ \E r \in {"done", "refused"} : outcome' = [outcome EXCEPT ![h] = r]
      BY <2>3 DEF RunPersist, Settle
    <3> QED
      BY <2>1, <3>1
  <2>4. CASE RunInstall(h)
    BY <2>1, <2>4 DEF RunInstall, Settle
  <2>5. CASE RunCover(h)
    BY <2>5 DEF RunCover, Settle
  <2>6. CASE RunCompact(h)
    BY <2>1, <2>6 DEF RunCompact, Settle
  <2> QED
    BY <2>2, <2>3, <2>4, <2>5, <2>6
<1> QED
  BY <1>1, CallEnds

LEMMA SnapshotRuns ==
  ASSUME QueueInv, NEW h \in Handle, RunPersistSnapshot(h)
  PROVE  QueueInv'
<1>1. PICK snapshot \in SomeSnapshot :
        /\ kind = "volatile" /\ IsNext("install", h) /\ UNCHANGED <<kind, life>>
        /\ IF failure
             THEN tasks' = Tail(tasks) /\ Settle(h, "refused", Nil)
             ELSE /\ tasks' = Append(Tail(tasks), [op |-> "cover", handle |-> h,
                                                   index |-> snapshot.lastIncludedIndex])
                  /\ UNCHANGED outcome
  BY DEF RunPersistSnapshot
<1>2. CASE failure
  <2>1. "install" \in Calls \cup {"cover"}
    BY DEF Calls
  <2>2. tasks' = Tail(tasks) /\ outcome' = [outcome EXCEPT ![h] = "refused"]
    BY <1>1, <1>2 DEF Settle
  <2> QED
    BY <1>1, <2>1, <2>2, CallEnds
<1>3. CASE ~failure
  <2> DEFINE t == [op |-> "cover", handle |-> h, index |-> snapshot.lastIncludedIndex]
  <2>1. snapshot.lastIncludedIndex \in Nat
    BY DEF SomeSnapshot, Index
  <2>2. t \in Task /\ t.op = "cover" /\ t.handle = h
    BY <2>1 DEF Task
  <2>3. tasks' = Append(Tail(tasks), t) /\ UNCHANGED outcome
    BY <1>1, <1>3
  <2> HIDE DEF t
  <2> QED
    BY <1>1, <2>2, <2>3, CoverQueues
<1> QED
  BY <1>2, <1>3

LEMMA QueueStep ==
  ASSUME QueueInv, [Next]_vars
  PROVE  QueueInv'
<1>1. CASE UNCHANGED vars \/ FailNext
  <2>1. UNCHANGED <<kind, tasks, life, outcome>>
    BY <1>1 DEF vars, FailNext
  <2> QED
    BY <2>1 DEF QueueInv, IsNewest
<1>2. CASE \E h \in Handle : Open(h) \/ Close(h) \/ \E op \in Calls : Call(h, op)
  BY <1>2, OpenQueues, CloseQueues, CallQueues
<1>3. CASE \E h \in Handle : Run(h)
  BY <1>3, RunEnds, SnapshotRuns, CloseRuns, StopEnds DEF Run
<1> QED
  BY <1>1, <1>2, <1>3 DEF Next

-----------------------------------------------------------------------------
(* What an owner knows                                                     *)

\* What the owner of the newest handle knows is what is stored, also between calls.
OwnerInv == view = Nil \/ view = stored

LEMMA OwnerStep ==
  ASSUME QueueInv, OwnerInv, [Next]_vars
  PROVE  OwnerInv'
<1>1. CASE UNCHANGED vars \/ FailNext
  BY <1>1 DEF vars, FailNext, OwnerInv
<1>2. ASSUME NEW h \in Handle, Open(h) \/ Close(h) \/ (\E op \in Calls : Call(h, op))
      PROVE  OwnerInv'
  BY <1>2 DEF Open, Close, Call, OwnerInv
<1>3. ASSUME NEW h \in Handle, Run(h)
      PROVE  OwnerInv'
  <2>1. \A op : IsNext(op, h) => h = Newest
    BY OneRuns
  <2>2. CASE RunLoad(h)
    BY <2>1, <2>2 DEF RunLoad, Settle, OwnerInv
  <2>3. CASE RunPersist(h)
    BY <2>1, <2>3 DEF RunPersist, Settle, Known, OwnerInv
  <2>4. CASE RunInstall(h)
    BY <2>1, <2>4 DEF RunInstall, Settle, Known, OwnerInv
  <2>5. CASE RunPersistSnapshot(h)
    BY <2>1, <2>5 DEF RunPersistSnapshot, Settle, Known, OwnerInv
  <2>6. CASE RunCover(h)
    BY <2>1, <2>6 DEF RunCover, Settle, Known, OwnerInv
  <2>7. CASE RunCompact(h)
    BY <2>1, <2>7 DEF RunCompact, Settle, Known, OwnerInv
  <2>8. CASE RunClose(h) \/ RunStopped(h)
    BY <2>8 DEF RunClose, RunStopped, OwnerInv
  <2> QED
    BY <1>3, <2>2, <2>3, <2>4, <2>5, <2>6, <2>7, <2>8 DEF Run
<1> QED
  BY <1>1, <1>2, <1>3 DEF Next

-----------------------------------------------------------------------------
(* What is stored                                                          *)

\* entries holds the indexes from lo to hi, which are none when lo > hi.
IsSpan(entries, lo, hi) == lo \in Nat \ {0} /\ hi \in Nat /\ entries \in [lo .. hi -> Nat]

\* A stored state whose fields have their types.
IsTyped(s) ==
    /\ s = [hardState |-> s.hardState, entries |-> s.entries,
            snapshot |-> s.snapshot, appliedIndex |-> s.appliedIndex]
    /\ s.hardState \in HardState /\ s.snapshot \in Snapshot /\ s.appliedIndex \in Nat

\* The log has no gap, and what is applied is committed.
IsGood(s) ==
    /\ IsTyped(s)
    /\ s.appliedIndex <= s.hardState.commitIndex
    /\ \E lo, hi : IsSpan(s.entries, lo, hi)

\* The log goes on where the snapshot ends, or before, and the commit index is in it
\* or at the end of the snapshot.
IsRooted(s) ==
    LET boundary == s.snapshot.lastIncludedIndex
        commit == s.hardState.commitIndex
    IN  /\ boundary <= commit
        /\ \E lo, hi : /\ IsSpan(s.entries, lo, hi)
                       /\ lo <= hi => lo <= boundary + 1 /\ commit <= hi
                       /\ lo > hi => commit <= boundary

\* The commit index is in the log, or at most at the end of the snapshot if it is empty.
IsHeld(s) ==
    LET boundary == s.snapshot.lastIncludedIndex
        commit == s.hardState.commitIndex
    IN  \E lo, hi : /\ IsSpan(s.entries, lo, hi)
                    /\ lo <= hi => commit <= hi
                    /\ lo > hi => commit <= boundary

StoredInv ==
    /\ failure \in BOOLEAN
    /\ IsGood(stored)
    /\ kind = "durable" => IsHeld(stored)

\* A batch whose fields, where they are there, have their types.
IsBatch(batch) ==
    /\ batch.hardState = Nil \/ batch.hardState \in HardState
    /\ batch.truncateFrom = Nil \/ batch.truncateFrom \in Nat
    /\ Len(batch.entries) \in Nat
    /\ \A k \in 1 .. Len(batch.entries) : batch.entries[k].term \in Nat
    /\ batch.snapshot = Nil \/ batch.snapshot \in Snapshot
    /\ batch.appliedIndex = Nil \/ batch.appliedIndex \in Nat

LEMMA StoredFields ==
  ASSUME NEW s, IsTyped(s)
  PROVE  /\ s.hardState.currentTerm \in Nat /\ s.hardState.commitIndex \in Nat
         /\ s.hardState.votedFor \in Candidate \cup {Nil}
         /\ s.hardState = [currentTerm |-> s.hardState.currentTerm,
                           votedFor |-> s.hardState.votedFor,
                           commitIndex |-> s.hardState.commitIndex]
         /\ s.snapshot.lastIncludedIndex \in Nat /\ s.snapshot.lastIncludedTerm \in Nat
         /\ s.appliedIndex \in Nat
  BY DEF IsTyped, HardState, Snapshot

LEMMA LargerOfTwo ==
  ASSUME NEW m \in Nat, NEW n \in Nat
  PROVE  Max({m, n}) = IF m >= n THEN m ELSE n
<1>1. ASSUME NEW x \in {m, n}, \A y \in {m, n} : x >= y
      PROVE  x = IF m >= n THEN m ELSE n
  BY <1>1
<1>2. \E x \in {m, n} : \A y \in {m, n} : x >= y
  OBVIOUS
<1> QED
  BY <1>1, <1>2 DEF Max

LEMMA LastOfSpan ==
  ASSUME NEW entries, NEW lo, NEW hi, IsSpan(entries, lo, hi), NEW snapshot
  PROVE  LastOf(entries, snapshot) = IF lo <= hi THEN hi ELSE snapshot.lastIncludedIndex
<1>1. DOMAIN entries = lo .. hi /\ lo \in Nat /\ hi \in Nat
  BY DEF IsSpan
<1>2. CASE lo <= hi
  <2>1. hi \in lo .. hi /\ (\A y \in lo .. hi : hi >= y)
    BY <1>1, <1>2
  <2>2. \A x \in lo .. hi : (\A y \in lo .. hi : x >= y) => x = hi
    BY <1>1, <2>1
  <2>3. Max(lo .. hi) = hi
    BY <2>1, <2>2 DEF Max
  <2>4. lo .. hi # {}
    BY <2>1
  <2> QED
    BY <1>1, <1>2, <2>3, <2>4 DEF LastOf
<1>3. CASE ~(lo <= hi)
  <2>1. lo .. hi = {}
    BY <1>1, <1>3
  <2> QED
    BY <1>1, <1>3, <2>1 DEF LastOf
<1> QED
  BY <1>2, <1>3

\* The entries above an index.
LEMMA SpanAbove ==
  ASSUME NEW entries, NEW lo, NEW hi, IsSpan(entries, lo, hi), NEW index \in Nat
  PROVE  LET kept == Restrict(entries, {i \in DOMAIN entries : i > index})
             from == IF lo > index THEN lo ELSE index + 1
         IN  /\ IsSpan(kept, from, hi)
             /\ \A i \in DOMAIN entries : i > index => i \in DOMAIN kept /\ kept[i] = entries[i]
<1> DEFINE kept == Restrict(entries, {i \in DOMAIN entries : i > index})
           from == IF lo > index THEN lo ELSE index + 1
<1>1. /\ lo \in Nat \ {0} /\ hi \in Nat /\ entries \in [lo .. hi -> Nat]
      /\ DOMAIN entries = lo .. hi
  BY DEF IsSpan
<1>2. {i \in DOMAIN entries : i > index} = from .. hi /\ from \in Nat \ {0}
  BY <1>1
<1>3. kept = [i \in from .. hi |-> entries[i]]
  BY <1>2 DEF Restrict
<1>4. \A i \in from .. hi : entries[i] \in Nat
  BY <1>1, <1>2
<1>5. kept \in [from .. hi -> Nat]
  BY <1>3, <1>4
<1>6. \A i \in DOMAIN entries : i > index => i \in DOMAIN kept /\ kept[i] = entries[i]
  BY <1>2, <1>3
<1> QED
  BY <1>1, <1>2, <1>5, <1>6 DEF IsSpan

\* kept holds what entries hold from lo to top, and all that is before t, if t is there.
IsKept(kept, entries, lo, hi, top, t) ==
    /\ IsSpan(kept, lo, top) /\ top <= hi
    /\ \A i \in lo .. top : kept[i] = entries[i]
    /\ \A i \in lo .. hi : t = Nil \/ i < t => i <= top

LEMMA KeptSpan ==
  ASSUME NEW s, NEW lo, NEW hi, IsSpan(s.entries, lo, hi), NEW batch, IsBatch(batch)
  PROVE  \E top \in Nat :
           IsKept(KeptEntries(s, batch), s.entries, lo, hi, top, batch.truncateFrom)
<1>1. /\ lo \in Nat \ {0} /\ hi \in Nat /\ s.entries \in [lo .. hi -> Nat]
      /\ DOMAIN s.entries = lo .. hi
  BY DEF IsSpan
<1>2. CASE batch.truncateFrom = Nil
  <2>1. KeptEntries(s, batch) = s.entries
    BY <1>2 DEF KeptEntries
  <2>2. IsKept(KeptEntries(s, batch), s.entries, lo, hi, hi, batch.truncateFrom)
    BY <1>1, <2>1 DEF IsKept
  <2> QED
    BY <1>1, <2>2
<1>3. CASE batch.truncateFrom # Nil
  <2> DEFINE t == batch.truncateFrom
             top == IF hi < t THEN hi ELSE IF t = 0 THEN 0 ELSE t - 1
             kept == KeptEntries(s, batch)
  <2>1. t \in Nat
    BY <1>3 DEF IsBatch
  <2>2. top \in Nat /\ top <= hi /\ (\A i \in lo .. hi : i < t <=> i <= top)
    BY <1>1, <2>1
  <2>3. {i \in DOMAIN s.entries : i < t} = lo .. top
    BY <1>1, <2>2
  <2>4. kept = [i \in lo .. top |-> s.entries[i]]
    BY <1>3, <2>3 DEF KeptEntries, Restrict
  <2> HIDE DEF kept, top
  <2>5. \A i \in lo .. top : s.entries[i] \in Nat
    BY <1>1, <2>2
  <2>6. IsSpan(kept, lo, top) /\ \A i \in lo .. top : kept[i] = s.entries[i]
    BY <1>1, <2>2, <2>4, <2>5 DEF IsSpan
  <2>7. IsKept(kept, s.entries, lo, hi, top, t)
    BY <1>3, <2>2, <2>6 DEF IsKept
  <2> QED
    BY <2>2, <2>7 DEF kept
<1> QED
  BY <1>2, <1>3

\* The entries that are written: what is kept goes on, or starts after the snapshot.
LEMMA NextSpan ==
  ASSUME NEW s, IsTyped(s), NEW lo, NEW hi, IsSpan(s.entries, lo, hi),
         NEW batch, IsBatch(batch)
  PROVE  /\ \E from, to : /\ IsSpan(NextEntries(s, batch), from, to)
                          /\ from = s.snapshot.lastIncludedIndex + 1 \/ (from = lo /\ lo <= hi)
         /\ \A i \in DOMAIN s.entries :
              batch.truncateFrom = Nil \/ i < batch.truncateFrom =>
                i \in DOMAIN NextEntries(s, batch) /\ NextEntries(s, batch)[i] = s.entries[i]
<1>0. PICK top \in Nat :
           IsKept(KeptEntries(s, batch), s.entries, lo, hi, top, batch.truncateFrom)
  BY KeptSpan
<1>1. /\ IsSpan(KeptEntries(s, batch), lo, top) /\ top <= hi
      /\ \A i \in lo .. top : KeptEntries(s, batch)[i] = s.entries[i]
      /\ \A i \in lo .. hi : batch.truncateFrom = Nil \/ i < batch.truncateFrom => i <= top
  BY <1>0 DEF IsKept
<1> DEFINE kept == KeptEntries(s, batch)
           last == KeptLast(s, batch)
           boundary == s.snapshot.lastIncludedIndex
           n == Len(batch.entries)
           next == NextEntries(s, batch)
<1>2. /\ lo \in Nat \ {0} /\ hi \in Nat /\ boundary \in Nat /\ n \in Nat
      /\ DOMAIN s.entries = lo .. hi
      /\ DOMAIN kept = lo .. top /\ \A i \in lo .. top : kept[i] \in Nat
  BY <1>1, StoredFields DEF IsSpan, IsBatch
<1>3. last = IF lo <= top THEN top ELSE boundary
  BY <1>1, LastOfSpan DEF KeptLast
<1>4. next = [i \in (lo .. top) \cup (last + 1 .. last + n) |->
                IF i \in lo .. top THEN kept[i] ELSE batch.entries[i - last].term]
  BY <1>2 DEF NextEntries
<1>5. \A k \in 1 .. n : batch.entries[k].term \in Nat
  BY DEF IsBatch
<1> HIDE DEF kept, last, boundary, n, next
<1>6. \E from, to : /\ from \in Nat \ {0} /\ to \in Nat
                    /\ (lo .. top) \cup (last + 1 .. last + n) = from .. to
                    /\ from = boundary + 1 \/ (from = lo /\ lo <= hi)
  <2>1. CASE lo <= top
    <3>1. (lo .. top) \cup (last + 1 .. last + n) = lo .. top + n
      BY <2>1, <1>2, <1>3
    <3>2. top + n \in Nat /\ lo <= hi
      BY <2>1, <1>1, <1>2
    <3> QED
      BY <3>1, <3>2, <1>2
  <2>2. CASE ~(lo <= top)
    <3>1. (lo .. top) \cup (last + 1 .. last + n) = boundary + 1 .. boundary + n
      BY <2>2, <1>2, <1>3
    <3>2. boundary + 1 \in Nat \ {0} /\ boundary + n \in Nat
      BY <1>2
    <3> QED
      BY <3>1, <3>2
  <2> QED
    BY <2>1, <2>2
<1>7. \A i \in (lo .. top) \cup (last + 1 .. last + n) : next[i] \in Nat
  <2> SUFFICES ASSUME NEW i \in (lo .. top) \cup (last + 1 .. last + n)
               PROVE  next[i] \in Nat
    OBVIOUS
  <2>1. CASE i \in lo .. top
    BY <2>1, <1>2, <1>4
  <2>2. CASE i \notin lo .. top
    <3>1. i - last \in 1 .. n
      BY <2>2, <1>2, <1>3
    <3> QED
      BY <2>2, <3>1, <1>4, <1>5
  <2> QED
    BY <2>1, <2>2
<1>8. \E from, to : IsSpan(next, from, to) /\ (from = boundary + 1 \/ (from = lo /\ lo <= hi))
  <2>1. PICK from, to : /\ from \in Nat \ {0} /\ to \in Nat
                        /\ (lo .. top) \cup (last + 1 .. last + n) = from .. to
                        /\ from = boundary + 1 \/ (from = lo /\ lo <= hi)
    BY <1>6
  <2>2. next \in [from .. to -> Nat]
    BY <1>4, <1>7, <2>1
  <2> QED
    BY <2>1, <2>2 DEF IsSpan
<1>9. \A i \in DOMAIN s.entries : batch.truncateFrom = Nil \/ i < batch.truncateFrom =>
        i \in DOMAIN next /\ next[i] = s.entries[i]
  <2> SUFFICES ASSUME NEW i \in lo .. hi, batch.truncateFrom = Nil \/ i < batch.truncateFrom
               PROVE  i \in DOMAIN next /\ next[i] = s.entries[i]
    BY <1>2
  <2>1. i \in lo .. top
    BY <1>1, <1>2
  <2> QED
    BY <2>1, <1>1, <1>4 DEF kept
<1> QED
  BY <1>8, <1>9 DEF next, boundary

-----------------------------------------------------------------------------
(* What calls do to what is stored                                         *)

\* NothingGoesBack, as a relation on stored states.
Advances(old, new) ==
    /\ new.hardState.currentTerm >= old.hardState.currentTerm
    /\ new.hardState.commitIndex >= old.hardState.commitIndex
    /\ new.appliedIndex >= old.appliedIndex
    /\ \A i \in DOMAIN old.entries : i <= old.hardState.commitIndex =>
         \/ i \in DOMAIN new.entries /\ new.entries[i] = old.entries[i]
         \/ i <= new.snapshot.lastIncludedIndex

KeepsVote(old, new) ==
    \/ new.hardState.currentTerm > old.hardState.currentTerm
    \/ old.hardState.votedFor \in {Nil, new.hardState.votedFor}

KeepsSnapshot(old, new) == new.snapshot.lastIncludedIndex >= old.snapshot.lastIncludedIndex

IsFirm(old, new) == KeepsVote(old, new) /\ KeepsSnapshot(old, new)

LEMMA BatchTyped ==
  ASSUME NEW op \in Writes, NEW batch \in Batch(op)
  PROVE  IsBatch(batch) /\ (HasBoth(batch) <=> op = "persistBoth")
<1>1. batch \in Batches /\ (HasBoth(batch) <=> op = "persistBoth")
  BY DEF Batch, BatchesWithBoth, BatchesWithoutBoth
<1>2. /\ batch.hardState \in HardState \cup {Nil} /\ batch.truncateFrom \in Nat \cup {Nil}
      /\ batch.entries \in Seq([index : Nat, term : Nat])
      /\ batch.snapshot \in Snapshot \cup {Nil} /\ batch.appliedIndex \in Nat \cup {Nil}
  BY <1>1, BatchesAssumption DEF PersistBatch
<1>3. ASSUME NEW S, NEW e \in Seq(S)
      PROVE  Len(e) \in Nat /\ \A k \in 1 .. Len(e) : e[k] \in S
  BY <1>3
<1>4. /\ Len(batch.entries) \in Nat
      /\ \A k \in 1 .. Len(batch.entries) : batch.entries[k] \in [index : Nat, term : Nat]
  BY <1>2, <1>3
<1> QED
  BY <1>1, <1>2, <1>4 DEF IsBatch

\* What the durable storage accepts, the volatile one does too.
LEMMA DurableIsStricter ==
  ASSUME NEW s, NEW batch, DurableAccepts(s, batch)
  PROVE  VolatileAccepts(s, batch)
  BY DEF DurableAccepts, VolatileAccepts, TakesHardState

LEMMA HardStateTaken ==
  ASSUME NEW s, IsGood(s), NEW batch, IsBatch(batch), TakesHardState(s, batch)
  PROVE  /\ NextHardState(s, batch) \in HardState
         /\ NextHardState(s, batch).currentTerm \in Nat
         /\ NextHardState(s, batch).commitIndex \in Nat
         /\ NextHardState(s, batch).currentTerm >= s.hardState.currentTerm
         /\ NextHardState(s, batch).commitIndex >= s.hardState.commitIndex
<1>1. IsTyped(s) /\ s.hardState.currentTerm \in Nat /\ s.hardState.commitIndex \in Nat
  BY StoredFields DEF IsGood
<1>2. NextHardState(s, batch) \in HardState
  BY <1>1 DEF NextHardState, Given, IsTyped, IsBatch
<1>3. CASE batch.hardState = Nil
  BY <1>1, <1>2, <1>3 DEF NextHardState, Given
<1>4. CASE batch.hardState # Nil
  BY <1>2, <1>4 DEF TakesHardState, HardStateAdvances, HardState
<1> QED
  BY <1>2, <1>3, <1>4

\* An accepted batch keeps what is stored in order, and takes nothing back.
LEMMA WritingAdvances ==
  ASSUME NEW s, IsGood(s), NEW batch, IsBatch(batch), VolatileAccepts(s, batch)
  PROVE  IsGood(Written(s, batch)) /\ Advances(s, Written(s, batch))
<1> DEFINE w == Written(s, batch)
<1>1. PICK lo, hi : IsSpan(s.entries, lo, hi)
  BY DEF IsGood
<1>2. /\ IsTyped(s) /\ s.appliedIndex \in Nat /\ s.hardState.commitIndex \in Nat
      /\ s.appliedIndex <= s.hardState.commitIndex
  BY StoredFields DEF IsGood
<1>3. /\ w = [hardState |-> w.hardState, entries |-> w.entries,
              snapshot |-> w.snapshot, appliedIndex |-> w.appliedIndex]
      /\ w.hardState = NextHardState(s, batch) /\ w.entries = NextEntries(s, batch)
      /\ w.snapshot = NextSnapshot(s, batch) /\ w.appliedIndex = NextApplied(s, batch)
  BY DEF Written
<1> HIDE DEF w
<1>4. /\ w.hardState \in HardState
      /\ w.hardState.currentTerm \in Nat /\ w.hardState.commitIndex \in Nat
      /\ w.hardState.currentTerm >= s.hardState.currentTerm
      /\ w.hardState.commitIndex >= s.hardState.commitIndex
  BY <1>3, HardStateTaken DEF VolatileAccepts
<1>5. w.snapshot \in Snapshot
  BY <1>2, <1>3 DEF NextSnapshot, Given, IsBatch, IsTyped
<1>6. w.appliedIndex \in Nat /\ w.appliedIndex >= s.appliedIndex
      /\ w.appliedIndex <= w.hardState.commitIndex
  <2>1. CASE batch.appliedIndex = Nil
    BY <2>1, <1>2, <1>3, <1>4 DEF NextApplied, Given
  <2>2. CASE batch.appliedIndex # Nil
    BY <2>2, <1>2, <1>3, <1>4 DEF VolatileAccepts, AppliedAdvances, NextApplied, Given, IsBatch
  <2> QED
    BY <2>1, <2>2
<1>0. /\ \E from, to : IsSpan(NextEntries(s, batch), from, to)
      /\ \A i \in DOMAIN s.entries :
           batch.truncateFrom = Nil \/ i < batch.truncateFrom =>
             i \in DOMAIN NextEntries(s, batch) /\ NextEntries(s, batch)[i] = s.entries[i]
  BY <1>1, <1>2, NextSpan
<1>7. \E from, to : IsSpan(w.entries, from, to)
  BY <1>0, <1>3
<1>8. \A i \in DOMAIN s.entries : i <= s.hardState.commitIndex =>
        i \in DOMAIN w.entries /\ w.entries[i] = s.entries[i]
  <2> SUFFICES ASSUME NEW i \in DOMAIN s.entries, i <= s.hardState.commitIndex
               PROVE  i \in DOMAIN w.entries /\ w.entries[i] = s.entries[i]
    OBVIOUS
  <2>1. i \in Nat
    BY <1>1 DEF IsSpan
  <2>2. batch.truncateFrom = Nil \/ i < batch.truncateFrom
    BY <2>1, <1>2 DEF VolatileAccepts, TakesHardState, KeepsCommitted, IsBatch
  <2> QED
    BY <2>2, <1>0, <1>3
<1>9. IsGood(w)
  BY <1>3, <1>4, <1>5, <1>6, <1>7 DEF IsGood, IsTyped
<1>10. Advances(s, w)
  BY <1>4, <1>6, <1>8 DEF Advances
<1> QED
  BY <1>9, <1>10 DEF w

\* A batch the durable storage accepts leaves the commit index in the log, takes no
\* vote back, and leaves it rooted, unless its snapshot is older or beyond the log.
LEMMA WritingIsFirm ==
  ASSUME NEW s, IsGood(s), NEW batch, IsBatch(batch), DurableAccepts(s, batch)
  PROVE  LET w == Written(s, batch)
         IN  /\ IsHeld(w) /\ KeepsVote(s, w)
             /\ IsRooted(s)
                 /\ w.snapshot.lastIncludedIndex \in
                      s.snapshot.lastIncludedIndex .. w.hardState.commitIndex
                => IsRooted(w)
<1> DEFINE w == Written(s, batch)
           boundary == s.snapshot.lastIncludedIndex
<1>1. IsGood(w) /\ Advances(s, w)
  BY DurableIsStricter, WritingAdvances
<1>2. /\ w.hardState = NextHardState(s, batch) /\ w.entries = NextEntries(s, batch)
      /\ w.snapshot = NextSnapshot(s, batch)
  BY DEF Written
<1> HIDE DEF w
<1>3. /\ boundary \in Nat /\ s.hardState.currentTerm \in Nat
      /\ w.hardState.currentTerm \in Nat /\ w.hardState.commitIndex \in Nat
      /\ w.snapshot.lastIncludedIndex \in Nat
  BY <1>1, StoredFields DEF IsGood
<1>4. w.hardState.commitIndex <= LastOf(w.entries, w.snapshot)
  BY <1>2 DEF DurableAccepts, CommitIsInLog
<1>5. ASSUME NEW from, NEW to, IsSpan(w.entries, from, to)
      PROVE  /\ from \in Nat /\ to \in Nat
             /\ from <= to => w.hardState.commitIndex <= to
             /\ from > to => w.hardState.commitIndex <= w.snapshot.lastIncludedIndex
  <2>1. LastOf(w.entries, w.snapshot) = IF from <= to THEN to ELSE w.snapshot.lastIncludedIndex
    BY <1>5, LastOfSpan
  <2>2. from \in Nat /\ to \in Nat
    BY <1>5 DEF IsSpan
  <2> QED
    BY <1>4, <2>1, <2>2
<1>6. IsHeld(w)
  BY <1>1, <1>5 DEF IsGood, IsHeld
<1>7. KeepsVote(s, w)
  <2>1. CASE w.hardState.currentTerm = s.hardState.currentTerm
    BY <2>1, <1>2 DEF DurableAccepts, VotesOnce, KeepsVote
  <2>2. CASE w.hardState.currentTerm # s.hardState.currentTerm
    BY <2>2, <1>1, <1>3 DEF Advances, KeepsVote
  <2> QED
    BY <2>1, <2>2
<1>8. ASSUME IsRooted(s), w.snapshot.lastIncludedIndex \in boundary .. w.hardState.commitIndex
      PROVE  IsRooted(w)
  <2>1. PICK lo, hi : IsSpan(s.entries, lo, hi) /\ (lo <= hi => lo <= boundary + 1)
    BY <1>8 DEF IsRooted
  <2>2. PICK from, to : /\ IsSpan(w.entries, from, to)
                        /\ from = boundary + 1 \/ (from = lo /\ lo <= hi)
    BY <1>2, <2>1, NextSpan DEF IsGood
  <2>3. from <= boundary + 1
    BY <1>3, <2>1, <2>2
  <2>4. from <= w.snapshot.lastIncludedIndex + 1
    BY <1>3, <1>5, <1>8, <2>2, <2>3
  <2> QED
    BY <1>3, <1>5, <1>8, <2>2, <2>4 DEF IsRooted
<1> QED
  BY <1>6, <1>7, <1>8 DEF w

\* A batch that is refused half way by the volatile storage takes nothing back.
LEMMA RefusalAdvances ==
  ASSUME NEW s, IsGood(s), NEW batch, IsBatch(batch), TakesHardState(s, batch)
  PROVE  LET r == [s EXCEPT !.hardState = NextHardState(s, batch)]
         IN  IsGood(r) /\ Advances(s, r)
<1> DEFINE r == [s EXCEPT !.hardState = NextHardState(s, batch)]
<1>1. /\ IsTyped(s) /\ s.appliedIndex \in Nat /\ s.hardState.commitIndex \in Nat
      /\ s.appliedIndex <= s.hardState.commitIndex
      /\ \E lo, hi : IsSpan(s.entries, lo, hi)
  BY StoredFields DEF IsGood
<1>2. r = [hardState |-> NextHardState(s, batch), entries |-> s.entries,
           snapshot |-> s.snapshot, appliedIndex |-> s.appliedIndex]
  BY <1>1 DEF IsTyped
<1> HIDE DEF r
<1>3. /\ NextHardState(s, batch) \in HardState /\ NextHardState(s, batch).commitIndex \in Nat
      /\ NextHardState(s, batch).currentTerm >= s.hardState.currentTerm
      /\ NextHardState(s, batch).commitIndex >= s.hardState.commitIndex
  BY HardStateTaken
<1>4. r.appliedIndex <= r.hardState.commitIndex
  BY <1>1, <1>2, <1>3
<1>5. IsGood(r)
  BY <1>1, <1>2, <1>3, <1>4 DEF IsGood, IsTyped
<1>6. Advances(s, r)
  BY <1>1, <1>2, <1>3 DEF Advances
<1> QED
  BY <1>5, <1>6 DEF r

LEMMA SameAdvances ==
  ASSUME NEW s, IsGood(s)
  PROVE  Advances(s, s) /\ IsFirm(s, s)
<1>1. /\ s.hardState.currentTerm \in Nat /\ s.hardState.commitIndex \in Nat
      /\ s.appliedIndex \in Nat /\ s.snapshot.lastIncludedIndex \in Nat
  BY StoredFields DEF IsGood
<1> QED
  BY <1>1 DEF Advances, IsFirm, KeepsVote, KeepsSnapshot

\* A snapshot that takes the place of the entries up to index.
LEMMA CoveringAdvances ==
  ASSUME NEW s, IsGood(s), NEW index \in Nat, index <= s.snapshot.lastIncludedIndex
  PROVE  LET c == Covered(s, index)
         IN  /\ IsGood(c) /\ Advances(s, c) /\ c.snapshot = s.snapshot
             /\ \A lo, hi : IsSpan(s.entries, lo, hi) =>
                  IsSpan(c.entries, IF lo > index THEN lo ELSE index + 1, hi)
             /\ c.hardState.currentTerm = s.hardState.currentTerm
             /\ c.hardState.votedFor = s.hardState.votedFor
             /\ c.hardState.commitIndex = IF s.hardState.commitIndex >= index
                                            THEN s.hardState.commitIndex ELSE index
<1> DEFINE c == Covered(s, index)
           kept == Restrict(s.entries, {i \in DOMAIN s.entries : i > index})
           commit == Max({s.hardState.commitIndex, index})
           applied == Max({s.appliedIndex, index})
<1>1. /\ IsTyped(s) /\ s.appliedIndex <= s.hardState.commitIndex
      /\ s.hardState.currentTerm \in Nat /\ s.hardState.commitIndex \in Nat
      /\ s.hardState.votedFor \in Candidate \cup {Nil}
      /\ s.hardState = [currentTerm |-> s.hardState.currentTerm,
                        votedFor |-> s.hardState.votedFor,
                        commitIndex |-> s.hardState.commitIndex]
      /\ s.appliedIndex \in Nat /\ s.snapshot.lastIncludedIndex \in Nat
  BY StoredFields DEF IsGood
<1>2. /\ commit = IF s.hardState.commitIndex >= index THEN s.hardState.commitIndex ELSE index
      /\ applied = IF s.appliedIndex >= index THEN s.appliedIndex ELSE index
  BY <1>1, LargerOfTwo
<1>3. \A lo, hi : IsSpan(s.entries, lo, hi) =>
        /\ IsSpan(kept, IF lo > index THEN lo ELSE index + 1, hi)
        /\ \A i \in DOMAIN s.entries :
             i \in Nat /\ (i > index => i \in DOMAIN kept /\ kept[i] = s.entries[i])
  <2> SUFFICES ASSUME NEW lo, NEW hi, IsSpan(s.entries, lo, hi)
               PROVE  /\ IsSpan(kept, IF lo > index THEN lo ELSE index + 1, hi)
                      /\ \A i \in DOMAIN s.entries :
                           i \in Nat /\ (i > index => i \in DOMAIN kept /\ kept[i] = s.entries[i])
    OBVIOUS
  <2>1. \A i \in DOMAIN s.entries : i \in Nat
    BY DEF IsSpan
  <2> QED
    BY <2>1, SpanAbove
<1>4. c = [s EXCEPT !.entries = kept, !.hardState.commitIndex = commit, !.appliedIndex = applied]
  BY DEF Covered
<1> HIDE DEF c, kept, commit, applied
<1>5. c = [hardState |-> [currentTerm |-> s.hardState.currentTerm,
                          votedFor |-> s.hardState.votedFor, commitIndex |-> commit],
           entries |-> kept, snapshot |-> s.snapshot, appliedIndex |-> applied]
  BY <1>1, <1>4 DEF IsTyped
<1>6. /\ commit \in Nat /\ commit >= s.hardState.commitIndex
      /\ applied \in Nat /\ applied >= s.appliedIndex /\ applied <= commit
  BY <1>1, <1>2
<1>7. c.hardState \in HardState
  BY <1>1, <1>5, <1>6 DEF HardState
<1>8. IsGood(c)
  BY <1>1, <1>3, <1>5, <1>6, <1>7 DEF IsGood, IsTyped
<1>9. \A i \in DOMAIN s.entries :
        i \in Nat /\ (i > index => i \in DOMAIN kept /\ kept[i] = s.entries[i])
  BY <1>3 DEF IsGood
<1>10. Advances(s, c)
  <2>1. \A i \in DOMAIN s.entries :
          \/ i \in DOMAIN c.entries /\ c.entries[i] = s.entries[i]
          \/ i <= c.snapshot.lastIncludedIndex
    BY <1>1, <1>5, <1>9
  <2> QED
    BY <1>1, <1>5, <1>6, <2>1 DEF Advances
<1> QED
  BY <1>2, <1>3, <1>5, <1>8, <1>10 DEF c

LEMMA SnapshotReplaced ==
  ASSUME NEW s, IsGood(s), NEW snapshot \in Snapshot
  PROVE  LET r == [s EXCEPT !.snapshot = snapshot]
         IN  /\ IsGood(r) /\ r.snapshot = snapshot /\ r.hardState = s.hardState
             /\ r.entries = s.entries /\ r.appliedIndex = s.appliedIndex
  BY DEF IsGood, IsTyped

LEMMA InstallingAdvances ==
  ASSUME NEW s, IsGood(s), NEW snapshot \in Snapshot
  PROVE  LET c == Installed(s, snapshot)
             index == snapshot.lastIncludedIndex
         IN  /\ IsGood(c) /\ Advances(s, c) /\ c.snapshot = snapshot
             /\ \A lo, hi : IsSpan(s.entries, lo, hi) =>
                  IsSpan(c.entries, IF lo > index THEN lo ELSE index + 1, hi)
             /\ c.hardState.currentTerm = s.hardState.currentTerm
             /\ c.hardState.votedFor = s.hardState.votedFor
             /\ c.hardState.commitIndex = IF s.hardState.commitIndex >= index
                                            THEN s.hardState.commitIndex ELSE index
<1> DEFINE r == [s EXCEPT !.snapshot = snapshot]
           index == snapshot.lastIncludedIndex
<1>1. /\ IsGood(r) /\ r.snapshot = snapshot /\ r.hardState = s.hardState
      /\ r.entries = s.entries /\ r.appliedIndex = s.appliedIndex
  BY SnapshotReplaced
<1>2. index \in Nat
  BY DEF Snapshot
<1>3. Installed(s, snapshot) = Covered(r, index)
  BY DEF Installed
<1>0. index <= r.snapshot.lastIncludedIndex
  BY <1>1, <1>2
<1> HIDE DEF r
<1> DEFINE c == Covered(r, index)
<1>4. /\ IsGood(c) /\ Advances(r, c) /\ c.snapshot = r.snapshot
      /\ \A lo, hi : IsSpan(r.entries, lo, hi) =>
           IsSpan(c.entries, IF lo > index THEN lo ELSE index + 1, hi)
      /\ c.hardState.currentTerm = r.hardState.currentTerm
      /\ c.hardState.votedFor = r.hardState.votedFor
      /\ c.hardState.commitIndex = IF r.hardState.commitIndex >= index
                                     THEN r.hardState.commitIndex ELSE index
  BY <1>0, <1>1, <1>2, CoveringAdvances
<1> HIDE DEF c
<1>5. Advances(s, c)
  BY <1>1, <1>4 DEF Advances
<1> QED
  BY <1>1, <1>3, <1>4, <1>5 DEF c

LEMMA InstallingIsFirm ==
  ASSUME NEW s, IsGood(s), IsHeld(s), NEW snapshot \in Snapshot, MayInstall(s, snapshot)
  PROVE  LET c == Installed(s, snapshot)
         IN  IsHeld(c) /\ IsFirm(s, c) /\ (IsRooted(s) => IsRooted(c))
<1> DEFINE c == Installed(s, snapshot)
           boundary == s.snapshot.lastIncludedIndex
           index == snapshot.lastIncludedIndex
<1>1. /\ boundary \in Nat /\ index \in Nat /\ boundary <= index
      /\ s.hardState.commitIndex \in Nat /\ s.hardState.currentTerm \in Nat
  BY StoredFields DEF IsGood, Snapshot, MayInstall
<1>2. /\ c.snapshot = snapshot
      /\ \A lo, hi : IsSpan(s.entries, lo, hi) =>
           IsSpan(c.entries, IF lo > index THEN lo ELSE index + 1, hi)
      /\ c.hardState.currentTerm = s.hardState.currentTerm
      /\ c.hardState.votedFor = s.hardState.votedFor
      /\ c.hardState.commitIndex = IF s.hardState.commitIndex >= index
                                     THEN s.hardState.commitIndex ELSE index
  BY InstallingAdvances
<1> HIDE DEF c
<1>3. IsHeld(c)
  <2>1. PICK lo, hi : /\ IsSpan(s.entries, lo, hi)
                      /\ lo <= hi => s.hardState.commitIndex <= hi
                      /\ lo > hi => s.hardState.commitIndex <= boundary
    BY DEF IsHeld
  <2> DEFINE from == IF lo > index THEN lo ELSE index + 1
  <2>2. lo \in Nat /\ hi \in Nat /\ IsSpan(c.entries, from, hi)
    BY <1>2, <2>1 DEF IsSpan
  <2>3. /\ from <= hi => c.hardState.commitIndex <= hi
        /\ from > hi => c.hardState.commitIndex <= index
    BY <1>1, <1>2, <2>1, <2>2
  <2> QED
    BY <1>2, <2>2, <2>3 DEF IsHeld
<1>4. ASSUME IsRooted(s)
      PROVE  IsRooted(c)
  <2>1. PICK lo, hi : /\ IsSpan(s.entries, lo, hi)
                      /\ lo <= hi => lo <= boundary + 1 /\ s.hardState.commitIndex <= hi
                      /\ lo > hi => s.hardState.commitIndex <= boundary
    BY <1>4 DEF IsRooted
  <2> DEFINE from == IF lo > index THEN lo ELSE index + 1
  <2>2. lo \in Nat /\ hi \in Nat /\ IsSpan(c.entries, from, hi)
    BY <1>2, <2>1 DEF IsSpan
  <2>3. c.snapshot.lastIncludedIndex <= c.hardState.commitIndex
    BY <1>1, <1>2
  <2>4. /\ from <= hi => from <= index + 1 /\ c.hardState.commitIndex <= hi
        /\ from > hi => c.hardState.commitIndex <= index
    BY <1>1, <1>2, <2>1, <2>2
  <2> QED
    BY <1>2, <2>2, <2>3, <2>4 DEF IsRooted
<1>5. IsFirm(s, c)
  BY <1>1, <1>2 DEF IsFirm, KeepsVote, KeepsSnapshot
<1> QED
  BY <1>3, <1>4, <1>5 DEF c

LEMMA CompactingAdvances ==
  ASSUME NEW s, IsGood(s), NEW through \in Nat, MayCompact(s, through)
  PROVE  LET c == Compacted(s, through)
         IN  /\ IsGood(c) /\ Advances(s, c) /\ IsFirm(s, c)
             /\ (IsHeld(s) => IsHeld(c)) /\ (IsRooted(s) => IsRooted(c))
<1> DEFINE c == Compacted(s, through)
           boundary == s.snapshot.lastIncludedIndex
           kept == Restrict(s.entries, {i \in DOMAIN s.entries : i > through})
<1>1. /\ IsTyped(s) /\ through <= boundary /\ boundary \in Nat
      /\ s.hardState.currentTerm \in Nat /\ s.hardState.commitIndex \in Nat
      /\ s.appliedIndex \in Nat
  BY StoredFields DEF IsGood, MayCompact
<1>2. c = [hardState |-> s.hardState, entries |-> kept,
           snapshot |-> s.snapshot, appliedIndex |-> s.appliedIndex]
  BY <1>1 DEF Compacted, IsTyped
<1>3. \A lo, hi : IsSpan(s.entries, lo, hi) =>
        /\ IsSpan(kept, IF lo > through THEN lo ELSE through + 1, hi)
        /\ \A i \in DOMAIN s.entries :
             i \in Nat /\ (i > through => i \in DOMAIN kept /\ kept[i] = s.entries[i])
  <2> SUFFICES ASSUME NEW lo, NEW hi, IsSpan(s.entries, lo, hi)
               PROVE  /\ IsSpan(kept, IF lo > through THEN lo ELSE through + 1, hi)
                      /\ \A i \in DOMAIN s.entries :
                           i \in Nat /\ (i > through => i \in DOMAIN kept /\ kept[i] = s.entries[i])
    OBVIOUS
  <2>1. \A i \in DOMAIN s.entries : i \in Nat
    BY DEF IsSpan
  <2> QED
    BY <2>1, SpanAbove
<1> HIDE DEF c, kept
<1>4. IsGood(c)
  BY <1>1, <1>2, <1>3 DEF IsGood, IsTyped
<1>5. \A i \in DOMAIN s.entries :
        i \in Nat /\ (i > through => i \in DOMAIN kept /\ kept[i] = s.entries[i])
  BY <1>3 DEF IsGood
<1>6. Advances(s, c)
  BY <1>1, <1>2, <1>5 DEF Advances
<1>7. IsFirm(s, c)
  BY <1>1, <1>2 DEF IsFirm, KeepsVote, KeepsSnapshot
<1>9. ASSUME IsHeld(s)
      PROVE  IsHeld(c)
  <2>1. PICK lo, hi : /\ IsSpan(s.entries, lo, hi)
                      /\ lo <= hi => s.hardState.commitIndex <= hi
                      /\ lo > hi => s.hardState.commitIndex <= boundary
    BY <1>9 DEF IsHeld
  <2> DEFINE from == IF lo > through THEN lo ELSE through + 1
  <2>2. lo \in Nat /\ hi \in Nat /\ IsSpan(c.entries, from, hi)
    BY <1>2, <1>3, <2>1 DEF IsSpan
  <2>3. /\ from <= hi => s.hardState.commitIndex <= hi
        /\ from > hi => s.hardState.commitIndex <= boundary
    BY <1>1, <2>1, <2>2
  <2> QED
    BY <1>2, <2>2, <2>3 DEF IsHeld
<1>8. ASSUME IsRooted(s)
      PROVE  IsRooted(c)
  <2>1. PICK lo, hi : /\ IsSpan(s.entries, lo, hi)
                      /\ lo <= hi => lo <= boundary + 1 /\ s.hardState.commitIndex <= hi
                      /\ lo > hi => s.hardState.commitIndex <= boundary
    BY <1>8 DEF IsRooted
  <2> DEFINE from == IF lo > through THEN lo ELSE through + 1
  <2>2. lo \in Nat /\ hi \in Nat /\ IsSpan(c.entries, from, hi)
    BY <1>2, <1>3, <2>1 DEF IsSpan
  <2>3. boundary <= s.hardState.commitIndex
    BY <1>8 DEF IsRooted
  <2>4. /\ from <= hi => from <= boundary + 1 /\ s.hardState.commitIndex <= hi
        /\ from > hi => s.hardState.commitIndex <= boundary
    BY <1>1, <2>1, <2>2
  <2> QED
    BY <1>2, <2>2, <2>3, <2>4 DEF IsRooted
<1> QED
  BY <1>4, <1>6, <1>7, <1>8, <1>9 DEF c

-----------------------------------------------------------------------------
(* The steps                                                               *)

\* A snapshot that waits for its second turn is the one that is stored.
CoverInv ==
    \A i \in DOMAIN tasks :
      tasks[i].op = "cover" => tasks[i].index = stored.snapshot.lastIncludedIndex

\* Only one process uses the volatile storage, and it makes one call at a time.
LEMMA NoCoverBehind ==
  ASSUME QueueInv, NEW h \in Handle, NEW op \in Calls \cup {"cover"}, IsNext(op, h)
  PROVE  \A i \in DOMAIN Tail(tasks) : Tail(tasks)[i].op # "cover"
<1> SUFFICES ASSUME NEW i \in DOMAIN Tail(tasks), Tail(tasks)[i].op = "cover"
             PROVE  FALSE
  OBVIOUS
<1> DEFINE t == Tail(tasks)[i]
<1>1. /\ t \in Task /\ t.handle \in Handle
      /\ Fits(t, kind, life, outcome) /\ Apart(Head(tasks), t, kind)
  BY HeadRuns, TaskFields
<1>2. t.op = "cover"
  OBVIOUS
<1> HIDE DEF t
<1>3. kind = "volatile" /\ life[t.handle] # "unopened"
  BY <1>1, <1>2 DEF Fits
<1>4. IsNewest(h)
  BY OneRuns
<1>5. t.handle <= h /\ h = 1
  BY <1>1, <1>3, <1>4 DEF IsNewest
<1>6. t.handle = h
  BY <1>1, <1>5 DEF Handle
<1>7. Head(tasks).op = op /\ Head(tasks).handle = h /\ IsCall(op) /\ IsCall("cover")
  BY DEF IsNext, IsCall
<1> QED
  BY <1>1, <1>2, <1>6, <1>7 DEF Apart

LEMMA CoverStep ==
  ASSUME QueueInv, CoverInv, IsGood(stored), [Next]_vars
  PROVE  CoverInv'
<1>1. tasks \in Seq(Task)
  BY DEF QueueInv
<1>2. ASSUME UNCHANGED <<tasks, stored>>
      PROVE  CoverInv'
  BY <1>2 DEF CoverInv
<1>3. ASSUME NEW t \in Task, t.op # "cover", tasks' = Append(tasks, t), UNCHANGED stored
      PROVE  CoverInv'
  <2>1. \A i \in DOMAIN tasks' : (i \in DOMAIN tasks /\ tasks'[i] = tasks[i]) \/ tasks'[i] = t
    BY <1>1, <1>3, AppendElements
  <2> QED
    BY <1>3, <2>1 DEF CoverInv
<1>4. ASSUME NEW h \in Handle, NEW op \in Calls \cup {"cover"}, IsNext(op, h), tasks' = Tail(tasks)
      PROVE  CoverInv'
  BY <1>4, NoCoverBehind DEF CoverInv
<1>5. ASSUME tasks # <<>>, UNCHANGED stored,
             \/ tasks' = Tail(tasks)
             \/ \E t \in Task : t.op # "cover" /\ tasks' = Append(Tail(tasks), t)
      PROVE  CoverInv'
  <2>1. Tail(tasks) \in Seq(Task) /\ \A i \in DOMAIN Tail(tasks) :
           i + 1 \in DOMAIN tasks /\ Tail(tasks)[i] = tasks[i + 1]
    BY <1>1, <1>5, TailElements
  <2>2. \A i \in DOMAIN tasks' :
          \/ i \in DOMAIN Tail(tasks) /\ tasks'[i] = Tail(tasks)[i]
          \/ tasks'[i].op # "cover"
    BY <1>5, <2>1, AppendElements
  <2> QED
    BY <1>5, <2>1, <2>2 DEF CoverInv
<1>6. CASE UNCHANGED vars \/ FailNext \/ \E h \in Handle : Open(h)
  BY <1>2, <1>6 DEF vars, FailNext, Open
<1>7. ASSUME NEW h \in Handle, NEW op \in Calls, Call(h, op)
      PROVE  CoverInv'
  <2>1. Microtask(op, h) \in Task /\ Microtask(op, h).op # "cover"
    BY TaskFields DEF Calls, Writes
  <2> QED
    BY <1>2, <1>3, <1>7, <2>1 DEF Call
<1>8. ASSUME NEW h \in Handle, Close(h)
      PROVE  CoverInv'
  BY <1>3, <1>8, TaskFields DEF Close
<1>9. ASSUME NEW h \in Handle, Run(h)
      PROVE  CoverInv'
  <2>1. {"load", "install", "compact"} \cup Writes \subseteq Calls
    BY DEF Calls
  <2>2. CASE RunLoad(h)
    BY <1>4, <2>1, <2>2 DEF RunLoad
  <2>3. CASE RunPersist(h)
    <3>1. PICK op \in Writes : IsNext(op, h) /\ tasks' = Tail(tasks)
      BY <2>3 DEF RunPersist
    <3> QED
      BY <1>4, <2>1, <3>1
  <2>4. CASE RunInstall(h)
    BY <1>4, <2>1, <2>4 DEF RunInstall
  <2>5. CASE RunPersistSnapshot(h)
    <3>1. PICK snapshot \in SomeSnapshot :
            /\ IsNext("install", h)
            /\ IF failure
                 THEN tasks' = Tail(tasks)
                 ELSE /\ stored' = [stored EXCEPT !.snapshot = snapshot]
                      /\ tasks' = Append(Tail(tasks), [op |-> "cover", handle |-> h,
                                                       index |-> snapshot.lastIncludedIndex])
      BY <2>5 DEF RunPersistSnapshot
    <3>2. CASE failure
      BY <1>4, <2>1, <3>1, <3>2
    <3>3. CASE ~failure
      <4> DEFINE t == [op |-> "cover", handle |-> h, index |-> snapshot.lastIncludedIndex]
      <4>1. t \in Task
        BY DEF Task, SomeSnapshot, Index
      <4>2. Tail(tasks) \in Seq(Task) /\ \A i \in DOMAIN Tail(tasks) : Tail(tasks)[i].op # "cover"
        BY <2>1, <3>1, HeadRuns, NoCoverBehind
      <4>3. \A i \in DOMAIN tasks' : tasks'[i].op = "cover" => tasks'[i] = t
        BY <3>1, <3>3, <4>1, <4>2, AppendElements
      <4>4. snapshot \in Snapshot
        BY DEF SomeSnapshot, Snapshot, Index, Term
      <4>5. stored'.snapshot = snapshot
        BY <3>1, <3>3 DEF IsGood, IsTyped
      <4> QED
        BY <4>3, <4>5 DEF CoverInv
    <3> QED
      BY <3>2, <3>3
  <2>6. CASE RunCover(h)
    BY <1>4, <2>6 DEF RunCover
  <2>7. CASE RunCompact(h)
    BY <1>4, <2>1, <2>7 DEF RunCompact
  <2>8. CASE RunClose(h)
    BY <1>5, <2>8, TaskFields DEF RunClose, IsNext
  <2>9. CASE RunStopped(h)
    BY <1>5, <2>9 DEF RunStopped, IsNext
  <2> QED
    BY <1>9, <2>2, <2>3, <2>4, <2>5, <2>6, <2>7, <2>8, <2>9 DEF Run
<1> QED
  BY <1>6, <1>7, <1>8, <1>9 DEF Next

\* What a step of the durable storage keeps, but for a persist that does not look at
\* the snapshot it stores.
KeepsFooting ==
    /\ KeepsVote(stored, stored')
    /\ KeepsSnapshot(stored, stored') \/ PersistIsNext
    /\ IsRooted(stored) =>
         \/ IsRooted(stored')
         \/ /\ PersistIsNext
            /\ stored'.snapshot.lastIncludedIndex \notin
                 stored.snapshot.lastIncludedIndex .. stored'.hardState.commitIndex

LEMMA StoredStep ==
  ASSUME QueueInv, CoverInv, StoredInv, [Next]_vars
  PROVE  /\ StoredInv' /\ Advances(stored, stored')
         /\ kind = "durable" => KeepsFooting
<1> DEFINE Kept == /\ IsGood(stored') /\ Advances(stored, stored')
                   /\ kind = "durable" => IsHeld(stored') /\ KeepsFooting
<1>1. /\ IsGood(stored) /\ IsTyped(stored) /\ failure \in BOOLEAN
      /\ kind = "durable" => IsHeld(stored)
      /\ kind \in {"volatile", "durable"}
  BY DEF StoredInv, QueueInv, IsGood
<1>2. ASSUME UNCHANGED stored
      PROVE  Kept
  BY <1>1, <1>2, SameAdvances DEF IsFirm, KeepsFooting
<1>3. kind' = kind /\ failure' \in BOOLEAN
  <2>1. CASE UNCHANGED vars \/ FailNext
    BY <1>1, <2>1 DEF vars, FailNext
  <2>2. ASSUME NEW h \in Handle, Open(h) \/ Close(h) \/ (\E op \in Calls : Call(h, op))
        PROVE  kind' = kind /\ failure' \in BOOLEAN
    BY <1>1, <2>2 DEF Open, Close, Call
  <2>3. ASSUME NEW h \in Handle, Run(h)
        PROVE  kind' = kind /\ failure' \in BOOLEAN
    BY <1>1, <2>3 DEF Run, RunLoad, RunPersist, RunInstall, RunPersistSnapshot, RunCover,
                      RunCompact, RunClose, RunStopped
  <2> QED
    BY <2>1, <2>2, <2>3 DEF Next
<1>4. ASSUME UNCHANGED vars \/ FailNext
      PROVE  Kept
  BY <1>2, <1>4 DEF vars, FailNext
<1>5. ASSUME NEW h \in Handle, Open(h) \/ Close(h) \/ (\E op \in Calls : Call(h, op))
      PROVE  Kept
  BY <1>2, <1>5 DEF Open, Close, Call
<1>6. ASSUME NEW h \in Handle, RunLoad(h) \/ RunClose(h) \/ RunStopped(h)
      PROVE  Kept
  BY <1>2, <1>6 DEF RunLoad, RunClose, RunStopped
<1>7. ASSUME NEW h \in Handle, RunPersist(h)
      PROVE  Kept
  <2>0. PICK op \in Writes : \E batch \in Batch(op) :
          /\ IsNext(op, h)
          /\ IF ~failure /\ Accepts(stored, batch)
               THEN stored' = Written(stored, batch)
               ELSE stored' = IF failure THEN stored ELSE AfterRefusal(stored, batch)
    BY <1>7 DEF RunPersist
  <2>1. PICK batch \in Batch(op) :
          /\ IsNext(op, h)
          /\ IF ~failure /\ Accepts(stored, batch)
               THEN stored' = Written(stored, batch)
               ELSE stored' = IF failure THEN stored ELSE AfterRefusal(stored, batch)
    BY <2>0
  <2>2. IsBatch(batch) /\ PersistIsNext
    BY <2>1, BatchTyped DEF PersistIsNext
  <2>3. CASE ~failure /\ Accepts(stored, batch)
    <3>1. stored' = Written(stored, batch) /\ VolatileAccepts(stored, batch)
      BY <2>1, <2>3, DurableIsStricter DEF Accepts
    <3>2. kind = "durable" => DurableAccepts(stored, batch)
      BY <2>3 DEF Accepts
    <3>3. IsGood(stored') /\ Advances(stored, stored')
      BY <1>1, <2>2, <3>1, WritingAdvances
    <3>4. kind = "durable" => IsHeld(stored') /\ KeepsFooting
      BY <1>1, <2>2, <3>1, <3>2, WritingIsFirm DEF KeepsFooting
    <3> QED
      BY <3>3, <3>4
  <2>4. CASE stored' = stored
    BY <1>2, <2>4
  <2>5. CASE ~(~failure /\ Accepts(stored, batch)) /\ stored' # stored
    <3>1. /\ kind = "volatile" /\ TakesHardState(stored, batch)
          /\ stored' = [stored EXCEPT !.hardState = NextHardState(stored, batch)]
      BY <2>1, <2>5 DEF AfterRefusal
    <3> QED
      BY <1>1, <2>2, <3>1, RefusalAdvances
  <2> QED
    BY <2>3, <2>4, <2>5
<1>8. ASSUME NEW h \in Handle, RunInstall(h)
      PROVE  Kept
  <2>1. PICK snapshot \in SomeSnapshot :
          IF MayInstall(stored, snapshot) THEN stored' = Installed(stored, snapshot)
                                          ELSE stored' = stored
    BY <1>8 DEF RunInstall
  <2>2. snapshot \in Snapshot
    BY DEF SomeSnapshot, Snapshot, Index, Term
  <2>3. CASE MayInstall(stored, snapshot)
    <3>1. stored' = Installed(stored, snapshot)
      BY <2>1, <2>3
    <3>2. IsGood(stored') /\ Advances(stored, stored')
      BY <1>1, <2>2, <3>1, InstallingAdvances
    <3>3. kind = "durable" => IsHeld(stored') /\ KeepsFooting
      BY <1>1, <2>2, <2>3, <3>1, InstallingIsFirm DEF IsFirm, KeepsFooting
    <3> QED
      BY <3>2, <3>3
  <2>4. CASE ~MayInstall(stored, snapshot)
    BY <1>2, <2>1, <2>4
  <2> QED
    BY <2>3, <2>4
<1>9. ASSUME NEW h \in Handle, RunPersistSnapshot(h)
      PROVE  Kept
  <2>1. PICK snapshot \in SomeSnapshot :
          /\ kind = "volatile"
          /\ stored' = stored \/ stored' = [stored EXCEPT !.snapshot = snapshot]
    BY <1>9 DEF RunPersistSnapshot
  <2>2. snapshot \in Snapshot
    BY DEF SomeSnapshot, Snapshot, Index, Term
  <2>3. CASE stored' = stored
    BY <1>2, <2>3
  <2>4. CASE stored' = [stored EXCEPT !.snapshot = snapshot]
    <3>1. /\ IsGood(stored') /\ stored'.hardState = stored.hardState
          /\ stored'.entries = stored.entries /\ stored'.appliedIndex = stored.appliedIndex
      BY <1>1, <2>2, <2>4, SnapshotReplaced
    <3>2. Advances(stored, stored')
      BY <1>1, <3>1, SameAdvances DEF Advances
    <3> QED
      BY <2>1, <3>1, <3>2
  <2> QED
    BY <2>1, <2>3, <2>4
<1>10. ASSUME NEW h \in Handle, RunCover(h)
       PROVE  Kept
  <2>1. /\ Head(tasks) = tasks[1] /\ 1 \in DOMAIN tasks /\ Head(tasks) \in Task
        /\ Head(tasks).op = "cover" /\ stored' = Covered(stored, Head(tasks).index)
    BY <1>10, TailElements DEF RunCover, IsNext, QueueInv
  <2>2. Head(tasks).index = stored.snapshot.lastIncludedIndex /\ kind = "volatile"
    BY <2>1 DEF CoverInv, QueueInv, Fits
  <2>3. Head(tasks).index \in Nat /\ Head(tasks).index <= stored.snapshot.lastIncludedIndex
    <3>1. stored.snapshot.lastIncludedIndex \in Nat
      BY <1>1, StoredFields
    <3> QED
      BY <2>2, <3>1
  <2>4. IsGood(stored') /\ Advances(stored, stored')
    BY <1>1, <2>1, <2>3, CoveringAdvances
  <2> QED
    BY <2>2, <2>4
<1>11. ASSUME NEW h \in Handle, RunCompact(h)
       PROVE  Kept
  <2>1. PICK through \in Index :
          IF MayCompact(stored, through) THEN stored' = Compacted(stored, through)
                                         ELSE stored' = stored
    BY <1>11 DEF RunCompact
  <2>2. through \in Nat
    BY DEF Index
  <2>3. CASE MayCompact(stored, through)
    <3>1. stored' = Compacted(stored, through)
      BY <2>1, <2>3
    <3> QED
      BY <1>1, <2>2, <2>3, <3>1, CompactingAdvances DEF IsFirm, KeepsFooting
  <2>4. CASE ~MayCompact(stored, through)
    BY <1>2, <2>1, <2>4
  <2> QED
    BY <2>3, <2>4
<1>12. Kept
  <2> HIDE DEF Kept
  <2> QED
    BY <1>4, <1>5, <1>6, <1>7, <1>8, <1>9, <1>10, <1>11 DEF Next, Run
<1> QED
  BY <1>3, <1>12 DEF StoredInv

LEMMA StoredStart ==
  ASSUME Init
  PROVE  StoredInv /\ CoverInv
<1>1. /\ stored.hardState = [currentTerm |-> 0, votedFor |-> Nil, commitIndex |-> 0]
      /\ stored.snapshot = [lastIncludedIndex |-> 0, lastIncludedTerm |-> 0]
      /\ stored.appliedIndex = 0 /\ stored.entries = <<>>
      /\ stored = [hardState |-> stored.hardState, entries |-> stored.entries,
                   snapshot |-> stored.snapshot, appliedIndex |-> stored.appliedIndex]
      /\ failure = FALSE /\ tasks = <<>>
  BY DEF Init, Blank, NoSnapshot
<1>2. IsSpan(<<>>, 1, 0)
  BY DEF IsSpan
<1>3. IsTyped(stored)
  BY <1>1 DEF IsTyped, HardState, Snapshot
<1>4. IsGood(stored)
  BY <1>1, <1>2, <1>3 DEF IsGood
<1>5. IsHeld(stored)
  BY <1>1, <1>2 DEF IsHeld
<1> QED
  <2>1. StoredInv
    BY <1>1, <1>4, <1>5 DEF StoredInv
  <2>2. DOMAIN tasks = {}
    BY <1>1
  <2> QED
    BY <2>1, <2>2 DEF CoverInv

-----------------------------------------------------------------------------
(* The theorems                                                            *)

\* The inductive invariant: the queue is in order, the newest owner knows what is
\* stored, and what is stored is a log without a gap that a snapshot may precede.
StorageInv == QueueInv /\ CoverInv /\ StoredInv /\ OwnerInv

\* StorageInv holds in every reachable state: both the calls of the storages and the
\* microtasks they leave on the queue keep it.
THEOREM StorageIsInOrder == Spec => []StorageInv
<1>1. Init => StorageInv
  BY QueueStart, StoredStart DEF StorageInv, Init, OwnerInv
<1>2. StorageInv /\ [Next]_vars => StorageInv'
  BY QueueStep, CoverStep, StoredStep, OwnerStep DEF StorageInv, StoredInv
<1> QED
  BY <1>1, <1>2, PTL DEF Spec

LEMMA GoodIsStored ==
  ASSUME NEW s, IsGood(s)
  PROVE  IsStored(s)
<1>1. PICK lo, hi : IsSpan(s.entries, lo, hi)
  BY DEF IsGood
<1>2. /\ s.entries \in [DOMAIN s.entries -> Nat] /\ DOMAIN s.entries \subseteq Nat
      /\ \A i, j \in DOMAIN s.entries : i .. j \subseteq DOMAIN s.entries
  BY <1>1 DEF IsSpan
<1> QED
  BY <1>2 DEF IsStored, IsGood, IsTyped

\* TypeOK: no call, right or wrong, leaves a gap in the log or more applied than
\* is committed, in either storage.
THEOREM TypeCorrect == Spec => []TypeOK
<1>1. StorageInv => TypeOK
  BY GoodIsStored DEF StorageInv, QueueInv, StoredInv, OwnerInv, IsGood, TypeOK
<1> QED
  BY <1>1, StorageIsInOrder, PTL

\* OwnerKnowsStorage: what the newest process loaded, with what it was told is
\* written, is what is stored, however many processes open the storage in turn.
THEOREM OwnersKnow == Spec => []OwnerKnowsStorage
<1>1. StorageInv => OwnerKnowsStorage
  BY DEF StorageInv, OwnerInv, OwnerKnowsStorage
<1> QED
  BY <1>1, StorageIsInOrder, PTL

\* IsStartable says the same as IsRooted, of a state whose commit index is in its log.
LEMMA StartableIsRooted ==
  ASSUME NEW s, IsGood(s), IsHeld(s)
  PROVE  IsStartable(s) <=> IsRooted(s)
<1> DEFINE boundary == s.snapshot.lastIncludedIndex
           commit == s.hardState.commitIndex
           c == Compacted(s, boundary)
<1>1. /\ IsTyped(s) /\ boundary \in Nat /\ commit \in Nat /\ s.appliedIndex \in Nat
      /\ s.appliedIndex <= commit
  BY StoredFields DEF IsGood
<1>2. /\ c.hardState = s.hardState /\ c.snapshot = s.snapshot
      /\ c.appliedIndex = s.appliedIndex
      /\ c.entries = Restrict(s.entries, {i \in DOMAIN s.entries : i > boundary})
  BY <1>1 DEF Compacted, IsTyped
<1> HIDE DEF c
<1>3. IsStartable(s) <=> /\ DOMAIN c.entries = boundary + 1 .. LastOf(c.entries, c.snapshot)
                         /\ commit \in boundary .. LastOf(c.entries, c.snapshot)
  BY <1>1, <1>2 DEF IsStartable, CanStart, c
<1>4. ASSUME NEW lo, NEW hi, IsSpan(s.entries, lo, hi)
      PROVE  LET from == IF lo > boundary THEN lo ELSE boundary + 1
             IN  /\ lo \in Nat /\ hi \in Nat /\ DOMAIN c.entries = from .. hi
                 /\ LastOf(c.entries, c.snapshot) = IF from <= hi THEN hi ELSE boundary
  <2> DEFINE from == IF lo > boundary THEN lo ELSE boundary + 1
  <2>1. IsSpan(c.entries, from, hi)
    BY <1>1, <1>2, <1>4, SpanAbove
  <2>2. LastOf(c.entries, c.snapshot) = IF from <= hi THEN hi ELSE boundary
    BY <1>2, <2>1, LastOfSpan
  <2> QED
    BY <1>4, <2>1, <2>2 DEF IsSpan
<1>5. ASSUME IsRooted(s)
      PROVE  IsStartable(s)
  <2>1. PICK lo, hi : /\ IsSpan(s.entries, lo, hi)
                      /\ lo <= hi => lo <= boundary + 1 /\ commit <= hi
                      /\ lo > hi => commit <= boundary
    BY <1>5 DEF IsRooted
  <2> DEFINE from == IF lo > boundary THEN lo ELSE boundary + 1
  <2>2. /\ lo \in Nat /\ hi \in Nat /\ DOMAIN c.entries = from .. hi
        /\ LastOf(c.entries, c.snapshot) = IF from <= hi THEN hi ELSE boundary
    BY <1>4, <2>1
  <2>3. boundary <= commit
    BY <1>5 DEF IsRooted
  <2>4. from <= hi => from = boundary + 1
    BY <1>1, <2>1, <2>2
  <2>5. DOMAIN c.entries = boundary + 1 .. LastOf(c.entries, c.snapshot)
    BY <1>1, <2>2, <2>4
  <2>6. commit \in boundary .. LastOf(c.entries, c.snapshot)
    BY <1>1, <2>1, <2>2, <2>3
  <2> QED
    BY <1>3, <2>5, <2>6
<1>6. ASSUME IsStartable(s)
      PROVE  IsRooted(s)
  <2>1. PICK lo, hi : /\ IsSpan(s.entries, lo, hi)
                      /\ lo <= hi => commit <= hi
                      /\ lo > hi => commit <= boundary
    BY DEF IsHeld
  <2> DEFINE from == IF lo > boundary THEN lo ELSE boundary + 1
  <2>2. /\ lo \in Nat /\ hi \in Nat /\ from .. hi = boundary + 1 .. LastOf(c.entries, c.snapshot)
        /\ LastOf(c.entries, c.snapshot) = IF from <= hi THEN hi ELSE boundary
        /\ boundary <= commit
    BY <1>1, <1>3, <1>4, <1>6, <2>1
  <2>3. ASSUME lo <= hi
        PROVE  lo <= boundary + 1
    <3>1. CASE from <= hi
      <4>1. from .. hi = boundary + 1 .. hi
        BY <2>2, <3>1
      <4>2. boundary + 1 \in boundary + 1 .. hi
        BY <1>1, <2>2, <3>1
      <4>3. boundary + 1 \in from .. hi
        BY <4>1, <4>2
      <4> QED
        BY <1>1, <2>2, <4>3
    <3>2. CASE ~(from <= hi)
      BY <1>1, <2>2, <2>3, <3>2
    <3> QED
      BY <3>1, <3>2
  <2> QED
    BY <2>1, <2>2, <2>3 DEF IsRooted
<1> QED
  BY <1>5, <1>6

\* StaysStartable, whatever callers persist: once the constructor of RaftCore accepts
\* what is stored, compacted, it still does after every call, but for a persist with
\* a snapshot that is older than the present one or beyond the commit index.
THEOREM NodesCanStart == Spec => StaysStartable
<1>1. ASSUME StorageInv, [Next]_vars, kind = "durable", IsStartable(stored)
      PROVE  \/ IsStartable(stored')
             \/ /\ PersistIsNext
                /\ stored'.snapshot.lastIncludedIndex \notin
                     stored.snapshot.lastIncludedIndex .. stored'.hardState.commitIndex
  <2>1. QueueInv /\ CoverInv /\ StoredInv /\ IsGood(stored) /\ IsHeld(stored)
    BY <1>1 DEF StorageInv, StoredInv
  <2>2. StoredInv' /\ KeepsFooting
    BY <1>1, <2>1, StoredStep
  <2>3. kind' = kind
    BY <1>1 DEF Next, vars, FailNext, Open, Close, Call, Run, RunLoad, RunPersist, RunInstall,
                RunPersistSnapshot, RunCover, RunCompact, RunClose, RunStopped
  <2>4. IsGood(stored') /\ IsHeld(stored')
    BY <1>1, <2>2, <2>3 DEF StoredInv
  <2>5. IsRooted(stored)
    BY <1>1, <2>1, StartableIsRooted
  <2>6. IsRooted(stored') => IsStartable(stored')
    BY <2>4, StartableIsRooted
  <2> QED
    BY <2>2, <2>5, <2>6 DEF KeepsFooting
<1>2. StorageInv /\ [Next]_vars =>
        [kind = "durable" /\ IsStartable(stored) =>
           \/ IsStartable(stored')
           \/ /\ PersistIsNext
              /\ stored'.snapshot.lastIncludedIndex \notin
                   stored.snapshot.lastIncludedIndex .. stored'.hardState.commitIndex]_vars
  BY <1>1
<1> QED
  BY <1>2, StorageIsInOrder, PTL DEF Spec, StaysStartable

\* RefusedChangesNothing: whichever of its checks a call fails, or if it meets an
\* injected failure, it leaves what is stored alone, but for the excepted batch.
THEOREM RefusalsChangeNothing == Spec => RefusedChangesNothing
<1>1. ASSUME StorageInv, [Next]_vars, NEW h \in Handle,
             outcome[h] = "pending", outcome'[h] = "refused",
             ~(kind = "volatile" /\ IsNext("persistBoth", h))
      PROVE  stored' = stored
  <2>1. IsGood(stored) /\ outcome \in [Handle -> {"pending", "done", "refused"}]
    BY <1>1 DEF StorageInv, StoredInv, QueueInv
  <2>2. CASE UNCHANGED vars \/ FailNext
    BY <2>2 DEF vars, FailNext
  <2>3. ASSUME NEW g \in Handle, Open(g) \/ Close(g) \/ (\E op \in Calls : Call(g, op))
        PROVE  stored' = stored
    BY <2>3 DEF Open, Close, Call
  <2>4. ASSUME NEW g \in Handle, Run(g)
        PROVE  stored' = stored
    <3>1. CASE RunLoad(g) \/ RunClose(g) \/ RunStopped(g)
      BY <3>1 DEF RunLoad, RunClose, RunStopped
    <3>2. CASE RunPersist(g)
      <4>1. PICK op \in Writes : \E batch \in Batch(op) :
              /\ IsNext(op, g)
              /\ IF ~failure /\ Accepts(stored, batch)
                   THEN outcome' = [outcome EXCEPT ![g] = "done"]
                   ELSE /\ stored' = IF failure THEN stored ELSE AfterRefusal(stored, batch)
                        /\ outcome' = [outcome EXCEPT ![g] = "refused"]
        BY <3>2 DEF RunPersist, Settle
      <4>2. PICK batch \in Batch(op) :
              /\ IsNext(op, g)
              /\ IF ~failure /\ Accepts(stored, batch)
                   THEN outcome' = [outcome EXCEPT ![g] = "done"]
                   ELSE /\ stored' = IF failure THEN stored ELSE AfterRefusal(stored, batch)
                        /\ outcome' = [outcome EXCEPT ![g] = "refused"]
        BY <4>1
      <4>3. g = h /\ ~(~failure /\ Accepts(stored, batch))
        BY <1>1, <2>1, <4>2
      <4>4. CASE failure
        BY <4>2, <4>3, <4>4
      <4>5. CASE ~failure
        <5>1. stored' = AfterRefusal(stored, batch) /\ ~Accepts(stored, batch)
          BY <4>2, <4>3, <4>5
        <5>2. CASE kind # "volatile" \/ ~TakesHardState(stored, batch)
          BY <5>1, <5>2 DEF AfterRefusal
        <5>3. CASE kind = "volatile" /\ TakesHardState(stored, batch)
          <6>1. ~VolatileAccepts(stored, batch) /\ op # "persistBoth"
            BY <1>1, <4>2, <4>3, <5>1, <5>3 DEF Accepts
          <6>2. batch.appliedIndex # Nil
            BY <5>3, <6>1 DEF VolatileAccepts
          <6>3. batch.hardState = Nil
            BY <4>2, <6>1, <6>2, BatchTyped DEF HasBoth
          <6>4. AfterRefusal(stored, batch) = [stored EXCEPT !.hardState = stored.hardState]
            BY <5>3, <6>3 DEF AfterRefusal, NextHardState, Given
          <6>5. [stored EXCEPT !.hardState = stored.hardState] = stored
            BY <2>1 DEF IsGood, IsTyped
          <6> QED
            BY <5>1, <6>4, <6>5
        <5> QED
          BY <5>2, <5>3
      <4> QED
        BY <4>4, <4>5
    <3>3. CASE RunInstall(g)
      BY <1>1, <2>1, <3>3 DEF RunInstall, Settle
    <3>4. CASE RunPersistSnapshot(g)
      BY <1>1, <2>1, <3>4 DEF RunPersistSnapshot, Settle
    <3>5. CASE RunCover(g)
      BY <1>1, <2>1, <3>5 DEF RunCover, Settle
    <3>6. CASE RunCompact(g)
      BY <1>1, <2>1, <3>6 DEF RunCompact, Settle
    <3> QED
      BY <2>4, <3>1, <3>2, <3>3, <3>4, <3>5, <3>6 DEF Run
  <2> QED
    BY <1>1, <2>2, <2>3, <2>4 DEF Next
<1>2. StorageInv /\ [Next]_vars =>
        [\A h \in Handle :
           /\ outcome[h] = "pending" /\ outcome'[h] = "refused"
           /\ ~(kind = "volatile" /\ IsNext("persistBoth", h))
           => stored' = stored]_vars
  BY <1>1
<1> QED
  BY <1>2, StorageIsInOrder, PTL DEF Spec, RefusedChangesNothing

\* NothingGoesBack: no sequence of calls, whatever they persist, takes back a term, a
\* commit or an applied index, a committed entry that no snapshot includes or, on the
\* durable storage, a vote; and only persist takes back its snapshot.
THEOREM StorageAdvances == Spec => NothingGoesBack
<1>1. StorageInv /\ [Next]_vars =>
        [LET old == stored new == stored' IN
           /\ new.hardState.currentTerm >= old.hardState.currentTerm
           /\ new.hardState.commitIndex >= old.hardState.commitIndex
           /\ new.appliedIndex >= old.appliedIndex
           /\ \A i \in DOMAIN old.entries : i <= old.hardState.commitIndex =>
                \/ i \in DOMAIN new.entries /\ new.entries[i] = old.entries[i]
                \/ i <= new.snapshot.lastIncludedIndex
           /\ kind = "durable" =>
                /\ \/ new.hardState.currentTerm > old.hardState.currentTerm
                   \/ old.hardState.votedFor \in {Nil, new.hardState.votedFor}
                /\ \/ new.snapshot.lastIncludedIndex >= old.snapshot.lastIncludedIndex
                   \/ PersistIsNext]_vars
  BY StoredStep DEF StorageInv, Advances, KeepsFooting, KeepsVote, KeepsSnapshot
<1> QED
  BY <1>1, StorageIsInOrder, PTL DEF Spec, NothingGoesBack
=============================================================================
