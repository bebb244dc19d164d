-------------------------- MODULE VisualizerProofs ---------------------------
(***************************************************************************)
(* Theorems about modules MemoryNetwork and Visualizer, for every cluster, *)
(* every number of pages and every bound.                                  *)
(***************************************************************************)
EXTENDS Visualizer, SequenceTheorems, TLAPS

-----------------------------------------------------------------------------
(* The queue of the network                                                *)

\* Messages that are numbered, each once, below nextMessageId.
Numbers(q, next) ==
    /\ q \in Seq(Pending) /\ next \in Nat
    /\ \A i \in DOMAIN q : q[i].id < next
    /\ \A i, j \in DOMAIN q : q[i].id = q[j].id => i = j

\* Every message of new is one of old, or has an id that old's counter had not reached.
OldOrNew(new, old, next) ==
    \A i \in DOMAIN new : new[i].id >= next \/ \E j \in DOMAIN old : new[i] = old[j]

LEMMA PendingFields ==
  ASSUME NEW m \in Pending
  PROVE  /\ m.id \in 1 .. MaxId /\ m.id \in Nat /\ m.from \in Server /\ m.to \in Server
         /\ <<m.from, m.to>> \in Talk
         /\ m = [id |-> m.id, from |-> m.from, to |-> m.to]
  BY NetworkBounds DEF Pending

LEMMA Joined ==
  ASSUME NEW a \in Seq(Pending), NEW b \in Seq(Pending),
         NEW la, la = Len(a), NEW n, n = la + Len(b)
  PROVE  /\ a \o b \in Seq(Pending) /\ Len(a \o b) = n
         /\ \A i \in 1 .. n : (a \o b)[i] = IF i <= la THEN a[i] ELSE b[i - la]
  BY ConcatProperties

LEMMA RemovedElements ==
  ASSUME NEW q \in Seq(Pending), NEW k \in DOMAIN q
  PROVE  /\ RemoveAt(q, k) \in Seq(Pending)
         /\ Len(RemoveAt(q, k)) = Len(q) - 1
         /\ \A i \in DOMAIN RemoveAt(q, k) :
                RemoveAt(q, k)[i] = IF i < k THEN q[i] ELSE q[i + 1]
<1>1. k \in 1 .. Len(q) /\ Len(q) \in Nat
  OBVIOUS
<1>2. /\ SubSeq(q, 1, k - 1) \in Seq(Pending) /\ Len(SubSeq(q, 1, k - 1)) = k - 1
      /\ \A i \in 1 .. k - 1 : SubSeq(q, 1, k - 1)[i] = q[i]
  BY <1>1
<1>3. /\ SubSeq(q, k + 1, Len(q)) \in Seq(Pending)
      /\ Len(SubSeq(q, k + 1, Len(q))) = Len(q) - k
      /\ \A i \in 1 .. Len(q) - k : SubSeq(q, k + 1, Len(q))[i] = q[k + i]
  BY <1>1
<1> DEFINE front == SubSeq(q, 1, k - 1)
           back == SubSeq(q, k + 1, Len(q))
<1>4. RemoveAt(q, k) = front \o back
  BY DEF RemoveAt
<1>5. /\ front \in Seq(Pending) /\ Len(front) = k - 1
      /\ back \in Seq(Pending) /\ Len(back) = Len(q) - k
      /\ \A i \in 1 .. k - 1 : front[i] = q[i]
      /\ \A i \in 1 .. Len(q) - k : back[i] = q[k + i]
  BY <1>2, <1>3
<1> HIDE DEF front, back
<1>6. /\ front \o back \in Seq(Pending) /\ Len(front \o back) = Len(q) - 1
      /\ \A i \in 1 .. Len(q) - 1 :
            (front \o back)[i] = IF i < k THEN front[i] ELSE back[i - (k - 1)]
  <2> DEFINE la == k - 1
             n == Len(q) - 1
  <2>1. /\ front \in Seq(Pending) /\ back \in Seq(Pending)
        /\ la = Len(front) /\ n = la + Len(back)
    BY <1>1, <1>5
  <2> HIDE DEF la, n
  <2>2. /\ front \o back \in Seq(Pending) /\ Len(front \o back) = n
        /\ \A i \in 1 .. n :
              (front \o back)[i] = IF i <= la THEN front[i] ELSE back[i - la]
    BY <2>1, Joined
  <2> QED
    BY <1>1, <2>2 DEF la, n
<1>7. \A i \in 1 .. Len(q) - 1 :
         (front \o back)[i] = IF i < k THEN q[i] ELSE q[i + 1]
  <2> SUFFICES ASSUME NEW i \in 1 .. Len(q) - 1
               PROVE  (front \o back)[i] = IF i < k THEN q[i] ELSE q[i + 1]
    OBVIOUS
  <2>1. CASE i < k
    BY <2>1, <1>1, <1>5, <1>6
  <2>2. CASE ~(i < k)
    <3>1. i - (k - 1) \in 1 .. Len(q) - k /\ k + (i - (k - 1)) = i + 1
      BY <2>2, <1>1
    <3> QED
      BY <2>2, <3>1, <1>1, <1>5, <1>6
  <2> QED
    BY <2>1, <2>2
<1> QED
  BY <1>4, <1>6, <1>7

LEMMA InsertedElements ==
  ASSUME NEW q \in Seq(Pending), NEW k \in DOMAIN q, NEW m \in Pending
  PROVE  /\ InsertAt(q, k, m) \in Seq(Pending)
         /\ Len(InsertAt(q, k, m)) = Len(q) + 1
         /\ \A i \in DOMAIN InsertAt(q, k, m) :
                InsertAt(q, k, m)[i] =
                    IF i < k THEN q[i] ELSE IF i = k THEN m ELSE q[i - 1]
<1>1. k \in 1 .. Len(q) /\ Len(q) \in Nat
  OBVIOUS
<1>2. /\ SubSeq(q, 1, k - 1) \in Seq(Pending) /\ Len(SubSeq(q, 1, k - 1)) = k - 1
      /\ \A i \in 1 .. k - 1 : SubSeq(q, 1, k - 1)[i] = q[i]
  BY <1>1
<1>3. /\ SubSeq(q, k, Len(q)) \in Seq(Pending)
      /\ Len(SubSeq(q, k, Len(q))) = Len(q) - k + 1
      /\ \A i \in 1 .. Len(q) - k + 1 : SubSeq(q, k, Len(q))[i] = q[k + i - 1]
  BY <1>1
<1> DEFINE fore == SubSeq(q, 1, k - 1)
           front == fore \o <<m>>
           back == SubSeq(q, k, Len(q))
<1>4. InsertAt(q, k, m) = front \o back
  BY DEF InsertAt
<1>5. /\ fore \in Seq(Pending) /\ Len(fore) = k - 1
      /\ back \in Seq(Pending) /\ Len(back) = Len(q) - k + 1
      /\ \A i \in 1 .. k - 1 : fore[i] = q[i]
      /\ \A i \in 1 .. Len(q) - k + 1 : back[i] = q[k + i - 1]
  BY <1>2, <1>3
<1> HIDE DEF fore, back
<1>6. /\ front \in Seq(Pending) /\ Len(front) = k
      /\ \A i \in 1 .. k : front[i] = IF i < k THEN q[i] ELSE m
  <2>1. front = Append(fore, m)
    BY <1>5, AppendIsConcat
  <2>2. /\ Append(fore, m) \in Seq(Pending) /\ Len(Append(fore, m)) = (k - 1) + 1
        /\ \A i \in 1 .. k - 1 : Append(fore, m)[i] = fore[i]
        /\ Append(fore, m)[(k - 1) + 1] = m
    BY <1>1, <1>5, AppendProperties
  <2>3. (k - 1) + 1 = k /\ \A i \in 1 .. k : IF i < k THEN i \in 1 .. k - 1 ELSE i = k
    BY <1>1
  <2> HIDE DEF front
  <2> QED
    BY <2>1, <2>2, <2>3, <1>5
<1> HIDE DEF front
<1>7. /\ front \o back \in Seq(Pending) /\ Len(front \o back) = Len(q) + 1
      /\ \A i \in 1 .. Len(q) + 1 :
            (front \o back)[i] = IF i <= k THEN front[i] ELSE back[i - k]
  <2>1. k + (Len(q) - k + 1) = Len(q) + 1
    BY <1>1
  <2> QED
    <3>1. k = Len(front) /\ Len(q) + 1 = k + Len(back)
      BY <2>1, <1>5, <1>6
    <3> QED
      BY <3>1, <1>5, <1>6, Joined
<1>8. \A i \in 1 .. Len(q) + 1 :
         (front \o back)[i] = IF i < k THEN q[i] ELSE IF i = k THEN m ELSE q[i - 1]
  <2> SUFFICES ASSUME NEW i \in 1 .. Len(q) + 1
               PROVE  (front \o back)[i] =
                          IF i < k THEN q[i] ELSE IF i = k THEN m ELSE q[i - 1]
    OBVIOUS
  <2>1. CASE i <= k
    BY <2>1, <1>1, <1>6, <1>7
  <2>2. CASE ~(i <= k)
    <3>1. i - k \in 1 .. Len(q) - k + 1 /\ k + (i - k) - 1 = i - 1
      BY <2>2, <1>1
    <3>2. back[i - k] = q[i - 1]
      BY <3>1, <1>5
    <3>3. (front \o back)[i] = back[i - k]
      BY <2>2, <1>7
    <3> QED
      BY <2>2, <3>2, <3>3, <1>1
  <2> QED
    BY <2>1, <2>2
<1> QED
  BY <1>4, <1>7, <1>8

LEMMA RemovalKeepsNumbers ==
  ASSUME NEW q, NEW next, Numbers(q, next), NEW k \in DOMAIN q
  PROVE  Numbers(RemoveAt(q, k), next) /\ OldOrNew(RemoveAt(q, k), q, next)
<1> DEFINE r == RemoveAt(q, k)
<1>1. q \in Seq(Pending) /\ k \in 1 .. Len(q) /\ Len(q) \in Nat
  BY DEF Numbers
<1>2. /\ r \in Seq(Pending) /\ Len(r) = Len(q) - 1
      /\ \A i \in DOMAIN r : r[i] = IF i < k THEN q[i] ELSE q[i + 1]
  BY <1>1, RemovedElements
<1> HIDE DEF r
<1>3. \A i \in DOMAIN r : \E j \in DOMAIN q : r[i] = q[j] /\ j = IF i < k THEN i ELSE i + 1
  BY <1>1, <1>2
<1>4. Numbers(r, next)
  BY <1>1, <1>2, <1>3 DEF Numbers
<1>5. OldOrNew(r, q, next)
  BY <1>3 DEF OldOrNew
<1> QED
  BY <1>4, <1>5 DEF r

LEMMA CopyKeepsNumbers ==
  ASSUME NEW k \in DOMAIN queue, Numbers(queue, nextMessageId), nextMessageId \in 1 .. MaxId
  PROVE  /\ Numbers(InsertAt(queue, k, Copy(queue[k])), nextMessageId + 1)
         /\ OldOrNew(InsertAt(queue, k, Copy(queue[k])), queue, nextMessageId)
<1> DEFINE m == Copy(queue[k])
           r == InsertAt(queue, k, m)
<1>1. queue \in Seq(Pending) /\ k \in 1 .. Len(queue) /\ Len(queue) \in Nat
  BY DEF Numbers
<1>2. queue[k] \in Pending
  BY <1>1
<1>3. m \in Pending /\ m.id = nextMessageId
  BY <1>2, PendingFields DEF Copy, Pending
<1> HIDE DEF m
<1>4. /\ r \in Seq(Pending) /\ Len(r) = Len(queue) + 1
      /\ \A i \in DOMAIN r : r[i] = IF i < k THEN queue[i] ELSE IF i = k THEN m ELSE queue[i - 1]
  BY <1>1, <1>3, InsertedElements
<1> HIDE DEF r
<1>5. \A i \in DOMAIN r : i # k =>
         \E j \in DOMAIN queue : r[i] = queue[j] /\ j = IF i < k THEN i ELSE i - 1
  BY <1>1, <1>4
<1>6. k \in DOMAIN r /\ r[k] = m
  BY <1>1, <1>4
<1>7. \A i \in DOMAIN r : i # k => r[i].id < nextMessageId
  BY <1>5 DEF Numbers
<1>8. \A i \in DOMAIN r : r[i].id \in Nat
  <2>1. \A i \in DOMAIN r : r[i] \in Pending
    BY <1>4
  <2> QED
    BY <2>1, PendingFields
<1>9. \A i \in DOMAIN r : r[i].id < nextMessageId + 1
  BY <1>3, <1>6, <1>7, <1>8 DEF Numbers
<1>10. \A i, j \in DOMAIN r : r[i].id = r[j].id => i = j
  <2> SUFFICES ASSUME NEW i \in DOMAIN r, NEW j \in DOMAIN r, r[i].id = r[j].id
               PROVE  i = j
    OBVIOUS
  <2>1. CASE i = k \/ j = k
    BY <2>1, <1>3, <1>6, <1>7, <1>8 DEF Numbers
  <2>2. CASE i # k /\ j # k
    BY <2>2, <1>1, <1>4, <1>5 DEF Numbers
  <2> QED
    BY <2>1, <2>2
<1>11. OldOrNew(r, queue, nextMessageId)
  BY <1>3, <1>5, <1>6 DEF OldOrNew, Numbers
<1>12. Numbers(r, nextMessageId + 1)
  BY <1>4, <1>9, <1>10 DEF Numbers
<1> QED
  BY <1>11, <1>12 DEF r, m

LEMMA ReversalKeepsNumbers ==
  ASSUME NEW q, NEW next, Numbers(q, next)
  PROVE  Numbers(Reverse(q), next) /\ OldOrNew(Reverse(q), q, next)
<1> DEFINE r == Reverse(q)
<1>1. q \in Seq(Pending) /\ Len(q) \in Nat /\ DOMAIN q = 1 .. Len(q)
  BY DEF Numbers
<1>2. \A i \in 1 .. Len(q) : (Len(q) - i) + 1 \in 1 .. Len(q)
  BY <1>1
<1>3. r = [i \in 1 .. Len(q) |-> q[(Len(q) - i) + 1]]
  BY DEF Reverse
<1> HIDE DEF r
<1>4. \A i \in 1 .. Len(q) : r[i] = q[(Len(q) - i) + 1] /\ q[(Len(q) - i) + 1] \in Pending
  BY <1>1, <1>2, <1>3
<1>5. r \in [1 .. Len(q) -> Pending]
  BY <1>3, <1>4
<1>6. r \in Seq(Pending) /\ DOMAIN r = 1 .. Len(q)
  BY <1>1, <1>5
<1>7. \A i, j \in DOMAIN r : r[i].id = r[j].id => i = j
  <2> SUFFICES ASSUME NEW i \in DOMAIN r, NEW j \in DOMAIN r, r[i].id = r[j].id
               PROVE  i = j
    OBVIOUS
  <2> DEFINE k == (Len(q) - i) + 1
             l == (Len(q) - j) + 1
  <2>1. i \in 1 .. Len(q) /\ j \in 1 .. Len(q) /\ k \in DOMAIN q /\ l \in DOMAIN q
    BY <1>1, <1>2, <1>6
  <2>2. r[i] = q[k] /\ r[j] = q[l]
    BY <1>4, <2>1
  <2>3. i = (Len(q) - k) + 1 /\ j = (Len(q) - l) + 1
    BY <1>1, <2>1
  <2> HIDE DEF k, l
  <2>4. k = l
    BY <2>1, <2>2 DEF Numbers
  <2> QED
    BY <2>3, <2>4
<1>8. \A i \in DOMAIN r : r[i].id < next
  BY <1>1, <1>2, <1>4, <1>6 DEF Numbers
<1>9. Numbers(r, next)
  BY <1>6, <1>7, <1>8 DEF Numbers
<1>10. OldOrNew(r, q, next)
  BY <1>1, <1>2, <1>4, <1>6 DEF OldOrNew
<1> QED
  BY <1>9, <1>10 DEF r

\* What every operation of the network keeps.
QueueOK == Numbers(queue, nextMessageId) /\ nextMessageId \in 1 .. MaxId + 1
QueueKept == QueueOK' /\ OldOrNew(queue', queue, nextMessageId)

LEMMA NothingOnQueue ==
  ASSUME QueueOK, UNCHANGED <<queue, nextMessageId>>
  PROVE  QueueKept
  BY DEF QueueKept, QueueOK, OldOrNew, Numbers

LEMMA BurstIsNumbered ==
  ASSUME QueueOK, NEW s, NEW sent \in Sends(s), nextMessageId + Len(sent) <= MaxId + 1
  PROVE  /\ Numbered(sent, nextMessageId) \in Seq(Pending)
         /\ Len(sent) \in Nat /\ Len(Numbered(sent, nextMessageId)) = Len(sent)
         /\ \A k \in 1 .. Len(sent) :
                Numbered(sent, nextMessageId)[k].id = nextMessageId + k - 1
<1>1. PICK m \in 0 .. MaxBurst : sent \in [1 .. m -> Envelope]
  BY NetworkBounds DEF Sends, SeqOf
<1>2. Len(sent) = m /\ m \in Nat /\ DOMAIN sent = 1 .. m
  BY <1>1, NetworkBounds
<1> DEFINE numbered == Numbered(sent, nextMessageId)
<1>3. \A k \in 1 .. m : /\ sent[k].from \in Server /\ sent[k].to \in Server
                        /\ <<sent[k].from, sent[k].to>> \in Talk
  BY <1>1 DEF Envelope
<1>4. \A k \in 1 .. m : nextMessageId + k - 1 \in 1 .. MaxId
  BY <1>2, NetworkBounds DEF QueueOK, Numbers
<1>5. numbered = [k \in 1 .. m |->
                    [id |-> nextMessageId + k - 1, from |-> sent[k].from, to |-> sent[k].to]]
  BY <1>2 DEF Numbered
<1> HIDE DEF numbered
<1>6. \A k \in 1 .. m :
         [id |-> nextMessageId + k - 1, from |-> sent[k].from, to |-> sent[k].to] \in Pending
  BY <1>3, <1>4 DEF Pending
<1>7. numbered \in [1 .. m -> Pending] /\ \A k \in 1 .. m : numbered[k].id = nextMessageId + k - 1
  BY <1>5, <1>6
<1>8. numbered \in Seq(Pending) /\ Len(numbered) = m
  BY <1>2, <1>7
<1> QED
  BY <1>2, <1>7, <1>8 DEF numbered

LEMMA EnqueueKeepsQueue ==
  ASSUME QueueOK, NEW left, Numbers(left, nextMessageId),
         OldOrNew(left, queue, nextMessageId),
         NEW s, NEW sent \in Sends(s), Enqueue(left, sent)
  PROVE  QueueKept
<1> DEFINE next == nextMessageId
           numbered == Numbered(sent, next)
           q == left \o numbered
           n == Len(left) + Len(sent)
<1>1. /\ next' = next + Len(sent) /\ next + Len(sent) <= MaxId + 1 /\ queue' = q
  BY DEF Enqueue
<1>2. /\ numbered \in Seq(Pending) /\ Len(sent) \in Nat /\ Len(numbered) = Len(sent)
      /\ \A k \in 1 .. Len(sent) : numbered[k].id = next + k - 1
  BY <1>1, BurstIsNumbered
<1>3. left \in Seq(Pending) /\ Len(left) \in Nat /\ DOMAIN left = 1 .. Len(left)
  BY DEF Numbers
<1> HIDE DEF numbered
<1>4. /\ q \in Seq(Pending) /\ Len(q) = n /\ n \in Nat
      /\ \A i \in 1 .. n : q[i] = IF i <= Len(left) THEN left[i] ELSE numbered[i - Len(left)]
  <2>1. n = Len(left) + Len(numbered) /\ n \in Nat
    BY <1>2, <1>3
  <2> HIDE DEF n
  <2>2. /\ left \o numbered \in Seq(Pending)
        /\ Len(left \o numbered) = Len(left) + Len(numbered)
        /\ \A i \in 1 .. Len(left) + Len(numbered) :
              (left \o numbered)[i] =
                  IF i <= Len(left) THEN left[i] ELSE numbered[i - Len(left)]
    <3>1. left \in Seq(Pending) /\ numbered \in Seq(Pending)
      BY <1>2, <1>3
    <3> QED
      BY <3>1, Joined
  <2> QED
    BY <2>1, <2>2
<1> HIDE DEF q
<1>5. next \in Nat /\ next \in 1 .. MaxId + 1
  BY NetworkBounds DEF QueueOK, Numbers
<1>6. \A i \in 1 .. n : i <= Len(left) => q[i] = left[i] /\ i \in DOMAIN left /\ q[i].id < next
  BY <1>3, <1>4 DEF Numbers
<1>7. \A i \in 1 .. n : ~(i <= Len(left)) => q[i].id = next + (i - Len(left)) - 1
  <2> SUFFICES ASSUME NEW i \in 1 .. n, ~(i <= Len(left))
               PROVE  q[i].id = next + (i - Len(left)) - 1
    OBVIOUS
  <2>1. i - Len(left) \in 1 .. Len(sent)
    BY <1>2, <1>3
  <2> QED
    BY <2>1, <1>2, <1>4
<1>8. DOMAIN q = 1 .. n
  BY <1>4
<1>9. \A i \in 1 .. n : q[i].id \in Nat
  <2>1. \A i \in 1 .. n : q[i] \in Pending
    BY <1>4, <1>8
  <2> QED
    BY <2>1, PendingFields
<1>10. \A i \in 1 .. n : q[i].id < next + Len(sent)
  <2> SUFFICES ASSUME NEW i \in 1 .. n
               PROVE  q[i].id < next + Len(sent)
    OBVIOUS
  <2>1. CASE i <= Len(left)
    BY <2>1, <1>2, <1>5, <1>6, <1>9
  <2>2. CASE ~(i <= Len(left))
    BY <2>2, <1>2, <1>3, <1>5, <1>7
  <2> QED
    BY <2>1, <2>2
<1>11. \A i, j \in 1 .. n : q[i].id = q[j].id => i = j
  <2> SUFFICES ASSUME NEW i \in 1 .. n, NEW j \in 1 .. n, q[i].id = q[j].id
               PROVE  i = j
    OBVIOUS
  <2>1. CASE i <= Len(left) /\ j <= Len(left)
    BY <2>1, <1>6 DEF Numbers
  <2>2. CASE ~(i <= Len(left)) /\ ~(j <= Len(left))
    BY <2>2, <1>3, <1>5, <1>7
  <2>3. CASE i <= Len(left) /\ ~(j <= Len(left))
    BY <2>3, <1>3, <1>5, <1>6, <1>7, <1>9
  <2>4. CASE ~(i <= Len(left)) /\ j <= Len(left)
    BY <2>4, <1>3, <1>5, <1>6, <1>7, <1>9
  <2> QED
    BY <2>1, <2>2, <2>3, <2>4
<1>12. Numbers(q, next + Len(sent))
  BY <1>2, <1>4, <1>5, <1>8, <1>10, <1>11 DEF Numbers
<1>13. OldOrNew(q, queue, next)
  <2> SUFFICES ASSUME NEW i \in 1 .. n
               PROVE  q[i].id >= next \/ \E j \in DOMAIN queue : q[i] = queue[j]
    BY <1>8 DEF OldOrNew
  <2>1. CASE i <= Len(left)
    BY <2>1, <1>5, <1>6, <1>9 DEF OldOrNew
  <2>2. CASE ~(i <= Len(left))
    BY <2>2, <1>3, <1>5, <1>7
  <2> QED
    BY <2>1, <2>2
<1>14. next + Len(sent) \in 1 .. MaxId + 1
  BY <1>1, <1>2, <1>5, NetworkBounds
<1> QED
  BY <1>1, <1>12, <1>13, <1>14 DEF QueueKept, QueueOK

LEMMA RemovalKeepsQueue ==
  ASSUME QueueOK, NEW i \in DOMAIN queue, queue' = RemoveAt(queue, i), UNCHANGED nextMessageId
  PROVE  QueueKept
  BY RemovalKeepsNumbers DEF QueueKept, QueueOK

LEMMA HandlingKeepsQueue ==
  ASSUME QueueOK, NEW i \in DOMAIN queue, NEW bursts,
         bursts \subseteq Sends(queue[i].to) \cup {<<>>}, HandleAt(i, bursts)
  PROVE  QueueKept
<1>1. PICK sent \in bursts : Enqueue(RemoveAt(queue, i), sent)
  BY DEF HandleAt
<1>2. Numbers(RemoveAt(queue, i), nextMessageId) /\ OldOrNew(RemoveAt(queue, i), queue, nextMessageId)
  BY RemovalKeepsNumbers DEF QueueOK
<1>3. sent \in Sends(queue[i].to)
  <2>1. <<>> \in SeqOf({e \in Envelope : e.from = queue[i].to /\ Passes(e)}, MaxBurst)
    <3>1. 0 \in 0 .. MaxBurst
      BY NetworkBounds
    <3>2. <<>> \in [1 .. 0 -> {e \in Envelope : e.from = queue[i].to /\ Passes(e)}]
      OBVIOUS
    <3> QED
      BY <3>1, <3>2 DEF SeqOf
  <2> QED
    BY <1>1, <2>1 DEF Sends
<1> QED
  BY <1>1, <1>2, <1>3, EnqueueKeepsQueue

LEMMA DeliveryKeepsQueue ==
  ASSUME QueueOK, NEW i \in DOMAIN queue, DeliverAt(i)
  PROVE  QueueKept
<1>1. CASE HandleAt(i, Sends(queue[i].to))
  BY <1>1, HandlingKeepsQueue
<1>2. CASE DropAt(i)
  BY <1>2, RemovalKeepsQueue DEF DropAt
<1> QED
  BY <1>1, <1>2 DEF DeliverAt

LEMMA FailureKeepsQueue ==
  ASSUME QueueOK, NEW i \in DOMAIN queue, DeliveryFails(i)
  PROVE  QueueKept
<1>1. HandleAt(i, BurstsOf(queue[i].to) \cup {<<>>})
  BY DEF DeliveryFails, ThrowAt
<1>2. BurstsOf(queue[i].to) \cup {<<>>} \subseteq Sends(queue[i].to) \cup {<<>>}
  BY DEF BurstsOf
<1> QED
  BY <1>1, <1>2, HandlingKeepsQueue

LEMMA DuplicateKeepsQueue ==
  ASSUME QueueOK, NEW i \in DOMAIN queue, DuplicateAt(i)
  PROVE  QueueKept
<1>1. /\ queue' = InsertAt(queue, i, Copy(queue[i]))
      /\ nextMessageId' = nextMessageId + 1 /\ nextMessageId \in 1 .. MaxId
  BY NetworkBounds DEF DuplicateAt, QueueOK
<1>2. /\ Numbers(InsertAt(queue, i, Copy(queue[i])), nextMessageId + 1)
      /\ OldOrNew(InsertAt(queue, i, Copy(queue[i])), queue, nextMessageId)
  BY <1>1, CopyKeepsNumbers DEF QueueOK
<1>3. nextMessageId' \in 1 .. MaxId + 1
  BY <1>1, NetworkBounds
<1> QED
  BY <1>1, <1>2, <1>3 DEF QueueKept, QueueOK

LEMMA ReverseKeepsQueue ==
  ASSUME QueueOK, ReverseQueue
  PROVE  QueueKept
  BY ReversalKeepsNumbers DEF ReverseQueue, QueueKept, QueueOK

LEMMA SendKeepsQueue ==
  ASSUME QueueOK, NEW s, SendFrom(s)
  PROVE  QueueKept
<1>1. PICK sent \in Sends(s) : Enqueue(queue, sent)
  BY DEF SendFrom
<1>2. Numbers(queue, nextMessageId) /\ OldOrNew(queue, queue, nextMessageId)
  BY DEF QueueOK, OldOrNew
<1> QED
  BY <1>1, <1>2, EnqueueKeepsQueue

-----------------------------------------------------------------------------
(* The operations of the visualizer on the queue                           *)

LEMMA MessageStepKeepsQueue ==
  ASSUME QueueOK, NEW id,
         \/ DeliverMessage(id) \/ DeliverMessageFails(id)
         \/ DropMessage(id) \/ DuplicateMessage(id)
  PROVE  QueueKept
<1>1. PICK i \in Found(id) :
        DeliverAt(i) \/ DeliveryFails(i) \/ DropAt(i) \/ DuplicateAt(i)
  BY DEF DeliverMessage, DeliverMessageFails, DropMessage, DuplicateMessage, Deliver
<1>2. i \in DOMAIN queue
  BY DEF Found
<1> QED
  BY <1>1, <1>2, DeliveryKeepsQueue, FailureKeepsQueue, RemovalKeepsQueue, DuplicateKeepsQueue
     DEF DropAt

LEMMA FirstIsThere ==
  ASSUME QueueOK, queue # <<>>
  PROVE  1 \in DOMAIN queue
<1>1. queue \in Seq(Pending)
  BY DEF QueueOK, Numbers
<1> QED
  BY <1>1

LEMMA StepKeepsQueue ==
  ASSUME QueueOK, [Next]_vars
  PROVE  QueueOK' /\ (~Reset => OldOrNew(queue', queue, nextMessageId))
<1> DEFINE Goal == QueueOK' /\ (~Reset => OldOrNew(queue', queue, nextMessageId))
<1>a. QueueKept => Goal
  BY DEF QueueKept
<1>b. UNCHANGED <<queue, nextMessageId>> => Goal
  BY <1>a, NothingOnQueue
<1> SUFFICES Goal
  OBVIOUS
<1> HIDE DEF Goal
<1>1. CASE Reset
  <2>1. queue' = <<>> /\ nextMessageId' = 1
    BY <1>1 DEF Reset
  <2>2. QueueOK'
    BY <2>1, NetworkBounds DEF QueueOK, Numbers
  <2> QED
    BY <1>1, <2>2 DEF Goal
<1>2. CASE StepOnce
  <2>1. CASE queue = <<>>
    BY <1>2, <2>1, <1>b DEF StepOnce, network
  <2>2. CASE queue # <<>>
    BY <1>2, <2>2, <1>a, FirstIsThere, DeliveryKeepsQueue DEF StepOnce, Deliver
  <2> QED
    BY <2>1, <2>2
<1>3. CASE DrainStep \/ DrainStepFails
  BY <1>3, <1>a, FirstIsThere, DeliveryKeepsQueue, FailureKeepsQueue
     DEF DrainStep, DrainStepFails, Deliver
<1>4. CASE Reorder
  BY <1>4, <1>a, ReverseKeepsQueue DEF Reorder
<1>5. ASSUME NEW s \in Server, Prompt(s) \/ Propose(s)
      PROVE  Goal
  <2>1. SendFrom(s) \/ UNCHANGED network
    BY <1>5 DEF Prompt, Propose
  <2> QED
    BY <2>1, <1>a, <1>b, SendKeepsQueue DEF network
<1>6. ASSUME NEW id \in 1 .. MaxId,
             \/ DeliverMessage(id) \/ DeliverMessageFails(id)
             \/ DropMessage(id) \/ DuplicateMessage(id)
      PROVE  Goal
  BY <1>6, <1>a, MessageStepKeepsQueue
<1>7. CASE Settle \/ Refuse \/ BeginDrain \/ DrainEnds \/ DrainOverruns \/ ResetFails
  BY <1>7, <1>b DEF Settle, Refuse, BeginDrain, DrainEnds, DrainOverruns, ResetFails, network
<1>8. CASE HealAll \/ \E left \in SUBSET Server : Partition(left)
  BY <1>8, <1>b DEF HealAll, Partition, SetBlocked
<1>9. ASSUME NEW s \in Server, Disable(s) \/ Restart(s) \/ ProposalTimesOut(s)
      PROVE  Goal
  BY <1>9, <1>b DEF Disable, Restart, ProposalTimesOut, network
<1>10. CASE Shutdown
  BY <1>10, <1>b DEF Shutdown
<1>11. ASSUME NEW c \in Client, Post(c)
       PROVE  Goal
  BY <1>11, <1>b DEF Post, network
<1>12. ASSUME NEW s \in Stream, Connect(s) \/ Disconnect(s)
       PROVE  Goal
  BY <1>12, <1>b DEF Connect, Disconnect, network
<1>13. CASE UNCHANGED vars
  BY <1>13, <1>b DEF vars, network
<1> QED
  BY <1>1, <1>2, <1>3, <1>4, <1>5, <1>6, <1>7, <1>8, <1>9, <1>10, <1>11, <1>12, <1>13
     DEF Next, Operation

LEMMA QueueStarts == Init => QueueOK
  BY NetworkBounds DEF Init, FreshNetwork, QueueOK, Numbers

\* The queue holds well-formed messages, whose ids differ and are below the next one.
LEMMA QueueInvariant == Spec => []QueueOK
<1>1. QueueOK /\ [Next]_vars => QueueOK'
  BY StepKeepsQueue
<1> QED
  BY <1>1, QueueStarts, PTL DEF Spec

\* In every run two pending messages have different ids, so an operation on an id
\* names one message (network.ts: deliverById, dropById, duplicateById).
THEOREM IdsDiffer == Spec => []IdsAreDistinct
<1>1. QueueOK => IdsAreDistinct
  BY DEF QueueOK, Numbers, IdsAreDistinct
<1> QED
  BY <1>1, QueueInvariant, PTL

\* In every run, until the next reset, the id of a message that is gone is not given
\* to another one.
THEOREM IdsAreOnceOnly == Spec => IdIsNeverReused
<1> DEFINE Step == ~Reset => \A i \in DOMAIN queue' :
                      queue'[i] \in ToSet(queue) \/ queue'[i].id >= nextMessageId
<1>1. QueueOK /\ [Next]_vars => Step
  BY StepKeepsQueue DEF OldOrNew, ToSet
<1>2. QueueOK /\ [Next]_vars => [Step]_vars
  BY <1>1
<1> QED
  BY <1>2, QueueInvariant, PTL DEF Spec, IdIsNeverReused

-----------------------------------------------------------------------------
(* The edges                                                               *)

LEMMA MessagesLeaveEdges ==
  ASSUME NEW i, DeliverAt(i) \/ DeliveryFails(i) \/ DropAt(i) \/ DuplicateAt(i)
  PROVE  UNCHANGED <<blocked, handlers>>
  BY DEF DeliverAt, DeliveryFails, ThrowAt, HandleAt, DropAt, DuplicateAt

LEMMA EdgeSteps ==
  ASSUME [Next]_vars
  PROVE  \/ UNCHANGED blocked \/ blocked' = {}
         \/ \E left \in SUBSET Server : blocked' = Between(left, Server \ left)
<1> DEFINE Goal == \/ UNCHANGED blocked \/ blocked' = {}
                   \/ \E left \in SUBSET Server : blocked' = Between(left, Server \ left)
<1>a. UNCHANGED blocked => Goal
  OBVIOUS
<1> SUFFICES Goal
  OBVIOUS
<1>1. ASSUME NEW left \in SUBSET Server, Partition(left)
      PROVE  Goal
  BY <1>1 DEF Partition, SetBlocked, Partitioned, EdgesToCut, Healed
<1>2. CASE HealAll \/ Reset
  BY <1>2 DEF HealAll, SetBlocked, Healed, Reset
<1> HIDE DEF Goal
<1>3. CASE StepOnce \/ DrainStep \/ DrainStepFails \/ Reorder
  BY <1>3, <1>a, MessagesLeaveEdges
     DEF StepOnce, DrainStep, DrainStepFails, Deliver, Reorder, ReverseQueue, network
<1>4. ASSUME NEW s \in Server, Prompt(s) \/ Propose(s) \/ Disable(s) \/ Restart(s) \/ ProposalTimesOut(s)
      PROVE  Goal
  BY <1>4, <1>a DEF Prompt, Propose, SendFrom, Disable, Restart, ProposalTimesOut, network
<1>5. ASSUME NEW id, \/ DeliverMessage(id) \/ DeliverMessageFails(id)
                     \/ DropMessage(id) \/ DuplicateMessage(id)
      PROVE  Goal
  BY <1>5, <1>a, MessagesLeaveEdges
     DEF DeliverMessage, DeliverMessageFails, DropMessage, DuplicateMessage, Deliver
<1>6. CASE Settle \/ Refuse \/ BeginDrain \/ DrainEnds \/ DrainOverruns \/ ResetFails \/ Shutdown
  BY <1>6, <1>a DEF Settle, Refuse, BeginDrain, DrainEnds, DrainOverruns, ResetFails, Shutdown, network
<1>7. ASSUME NEW c, Post(c) \/ Connect(c) \/ Disconnect(c)
      PROVE  Goal
  BY <1>7, <1>a DEF Post, Connect, Disconnect, network
<1>8. CASE UNCHANGED vars
  BY <1>8, <1>a DEF vars, network
<1> QED
  BY <1>1, <1>2, <1>3, <1>4, <1>5, <1>6, <1>7, <1>8 DEF Next, Operation

\* In every run the blocked edges separate two groups that make up the cluster, or
\* there are none, however many partitions are asked for (simulation-controller.ts).
THEOREM CutsAreClean == Spec => []CutIsClean
<1>1. Init => CutIsClean
  BY DEF Init, FreshNetwork, CutIsClean
<1>2. CutIsClean /\ [Next]_vars => CutIsClean'
  BY EdgeSteps DEF CutIsClean
<1> QED
  BY <1>1, <1>2, PTL DEF Spec

-----------------------------------------------------------------------------
(* The flags                                                               *)

LEMMA DeliveryKeepsFlags ==
  ASSUME FlagsAreTrue, NEW i, Deliver(i), UNCHANGED dead
  PROVE  FlagsAreTrue'
<1>1. UNCHANGED <<handlers, online, failed>> /\ proposals' \subseteq proposals
  BY MessagesLeaveEdges DEF Deliver
<1> QED
  BY <1>1 DEF FlagsAreTrue

LEMMA FailureKeepsFlags ==
  ASSUME FlagsAreTrue, NEW i, DeliveryFails(i)
  PROVE  FlagsAreTrue'
<1>1. /\ UNCHANGED <<handlers, online, dead>>
      /\ failed' = failed \cup {queue[i].to} /\ proposals' = proposals \ {queue[i].to}
  BY MessagesLeaveEdges DEF DeliveryFails
<1> QED
  BY <1>1 DEF FlagsAreTrue

LEMMA StepKeepsFlags ==
  ASSUME FlagsAreTrue, [Next]_vars
  PROVE  FlagsAreTrue'
<1>a. UNCHANGED <<handlers, nodes, dead>> => FlagsAreTrue'
  BY DEF FlagsAreTrue, nodes
<1>1. CASE StepOnce \/ DrainStep \/ DrainStepFails
  BY <1>1, <1>a, DeliveryKeepsFlags, FailureKeepsFlags
     DEF StepOnce, DrainStep, DrainStepFails, Executed, network
<1>2. ASSUME NEW id, \/ DeliverMessage(id) \/ DeliverMessageFails(id)
                     \/ DropMessage(id) \/ DuplicateMessage(id)
      PROVE  FlagsAreTrue'
  BY <1>2, <1>a, DeliveryKeepsFlags, FailureKeepsFlags, MessagesLeaveEdges
     DEF DeliverMessage, DeliverMessageFails, DropMessage, DuplicateMessage, Executed
<1>3. ASSUME NEW s \in Server, Prompt(s) \/ Propose(s)
      PROVE  FlagsAreTrue'
  <2>1. CASE Prompt(s)
    BY <2>1, <1>a DEF Prompt, SendFrom, Executed
  <2>2. CASE Propose(s)
    <3>1. UNCHANGED <<handlers, online, dead>>
      BY <2>2 DEF Propose, SendFrom, Executed, network
    <3>2. CASE UNCHANGED <<failed, proposals>>
      BY <1>a, <3>1, <3>2 DEF nodes
    <3>3. CASE /\ s \notin failed /\ s \in handlers
               /\ \E failing \in FailsAlone(s) :
                     /\ failed' = failed \cup failing
                     /\ proposals' = (proposals \cup WaitsFor(s)) \ failing
      BY <3>1, <3>3 DEF WaitsFor, FlagsAreTrue
    <3> QED
      BY <2>2, <3>2, <3>3 DEF Propose, SendFrom
  <2> QED
    BY <1>3, <2>1, <2>2
<1>4. ASSUME NEW s \in Server, Disable(s)
      PROVE  FlagsAreTrue'
  BY <1>4 DEF Disable, StopNodes, Unregister, Executed, FlagsAreTrue
<1>5. ASSUME NEW s \in Server, Restart(s)
      PROVE  FlagsAreTrue'
  BY <1>5 DEF Restart, Register, Executed, FlagsAreTrue
<1>6. ASSUME NEW s \in Server, ProposalTimesOut(s)
      PROVE  FlagsAreTrue'
  BY <1>6 DEF ProposalTimesOut, network, FlagsAreTrue
<1>7. CASE Reset
  BY <1>7 DEF Reset, FlagsAreTrue
<1>8. CASE ResetFails \/ Shutdown
  BY <1>8 DEF ResetFails, Shutdown, StopNodes, Unregister, FlagsAreTrue
<1>9. ASSUME NEW left, HealAll \/ Reorder \/ Partition(left)
      PROVE  FlagsAreTrue'
  BY <1>9, <1>a DEF HealAll, Reorder, ReverseQueue, Partition, SetBlocked, Executed
<1>10. CASE Settle \/ Refuse \/ BeginDrain \/ DrainEnds \/ DrainOverruns
  BY <1>10, <1>a DEF Settle, Refuse, BeginDrain, DrainEnds, DrainOverruns, network
<1>11. ASSUME NEW c, Post(c) \/ Connect(c) \/ Disconnect(c)
       PROVE  FlagsAreTrue'
  BY <1>11, <1>a DEF Post, Connect, Disconnect, network
<1>12. CASE UNCHANGED vars
  BY <1>12, <1>a DEF vars, network
<1> QED
  BY <1>1, <1>2, <1>3, <1>4, <1>5, <1>6, <1>7, <1>8, <1>9, <1>10, <1>11, <1>12
     DEF Next, Operation

\* In every run the network's endpoints are those of the replicas that are online,
\* fewer only when the simulation is dead, and no stopped node owes an answer.
THEOREM FlagsStayTrue == Spec => []FlagsAreTrue
<1>1. Init => FlagsAreTrue
  BY DEF Init, FlagsAreTrue
<1>2. FlagsAreTrue /\ [Next]_vars => FlagsAreTrue'
  BY StepKeepsFlags
<1> QED
  BY <1>1, <1>2, PTL DEF Spec

-----------------------------------------------------------------------------
(* The streams                                                             *)

\* A simulation that is not dead is listened to, so what it publishes is shown.
StreamInv ==
    /\ StreamsAreCurrent
    /\ ~dead => subscribed
    /\ {subscribed, dead, unpublished} \subseteq BOOLEAN

LEMMA ExecutedKeepsStreams ==
  ASSUME StreamInv, Executed
  PROVE  StreamInv'
  BY DEF StreamInv, StreamsAreCurrent, Executed, NotYetShown

LEMMA FailureKeepsStreams ==
  ASSUME StreamInv, NEW i, DeliveryFails(i)
  PROVE  StreamInv'
  BY DEF DeliveryFails, Publish, Shown, NeverShown, StreamInv, StreamsAreCurrent

LEMMA StepKeepsStreams ==
  ASSUME StreamInv, [Next]_vars
  PROVE  StreamInv'
<1>a. UNCHANGED <<phase, streams, dead>> => StreamInv'
  BY DEF StreamInv, StreamsAreCurrent, streams
<1>b. Executed => StreamInv'
  BY ExecutedKeepsStreams
<1>1. CASE HealAll \/ Reorder \/ StepOnce
  BY <1>1, <1>b DEF HealAll, Reorder, StepOnce
<1>2. ASSUME NEW s, \/ Prompt(s) \/ Propose(s) \/ Disable(s) \/ Restart(s) \/ Partition(s)
                    \/ DeliverMessage(s) \/ DeliverMessageFails(s)
                    \/ DropMessage(s) \/ DuplicateMessage(s)
      PROVE  StreamInv'
  BY <1>2, <1>b, FailureKeepsStreams DEF DeliverMessageFails, Prompt, Propose, Disable, Restart, Partition, DeliverMessage, DropMessage,
                    DuplicateMessage
<1>3. CASE Settle
  BY <1>3 DEF Settle, Publish, Shown, StreamInv, StreamsAreCurrent
<1>4. CASE Refuse
  BY <1>4, <1>a DEF Refuse
<1>5. CASE BeginDrain \/ DrainEnds
  BY <1>5 DEF BeginDrain, DrainEnds, streams, StreamInv, StreamsAreCurrent
<1>6. CASE DrainStep \/ DrainStepFails
  BY <1>6, FailureKeepsStreams
     DEF DrainStep, DrainStepFails, NotYetShown, StreamInv, StreamsAreCurrent
<1>7. CASE DrainOverruns
  BY <1>7 DEF DrainOverruns, streams, StreamInv, StreamsAreCurrent
<1>8. CASE Reset
  BY <1>8 DEF Reset, Subscribe, StreamInv, StreamsAreCurrent
<1>9. CASE ResetFails \/ Shutdown
  BY <1>9 DEF ResetFails, Shutdown, StreamInv, StreamsAreCurrent
<1>10. ASSUME NEW s, ProposalTimesOut(s)
       PROVE  StreamInv'
  BY <1>10 DEF ProposalTimesOut, Publish, Shown, chain, StreamInv, StreamsAreCurrent
<1>11. ASSUME NEW s, Connect(s) \/ Disconnect(s)
       PROVE  StreamInv'
  BY <1>11 DEF Connect, Disconnect, chain, StreamInv, StreamsAreCurrent
<1>12. ASSUME NEW c, Post(c)
       PROVE  StreamInv'
  BY <1>12, <1>a DEF Post
<1>13. CASE UNCHANGED vars
  BY <1>13, <1>a DEF vars, chain
<1> QED
  BY <1>1, <1>2, <1>3, <1>4, <1>5, <1>6, <1>7, <1>8, <1>9, <1>10, <1>11, <1>12, <1>13
     DEF Next, Operation

\* In every run, between two operations every page that listens has been sent the
\* present state, but for a dead simulation and for what an operation that failed half
\* way changed, until the next time anything is published.
THEOREM StreamsStayCurrent == Spec => []StreamsAreCurrent
<1>1. Init => StreamInv
  BY DEF Init, StreamInv, StreamsAreCurrent
<1>2. StreamInv /\ [Next]_vars => StreamInv'
  BY StepKeepsStreams
<1>3. StreamInv => StreamsAreCurrent
  BY DEF StreamInv
<1> QED
  BY <1>1, <1>2, <1>3, PTL DEF Spec

-----------------------------------------------------------------------------
(* Types                                                                   *)

\* The chain: an operation that is under way is on it.
ChainOK ==
    /\ ops \in Seq(Client) /\ phase \in {"queued", "draining", "settling"}
    /\ delivered \in 0 .. DrainLimit
    /\ phase # "queued" => ops # <<>>

\* What the other variables hold.
SetsOK ==
    /\ blocked \subseteq Edge
    /\ online \subseteq Server /\ failed \subseteq Server
    /\ upToDate \subseteq eventClients /\ eventClients \subseteq Stream
    /\ {subscribed, dead, unpublished, closed} \subseteq BOOLEAN

TypeInv == QueueOK /\ FlagsAreTrue /\ ChainOK /\ SetsOK

LEMMA ExecutedKeepsChain ==
  ASSUME ChainOK, Begins, Executed
  PROVE  ChainOK'
  BY DEF ChainOK, Begins, Executed

LEMMA TailsAreChains ==
  ASSUME ops \in Seq(Client), ops # <<>>
  PROVE  Tail(ops) \in Seq(Client)
  BY HeadTailProperties

LEMMA StepKeepsChain ==
  ASSUME ChainOK, [Next]_vars
  PROVE  ChainOK'
<1>a. UNCHANGED chain => ChainOK'
  BY DEF ChainOK, chain
<1>b. Begins /\ Executed => ChainOK'
  BY ExecutedKeepsChain
<1>1. CASE HealAll \/ Reorder \/ StepOnce
  BY <1>1, <1>b DEF HealAll, Reorder, StepOnce
<1>2. ASSUME NEW s, \/ Prompt(s) \/ Propose(s) \/ Disable(s) \/ Restart(s) \/ Partition(s)
                    \/ DeliverMessage(s) \/ DropMessage(s) \/ DuplicateMessage(s)
      PROVE  ChainOK'
  BY <1>2, <1>b DEF Prompt, Propose, Disable, Restart, Partition, DeliverMessage, DropMessage,
                    DuplicateMessage
<1>3. CASE Settle \/ Refuse \/ Reset \/ ResetFails
  <2>1. /\ ops # <<>> /\ ops' = Tail(ops) /\ phase' = "queued"
        /\ UNCHANGED delivered
    BY <1>3 DEF Settle, Refuse, Reset, ResetFails, Begins, AfterAnswer, AfterFailure, ChainOK
  <2> QED
    BY <2>1, TailsAreChains DEF ChainOK
<1>4. CASE DrainOverruns \/ DrainStepFails \/ \E id : DeliverMessageFails(id)
  <2>1. ops # <<>> /\ ops' = Tail(ops) /\ phase' = "queued" /\ delivered' = 0
    BY <1>4 DEF DrainOverruns, DrainStepFails, DeliverMessageFails, DeliveryFails, Begins,
                AfterFailure, ChainOK
  <2> QED
    BY <2>1, TailsAreChains, LimitAssumption DEF ChainOK
<1>5. CASE BeginDrain \/ DrainEnds
  BY <1>5, LimitAssumption DEF BeginDrain, DrainEnds, Begins, ChainOK
<1>6. CASE DrainStep
  BY <1>6, LimitAssumption DEF DrainStep, ChainOK
<1>7. ASSUME NEW c \in Client, Post(c)
      PROVE  ChainOK'
  <2>1. ops' = Append(ops, c) /\ UNCHANGED <<phase, delivered>>
    BY <1>7 DEF Post
  <2>2. ops \in Seq(Client)
    BY DEF ChainOK
  <2>3. Append(ops, c) \in Seq(Client) /\ Append(ops, c) # <<>>
    BY <2>2, AppendProperties
  <2> QED
    BY <2>1, <2>3 DEF ChainOK
<1>8. ASSUME NEW s, Connect(s) \/ Disconnect(s) \/ ProposalTimesOut(s)
      PROVE  ChainOK'
  BY <1>8, <1>a DEF Connect, Disconnect, ProposalTimesOut
<1>9. CASE Shutdown
  BY <1>9, <1>a DEF Shutdown
<1>10. CASE UNCHANGED vars
  BY <1>10, <1>a DEF vars
<1> QED
  BY <1>1, <1>2, <1>3, <1>4, <1>5, <1>6, <1>7, <1>8, <1>9, <1>10 DEF Next, Operation

LEMMA StepKeepsOnline ==
  ASSUME online \subseteq Server, [Next]_vars
  PROVE  online' \subseteq Server
<1>1. ASSUME NEW s \in Server, Disable(s) \/ Restart(s)
      PROVE  online' \subseteq Server
  BY <1>1 DEF Disable, Restart
<1>2. ASSUME NEW s, \/ Prompt(s) \/ Propose(s) \/ Partition(s) \/ ProposalTimesOut(s)
                    \/ DeliverMessage(s) \/ DeliverMessageFails(s)
                    \/ DropMessage(s) \/ DuplicateMessage(s)
      PROVE  UNCHANGED online
  BY <1>2 DEF Prompt, Propose, Partition, ProposalTimesOut, DeliverMessage, Deliver,
              DeliverMessageFails, DeliveryFails, DropMessage, DuplicateMessage, nodes
<1>3. CASE HealAll \/ Reorder \/ StepOnce \/ DrainStep \/ DrainStepFails
  BY <1>3 DEF HealAll, Reorder, StepOnce, DrainStep, DrainStepFails, Deliver, DeliveryFails, nodes
<1>4. CASE Settle \/ Refuse \/ BeginDrain \/ DrainEnds \/ DrainOverruns \/ Reset \/ ResetFails \/ Shutdown
  BY <1>4 DEF Settle, Refuse, BeginDrain, DrainEnds, DrainOverruns, Reset, ResetFails, Shutdown, nodes
<1>5. ASSUME NEW c, Post(c) \/ Connect(c) \/ Disconnect(c)
      PROVE  UNCHANGED online
  BY <1>5 DEF Post, Connect, Disconnect, nodes
<1>6. CASE UNCHANGED vars
  BY <1>6 DEF vars, nodes
<1> QED
  BY <1>1, <1>2, <1>3, <1>4, <1>5, <1>6 DEF Next, Operation

\* A node that fails is a member: the receiver of a message, or the one that proposed.
LEMMA StepKeepsFailed ==
  ASSUME QueueOK, failed \subseteq Server, [Next]_vars
  PROVE  failed' \subseteq Server
<1>a. UNCHANGED nodes => failed' \subseteq Server
  BY DEF nodes
<1>1. ASSUME NEW i \in DOMAIN queue, DeliveryFails(i)
      PROVE  failed' \subseteq Server
  <2>1. queue[i] \in Pending
    BY DEF QueueOK, Numbers
  <2> QED
    BY <1>1, <2>1, PendingFields DEF DeliveryFails
<1>2. CASE DrainStepFails \/ \E id : DeliverMessageFails(id)
  BY <1>1, <1>2, FirstIsThere DEF DrainStepFails, DeliverMessageFails, Found
<1>3. ASSUME NEW s \in Server, Propose(s)
      PROVE  failed' \subseteq Server
  <2>1. failed' = failed \/ \E failing \in {{}, {s}} : failed' = failed \cup failing
    BY <1>3 DEF Propose, FailsAlone
  <2> QED
    BY <2>1
<1>4. ASSUME NEW s, \/ Prompt(s) \/ Disable(s) \/ Restart(s) \/ Partition(s) \/ ProposalTimesOut(s)
                    \/ DeliverMessage(s) \/ DropMessage(s) \/ DuplicateMessage(s)
      PROVE  failed' \subseteq Server
  BY <1>4 DEF Prompt, Disable, Restart, Partition, ProposalTimesOut, DeliverMessage, Deliver,
              DropMessage, DuplicateMessage, nodes
<1>5. CASE HealAll \/ Reorder \/ StepOnce \/ DrainStep
  BY <1>5 DEF HealAll, Reorder, StepOnce, DrainStep, Deliver, nodes
<1>6. CASE Settle \/ Refuse \/ BeginDrain \/ DrainEnds \/ DrainOverruns \/ Reset \/ ResetFails \/ Shutdown
  BY <1>6 DEF Settle, Refuse, BeginDrain, DrainEnds, DrainOverruns, Reset, ResetFails, Shutdown, nodes
<1>7. ASSUME NEW c, Post(c) \/ Connect(c) \/ Disconnect(c)
      PROVE  failed' \subseteq Server
  BY <1>7, <1>a DEF Post, Connect, Disconnect
<1>8. CASE UNCHANGED vars
  BY <1>8, <1>a DEF vars
<1> QED
  BY <1>2, <1>3, <1>4, <1>5, <1>6, <1>7, <1>8 DEF Next, Operation

LEMMA StepKeepsStreamSets ==
  ASSUME SetsOK, [Next]_vars
  PROVE  /\ upToDate' \subseteq eventClients' /\ eventClients' \subseteq Stream
         /\ {subscribed', dead', unpublished', closed'} \subseteq BOOLEAN
<1> DEFINE Goal == /\ upToDate' \subseteq eventClients' /\ eventClients' \subseteq Stream
                   /\ {subscribed', dead', unpublished', closed'} \subseteq BOOLEAN
<1>a. UNCHANGED <<streams, dead, closed>> => Goal
  BY DEF SetsOK, streams
<1>b. Executed => Goal
  BY DEF SetsOK, Executed, NotYetShown
<1> SUFFICES Goal
  OBVIOUS
<1>3. CASE Settle
  BY <1>3 DEF Settle, Publish, Shown, SetsOK
<1>c. ASSUME NEW i, DeliveryFails(i)
      PROVE  Goal
  BY <1>c DEF DeliveryFails, Publish, Shown, NeverShown, SetsOK
<1>4. CASE DrainStep
  BY <1>4 DEF DrainStep, NotYetShown, SetsOK
<1>5. CASE DrainOverruns
  BY <1>5 DEF DrainOverruns, streams, SetsOK
<1>6. CASE Reset
  BY <1>6 DEF Reset, Subscribe, SetsOK
<1>7. CASE ResetFails \/ Shutdown
  BY <1>7 DEF ResetFails, Shutdown, SetsOK
<1>8. ASSUME NEW s, ProposalTimesOut(s)
      PROVE  Goal
  BY <1>8 DEF ProposalTimesOut, Publish, Shown, SetsOK
<1>9. ASSUME NEW s \in Stream, Connect(s) \/ Disconnect(s)
      PROVE  Goal
  BY <1>9 DEF Connect, Disconnect, SetsOK
<1> HIDE DEF Goal
<1>1. CASE HealAll \/ Reorder \/ StepOnce
  BY <1>1, <1>b DEF HealAll, Reorder, StepOnce
<1>2. ASSUME NEW s, \/ Prompt(s) \/ Propose(s) \/ Disable(s) \/ Restart(s) \/ Partition(s)
                    \/ DeliverMessage(s) \/ DeliverMessageFails(s)
                    \/ DropMessage(s) \/ DuplicateMessage(s)
      PROVE  Goal
  BY <1>2, <1>b, <1>c DEF Prompt, Propose, Disable, Restart, Partition, DeliverMessage,
                          DeliverMessageFails, DropMessage, DuplicateMessage
<1>13. CASE DrainStepFails
  BY <1>13, <1>c DEF DrainStepFails
<1>10. ASSUME NEW c, Post(c)
       PROVE  Goal
  BY <1>10, <1>a DEF Post
<1>11. CASE Refuse \/ BeginDrain \/ DrainEnds
  BY <1>11, <1>a DEF Refuse, BeginDrain, DrainEnds
<1>12. CASE UNCHANGED vars
  BY <1>12, <1>a DEF vars
<1> QED
  BY <1>1, <1>2, <1>3, <1>4, <1>5, <1>6, <1>7, <1>8, <1>9, <1>10, <1>11, <1>12, <1>13
     DEF Next, Operation

\* A cut blocks edges between different members.
LEMMA CutsAreEdges ==
  ASSUME blocked \subseteq Edge, [Next]_vars
  PROVE  blocked' \subseteq Edge
<1>1. \A left \in SUBSET Server : Between(left, Server \ left) \subseteq Edge
  BY DEF Between, Edge
<1> QED
  BY <1>1, EdgeSteps

\* In every run every variable holds a value of its type.
THEOREM TypeCorrect == Spec => []TypeOK
<1>1. Init => TypeInv
  <2> SUFFICES ASSUME Init PROVE TypeInv
    OBVIOUS
  <2>1. QueueOK
    BY QueueStarts
  <2>2. ops = <<>> /\ ops \in Seq(Client)
    BY DEF Init
  <2>3. ChainOK
    BY <2>2, LimitAssumption DEF Init, ChainOK
  <2> QED
    BY <2>1, <2>3 DEF Init, FreshNetwork, TypeInv, FlagsAreTrue, SetsOK
<1>2. TypeInv /\ [Next]_vars => TypeInv'
  BY StepKeepsQueue, StepKeepsFlags, StepKeepsChain, StepKeepsOnline, StepKeepsFailed, StepKeepsStreamSets,
     CutsAreEdges DEF TypeInv, SetsOK
<1>3. TypeInv => TypeOK
  BY DEF TypeInv, TypeOK, NetworkTypeOK, QueueOK, Numbers, FlagsAreTrue, ChainOK, SetsOK
<1> QED
  BY <1>1, <1>2, <1>3, PTL DEF Spec
=============================================================================
