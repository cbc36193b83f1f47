------------------------ MODULE RequestPipelineProofs ------------------------
(***************************************************************************)
(* The invariants of RequestPipeline for every PipelineSize and every      *)
(* number of items.                                                        *)
(***************************************************************************)
EXTENDS RequestPipeline, FiniteSetTheorems, SequenceTheorems, TLAPS

USE PipelineSizeAssumption, MaxItemsAssumption

(* What every action keeps true of a queue q while the items of s have     *)
(* been sent and n items have been enqueued.                               *)
Fits(q, s, n) ==
    /\ q \in Seq(Items)
    /\ \A k \in DOMAIN q : q[k] \in 1 .. n
    /\ \A k, l \in DOMAIN q : l < k => q[l] < q[k]
    /\ \A k \in DOMAIN q : \A i \in s : i < q[k]

(* A set of items is finite, and its cardinality a natural number that     *)
(* grows and shrinks by one element at a time (items_in_flight).           *)
LEMMA ItemSets ==
    ASSUME NEW S \in SUBSET Items
    PROVE  /\ Cardinality(S) \in Nat
           /\ \A x : /\ Cardinality(S \cup {x}) \in Nat
                     /\ Cardinality(S \cup {x}) <= Cardinality(S) + 1
                     /\ Cardinality(S \ {x}) \in Nat
                     /\ Cardinality(S \ {x}) <= Cardinality(S)
<1>1. IsFiniteSet(Items)
  <2>1. 1 \in Int /\ MaxItems \in Int
    OBVIOUS
  <2>2. QED
    BY <2>1, FS_Interval DEF Items
<1>2. IsFiniteSet(S)
  BY <1>1, FS_Subset
<1>3. Cardinality(S) \in Nat
  BY <1>2, FS_CardinalityType
<1>4. ASSUME NEW x
      PROVE  /\ Cardinality(S \cup {x}) \in Nat
             /\ Cardinality(S \cup {x}) <= Cardinality(S) + 1
             /\ Cardinality(S \ {x}) \in Nat
             /\ Cardinality(S \ {x}) <= Cardinality(S)
  <2>1. Cardinality(S \cup {x}) = IF x \in S THEN Cardinality(S)
                                             ELSE Cardinality(S) + 1
    BY <1>2, FS_AddElement
  <2>2. Cardinality(S \ {x}) = IF x \in S THEN Cardinality(S) - 1
                                          ELSE Cardinality(S)
    BY <1>2, FS_RemoveElement
  <2>3. x \in S => Cardinality(S) # 0
    BY <1>2, FS_EmptySet
  <2>4. QED
    BY <1>3, <2>1, <2>2, <2>3
<1>5. QED
  BY <1>3, <1>4

\* Enqueueing a new item at the end of the queue keeps it in order.
LEMMA AppendFits ==
    ASSUME NEW q, NEW s, NEW n \in 0 .. MaxItems, n < MaxItems,
           Fits(q, s, n), s \subseteq 1 .. n
    PROVE  /\ Fits(Append(q, n + 1), s, n + 1)
           /\ Elems(Append(q, n + 1)) = Elems(q) \cup {n + 1}
<1>1. n + 1 \in Items /\ q \in Seq(Items)
  BY DEF Items, Fits
<1>2. /\ Append(q, n + 1) \in Seq(Items)
      /\ DOMAIN Append(q, n + 1) = 1 .. Len(q) + 1
      /\ DOMAIN q = 1 .. Len(q)
      /\ Len(q) \in Nat
      /\ \A k \in 1 .. Len(q) : Append(q, n + 1)[k] = q[k]
      /\ Append(q, n + 1)[Len(q) + 1] = n + 1
  BY <1>1, AppendProperties, LenProperties
<1>3. Fits(Append(q, n + 1), s, n + 1)
  BY <1>2 DEF Fits
<1>4. Elems(Append(q, n + 1)) = Elems(q) \cup {n + 1}
  BY <1>2 DEF Elems
<1>5. QED
  BY <1>3, <1>4

\* Taking the oldest item off the queue, to send it.
LEMMA TailFits ==
    ASSUME NEW q, NEW s, NEW n \in Nat, Fits(q, s, n), q # <<>>
    PROVE  /\ Head(q) \in Items
           /\ Head(q) \in 1 .. n
           /\ Fits(Tail(q), s \cup {Head(q)}, n)
           /\ Elems(q) = Elems(Tail(q)) \cup {Head(q)}
           /\ Head(q) \notin Elems(Tail(q))
<1>1. q \in Seq(Items)
  BY DEF Fits
<1>2. /\ DOMAIN q = 1 .. Len(q) /\ Len(q) \in Nat \ {0}
      /\ Tail(q) \in Seq(Items) /\ Len(Tail(q)) = Len(q) - 1
      /\ DOMAIN Tail(q) = 1 .. Len(q) - 1
      /\ \A k \in 1 .. Len(q) - 1 : Tail(q)[k] = q[k + 1]
      /\ Head(q) = q[1]
      /\ 1 \in DOMAIN q
  BY <1>1, HeadTailProperties, LenProperties, EmptySeq
<1>3. Head(q) \in Items /\ Head(q) \in 1 .. n
  BY <1>1, <1>2, ElementOfSeq DEF Fits
<1>4. \A k \in DOMAIN Tail(q) : Head(q) < Tail(q)[k]
  BY <1>2 DEF Fits
<1>5. Fits(Tail(q), s \cup {Head(q)}, n)
  BY <1>2, <1>4 DEF Fits
<1>6. Elems(q) = Elems(Tail(q)) \cup {Head(q)}
  <2>1. ASSUME NEW k \in DOMAIN q, k # 1
        PROVE  q[k] \in Elems(Tail(q))
    <3>1. k - 1 \in DOMAIN Tail(q) /\ Tail(q)[k - 1] = q[k]
      BY <1>2, <2>1
    <3>2. QED
      BY <3>1 DEF Elems
  <2>2. ASSUME NEW k \in DOMAIN Tail(q)
        PROVE  Tail(q)[k] \in Elems(q)
    <3>1. k + 1 \in DOMAIN q /\ Tail(q)[k] = q[k + 1]
      BY <1>2, <2>2
    <3>2. QED
      BY <3>1 DEF Elems
  <2>3. QED
    BY <1>2, <2>1, <2>2 DEF Elems
<1>7. Head(q) \notin Elems(Tail(q))
  BY <1>3, <1>4 DEF Elems
<1>8. QED
  BY <1>3, <1>5, <1>6, <1>7

\* Enqueueing from inside a callback, or not, keeps the queue in order.
LEMMA CallbackMayEnqueueFits ==
    ASSUME NEW q, NEW f, NEW s, TypeOK, Fits(q, s, enqueued),
           s \subseteq 1 .. enqueued, CallbackMayEnqueue(q, f)
    PROVE  /\ enqueued' \in 0 .. MaxItems
           /\ enqueued <= enqueued' /\ enqueued' <= enqueued + 1
           /\ Fits(pending', s, enqueued')
           /\ Queued' = Elems(q) \cup ((enqueued + 1) .. enqueued')
           /\ idles' \in Nat
           /\ idles <= idles'
           /\ Cardinality(f) < PipelineSize /\ enqueued' # enqueued => idles' > 0
<1>1. CASE pending' = q /\ UNCHANGED <<enqueued, idles>>
  BY <1>1 DEF TypeOK, Queued
<1>2. CASE Enqueue(q, f)
  <2>1. /\ enqueued < MaxItems /\ enqueued' = enqueued + 1
        /\ enqueued \in 0 .. MaxItems
        /\ pending' = Append(q, enqueued + 1)
    BY <1>2 DEF Enqueue, TypeOK
  <2>2. /\ Fits(pending', s, enqueued')
        /\ Elems(pending') = Elems(q) \cup {enqueued + 1}
    BY <2>1, AppendFits
  <2>3. /\ idles' \in Nat
        /\ idles <= idles'
        /\ Cardinality(f) < PipelineSize => idles' > 0
    BY <1>2 DEF Enqueue, TypeOK
  <2>4. (enqueued + 1) .. enqueued' = {enqueued + 1}
    BY <2>1
  <2>5. QED
    BY <2>1, <2>2, <2>3, <2>4 DEF Queued
<1>3. QED
  BY <1>1, <1>2 DEF CallbackMayEnqueue

\* Deleting a pending item leaves the others in order (delete_item).
LEMMA WithoutFits ==
    ASSUME NEW i, NEW s, NEW n \in Nat, Fits(pending, s, n), i \in Queued
    PROVE  /\ Fits(Without(i), s, n)
           /\ Elems(Without(i)) = Queued \ {i}
<1> DEFINE at == CHOOSE k \in DOMAIN pending : pending[k] = i
<1> DEFINE w == [k \in 1 .. Len(pending) - 1 |->
                   IF k < at THEN pending[k] ELSE pending[k + 1]]
<1>1. pending \in Seq(Items)
  BY DEF Fits
<1>2. /\ DOMAIN pending = 1 .. Len(pending) /\ Len(pending) \in Nat
      /\ \A k \in 1 .. Len(pending) : pending[k] \in Items
  BY <1>1, LenProperties, ElementOfSeq
<1>3. \E k \in DOMAIN pending : pending[k] = i
  BY DEF Queued, Elems
<1>4. at \in DOMAIN pending /\ pending[at] = i
  BY <1>3
<1>5. Without(i) = w
  BY DEF Without
<1> HIDE DEF at
<1>6. Len(pending) - 1 \in Nat
  BY <1>2, <1>4
<1>7. /\ w \in Seq(Items)
      /\ DOMAIN w = 1 .. Len(pending) - 1
  <2>1. \A k \in 1 .. Len(pending) - 1 : w[k] \in Items
    BY <1>2, <1>4
  <2>2. w \in [1 .. Len(pending) - 1 -> Items]
    BY <2>1
  <2>3. QED
    BY <1>6, <2>2, IsASeq
<1>8. \A k \in DOMAIN w : w[k] = IF k < at THEN pending[k] ELSE pending[k + 1]
  BY <1>7
<1> HIDE DEF w
<1>9. Fits(w, s, n)
  <2>1. \A k \in DOMAIN w : \E m \in DOMAIN pending : w[k] = pending[m]
    BY <1>2, <1>4, <1>7, <1>8
  <2>2. ASSUME NEW k \in DOMAIN w, NEW l \in DOMAIN w, l < k
        PROVE  w[l] < w[k]
    <3>1. PICK a \in DOMAIN pending, b \in DOMAIN pending :
              w[l] = pending[a] /\ w[k] = pending[b] /\ a < b
      <4>1. CASE k < at
        BY <1>2, <1>4, <1>7, <1>8, <2>2, <4>1
      <4>2. CASE l < at /\ ~(k < at)
        BY <1>2, <1>4, <1>7, <1>8, <2>2, <4>2
      <4>3. CASE ~(l < at)
        BY <1>2, <1>4, <1>7, <1>8, <2>2, <4>3, SMTT(40)
      <4>4. QED
        BY <1>2, <1>4, <1>7, <2>2, <4>1, <4>2, <4>3
    <3>2. QED
      BY <3>1 DEF Fits
  <2>3. QED
    BY <1>7, <2>1, <2>2 DEF Fits
<1>10. Elems(w) = Queued \ {i}
  <2>1. ASSUME NEW k \in DOMAIN w
        PROVE  w[k] \in Queued /\ w[k] # i
    <3>1. PICK m \in DOMAIN pending : w[k] = pending[m] /\ m # at
      BY <1>2, <1>4, <1>7, <1>8
    <3>2. pending[m] # pending[at]
      BY <1>2, <1>4, <3>1 DEF Fits
    <3>3. QED
      BY <1>4, <3>1, <3>2 DEF Queued, Elems
  <2>2. ASSUME NEW m \in DOMAIN pending, pending[m] # i
        PROVE  \E k \in DOMAIN w : w[k] = pending[m]
    <3>1. CASE m < at
      BY <1>2, <1>4, <1>7, <1>8, <3>1
    <3>2. CASE m > at
      <4>1. m - 1 \in DOMAIN w /\ ~(m - 1 < at) /\ (m - 1) + 1 = m
        BY <1>2, <1>4, <1>7, <3>2
      <4>2. QED
        BY <1>8, <4>1
    <3>3. QED
      BY <1>2, <1>4, <2>2, <3>1, <3>2
  <2>3. QED
    BY <2>1, <2>2 DEF Queued, Elems
<1>11. QED
  BY <1>5, <1>9, <1>10

\* The items a client can hear of are those queued or in flight.
Live == Queued \cup inFlight

(* The clients of the items of S, and nobody else, learn their fate in a   *)
(* step that takes S out of the pipeline and lets new items in.            *)
LEMMA CallbackNotifies ==
    ASSUME TypeOK, Bookkeeping, NotifiedOnce,
           NEW S, S \subseteq Live, Callback(S),
           enqueued' \in 0 .. MaxItems, enqueued <= enqueued',
           Live' = (Live \ S) \cup ((enqueued + 1) .. enqueued')
    PROVE  /\ NotifiedOnce'
           /\ calls' \in [Items -> Nat]
           /\ \A i \in Items : i > enqueued' => calls'[i] = 0
<1>1. /\ calls' = [i \in Items |-> IF i \in S THEN calls[i] + 1 ELSE calls[i]]
      /\ calls \in [Items -> Nat]
      /\ enqueued \in 0 .. MaxItems
      /\ \A i \in Items : i > enqueued => calls[i] = 0
      /\ \A i \in Live : i \in 1 .. enqueued
      /\ \A i \in 1 .. enqueued : calls[i] = IF i \in Live THEN 0 ELSE 1
  BY DEF Callback, TypeOK, Bookkeeping, NotifiedOnce, Live
<1>2. calls' \in [Items -> Nat]
  BY <1>1
<1>3. ASSUME NEW i \in Items, i > enqueued'
      PROVE  calls'[i] = 0
  <2>1. i > enqueued /\ i \notin 1 .. enqueued
    BY <1>1, <1>3 DEF Items
  <2>2. i \notin S /\ calls[i] = 0
    BY <1>1, <2>1
  <2>3. QED
    BY <1>1, <2>2
<1>4. ASSUME NEW i \in 1 .. enqueued'
      PROVE  calls'[i] = IF i \in Live' THEN 0 ELSE 1
  <2>1. i \in Items
    BY DEF Items
  <2>2. CASE i > enqueued
    <3>1. i \in Live' /\ i \notin S /\ calls[i] = 0
      BY <1>1, <2>1, <2>2
    <3>2. QED
      BY <1>1, <2>1, <3>1
  <2>3. CASE i <= enqueued
    <3>1. i \in 1 .. enqueued /\ (i \in Live' <=> i \in Live /\ i \notin S)
      BY <1>1, <2>3
    <3>2. QED
      BY <1>1, <2>1, <3>1
  <2>4. QED
    BY <1>1, <2>2, <2>3
<1>5. NotifiedOnce'
  BY <1>4 DEF NotifiedOnce, Live
<1>6. QED
  BY <1>2, <1>3, <1>5

\* What the invariant says of the queue, in terms of Fits ...
LEMMA IInvFits ==
    ASSUME IInv
    PROVE  /\ Fits(pending, inFlight \cup crypt, enqueued)
           /\ inFlight \cup crypt \subseteq 1 .. enqueued
           /\ enqueued \in Nat
           /\ inFlight \cap Queued = {}
<1>1. Queued \subseteq 1 .. enqueued /\ inFlight \cup crypt \subseteq 1 .. enqueued
  BY DEF IInv, Bookkeeping
<1>2. \A k \in DOMAIN pending : pending[k] \in Queued
  BY DEF Queued, Elems
<1>3. Fits(pending, inFlight \cup crypt, enqueued)
  BY <1>1, <1>2 DEF IInv, TypeOK, SendOrder, Fits
<1>4. ASSUME NEW i \in inFlight, i \in Queued
      PROVE  FALSE
  <2>1. PICK k \in DOMAIN pending : pending[k] = i
    BY <1>4 DEF Queued, Elems
  <2>2. i < i /\ i \in Nat
    BY <1>1, <2>1 DEF IInv, SendOrder
  <2>3. QED
    BY <2>2
<1>5. QED
  BY <1>1, <1>3, <1>4 DEF IInv, TypeOK

\* ... and back, in the next state.
LEMMA FitsSendOrder ==
    ASSUME NEW s, Fits(pending', s, enqueued'), (inFlight \cup crypt)' \subseteq s
    PROVE  /\ pending' \in Seq(Items)
           /\ SendOrder'
           /\ Queued' \subseteq 1 .. enqueued'
BY DEF Fits, SendOrder, Queued, Elems

\* A new pipeline satisfies the invariant.
THEOREM InitIInv == Init => IInv
<1> SUFFICES ASSUME Init PROVE IInv
  OBVIOUS
<1>1. Queued = {} /\ DOMAIN pending = {}
  BY DEF Init, Queued, Elems
<1>2. TypeOK /\ Bookkeeping /\ NotifiedOnce
  <2>1. TypeOK
    <3>1. pending \in Seq(Items) /\ enqueued \in 0 .. MaxItems
      BY DEF Init
    <3>2. calls \in [Items -> Nat]
      BY DEF Init
    <3>3. QED
      BY <3>1, <3>2 DEF Init, TypeOK
  <2>2. Bookkeeping
    BY <1>1 DEF Init, Bookkeeping
  <2>3. NotifiedOnce
    BY DEF Init, NotifiedOnce
  <2>4. QED
    BY <2>1, <2>2, <2>3
<1>3. NoDanglingReply /\ NoLostWakeup /\ SendOrder /\ TimersGuardInFlight
  BY <1>1 DEF Init, NoDanglingReply, NoLostWakeup, SendOrder, TimersGuardInFlight
<1>4. Cardinality({}) = 0
  BY FS_EmptySet
<1>5. WindowBound
  BY <1>4 DEF Init, WindowBound
<1>6. QED
  BY <1>2, <1>3, <1>5 DEF IInv

\* Every step of the pipeline preserves the invariant.
THEOREM NextIInv == IInv /\ [Next]_vars => IInv'
<1> SUFFICES ASSUME IInv, [Next]_vars PROVE IInv'
  OBVIOUS
<1>1. /\ Fits(pending, inFlight \cup crypt, enqueued)
      /\ inFlight \cup crypt \subseteq 1 .. enqueued
      /\ enqueued \in Nat
      /\ inFlight \cap Queued = {}
  BY IInvFits
<1>2. /\ TypeOK /\ Bookkeeping /\ NoDanglingReply /\ NotifiedOnce
      /\ WindowBound /\ NoLostWakeup /\ SendOrder /\ TimersGuardInFlight
  BY DEF IInv
<1>3. /\ Cardinality(inFlight) \in Nat
      /\ \A x : /\ Cardinality(inFlight \cup {x}) \in Nat
                /\ Cardinality(inFlight \cup {x}) <= Cardinality(inFlight) + 1
                /\ Cardinality(inFlight \ {x}) \in Nat
                /\ Cardinality(inFlight \ {x}) <= Cardinality(inFlight)
  BY <1>2, ItemSets DEF TypeOK
<1>4. CASE ClientEnqueue
  <2>1. /\ Enqueue(pending, inFlight)
        /\ CallbackMayEnqueue(pending, inFlight)
        /\ UNCHANGED <<inFlight, crypt, timers, awaiting, calls, going,
                       porter, disposed>>
    BY <1>4 DEF ClientEnqueue, CallbackMayEnqueue
  <2>2. /\ enqueued' \in 0 .. MaxItems
        /\ enqueued <= enqueued' /\ enqueued' <= enqueued + 1
        /\ Fits(pending', inFlight \cup crypt, enqueued')
        /\ Queued' = Queued \cup ((enqueued + 1) .. enqueued')
        /\ idles' \in Nat /\ idles <= idles'
    BY <1>1, <1>2, <2>1, CallbackMayEnqueueFits DEF Queued
  <2>3. Cardinality(inFlight) < PipelineSize => idles' > 0
    BY <1>2, <2>1 DEF Enqueue, TypeOK
  <2>4. /\ pending' \in Seq(Items)
        /\ SendOrder'
        /\ Queued' \subseteq 1 .. enqueued'
    BY <2>1, <2>2, FitsSendOrder
  <2>5. Callback({})
    BY <1>2, <2>1 DEF Callback, TypeOK
  <2>6. Live' = (Live \ {}) \cup ((enqueued + 1) .. enqueued')
    BY <2>1, <2>2 DEF Live
  <2>7. /\ NotifiedOnce'
        /\ calls' \in [Items -> Nat]
        /\ \A i \in Items : i > enqueued' => calls'[i] = 0
    BY <1>2, <2>2, <2>5, <2>6, CallbackNotifies
  <2>8. TypeOK'
    BY <1>2, <2>1, <2>2, <2>4, <2>7 DEF TypeOK
  <2>9. Bookkeeping'
    BY <1>1, <2>1, <2>2, <2>4, <2>7 DEF Bookkeeping
  <2>10. NoDanglingReply' /\ WindowBound' /\ NoLostWakeup' /\ TimersGuardInFlight'
    BY <1>2, <2>1, <2>3 DEF NoDanglingReply, WindowBound, NoLostWakeup,
                            TimersGuardInFlight
  <2>11. QED
    BY <2>4, <2>7, <2>8, <2>9, <2>10 DEF IInv
<1>5. CASE DelayedRun
  <2>1. /\ UNCHANGED <<enqueued, pending, inFlight, crypt, timers, awaiting,
                       calls, porter, disposed>>
        /\ idles' \in Nat /\ going' = TRUE
    BY <1>2, <1>5 DEF DelayedRun, TypeOK
  <2>2. Queued' = Queued
    BY <2>1 DEF Queued
  <2>3. TypeOK' /\ Bookkeeping' /\ NotifiedOnce'
    BY <1>2, <2>1, <2>2 DEF TypeOK, Bookkeeping, NotifiedOnce
  <2>4. NoDanglingReply' /\ WindowBound' /\ NoLostWakeup' /\ SendOrder'
          /\ TimersGuardInFlight'
    BY <1>2, <2>1 DEF NoDanglingReply, WindowBound, NoLostWakeup, SendOrder,
                      TimersGuardInFlight
  <2>5. QED
    BY <2>3, <2>4 DEF IInv
<1>6. CASE SendNext
  <2> DEFINE h == Head(pending)
  <2>1. /\ pending # <<>> /\ pending' = Tail(pending)
        /\ inFlight' = inFlight \cup {h}
        /\ timers' = timers \cup {h}
        /\ awaiting' = awaiting \cup {h}
        /\ UNCHANGED <<enqueued, crypt, calls, idles, going, porter, disposed>>
        /\ going
        /\ Cardinality(inFlight) < PipelineSize
    BY <1>6 DEF SendNext
  <2>2. /\ h \in Items
        /\ h \in 1 .. enqueued
        /\ Fits(pending', (inFlight \cup crypt) \cup {h}, enqueued')
        /\ Queued = Queued' \cup {h}
        /\ h \notin Queued'
    BY <1>1, <2>1, TailFits DEF Queued
  <2> HIDE DEF h
  <2>3. /\ pending' \in Seq(Items)
        /\ SendOrder'
        /\ Queued' \subseteq 1 .. enqueued'
    BY <2>1, <2>2, FitsSendOrder
  <2>4. TypeOK'
    BY <1>2, <2>1, <2>2, <2>3 DEF TypeOK
  <2>5. Bookkeeping'
    BY <1>1, <1>2, <2>1, <2>2, <2>3 DEF Bookkeeping
  <2>6. NotifiedOnce'
    BY <1>2, <2>1, <2>2 DEF NotifiedOnce
  <2>7. WindowBound'
    <3>1. /\ Cardinality(inFlight') \in Nat
          /\ Cardinality(inFlight') <= Cardinality(inFlight) + 1
      BY <1>3, <2>1
    <3>2. QED
      BY <1>3, <2>1, <3>1 DEF WindowBound
  <2>8. NoDanglingReply' /\ NoLostWakeup' /\ TimersGuardInFlight'
    BY <1>2, <2>1 DEF NoDanglingReply, NoLostWakeup, TimersGuardInFlight
  <2>9. QED
    BY <2>3, <2>4, <2>5, <2>6, <2>7, <2>8 DEF IInv
<1>7. CASE SendFails
  <2> DEFINE h == Head(pending)
  <2>1. /\ pending # <<>>
        /\ Callback({h})
        /\ CallbackMayEnqueue(Tail(pending), inFlight)
        /\ UNCHANGED <<inFlight, crypt, timers, awaiting, going, porter, disposed>>
        /\ going
    BY <1>7 DEF SendFails
  <2>2. /\ h \in 1 .. enqueued
        /\ Fits(Tail(pending), (inFlight \cup crypt) \cup {h}, enqueued)
        /\ Queued = Elems(Tail(pending)) \cup {h}
        /\ h \notin Elems(Tail(pending))
    BY <1>1, <2>1, TailFits DEF Queued
  <2> HIDE DEF h
  <2>3. (inFlight \cup crypt) \cup {h} \subseteq 1 .. enqueued
    BY <1>1, <2>2
  <2>4. /\ enqueued' \in 0 .. MaxItems
        /\ enqueued <= enqueued' /\ enqueued' <= enqueued + 1
        /\ Fits(pending', (inFlight \cup crypt) \cup {h}, enqueued')
        /\ Queued' = Elems(Tail(pending)) \cup ((enqueued + 1) .. enqueued')
        /\ idles' \in Nat
    BY <1>2, <2>1, <2>2, <2>3, CallbackMayEnqueueFits
  <2>5. /\ pending' \in Seq(Items)
        /\ SendOrder'
        /\ Queued' \subseteq 1 .. enqueued'
    BY <2>1, <2>4, FitsSendOrder
  <2>6. h \in Live /\ Live' = (Live \ {h}) \cup ((enqueued + 1) .. enqueued')
    BY <1>1, <2>1, <2>2, <2>4 DEF Live
  <2>7. /\ NotifiedOnce'
        /\ calls' \in [Items -> Nat]
        /\ \A i \in Items : i > enqueued' => calls'[i] = 0
    BY <1>2, <2>1, <2>4, <2>6, CallbackNotifies
  <2>8. TypeOK'
    BY <1>2, <2>1, <2>4, <2>5, <2>7 DEF TypeOK
  <2>9. Bookkeeping'
    BY <1>1, <2>1, <2>4, <2>5, <2>7 DEF Bookkeeping
  <2>10. NoDanglingReply' /\ WindowBound' /\ NoLostWakeup' /\ TimersGuardInFlight'
    BY <1>2, <2>1 DEF NoDanglingReply, WindowBound, NoLostWakeup,
                      TimersGuardInFlight
  <2>11. QED
    BY <2>5, <2>7, <2>8, <2>9, <2>10 DEF IInv
<1>8. CASE GoReturns
  <2>1. /\ UNCHANGED <<enqueued, pending, inFlight, crypt, timers, awaiting,
                       calls, idles, porter, disposed>>
        /\ going' = FALSE
        /\ pending = <<>> \/ Cardinality(inFlight) >= PipelineSize
    BY <1>8 DEF GoReturns
  <2>2. Queued' = Queued
    BY <2>1 DEF Queued
  <2>3. TypeOK' /\ Bookkeeping' /\ NotifiedOnce'
    BY <1>2, <2>1, <2>2 DEF TypeOK, Bookkeeping, NotifiedOnce
  <2>4. NoDanglingReply' /\ WindowBound' /\ SendOrder' /\ TimersGuardInFlight'
    BY <1>2, <2>1 DEF NoDanglingReply, WindowBound, SendOrder, TimersGuardInFlight
  <2>5. NoLostWakeup'
    BY <1>3, <2>1 DEF NoLostWakeup
  <2>6. QED
    BY <2>3, <2>4, <2>5 DEF IInv
<1>9. CASE Connect
  <2>1. /\ UNCHANGED <<enqueued, pending, inFlight, crypt, timers, awaiting,
                       calls, idles, going, disposed>>
        /\ porter' = TRUE
    BY <1>9 DEF Connect
  <2>2. Queued' = Queued
    BY <2>1 DEF Queued
  <2>3. TypeOK' /\ Bookkeeping' /\ NotifiedOnce'
    BY <1>2, <2>1, <2>2 DEF TypeOK, Bookkeeping, NotifiedOnce
  <2>4. NoDanglingReply' /\ WindowBound' /\ NoLostWakeup' /\ SendOrder'
          /\ TimersGuardInFlight'
    BY <1>2, <2>1 DEF NoDanglingReply, WindowBound, NoLostWakeup, SendOrder,
                      TimersGuardInFlight
  <2>5. QED
    BY <2>3, <2>4 DEF IInv
<1>10. CASE Dispose
  <2>1. /\ Callback(inFlight \cup Queued)
        /\ pending' = <<>> /\ inFlight' = {} /\ crypt' = {} /\ timers' = {}
        /\ awaiting' = {} /\ idles' = 0 /\ disposed' = TRUE
        /\ UNCHANGED <<enqueued, going, porter>>
    BY <1>10 DEF Dispose
  <2>2. Queued' = {} /\ DOMAIN pending' = {} /\ pending' \in Seq(Items)
    BY <2>1 DEF Queued, Elems
  <2>3. (enqueued + 1) .. enqueued = {}
    BY <1>1
  <2>4. /\ inFlight \cup Queued \subseteq Live
        /\ Live' = (Live \ (inFlight \cup Queued)) \cup ((enqueued + 1) .. enqueued')
        /\ enqueued' \in 0 .. MaxItems /\ enqueued <= enqueued'
    BY <1>1, <1>2, <2>1, <2>2, <2>3 DEF Live, TypeOK
  <2>5. /\ NotifiedOnce'
        /\ calls' \in [Items -> Nat]
        /\ \A i \in Items : i > enqueued' => calls'[i] = 0
    BY <1>2, <2>1, <2>4, CallbackNotifies
  <2>6. TypeOK' /\ Bookkeeping'
    BY <1>2, <2>1, <2>2, <2>5 DEF TypeOK, Bookkeeping
  <2>7. Cardinality({}) = 0
    BY FS_EmptySet
  <2>8. NoDanglingReply' /\ WindowBound' /\ NoLostWakeup' /\ SendOrder'
          /\ TimersGuardInFlight'
    BY <2>1, <2>2, <2>7 DEF NoDanglingReply, WindowBound, NoLostWakeup, SendOrder,
                            TimersGuardInFlight
  <2>9. QED
    BY <2>5, <2>6, <2>8 DEF IInv
<1>11. ASSUME NEW i \in Items, i \in Live, CreateZombie(i)
       PROVE  IInv'
  <2>1. CASE i \in inFlight
    <3>1. /\ Callback({i})
          /\ timers' = timers \ {i}
          /\ CallbackMayEnqueue(pending, inFlight)
          /\ inFlight' = inFlight \ {i}
          /\ crypt' = crypt \cup {i}
          /\ going' = TRUE
          /\ UNCHANGED <<awaiting, porter, disposed>>
      BY <1>11, <2>1 DEF CreateZombie
    <3>2. /\ enqueued' \in 0 .. MaxItems
          /\ enqueued <= enqueued' /\ enqueued' <= enqueued + 1
          /\ Fits(pending', inFlight \cup crypt, enqueued')
          /\ Queued' = Queued \cup ((enqueued + 1) .. enqueued')
          /\ idles' \in Nat
      BY <1>1, <1>2, <3>1, CallbackMayEnqueueFits DEF Queued
    <3>3. /\ pending' \in Seq(Items)
          /\ SendOrder'
          /\ Queued' \subseteq 1 .. enqueued'
      BY <2>1, <3>1, <3>2, FitsSendOrder
    <3>4. i \in 1 .. enqueued /\ i \notin Queued
      BY <1>1, <2>1
    <3>5. Live' = (Live \ {i}) \cup ((enqueued + 1) .. enqueued')
      BY <1>1, <3>1, <3>2, <3>4 DEF Live
    <3>6. /\ NotifiedOnce'
          /\ calls' \in [Items -> Nat]
          /\ \A j \in Items : j > enqueued' => calls'[j] = 0
      BY <1>2, <1>11, <3>1, <3>2, <3>5, CallbackNotifies
    <3>7. TypeOK'
      BY <1>2, <3>1, <3>2, <3>3, <3>6 DEF TypeOK
    <3>8. Bookkeeping'
      BY <1>1, <3>1, <3>2, <3>3, <3>4, <3>6 DEF Bookkeeping
    <3>9. WindowBound'
      <4>1. /\ Cardinality(inFlight') \in Nat
            /\ Cardinality(inFlight') <= Cardinality(inFlight)
        BY <1>3, <3>1
      <4>2. QED
        BY <1>2, <1>3, <4>1 DEF WindowBound
    <3>10. NoDanglingReply' /\ NoLostWakeup' /\ TimersGuardInFlight'
      BY <1>2, <3>1 DEF NoDanglingReply, NoLostWakeup, TimersGuardInFlight
    <3>11. QED
      BY <3>3, <3>6, <3>7, <3>8, <3>9, <3>10 DEF IInv
  <2>2. CASE i \notin inFlight
    <3>1. /\ Callback({i})
          /\ timers' = timers \ {i}
          /\ CallbackMayEnqueue(Without(i), inFlight)
          /\ UNCHANGED <<inFlight, crypt, going, awaiting, porter, disposed>>
      BY <1>11, <2>2 DEF CreateZombie
    <3>2. i \in Queued
      BY <1>11, <2>2 DEF Live
    <3>3. /\ Fits(Without(i), inFlight \cup crypt, enqueued)
          /\ Elems(Without(i)) = Queued \ {i}
      BY <1>1, <3>2, WithoutFits
    <3>4. /\ enqueued' \in 0 .. MaxItems
          /\ enqueued <= enqueued' /\ enqueued' <= enqueued + 1
          /\ Fits(pending', inFlight \cup crypt, enqueued')
          /\ Queued' = (Queued \ {i}) \cup ((enqueued + 1) .. enqueued')
          /\ idles' \in Nat /\ idles <= idles'
          /\ Cardinality(inFlight) < PipelineSize /\ enqueued' # enqueued => idles' > 0
      BY <1>1, <1>2, <3>1, <3>3, CallbackMayEnqueueFits
    <3>5. /\ pending' \in Seq(Items)
          /\ SendOrder'
          /\ Queued' \subseteq 1 .. enqueued'
      BY <3>1, <3>4, FitsSendOrder
    <3>6. Live' = (Live \ {i}) \cup ((enqueued + 1) .. enqueued')
      BY <2>2, <3>1, <3>4 DEF Live
    <3>7. /\ NotifiedOnce'
          /\ calls' \in [Items -> Nat]
          /\ \A j \in Items : j > enqueued' => calls'[j] = 0
      BY <1>2, <1>11, <3>1, <3>4, <3>6, CallbackNotifies
    <3>8. TypeOK'
      BY <1>2, <3>1, <3>4, <3>5, <3>7 DEF TypeOK
    <3>9. Bookkeeping'
      BY <1>1, <3>1, <3>4, <3>5, <3>7 DEF Bookkeeping
    <3>10. NoLostWakeup'
      <4>1. pending # <<>>
        BY <3>2 DEF Queued, Elems
      <4>2. Cardinality(inFlight) < PipelineSize => going \/ idles > 0
        BY <1>2, <4>1 DEF NoLostWakeup
      <4>3. Cardinality(inFlight) < PipelineSize => going' \/ idles' > 0
        BY <1>2, <3>1, <3>4, <4>2 DEF TypeOK
      <4>4. QED
        BY <3>1, <4>3 DEF NoLostWakeup
    <3>11. NoDanglingReply' /\ WindowBound' /\ TimersGuardInFlight'
      BY <1>2, <2>2, <3>1 DEF NoDanglingReply, WindowBound, TimersGuardInFlight
    <3>12. QED
      BY <3>5, <3>7, <3>8, <3>9, <3>10, <3>11 DEF IInv
  <2>3. QED
    BY <2>1, <2>2
<1>12. ASSUME NEW i \in Items, Cancel(i)
       PROVE  IInv'
  BY <1>11, <1>12 DEF Cancel, Live
<1>13. ASSUME NEW i \in Items, Timeout(i)
       PROVE  IInv'
  BY <1>2, <1>11, <1>13 DEF Timeout, TimersGuardInFlight, Live
<1>14. ASSUME NEW i \in Items, Response(i)
       PROVE  IInv'
  <2>1. /\ i \in inFlight
        /\ awaiting' = awaiting \ {i}
        /\ inFlight' = inFlight \ {i}
        /\ timers' = timers \ {i}
        /\ Callback({i})
        /\ CallbackMayEnqueue(pending, inFlight \ {i})
        /\ going' = TRUE
        /\ UNCHANGED <<crypt, porter, disposed>>
    BY <1>14 DEF Response
  <2>2. /\ enqueued' \in 0 .. MaxItems
        /\ enqueued <= enqueued' /\ enqueued' <= enqueued + 1
        /\ Fits(pending', inFlight \cup crypt, enqueued')
        /\ Queued' = Queued \cup ((enqueued + 1) .. enqueued')
        /\ idles' \in Nat
    BY <1>1, <1>2, <2>1, CallbackMayEnqueueFits DEF Queued
  <2>3. /\ pending' \in Seq(Items)
        /\ SendOrder'
        /\ Queued' \subseteq 1 .. enqueued'
    BY <2>1, <2>2, FitsSendOrder
  <2>4. i \in Live /\ Live' = (Live \ {i}) \cup ((enqueued + 1) .. enqueued')
    BY <1>1, <2>1, <2>2 DEF Live
  <2>5. /\ NotifiedOnce'
        /\ calls' \in [Items -> Nat]
        /\ \A j \in Items : j > enqueued' => calls'[j] = 0
    BY <1>2, <2>1, <2>2, <2>4, CallbackNotifies
  <2>6. TypeOK'
    BY <1>2, <2>1, <2>2, <2>3, <2>5 DEF TypeOK
  <2>7. Bookkeeping'
    BY <1>1, <2>1, <2>2, <2>3, <2>5 DEF Bookkeeping
  <2>8. WindowBound'
    <3>1. /\ Cardinality(inFlight') \in Nat
          /\ Cardinality(inFlight') <= Cardinality(inFlight)
      BY <1>3, <2>1
    <3>2. QED
      BY <1>2, <1>3, <3>1 DEF WindowBound
  <2>9. NoDanglingReply' /\ NoLostWakeup' /\ TimersGuardInFlight'
    BY <1>2, <2>1 DEF NoDanglingReply, NoLostWakeup, TimersGuardInFlight
  <2>10. QED
    BY <2>3, <2>5, <2>6, <2>7, <2>8, <2>9 DEF IInv
<1>15. ASSUME NEW i \in Items, LateResponse(i)
       PROVE  IInv'
  <2>1. /\ awaiting' = awaiting \ {i}
        /\ UNCHANGED <<enqueued, pending, inFlight, crypt, timers, calls,
                       idles, going, porter, disposed>>
    BY <1>15 DEF LateResponse
  <2>2. Queued' = Queued
    BY <2>1 DEF Queued
  <2>3. TypeOK' /\ Bookkeeping' /\ NotifiedOnce'
    BY <1>2, <2>1, <2>2 DEF TypeOK, Bookkeeping, NotifiedOnce
  <2>4. NoDanglingReply' /\ WindowBound' /\ NoLostWakeup' /\ SendOrder'
          /\ TimersGuardInFlight'
    BY <1>2, <2>1 DEF NoDanglingReply, WindowBound, NoLostWakeup, SendOrder,
                      TimersGuardInFlight
  <2>5. QED
    BY <2>3, <2>4 DEF IInv
<1>16. CASE UNCHANGED vars
  <2>1. /\ UNCHANGED <<enqueued, pending, inFlight, crypt, timers, awaiting,
                       calls, idles, going, porter, disposed>>
    BY <1>16 DEF vars
  <2>2. Queued' = Queued
    BY <2>1 DEF Queued
  <2>3. TypeOK' /\ Bookkeeping' /\ NotifiedOnce'
    BY <1>2, <2>1, <2>2 DEF TypeOK, Bookkeeping, NotifiedOnce
  <2>4. NoDanglingReply' /\ WindowBound' /\ NoLostWakeup' /\ SendOrder'
          /\ TimersGuardInFlight'
    BY <1>2, <2>1 DEF NoDanglingReply, WindowBound, NoLostWakeup, SendOrder,
                      TimersGuardInFlight
  <2>5. QED
    BY <2>3, <2>4 DEF IInv
<1>17. QED
  BY <1>4, <1>5, <1>6, <1>7, <1>8, <1>9, <1>10, <1>12, <1>13, <1>14, <1>15,
     <1>16 DEF Next

\* The inductive invariant holds in every reachable state.
THEOREM Invariance == Spec => []IInv
BY InitIInv, NextIInv, PTL DEF Spec

(* Type correctness of the pipeline's state, for any number of requests.   *)
THEOREM TypeCorrect == Spec => []TypeOK
<1>1. IInv => TypeOK
  BY DEF IInv
<1>2. QED
  BY <1>1, Invariance, PTL

(* response_cb never dereferences a deleted item, however many items the   *)
(* pipeline has seen time out or be cancelled.                             *)
THEOREM RepliesAreSafe == Spec => []NoDanglingReply
<1>1. IInv => NoDanglingReply
  BY DEF IInv
<1>2. QED
  BY <1>1, Invariance, PTL

(* Every client of the pipeline is called back exactly once, in whatever   *)
(* order replies, timeouts, cancellations and dispose arrive.              *)
THEOREM ClientsNotifiedOnce == Spec => []NotifiedOnce
<1>1. IInv => NotifiedOnce
  BY DEF IInv
<1>2. QED
  BY <1>1, Invariance, PTL

(* gabble_request_pipeline_go never has more than REQUEST_PIPELINE_SIZE    *)
(* items in flight, whatever that constant is.                             *)
THEOREM WindowIsRespected == Spec => []WindowBound
<1>1. IInv => WindowBound
  BY DEF IInv
<1>2. QED
  BY <1>1, Invariance, PTL

(* A pending item that could be sent has a run of the pipeline coming, for *)
(* every size of the pipeline: enqueue's test cannot lose a wakeup.        *)
THEOREM NoStall == Spec => []NoLostWakeup
<1>1. IInv => NoLostWakeup
  BY DEF IInv
<1>2. QED
  BY <1>1, Invariance, PTL

(* gabble_request_pipeline_enqueue's order is the order of sending.        *)
THEOREM SentInOrder == Spec => []SendOrder
<1>1. IInv => SendOrder
  BY DEF IInv
<1>2. QED
  BY <1>1, Invariance, PTL

(* The items with a running timeout are exactly the items in flight.       *)
THEOREM TimersMatchFlight == Spec => []TimersGuardInFlight
<1>1. IInv => TimersGuardInFlight
  BY DEF IInv
<1>2. QED
  BY <1>1, Invariance, PTL

(* What the client and the porter see of an item: no dangling reply, one    *)
(* callback, and a timer for exactly the items in flight.                   *)
THEOREM RepliesStaySafe == Spec => []RepliesSafe
BY RepliesAreSafe, ClientsNotifiedOnce, TimersMatchFlight, PTL DEF RepliesSafe

(* The queue in front of the window: bounded, awake and in order.          *)
THEOREM WindowStaysKept == Spec => []WindowKept
BY WindowIsRespected, NoStall, SentInOrder, PTL DEF WindowKept
==============================================================================
