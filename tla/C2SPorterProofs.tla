--------------------------- MODULE C2SPorterProofs ---------------------------
(* The invariants of C2SPorter for every set of stanzas.                     *)
EXTENDS C2SPorter, SequenceTheorems, TLAPS

(* Of two stanzas, x was queued before y.                                    *)
Before(x, y) ==
  \E k, l \in 1 .. Len(accepted) : k < l /\ accepted[k] = x /\ accepted[l] = y

(* The porter was forced to close: it is closing the socket, or has.         *)
Forced == forceOp \/ dead

(* Every stanza is queued once, and what is written, being written and       *)
(* queued was queued in this order.                                          *)
Ordered ==
  /\ \A k \in 1 .. Len(accepted) : result[accepted[k]] # "new"
  /\ \A k, l \in 1 .. Len(accepted) : accepted[k] = accepted[l] => k = l
  /\ \A k \in 1 .. Len(queue) : queue[k] \in Range(accepted)
  /\ \A k, l \in 1 .. Len(queue) : k < l => Before(queue[k], queue[l])
  /\ \A k \in 1 .. Len(wire) : wire[k] # "close" => wire[k] \in Range(accepted)
  /\ \A k, l \in 1 .. Len(wire) : k < l /\ wire[l] # "close" => Before(wire[k], wire[l])
  /\ \A k \in 1 .. Len(wire) : \A l \in 1 .. Len(queue) :
        wire[k] # "close" => Before(wire[k], queue[l])
  /\ output \in Ops /\ ~dead =>
        /\ output \in Range(accepted)
        /\ \A k \in 1 .. Len(wire) : Before(wire[k], output)
  /\ \A k \in 1 .. Len(wire) : wire[k] = "close" => k = Len(wire) /\ outputClosed

(* Whose turn it is: the write that is under way, or the error of one that   *)
(* was refused, belongs to the ping, to the head of the queue or to the end  *)
(* of our stream.                                                            *)
Turns ==
  /\ outputClosed => output = "none"
  /\ ~dead /\ output \in Ops /\ queue # <<>> => output = Head(queue)
  /\ ~Forced /\ output \in Ops => queue # <<>>
  /\ ~dead /\ ~outputClosed =>
        refused["stanza"] = 0 /\ refused["ping"] = 0 /\ refused["close"] = 0
  /\ ping => output = "ping" \/ refused["ping"] > 0
  /\ ~ping => output # "ping" /\ refused["ping"] = 0
  /\ output = "ping" => refused["ping"] = 0
  /\ refused["ping"] <= 1
  /\ queue # <<>> /\ ~ping => output = Head(queue) \/ refused["stanza"] > 0
  /\ forceOp => queue = <<>>

(* The end of our stream is written once at most, and while it is being      *)
(* written nothing else is to be sent, unless the porter was forced.         *)
CloseOnce ==
  /\ waitingToClose => output # "close" /\ refused["close"] = 0 /\ ~outputClosed
  /\ output = "close" => refused["close"] = 0
  /\ outputClosed => refused["close"] = 0
  /\ "close" \notin closeCalls =>
        ~waitingToClose /\ output # "close" /\ refused["close"] = 0 /\ ~outputClosed
  /\ ~Forced => refused["close"] = 0
  /\ ~Forced /\ localClosed => ~waitingToClose /\ output # "close" /\ "close" \in closeCalls
  /\ ~Forced /\ waitingToClose => closeOp
  /\ ~Forced /\ output = "close" => closeOp /\ queue = <<>> /\ ~ping

(* A close and a forced close are under way, about to call back or have, and *)
(* only one of the three.                                                    *)
Closes ==
  /\ closeOp => /\ ~Forced /\ ~closeAborted /\ closeDone.close = 0
                /\ "close" \in closeCalls
                /\ localClosed => ~remoteClosed
                /\ ~localClosed => (waitingToClose /\ SendingInProgress) \/ output = "close"
  /\ closeAborted => closeDone.close = 0
  /\ closeDone.close <= 1 /\ closeDone.force <= 1
  /\ "close" \notin closeCalls => closeDone.close = 0 /\ ~closeAborted
  /\ forceOp => closeDone.force = 0
  /\ "force" \notin closeCalls => closeDone.force = 0 /\ ~Forced
  /\ ~Forced => receiving \in {"running", "none"} /\ (receiving = "none" => remoteClosed)
  /\ ForcedOnce

(* What a user was told, and what his stanza's handler knows.                *)
Told ==
  /\ \A o \in Ops : done[o] = IF result[o] \in {"new", "pending"} THEN 0 ELSE 1
  /\ \A o \in Ops : result[o] = "pending" <=>
                       IF o \in Iqs THEN Pending(o) ELSE o \in Range(queue)
  /\ \A i \in Iqs : handlers[i].pending => handlers[i].there
  /\ HandlersTidy
  /\ OkMeansWritten

PorterInv == PorterTypeOK /\ Turns /\ CloseOnce /\ Closes /\ Told /\ Ordered

-----------------------------------------------------------------------------
\* Stanzas are told from what else is written.
LEMMA Names == Iqs \subseteq Ops /\ \A o \in Ops : o # "none" /\ o # "ping" /\ o # "close"
BY PorterAssumption

(* Writing.                                                                  *)

St(o, r, w) == [out |-> o, ref |-> r, wait |-> w]

\* One more and one less refusal of a kind.
More(r, kind) == [r EXCEPT ![kind] = @ + 1]
Less(r, kind) == [r EXCEPT ![kind] = @ - 1]

\* The states that a callback starts from.
LEMMA SendStates ==
    /\ SendState = St(output, refused, waitingToClose)
    /\ WriteEnds = St("none", refused, waitingToClose)
    /\ \A kind : Refusal(kind) = St(output, Less(refused, kind), waitingToClose)
BY DEF SendState, WriteEnds, Refusal, St, Less

\* A write is taken by an idle connection and refused by any other.
LEMMA Writes ==
    ASSUME NEW o, NEW r, NEW w, NEW what, NEW kind
    PROVE  /\ o = "none" /\ ~outputClosed => Write(St(o, r, w), what, kind) = St(what, r, w)
           /\ ~(o = "none" /\ ~outputClosed) =>
                 Write(St(o, r, w), what, kind) = St(o, More(r, kind), w)
BY DEF Write, St, More

LEMMA SendHeads ==
    ASSUME NEW o, NEW r, NEW w, NEW q
    PROVE  /\ q = <<>> => SendHead(St(o, r, w), q) = St(o, r, w)
           /\ q # <<>> /\ o = "none" /\ ~outputClosed =>
                 SendHead(St(o, r, w), q) = St(Head(q), r, w)
           /\ q # <<>> /\ ~(o = "none" /\ ~outputClosed) =>
                 SendHead(St(o, r, w), q) = St(o, More(r, "stanza"), w)
BY Writes DEF SendHead

LEMMA SendCloses ==
    ASSUME NEW o, NEW r, NEW w \in BOOLEAN
    PROVE  /\ o = "none" /\ ~outputClosed => SendClose(St(o, r, w)) = St("close", r, FALSE)
           /\ ~(o = "none" /\ ~outputClosed) =>
                 SendClose(St(o, r, w)) = St(o, More(r, "close"), FALSE)
<1>1. SendClose(St(o, r, w)) = Write(St(o, r, FALSE), "close", "close")
  BY DEF SendClose, St
<1>2. /\ o = "none" /\ ~outputClosed =>
            Write(St(o, r, FALSE), "close", "close") = St("close", r, FALSE)
      /\ ~(o = "none" /\ ~outputClosed) =>
            Write(St(o, r, FALSE), "close", "close") = St(o, More(r, "close"), FALSE)
  BY DEF Write, St, More
<1>3. QED
  BY <1>1, <1>2

LEMMA ClosesIfWaiting ==
    ASSUME NEW o, NEW r, NEW w \in BOOLEAN, NEW q, NEW p \in BOOLEAN
    PROVE  /\ ~(w /\ q = <<>> /\ ~p) => CloseIfWaiting(St(o, r, w), q, p) = St(o, r, w)
           /\ w /\ q = <<>> /\ ~p =>
                 CloseIfWaiting(St(o, r, w), q, p) = SendClose(St(o, r, w))
<1>1. St(o, r, w).wait = w
  BY DEF St
<1>2. QED
  BY <1>1 DEF CloseIfWaiting

LEMMA Sets ==
    ASSUME NEW o, NEW r, NEW w, SetSendState(St(o, r, w))
    PROVE  output' = o /\ refused' = r /\ waitingToClose' = w
BY DEF SetSendState, St

-----------------------------------------------------------------------------
(* The queue.                                                                *)

(* What q holds stands in p, in the same order.                              *)
Embeds(q, p) ==
  /\ \A k \in 1 .. Len(q) : \E a \in 1 .. Len(p) : q[k] = p[a]
  /\ \A k, l \in 1 .. Len(q) : k < l =>
        \E a, b \in 1 .. Len(p) : a < b /\ q[k] = p[a] /\ q[l] = p[b]

LEMMA Ranges ==
    ASSUME NEW S, NEW q \in Seq(S)
    PROVE  /\ Len(q) \in Nat
           /\ \A x : x \in Range(q) <=> \E k \in 1 .. Len(q) : x = q[k]
           /\ \A k \in 1 .. Len(q) : q[k] \in S
           /\ q = <<>> <=> Len(q) = 0
           /\ q # <<>> => Head(q) = q[1] /\ Head(q) \in S
<1>1. Len(q) \in Nat /\ DOMAIN q = 1 .. Len(q) /\ \A k \in 1 .. Len(q) : q[k] \in S
  BY LenProperties, ElementOfSeq
<1>2. \A x : x \in Range(q) <=> \E k \in 1 .. Len(q) : x = q[k]
  BY <1>1 DEF Range
<1>3. q = <<>> <=> Len(q) = 0
  BY EmptySeq
<1>4. q # <<>> => Head(q) = q[1]
  BY <1>1
<1>5. q # <<>> => 1 \in 1 .. Len(q)
  BY <1>1, <1>3
<1>6. QED
  BY <1>1, <1>2, <1>3, <1>4, <1>5

LEMMA EmbedsItself ==
    ASSUME NEW S, NEW q \in Seq(S)
    PROVE  Embeds(q, q) /\ Embeds(<<>>, q)
BY LenProperties DEF Embeds

LEMMA AppendRange ==
    ASSUME NEW S, NEW q \in Seq(S), NEW o \in S
    PROVE  /\ Append(q, o) \in Seq(S)
           /\ Len(Append(q, o)) = Len(q) + 1
           /\ \A k \in 1 .. Len(q) : Append(q, o)[k] = q[k]
           /\ Append(q, o)[Len(q) + 1] = o
           /\ \A x : x \in Range(Append(q, o)) <=> x \in Range(q) \/ x = o
           /\ Append(q, o) # <<>>
           /\ Head(Append(q, o)) = IF q = <<>> THEN o ELSE Head(q)
<1> DEFINE a == Append(q, o)
<1>1. /\ a \in Seq(S)
      /\ a # <<>>
      /\ Len(a) = Len(q) + 1
      /\ \A k \in 1 .. Len(q) : a[k] = q[k]
      /\ a[Len(q) + 1] = o
  BY AppendProperties
<1>2. Head(a) = IF q = <<>> THEN o ELSE Head(q)
  BY HeadTailAppend
<1> HIDE DEF a
<1>3. Len(q) \in Nat /\ \A x : x \in Range(q) <=> \E k \in 1 .. Len(q) : x = q[k]
  BY Ranges
<1>4. \A x : x \in Range(a) <=> \E k \in 1 .. Len(a) : x = a[k]
  BY <1>1, Ranges
<1>5. \A k : k \in 1 .. Len(a) <=> k \in 1 .. Len(q) \/ k = Len(q) + 1
  BY <1>1, <1>3
<1>6. \A x : x \in Range(a) <=> x \in Range(q) \/ x = o
  BY <1>1, <1>3, <1>4, <1>5
<1>7. QED
  BY <1>1, <1>2, <1>6 DEF a

\* Distinct entries: the head is not in the rest.
Distinct(q) == \A k, l \in 1 .. Len(q) : q[k] = q[l] => k = l

LEMMA TailRange ==
    ASSUME NEW S, NEW q \in Seq(S), q # <<>>
    PROVE  /\ Tail(q) \in Seq(S)
           /\ Embeds(Tail(q), q)
           /\ \A x : x \in Range(q) <=> x \in Range(Tail(q)) \/ x = Head(q)
           /\ Distinct(q) => Head(q) \notin Range(Tail(q))
<1> DEFINE t == Tail(q)
<1>1. /\ t \in Seq(S)
      /\ Len(t) = Len(q) - 1
      /\ \A k \in 1 .. Len(t) : t[k] = q[k + 1]
  BY HeadTailProperties
<1> HIDE DEF t
<1>2. /\ Len(q) \in Nat /\ Len(q) # 0
      /\ \A x : x \in Range(q) <=> \E k \in 1 .. Len(q) : x = q[k]
      /\ Head(q) = q[1]
  BY Ranges
<1>3. \A x : x \in Range(t) <=> \E k \in 1 .. Len(t) : x = t[k]
  BY <1>1, Ranges
<1>4. ASSUME NEW k \in 1 .. Len(t)
      PROVE  k + 1 \in 1 .. Len(q) /\ t[k] = q[k + 1] /\ k + 1 # 1
  BY <1>1, <1>2
<1>5. ASSUME NEW k \in 1 .. Len(q), k # 1
      PROVE  k - 1 \in 1 .. Len(t) /\ t[k - 1] = q[k]
  BY <1>1, <1>2, <1>5
<1>6. Embeds(t, q)
  <2>1. ASSUME NEW k \in 1 .. Len(t), NEW l \in 1 .. Len(t), k < l
        PROVE  \E a, b \in 1 .. Len(q) : a < b /\ t[k] = q[a] /\ t[l] = q[b]
    <3>1. k + 1 < l + 1
      BY <1>1, <1>2, <2>1
    <3>2. QED
      BY <3>1, <1>4
  <2>2. QED
    BY <1>4, <2>1 DEF Embeds
<1>7. ASSUME NEW x
      PROVE  x \in Range(q) <=> x \in Range(t) \/ x = Head(q)
  <2>1. 1 \in 1 .. Len(q)
    BY <1>2
  <2>2. ASSUME x \in Range(t) PROVE x \in Range(q)
    BY <2>2, <1>2, <1>3, <1>4
  <2>3. ASSUME x \in Range(q), x # Head(q) PROVE x \in Range(t)
    BY <2>3, <1>2, <1>3, <1>5
  <2>4. QED
    BY <1>2, <2>1, <2>2, <2>3
<1>8. Distinct(q) => Head(q) \notin Range(t)
  BY <1>2, <1>3, <1>4 DEF Distinct
<1>9. QED
  BY <1>1, <1>6, <1>7, <1>8 DEF t

\* What an op leaves behind when it is taken out of the queue.
LEMMA Removal ==
    ASSUME queue \in Seq(Ops), Distinct(queue), NEW o, o \in Range(queue)
    PROVE  /\ Unqueued(o) \in Seq(Ops)
           /\ Embeds(Unqueued(o), queue)
           /\ \A x : x \in Range(Unqueued(o)) <=> x \in Range(queue) /\ x # o
           /\ o # Head(queue) =>
                 queue # <<>> /\ Unqueued(o) # <<>> /\ Head(Unqueued(o)) = Head(queue)
<1> DEFINE u == Unqueued(o)
<1>1. /\ Len(queue) \in Nat
      /\ DOMAIN queue = 1 .. Len(queue)
      /\ \A x : x \in Range(queue) <=> \E k \in 1 .. Len(queue) : x = queue[k]
      /\ \A k \in 1 .. Len(queue) : queue[k] \in Ops
      /\ queue # <<>> => Head(queue) = queue[1]
      /\ queue = <<>> <=> Len(queue) = 0
  BY Ranges, LenProperties
<1> DEFINE at == CHOOSE k \in DOMAIN queue : queue[k] = o
<1>2. /\ at \in 1 .. Len(queue)
      /\ queue[at] = o
      /\ u = [k \in 1 .. Len(queue) - 1 |-> queue[IF k < at THEN k ELSE k + 1]]
  <2>1. \E k \in DOMAIN queue : queue[k] = o
    BY <1>1
  <2>2. at \in DOMAIN queue /\ queue[at] = o
    BY <2>1
  <2>3. QED
    BY <1>1, <2>2 DEF Unqueued
<1> HIDE DEF u, at
<1>3. \A k \in 1 .. Len(queue) - 1 : (IF k < at THEN k ELSE k + 1) \in 1 .. Len(queue)
  BY <1>1, <1>2
<1>4. u \in Seq(Ops) /\ Len(u) = Len(queue) - 1
  <2>1. u \in [1 .. Len(queue) - 1 -> Ops]
    BY <1>1, <1>2, <1>3
  <2>2. Len(queue) - 1 \in Nat
    BY <1>1, <1>2
  <2>3. QED
    BY <2>1, <2>2, SeqDef, LenProperties
<1>5. ASSUME NEW k \in 1 .. Len(u)
      PROVE  /\ k < at => k \in 1 .. Len(queue) /\ u[k] = queue[k]
             /\ ~(k < at) => k + 1 \in 1 .. Len(queue) /\ u[k] = queue[k + 1]
  BY <1>1, <1>2, <1>4
<1>6. ASSUME NEW k \in 1 .. Len(queue), k # at
      PROVE  /\ k < at => k \in 1 .. Len(u) /\ u[k] = queue[k]
             /\ ~(k < at) => k - 1 \in 1 .. Len(u) /\ u[k - 1] = queue[k]
  BY <1>1, <1>2, <1>4, <1>6
<1>7. Embeds(u, queue)
  <2>1. ASSUME NEW k \in 1 .. Len(u) PROVE \E a \in 1 .. Len(queue) : u[k] = queue[a]
    BY <1>5
  <2>2. ASSUME NEW k \in 1 .. Len(u), NEW l \in 1 .. Len(u), k < l
        PROVE  \E a, b \in 1 .. Len(queue) : a < b /\ u[k] = queue[a] /\ u[l] = queue[b]
    <3>1. k \in Int /\ l \in Int /\ at \in Int
      BY <1>1, <1>2, <1>4
    <3>2. CASE l < at
      BY <3>1, <3>2, <2>2, <1>5
    <3>3. CASE k < at /\ ~(l < at)
      <4>1. k < l + 1
        BY <3>1, <2>2
      <4>2. QED
        BY <3>3, <4>1, <1>5
    <3>4. CASE ~(k < at)
      <4>1. k + 1 < l + 1 /\ ~(l < at)
        BY <3>1, <3>4, <2>2
      <4>2. QED
        BY <3>4, <4>1, <1>5
    <3>5. QED
      BY <3>2, <3>3, <3>4
  <2>3. QED
    BY <2>1, <2>2 DEF Embeds
<1>8. \A x : x \in Range(u) <=> \E k \in 1 .. Len(u) : x = u[k]
  BY <1>4, Ranges
<1>9. ASSUME NEW x
      PROVE  x \in Range(u) <=> x \in Range(queue) /\ x # o
  <2>1. ASSUME x \in Range(u) PROVE x \in Range(queue) /\ x # o
    <3>1. PICK k \in 1 .. Len(u) : x = u[k]
      BY <2>1, <1>8
    <3>2. PICK a \in 1 .. Len(queue) : x = queue[a] /\ a # at
      BY <3>1, <1>1, <1>2, <1>4, <1>5
    <3>3. QED
      BY <3>2, <1>1, <1>2 DEF Distinct
  <2>2. ASSUME x \in Range(queue), x # o PROVE x \in Range(u)
    <3>1. PICK k \in 1 .. Len(queue) : x = queue[k]
      BY <2>2, <1>1
    <3>2. k # at
      BY <3>1, <2>2, <1>2
    <3>3. QED
      BY <3>1, <3>2, <1>6, <1>8
  <2>3. QED
    BY <2>1, <2>2
<1>10. o # Head(queue) => queue # <<>> /\ u # <<>> /\ Head(u) = Head(queue)
  <2>1. SUFFICES ASSUME o # Head(queue) PROVE queue # <<>> /\ u # <<>> /\ Head(u) = Head(queue)
    OBVIOUS
  <2>2. queue # <<>> /\ at # 1 /\ 1 \in 1 .. Len(queue)
    BY <1>1, <1>2, <2>1
  <2>3. 1 \in 1 .. Len(u) /\ u[1] = queue[1]
    BY <1>1, <1>2, <2>2, <1>6
  <2>4. u # <<>> /\ Head(u) = u[1]
    BY <1>4, <2>3, Ranges
  <2>5. QED
    BY <1>1, <2>2, <2>3, <2>4
<1>11. QED
  BY <1>4, <1>7, <1>9, <1>10 DEF u

-----------------------------------------------------------------------------
(* What the writes of each operation come to.                                *)

LEMMA AcceptWrites ==
    ASSUME PorterTypeOK, NEW o \in Ops, Accept(o)
    PROVE  /\ queue' = Append(queue, o)
           /\ accepted' = Append(accepted, o)
           /\ waitingToClose' = waitingToClose
           /\ queue = <<>> /\ ~ping /\ output = "none" /\ ~outputClosed =>
                 output' = o /\ refused' = refused
           /\ queue = <<>> /\ ~ping /\ ~(output = "none" /\ ~outputClosed) =>
                 output' = output /\ refused' = More(refused, "stanza")
           /\ queue # <<>> \/ ping => output' = output /\ refused' = refused
<1>1. <<o>> # <<>> /\ Head(<<o>>) = o
  OBVIOUS
<1>2. CASE queue = <<>> /\ ~ping
  <2>1. SetSendState(SendHead(St(output, refused, waitingToClose), <<o>>))
    BY <1>2, SendStates DEF Accept
  <2>2. CASE output = "none" /\ ~outputClosed
    <3>1. SetSendState(St(o, refused, waitingToClose))
      BY <1>1, <2>1, <2>2, SendHeads
    <3>2. QED
      BY <1>2, <2>2, <3>1, Sets DEF Accept
  <2>3. CASE ~(output = "none" /\ ~outputClosed)
    <3>1. SetSendState(St(output, More(refused, "stanza"), waitingToClose))
      BY <1>1, <2>1, <2>3, SendHeads
    <3>2. QED
      BY <1>2, <2>3, <3>1, Sets DEF Accept
  <2>4. QED
    BY <2>2, <2>3
<1>3. CASE ~(queue = <<>> /\ ~ping)
  BY <1>3, SendStates, Sets DEF Accept
<1>4. QED
  BY <1>2, <1>3

LEMMA SendPingWrites ==
    ASSUME PorterTypeOK, SendPing
    PROVE  /\ waitingToClose' = waitingToClose
           /\ output = "none" /\ ~outputClosed => output' = "ping" /\ refused' = refused
           /\ ~(output = "none" /\ ~outputClosed) =>
                 output' = output /\ refused' = More(refused, "ping")
BY SendStates, Writes, Sets DEF SendPing

\* A close that may wait for the end of what st is about.
LEMMA CloseWrites ==
    ASSUME PorterTypeOK, NEW o, NEW r, NEW q, NEW p \in BOOLEAN,
           SetSendState(CloseIfWaiting(St(o, r, waitingToClose), q, p))
    PROVE  /\ waitingToClose' \in BOOLEAN
           /\ ~(waitingToClose /\ q = <<>> /\ ~p) =>
                 output' = o /\ refused' = r /\ waitingToClose' = waitingToClose
           /\ waitingToClose /\ q = <<>> /\ ~p => ~waitingToClose'
           /\ waitingToClose /\ q = <<>> /\ ~p /\ o = "none" /\ ~outputClosed =>
                 output' = "close" /\ refused' = r
           /\ waitingToClose /\ q = <<>> /\ ~p /\ ~(o = "none" /\ ~outputClosed) =>
                 output' = o /\ refused' = More(r, "close")
<1>1. waitingToClose \in BOOLEAN
  BY DEF PorterTypeOK
<1>2. CASE ~(waitingToClose /\ q = <<>> /\ ~p)
  <2>1. CloseIfWaiting(St(o, r, waitingToClose), q, p) = St(o, r, waitingToClose)
    BY <1>1, <1>2, ClosesIfWaiting
  <2>2. QED
    BY <1>1, <1>2, <2>1, Sets
<1>3. CASE waitingToClose /\ q = <<>> /\ ~p
  <2>1. CloseIfWaiting(St(o, r, waitingToClose), q, p) = SendClose(St(o, r, waitingToClose))
    BY <1>1, <1>3, ClosesIfWaiting
  <2>2. CASE o = "none" /\ ~outputClosed
    <3>1. CloseIfWaiting(St(o, r, waitingToClose), q, p) = St("close", r, FALSE)
      BY <1>1, <2>1, <2>2, SendCloses
    <3>2. SetSendState(St("close", r, FALSE))
      BY <3>1
    <3>3. QED
      BY <3>2, <2>2, <1>3, Sets
  <2>3. CASE ~(o = "none" /\ ~outputClosed)
    <3>1. CloseIfWaiting(St(o, r, waitingToClose), q, p) = St(o, More(r, "close"), FALSE)
      BY <1>1, <2>1, <2>3, SendCloses
    <3>2. SetSendState(St(o, More(r, "close"), FALSE))
      BY <3>1
    <3>3. QED
      BY <3>2, <2>3, <1>3, Sets
  <2>4. QED
    BY <2>2, <2>3
<1>4. QED
  BY <1>2, <1>3

LEMMA StanzaWrittenWrites ==
    ASSUME PorterTypeOK, Turns, StanzaWritten
    PROVE  /\ waitingToClose' \in BOOLEAN
           /\ ~outputClosed
           /\ refused' = refused
           /\ queue = <<>> =>
                 queue' = queue /\ output' = "none" /\ waitingToClose' = waitingToClose
           /\ queue # <<>> =>
                 /\ queue' = Tail(queue)
                 /\ Tail(queue) # <<>> =>
                       output' = Head(Tail(queue)) /\ waitingToClose' = waitingToClose
                 /\ Tail(queue) = <<>> /\ waitingToClose /\ ~ping =>
                       output' = "close" /\ ~waitingToClose'
                 /\ Tail(queue) = <<>> /\ ~(waitingToClose /\ ~ping) =>
                       output' = "none" /\ waitingToClose' = waitingToClose
<1>1. ~outputClosed /\ ping \in BOOLEAN /\ waitingToClose \in BOOLEAN
  BY Names DEF StanzaWritten, Turns, PorterTypeOK
<1>2. CASE queue = <<>>
  BY <1>1, <1>2, SendStates, Sets DEF StanzaWritten
<1>3. CASE queue # <<>>
  <2> DEFINE q == Tail(queue)
  <2>1. /\ queue' = q
        /\ SetSendState(CloseIfWaiting(SendHead(St("none", refused, waitingToClose), q), q, ping))
    BY <1>3, SendStates DEF StanzaWritten
  <2> HIDE DEF q
  <2>2. ASSUME q = <<>>
        PROVE  /\ refused' = refused /\ waitingToClose' \in BOOLEAN
               /\ waitingToClose /\ ~ping => output' = "close" /\ ~waitingToClose'
               /\ ~(waitingToClose /\ ~ping) =>
                     output' = "none" /\ waitingToClose' = waitingToClose
    <3>1. SetSendState(CloseIfWaiting(St("none", refused, waitingToClose), <<>>, ping))
      BY <2>1, <2>2, SendHeads
    <3>2. QED
      BY <1>1, <3>1, CloseWrites
  <2>3. ASSUME q # <<>>
        PROVE  /\ waitingToClose' \in BOOLEAN
               /\ output' = Head(q) /\ refused' = refused /\ waitingToClose' = waitingToClose
    <3>1. SetSendState(CloseIfWaiting(St(Head(q), refused, waitingToClose), q, ping))
      <4>1. SendHead(St("none", refused, waitingToClose), q) = St(Head(q), refused, waitingToClose)
        BY <1>1, <2>3, SendHeads
      <4>2. QED
        BY <2>1, <4>1
    <3>2. QED
      BY <1>1, <2>3, <3>1, CloseWrites
  <2>4. QED
    BY <1>1, <1>3, <2>1, <2>2, <2>3 DEF q
<1>4. QED
  BY <1>2, <1>3

LEMMA StanzaFailsWrites ==
    ASSUME PorterTypeOK, StanzaFails
    PROVE  /\ queue' = <<>>
           /\ \E o, r :
                /\ \/ output \in Ops /\ o = "none" /\ r = refused
                   \/ /\ refused["stanza"] > 0
                      /\ o = output
                      /\ r = Less(refused, "stanza")
                /\ SetSendState(CloseIfWaiting(St(o, r, waitingToClose), <<>>, ping))
BY SendStates DEF StanzaFails, Terminate

LEMMA PingWrittenWrites ==
    ASSUME PorterTypeOK, Turns, PingWritten
    PROVE  /\ waitingToClose' \in BOOLEAN
           /\ ~outputClosed
           /\ ~ping'
           /\ refused' = refused
           /\ queue # <<>> => output' = Head(queue) /\ waitingToClose' = waitingToClose
           /\ queue = <<>> /\ waitingToClose => output' = "close" /\ ~waitingToClose'
           /\ queue = <<>> /\ ~waitingToClose =>
                 output' = "none" /\ waitingToClose' = waitingToClose
<1>1. ~outputClosed /\ ping' = FALSE /\ waitingToClose \in BOOLEAN
  BY DEF PingWritten, WriteOf, Turns, PorterTypeOK
<1>2. SetSendState(CloseIfWaiting(SendHead(St("none", refused, waitingToClose), queue),
                                  queue, FALSE))
  BY SendStates DEF PingWritten
<1>3. CASE queue = <<>>
  <2>1. SetSendState(CloseIfWaiting(St("none", refused, waitingToClose), <<>>, FALSE))
    BY <1>2, <1>3, SendHeads
  <2>2. QED
    BY <1>1, <1>3, <2>1, CloseWrites
<1>4. CASE queue # <<>>
  <2>1. SetSendState(CloseIfWaiting(St(Head(queue), refused, waitingToClose), queue, FALSE))
    <3>1. SendHead(St("none", refused, waitingToClose), queue)
            = St(Head(queue), refused, waitingToClose)
      BY <1>1, <1>4, SendHeads
    <3>2. QED
      BY <1>2, <3>1
  <2>2. ~(waitingToClose /\ queue = <<>> /\ ~FALSE) /\ FALSE \in BOOLEAN
    BY <1>4
  <2>3. output' = Head(queue) /\ refused' = refused /\ waitingToClose' = waitingToClose
    BY <2>1, <2>2, CloseWrites
  <2>4. QED
    BY <1>1, <1>4, <2>3
<1>5. QED
  BY <1>3, <1>4

LEMMA PingFailsWrites ==
    ASSUME PorterTypeOK, PingFails
    PROVE  /\ queue' = <<>>
           /\ ~ping'
           /\ \E o, r :
                /\ \/ output = "ping" /\ o = "none" /\ r = refused
                   \/ /\ refused["ping"] > 0
                      /\ o = output
                      /\ r = Less(refused, "ping")
                /\ SetSendState(CloseIfWaiting(St(o, r, waitingToClose), <<>>, FALSE))
BY SendStates DEF PingFails, Terminate

LEMMA CloseNotSentWrites ==
    ASSUME PorterTypeOK, CloseNotSent
    PROVE  /\ waitingToClose' = waitingToClose
           /\ \/ output = "close" /\ output' = "none" /\ refused' = refused
              \/ /\ refused["close"] > 0
                 /\ output' = output
                 /\ refused' = Less(refused, "close")
BY SendStates, Sets DEF CloseNotSent

LEMMA CloseSentWrites ==
    ASSUME PorterTypeOK, CloseSent
    PROVE  output' = "none" /\ refused' = refused /\ waitingToClose' = waitingToClose
BY SendStates, Sets DEF CloseSent

LEMMA StartCloseWrites ==
    ASSUME PorterTypeOK, StartClose
    PROVE  /\ waitingToClose' \in BOOLEAN
           /\ SendingInProgress =>
                 waitingToClose' /\ output' = output /\ refused' = refused
           /\ ~SendingInProgress => ~waitingToClose'
           /\ ~SendingInProgress /\ output = "none" /\ ~outputClosed =>
                 output' = "close" /\ refused' = refused
           /\ ~SendingInProgress /\ ~(output = "none" /\ ~outputClosed) =>
                 output' = output /\ refused' = More(refused, "close")
<1>1. waitingToClose \in BOOLEAN
  BY DEF PorterTypeOK
<1>2. CASE SendingInProgress
  BY <1>2 DEF StartClose
<1>3. CASE ~SendingInProgress
  <2>1. SetSendState(SendClose(St(output, refused, waitingToClose)))
    BY <1>3, SendStates DEF StartClose
  <2>2. CASE output = "none" /\ ~outputClosed
    <3>1. SetSendState(St("close", refused, FALSE))
      BY <1>1, <2>1, <2>2, SendCloses
    <3>2. QED
      BY <1>3, <2>2, <3>1, Sets
  <2>3. CASE ~(output = "none" /\ ~outputClosed)
    <3>1. SetSendState(St(output, More(refused, "close"), FALSE))
      BY <1>1, <2>1, <2>3, SendCloses
    <3>2. QED
      BY <1>3, <2>3, <3>1, Sets
  <2>4. QED
    BY <2>2, <2>3
<1>4. QED
  BY <1>2, <1>3

-----------------------------------------------------------------------------
(* The handler of an IQ.                                                     *)

Handler == [there : BOOLEAN, pending : BOOLEAN, sent : BOOLEAN]

LEMMA HandlerSent ==
    ASSUME NEW h \in Handler, NEW ok \in BOOLEAN
    PROVE  LET r == MaybeRemove([h EXCEPT !.sent = TRUE, !.pending = @ /\ ok]) IN
           /\ r \in Handler
           /\ r.there <=> h.there /\ h.pending /\ ok
           /\ r.pending <=> h.pending /\ ok
           /\ r.sent <=> h.pending /\ ok
BY DEF Handler, MaybeRemove, NoHandler

LEMMA HandlerTold ==
    ASSUME NEW h \in Handler
    PROVE  LET r == MaybeRemove([h EXCEPT !.pending = FALSE]) IN
           /\ r \in Handler
           /\ r.there <=> h.there /\ ~h.sent
           /\ ~r.pending
           /\ ~r.sent
BY DEF Handler, MaybeRemove, NoHandler

LEMMA HandlerCancelled ==
    ASSUME NEW h \in Handler, NEW w \in BOOLEAN, NEW r,
           r = MaybeRemove([h EXCEPT !.pending = FALSE, !.sent = @ \/ w])
    PROVE  /\ r \in Handler
           /\ r.there <=> h.there /\ ~h.sent /\ ~w
           /\ ~r.pending
           /\ ~r.sent
BY DEF Handler, MaybeRemove, NoHandler

-----------------------------------------------------------------------------
(* The invariant, part by part.                                              *)

LEMMA Counts ==
    ASSUME NEW r \in [Kinds -> Nat]
    PROVE  /\ \A k \in Kinds : /\ More(r, k) \in [Kinds -> Nat]
                               /\ r[k] > 0 => Less(r, k) \in [Kinds -> Nat]
           /\ More(r, "stanza")["stanza"] = r["stanza"] + 1
           /\ More(r, "stanza")["ping"] = r["ping"] /\ More(r, "stanza")["close"] = r["close"]
           /\ More(r, "ping")["ping"] = r["ping"] + 1
           /\ More(r, "ping")["stanza"] = r["stanza"] /\ More(r, "ping")["close"] = r["close"]
           /\ More(r, "close")["close"] = r["close"] + 1
           /\ More(r, "close")["stanza"] = r["stanza"] /\ More(r, "close")["ping"] = r["ping"]
           /\ Less(r, "stanza")["stanza"] = r["stanza"] - 1
           /\ Less(r, "stanza")["ping"] = r["ping"] /\ Less(r, "stanza")["close"] = r["close"]
           /\ Less(r, "ping")["ping"] = r["ping"] - 1
           /\ Less(r, "ping")["stanza"] = r["stanza"] /\ Less(r, "ping")["close"] = r["close"]
           /\ Less(r, "close")["close"] = r["close"] - 1
           /\ Less(r, "close")["stanza"] = r["stanza"] /\ Less(r, "close")["ping"] = r["ping"]
BY DEF More, Less, Kinds

LEMMA QueueFacts ==
    ASSUME PorterTypeOK, Ordered
    PROVE  /\ queue \in Seq(Ops)
           /\ Distinct(queue)
           /\ queue # <<>> => Head(queue) \in Ops /\ Head(queue) \in Range(queue)
<1>1. queue \in Seq(Ops) /\ accepted \in Seq(Ops)
  BY DEF PorterTypeOK
<1>2. Len(queue) \in Nat /\ Len(accepted) \in Nat
  BY <1>1, Ranges
<1>3. ASSUME NEW k \in 1 .. Len(queue), NEW l \in 1 .. Len(queue), k < l
      PROVE  queue[k] # queue[l]
  <2>1. PICK a, b \in 1 .. Len(accepted) :
           a < b /\ accepted[a] = queue[k] /\ accepted[b] = queue[l]
    BY <1>3 DEF Ordered, Before
  <2>2. accepted[a] # accepted[b]
    BY <1>2, <2>1 DEF Ordered
  <2>3. QED
    BY <2>1, <2>2
<1>4. Distinct(queue)
  <2>1. \A k, l \in 1 .. Len(queue) : k < l \/ l < k \/ k = l
    BY <1>2
  <2>2. QED
    BY <1>3, <2>1 DEF Distinct
<1>5. queue # <<>> => Head(queue) = queue[1] /\ 1 \in 1 .. Len(queue)
  BY <1>1, <1>2, Ranges
<1>6. QED
  BY <1>1, <1>4, <1>5, Ranges

LEMMA TurnsSend ==
    ASSUME PorterInv, NEW o \in Ops, Send(o) \/ SendIq(o)
    PROVE  Turns'
<1>1. CASE Closing
  BY <1>1 DEF PorterInv, Turns, Send, SendIq, Forced, forceVars
<1>2. CASE ~Closing
  <2>1. PorterTypeOK /\ Accept(o)
    BY <1>2 DEF Send, SendIq, PorterInv
  <2>2. queue' # <<>> /\ Head(queue') = IF queue = <<>> THEN o ELSE Head(queue)
    <3>1. queue' = Append(queue, o) /\ queue \in Seq(Ops)
      BY <2>1, AcceptWrites DEF PorterTypeOK
    <3>2. QED
      BY <3>1, AppendRange
  <2>3. UNCHANGED <<ping, outputClosed, dead, forceOp>> /\ ~forceOp
    BY <1>2 DEF Send, SendIq, forceVars, Closing
  <2>4. refused \in [Kinds -> Nat] /\ "stanza" \in Kinds /\ "ping" \in Kinds
    BY <2>1 DEF PorterTypeOK, Kinds
  <2>5. output = "close" => Forced
    BY <1>2 DEF Closing, PorterInv, CloseOnce
  <2>6. CASE queue # <<>> \/ ping
    BY <2>1, <2>2, <2>3, <2>6, AcceptWrites DEF Turns, Forced, PorterInv, PorterTypeOK
  <2>7. CASE queue = <<>> /\ ~ping /\ output = "none" /\ ~outputClosed
    <3>1. output' = o /\ refused' = refused /\ Head(queue') = o
      BY <2>1, <2>2, <2>7, AcceptWrites
    <3>2. o # "ping"
      BY Names
    <3>3. QED
      BY <2>2, <2>3, <2>7, <3>1, <3>2 DEF Turns, Forced, PorterInv
  <2>8. CASE queue = <<>> /\ ~ping /\ ~(output = "none" /\ ~outputClosed)
    BY <2>1, <2>2, <2>3, <2>4, <2>5, <2>8, AcceptWrites, Counts, Names, SMTT(40)
    DEF Turns, Forced, PorterInv, PorterTypeOK
  <2>9. QED
    BY <2>6, <2>7, <2>8
<1>3. QED
  BY <1>1, <1>2

LEMMA TurnsCancel ==
    ASSUME PorterInv, NEW o \in Ops, CancelOp(o)
    PROVE  Turns'
<1>1. CASE ~Waits(o)
  BY <1>1 DEF PorterInv, Turns, CancelOp, Forced, forceVars
<1>2. CASE Waits(o)
  <2>1. queue' = Unqueued(o) /\ o \in Range(queue) /\ (ping \/ o # Head(queue))
    BY <1>2 DEF CancelOp, Waits
  <2>2. o # Head(queue) => queue # <<>> /\ queue' # <<>> /\ Head(queue') = Head(queue)
    BY <2>1, QueueFacts, Removal DEF PorterInv
  <2>3. queue # <<>>
    BY <2>1, Ranges DEF PorterInv, PorterTypeOK
  <2>4. UNCHANGED <<ping, output, refused, outputClosed, dead, forceOp>>
    BY DEF CancelOp, forceVars
  <2>5. QED
    BY <2>1, <2>2, <2>3, <2>4, Names DEF Turns, Forced, PorterInv, PorterTypeOK, Kinds
<1>3. QED
  BY <1>1, <1>2

\* What a failure leaves: a close that waited goes on, and is refused if it
\* cannot be written.
LEMMA AfterFailure ==
    ASSUME PorterTypeOK, NEW o, NEW r \in [Kinds -> Nat], NEW p \in BOOLEAN,
           SetSendState(CloseIfWaiting(St(o, r, waitingToClose), <<>>, p))
    PROVE  /\ waitingToClose' \in BOOLEAN
           /\ refused' \in [Kinds -> Nat]
           /\ refused'["ping"] = r["ping"] /\ refused'["stanza"] = r["stanza"]
           /\ ~(waitingToClose /\ ~p) => /\ output' = o
                                         /\ refused' = r
                                         /\ waitingToClose' = waitingToClose
           /\ waitingToClose /\ ~p => ~waitingToClose'
           /\ waitingToClose /\ ~p /\ o = "none" /\ ~outputClosed =>
                 output' = "close" /\ refused' = r
           /\ waitingToClose /\ ~p /\ ~(o = "none" /\ ~outputClosed) =>
                 output' = o /\ refused'["close"] = r["close"] + 1
<1>1. "close" \in Kinds
  BY DEF Kinds
<1>2. CASE ~(waitingToClose /\ ~p)
  BY <1>2, CloseWrites
<1>3. CASE waitingToClose /\ ~p /\ o = "none" /\ ~outputClosed
  BY <1>3, CloseWrites
<1>4. CASE waitingToClose /\ ~p /\ ~(o = "none" /\ ~outputClosed)
  <2>1. output' = o /\ refused' = More(r, "close") /\ ~waitingToClose'
        /\ waitingToClose' \in BOOLEAN
    BY <1>4, CloseWrites
  <2>2. QED
    BY <1>1, <1>4, <2>1, Counts
<1>5. QED
  BY <1>2, <1>3, <1>4

\* send_stanza_cb and the callback of a ping, after a failure: the write or the
\* refusal that they are about is over.
LEMMA StanzaFailure ==
    ASSUME PorterTypeOK, StanzaFails
    PROVE  \E o : \E r \in [Kinds -> Nat] :
              /\ \/ output \in Ops /\ o = "none" /\ r = refused
                 \/ /\ refused["stanza"] > 0 /\ o = output
                    /\ r["stanza"] = refused["stanza"] - 1
              /\ r["ping"] = refused["ping"] /\ r["close"] = refused["close"]
              /\ SetSendState(CloseIfWaiting(St(o, r, waitingToClose), <<>>, ping))
<1>1. refused \in [Kinds -> Nat] /\ "stanza" \in Kinds
  BY DEF PorterTypeOK, Kinds
<1>2. PICK o, r :
        /\ \/ output \in Ops /\ o = "none" /\ r = refused
           \/ refused["stanza"] > 0 /\ o = output /\ r = Less(refused, "stanza")
        /\ SetSendState(CloseIfWaiting(St(o, r, waitingToClose), <<>>, ping))
  BY StanzaFailsWrites
<1>3. CASE output \in Ops /\ o = "none" /\ r = refused
  BY <1>1, <1>2, <1>3
<1>4. CASE refused["stanza"] > 0 /\ o = output /\ r = Less(refused, "stanza")
  <2>1. /\ r \in [Kinds -> Nat] /\ r["stanza"] = refused["stanza"] - 1
        /\ r["ping"] = refused["ping"] /\ r["close"] = refused["close"]
    BY <1>1, <1>4, Counts
  <2>2. QED
    BY <1>2, <1>4, <2>1
<1>5. QED
  BY <1>2, <1>3, <1>4

LEMMA PingFailure ==
    ASSUME PorterTypeOK, PingFails
    PROVE  /\ ~ping'
           /\ \E o : \E r \in [Kinds -> Nat] :
                /\ \/ output = "ping" /\ o = "none" /\ r = refused
                   \/ /\ refused["ping"] > 0 /\ o = output
                      /\ r["ping"] = refused["ping"] - 1
                /\ r["stanza"] = refused["stanza"] /\ r["close"] = refused["close"]
                /\ SetSendState(CloseIfWaiting(St(o, r, waitingToClose), <<>>, FALSE))
<1>1. refused \in [Kinds -> Nat] /\ "ping" \in Kinds
  BY DEF PorterTypeOK, Kinds
<1>2. PICK o, r :
        /\ \/ output = "ping" /\ o = "none" /\ r = refused
           \/ refused["ping"] > 0 /\ o = output /\ r = Less(refused, "ping")
        /\ SetSendState(CloseIfWaiting(St(o, r, waitingToClose), <<>>, FALSE))
  BY PingFailsWrites
<1>3. CASE output = "ping" /\ o = "none" /\ r = refused
  BY <1>1, <1>2, <1>3, PingFailsWrites
<1>4. CASE refused["ping"] > 0 /\ o = output /\ r = Less(refused, "ping")
  <2>1. /\ r \in [Kinds -> Nat] /\ r["ping"] = refused["ping"] - 1
        /\ r["stanza"] = refused["stanza"] /\ r["close"] = refused["close"]
    BY <1>1, <1>4, Counts
  <2>2. QED
    BY <1>2, <1>4, <2>1, PingFailsWrites
<1>5. QED
  BY <1>2, <1>3, <1>4

LEMMA RefusedTypes ==
    ASSUME PorterTypeOK
    PROVE  /\ refused \in [Kinds -> Nat] /\ Kinds = {"stanza", "ping", "close"}
           /\ refused["stanza"] \in Nat /\ refused["ping"] \in Nat /\ refused["close"] \in Nat
           /\ ping \in BOOLEAN /\ waitingToClose \in BOOLEAN
BY DEF PorterTypeOK, Kinds

LEMMA TurnsFails ==
    ASSUME PorterInv, StanzaFails \/ PingFails
    PROVE  Turns'
<1> USE DEF PorterInv
<1>1. UNCHANGED <<outputClosed, dead, forceOp>> /\ queue' = <<>>
  BY DEF StanzaFails, PingFails, forceVars, Terminate
<1>2. CASE StanzaFails
  <2>1. PICK o : \E r \in [Kinds -> Nat] :
              /\ \/ output \in Ops /\ o = "none" /\ r = refused
                 \/ /\ refused["stanza"] > 0 /\ o = output
                    /\ r["stanza"] = refused["stanza"] - 1
              /\ r["ping"] = refused["ping"] /\ r["close"] = refused["close"]
              /\ SetSendState(CloseIfWaiting(St(o, r, waitingToClose), <<>>, ping))
    BY <1>2, StanzaFailure
  <2>2. PICK r \in [Kinds -> Nat] :
              /\ \/ output \in Ops /\ o = "none" /\ r = refused
                 \/ /\ refused["stanza"] > 0 /\ o = output
                    /\ r["stanza"] = refused["stanza"] - 1
              /\ r["ping"] = refused["ping"] /\ r["close"] = refused["close"]
              /\ SetSendState(CloseIfWaiting(St(o, r, waitingToClose), <<>>, ping))
    BY <2>1
  <2>3. /\ ~dead /\ ~outputClosed => r["stanza"] = 0 /\ o = "none"
        /\ o # "none" => o = output
        /\ outputClosed => o = "none"
        /\ ping' = ping
        /\ o = "ping" <=> output = "ping"
    BY <1>2, <2>2, RefusedTypes, Names DEF Turns, StanzaFails
  <2>4. CASE ~(waitingToClose /\ ~ping)
    BY <1>1, <2>2, <2>3, <2>4, AfterFailure, RefusedTypes, Names DEF Turns, Forced
  <2>5. CASE waitingToClose /\ ~ping /\ o = "none" /\ ~outputClosed
    BY <1>1, <2>2, <2>3, <2>5, AfterFailure, RefusedTypes, Names DEF Turns, Forced
  <2>6. CASE waitingToClose /\ ~ping /\ ~(o = "none" /\ ~outputClosed)
    BY <1>1, <2>2, <2>3, <2>6, AfterFailure, RefusedTypes, Names DEF Turns, Forced
  <2>7. QED
    BY <2>4, <2>5, <2>6
<1>3. CASE PingFails
  <2>1. PICK o : \E r \in [Kinds -> Nat] :
                /\ \/ output = "ping" /\ o = "none" /\ r = refused
                   \/ /\ refused["ping"] > 0 /\ o = output
                      /\ r["ping"] = refused["ping"] - 1
                /\ r["stanza"] = refused["stanza"] /\ r["close"] = refused["close"]
                /\ SetSendState(CloseIfWaiting(St(o, r, waitingToClose), <<>>, FALSE))
    BY <1>3, PingFailure
  <2>2. PICK r \in [Kinds -> Nat] :
                /\ \/ output = "ping" /\ o = "none" /\ r = refused
                   \/ /\ refused["ping"] > 0 /\ o = output
                      /\ r["ping"] = refused["ping"] - 1
                /\ r["stanza"] = refused["stanza"] /\ r["close"] = refused["close"]
                /\ SetSendState(CloseIfWaiting(St(o, r, waitingToClose), <<>>, FALSE))
    BY <2>1
  <2>3. /\ ~dead /\ ~outputClosed => r["stanza"] = 0 /\ o = "none"
        /\ outputClosed => o = "none"
        /\ o # "none" => o = output
        /\ ~ping' /\ o # "ping" /\ r["ping"] = 0
    BY <1>3, <2>2, RefusedTypes, PingFailure, Names DEF Turns
  <2>4. /\ refused'["ping"] = 0 /\ refused'["stanza"] = r["stanza"]
        /\ \/ output' = o /\ refused' = r
           \/ output' = "close" /\ o = "none" /\ ~outputClosed /\ refused' = r
           \/ output' = o /\ ~(o = "none" /\ ~outputClosed)
    <3>1. PICK p \in BOOLEAN :
             ~p /\ SetSendState(CloseIfWaiting(St(o, r, waitingToClose), <<>>, p))
      BY <2>2
    <3>2. QED
      BY <2>3, <3>1, AfterFailure
  <2>5. QED
    BY <1>1, <2>2, <2>3, <2>4, RefusedTypes, Names DEF Turns, Forced
<1>4. QED
  BY <1>2, <1>3

LEMMA TurnsKept ==
    ASSUME PorterInv, [PorterNext]_porterVars
    PROVE  Turns'
<1> USE DEF PorterInv
<1>1. refused \in [Kinds -> Nat] /\ Kinds = {"stanza", "ping", "close"} /\ ping \in BOOLEAN
  BY DEF PorterTypeOK, Kinds
<1>2. ASSUME NEW o \in Ops, Send(o) \/ SendIq(o) \/ CancelOp(o) PROVE Turns'
  BY <1>2, TurnsSend, TurnsCancel
<1>3. CASE SendPing
  <2>1. UNCHANGED <<queue, outputClosed, dead, forceOp>> /\ ping' /\ ~ping /\ queue = <<>> /\ ~Closing
    BY <1>3 DEF SendPing, forceVars, SendingInProgress
  <2>2. output = "close" => Forced
    BY <2>1 DEF Closing, CloseOnce
  <2>3. CASE output = "none" /\ ~outputClosed
    BY <1>3, <2>1, <2>3, SendPingWrites, Names DEF Turns, Forced
  <2>4. CASE ~(output = "none" /\ ~outputClosed)
    <3>1. /\ output' = output /\ refused'["ping"] = refused["ping"] + 1
          /\ refused'["stanza"] = refused["stanza"] /\ refused'["close"] = refused["close"]
      BY <1>1, <1>3, <2>4, SendPingWrites, Counts
    <3>2. output \in {"none", "ping", "close"} \cup Ops /\ ~forceOp
      BY <2>1 DEF PorterTypeOK, Closing
    <3>3. outputClosed \/ dead
      BY <2>1, <2>2, <2>4, <3>2 DEF Turns, Forced
    <3>4. QED
      BY <2>1, <3>1, <3>2, <3>3 DEF Turns, Forced
  <2>5. QED
    BY <2>3, <2>4
<1>4. CASE StanzaWritten
  <2>1. UNCHANGED <<ping, outputClosed, dead, forceOp>> /\ ~dead /\ output \in Ops
    BY <1>4 DEF StanzaWritten, forceVars, WriteOf
  <2>2. ~ping
    BY <1>1, <1>4, <2>1, StanzaWrittenWrites, Names DEF Turns
  <2>3. queue # <<>> /\ Tail(queue) # <<>> => Head(Tail(queue)) \in Ops
    BY TailRange, Ranges DEF PorterTypeOK
  <2>4. QED
    BY <1>1, <1>4, <2>1, <2>2, <2>3, StanzaWrittenWrites, Names DEF Turns, Forced
<1>5. CASE StanzaFails \/ PingFails
  BY <1>5, TurnsFails
<1>6. CASE PingWritten
  <2>1. UNCHANGED <<queue, outputClosed, dead, forceOp>> /\ ~dead /\ output = "ping"
    BY <1>6 DEF PingWritten, forceVars, WriteOf
  <2>2. queue # <<>> => Head(queue) \in Ops
    BY QueueFacts
  <2>3. QED
    BY <1>1, <1>6, <2>1, <2>2, PingWrittenWrites, Names DEF Turns, Forced
<1>7. CASE CloseSent
  <2>1. UNCHANGED <<queue, ping, dead, forceOp>> /\ ~dead /\ output = "close"
    BY <1>7 DEF CloseSent, forceVars, WriteOf
  <2>2. outputClosed' /\ output' = "none" /\ refused' = refused
    BY <1>7, CloseSentWrites DEF CloseSent
  <2>3. queue # <<>> => output # Head(queue)
    BY <2>1, QueueFacts, Names
  <2>4. QED
    BY <2>1, <2>2, <2>3, Names DEF Turns, Forced
<1>8. CASE CloseNotSent
  <2>1. UNCHANGED <<queue, ping, outputClosed, dead, forceOp>>
    BY <1>8 DEF CloseNotSent, forceVars
  <2>2. queue # <<>> => Head(queue) # "close"
    BY QueueFacts, Names
  <2>3. /\ refused'["ping"] = refused["ping"] /\ refused'["stanza"] = refused["stanza"]
        /\ \/ output = "close" /\ output' = "none" /\ refused' = refused
           \/ refused["close"] > 0 /\ output' = output
    BY <1>1, <1>8, CloseNotSentWrites, Counts
  <2>4. QED
    BY <2>1, <2>2, <2>3, RefusedTypes, Names DEF Turns, Forced
<1>9. CASE UserCloses \/ RemoteCloses
  <2>1. UNCHANGED <<queue, ping, outputClosed, dead, forceOp>> /\ StartClose /\ closeCalls = {}
    BY <1>9 DEF UserCloses, RemoteCloses, forceVars
  <2>2. ~Forced /\ output # "close" /\ ~outputClosed
    BY <2>1 DEF Closes, CloseOnce
  <2>3. QED
    BY <1>1, <2>1, <2>2, StartCloseWrites, Counts, Names
    DEF Turns, Forced, SendingInProgress, PorterTypeOK
<1>10. CASE UserForces \/ RemoteFails
  <2>1. UNCHANGED <<ping, output, refused, outputClosed, dead>> /\ queue' = <<>>
    BY <1>10 DEF UserForces, RemoteFails, StartForce, TerminateAndAbort
  <2>2. forceOp'
    BY <1>10 DEF UserForces, RemoteFails, StartForce
  <2>3. QED
    BY <2>1, <2>2 DEF Turns, Forced
<1>11. CASE StreamClosed
  BY <1>11 DEF Turns, Forced, StreamClosed, sendVars
<1>12. CASE UserForcesTooLate \/ CloseAborted \/ ReceiveCancelled \/ RemoteEndsClosing
  BY <1>12 DEF Turns, Forced, UserForcesTooLate, CloseAborted, ReceiveCancelled,
       RemoteEndsClosing, sendVars, forceVars
<1>13. ASSUME NEW i \in Iqs, ReplyArrives(i) PROVE Turns'
  BY <1>13 DEF Turns, Forced, ReplyArrives, sendVars, forceVars
<1>14. CASE UNCHANGED porterVars
  BY <1>14 DEF Turns, Forced, porterVars, sendVars, forceVars
<1>15. QED
  BY <1>2, <1>3, <1>4, <1>5, <1>6, <1>7, <1>8, <1>9, <1>10, <1>11, <1>12, <1>13, <1>14
  DEF PorterNext

\* Both failures at once: what is left of the write or the refusal, and the close
\* that may have waited.
LEMMA Failure ==
    ASSUME PorterInv, StanzaFails \/ PingFails
    PROVE  /\ waitingToClose' \in BOOLEAN
           /\ UNCHANGED <<outputClosed, dead, forceOp, closeOp, localClosed, closeDone,
                          closeCalls, closeAborted, remoteClosed, receiving>>
           /\ queue' = <<>>
           /\ output' \in {"none", "close", output}
           /\ ~Forced /\ ~outputClosed => output' # output
           /\ refused' \in [Kinds -> Nat]
           /\ ~(waitingToClose /\ ~ping') => /\ output' # "close" \/ output = "close"
                                             /\ refused'["close"] = refused["close"]
                                             /\ waitingToClose' = waitingToClose
           /\ waitingToClose /\ ~ping' =>
                 /\ ~waitingToClose'
                 /\ output' # "close" => Forced /\ refused'["close"] = refused["close"] + 1
                 /\ output' = "close" => refused'["close"] = refused["close"]
<1> USE DEF PorterInv
<1>1. /\ queue' = <<>>
      /\ UNCHANGED <<outputClosed, dead, forceOp, closeOp, localClosed, closeDone,
                     closeCalls, closeAborted, remoteClosed, receiving>>
  BY DEF StanzaFails, PingFails, forceVars, recvVars, Terminate
<1>2. \E o : \E r \in [Kinds -> Nat] : \E p \in BOOLEAN :
        /\ o \in {"none", output} /\ o \notin {"ping", "close"} \ {output}
        /\ ~dead /\ ~outputClosed => o = "none" /\ output # "none"
        /\ outputClosed => o = "none"
        /\ r["close"] = refused["close"]
        /\ p <=> ping'
        /\ SetSendState(CloseIfWaiting(St(o, r, waitingToClose), <<>>, p))
  <2>1. CASE StanzaFails
    <3>1. PICK o : \E r \in [Kinds -> Nat] :
              /\ \/ output \in Ops /\ o = "none" /\ r = refused
                 \/ /\ refused["stanza"] > 0 /\ o = output
                    /\ r["stanza"] = refused["stanza"] - 1
              /\ r["ping"] = refused["ping"] /\ r["close"] = refused["close"]
              /\ SetSendState(CloseIfWaiting(St(o, r, waitingToClose), <<>>, ping))
      BY <2>1, StanzaFailure
    <3>2. ping' = ping /\ ping \in BOOLEAN
      BY <2>1, RefusedTypes DEF StanzaFails
    <3>3. QED
      BY <3>1, <3>2, RefusedTypes, Names DEF Turns
  <2>2. CASE PingFails
    <3>1. PICK o : \E r \in [Kinds -> Nat] :
                /\ \/ output = "ping" /\ o = "none" /\ r = refused
                   \/ /\ refused["ping"] > 0 /\ o = output
                      /\ r["ping"] = refused["ping"] - 1
                /\ r["stanza"] = refused["stanza"] /\ r["close"] = refused["close"]
                /\ SetSendState(CloseIfWaiting(St(o, r, waitingToClose), <<>>, FALSE))
      BY <2>2, PingFailure
    <3>2. PICK r \in [Kinds -> Nat] :
                /\ \/ output = "ping" /\ o = "none" /\ r = refused
                   \/ /\ refused["ping"] > 0 /\ o = output
                      /\ r["ping"] = refused["ping"] - 1
                /\ r["stanza"] = refused["stanza"] /\ r["close"] = refused["close"]
                /\ SetSendState(CloseIfWaiting(St(o, r, waitingToClose), <<>>, FALSE))
      BY <3>1
    <3>3. PICK p \in BOOLEAN :
             /\ p <=> ping'
             /\ SetSendState(CloseIfWaiting(St(o, r, waitingToClose), <<>>, p))
      BY <2>2, <3>2, PingFailure
    <3>4. /\ o \in {"none", output} /\ o \notin {"ping", "close"} \ {output}
          /\ ~dead /\ ~outputClosed => o = "none" /\ output # "none"
          /\ outputClosed => o = "none"
      BY <3>2, RefusedTypes, Names DEF Turns
    <3>5. QED
      BY <3>2, <3>3, <3>4
  <2>3. QED
    BY <2>1, <2>2
<1>3. PICK o : \E r \in [Kinds -> Nat] : \E p \in BOOLEAN :
        /\ o \in {"none", output} /\ o \notin {"ping", "close"} \ {output}
        /\ ~dead /\ ~outputClosed => o = "none" /\ output # "none"
        /\ outputClosed => o = "none"
        /\ r["close"] = refused["close"]
        /\ p <=> ping'
        /\ SetSendState(CloseIfWaiting(St(o, r, waitingToClose), <<>>, p))
  BY <1>2
<1>4. PICK r \in [Kinds -> Nat], p \in BOOLEAN :
        /\ o \in {"none", output} /\ o \notin {"ping", "close"} \ {output}
        /\ ~dead /\ ~outputClosed => o = "none" /\ output # "none"
        /\ outputClosed => o = "none"
        /\ r["close"] = refused["close"]
        /\ p <=> ping'
        /\ SetSendState(CloseIfWaiting(St(o, r, waitingToClose), <<>>, p))
  BY <1>3
<1>5. CASE ~(waitingToClose /\ ~p)
  <2>1. output' = o /\ refused' = r /\ waitingToClose' = waitingToClose
        /\ waitingToClose' \in BOOLEAN
    BY <1>4, <1>5, AfterFailure
  <2>2. QED
    BY <1>1, <1>4, <1>5, <2>1 DEF Turns, Forced
<1>6. CASE waitingToClose /\ ~p /\ o = "none" /\ ~outputClosed
  <2>1. output' = "close" /\ refused' = r /\ ~waitingToClose' /\ waitingToClose' \in BOOLEAN
    BY <1>4, <1>6, AfterFailure
  <2>2. QED
    BY <1>1, <1>4, <1>6, <2>1 DEF CloseOnce
<1>7. CASE waitingToClose /\ ~p /\ ~(o = "none" /\ ~outputClosed)
  <2>1. /\ output' = o /\ refused' \in [Kinds -> Nat] /\ ~waitingToClose'
        /\ refused'["close"] = refused["close"] + 1 /\ waitingToClose' \in BOOLEAN
    BY <1>4, <1>7, AfterFailure
  <2>2. ~outputClosed /\ dead
    BY <1>4, <1>7 DEF CloseOnce
  <2>3. QED
    BY <1>1, <1>4, <1>7, <2>1, <2>2 DEF CloseOnce, Forced
<1>8. QED
  BY <1>5, <1>6, <1>7

\* Both ways to close: every step keeps what is known of them.
LEMMA CloseKept ==
    ASSUME PorterInv, [PorterNext]_porterVars
    PROVE  CloseOnce' /\ Closes'
<1> USE DEF PorterInv
<1>1. ASSUME NEW o \in Ops, Send(o) \/ SendIq(o) PROVE CloseOnce' /\ Closes'
  <2>1. UNCHANGED <<ping, outputClosed, dead, forceOp, closeOp, localClosed, closeDone,
                    closeCalls, closeAborted, remoteClosed, receiving, streamClose>>
    BY <1>1 DEF Send, SendIq, forceVars, recvVars
  <2>2. CASE Closing
    <3>1. UNCHANGED <<queue, output, refused, waitingToClose>>
      BY <1>1, <2>2 DEF Send, SendIq
    <3>2. CloseOnce'
      BY <2>1, <3>1 DEF CloseOnce, Forced, SendingInProgress
    <3>3. Closes'
      BY <2>1, <3>1 DEF Closes, CloseOnce, Turns, Forced, ForcedOnce, SendingInProgress
    <3>4. QED
      BY <3>2, <3>3
  <2>3. CASE ~Closing
    <3>1. Accept(o) /\ ~closeOp /\ ~forceOp
      BY <1>1, <2>3 DEF Send, SendIq, Closing
    <3>2. /\ waitingToClose' = waitingToClose /\ refused'["close"] = refused["close"]
          /\ output' = output \/ output' = o
      BY <3>1, AcceptWrites, Counts, RefusedTypes
    <3>3. CloseOnce'
      BY <2>1, <3>1, <3>2, Names DEF CloseOnce, Forced, SendingInProgress
    <3>4. Closes'
      BY <2>1, <3>1, <3>2, Names DEF Closes, CloseOnce, Turns, Forced, ForcedOnce, SendingInProgress
    <3>5. QED
      BY <3>3, <3>4
  <2>4. QED
    BY <2>2, <2>3
<1>2. ASSUME NEW o \in Ops, CancelOp(o) PROVE CloseOnce' /\ Closes'
  <2>1. UNCHANGED <<ping, output, refused, waitingToClose, outputClosed, dead, forceOp, closeOp,
                    localClosed, closeDone, closeCalls, closeAborted, remoteClosed, receiving,
                    streamClose>>
    BY <1>2 DEF CancelOp, forceVars, recvVars, closeVars
  <2>2. \/ queue' = queue
        \/ queue # <<>> /\ (ping \/ queue' # <<>>)
    <3>1. CASE ~Waits(o)
      BY <1>2, <3>1 DEF CancelOp
    <3>2. CASE Waits(o)
      <4>1. queue' = Unqueued(o) /\ o \in Range(queue) /\ (ping \/ o # Head(queue))
        BY <1>2, <3>2 DEF CancelOp, Waits
      <4>2. queue # <<>>
        BY <4>1, Ranges DEF PorterTypeOK
      <4>3. o # Head(queue) => queue' # <<>>
        BY <4>1, QueueFacts, Removal
      <4>4. QED
        BY <4>1, <4>2, <4>3
    <3>3. QED
      BY <3>1, <3>2
  <2>3. CloseOnce'
    BY <2>1, <2>2 DEF CloseOnce, Forced, SendingInProgress
  <2>4. Closes'
    BY <2>1, <2>2 DEF Closes, CloseOnce, Turns, Forced, ForcedOnce, SendingInProgress
  <2>5. QED
    BY <2>3, <2>4
<1>3. CASE SendPing
  <2>1. UNCHANGED <<queue, outputClosed, dead, forceOp, closeOp, localClosed, closeDone, closeCalls,
                    closeAborted, remoteClosed, receiving, streamClose, waitingToClose>>
    BY <1>3, SendPingWrites DEF SendPing, forceVars, recvVars
  <2>2. ~closeOp /\ ~forceOp /\ refused'["close"] = refused["close"]
        /\ output' \in {output, "ping"}
    BY <1>3, SendPingWrites, Counts, RefusedTypes DEF SendPing, Closing
  <2>3. CloseOnce'
    BY <2>1, <2>2 DEF CloseOnce, Forced, SendingInProgress
  <2>4. Closes'
    BY <2>1, <2>2 DEF Closes, CloseOnce, Turns, Forced, ForcedOnce, SendingInProgress
  <2>5. QED
    BY <2>3, <2>4
<1>4. CASE StanzaWritten
  <2>1. UNCHANGED <<ping, outputClosed, dead, forceOp, closeOp, localClosed, closeDone, closeCalls,
                    closeAborted, remoteClosed, receiving, streamClose, refused>>
        /\ ~outputClosed /\ output \in Ops
    BY <1>4, StanzaWrittenWrites DEF StanzaWritten, forceVars, recvVars
  <2>2. /\ queue = <<>> =>
              queue' = queue /\ output' = "none" /\ waitingToClose' = waitingToClose
        /\ queue # <<>> =>
              \/ queue' # <<>> /\ output' \in Ops /\ waitingToClose' = waitingToClose
              \/ queue' = <<>> /\ waitingToClose /\ ~ping /\ output' = "close" /\ ~waitingToClose'
              \/ /\ queue' = <<>> /\ ~(waitingToClose /\ ~ping) /\ output' = "none"
                 /\ waitingToClose' = waitingToClose
    <3>1. queue # <<>> /\ Tail(queue) # <<>> => Head(Tail(queue)) \in Ops
      BY TailRange, Ranges DEF PorterTypeOK
    <3>2. QED
      BY <1>4, <3>1, StanzaWrittenWrites
  <2>3. output # "close" /\ "none" \notin Ops /\ "close" \notin Ops
    BY <2>1, Names
  <2>4. CloseOnce'
    BY <2>1, <2>2, <2>3 DEF CloseOnce, Forced, SendingInProgress
  <2>5. Closes'
    BY <2>1, <2>2, <2>3 DEF Closes, CloseOnce, Turns, Forced, ForcedOnce, SendingInProgress
  <2>6. QED
    BY <2>4, <2>5
<1>5. CASE StanzaFails \/ PingFails
  <2>1. streamClose' = streamClose
    BY <1>5 DEF StanzaFails, PingFails, forceVars
  <2>2. ~Forced => output # "close"
    <3>1. /\ output \in Ops \cup {"ping"} \/ refused["stanza"] > 0 \/ refused["ping"] > 0
          /\ output \in Ops => output # "close"
      BY <1>5, Names DEF StanzaFails, PingFails
    <3>2. QED
      BY <3>1, RefusedTypes DEF Turns, Forced
  <2>3. CloseOnce'
    BY <1>5, <2>1, <2>2, Failure, RefusedTypes DEF CloseOnce, Forced, SendingInProgress
  <2>4. Closes'
    BY <1>5, <2>1, <2>2, Failure, RefusedTypes DEF Closes, CloseOnce, Turns, Forced, ForcedOnce, SendingInProgress
  <2>5. QED
    BY <2>3, <2>4
<1>6. CASE PingWritten
  <2>1. UNCHANGED <<queue, outputClosed, dead, forceOp, closeOp, localClosed, closeDone, closeCalls,
                    closeAborted, remoteClosed, receiving, streamClose, refused>>
        /\ ~outputClosed /\ output = "ping" /\ ~ping'
    BY <1>6, PingWrittenWrites DEF PingWritten, forceVars, recvVars, WriteOf
  <2>2. queue # <<>> => Head(queue) # "close"
    BY QueueFacts, Names
  <2>3. CloseOnce'
    BY <1>6, <2>1, <2>2, PingWrittenWrites, RefusedTypes DEF CloseOnce, Forced, SendingInProgress
  <2>4. Closes'
    BY <1>6, <2>1, <2>2, PingWrittenWrites, RefusedTypes DEF Closes, CloseOnce, Turns, Forced, ForcedOnce, SendingInProgress
  <2>5. QED
    BY <2>3, <2>4
<1>7. CASE CloseSent
  <2>1. UNCHANGED <<queue, ping, dead, forceOp, closeCalls, refused, waitingToClose,
                    closeAborted, remoteClosed, receiving, streamClose>>
        /\ ~dead /\ output = "close" /\ output' = "none" /\ outputClosed' /\ localClosed'
    BY <1>7, CloseSentWrites DEF CloseSent, forceVars, recvVars, WriteOf
  <2>2. \/ /\ remoteClosed /\ closeOp /\ ~closeOp'
           /\ closeDone'.close = closeDone.close + 1 /\ closeDone'.force = closeDone.force
        \/ ~(remoteClosed /\ closeOp) /\ UNCHANGED <<closeOp, closeDone>>
    BY <1>7 DEF CloseSent, CompleteClose, PorterTypeOK
  <2>3. CloseOnce'
    BY <2>1, <2>2 DEF CloseOnce, Forced, SendingInProgress
  <2>4. Closes'
    BY <2>1, <2>2 DEF Closes, CloseOnce, Turns, Forced, ForcedOnce, SendingInProgress
  <2>5. QED
    BY <2>3, <2>4
<1>8. CASE CloseNotSent
  <2>1. UNCHANGED <<queue, ping, outputClosed, dead, forceOp, closeCalls, waitingToClose,
                    closeAborted, remoteClosed, receiving, streamClose>>
        /\ localClosed'
    BY <1>8, CloseNotSentWrites DEF CloseNotSent, forceVars, recvVars
  <2>2. \/ /\ closeOp /\ ~closeOp'
           /\ closeDone'.close = closeDone.close + 1 /\ closeDone'.force = closeDone.force
        \/ ~closeOp /\ UNCHANGED <<closeOp, closeDone>>
    BY <1>8 DEF CloseNotSent, CompleteClose, PorterTypeOK
  <2>3. \/ output = "close" /\ output' = "none" /\ refused'["close"] = refused["close"]
        \/ /\ refused["close"] > 0 /\ output' = output
           /\ refused'["close"] = refused["close"] - 1
    BY <1>8, CloseNotSentWrites, Counts, RefusedTypes
  <2>4. CloseOnce'
    BY <2>1, <2>2, <2>3, RefusedTypes DEF CloseOnce, Forced, SendingInProgress, PorterTypeOK
  <2>5. Closes'
    BY <2>1, <2>2, <2>3, RefusedTypes DEF Closes, CloseOnce, Turns, Forced, ForcedOnce, SendingInProgress, PorterTypeOK
  <2>6. QED
    BY <2>4, <2>5
<1>9. CASE UserCloses \/ RemoteCloses
  <2>1. UNCHANGED <<queue, ping, outputClosed, dead, forceOp, localClosed, closeDone, closeAborted,
                    streamClose>>
        /\ StartClose /\ closeCalls = {} /\ closeCalls' = {"close"} /\ closeOp'
    BY <1>9 DEF UserCloses, RemoteCloses, forceVars, StartClose
  <2>2. \/ UNCHANGED <<remoteClosed, receiving>>
        \/ remoteClosed' /\ receiving' = "none"
    BY <1>9 DEF UserCloses, RemoteCloses, recvVars, EndOfStream
  <2>3. /\ ~Forced /\ output # "close" /\ ~outputClosed /\ ~waitingToClose /\ refused["close"] = 0
        /\ ~localClosed
    BY <2>1 DEF Closes, CloseOnce
  <2>4. \/ SendingInProgress /\ waitingToClose' /\ output' = output /\ refused' = refused
        \/ /\ ~SendingInProgress /\ ~waitingToClose' /\ output' = "close" /\ refused' = refused
    <3>1. output \in {"none", "ping", "close"} \cup Ops
      BY DEF PorterTypeOK
    <3>2. ~SendingInProgress => output = "none"
      BY <2>3, <3>1 DEF SendingInProgress, Turns
    <3>3. QED
      BY <2>1, <2>3, <3>2, StartCloseWrites
  <2>5. CloseOnce'
    BY <2>1, <2>2, <2>3, <2>4 DEF CloseOnce, Forced, SendingInProgress
  <2>6. Closes'
    BY <2>1, <2>2, <2>3, <2>4 DEF Closes, CloseOnce, Turns, Forced, ForcedOnce, SendingInProgress
  <2>7. QED
    BY <2>5, <2>6
<1>10. CASE UserForces \/ RemoteFails
  <2>1. UNCHANGED <<ping, output, refused, outputClosed, dead, waitingToClose, localClosed,
                    closeDone>>
        /\ queue' = <<>> /\ forceOp' /\ ~closeOp' /\ closeAborted' = closeOp
    BY <1>10 DEF UserForces, RemoteFails, StartForce, TerminateAndAbort
  <2>2. closeCalls' = closeCalls \cup {"force"} /\ "force" \notin closeCalls
    BY <1>10 DEF UserForces, RemoteFails, StartForce
  <2>3. CloseOnce'
    BY <2>1, <2>2 DEF CloseOnce, Forced, SendingInProgress
  <2>4. Closes'
    BY <2>1, <2>2 DEF Closes, CloseOnce, Turns, Forced, ForcedOnce, SendingInProgress
  <2>5. QED
    BY <2>3, <2>4
<1>11. CASE StreamClosed
  <2>1. closeDone'.close = closeDone.close /\ closeDone'.force = closeDone.force + 1
    BY <1>11 DEF StreamClosed, PorterTypeOK
  <2>2. UNCHANGED <<queue, ping, output, refused, outputClosed, closeOp, waitingToClose,
                    closeAborted, closeCalls, remoteClosed, receiving>>
        /\ dead' /\ ~streamClose' /\ ~forceOp' /\ streamClose /\ localClosed'
    BY <1>11 DEF StreamClosed, sendVars
  <2>3. CloseOnce'
    BY <2>1, <2>2 DEF CloseOnce, Forced, SendingInProgress
  <2>4. Closes'
    BY <2>1, <2>2 DEF Closes, CloseOnce, Turns, Forced, ForcedOnce, SendingInProgress
  <2>5. QED
    BY <2>3, <2>4
<1>12. CASE UserForcesTooLate
  <2>1. closeDone'.close = closeDone.close /\ closeDone'.force = closeDone.force + 1
    BY <1>12 DEF UserForcesTooLate, PorterTypeOK
  <2>2. closeCalls' = closeCalls \cup {"force"} /\ "force" \notin closeCalls
    BY <1>12 DEF UserForcesTooLate
  <2>3. CloseOnce'
    BY <1>12, <2>1, <2>2 DEF CloseOnce, Forced, SendingInProgress, UserForcesTooLate, sendVars, forceVars, recvVars
  <2>4. Closes'
    BY <1>12, <2>1, <2>2 DEF Closes, CloseOnce, Turns, Forced, ForcedOnce, SendingInProgress, UserForcesTooLate, sendVars, forceVars, recvVars
  <2>5. QED
    BY <2>3, <2>4
<1>13. CASE CloseAborted
  <2>1. closeDone'.close = closeDone.close + 1 /\ closeDone'.force = closeDone.force
    BY <1>13 DEF CloseAborted, PorterTypeOK
  <2>2. CloseOnce'
    BY <1>13, <2>1 DEF CloseOnce, Forced, SendingInProgress, CloseAborted, sendVars, forceVars, recvVars
  <2>3. Closes'
    BY <1>13, <2>1 DEF Closes, CloseOnce, Turns, Forced, ForcedOnce, SendingInProgress, CloseAborted, sendVars, forceVars, recvVars
  <2>4. QED
    BY <2>2, <2>3
<1>14. CASE ReceiveCancelled
  <2>1. CloseOnce'
    BY <1>14 DEF CloseOnce, Forced, SendingInProgress, ReceiveCancelled, sendVars, closeVars
  <2>2. Closes'
    BY <1>14 DEF Closes, CloseOnce, Turns, Forced, ForcedOnce, SendingInProgress, ReceiveCancelled, sendVars, closeVars
  <2>3. QED
    BY <2>1, <2>2
<1>15. CASE RemoteEndsClosing
  <2>1. \/ /\ closeOp /\ localClosed /\ ~closeOp'
           /\ closeDone'.close = closeDone.close + 1 /\ closeDone'.force = closeDone.force
        \/ ~(closeOp /\ localClosed) /\ UNCHANGED <<closeOp, closeDone>>
    BY <1>15 DEF RemoteEndsClosing, CompleteClose, PorterTypeOK
  <2>2. UNCHANGED <<queue, ping, output, refused, outputClosed, waitingToClose, localClosed,
                    dead, forceOp, streamClose, closeAborted, closeCalls>>
        /\ receiving' = "none" /\ remoteClosed'
    BY <1>15 DEF RemoteEndsClosing, EndOfStream, sendVars, forceVars
  <2>3. CloseOnce'
    BY <2>1, <2>2 DEF CloseOnce, Forced, SendingInProgress
  <2>4. Closes'
    BY <2>1, <2>2 DEF Closes, CloseOnce, Turns, Forced, ForcedOnce, SendingInProgress
  <2>5. QED
    BY <2>3, <2>4
<1>16. ASSUME NEW i \in Iqs, ReplyArrives(i) PROVE CloseOnce' /\ Closes'
  <2>1. CloseOnce'
    BY <1>16 DEF CloseOnce, Forced, SendingInProgress, ReplyArrives, sendVars, closeVars, forceVars, recvVars
  <2>2. Closes'
    BY <1>16 DEF Closes, CloseOnce, Turns, Forced, ForcedOnce, SendingInProgress, ReplyArrives, sendVars, closeVars, forceVars, recvVars
  <2>3. QED
    BY <2>1, <2>2
<1>17. CASE UNCHANGED porterVars
  <2>1. CloseOnce'
    BY <1>17 DEF CloseOnce, Forced, SendingInProgress, porterVars, sendVars, closeVars, forceVars, recvVars
  <2>2. Closes'
    BY <1>17 DEF Closes, CloseOnce, Turns, Forced, ForcedOnce, SendingInProgress, porterVars, sendVars, closeVars, forceVars, recvVars
  <2>3. QED
    BY <2>1, <2>2
<1>18. QED
  BY <1>1, <1>2, <1>3, <1>4, <1>5, <1>6, <1>7, <1>8, <1>9, <1>10, <1>11, <1>12, <1>13, <1>14,
     <1>15, <1>16, <1>17 DEF PorterNext

-----------------------------------------------------------------------------
(* Users and handlers.                                                       *)

Results == {"new", "pending", "ok", "failed", "cancelled"}
Final == {"ok", "failed", "cancelled"}

LEMMA ToldTypes ==
    ASSUME PorterTypeOK
    PROVE  /\ handlers \in [Iqs -> Handler]
           /\ result \in [Ops -> Results]
           /\ done \in [Ops -> Nat]
           /\ queue \in Seq(Ops) /\ wire \in Seq(Ops \cup {"close"}) /\ accepted \in Seq(Ops)
BY DEF PorterTypeOK, Handler, Results

\* Those who are told had not been, so that each is told once.
LEMMA Telling ==
    ASSUME PorterTypeOK, Told, NEW os, NEW res \in Final, Tell(os, res),
           \A o \in os : o \in Ops => result[o] \in {"new", "pending"}
    PROVE  /\ result' \in [Ops -> Results] /\ done' \in [Ops -> Nat]
           /\ \A o \in Ops : done'[o] = IF result'[o] \in {"new", "pending"} THEN 0 ELSE 1
           /\ \A o \in Ops : o \in os => result'[o] = res
           /\ \A o \in Ops : o \notin os => result'[o] = result[o]
<1>1. \A o \in Ops : result'[o] = IF o \in os THEN res ELSE result[o]
  BY DEF Tell
<1>2. \A o \in Ops : done'[o] = IF o \in os THEN done[o] + 1 ELSE done[o]
  BY DEF Tell
<1>3. result' \in [Ops -> Results]
  BY ToldTypes DEF Tell, Results, Final
<1>4. done' \in [Ops -> Nat]
  BY ToldTypes DEF Tell
<1>5. ASSUME NEW o \in Ops
      PROVE  done'[o] = IF result'[o] \in {"new", "pending"} THEN 0 ELSE 1
  <2>1. done[o] = IF result[o] \in {"new", "pending"} THEN 0 ELSE 1
    BY DEF Told
  <2>2. QED
    BY <1>1, <1>2, <2>1 DEF Final
<1>6. QED
  BY <1>1, <1>3, <1>4, <1>5

LEMMA HandlersSent ==
    ASSUME PorterTypeOK, NEW os, NEW ok \in BOOLEAN
    PROVE  /\ IqsSent(os, ok) \in [Iqs -> Handler]
           /\ \A i \in Iqs : i \in os /\ handlers[i].there =>
                 /\ IqsSent(os, ok)[i].there <=> handlers[i].pending /\ ok
                 /\ IqsSent(os, ok)[i].pending <=> handlers[i].pending /\ ok
                 /\ IqsSent(os, ok)[i].sent <=> handlers[i].pending /\ ok
           /\ \A i \in Iqs : ~(i \in os /\ handlers[i].there) =>
                 IqsSent(os, ok)[i] = handlers[i]
<1> DEFINE r(i) == MaybeRemove([handlers[i] EXCEPT !.sent = TRUE, !.pending = @ /\ ok])
<1>1. ASSUME NEW i \in Iqs
      PROVE  /\ handlers[i] \in Handler
             /\ r(i) \in Handler
             /\ r(i).there <=> handlers[i].there /\ handlers[i].pending /\ ok
             /\ r(i).pending <=> handlers[i].pending /\ ok
             /\ r(i).sent <=> handlers[i].pending /\ ok
  <2>1. handlers[i] \in Handler
    BY ToldTypes
  <2>2. QED
    BY <2>1, HandlerSent
<1>2. IqsSent(os, ok) = [i \in Iqs |-> IF i \in os /\ handlers[i].there THEN r(i) ELSE handlers[i]]
  BY DEF IqsSent
<1> HIDE DEF r
<1>3. QED
  BY <1>1, <1>2

LEMMA HandlersAborted ==
    ASSUME NEW hs \in [Iqs -> Handler]
    PROVE  /\ Aborted(hs) \in [Iqs -> Handler]
           /\ \A i \in Iqs : /\ Aborted(hs)[i].there <=> hs[i].there /\ ~hs[i].sent
                             /\ ~Aborted(hs)[i].pending /\ ~Aborted(hs)[i].sent
<1> DEFINE r(i) == MaybeRemove([hs[i] EXCEPT !.pending = FALSE])
<1>1. ASSUME NEW i \in Iqs
      PROVE  /\ r(i) \in Handler
             /\ r(i).there <=> hs[i].there /\ ~hs[i].sent
             /\ ~r(i).pending /\ ~r(i).sent
  <2>1. hs[i] \in Handler
    OBVIOUS
  <2>2. QED
    BY <2>1, HandlerTold
<1>2. Aborted(hs) = [i \in Iqs |-> r(i)]
  BY DEF Aborted
<1> HIDE DEF r
<1>3. QED
  BY <1>1, <1>2

\* What there is to show of Told after a step, one stanza at a time.
LEMMA ToldSuffices ==
    ASSUME \A o \in Ops : done'[o] = IF result'[o] \in {"new", "pending"} THEN 0 ELSE 1,
           \A o \in Ops : o \notin Iqs =>
              /\ result'[o] = "pending" <=> o \in Range(queue')
              /\ result'[o] = "ok" => o \in Range(wire'),
           \A i \in Iqs :
              /\ result'[i] = "pending" <=> handlers'[i].pending
              /\ handlers'[i].pending => handlers'[i].there
              /\ handlers'[i].there => handlers'[i].pending \/ ~handlers'[i].sent
              /\ handlers'[i].there /\ ~handlers'[i].sent <=> i \in Range(queue')
    PROVE  Told'
BY Names DEF Told, HandlersTidy, OkMeansWritten, Pending

LEMMA ToldFacts ==
    ASSUME Told
    PROVE  /\ \A o \in Ops : done[o] = IF result[o] \in {"new", "pending"} THEN 0 ELSE 1
           /\ \A o \in Ops : o \notin Iqs =>
                 /\ result[o] = "pending" <=> o \in Range(queue)
                 /\ result[o] = "ok" => o \in Range(wire)
           /\ \A i \in Iqs :
                 /\ result[i] = "pending" <=> handlers[i].pending
                 /\ handlers[i].pending => handlers[i].there
                 /\ handlers[i].there => handlers[i].pending \/ ~handlers[i].sent
                 /\ handlers[i].there /\ ~handlers[i].sent <=> i \in Range(queue)
           /\ \A i \in Iqs : Pending(i) <=> handlers[i].pending
BY Names DEF Told, HandlersTidy, OkMeansWritten, Pending

LEMMA Nothing == Range(<<>>) = {}
BY DEF Range

\* Nothing that was queued is new.
LEMMA NewIsNotQueued ==
    ASSUME PorterTypeOK, Ordered, NEW o \in Ops, result[o] = "new"
    PROVE  o \notin Range(queue)
<1>1. \A k \in 1 .. Len(accepted) : result[accepted[k]] # "new"
  BY DEF Ordered
<1>2. o \notin Range(accepted)
  BY <1>1, Ranges, ToldTypes
<1>3. QED
  BY <1>2, Ranges, ToldTypes DEF Ordered

LEMMA ToldSend ==
    ASSUME PorterInv, NEW o \in Ops, Send(o) \/ SendIq(o)
    PROVE  Told'
<1> USE DEF PorterInv
<1>1. result[o] = "new" /\ wire' = wire /\ (Send(o) => o \notin Iqs /\ handlers' = handlers)
      /\ (SendIq(o) => o \in Iqs)
  BY DEF Send, SendIq
<1>2. o \notin Range(queue)
  BY <1>1, NewIsNotQueued
<1>3. CASE Closing
  <2>1. Tell({o}, "failed") /\ UNCHANGED <<queue, handlers>>
    BY <1>3 DEF Send, SendIq
  <2>2. /\ \A x \in Ops : done'[x] = IF result'[x] \in {"new", "pending"} THEN 0 ELSE 1
        /\ result'[o] = "failed"
        /\ \A x \in Ops : x # o => result'[x] = result[x]
    BY <1>1, <2>1, Telling DEF Final
  <2>3. QED
    BY <1>1, <1>2, <2>1, <2>2, ToldFacts, ToldSuffices, Names
<1>4. CASE ~Closing
  <2>1. Accept(o) /\ result' = [result EXCEPT ![o] = "pending"] /\ done' = done
    BY <1>4 DEF Send, SendIq
  <2>2. \A x : x \in Range(queue') <=> x \in Range(queue) \/ x = o
    <3>1. queue' = Append(queue, o) /\ queue \in Seq(Ops)
      BY <2>1, AcceptWrites, ToldTypes
    <3>2. QED
      BY <3>1, AppendRange
  <2>3. /\ result'[o] = "pending" /\ \A x \in Ops : x # o => result'[x] = result[x]
        /\ \A x \in Ops : done'[x] = IF result'[x] \in {"new", "pending"} THEN 0 ELSE 1
    BY <1>1, <2>1, ToldTypes, ToldFacts
  <2>4. CASE Send(o)
    BY <1>1, <1>2, <2>2, <2>3, <2>4, ToldFacts, ToldSuffices, Names
  <2>5. CASE SendIq(o)
    <3>1. /\ handlers'[o].there /\ handlers'[o].pending /\ ~handlers'[o].sent
          /\ \A i \in Iqs : i # o => handlers'[i] = handlers[i]
      BY <1>4, <2>5, <1>1, ToldTypes DEF SendIq
    <3>2. QED
      BY <1>1, <1>2, <2>2, <2>3, <2>5, <3>1, ToldFacts, ToldSuffices, Names
  <2>6. QED
    BY <2>4, <2>5
<1>5. QED
  BY <1>3, <1>4

LEMMA ToldCancel ==
    ASSUME PorterInv, NEW o \in Ops, CancelOp(o)
    PROVE  Told'
<1> USE DEF PorterInv
<1>1. result[o] = "pending" /\ wire' = wire /\ Tell({o}, "cancelled") /\ (o \in Iqs \/ Waits(o))
  BY DEF CancelOp
<1>2. /\ \A x \in Ops : done'[x] = IF result'[x] \in {"new", "pending"} THEN 0 ELSE 1
      /\ result'[o] = "cancelled"
      /\ \A x \in Ops : x # o => result'[x] = result[x]
  BY <1>1, Telling DEF Final
<1>3. \A x : x \in Range(queue') <=> x \in Range(queue) /\ ~(Waits(o) /\ x = o)
  <2>1. CASE Waits(o)
    BY <2>1, QueueFacts, Removal DEF CancelOp, Waits
  <2>2. CASE ~Waits(o)
    BY <2>2 DEF CancelOp
  <2>3. QED
    BY <2>1, <2>2
<1>4. ASSUME NEW i \in Iqs, i # o PROVE handlers'[i] = handlers[i]
  BY <1>4 DEF CancelOp
<1>5. ASSUME o \in Iqs
      PROVE  /\ handlers'[o].there <=> handlers[o].there /\ ~handlers[o].sent /\ ~Waits(o)
             /\ ~handlers'[o].pending /\ ~handlers'[o].sent
  <2>1. handlers'[o] = MaybeRemove([handlers[o] EXCEPT !.pending = FALSE, !.sent = @ \/ Waits(o)])
    BY <1>5 DEF CancelOp
  <2>2. handlers[o] \in Handler
    BY <1>5, ToldTypes
  <2>3. PICK w \in BOOLEAN : w = Waits(o)
    BY DEF Waits
  <2>4. handlers'[o] = MaybeRemove([handlers[o] EXCEPT !.pending = FALSE, !.sent = @ \/ w])
    BY <2>1, <2>3
  <2>5. /\ handlers'[o].there <=> handlers[o].there /\ ~handlers[o].sent /\ ~w
        /\ ~handlers'[o].pending /\ ~handlers'[o].sent
    BY <2>2, <2>4, HandlerCancelled
  <2>6. QED
    BY <2>3, <2>5
<1>6. QED
  BY <1>1, <1>2, <1>3, <1>4, <1>5, ToldFacts, ToldSuffices, Names

LEMMA ToldWritten ==
    ASSUME PorterInv, StanzaWritten
    PROVE  Told'
<1> USE DEF PorterInv
<1>1. output \in Ops /\ ~dead /\ wire' = Append(wire, output)
  BY DEF StanzaWritten, WriteOf
<1>2. \A x : x \in Range(wire') <=> x \in Range(wire) \/ x = output
  <2>1. wire \in Seq(Ops \cup {"close"}) /\ output \in Ops \cup {"close"}
    BY <1>1, ToldTypes
  <2>2. QED
    BY <1>1, <2>1, AppendRange
<1>3. CASE queue = <<>>
  <2>1. UNCHANGED <<queue, handlers, result, done>>
    BY <1>3 DEF StanzaWritten, opVars
  <2>2. QED
    BY <1>2, <2>1, ToldFacts, ToldSuffices
<1>4. CASE queue # <<>>
  <2> DEFINE h == Head(queue)
  <2>1. h = output /\ h \in Ops /\ h \in Range(queue)
    BY <1>1, <1>4, QueueFacts DEF Turns
  <2>2. \A x : x \in Range(queue') <=> x \in Range(queue) /\ x # h
    <3>1. queue' = Tail(queue)
      BY <1>4 DEF StanzaWritten
    <3>2. QED
      BY <1>4, <3>1, QueueFacts, TailRange
  <2>3. handlers' = IqsSent({h}, TRUE)
    BY <1>4 DEF StanzaWritten
  <2>4. ASSUME h \in Iqs PROVE UNCHANGED <<result, done>>
    BY <1>4, <2>4 DEF StanzaWritten
  <2>5. ASSUME h \notin Iqs
        PROVE  /\ \A x \in Ops : done'[x] = IF result'[x] \in {"new", "pending"} THEN 0 ELSE 1
               /\ result'[h] = "ok"
               /\ \A x \in Ops : x # h => result'[x] = result[x]
    <3>1. Tell({h}, "ok")
      BY <1>4, <2>5 DEF StanzaWritten
    <3>2. result[h] = "pending"
      BY <2>1, <2>5, ToldFacts
    <3>3. QED
      BY <2>1, <3>1, <3>2, Telling DEF Final
  <2> HIDE DEF h
  <2>6. ASSUME NEW i \in Iqs, i # h PROVE handlers'[i] = handlers[i]
    BY <2>3, <2>6 DEF IqsSent
  <2>7. ASSUME h \in Iqs
        PROVE  /\ handlers'[h].there <=> handlers[h].pending
               /\ handlers'[h].pending <=> handlers[h].pending
               /\ handlers'[h].sent <=> handlers[h].pending
    <3>1. handlers[h].there
      BY <2>1, <2>7, ToldFacts
    <3>2. QED
      BY <2>3, <2>7, <3>1, HandlersSent
  <2>8. CASE h \in Iqs
    BY <1>2, <2>1, <2>2, <2>4, <2>6, <2>7, <2>8, ToldFacts, ToldSuffices, Names
  <2>9. CASE h \notin Iqs
    BY <1>2, <2>1, <2>2, <2>5, <2>6, <2>9, ToldFacts, ToldSuffices, Names
  <2>10. QED
    BY <2>8, <2>9
<1>5. QED
  BY <1>3, <1>4

\* Nobody is left in the queue, and of the IQs only those are left whose
\* stanza had been written.
LEMMA ToldFails ==
    ASSUME PorterInv, StanzaFails \/ PingFails
    PROVE  Told'
<1> USE DEF PorterInv
<1>1. /\ queue' = <<>> /\ wire' = wire
      /\ handlers' = IqsSent(Range(queue), FALSE)
      /\ Tell(Untold(Range(queue)), "failed")
  BY DEF StanzaFails, PingFails, Terminate
<1>2. \A o : o \in Untold(Range(queue)) <=> o \in Range(queue) /\ (o \notin Iqs \/ Pending(o))
  BY DEF Untold
<1>3. \A o : o \in Untold(Range(queue)) => o \in Ops /\ result[o] = "pending"
  BY <1>2, ToldFacts, ToldTypes, Ranges, Names
<1>4. /\ \A x \in Ops : done'[x] = IF result'[x] \in {"new", "pending"} THEN 0 ELSE 1
      /\ \A x \in Ops : x \in Untold(Range(queue)) => result'[x] = "failed"
      /\ \A x \in Ops : x \notin Untold(Range(queue)) => result'[x] = result[x]
  BY <1>1, <1>3, Telling DEF Final
<1>5. ASSUME NEW i \in Iqs, i \in Range(queue)
      PROVE  ~handlers'[i].there /\ ~handlers'[i].pending
  <2>1. handlers[i].there
    BY <1>5, ToldFacts
  <2>2. QED
    BY <1>1, <1>5, <2>1, HandlersSent
<1>6. ASSUME NEW i \in Iqs, i \notin Range(queue) PROVE handlers'[i] = handlers[i]
  BY <1>1, <1>6 DEF IqsSent
<1>7. Range(queue') = {}
  BY <1>1, Nothing
<1>8. QED
  BY <1>1, <1>2, <1>4, <1>5, <1>6, <1>7, ToldFacts, ToldSuffices, Names

LEMMA ToldForced ==
    ASSUME PorterInv, UserForces \/ RemoteFails
    PROVE  Told'
<1> USE DEF PorterInv
<1> DEFINE told == Untold(Range(queue)) \cup {i \in Iqs : Pending(i)}
           hs == IqsSent(Range(queue), FALSE)
<1>1. /\ queue' = <<>> /\ wire' = wire
      /\ handlers' = Aborted(hs)
      /\ Tell(told, "failed")
  BY DEF UserForces, RemoteFails, StartForce, TerminateAndAbort
<1>2. \A o : o \in told <=> \/ o \in Range(queue) /\ (o \notin Iqs \/ Pending(o))
                            \/ o \in Iqs /\ Pending(o)
  BY DEF Untold
<1>3. hs \in [Iqs -> Handler]
  BY HandlersSent
<1>4. ASSUME NEW i \in Iqs PROVE ~(hs[i].there /\ ~hs[i].sent)
  <2>1. CASE i \in Range(queue) /\ handlers[i].there
    BY <2>1, HandlersSent
  <2>2. CASE ~(i \in Range(queue) /\ handlers[i].there)
    <3>1. hs[i] = handlers[i]
      BY <2>2 DEF IqsSent
    <3>2. QED
      BY <2>2, <3>1, ToldFacts
  <2>3. QED
    BY <2>1, <2>2
<1> HIDE DEF told, hs
<1>5. \A o : o \in told => o \in Ops /\ result[o] = "pending"
  <2>1. \A o : o \in Range(queue) => o \in Ops
    BY ToldTypes, Ranges, SMTT(40)
  <2>2. QED
    BY <1>2, <2>1, ToldFacts, Names
<1>6. /\ \A x \in Ops : done'[x] = IF result'[x] \in {"new", "pending"} THEN 0 ELSE 1
      /\ \A x \in Ops : x \in told => result'[x] = "failed"
      /\ \A x \in Ops : x \notin told => result'[x] = result[x]
  BY <1>1, <1>5, Telling DEF Final
<1>7. \A i \in Iqs : ~handlers'[i].there /\ ~handlers'[i].pending
  BY <1>1, <1>3, <1>4, HandlersAborted
<1>8. Range(queue') = {}
  BY <1>1, Nothing
<1>9. QED
  BY <1>1, <1>2, <1>6, <1>7, <1>8, ToldFacts, ToldSuffices, Names

LEMMA ToldAborted ==
    ASSUME PorterInv, RemoteEndsClosing \/ RemoteCloses
    PROVE  Told'
<1> USE DEF PorterInv
<1> DEFINE told == {i \in Iqs : Pending(i)}
<1>1. /\ queue' = queue /\ wire' = wire
      /\ handlers' = Aborted(handlers)
      /\ Tell(told, "failed")
  BY DEF RemoteEndsClosing, RemoteCloses, AbortPendingIqs, sendVars
<1>2. \A o : o \in told <=> o \in Iqs /\ Pending(o)
  OBVIOUS
<1> HIDE DEF told
<1>3. \A o : o \in told => o \in Ops /\ result[o] = "pending"
  BY <1>2, ToldFacts, Names
<1>4. /\ \A x \in Ops : done'[x] = IF result'[x] \in {"new", "pending"} THEN 0 ELSE 1
      /\ \A x \in Ops : x \in told => result'[x] = "failed"
      /\ \A x \in Ops : x \notin told => result'[x] = result[x]
  BY <1>1, <1>3, Telling DEF Final
<1>5. \A i \in Iqs : /\ handlers'[i].there <=> handlers[i].there /\ ~handlers[i].sent
                     /\ ~handlers'[i].pending /\ ~handlers'[i].sent
  BY <1>1, ToldTypes, HandlersAborted
<1>6. QED
  BY <1>1, <1>2, <1>4, <1>5, ToldFacts, ToldSuffices, Names

LEMMA ToldReply ==
    ASSUME PorterInv, NEW i \in Iqs, ReplyArrives(i)
    PROVE  Told'
<1> USE DEF PorterInv
<1>1. queue' = queue /\ wire' = wire /\ i \in Ops
  BY Names DEF ReplyArrives, sendVars
<1>2. /\ \A x \in Ops : done'[x] = IF result'[x] \in {"new", "pending"} THEN 0 ELSE 1
      /\ result'[i] # "pending"
      /\ \A x \in Ops : x # i => result'[x] = result[x]
  <2>1. CASE Pending(i)
    <3>1. Tell({i}, "ok") /\ result[i] = "pending"
      BY <2>1, ToldFacts DEF ReplyArrives
    <3>2. QED
      BY <1>1, <3>1, Telling DEF Final
  <2>2. CASE ~Pending(i)
    BY <1>1, <2>2, ToldFacts DEF ReplyArrives
  <2>3. QED
    BY <2>1, <2>2
<1>3. /\ handlers'[i] = MaybeRemove([handlers[i] EXCEPT !.pending = FALSE])
      /\ \A j \in Iqs : j # i => handlers'[j] = handlers[j]
  BY ToldTypes DEF ReplyArrives
<1>4. /\ handlers'[i].there <=> handlers[i].there /\ ~handlers[i].sent
      /\ ~handlers'[i].pending /\ ~handlers'[i].sent
  <2>1. handlers[i] \in Handler
    BY ToldTypes
  <2>2. QED
    BY <1>3, <2>1, HandlerTold
<1>5. QED
  BY <1>1, <1>2, <1>3, <1>4, ToldFacts, ToldSuffices, Names

LEMMA ToldKept ==
    ASSUME PorterInv, [PorterNext]_porterVars
    PROVE  Told'
<1> USE DEF PorterInv
<1>1. CASE UNCHANGED <<queue, handlers, result, done, wire>>
  BY <1>1, ToldFacts, ToldSuffices
<1>2. CASE CloseSent
  <2>1. UNCHANGED <<queue, handlers, result, done>> /\ wire' = Append(wire, "close")
    BY <1>2 DEF CloseSent, opVars
  <2>2. \A x : x \in Range(wire') <=> x \in Range(wire) \/ x = "close"
    <3>1. wire \in Seq(Ops \cup {"close"}) /\ "close" \in Ops \cup {"close"}
      BY ToldTypes
    <3>2. QED
      BY <2>1, <3>1, AppendRange
  <2>3. QED
    BY <2>1, <2>2, ToldFacts, ToldSuffices
<1>3. CASE SendPing \/ PingWritten \/ CloseNotSent \/ UserCloses \/ UserForcesTooLate
           \/ CloseAborted \/ StreamClosed \/ ReceiveCancelled \/ UNCHANGED porterVars
  BY <1>1, <1>3 DEF SendPing, PingWritten, CloseNotSent, UserCloses, UserForcesTooLate,
     CloseAborted, StreamClosed, ReceiveCancelled, porterVars, sendVars, opVars
<1>4. QED
  BY <1>2, <1>3, ToldSend, ToldCancel, ToldWritten, ToldFails, ToldForced, ToldAborted, ToldReply
  DEF PorterNext

-----------------------------------------------------------------------------
(* The order in which stanzas are written.                                   *)

LEMMA Lengths ==
    ASSUME PorterTypeOK
    PROVE  /\ Len(queue) \in Nat /\ Len(wire) \in Nat /\ Len(accepted) \in Nat
           /\ \A x : x \in Range(accepted) <=> \E k \in 1 .. Len(accepted) : x = accepted[k]
           /\ \A k \in 1 .. Len(accepted) : accepted[k] \in Ops
           /\ \A k \in 1 .. Len(queue) : queue[k] \in Ops
BY Ranges, ToldTypes

\* A step that queues and writes nothing new.
LEMMA OrderedFrame ==
    ASSUME PorterTypeOK, Ordered, accepted' = accepted, wire' = wire, Embeds(queue', queue),
           \A o \in Ops : result[o] # "new" => result'[o] # "new",
           outputClosed => outputClosed',
           output' \in Ops /\ ~dead' =>
              \/ output' = output /\ ~dead
              \/ ~outputClosed /\ \E k \in 1 .. Len(queue) : output' = queue[k]
    PROVE  Ordered'
<1>1. \A x, y : Before(x, y)' <=> Before(x, y)
  BY DEF Before
<1>2. \A k \in 1 .. Len(accepted') : result'[accepted'[k]] # "new"
  BY Lengths DEF Ordered
<1>3. /\ \A k, l \in 1 .. Len(accepted') : accepted'[k] = accepted'[l] => k = l
      /\ \A k \in 1 .. Len(wire') : wire'[k] # "close" => wire'[k] \in Range(accepted')
      /\ \A k, l \in 1 .. Len(wire') : k < l /\ wire'[l] # "close" => Before(wire[k], wire[l])
      /\ \A k \in 1 .. Len(wire') : wire'[k] = "close" => k = Len(wire') /\ outputClosed'
  BY DEF Ordered
<1>4. \A k \in 1 .. Len(queue') : queue'[k] \in Range(accepted')
  BY DEF Ordered, Embeds
<1>5. ASSUME NEW k \in 1 .. Len(queue'), NEW l \in 1 .. Len(queue'), k < l
      PROVE  Before(queue'[k], queue'[l])
  BY <1>5 DEF Ordered, Embeds
<1>6. ASSUME NEW k \in 1 .. Len(wire'), NEW l \in 1 .. Len(queue'), wire'[k] # "close"
      PROVE  Before(wire'[k], queue'[l])
  BY <1>6 DEF Ordered, Embeds
<1>7. ASSUME output' \in Ops, ~dead'
      PROVE  /\ output' \in Range(accepted')
             /\ \A k \in 1 .. Len(wire') : Before(wire'[k], output')
  BY <1>7 DEF Ordered
<1>8. QED
  <2>1. \A k, l \in 1 .. Len(queue') : k < l => Before(queue[k], queue[l])'
    BY <1>1, <1>5 DEF Before
  <2>2. \A k, l \in 1 .. Len(wire') : k < l /\ wire'[l] # "close" => Before(wire[k], wire[l])'
    BY <1>3 DEF Before
  <2>3. \A k \in 1 .. Len(wire') : \A l \in 1 .. Len(queue') :
           wire'[k] # "close" => Before(wire[k], queue[l])'
    BY <1>6 DEF Before
  <2>4. output' \in Ops /\ ~dead' =>
           /\ output' \in Range(accepted')
           /\ \A k \in 1 .. Len(wire') : Before(wire[k], output)'
    BY <1>7 DEF Before
  <2>5. QED
    BY <1>2, <1>3, <1>4, <2>1, <2>2, <2>3, <2>4 DEF Ordered

LEMMA OrderedAccept ==
    ASSUME PorterInv, NEW o \in Ops, Accept(o), result[o] = "new",
           result' = [result EXCEPT ![o] = "pending"],
           wire' = wire, outputClosed' = outputClosed, dead' = dead, Turns'
    PROVE  Ordered'
<1> USE DEF PorterInv
<1> DEFINE After(x, y) ==
      \E k, l \in 1 .. Len(accepted') : k < l /\ accepted'[k] = x /\ accepted'[l] = y
<1>1. accepted' = Append(accepted, o) /\ queue' = Append(queue, o)
  BY AcceptWrites
<1>2. /\ Len(accepted') = Len(accepted) + 1
      /\ \A k \in 1 .. Len(accepted) : accepted'[k] = accepted[k]
      /\ accepted'[Len(accepted) + 1] = o
      /\ \A x : x \in Range(accepted') <=> x \in Range(accepted) \/ x = o
  BY <1>1, AppendRange, ToldTypes
<1>3. /\ Len(queue') = Len(queue) + 1
      /\ \A k \in 1 .. Len(queue) : queue'[k] = queue[k]
      /\ queue'[Len(queue) + 1] = o
  BY <1>1, AppendRange, ToldTypes
<1>4. /\ \A k : k \in 1 .. Len(accepted') <=> k \in 1 .. Len(accepted) \/ k = Len(accepted) + 1
      /\ \A k : k \in 1 .. Len(queue') <=> k \in 1 .. Len(queue) \/ k = Len(queue) + 1
  BY <1>2, <1>3, Lengths
<1>5. /\ result'[o] = "pending"
      /\ \A x \in Ops : result[x] # "new" => result'[x] # "new"
      /\ \A k \in 1 .. Len(accepted) : accepted[k] # o
  BY ToldTypes, Lengths DEF Ordered
<1>6. ASSUME NEW x, NEW y, Before(x, y)
      PROVE  After(x, y)
  BY <1>2, <1>4, <1>6 DEF Before
<1>7. ASSUME NEW x, x \in Range(accepted)
      PROVE  After(x, o)
  <2>1. PICK k \in 1 .. Len(accepted) : x = accepted[k]
    BY <1>7, Lengths
  <2>2. k < Len(accepted) + 1
    BY Lengths
  <2>3. QED
    BY <1>2, <1>4, <2>1, <2>2
<1> HIDE DEF After
<1>8. \A k \in 1 .. Len(accepted') : result'[accepted'[k]] # "new"
  BY <1>2, <1>4, <1>5, Lengths DEF Ordered
<1>9. \A k, l \in 1 .. Len(accepted') : accepted'[k] = accepted'[l] => k = l
  BY <1>2, <1>4, <1>5 DEF Ordered
<1>10. \A k \in 1 .. Len(queue') : queue'[k] \in Range(accepted')
  BY <1>2, <1>3, <1>4 DEF Ordered
<1>11. ASSUME NEW k \in 1 .. Len(queue'), NEW l \in 1 .. Len(queue'), k < l
       PROVE  After(queue'[k], queue'[l])
  <2>1. k \in 1 .. Len(queue)
    BY <1>4, <1>11, Lengths
  <2>2. CASE l \in 1 .. Len(queue)
    BY <1>3, <1>6, <1>11, <2>1, <2>2 DEF Ordered
  <2>3. CASE l = Len(queue) + 1
    BY <1>3, <1>7, <2>1, <2>3 DEF Ordered
  <2>4. QED
    BY <1>4, <2>2, <2>3
<1>12. ASSUME NEW k \in 1 .. Len(wire), wire[k] # "close", NEW l \in 1 .. Len(queue')
       PROVE  After(wire[k], queue'[l])
  <2>1. CASE l \in 1 .. Len(queue)
    BY <1>3, <1>6, <1>12, <2>1 DEF Ordered
  <2>2. CASE l = Len(queue) + 1
    BY <1>3, <1>7, <1>12, <2>2 DEF Ordered
  <2>3. QED
    BY <1>4, <2>1, <2>2
<1>13. ASSUME NEW k \in 1 .. Len(wire), NEW l \in 1 .. Len(wire), k < l, wire[l] # "close"
       PROVE  After(wire[k], wire[l])
  BY <1>6, <1>13 DEF Ordered
<1>14. ASSUME output' \in Ops, ~dead'
       PROVE  /\ output' \in Range(accepted')
              /\ \A k \in 1 .. Len(wire) : After(wire[k], output')
  <2>1. ~outputClosed /\ \A k \in 1 .. Len(wire) : wire[k] # "close"
    BY <1>14, Names DEF Turns, Ordered
  <2>2. output' = output \/ output' = o
    BY AcceptWrites
  <2>3. CASE output' = output
    BY <1>2, <1>6, <1>14, <2>3 DEF Ordered
  <2>4. CASE output' = o
    BY <1>2, <1>7, <2>1, <2>4 DEF Ordered
  <2>5. QED
    BY <2>2, <2>3, <2>4
<1>15. QED
  BY <1>2, <1>8, <1>9, <1>10, <1>11, <1>12, <1>13, <1>14 DEF Ordered, Before, After

LEMMA OrderedWritten ==
    ASSUME PorterInv, StanzaWritten, \A o \in Ops : result[o] # "new" => result'[o] # "new"
    PROVE  Ordered'
<1> USE DEF PorterInv
<1>1. /\ output \in Ops /\ ~dead /\ wire' = Append(wire, output)
      /\ UNCHANGED <<accepted, outputClosed, dead>>
  BY DEF StanzaWritten, WriteOf, forceVars
<1>2. /\ Len(wire') = Len(wire) + 1
      /\ \A k \in 1 .. Len(wire) : wire'[k] = wire[k]
      /\ wire'[Len(wire) + 1] = output
  <2>1. wire \in Seq(Ops \cup {"close"}) /\ output \in Ops \cup {"close"}
    BY <1>1, ToldTypes
  <2>2. QED
    BY <1>1, <2>1, AppendRange
<1>3. \A k : k \in 1 .. Len(wire') <=> k \in 1 .. Len(wire) \/ k = Len(wire) + 1
  BY <1>2, Lengths
<1>4. ~outputClosed /\ output # "close" /\ \A k \in 1 .. Len(wire) : wire[k] # "close"
  BY <1>1, Names DEF Turns, Ordered
<1>5. /\ output \in Range(accepted)
      /\ \A k \in 1 .. Len(wire) : Before(wire[k], output)
  BY <1>1 DEF Ordered
\* What is in the queue now followed the stanza in the queue.
<1>6. ASSUME NEW l \in 1 .. Len(queue')
      PROVE  /\ Before(output, queue'[l])
             /\ \E m \in 1 .. Len(queue) : queue'[l] = queue[m]
  <2>1. CASE queue = <<>>
    BY <2>1, StanzaWrittenWrites
  <2>2. CASE queue # <<>>
    <3>1. queue' = Tail(queue) /\ output = queue[1] /\ 1 \in 1 .. Len(queue)
      BY <1>1, <2>2, StanzaWrittenWrites, Ranges, ToldTypes, Lengths, SMTT(40) DEF Turns
    <3>2. l + 1 \in 1 .. Len(queue) /\ queue'[l] = queue[l + 1] /\ 1 < l + 1
      BY <2>2, <3>1, HeadTailProperties, ToldTypes, Lengths
    <3>3. QED
      BY <3>1, <3>2 DEF Ordered
  <2>3. QED
    BY <2>1, <2>2
<1>7. \A k, l \in 1 .. Len(queue') : k < l => Before(queue'[k], queue'[l])
  <2>1. Embeds(queue', queue)
    BY StanzaWrittenWrites, TailRange, EmbedsItself, ToldTypes
  <2>2. QED
    BY <2>1 DEF Embeds, Ordered
<1>8. \A k, l \in 1 .. Len(wire') : k < l => Before(wire'[k], wire'[l])
  <2>1. \A k \in 1 .. Len(wire'), l \in 1 .. Len(wire') :
           k < l => k \in 1 .. Len(wire)
    BY <1>2, Lengths
  <2>2. QED
    BY <1>2, <1>3, <1>4, <1>5, <2>1 DEF Ordered
<1>9. \A k \in 1 .. Len(wire') : \A l \in 1 .. Len(queue') : Before(wire'[k], queue'[l])
  BY <1>2, <1>3, <1>4, <1>6 DEF Ordered
<1>10. ASSUME output' \in Ops
       PROVE  \E l \in 1 .. Len(queue') : output' = queue'[l]
  <2>1. output' # "close" /\ output' # "none"
    BY <1>10, Names
  <2>2. queue' # <<>> /\ output' = Head(queue')
    BY <2>1, StanzaWrittenWrites
  <2>3. queue' \in Seq(Ops)
    <3>1. CASE queue = <<>>
      BY <3>1, StanzaWrittenWrites, ToldTypes
    <3>2. CASE queue # <<>>
      <4>1. queue' = Tail(queue)
        BY <3>2, StanzaWrittenWrites
      <4>2. QED
        BY <3>2, <4>1, TailRange, ToldTypes
    <3>3. QED
      BY <3>1, <3>2
  <2>4. QED
    BY <2>2, <2>3, Ranges
<1>11. \A k \in 1 .. Len(queue') : queue'[k] \in Range(accepted)
  BY <1>6 DEF Ordered
<1>12. /\ \A k \in 1 .. Len(accepted') : result'[accepted'[k]] # "new"
       /\ \A k, l \in 1 .. Len(accepted') : accepted'[k] = accepted'[l] => k = l
  BY <1>1, Lengths DEF Ordered
<1>13. \A k \in 1 .. Len(wire') : wire'[k] # "close" /\ wire'[k] \in Range(accepted)
  BY <1>2, <1>3, <1>4, <1>5 DEF Ordered
<1>14. output' \in Ops =>
          output' \in Range(accepted) /\ \A k \in 1 .. Len(wire') : Before(wire'[k], output')
  BY <1>9, <1>10, <1>11
<1>15. QED
  <2>1. accepted' = accepted
    BY <1>1
  <2>2. \A k, l \in 1 .. Len(queue') : k < l => Before(queue[k], queue[l])'
    BY <1>7, <2>1, ZenonT(40) DEF Before
  <2>3. \A k, l \in 1 .. Len(wire') : k < l => Before(wire[k], wire[l])'
    BY <1>8, <2>1, ZenonT(40) DEF Before
  <2>4. \A k \in 1 .. Len(wire') : \A l \in 1 .. Len(queue') : Before(wire[k], queue[l])'
    BY <1>9, <2>1 DEF Before
  <2>5. output' \in Ops => \A k \in 1 .. Len(wire') : Before(wire[k], output)'
    BY <1>14, <2>1 DEF Before
  <2>6. QED
    BY <1>1, <1>11, <1>12, <1>13, <1>14, <2>2, <2>3, <2>4, <2>5 DEF Ordered

LEMMA OrderedClose ==
    ASSUME PorterInv, CloseSent
    PROVE  Ordered'
<1> USE DEF PorterInv
<1>1. /\ output = "close" /\ ~dead /\ wire' = Append(wire, "close") /\ outputClosed'
      /\ UNCHANGED <<accepted, dead, queue, result>> /\ output' = "none"
  BY CloseSentWrites DEF CloseSent, WriteOf, forceVars, opVars
<1>2. /\ Len(wire') = Len(wire) + 1
      /\ \A k \in 1 .. Len(wire) : wire'[k] = wire[k]
      /\ wire'[Len(wire) + 1] = "close"
  <2>1. wire \in Seq(Ops \cup {"close"}) /\ "close" \in Ops \cup {"close"}
    BY ToldTypes
  <2>2. QED
    BY <1>1, <2>1, AppendRange
<1>3. \A k : k \in 1 .. Len(wire') <=> k \in 1 .. Len(wire) \/ k = Len(wire) + 1
  BY <1>2, Lengths
<1>4. ~outputClosed /\ \A k \in 1 .. Len(wire) : wire[k] # "close"
  BY <1>1 DEF Turns, Ordered
<1>5. \A k, l \in 1 .. Len(wire') : k < l /\ wire'[l] # "close" =>
         k \in 1 .. Len(wire) /\ l \in 1 .. Len(wire)
  BY <1>2, <1>3, Lengths
<1>6. \A k, l \in 1 .. Len(wire') : k < l /\ wire'[l] # "close" => Before(wire'[k], wire'[l])
  BY <1>2, <1>5 DEF Ordered
<1>7. \A k \in 1 .. Len(wire') : \A l \in 1 .. Len(queue) :
         wire'[k] # "close" => Before(wire'[k], queue[l])
  BY <1>2, <1>3 DEF Ordered
<1>8. \A k \in 1 .. Len(wire') : wire'[k] # "close" => wire'[k] \in Range(accepted)
  BY <1>2, <1>3 DEF Ordered
<1>9. \A k \in 1 .. Len(wire') : wire'[k] = "close" => k = Len(wire')
  BY <1>2, <1>3, <1>4
<1>10. /\ \A k, l \in 1 .. Len(queue') : k < l => Before(queue[k], queue[l])'
       /\ \A k, l \in 1 .. Len(wire') : k < l /\ wire'[l] # "close" => Before(wire[k], wire[l])'
       /\ \A k \in 1 .. Len(wire') : \A l \in 1 .. Len(queue') :
             wire'[k] # "close" => Before(wire[k], queue[l])'
  <2>1. \A k, l \in 1 .. Len(queue) : k < l => Before(queue[k], queue[l])
    BY DEF Ordered
  <2>2. QED
    BY <1>1, <1>6, <1>7, <2>1 DEF Before
<1>11. QED
  BY <1>1, <1>8, <1>9, <1>10, Names DEF Ordered

LEMMA OrderedKept ==
    ASSUME PorterInv, [PorterNext]_porterVars, Turns',
           \A o \in Ops : result[o] # "new" => result'[o] # "new"
    PROVE  Ordered'
<1> USE DEF PorterInv
<1>1. ASSUME NEW o \in Ops, Send(o) \/ SendIq(o) PROVE Ordered'
  <2>1. result[o] = "new" /\ UNCHANGED <<wire, outputClosed, dead>>
    BY <1>1 DEF Send, SendIq, forceVars
  <2>2. CASE Closing
    <3>1. UNCHANGED <<queue, accepted, output>>
      BY <1>1, <2>2 DEF Send, SendIq
    <3>2. QED
      BY <2>1, <3>1, OrderedFrame, EmbedsItself, ToldTypes
  <2>3. CASE ~Closing
    <3>1. Accept(o) /\ result' = [result EXCEPT ![o] = "pending"]
      BY <1>1, <2>3 DEF Send, SendIq
    <3>2. QED
      BY <2>1, <3>1, OrderedAccept
  <2>4. QED
    BY <2>2, <2>3
<1>2. ASSUME NEW o \in Ops, CancelOp(o) PROVE Ordered'
  <2>1. UNCHANGED <<wire, outputClosed, dead, accepted, output>>
    BY <1>2 DEF CancelOp, forceVars
  <2>2. Embeds(queue', queue)
    <3>1. CASE Waits(o)
      BY <1>2, <3>1, QueueFacts, Removal DEF CancelOp, Waits
    <3>2. CASE ~Waits(o)
      BY <1>2, <3>2, EmbedsItself, ToldTypes DEF CancelOp
    <3>3. QED
      BY <3>1, <3>2
  <2>3. QED
    BY <2>1, <2>2, OrderedFrame
<1>3. CASE StanzaWritten
  BY <1>3, OrderedWritten
<1>4. CASE CloseSent
  BY <1>4, OrderedClose
<1>5. CASE StanzaFails \/ PingFails
  <2>1. UNCHANGED <<wire, outputClosed, dead, accepted>> /\ queue' = <<>>
    BY <1>5 DEF StanzaFails, PingFails, forceVars, Terminate
  <2>2. output' \in Ops => output' = output
    BY <1>5, Failure, Names
  <2>3. Embeds(queue', queue)
    BY <2>1, EmbedsItself, ToldTypes
  <2>4. QED
    BY <2>1, <2>2, <2>3, OrderedFrame
<1>6. CASE PingWritten
  <2>1. UNCHANGED <<wire, outputClosed, dead, accepted, queue>> /\ ~outputClosed
    BY <1>6, PingWrittenWrites DEF PingWritten, forceVars
  <2>2. output' \in Ops => \E k \in 1 .. Len(queue) : output' = queue[k]
    <3>1. queue # <<>> => Head(queue) = queue[1] /\ 1 \in 1 .. Len(queue)
      BY Ranges, ToldTypes, Lengths
    <3>2. QED
      BY <1>6, <3>1, PingWrittenWrites, Names
  <2>3. QED
    BY <2>1, <2>2, OrderedFrame, EmbedsItself, ToldTypes
<1>7. CASE SendPing
  <2>1. UNCHANGED <<wire, outputClosed, dead, accepted, queue>>
    BY <1>7 DEF SendPing, forceVars
  <2>2. output' \in Ops => output' = output
    BY <1>7, SendPingWrites, Names
  <2>3. QED
    BY <2>1, <2>2, OrderedFrame, EmbedsItself, ToldTypes
<1>8. CASE CloseNotSent
  <2>1. UNCHANGED <<wire, outputClosed, dead, accepted, queue>>
    BY <1>8 DEF CloseNotSent, forceVars
  <2>2. output' \in Ops => output' = output
    BY <1>8, CloseNotSentWrites, Names
  <2>3. QED
    BY <2>1, <2>2, OrderedFrame, EmbedsItself, ToldTypes
<1>9. CASE UserCloses \/ RemoteCloses
  <2>1. UNCHANGED <<wire, outputClosed, dead, accepted, queue>> /\ StartClose
    BY <1>9 DEF UserCloses, RemoteCloses, forceVars
  <2>2. output' \in Ops => output' = output
    BY <2>1, StartCloseWrites, Names
  <2>3. QED
    BY <2>1, <2>2, OrderedFrame, EmbedsItself, ToldTypes
<1>10. CASE UserForces \/ RemoteFails
  <2>1. UNCHANGED <<wire, outputClosed, dead, accepted, output>> /\ queue' = <<>>
    BY <1>10 DEF UserForces, RemoteFails, StartForce, TerminateAndAbort
  <2>2. Embeds(queue', queue)
    BY <2>1, EmbedsItself, ToldTypes
  <2>3. QED
    BY <2>1, <2>2, OrderedFrame
<1>11. CASE UserForcesTooLate \/ CloseAborted \/ StreamClosed \/ ReceiveCancelled
            \/ RemoteEndsClosing \/ (\E i \in Iqs : ReplyArrives(i)) \/ UNCHANGED porterVars
  <2>1. UNCHANGED <<wire, outputClosed, accepted, output, queue>> /\ (dead => dead')
    <3>1. CASE StreamClosed
      BY <3>1 DEF StreamClosed, sendVars
    <3>2. CASE UserForcesTooLate \/ CloseAborted \/ RemoteEndsClosing
      BY <3>2 DEF UserForcesTooLate, CloseAborted, RemoteEndsClosing, sendVars, forceVars
    <3>3. CASE ReceiveCancelled
      BY <3>3 DEF ReceiveCancelled, sendVars
    <3>4. CASE \E i \in Iqs : ReplyArrives(i)
      BY <3>4 DEF ReplyArrives, sendVars, forceVars
    <3>5. CASE UNCHANGED porterVars
      BY <3>5 DEF porterVars, sendVars, forceVars
    <3>6. QED
      BY <1>11, <3>1, <3>2, <3>3, <3>4, <3>5
  <2>2. QED
    BY <2>1, OrderedFrame, EmbedsItself, ToldTypes
<1>12. QED
  BY <1>1, <1>2, <1>3, <1>4, <1>5, <1>6, <1>7, <1>8, <1>9, <1>10, <1>11 DEF PorterNext

-----------------------------------------------------------------------------
(* Types.                                                                    *)

\* What users are told, and handlers.
LEMMA OpTypes ==
    ASSUME PorterInv, [PorterNext]_porterVars
    PROVE  /\ handlers' \in [Iqs -> Handler] /\ result' \in [Ops -> Results]
           /\ done' \in [Ops -> Nat]
           /\ \A o \in Ops : result[o] # "new" => result'[o] # "new"
<1> USE DEF PorterInv
<1> DEFINE G == /\ result' \in [Ops -> Results] /\ done' \in [Ops -> Nat]
                /\ \A o \in Ops : result[o] # "new" => result'[o] # "new"
<1>0. SUFFICES G /\ handlers' \in [Iqs -> Handler]
  OBVIOUS
<1>1. ASSUME NEW os, NEW res \in Final, Tell(os, res) PROVE G
  <2>1. result' = [o \in Ops |-> IF o \in os THEN res ELSE result[o]]
        /\ done' = [o \in Ops |-> IF o \in os THEN done[o] + 1 ELSE done[o]]
    BY <1>1 DEF Tell
  <2>2. QED
    BY <2>1, ToldTypes DEF Results, Final
<1>2. ASSUME UNCHANGED <<result, done>> PROVE G
  BY <1>2, ToldTypes
<1>3. ASSUME NEW o \in Ops, result' = [result EXCEPT ![o] = "pending"], done' = done PROVE G
  BY <1>3, ToldTypes DEF Results
<1> HIDE DEF G
<1>4. {"ok", "failed", "cancelled"} \subseteq Final
  BY DEF Final
<1>5. handlers \in [Iqs -> Handler]
  BY ToldTypes
<1>6. ASSUME NEW o \in Ops, Send(o) PROVE G /\ handlers' \in [Iqs -> Handler]
  BY <1>1, <1>3, <1>4, <1>5, <1>6 DEF Send
<1>7. ASSUME NEW o \in Ops, SendIq(o) PROVE G /\ handlers' \in [Iqs -> Handler]
  <2>1. G
    BY <1>1, <1>3, <1>4, <1>7 DEF SendIq
  <2>2. \/ handlers' = handlers
        \/ handlers' = [handlers EXCEPT ![o] = [there |-> TRUE, pending |-> TRUE, sent |-> FALSE]]
    BY <1>7 DEF SendIq
  <2>3. [there |-> TRUE, pending |-> TRUE, sent |-> FALSE] \in Handler
    BY DEF Handler
  <2>4. QED
    BY <1>5, <2>1, <2>2, <2>3
<1>8. ASSUME NEW o \in Ops, CancelOp(o) PROVE G /\ handlers' \in [Iqs -> Handler]
  <2>1. G
    BY <1>1, <1>4, <1>8 DEF CancelOp
  <2>2. PICK w \in BOOLEAN : w = Waits(o)
    BY DEF Waits
  <2> DEFINE r(i) == MaybeRemove([handlers[i] EXCEPT !.pending = FALSE, !.sent = @ \/ w])
  <2>3. \A i \in Iqs : r(i) \in Handler
    BY <1>5, HandlerCancelled
  <2>4. handlers' = [i \in Iqs |-> IF i = o THEN r(i) ELSE handlers[i]]
    BY <1>8, <2>2 DEF CancelOp
  <2> HIDE DEF r
  <2>5. QED
    BY <1>5, <2>1, <2>3, <2>4
<1>9. CASE StanzaWritten
  <2>1. G
    BY <1>1, <1>2, <1>4, <1>9 DEF StanzaWritten, opVars
  <2>2. handlers' = handlers \/ handlers' = IqsSent({Head(queue)}, TRUE)
    BY <1>9 DEF StanzaWritten, opVars
  <2>3. IqsSent({Head(queue)}, TRUE) \in [Iqs -> Handler]
    BY HandlersSent
  <2>4. QED
    BY <1>5, <2>1, <2>2, <2>3
<1>10. CASE StanzaFails \/ PingFails
  <2>1. Tell(Untold(Range(queue)), "failed") /\ handlers' = IqsSent(Range(queue), FALSE)
    BY <1>10 DEF StanzaFails, PingFails, Terminate
  <2>2. QED
    BY <1>1, <1>4, <2>1, HandlersSent
<1>11. CASE UserForces \/ RemoteFails
  <2>1. Tell(Untold(Range(queue)) \cup {i \in Iqs : Pending(i)}, "failed")
        /\ handlers' = Aborted(IqsSent(Range(queue), FALSE))
    BY <1>11 DEF UserForces, RemoteFails, StartForce, TerminateAndAbort
  <2>2. IqsSent(Range(queue), FALSE) \in [Iqs -> Handler]
    BY HandlersSent
  <2>3. Aborted(IqsSent(Range(queue), FALSE)) \in [Iqs -> Handler]
    BY <2>2, HandlersAborted
  <2>4. QED
    BY <1>1, <1>4, <2>1, <2>3
<1>12. CASE RemoteEndsClosing \/ RemoteCloses
  <2>1. Tell({i \in Iqs : Pending(i)}, "failed") /\ handlers' = Aborted(handlers)
    BY <1>12 DEF RemoteEndsClosing, RemoteCloses, AbortPendingIqs
  <2>2. QED
    BY <1>1, <1>4, <1>5, <2>1, HandlersAborted
<1>13. ASSUME NEW i \in Iqs, ReplyArrives(i) PROVE G /\ handlers' \in [Iqs -> Handler]
  <2>1. G
    BY <1>1, <1>2, <1>4, <1>13 DEF ReplyArrives
  <2> DEFINE r == MaybeRemove([handlers[i] EXCEPT !.pending = FALSE])
  <2>2. r \in Handler
    BY <1>5, HandlerTold
  <2>3. handlers' = [handlers EXCEPT ![i] = r]
    BY <1>13 DEF ReplyArrives
  <2> HIDE DEF r
  <2>4. QED
    BY <1>5, <2>1, <2>2, <2>3
<1>14. CASE SendPing \/ PingWritten \/ CloseSent \/ CloseNotSent \/ UserCloses \/ UserForcesTooLate
            \/ CloseAborted \/ StreamClosed \/ ReceiveCancelled \/ UNCHANGED porterVars
  <2>1. UNCHANGED <<result, done, handlers>>
    BY <1>14 DEF SendPing, PingWritten, CloseSent, CloseNotSent, UserCloses, UserForcesTooLate,
       CloseAborted, StreamClosed, ReceiveCancelled, porterVars, opVars
  <2>2. QED
    BY <1>2, <1>5, <2>1
<1>15. QED
  BY <1>6, <1>7, <1>8, <1>9, <1>10, <1>11, <1>12, <1>13, <1>14 DEF PorterNext

\* The sending queue, what is written and what was refused.
LEMMA SendTypes ==
    ASSUME PorterInv, [PorterNext]_porterVars
    PROVE  /\ queue' \in Seq(Ops) /\ accepted' \in Seq(Ops) /\ wire' \in Seq(Ops \cup {"close"})
           /\ output' \in {"none", "ping", "close"} \cup Ops
           /\ refused' \in [Kinds -> Nat] /\ refused'["close"] <= 1
           /\ waitingToClose' \in BOOLEAN /\ ping' \in BOOLEAN
<1> USE DEF PorterInv
<1>1. /\ queue \in Seq(Ops) /\ accepted \in Seq(Ops) /\ wire \in Seq(Ops \cup {"close"})
      /\ output \in {"none", "ping", "close"} \cup Ops
      /\ refused \in [Kinds -> Nat] /\ refused["close"] <= 1 /\ refused["close"] \in Nat
      /\ waitingToClose \in BOOLEAN /\ ping \in BOOLEAN
      /\ "stanza" \in Kinds /\ "ping" \in Kinds /\ "close" \in Kinds
  BY DEF PorterTypeOK, Kinds
<1>2. ASSUME NEW o \in Ops, Send(o) \/ SendIq(o)
      PROVE  /\ queue' \in Seq(Ops) /\ accepted' \in Seq(Ops) /\ wire' = wire
             /\ output' \in {"none", "ping", "close"} \cup Ops
             /\ refused' \in [Kinds -> Nat] /\ refused'["close"] <= 1
             /\ waitingToClose' = waitingToClose /\ ping' = ping
  <2>1. wire' = wire /\ ping' = ping
    BY <1>2 DEF Send, SendIq
  <2>2. CASE Closing
    BY <1>1, <1>2, <2>1, <2>2 DEF Send, SendIq
  <2>3. CASE ~Closing
    <3>1. Accept(o)
      BY <1>2, <2>3 DEF Send, SendIq
    <3>2. queue' = Append(queue, o) /\ accepted' = Append(accepted, o)
          /\ waitingToClose' = waitingToClose /\ output' \in {output, o}
      BY <3>1, AcceptWrites
    <3>3. refused' \in [Kinds -> Nat] /\ refused'["close"] = refused["close"]
      BY <1>1, <3>1, AcceptWrites, Counts
    <3>4. QED
      BY <1>1, <2>1, <3>2, <3>3, AppendRange
  <2>4. QED
    BY <2>2, <2>3
<1>3. ASSUME NEW o \in Ops, CancelOp(o)
      PROVE  queue' \in Seq(Ops) /\ UNCHANGED <<accepted, wire, output, refused, waitingToClose, ping>>
  <2>1. UNCHANGED <<accepted, wire, output, refused, waitingToClose, ping>>
    BY <1>3 DEF CancelOp, closeVars
  <2>2. CASE Waits(o)
    BY <1>3, <2>1, <2>2, QueueFacts, Removal DEF CancelOp, Waits
  <2>3. CASE ~Waits(o)
    BY <1>1, <1>3, <2>1, <2>3 DEF CancelOp
  <2>4. QED
    BY <2>2, <2>3
<1>4. CASE SendPing
  <2>1. UNCHANGED <<queue, accepted, wire, waitingToClose>> /\ ping' = TRUE
    BY <1>4, SendPingWrites DEF SendPing
  <2>2. refused' \in [Kinds -> Nat] /\ refused'["close"] = refused["close"]
        /\ output' \in {output, "ping"}
    BY <1>1, <1>4, SendPingWrites, Counts
  <2>3. QED
    BY <1>1, <2>1, <2>2
<1>5. CASE StanzaWritten
  <2>1. wire' = Append(wire, output) /\ output \in Ops /\ UNCHANGED <<accepted, ping, refused>>
    BY <1>5, StanzaWrittenWrites DEF StanzaWritten
  <2>2. wire' \in Seq(Ops \cup {"close"})
    <3>1. output \in Ops \cup {"close"}
      BY <2>1
    <3>2. QED
      BY <1>1, <2>1, <3>1, AppendRange
  <2>3. CASE queue = <<>>
    BY <1>1, <1>5, <2>1, <2>2, <2>3, StanzaWrittenWrites
  <2>4. CASE queue # <<>>
    <3>1. queue' = Tail(queue) /\ Tail(queue) \in Seq(Ops)
      BY <1>1, <1>5, <2>4, StanzaWrittenWrites, TailRange
    <3>2. Tail(queue) # <<>> => Head(Tail(queue)) \in Ops
      BY <3>1, Ranges
    <3>3. output' \in {"none", "ping", "close"} \cup Ops /\ waitingToClose' \in BOOLEAN
      BY <1>1, <1>5, <2>4, <3>2, StanzaWrittenWrites DEF StanzaWritten
    <3>4. QED
      BY <1>1, <2>1, <2>2, <3>1, <3>3
  <2>5. QED
    BY <2>3, <2>4
<1>6. CASE StanzaFails \/ PingFails
  <2>1. UNCHANGED <<accepted, wire>> /\ queue' = <<>> /\ (ping' = ping \/ ping' = FALSE)
    BY <1>6 DEF StanzaFails, PingFails, Terminate
  <2>2. /\ output' \in {"none", "close", output} /\ waitingToClose' \in BOOLEAN
        /\ refused' \in [Kinds -> Nat]
    BY <1>6, Failure
  <2>3. refused'["close"] <= 1
    BY <1>1, <1>6, Failure DEF CloseOnce
  <2>4. ping' \in BOOLEAN /\ queue' \in Seq(Ops)
    <3>1. ping' \in BOOLEAN
      BY <1>1, <2>1, Zenon
    <3>2. queue' \in Seq(Ops)
      BY <2>1
    <3>3. QED
      BY <3>1, <3>2
  <2>5. output' \in {"none", "ping", "close"} \cup Ops
    BY <1>1, <2>2
  <2>6. QED
    BY <1>1, <2>1, <2>2, <2>3, <2>4, <2>5
<1>7. CASE PingWritten
  <2>1. UNCHANGED <<queue, accepted, wire, refused>> /\ ping' = FALSE
    BY <1>7, PingWrittenWrites DEF PingWritten
  <2>2. output' \in {"none", "close"} \cup Ops /\ waitingToClose' \in BOOLEAN
    BY <1>7, PingWrittenWrites, QueueFacts
  <2>3. QED
    BY <1>1, <2>1, <2>2
<1>8. CASE CloseSent
  <2>1. UNCHANGED <<queue, ping, accepted, refused, waitingToClose>> /\ output' = "none"
        /\ wire' = Append(wire, "close")
    BY <1>8, CloseSentWrites DEF CloseSent
  <2>2. "close" \in Ops \cup {"close"}
    OBVIOUS
  <2>3. wire' \in Seq(Ops \cup {"close"})
    BY <1>1, <2>1, <2>2, AppendRange
  <2>4. QED
    BY <1>1, <2>1, <2>3
<1>9. CASE CloseNotSent
  <2>1. UNCHANGED <<queue, ping, accepted, wire, waitingToClose>> /\ output' \in {output, "none"}
    BY <1>9, CloseNotSentWrites DEF CloseNotSent
  <2>2. refused' \in [Kinds -> Nat] /\ refused'["close"] <= refused["close"]
    BY <1>1, <1>9, CloseNotSentWrites, Counts
  <2>3. refused'["close"] \in Nat
    BY <1>1, <2>2
  <2>4. QED
    BY <1>1, <2>1, <2>2, <2>3
<1>10. CASE UserCloses \/ RemoteCloses
  <2>1. UNCHANGED <<queue, ping, accepted, wire>> /\ StartClose /\ closeCalls = {}
    BY <1>10 DEF UserCloses, RemoteCloses
  <2>2. refused["close"] = 0
    BY <2>1 DEF CloseOnce
  <2>3. waitingToClose' \in BOOLEAN /\ output' \in {output, "close"}
    BY <2>1, StartCloseWrites
  <2>4. refused' = refused \/ refused' = More(refused, "close")
    BY <2>1, StartCloseWrites
  <2>5. refused' \in [Kinds -> Nat] /\ refused'["close"] <= 1
    <3>1. CASE refused' = refused
      BY <1>1, <3>1
    <3>2. CASE refused' = More(refused, "close")
      BY <1>1, <2>2, <3>2, Counts, SMTT(40)
    <3>3. QED
      BY <2>4, <3>1, <3>2
  <2>6. QED
    BY <1>1, <2>1, <2>3, <2>5
<1>11. CASE UserForces \/ RemoteFails
  <2>1. UNCHANGED <<ping, output, refused, wire, waitingToClose, accepted>> /\ queue' = <<>>
    BY <1>11 DEF UserForces, RemoteFails, StartForce, TerminateAndAbort
  <2>2. QED
    BY <1>1, <2>1
<1>12. CASE UserForcesTooLate \/ CloseAborted \/ StreamClosed \/ RemoteEndsClosing
  BY <1>1, <1>12 DEF UserForcesTooLate, CloseAborted, StreamClosed, RemoteEndsClosing, sendVars
<1>13. CASE ReceiveCancelled \/ (\E i \in Iqs : ReplyArrives(i)) \/ UNCHANGED porterVars
  BY <1>1, <1>13 DEF ReceiveCancelled, ReplyArrives, porterVars, sendVars, closeVars
<1>14. QED
  BY <1>1, <1>2, <1>3, <1>4, <1>5, <1>6, <1>7, <1>8, <1>9, <1>10, <1>11, <1>12, <1>13
  DEF PorterNext

LEMMA TypesKept ==
    ASSUME PorterInv, [PorterNext]_porterVars
    PROVE  PorterTypeOK'
<1> USE DEF PorterInv
<1> DEFINE Flags == /\ outputClosed \in BOOLEAN /\ dead \in BOOLEAN
                    /\ receiving \in {"none", "running", "cancelled"}
                    /\ started \in BOOLEAN /\ closeOp \in BOOLEAN
                    /\ remoteClosed \in BOOLEAN /\ localClosed \in BOOLEAN /\ forceOp \in BOOLEAN
                    /\ forcedShutdown \in BOOLEAN /\ streamClose \in BOOLEAN
                    /\ closeAborted \in BOOLEAN
           Calls == closeCalls \subseteq {"close", "force"} /\ closeDone \in [close : Nat, force : Nat]
<1>1. Flags /\ Calls
  BY DEF PorterTypeOK
<1>2. Flags'
  <2>1. ASSUME NEW o \in Ops, Send(o) \/ SendIq(o) \/ CancelOp(o) PROVE Flags'
    <3>1. UNCHANGED <<outputClosed, dead, receiving, started, closeOp, remoteClosed, localClosed,
                      forceOp, forcedShutdown, streamClose, closeAborted>>
      BY <2>1 DEF Send, SendIq, CancelOp, closeVars, forceVars, recvVars
    <3>2. QED
      BY <1>1, <3>1
  <2>2. CASE SendPing \/ StanzaWritten \/ StanzaFails \/ PingWritten \/ PingFails
    <3>1. UNCHANGED <<outputClosed, dead, receiving, started, closeOp, remoteClosed, localClosed,
                      forceOp, forcedShutdown, streamClose, closeAborted>>
      BY <2>2 DEF SendPing, StanzaWritten, StanzaFails, PingWritten, PingFails,
         forceVars, recvVars
    <3>2. QED
      BY <1>1, <3>1
  <2>3. CASE CloseSent \/ CloseNotSent
    BY <1>1, <2>3, ZenonT(40) DEF CloseSent, CloseNotSent, CompleteClose, forceVars, recvVars
  <2>4. CASE UserCloses
    BY <1>1, <2>4 DEF UserCloses, StartClose, forceVars, recvVars
  <2>5. CASE UserForces
    BY <1>1, <2>5 DEF UserForces, StartForce
  <2>6. CASE UserForcesTooLate \/ CloseAborted
    BY <1>1, <2>6, ZenonT(40) DEF UserForcesTooLate, CloseAborted, sendVars, forceVars, recvVars
  <2>7. CASE StreamClosed
    BY <1>1, <2>7 DEF StreamClosed, sendVars
  <2>8. ASSUME NEW i \in Iqs, ReplyArrives(i) PROVE Flags'
    BY <1>1, <2>8 DEF ReplyArrives, sendVars, closeVars, forceVars, recvVars
  <2>9. CASE ReceiveCancelled
    BY <1>1, <2>9 DEF ReceiveCancelled, sendVars, closeVars
  <2>10. CASE RemoteEndsClosing
    BY <1>1, <2>10 DEF RemoteEndsClosing, EndOfStream, CompleteClose, sendVars, forceVars
  <2>11. CASE RemoteCloses
    BY <1>1, <2>11 DEF RemoteCloses, EndOfStream, StartClose, forceVars
  <2>12. CASE RemoteFails
    BY <1>1, <2>12 DEF RemoteFails, EndOfStream, StartForce
  <2>13. CASE UNCHANGED porterVars
    BY <1>1, <2>13 DEF porterVars, sendVars, closeVars, forceVars, recvVars
  <2>14. QED
    BY <2>1, <2>2, <2>3, <2>4, <2>5, <2>6, <2>7, <2>8, <2>9, <2>10, <2>11, <2>12, <2>13
    DEF PorterNext
<1>3. Calls'
  <2>1. ASSUME NEW o \in Ops, Send(o) \/ SendIq(o) \/ CancelOp(o) PROVE Calls'
    BY <1>1, <2>1 DEF Send, SendIq, CancelOp, closeVars
  <2>2. CASE SendPing \/ StanzaWritten \/ StanzaFails \/ PingWritten \/ PingFails
    BY <1>1, <2>2 DEF SendPing, StanzaWritten, StanzaFails, PingWritten, PingFails
  <2>3. CASE CloseSent \/ CloseNotSent \/ RemoteEndsClosing
    BY <1>1, <2>3 DEF CloseSent, CloseNotSent, RemoteEndsClosing, CompleteClose
  <2>4. CASE UserCloses \/ RemoteCloses
    BY <1>1, <2>4 DEF UserCloses, RemoteCloses, StartClose
  <2>5. CASE UserForces \/ RemoteFails
    BY <1>1, <2>5 DEF UserForces, RemoteFails, StartForce
  <2>6. CASE UserForcesTooLate \/ CloseAborted \/ StreamClosed
    BY <1>1, <2>6 DEF UserForcesTooLate, CloseAborted, StreamClosed
  <2>7. ASSUME NEW i \in Iqs, ReplyArrives(i) PROVE Calls'
    BY <1>1, <2>7 DEF ReplyArrives, closeVars
  <2>8. CASE ReceiveCancelled \/ UNCHANGED porterVars
    BY <1>1, <2>8 DEF ReceiveCancelled, porterVars, closeVars
  <2>9. QED
    BY <2>1, <2>2, <2>3, <2>4, <2>5, <2>6, <2>7, <2>8 DEF PorterNext
<1>4. QED
  BY <1>2, <1>3, SendTypes, OpTypes, SMTT(40) DEF PorterTypeOK, Handler, Results

-----------------------------------------------------------------------------
(* The invariant.                                                            *)

LEMMA InitInv == PorterInit => PorterInv
<1> SUFFICES ASSUME PorterInit PROVE PorterInv
  OBVIOUS
<1> USE DEF PorterInit
<1>1. Range(queue) = {} /\ Len(queue) = 0 /\ Len(wire) = 0 /\ Len(accepted) = 0
  BY Nothing
<1>2. PorterTypeOK
  <2>1. handlers \in [Iqs -> [there : BOOLEAN, pending : BOOLEAN, sent : BOOLEAN]]
    BY DEF NoHandler
  <2>2. refused \in [Kinds -> Nat] /\ refused["close"] <= 1
    BY DEF Kinds
  <2>3. queue \in Seq(Ops) /\ wire \in Seq(Ops \cup {"close"}) /\ accepted \in Seq(Ops)
    OBVIOUS
  <2>4. result \in [Ops -> {"new", "pending", "ok", "failed", "cancelled"}]
        /\ done \in [Ops -> Nat] /\ closeDone \in [close : Nat, force : Nat]
    OBVIOUS
  <2>5. QED
    BY <2>1, <2>2, <2>3, <2>4 DEF PorterTypeOK
<1>3. Turns
  BY Names DEF Turns, Kinds
<1>4. CloseOnce /\ Closes
  BY DEF CloseOnce, Closes, Forced, ForcedOnce, Kinds
<1>5. Told
  BY <1>1, Names DEF Told, HandlersTidy, OkMeansWritten, Pending, NoHandler
<1>6. Ordered
  BY <1>1, Names DEF Ordered
<1>7. QED
  BY <1>2, <1>3, <1>4, <1>5, <1>6 DEF PorterInv

LEMMA StepInv == PorterInv /\ [PorterNext]_porterVars => PorterInv'
<1> SUFFICES ASSUME PorterInv, [PorterNext]_porterVars PROVE PorterInv'
  OBVIOUS
<1>1. Turns'
  BY TurnsKept
<1>2. Ordered'
  BY <1>1, OpTypes, OrderedKept
<1>3. QED
  BY <1>1, <1>2, CloseKept, ToldKept, TypesKept DEF PorterInv

\* What the run checks is part of the invariant, or follows from it.
LEMMA InvSafe == PorterInv => PorterSafe
<1> SUFFICES ASSUME PorterInv PROVE PorterSafe
  OBVIOUS
<1> USE DEF PorterInv
<1>1. OperationsSafe
  BY DEF OperationsSafe, CalledBackOnce, Told, Closes
<1>2. WireInOrder
  BY Lengths DEF Ordered, WireInOrder, Before
<1>3. NoStall
  <2>1. queue # <<>> => output # "none" \/ refused["stanza"] > 0 \/ refused["ping"] > 0
    BY QueueFacts, Names DEF Turns
  <2>2. queue # <<>> /\ ~dead /\ ~outputClosed => output \in {Head(queue), "ping"}
    BY RefusedTypes DEF Turns
  <2>3. output = "close" \/ refused["close"] > 0 => queue = <<>> \/ "force" \in closeCalls
    BY RefusedTypes DEF CloseOnce, Closes
  <2>4. QED
    BY <2>1, <2>2, <2>3 DEF NoStall
<1>4. CloseProceeds
  BY DEF Closes, CloseProceeds
<1>5. QED
  BY <1>1, <1>2, <1>3, <1>4 DEF PorterSafe, QueueSafe

\* The porter, whatever is sent through it: every send, IQ and close is called back
\* once and with the truth, stanzas are written once each in the order in which they
\* were queued and never after the end of the stream, the queue never stalls, and a
\* close that waits for it goes on.
THEOREM PorterIsSafe == PorterSpec => []PorterSafe
<1>1. PorterSpec => []PorterInv
  BY InitInv, StepInv, PTL DEF PorterSpec
<1>2. QED
  BY <1>1, InvSafe, PTL
=============================================================================
