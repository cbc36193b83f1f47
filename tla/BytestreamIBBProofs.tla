-------------------------- MODULE BytestreamIBBProofs --------------------------
(* The in-band bytestream for every window, block and buffer size and for     *)
(* any amount of data: the invariants of BytestreamIBB, and that it is the    *)
(* bytestream of module Bytestream.                                           *)
EXTENDS BytestreamIBB, SequenceTheorems, FiniteSetTheorems, TLAPS

-----------------------------------------------------------------------------
(* One direction.  Bytes are numbered, so that what is kept or carried in     *)
(* one place is a run of numbers; up[k] is the last byte of the k-th data     *)
(* stanza, and q the stanzas on their way.                                    *)

MessageTypes == {"open", "opened", "not-opened", "accepted", "declined", "data", "acked", "refused",
                 "close", "close-acked", "close-refused"}
Messages == [type : MessageTypes, id : Nat, body : Seq(Nat)]

Run(s, n) == \A i \in 1 .. Len(s) : s[i] = n + i

Last(up, k) == IF k = 0 THEN 0 ELSE up[k]

Rising(up) == \A k, l \in 0 .. Len(up) : k < l => Last(up, k) < Last(up, l)

(* Every data stanza carries the bytes that are its own, and they are on      *)
(* their way in the order of their numbers.                                   *)
Carries(up, m) ==
  /\ m.id \in 1 .. Len(up)
  /\ Run(m.body, Last(up, m.id - 1))
  /\ Last(up, m.id - 1) + Len(m.body) = Last(up, m.id)

InOrder(up, q) ==
  /\ \A i \in 1 .. Len(q) : q[i].type = "data" => Carries(up, q[i])
  /\ \A i, j \in 1 .. Len(q) :
        i < j /\ q[i].type = "data" /\ q[j].type = "data" => q[i].id < q[j].id

Has(q, m) == \E i \in 1 .. Len(q) : q[i].type = "data" /\ q[i].id = m

(* The receiver holds the first bytes, and what it does not hold is carried.  *)
Continues(up, q, held) ==
  \E n \in 0 .. Len(up) :
    /\ held = Last(up, n)
    /\ \A m \in 1 .. Len(up) : Has(q, m) <=> m > n

(* The answers in q: those to the stanza id, and that acknowledged data have  *)
(* been given to the user, who was given len bytes.                           *)
Answered(q, id) == \E i \in 1 .. Len(q) : q[i].type \in {"acked", "refused"} /\ q[i].id = id

Truthful(up, q, len) ==
  \A i \in 1 .. Len(q) :
    q[i].type \in {"acked", "refused"} =>
       q[i].id \in 1 .. Len(up) /\ (q[i].type = "acked" => up[q[i].id] <= len)

(* A queue with stanzas of the types in T, with at most one of them, and with *)
(* data only behind an "opened".                                              *)
Any(q, T) == \E i \in 1 .. Len(q) : q[i].type \in T

Once(q, T) == \A i, j \in 1 .. Len(q) : q[i].type \in T /\ q[j].type \in T => i = j

DataFollows(q) ==
  \A i \in 1 .. Len(q) : q[i].type = "data" => \E j \in 1 .. i - 1 : q[j].type = "opened"

-----------------------------------------------------------------------------
(* The inductive invariant.                                                   *)

States == {"NONE", "LOCAL_PENDING", "ACCEPTED", "INITIATING", "OPEN", "CLOSING", "CLOSED"}
Early == {"NONE", "LOCAL_PENDING", "ACCEPTED", "INITIATING"}
Over == {"CLOSING", "CLOSED"}

Types ==
  /\ state \in [Sides -> States]
  /\ inFlight \in [Sides -> SUBSET Nat]
  /\ writeBuffer \in [Sides -> Seq(Nat)] /\ readBuffer \in [Sides -> Seq(Nat)]
  /\ writeBlocked \in [Sides -> BOOLEAN] /\ readBlocked \in [Sides -> BOOLEAN]
  /\ notAcked \in [Sides -> Seq(Nat)]
  /\ closeIq \in [Sides -> BOOLEAN]
  /\ to \in [Sides -> Seq(Messages)]
  /\ sent \in [Sides -> Nat] /\ seq \in [Sides -> Nat]
  /\ received \in [Sides -> Seq(Nat)]
  /\ upto \in [Sides -> Seq(Nat)]

(* What x has sent, and has yet to send.                                      *)
Sender(x) ==
  /\ Len(upto[x]) = seq[x] /\ Rising(upto[x])
  /\ Run(writeBuffer[x], Last(upto[x], seq[x]))
  /\ Last(upto[x], seq[x]) + Len(writeBuffer[x]) <= sent[x]
  /\ state[x] # "CLOSED" => Last(upto[x], seq[x]) + Len(writeBuffer[x]) = sent[x]
  /\ writeBlocked[x] = (writeBuffer[x] # <<>>)
  /\ closeIq[x] => state[x] = "CLOSING"

(* The window: what is in flight, and that something is when data wait.       *)
Window(x) ==
  /\ inFlight[x] \subseteq 1 .. seq[x]
  /\ IsFiniteSet(inFlight[x]) /\ Cardinality(inFlight[x]) <= WindowSize
  /\ state[x] = "OPEN" /\ writeBuffer[x] # <<>> => inFlight[x] # {}

(* What x keeps for its user while reading is blocked.                        *)
Reader(x) ==
  /\ readBuffer[x] # <<>> => readBlocked[x]
  /\ readBlocked[x] => state[x] \in {"OPEN", "CLOSING"}
  /\ Len(readBuffer[x]) <= ReadBufferMax
  /\ state[x] # "OPEN" => notAcked[x] = <<>>

(* A stream that has not been open has carried nothing.                       *)
Unused(x) == state[x] \in Early => writeBuffer[x] = <<>> /\ seq[x] = 0

Own(x) == Sender(x) /\ Window(x) /\ Reader(x) /\ Unused(x)

(* The data on their way to x and those it holds.                             *)
Held(x) == Len(received[x]) + Len(readBuffer[x])

Inbound(x) ==
  /\ InOrder(upto[Peer(x)], to[x])
  /\ Run(received[x], 0) /\ Run(readBuffer[x], Len(received[x]))
  /\ Held(x) <= Last(upto[Peer(x)], seq[Peer(x)])
  /\ state[x] \notin Over => Continues(upto[Peer(x)], to[x], Held(x))
  /\ \A k \in 1 .. Len(notAcked[x]) :
        /\ notAcked[x][k] \in 1 .. seq[Peer(x)]
        /\ upto[Peer(x)][notAcked[x][k]] <= Held(x)

(* The answers on their way to x.                                             *)
Answers(x) == Truthful(upto[x], to[x], Len(received[Peer(x)]))

Kept(x, id) == \E k \in 1 .. Len(notAcked[x]) : notAcked[x][k] = id

Accounted(x) ==
  state[x] # "CLOSED" =>
    \A id \in inFlight[x] : Has(to[Peer(x)], id) \/ Answered(to[x], id) \/ Kept(Peer(x), id)

(* How the stream is opened: an offer is answered once, then opened once, and *)
(* data follow the answer to that.                                            *)
Offers == {"accepted", "declined"}
Opened == {"opened", "not-opened"}

Handshake ==
  /\ state["a"] \in {"NONE", "INITIATING", "OPEN", "CLOSING", "CLOSED"}
  /\ state["b"] \in {"LOCAL_PENDING", "ACCEPTED", "OPEN", "CLOSING", "CLOSED"}
  /\ ~Any(to["b"], Offers) /\ ~Any(to["b"], Opened) /\ ~Any(to["a"], {"open"})
  /\ Once(to["a"], Offers) /\ Once(to["b"], {"open"}) /\ Once(to["a"], Opened)
  /\ Any(to["a"], Offers) => state["a"] = "NONE" /\ state["b"] # "LOCAL_PENDING"
  /\ state["b"] = "LOCAL_PENDING" => state["a"] = "NONE"
  /\ Any(to["b"], {"open"}) => /\ ~Any(to["a"], Opened)
                               /\ state["b"] \in {"ACCEPTED", "CLOSED"}
                               /\ state["a"] \in {"INITIATING", "CLOSED"}
  /\ Any(to["a"], Opened) => state["a"] \in {"INITIATING", "CLOSED"}
  /\ Any(to["a"], {"opened"}) => state["b"] \notin Early
  /\ state["b"] \in Early => seq["a"] = 0 /\ state["a"] \in {"NONE", "INITIATING", "CLOSED"}
  /\ state["a"] = "NONE" => state["b"] \in {"LOCAL_PENDING", "ACCEPTED", "CLOSED"} /\ seq["b"] = 0
  /\ state["a"] = "INITIATING" => /\ DataFollows(to["a"])
                                  /\ state["b"] \in {"OPEN", "CLOSING"} => Any(to["a"], {"opened"})

IBBInv ==
  /\ Types
  /\ \A x \in Sides : Own(x) /\ Inbound(x) /\ Answers(x) /\ Accounted(x)
  /\ Handshake

-----------------------------------------------------------------------------
(* Queues and runs.                                                           *)

(* blocks are the next data stanzas after those that up describes, and up2    *)
(* describes them too.                                                        *)
Cut(up, blocks, up2) ==
  /\ Len(up2) = Len(up) + Len(blocks)
  /\ \A k \in 1 .. Len(up) : up2[k] = up[k]
  /\ Rising(up2)
  /\ \A i \in 1 .. Len(blocks) :
        blocks[i].type = "data" /\ blocks[i].id = Len(up) + i /\ Carries(up2, blocks[i])

LEMMA Joined ==
  ASSUME NEW S, NEW s \in Seq(S), NEW t \in Seq(S)
  PROVE  /\ s \o t \in Seq(S) /\ Len(s \o t) = Len(s) + Len(t)
         /\ Len(s) \in Nat /\ Len(t) \in Nat
         /\ \A i \in 1 .. Len(s) : (s \o t)[i] = s[i]
         /\ \A i \in 1 .. Len(t) : (s \o t)[Len(s) + i] = t[i]
         /\ \A i \in 1 .. Len(s \o t) : i \in 1 .. Len(s) \/ i - Len(s) \in 1 .. Len(t)
         /\ \A i \in 1 .. Len(s \o t) : i > Len(s) => (s \o t)[i] = t[i - Len(s)]
  BY ConcatProperties, LenProperties

LEMMA Popped ==
  ASSUME NEW S, NEW q \in Seq(S), q # <<>>
  PROVE  /\ Head(q) = q[1] /\ q[1] \in S /\ Len(q) \in Nat \ {0}
         /\ Tail(q) \in Seq(S) /\ Len(Tail(q)) = Len(q) - 1
         /\ \A i \in 1 .. Len(q) - 1 : Tail(q)[i] = q[i + 1]
  BY HeadTailProperties, LenProperties, EmptySeq

LEMMA JoinedBytes ==
  ASSUME NEW s \in Seq(Nat), NEW t \in Seq(Nat)
  PROVE  /\ s \o t \in Seq(Nat) /\ Len(s \o t) = Len(s) + Len(t)
         /\ Len(s) \in Nat /\ Len(t) \in Nat
         /\ \A i \in 1 .. Len(s) : (s \o t)[i] = s[i]
         /\ \A i \in 1 .. Len(t) : (s \o t)[Len(s) + i] = t[i]
  BY Joined

LEMMA RunJoined ==
  ASSUME NEW s \in Seq(Nat), NEW t \in Seq(Nat), NEW n \in Nat, Run(s, n), Run(t, n + Len(s))
  PROVE  Run(s \o t, n)
  BY Joined DEF Run

LEMMA LastType ==
  ASSUME NEW up \in Seq(Nat), NEW k \in 0 .. Len(up)
  PROVE  Last(up, k) \in Nat
  BY LenProperties, ElementOfSeq DEF Last

LEMMA JoinedMessages ==
  ASSUME NEW q \in Seq(Messages), NEW r \in Seq(Messages)
  PROVE  /\ q \o r \in Seq(Messages) /\ Len(q \o r) = Len(q) + Len(r)
         /\ Len(q) \in Nat /\ Len(r) \in Nat
         /\ \A i \in 1 .. Len(q) : (q \o r)[i] = q[i] /\ i \in 1 .. Len(q \o r)
         /\ \A i \in 1 .. Len(r) : (q \o r)[Len(q) + i] = r[i] /\ Len(q) + i \in 1 .. Len(q \o r)
         /\ \A i \in 1 .. Len(q \o r) :
               \/ i \in 1 .. Len(q)
               \/ i - Len(q) \in 1 .. Len(r) /\ (q \o r)[i] = r[i - Len(q)]
  <1>1. /\ q \o r \in Seq(Messages) /\ Len(q \o r) = Len(q) + Len(r)
        /\ Len(q) \in Nat /\ Len(r) \in Nat
        /\ \A i \in 1 .. Len(q) + Len(r) : (q \o r)[i] = IF i <= Len(q) THEN q[i] ELSE r[i - Len(q)]
    BY ConcatProperties, LenProperties
  <1> QED BY <1>1

(* What is said of the stanzas of a queue is said of those of its parts.      *)
LEMMA HasJoined ==
  ASSUME NEW q \in Seq(Messages), NEW r \in Seq(Messages), NEW m
  PROVE  /\ Has(q \o r, m) <=> Has(q, m) \/ Has(r, m)
         /\ Answered(q \o r, m) <=> Answered(q, m) \/ Answered(r, m)
         /\ Any(q \o r, m) <=> Any(q, m) \/ Any(r, m)
  <1>1. Has(q \o r, m) <=> Has(q, m) \/ Has(r, m)
    BY JoinedMessages, SMTT(40) DEF Has
  <1>2. Answered(q \o r, m) <=> Answered(q, m) \/ Answered(r, m)
    BY JoinedMessages DEF Answered
  <1>3. Any(q \o r, m) <=> Any(q, m) \/ Any(r, m)
    <2>1. ASSUME Any(q \o r, m) PROVE Any(q, m) \/ Any(r, m)
      <3>1. PICK i \in 1 .. Len(q \o r) : (q \o r)[i].type \in m
        BY <2>1 DEF Any
      <3>2. CASE i \in 1 .. Len(q)
        BY <3>1, <3>2, JoinedMessages DEF Any
      <3>3. CASE i - Len(q) \in 1 .. Len(r) /\ (q \o r)[i] = r[i - Len(q)]
        BY <3>1, <3>3 DEF Any
      <3> QED BY <3>2, <3>3, JoinedMessages
    <2>2. ASSUME Any(q, m) PROVE Any(q \o r, m)
      BY <2>2, JoinedMessages DEF Any
    <2>3. ASSUME Any(r, m) PROVE Any(q \o r, m)
      <3>1. PICK i \in 1 .. Len(r) : r[i].type \in m
        BY <2>3 DEF Any
      <3>2. (q \o r)[Len(q) + i] = r[i] /\ Len(q) + i \in 1 .. Len(q \o r)
        BY JoinedMessages
      <3> QED BY <3>1, <3>2 DEF Any
    <2> QED BY <2>1, <2>2, <2>3
  <1> QED BY <1>1, <1>2, <1>3

LEMMA HasPopped ==
  ASSUME NEW q \in Seq(Messages), q # <<>>, NEW m
  PROVE  /\ Has(q, m) <=> (q[1].type = "data" /\ q[1].id = m) \/ Has(Tail(q), m)
         /\ Answered(q, m) <=> (q[1].type \in {"acked", "refused"} /\ q[1].id = m) \/ Answered(Tail(q), m)
         /\ Any(q, m) <=> q[1].type \in m \/ Any(Tail(q), m)
  <1>1. /\ Len(q) \in Nat /\ 1 \in 1 .. Len(q) /\ Len(Tail(q)) = Len(q) - 1
        /\ \A i \in 1 .. Len(Tail(q)) : Tail(q)[i] = q[i + 1] /\ i + 1 \in 1 .. Len(q)
    BY Popped
  <1>a. ASSUME NEW i \in 1 .. Len(q), i # 1
        PROVE  i - 1 \in 1 .. Len(Tail(q)) /\ q[i] = Tail(q)[i - 1]
    <2>1. i - 1 \in 1 .. Len(Tail(q))
      BY <1>1, <1>a
    <2>2. Tail(q)[i - 1] = q[(i - 1) + 1]
      BY <1>1, <2>1
    <2> QED BY <2>1, <2>2
  <1>2. Has(q, m) <=> (q[1].type = "data" /\ q[1].id = m) \/ Has(Tail(q), m)
    BY <1>1, <1>a DEF Has
  <1>3. Answered(q, m) <=> (q[1].type \in {"acked", "refused"} /\ q[1].id = m) \/ Answered(Tail(q), m)
    BY <1>1, <1>a, ZenonT(40) DEF Answered
  <1>4. Any(q, m) <=> q[1].type \in m \/ Any(Tail(q), m)
    BY <1>1, <1>a DEF Any
  <1> QED BY <1>2, <1>3, <1>4

(* At most one stanza of a type.                                              *)
LEMMA OnceJoined ==
  ASSUME NEW q \in Seq(Messages), NEW r \in Seq(Messages), NEW T
  PROVE  /\ Once(q, T) /\ ~Any(r, T) => Once(q \o r, T)
         /\ ~Any(q, T) /\ Once(r, T) => Once(q \o r, T)
  <1>1. ASSUME Once(q, T), ~Any(r, T) PROVE Once(q \o r, T)
    <2> SUFFICES ASSUME NEW i \in 1 .. Len(q \o r), NEW j \in 1 .. Len(q \o r),
                        (q \o r)[i].type \in T, (q \o r)[j].type \in T
                 PROVE  i = j
      BY DEF Once
    <2>1. i \in 1 .. Len(q) /\ j \in 1 .. Len(q)
      BY <1>1, JoinedMessages DEF Any
    <2> QED BY <1>1, <2>1, JoinedMessages DEF Once
  <1>2. ASSUME ~Any(q, T), Once(r, T) PROVE Once(q \o r, T)
    <2> SUFFICES ASSUME NEW i \in 1 .. Len(q \o r), NEW j \in 1 .. Len(q \o r),
                        (q \o r)[i].type \in T, (q \o r)[j].type \in T
                 PROVE  i = j
      BY DEF Once
    <2>1. /\ i - Len(q) \in 1 .. Len(r) /\ (q \o r)[i] = r[i - Len(q)]
          /\ j - Len(q) \in 1 .. Len(r) /\ (q \o r)[j] = r[j - Len(q)]
      BY <1>2, JoinedMessages DEF Any
    <2>2. i - Len(q) = j - Len(q)
      BY <1>2, <2>1 DEF Once
    <2> QED BY <2>2, JoinedMessages
  <1> QED BY <1>1, <1>2

LEMMA OncePopped ==
  ASSUME NEW q \in Seq(Messages), q # <<>>, NEW T, Once(q, T)
  PROVE  Once(Tail(q), T) /\ (q[1].type \in T => ~Any(Tail(q), T))
  <1>1. /\ Len(q) \in Nat /\ 1 \in 1 .. Len(q) /\ Len(Tail(q)) = Len(q) - 1
        /\ \A i \in 1 .. Len(Tail(q)) : Tail(q)[i] = q[i + 1] /\ i + 1 \in 1 .. Len(q)
    BY Popped
  <1>2. Once(Tail(q), T)
    <2> SUFFICES ASSUME NEW i \in 1 .. Len(Tail(q)), NEW j \in 1 .. Len(Tail(q)),
                        Tail(q)[i].type \in T, Tail(q)[j].type \in T
                 PROVE  i = j
      BY DEF Once
    <2>1. i + 1 = j + 1
      BY <1>1 DEF Once
    <2> QED BY <2>1
  <1>3. ASSUME q[1].type \in T, Any(Tail(q), T) PROVE FALSE
    <2>1. PICK i \in 1 .. Len(Tail(q)) : Tail(q)[i].type \in T
      BY <1>3 DEF Any
    <2>2. i + 1 = 1
      BY <1>1, <1>3, <2>1 DEF Once
    <2> QED BY <2>2
  <1> QED BY <1>2, <1>3

(* Data behind an "opened".                                                   *)
LEMMA FollowsJoined ==
  ASSUME NEW q \in Seq(Messages), NEW r \in Seq(Messages), DataFollows(q),
         Any(q, {"opened"}) \/ ~Any(r, {"data"})
  PROVE  DataFollows(q \o r)
  <1> SUFFICES ASSUME NEW i \in 1 .. Len(q \o r), (q \o r)[i].type = "data"
               PROVE  \E j \in 1 .. i - 1 : (q \o r)[j].type = "opened"
    BY DEF DataFollows
  <1>1. CASE i \in 1 .. Len(q)
    <2>1. PICK j \in 1 .. i - 1 : q[j].type = "opened"
      BY <1>1, JoinedMessages DEF DataFollows
    <2>2. j \in 1 .. Len(q)
      BY <1>1, JoinedMessages
    <2> QED BY <2>1, <2>2, JoinedMessages
  <1>2. CASE i - Len(q) \in 1 .. Len(r) /\ (q \o r)[i] = r[i - Len(q)]
    <2>1. Any(q, {"opened"})
      BY <1>2 DEF Any
    <2>2. PICK j \in 1 .. Len(q) : q[j].type = "opened"
      BY <2>1 DEF Any
    <2>3. j \in 1 .. i - 1
      BY <1>2, JoinedMessages
    <2> QED BY <2>2, <2>3, JoinedMessages
  <1> QED BY <1>1, <1>2, JoinedMessages

LEMMA FollowsPopped ==
  ASSUME NEW q \in Seq(Messages), q # <<>>, DataFollows(q)
  PROVE  /\ q[1].type # "data"
         /\ q[1].type # "opened" => DataFollows(Tail(q))
  <1>1. /\ Len(q) \in Nat /\ 1 \in 1 .. Len(q) /\ Len(Tail(q)) = Len(q) - 1
        /\ \A i \in 1 .. Len(Tail(q)) : Tail(q)[i] = q[i + 1] /\ i + 1 \in 1 .. Len(q)
    BY Popped
  <1>2. q[1].type # "data"
    BY <1>1 DEF DataFollows
  <1>3. ASSUME q[1].type # "opened", NEW i \in 1 .. Len(Tail(q)), Tail(q)[i].type = "data"
        PROVE  \E j \in 1 .. i - 1 : Tail(q)[j].type = "opened"
    <2>1. PICK j \in 1 .. i : q[j].type = "opened"
      BY <1>1, <1>3 DEF DataFollows
    <2>2. j # 1 /\ j - 1 \in 1 .. i - 1 /\ j - 1 \in 1 .. Len(Tail(q))
      BY <1>1, <1>3, <2>1
    <2>3. Tail(q)[j - 1] = q[j]
      BY <1>1, <2>2
    <2> QED BY <2>1, <2>2, <2>3
  <1> QED BY <1>2, <1>3 DEF DataFollows

-----------------------------------------------------------------------------
(* The data in a queue.                                                       *)

LEMMA LastExtended ==
  ASSUME NEW up \in Seq(Nat), NEW up2 \in Seq(Nat), NEW blocks \in Seq(Messages), Cut(up, blocks, up2)
  PROVE  /\ \A k \in 0 .. Len(up) : Last(up2, k) = Last(up, k)
         /\ Last(up, Len(up)) <= Last(up2, Len(up2))
  <1>1. Len(up) \in Nat /\ Len(blocks) \in Nat /\ Len(up2) = Len(up) + Len(blocks)
    BY LenProperties DEF Cut
  <1>2. ASSUME NEW k \in 0 .. Len(up) PROVE Last(up2, k) = Last(up, k)
    BY <1>1 DEF Cut, Last
  <1>3. Len(up) < Len(up2) => Last(up2, Len(up)) < Last(up2, Len(up2))
    BY <1>1 DEF Cut, Rising
  <1>4. Last(up2, Len(up)) \in Nat /\ Last(up2, Len(up2)) \in Nat
    BY <1>1, LastType
  <1>5. Len(up) = Len(up2) => Last(up2, Len(up)) = Last(up2, Len(up2))
    OBVIOUS
  <1>6. Last(up2, Len(up)) = Last(up, Len(up))
    BY <1>1, <1>2
  <1>7. Last(up, Len(up)) <= Last(up2, Len(up2))
    BY <1>1, <1>3, <1>4, <1>5, <1>6
  <1> QED BY <1>2, <1>7

LEMMA CarriesExtended ==
  ASSUME NEW up \in Seq(Nat), NEW up2 \in Seq(Nat), NEW blocks \in Seq(Messages), Cut(up, blocks, up2),
         NEW m \in Messages, Carries(up, m)
  PROVE  Carries(up2, m)
  <1>1. m.id \in 1 .. Len(up) /\ m.id - 1 \in 0 .. Len(up) /\ m.id \in 0 .. Len(up) /\ m.id \in 1 .. Len(up2)
    BY LenProperties, SMTT(40) DEF Carries, Cut
  <1>2. Last(up2, m.id) = Last(up, m.id) /\ Last(up2, m.id - 1) = Last(up, m.id - 1)
    BY <1>1, LastExtended
  <1> QED BY <1>1, <1>2 DEF Carries

LEMMA CutAny ==
  ASSUME NEW up, NEW up2, NEW blocks \in Seq(Messages), Cut(up, blocks, up2)
  PROVE  /\ \A T : "data" \notin T => ~Any(blocks, T)
         /\ \A id : ~Answered(blocks, id)
         /\ Any(blocks, {"data"}) => blocks # <<>>
  BY EmptySeq DEF Any, Answered, Cut

LEMMA CutHas ==
  ASSUME NEW up \in Seq(Nat), NEW up2, NEW q \in Seq(Messages), NEW blocks \in Seq(Messages),
         NEW after \in Seq(Messages), Cut(up, blocks, up2), ~Any(after, {"data"}), NEW m \in Nat
  PROVE  Has(q \o (blocks \o after), m) <=> Has(q, m) \/ m \in Len(up) + 1 .. Len(up) + Len(blocks)
  <1>1. blocks \o after \in Seq(Messages) /\ Len(up) \in Nat /\ Len(blocks) \in Nat
    BY JoinedMessages, LenProperties
  <1>2. ~Has(after, m)
    BY DEF Has, Any
  <1>3. Has(blocks, m) <=> m \in Len(up) + 1 .. Len(up) + Len(blocks)
    <2>1. ASSUME Has(blocks, m) PROVE m \in Len(up) + 1 .. Len(up) + Len(blocks)
      BY <1>1, <2>1 DEF Has, Cut
    <2>2. ASSUME m \in Len(up) + 1 .. Len(up) + Len(blocks) PROVE Has(blocks, m)
      <3>1. m - Len(up) \in 1 .. Len(blocks)
        BY <2>2, <1>1
      <3>2. blocks[m - Len(up)].type = "data" /\ blocks[m - Len(up)].id = Len(up) + (m - Len(up))
        BY <3>1 DEF Cut
      <3> QED BY <3>1, <3>2, <1>1 DEF Has
    <2> QED BY <2>1, <2>2
  <1>4. Has(blocks \o after, m) <=> Has(blocks, m) \/ Has(after, m)
    BY HasJoined
  <1>5. Has(q \o (blocks \o after), m) <=> Has(q, m) \/ Has(blocks \o after, m)
    BY <1>1, HasJoined
  <1> QED BY <1>2, <1>3, <1>4, <1>5

LEMMA CutOrder ==
  ASSUME NEW up \in Seq(Nat), NEW up2 \in Seq(Nat), NEW q \in Seq(Messages), NEW blocks \in Seq(Messages),
         NEW after \in Seq(Messages), Cut(up, blocks, up2), ~Any(after, {"data"}), InOrder(up, q)
  PROVE  InOrder(up2, q \o (blocks \o after))
  <1> DEFINE ms == blocks \o after
             all == q \o ms
  <1>1. /\ ms \in Seq(Messages) /\ Len(up) \in Nat /\ Len(blocks) \in Nat /\ Len(q) \in Nat
    BY JoinedMessages, LenProperties
  <1>2. ASSUME NEW i \in 1 .. Len(ms), ms[i].type = "data"
        PROVE  i \in 1 .. Len(blocks) /\ ms[i].id = Len(up) + i /\ Carries(up2, ms[i])
    <2>1. i \in 1 .. Len(blocks) /\ ms[i] = blocks[i]
      BY <1>2, JoinedMessages DEF Any
    <2> QED BY <2>1 DEF Cut
  <1> HIDE DEF ms
  <1>3. ASSUME NEW i \in 1 .. Len(q), q[i].type = "data"
        PROVE  Carries(up2, q[i]) /\ q[i].id \in 1 .. Len(up)
    <2>1. Carries(up, q[i]) /\ q[i] \in Messages
      BY <1>3, ElementOfSeq DEF InOrder
    <2> QED BY <2>1, CarriesExtended DEF Carries
  <1>4. ASSUME NEW i \in 1 .. Len(all) PROVE
          \/ i \in 1 .. Len(q) /\ all[i] = q[i]
          \/ i > Len(q) /\ i - Len(q) \in 1 .. Len(ms) /\ all[i] = ms[i - Len(q)]
    BY <1>1, JoinedMessages
  <1> HIDE DEF all
  <1>5. ASSUME NEW i \in 1 .. Len(all), all[i].type = "data" PROVE Carries(up2, all[i])
    BY <1>2, <1>3, <1>4, <1>5
  <1>6. ASSUME NEW i \in 1 .. Len(all), NEW j \in 1 .. Len(all), i < j, all[i].type = "data", all[j].type = "data"
        PROVE  all[i].id < all[j].id
    <2>1. CASE j \in 1 .. Len(q) /\ all[j] = q[j]
      <3>1. i \in 1 .. Len(q) /\ all[i] = q[i]
        BY <1>1, <1>4, <1>6, <2>1
      <3> QED BY <1>6, <2>1, <3>1 DEF InOrder
    <2>2. CASE j > Len(q) /\ j - Len(q) \in 1 .. Len(ms) /\ all[j] = ms[j - Len(q)]
      <3>1. all[j].id = Len(up) + (j - Len(q))
        BY <1>2, <1>6, <2>2
      <3>2. CASE i \in 1 .. Len(q) /\ all[i] = q[i]
        <4>1. all[i].id \in 1 .. Len(up)
          BY <1>3, <1>6, <3>2
        <4> QED BY <4>1, <3>1, <2>2, <1>1, SMTT(40)
      <3>3. CASE i > Len(q) /\ i - Len(q) \in 1 .. Len(ms) /\ all[i] = ms[i - Len(q)]
        <4>1. all[i].id = Len(up) + (i - Len(q))
          BY <1>2, <1>6, <3>3
        <4> QED BY <4>1, <3>1, <1>1, <1>6
      <3> QED BY <1>4, <3>2, <3>3
    <2> QED BY <1>4, <2>1, <2>2
  <1>7. InOrder(up2, all)
    BY <1>5, <1>6 DEF InOrder
  <1> QED BY <1>7 DEF all, ms

LEMMA CutContinues ==
  ASSUME NEW up \in Seq(Nat), NEW up2 \in Seq(Nat), NEW q \in Seq(Messages), NEW blocks \in Seq(Messages),
         NEW after \in Seq(Messages), Cut(up, blocks, up2), ~Any(after, {"data"}), NEW held,
         InOrder(up, q), Continues(up, q, held)
  PROVE  Continues(up2, q \o (blocks \o after), held)
  <1> DEFINE all == q \o (blocks \o after)
  <1>1. PICK n \in 0 .. Len(up) : held = Last(up, n) /\ \A m \in 1 .. Len(up) : Has(q, m) <=> m > n
    BY DEF Continues
  <1>2. Len(up) \in Nat /\ Len(blocks) \in Nat /\ Len(up2) = Len(up) + Len(blocks)
    BY LenProperties DEF Cut
  <1>3. held = Last(up2, n) /\ n \in 0 .. Len(up2)
    BY <1>1, <1>2, LastExtended
  <1>4. ASSUME NEW m \in 1 .. Len(up2) PROVE Has(all, m) <=> m > n
    <2>1. Has(all, m) <=> Has(q, m) \/ m \in Len(up) + 1 .. Len(up) + Len(blocks)
      BY <1>2, CutHas
    <2>2. CASE m \in 1 .. Len(up)
      BY <2>1, <2>2, <1>1, <1>2
    <2>3. CASE m > Len(up)
      BY <2>1, <2>3, <1>1, <1>2
    <2> QED BY <2>2, <2>3, <1>2
  <1> QED BY <1>3, <1>4 DEF Continues

LEMMA NothingCut ==
  ASSUME NEW up \in Seq(Nat), Rising(up)
  PROVE  Cut(up, <<>>, up) /\ <<>> \in Seq(Messages)
  BY LenProperties, EmptySeq DEF Cut

LEMMA PopOrder ==
  ASSUME NEW up \in Seq(Nat), NEW q \in Seq(Messages), q # <<>>, InOrder(up, q)
  PROVE  InOrder(up, Tail(q))
  <1>1. /\ Len(q) \in Nat /\ Len(Tail(q)) = Len(q) - 1
        /\ \A i \in 1 .. Len(Tail(q)) : Tail(q)[i] = q[i + 1] /\ i + 1 \in 1 .. Len(q)
    BY Popped
  <1>2. ASSUME NEW i \in 1 .. Len(Tail(q)), Tail(q)[i].type = "data" PROVE Carries(up, Tail(q)[i])
    BY <1>1, <1>2 DEF InOrder
  <1>3. ASSUME NEW i \in 1 .. Len(Tail(q)), NEW j \in 1 .. Len(Tail(q)), i < j,
               Tail(q)[i].type = "data", Tail(q)[j].type = "data"
        PROVE  Tail(q)[i].id < Tail(q)[j].id
    <2>1. i + 1 < j + 1
      BY <1>3
    <2> QED BY <1>1, <1>3, <2>1 DEF InOrder
  <1> QED BY <1>2, <1>3 DEF InOrder

LEMMA PopPlain ==
  ASSUME NEW up \in Seq(Nat), NEW q \in Seq(Messages), q # <<>>, q[1].type # "data", NEW held,
         Continues(up, q, held)
  PROVE  Continues(up, Tail(q), held)
  <1>1. PICK n \in 0 .. Len(up) : held = Last(up, n) /\ \A m \in 1 .. Len(up) : Has(q, m) <=> m > n
    BY DEF Continues
  <1>2. \A m \in 1 .. Len(up) : Has(q, m) <=> Has(Tail(q), m)
    BY HasPopped
  <1> QED BY <1>1, <1>2 DEF Continues

(* The head of the queue carries the bytes that follow those held.            *)
LEMMA PopData ==
  ASSUME NEW up \in Seq(Nat), Rising(up), NEW q \in Seq(Messages), q # <<>>, q[1].type = "data",
         NEW held \in Nat, InOrder(up, q), Continues(up, q, held)
  PROVE  /\ q[1].id \in 1 .. Len(up) /\ Run(q[1].body, held)
         /\ held + Len(q[1].body) = up[q[1].id]
         /\ held + Len(q[1].body) <= Last(up, Len(up))
         /\ Continues(up, Tail(q), held + Len(q[1].body))
  <1>1. PICK n \in 0 .. Len(up) : held = Last(up, n) /\ \A m \in 1 .. Len(up) : Has(q, m) <=> m > n
    BY DEF Continues
  <1>2. /\ Len(q) \in Nat /\ 1 \in 1 .. Len(q) /\ Len(Tail(q)) = Len(q) - 1 /\ Len(up) \in Nat
        /\ \A i \in 1 .. Len(Tail(q)) : Tail(q)[i] = q[i + 1] /\ i + 1 \in 1 .. Len(q) /\ 1 < i + 1
    BY Popped, LenProperties
  <1>3. Carries(up, q[1]) /\ q[1].id \in 1 .. Len(up)
    BY <1>2 DEF InOrder, Carries
  <1>4. ASSUME NEW m \in 1 .. Len(up), Has(Tail(q), m) PROVE q[1].id < m
    <2>1. PICK i \in 1 .. Len(Tail(q)) : Tail(q)[i].type = "data" /\ Tail(q)[i].id = m
      BY <1>4 DEF Has
    <2>2. q[i + 1].type = "data" /\ q[i + 1].id = m /\ i + 1 \in 1 .. Len(q) /\ 1 < i + 1
      BY <1>2, <2>1
    <2> QED BY <2>2, <1>2 DEF InOrder
  <1>5. ASSUME NEW m \in 1 .. Len(up) PROVE Has(q, m) <=> q[1].id = m \/ Has(Tail(q), m)
    BY HasPopped
  <1>6. q[1].id = n + 1
    <2>1. q[1].id > n
      BY <1>1, <1>3, <1>5
    <2>2. n + 1 \in 1 .. Len(up) /\ Has(q, n + 1)
      BY <1>1, <1>2, <1>3, <2>1
    <2> QED BY <1>2, <1>3, <1>4, <1>5, <2>1, <2>2
  <1>7. held + Len(q[1].body) = Last(up, n + 1) /\ Run(q[1].body, held) /\ Last(up, n + 1) = up[n + 1]
    BY <1>1, <1>2, <1>3, <1>6 DEF Carries, Last
  <1>8. ASSUME NEW m \in 1 .. Len(up) PROVE Has(Tail(q), m) <=> m > n + 1
    <2>1. Has(Tail(q), m) => m > n + 1
      BY <1>2, <1>4, <1>6
    <2>2. m > n + 1 => Has(q, m) /\ q[1].id # m
      BY <1>1, <1>2, <1>6
    <2> QED BY <2>1, <2>2, <1>5
  <1>9. n + 1 \in 0 .. Len(up)
    BY <1>1, <1>2, <1>3, <1>6
  <1>10. Continues(up, Tail(q), held + Len(q[1].body))
    BY <1>7, <1>8, <1>9 DEF Continues
  <1>11. Last(up, n + 1) <= Last(up, Len(up))
    <2>1. Last(up, n + 1) \in Nat /\ Last(up, Len(up)) \in Nat
      BY <1>2, <1>9, LastType
    <2>2. n + 1 < Len(up) => Last(up, n + 1) < Last(up, Len(up))
      BY <1>2, <1>9 DEF Rising
    <2> QED BY <2>1, <2>2, <1>2, <1>9
  <1> QED BY <1>3, <1>6, <1>7, <1>10, <1>11

-----------------------------------------------------------------------------
(* Cutting data into blocks: send_data.                                       *)

LEMMA Products ==
  ASSUME NEW B \in Nat \ {0}, NEW i \in Nat
  PROVE  i * B \in Nat /\ 0 * B = 0 /\ (i > 0 => i * B = (i - 1) * B + B /\ (i - 1) * B \in Nat)
  BY SMT

LEMMA ProductsRise ==
  ASSUME NEW B \in Nat \ {0}, NEW i \in Nat, NEW j \in Nat, i <= j
  PROVE  i * B <= j * B
  BY SMT

LEMMA Quotients ==
  ASSUME NEW B \in Nat \ {0}, NEW L \in Nat, NEW i \in Nat
  PROVE  /\ (L + B - 1) \div B \in Nat
         /\ i <= (L + B - 1) \div B => i * B <= L + B - 1
         /\ i >= (L + B - 1) \div B => i * B >= L
  BY SMT

(* The last byte of the first i blocks of L bytes.                            *)
End(i, L) == Min2(i * BlockSize, L)

LEMMA Ends ==
  ASSUME NEW L \in Nat, NEW n \in Nat, n <= (L + BlockSize - 1) \div BlockSize
  PROVE  /\ End(0, L) = 0
         /\ \A i \in 0 .. n : End(i, L) \in 0 .. L
         /\ \A i \in 1 .. n : (i - 1) * BlockSize \in Nat /\ (i - 1) * BlockSize = End(i - 1, L)
                              /\ End(i - 1, L) < End(i, L)
         /\ \A i, j \in 0 .. n : i < j => End(i, L) < End(j, L)
  <1>0. BlockSize \in Nat \ {0}
    BY IBBAssumption
  <1>1. End(0, L) = 0
    BY <1>0, Products DEF End, Min2
  <1>2. ASSUME NEW i \in 0 .. n PROVE End(i, L) \in 0 .. L
    BY <1>0, Products DEF End, Min2
  <1>3. ASSUME NEW i \in 1 .. n
        PROVE  (i - 1) * BlockSize \in Nat /\ (i - 1) * BlockSize = End(i - 1, L) /\ End(i - 1, L) < End(i, L)
    <2>1. i * BlockSize \in Nat /\ i * BlockSize = (i - 1) * BlockSize + BlockSize /\ (i - 1) * BlockSize \in Nat
      BY <1>0, Products
    <2>2. i \in Nat /\ i <= (L + BlockSize - 1) \div BlockSize
      BY <1>0, Quotients
    <2>3. i * BlockSize <= L + BlockSize - 1
      BY <1>0, <2>2, Quotients
    <2>4. (i - 1) * BlockSize < L
      BY <1>0, <2>1, <2>3
    <2> HIDE DEF End
    <2>5. End(i - 1, L) = (i - 1) * BlockSize
      BY <2>1, <2>4 DEF End, Min2
    <2>6. End(i, L) > (i - 1) * BlockSize
      BY <1>0, <2>1, <2>4 DEF End, Min2
    <2> QED BY <1>2, <2>1, <2>5, <2>6
  <1>4. ASSUME NEW i \in 0 .. n, NEW j \in 0 .. n, i < j PROVE End(i, L) < End(j, L)
    <2>1. (j - 1) * BlockSize = End(j - 1, L) /\ End(j - 1, L) < End(j, L) /\ End(j - 1, L) \in Nat /\ j - 1 \in 0 .. n
      BY <1>2, <1>3, <1>4
    <2>2. i * BlockSize <= (j - 1) * BlockSize /\ i * BlockSize \in Nat
      BY <1>0, <1>4, ProductsRise, Products
    <2>3. End(i, L) <= i * BlockSize
      BY <2>2 DEF End, Min2
    <2>4. End(i, L) \in Nat /\ End(j, L) \in Nat
      BY <1>2
    <2> QED BY <2>1, <2>2, <2>3, <2>4
  <1> QED BY <1>1, <1>2, <1>3, <1>4

LEMMA BlocksLength ==
  ASSUME NEW x \in Sides, NEW bytes \in Seq(Nat), NEW places \in Nat
  PROVE  LET n == Len(Blocks(x, bytes, places))
         IN  /\ n \in Nat /\ n <= places /\ DOMAIN Blocks(x, bytes, places) = 1 .. n
             /\ n <= (Len(bytes) + BlockSize - 1) \div BlockSize
             /\ n * BlockSize < Len(bytes) => n = places
             /\ \A i \in 1 .. n : Blocks(x, bytes, places)[i] = Stanza("data", seq[x] + i,
                   SubSeq(bytes, (i - 1) * BlockSize + 1, End(i, Len(bytes))))
  <1> DEFINE c == (Len(bytes) + BlockSize - 1) \div BlockSize
             n == Min2(places, c)
  <1>1. BlockSize \in Nat \ {0} /\ Len(bytes) \in Nat
    BY IBBAssumption, LenProperties
  <1>2. c \in Nat
    BY <1>1, Quotients
  <1>3. n \in Nat /\ n <= places /\ n <= c /\ (n = places \/ n = c)
    BY <1>2 DEF Min2
  <1>4. n = c => n * BlockSize >= Len(bytes)
    <2> HIDE DEF n
    <2>1. n >= c => n * BlockSize >= Len(bytes)
      BY <1>1, <1>3, Quotients
    <2> QED BY <2>1, <1>2
  <1>5. n * BlockSize \in Nat
    BY <1>1, <1>3, Products
  <1>6. Blocks(x, bytes, places) = [i \in 1 .. n |-> Stanza("data", seq[x] + i,
                   SubSeq(bytes, (i - 1) * BlockSize + 1, End(i, Len(bytes))))]
    BY DEF Blocks, End
  <1> HIDE DEF n, c
  <1>7. Len(Blocks(x, bytes, places)) = n
    BY <1>3, <1>6
  <1>8. DOMAIN Blocks(x, bytes, places) = 1 .. n
    BY <1>6
  <1>9. ~(n * BlockSize < Len(bytes)) \/ n = places
    BY <1>1, <1>3, <1>4, <1>5
  <1> QED BY <1>3, <1>6, <1>7, <1>8, <1>9 DEF c

(* A piece of a run of bytes.                                                 *)
LEMMA Piece ==
  ASSUME NEW bytes \in Seq(Nat), NEW base \in Nat, Run(bytes, base), NEW lo \in Nat, NEW hi \in Nat,
         lo <= hi, hi <= Len(bytes)
  PROVE  /\ SubSeq(bytes, lo + 1, hi) \in Seq(Nat)
         /\ Len(SubSeq(bytes, lo + 1, hi)) = hi - lo
         /\ Run(SubSeq(bytes, lo + 1, hi), base + lo)
         /\ lo < hi => SubSeq(bytes, lo + 1, hi)[hi - lo] = base + hi
  <1>0. Len(bytes) \in Nat /\ lo + 1 \in Int /\ hi \in Int
    BY LenProperties
  <1>1. \A j \in lo + 1 .. hi : bytes[j] \in Nat /\ bytes[j] = base + j
    BY <1>0, ElementOfSeq DEF Run
  <1>2. /\ SubSeq(bytes, lo + 1, hi) \in Seq(Nat)
        /\ Len(SubSeq(bytes, lo + 1, hi)) = IF lo + 1 <= hi THEN hi - (lo + 1) + 1 ELSE 0
        /\ \A i \in 1 .. hi - (lo + 1) + 1 : SubSeq(bytes, lo + 1, hi)[i] = bytes[lo + 1 + i - 1]
    BY <1>0, <1>1, SubSeqProperties
  <1>3. Len(SubSeq(bytes, lo + 1, hi)) = hi - lo
    BY <1>2
  <1>4. ASSUME NEW i \in 1 .. hi - lo PROVE SubSeq(bytes, lo + 1, hi)[i] = base + lo + i
    <2>1. i \in 1 .. hi - (lo + 1) + 1 /\ lo + 1 + i - 1 = lo + i /\ lo + i \in lo + 1 .. hi
      OBVIOUS
    <2>2. SubSeq(bytes, lo + 1, hi)[i] = bytes[lo + i]
      BY <1>2, <2>1
    <2>3. bytes[lo + i] = base + (lo + i)
      BY <1>1, <2>1
    <2> QED BY <2>2, <2>3
  <1>5. Run(SubSeq(bytes, lo + 1, hi), base + lo)
    BY <1>3, <1>4 DEF Run
  <1>6. lo < hi => SubSeq(bytes, lo + 1, hi)[hi - lo] = base + hi
    <2>1. lo < hi => hi - lo \in 1 .. hi - lo /\ base + lo + (hi - lo) = base + hi
      OBVIOUS
    <2> QED BY <1>4, <2>1
  <1> QED BY <1>2, <1>3, <1>5, <1>6

(* Blocks that end at the bytes E[1] < E[2] < ... extend up.                  *)
Pieces(up, base, n, E, blocks, up2) ==
  /\ E[0] = 0 /\ \A i, j \in 0 .. n : i < j => E[i] < E[j]
  /\ Len(blocks) = n /\ Len(up2) = Len(up) + n
  /\ \A k \in 1 .. Len(up) : up2[k] = up[k]
  /\ \A i \in 1 .. n : /\ blocks[i].type = "data" /\ blocks[i].id = Len(up) + i
                       /\ Len(blocks[i].body) = E[i] - E[i - 1]
                       /\ Run(blocks[i].body, base + E[i - 1])
                       /\ up2[Len(up) + i] = base + E[i]

LEMMA PiecesCut ==
  ASSUME NEW up \in Seq(Nat), Rising(up), NEW base \in Nat, base = Last(up, Len(up)),
         NEW n \in Nat, NEW E \in [0 .. n -> Nat], NEW blocks \in Seq(Messages), NEW up2 \in Seq(Nat),
         Pieces(up, base, n, E, blocks, up2)
  PROVE  Cut(up, blocks, up2)
  <1>1. Len(up) \in Nat
    BY LenProperties
  <1>2. \A i \in 0 .. n : E[i] \in Nat
    OBVIOUS
  <1>3. ASSUME NEW k \in 0 .. Len(up) PROVE Last(up2, k) = Last(up, k) /\ Last(up, k) \in Nat
    BY <1>1, LastType DEF Last, Pieces
  <1>4. ASSUME NEW i \in 0 .. n PROVE Last(up2, Len(up) + i) = base + E[i]
    <2>1. CASE i = 0
      <3>1. Len(up) + i = Len(up) /\ Len(up) \in 0 .. Len(up)
        BY <1>1, <2>1
      <3>2. Last(up2, Len(up)) = Last(up, Len(up))
        BY <1>3, <3>1
      <3>3. E[i] = 0
        BY <2>1 DEF Pieces
      <3> QED BY <3>1, <3>2, <3>3
    <2>2. CASE i \in 1 .. n
      <3>1. Len(up) + i # 0
        BY <1>1, <2>2
      <3>2. up2[Len(up) + i] = base + E[i]
        BY <2>2 DEF Pieces
      <3> QED BY <3>1, <3>2 DEF Last
    <2> QED BY <2>1, <2>2
  <1>5. ASSUME NEW i \in 1 .. n PROVE Carries(up2, blocks[i])
    <2>a. blocks[i].id = Len(up) + i /\ Len(up2) = Len(up) + n
      BY DEF Pieces
    <2>b. Len(up) + i - 1 = Len(up) + (i - 1) /\ Len(up) + i \in 1 .. Len(up) + n
      BY <1>1
    <2>1. blocks[i].id = Len(up) + i /\ blocks[i].id - 1 = Len(up) + (i - 1) /\ blocks[i].id \in 1 .. Len(up2)
      BY <2>a, <2>b
    <2>2. i \in 0 .. n /\ i - 1 \in 0 .. n
      OBVIOUS
    <2>3. Last(up2, blocks[i].id) = base + E[i] /\ Last(up2, blocks[i].id - 1) = base + E[i - 1]
      BY <1>4, <2>1, <2>2
    <2>4. Len(blocks[i].body) = E[i] - E[i - 1] /\ Run(blocks[i].body, base + E[i - 1])
      BY DEF Pieces
    <2> QED BY <1>2, <2>1, <2>2, <2>3, <2>4 DEF Carries
  <1>6. Rising(up2)
    <2> SUFFICES ASSUME NEW k \in 0 .. Len(up2), NEW l \in 0 .. Len(up2), k < l
                 PROVE  Last(up2, k) < Last(up2, l)
      BY DEF Rising
    <2>0. k \in Nat /\ l \in Nat /\ l <= Len(up) + n
      BY <1>1 DEF Pieces
    <2>1. CASE l <= Len(up)
      <3>1. k \in 0 .. Len(up) /\ l \in 0 .. Len(up)
        BY <1>1, <2>0, <2>1
      <3>2. Last(up, k) < Last(up, l)
        BY <3>1 DEF Rising
      <3> QED BY <1>3, <3>1, <3>2
    <2>2. CASE k >= Len(up)
      <3> DEFINE i == k - Len(up)
                 j == l - Len(up)
      <3>1. i \in 0 .. n /\ j \in 0 .. n /\ i < j /\ k = Len(up) + i /\ l = Len(up) + j
        BY <1>1, <2>0, <2>2
      <3> HIDE DEF i, j
      <3>2. E[i] < E[j] /\ E[i] \in Nat /\ E[j] \in Nat
        BY <3>1 DEF Pieces
      <3>3. Last(up2, k) = base + E[i] /\ Last(up2, l) = base + E[j]
        BY <1>4, <3>1
      <3> QED BY <3>2, <3>3
    <2>3. CASE k < Len(up) /\ l > Len(up)
      <3> DEFINE j == l - Len(up)
      <3>1. j \in 0 .. n /\ 0 < j /\ l = Len(up) + j
        BY <1>1, <2>0, <2>3
      <3>a. 0 \in 0 .. n /\ k \in 0 .. Len(up) /\ Len(up) \in 0 .. Len(up)
        BY <1>1, <2>0, <2>3
      <3> HIDE DEF j
      <3>2. E[j] \in Nat /\ E[0] < E[j]
        BY <3>1, <3>a DEF Pieces
      <3>3. Last(up2, l) = base + E[j]
        BY <1>4, <3>1
      <3>4. Last(up, k) < Last(up, Len(up)) /\ Last(up2, k) = Last(up, k) /\ Last(up, k) \in Nat
        BY <1>3, <2>3, <3>a DEF Rising
      <3>5. E[0] = 0
        BY DEF Pieces
      <3> QED BY <3>2, <3>3, <3>4, <3>5
    <2>4. l <= Len(up) \/ k >= Len(up) \/ (k < Len(up) /\ l > Len(up))
      BY <1>1, <2>0
    <2> QED BY <2>1, <2>2, <2>3, <2>4
  <1> QED BY <1>5, <1>6 DEF Cut, Pieces

(* A data stanza with the bytes from lo + 1 to hi of those that follow base.  *)
PieceAt(m, id, base, lo, hi) ==
  /\ m.type = "data" /\ m.id = id
  /\ Len(m.body) = hi - lo
  /\ Run(m.body, base + lo)
  /\ m.body[Len(m.body)] = base + hi

LEMMA BlocksPieces ==
  ASSUME NEW x \in Sides, seq[x] \in Nat,
         NEW bytes \in Seq(Nat), NEW base \in Nat, Run(bytes, base), NEW places \in Nat
  PROVE  LET blocks == Blocks(x, bytes, places)
         IN  /\ blocks \in Seq(Messages)
             /\ \A i \in 1 .. Len(blocks) :
                   PieceAt(blocks[i], seq[x] + i, base, End(i - 1, Len(bytes)), End(i, Len(bytes)))
  <1> DEFINE blocks == Blocks(x, bytes, places)
             n == Len(blocks)
             L == Len(bytes)
  <1>1. L \in Nat
    BY LenProperties
  <1>2. n \in Nat /\ n <= (L + BlockSize - 1) \div BlockSize /\ DOMAIN blocks = 1 .. n
    BY BlocksLength
  <1>3. \A i \in 1 .. n : blocks[i] = Stanza("data", seq[x] + i, SubSeq(bytes, (i - 1) * BlockSize + 1, End(i, L)))
    BY BlocksLength
  <1>4. blocks = [i \in 1 .. n |-> blocks[i]]
    <2>1. blocks = [i \in DOMAIN blocks |-> blocks[i]]
      BY DEF Blocks
    <2> QED BY <2>1, <1>2
  <1> HIDE DEF blocks, n, L
  <1>5. /\ \A i \in 0 .. n : End(i, L) \in 0 .. L
        /\ \A i \in 1 .. n : (i - 1) * BlockSize = End(i - 1, L) /\ End(i - 1, L) < End(i, L)
    BY <1>1, <1>2, Ends
  <1>6. n \in Nat
    BY <1>2
  <1>7. ASSUME NEW i \in 1 .. n
        PROVE  blocks[i] \in Messages /\ PieceAt(blocks[i], seq[x] + i, base, End(i - 1, L), End(i, L))
    <2> DEFINE lo == End(i - 1, L)
               hi == End(i, L)
               body == SubSeq(bytes, lo + 1, hi)
    <2>1. blocks[i] = Stanza("data", seq[x] + i, body)
      BY <1>3, <1>5
    <2>2. i \in 0 .. n /\ i - 1 \in 0 .. n
      BY <1>6
    <2>3. lo \in 0 .. L /\ hi \in 0 .. L /\ lo < hi
      BY <1>5, <2>2
    <2> HIDE DEF lo, hi
    <2>4. lo \in Nat /\ hi \in Nat /\ lo <= hi /\ hi <= Len(bytes)
      BY <1>1, <2>3 DEF L
    <2>5. body \in Seq(Nat) /\ Len(body) = hi - lo /\ Run(body, base + lo) /\ (lo < hi => body[hi - lo] = base + hi)
      BY <2>4, Piece
    <2> HIDE DEF body
    <2>6. blocks[i].type = "data" /\ blocks[i].id = seq[x] + i /\ blocks[i].body = body
      BY <2>1 DEF Stanza
    <2>7. blocks[i] \in Messages
      <3>1. seq[x] + i \in Nat
        BY <1>6
      <3> QED BY <2>1, <2>5, <3>1 DEF Stanza, Messages, MessageTypes
    <2>8. PieceAt(blocks[i], seq[x] + i, base, lo, hi)
      BY <2>3, <2>5, <2>6 DEF PieceAt
    <2> QED BY <2>7, <2>8 DEF lo, hi
  <1>8. blocks \in Seq(Messages)
    <2>1. blocks \in [1 .. n -> Messages]
      BY <1>4, <1>7
    <2> QED BY <2>1, <1>6
  <1> QED BY <1>7, <1>8 DEF blocks, n, L

LEMMA RestPiece ==
  ASSUME NEW bytes \in Seq(Nat), NEW base \in Nat, Run(bytes, base), NEW n \in Nat
  PROVE  /\ Rest(bytes, n) \in Seq(Nat)
         /\ End(n, Len(bytes)) \in Nat
         /\ base + End(n, Len(bytes)) + Len(Rest(bytes, n)) = base + Len(bytes)
         /\ Run(Rest(bytes, n), base + End(n, Len(bytes)))
         /\ Rest(bytes, n) # <<>> => n * BlockSize < Len(bytes)
  <1> DEFINE L == Len(bytes)
             p == n * BlockSize
  <1>1. L \in Nat /\ p \in Nat
    BY IBBAssumption, LenProperties, Products
  <1>2. Rest(bytes, n) = SubSeq(bytes, p + 1, L) /\ End(n, L) = Min2(p, L)
    BY DEF Rest, End
  <1> HIDE DEF p
  <1>3. CASE p < L
    <2>1. End(n, L) = p
      BY <1>1, <1>2, <1>3 DEF Min2
    <2>2. /\ SubSeq(bytes, p + 1, L) \in Seq(Nat) /\ Len(SubSeq(bytes, p + 1, L)) = L - p
          /\ Run(SubSeq(bytes, p + 1, L), base + p)
      BY <1>1, <1>3, Piece
    <2> HIDE DEF L
    <2>3. base + p + (L - p) = base + L
      BY <1>1
    <2> QED BY <1>1, <1>2, <1>3, <2>1, <2>2, <2>3 DEF L, p
  <1>4. CASE ~(p < L)
    <2>1. End(n, L) = L
      BY <1>1, <1>2, <1>4 DEF Min2
    <2>2. SubSeq(bytes, p + 1, L) = <<>>
      BY <1>1, <1>4, SubSeqEmpty
    <2>3. Rest(bytes, n) = <<>> /\ Len(<<>>) = 0 /\ <<>> \in Seq(Nat)
      BY <1>2, <2>2, EmptySeq
    <2>4. Run(<<>>, base + L)
      BY <2>3 DEF Run
    <2> HIDE DEF L
    <2> QED BY <1>1, <2>1, <2>3, <2>4 DEF L
  <1> QED BY <1>3, <1>4

Lasts(blocks) == [i \in DOMAIN blocks |-> blocks[i].body[Len(blocks[i].body)]]
Ids(blocks) == {blocks[i].id : i \in DOMAIN blocks}

CutFrom(up, bytes, places, blocks, up2, rest) ==
  /\ blocks \in Seq(Messages) /\ up2 \in Seq(Nat) /\ rest \in Seq(Nat)
  /\ Cut(up, blocks, up2)
  /\ Len(blocks) <= places
  /\ Run(rest, Last(up2, Len(up2)))
  /\ Last(up2, Len(up2)) + Len(rest) = Last(up, Len(up)) + Len(bytes)
  /\ rest # <<>> => Len(blocks) = places
  /\ Ids(blocks) = Len(up) + 1 .. Len(up2)

LEMMA BlocksCut ==
  ASSUME NEW x \in Sides, NEW up \in Seq(Nat), Rising(up), Len(up) = seq[x],
         NEW bytes \in Seq(Nat), Run(bytes, Last(up, Len(up))), NEW places \in Nat
  PROVE  LET blocks == Blocks(x, bytes, places)
         IN  CutFrom(up, bytes, places, blocks, up \o Lasts(blocks), Rest(bytes, Len(blocks)))
  <1> DEFINE blocks == Blocks(x, bytes, places)
             lasts == [i \in DOMAIN blocks |-> blocks[i].body[Len(blocks[i].body)]]
             up2 == up \o lasts
             rest == Rest(bytes, Len(blocks))
  <1>a. PICK L \in Nat : L = Len(bytes)
    BY LenProperties
  <1>b. PICK base \in Nat : base = Last(up, Len(up))
    BY LastType, LenProperties
  <1>c. PICK n \in Nat : n = Len(blocks)
    BY BlocksLength
  <1> DEFINE E == [i \in 0 .. n |-> End(i, L)]
  <1>1. L \in Nat /\ Len(up) \in Nat /\ base \in Nat
    BY LenProperties
  <1>2. n \in Nat /\ n <= places /\ DOMAIN blocks = 1 .. n
    BY <1>c, BlocksLength
  <1>3. n <= (L + BlockSize - 1) \div BlockSize /\ (n * BlockSize < L => n = places)
    BY <1>a, <1>c, BlocksLength
  <1>4. /\ blocks \in Seq(Messages)
        /\ \A i \in 1 .. n : PieceAt(blocks[i], Len(up) + i, base, End(i - 1, L), End(i, L))
    <2>1. seq[x] \in Nat /\ Run(bytes, base)
      BY <1>1, <1>b
    <2> HIDE DEF blocks
    <2>2. /\ blocks \in Seq(Messages)
          /\ \A i \in 1 .. n : PieceAt(blocks[i], seq[x] + i, base, End(i - 1, L), End(i, L))
      BY <1>a, <1>c, <2>1, BlocksPieces DEF blocks
    <2> QED BY <2>2
  <1>5. /\ rest \in Seq(Nat) /\ base + End(n, L) + Len(rest) = base + L /\ Run(rest, base + End(n, L))
        /\ rest # <<>> => n * BlockSize < L
    BY <1>1, <1>2, <1>a, <1>b, <1>c, RestPiece
  <1>6. rest # <<>> => n = places
    BY <1>3, <1>5
  <1> HIDE DEF blocks, rest
  <1>7. /\ E \in [0 .. n -> Nat] /\ E[0] = 0 /\ \A i, j \in 0 .. n : i < j => E[i] < E[j]
    <2>1. /\ End(0, L) = 0 /\ \A i \in 0 .. n : End(i, L) \in 0 .. L
          /\ \A i, j \in 0 .. n : i < j => End(i, L) < End(j, L)
      BY <1>1, <1>2, <1>3, Ends
    <2>2. 0 \in 0 .. n /\ 0 .. L \subseteq Nat
      BY <1>1, <1>2
    <2> QED BY <2>1, <2>2
  <1>8. \A i \in 0 .. n : E[i] = End(i, L)
    OBVIOUS
  <1> HIDE DEF E
  <1>9. lasts \in Seq(Nat) /\ Len(lasts) = n /\ \A i \in 1 .. n : lasts[i] = base + E[i]
    <2>1. \A i \in 1 .. n : i \in 0 .. n
      BY <1>2
    <2>2. \A i \in 1 .. n : lasts[i] = base + E[i] /\ base + E[i] \in Nat
      <3> SUFFICES ASSUME NEW i \in 1 .. n PROVE lasts[i] = base + E[i] /\ base + E[i] \in Nat
        OBVIOUS
      <3>1. i \in 0 .. n /\ i \in DOMAIN blocks
        BY <1>2, <2>1
      <3>2. lasts[i] = base + End(i, L)
        BY <1>4, <3>1 DEF PieceAt
      <3>3. E[i] = End(i, L) /\ E[i] \in Nat
        BY <1>7, <1>8, <3>1
      <3> QED BY <1>1, <3>2, <3>3
    <2>3. lasts \in [1 .. n -> Nat]
      BY <1>2, <2>2
    <2> HIDE DEF lasts
    <2> QED BY <1>2, <2>2, <2>3
  <1> HIDE DEF lasts
  <1>10. /\ up2 \in Seq(Nat) /\ Len(up2) = Len(up) + n
         /\ \A k \in 1 .. Len(up) : up2[k] = up[k]
         /\ \A i \in 1 .. n : up2[Len(up) + i] = base + E[i]
    <2>1. /\ up2 \in Seq(Nat) /\ Len(up2) = Len(up) + Len(lasts)
          /\ \A k \in 1 .. Len(up) : up2[k] = up[k]
          /\ \A i \in 1 .. Len(lasts) : up2[Len(up) + i] = lasts[i]
      <3>1. lasts \in Seq(Nat)
        BY <1>9
      <3> QED BY <3>1, JoinedBytes
    <2> QED BY <1>9, <2>1
  <1> HIDE DEF up2
  <1>11. \A i \in 1 .. n : /\ blocks[i].type = "data" /\ blocks[i].id = Len(up) + i
                           /\ Len(blocks[i].body) = E[i] - E[i - 1]
                           /\ Run(blocks[i].body, base + E[i - 1])
                           /\ up2[Len(up) + i] = base + E[i]
    <2>1. \A i \in 1 .. n : i \in 0 .. n /\ i - 1 \in 0 .. n
      BY <1>2
    <2>2. \A i \in 1 .. n : E[i] = End(i, L) /\ E[i - 1] = End(i - 1, L)
      BY <1>8, <2>1
    <2> QED BY <1>4, <1>10, <2>2, ZenonT(40) DEF PieceAt
  <1>12. Cut(up, blocks, up2)
    <2>1. Len(blocks) = n /\ base = Last(up, Len(up))
      BY <1>b, <1>c
    <2>2. Pieces(up, base, n, E, blocks, up2)
      BY <1>7, <1>10, <1>11, <2>1 DEF Pieces
    <2>3. E \in [0 .. n -> Nat] /\ blocks \in Seq(Messages) /\ up2 \in Seq(Nat) /\ base \in Nat /\ n \in Nat
      BY <1>1, <1>2, <1>4, <1>7, <1>10
    <2> QED BY <2>1, <2>2, <2>3, PiecesCut
  <1>13. Last(up2, Len(up2)) = base + End(n, L)
    <2>1. n \in 0 .. n /\ E[n] = End(n, L) /\ Len(up2) = Len(up) + n
      BY <1>2, <1>8, <1>10
    <2>2. CASE n = 0
      <3>1. Len(up2) = Len(up) /\ Len(up) \in 0 .. Len(up)
        BY <1>1, <2>1, <2>2
      <3>2. Last(up2, Len(up)) = Last(up, Len(up))
        BY <1>4, <1>10, <1>12, <3>1, LastExtended
      <3>3. End(n, L) = 0
        BY <1>7, <2>1, <2>2
      <3> QED BY <1>1, <1>b, <3>1, <3>2, <3>3
    <2>3. CASE n \in 1 .. n
      <3>1. up2[Len(up) + n] = base + E[n]
        BY <1>10, <2>3
      <3>2. Len(up2) # 0
        BY <1>1, <2>1, <2>3
      <3> QED BY <2>1, <3>1, <3>2 DEF Last
    <2> QED BY <1>2, <2>2, <2>3
  <1>14. Run(rest, Last(up2, Len(up2))) /\ Last(up2, Len(up2)) + Len(rest) = base + L
    <2>1. base + End(n, L) + Len(rest) = base + L /\ Run(rest, base + End(n, L))
      BY <1>5
    <2> QED BY <1>13, <2>1
  <1>15. {blocks[i].id : i \in DOMAIN blocks} = Len(up) + 1 .. Len(up2)
    <2>1. ASSUME NEW m \in Len(up) + 1 .. Len(up) + n PROVE m - Len(up) \in 1 .. n /\ m = blocks[m - Len(up)].id
      BY <1>1, <1>2, <1>4 DEF PieceAt
    <2>2. ASSUME NEW i \in 1 .. n PROVE blocks[i].id \in Len(up) + 1 .. Len(up) + n
      BY <1>1, <1>2, <1>4 DEF PieceAt
    <2>3. DOMAIN blocks = 1 .. n /\ Len(up2) = Len(up) + n
      BY <1>2, <1>10
    <2> QED BY <2>1, <2>2, <2>3, ZenonT(40)
  <1>16. lasts = Lasts(blocks) /\ {blocks[i].id : i \in DOMAIN blocks} = Ids(blocks)
    BY DEF lasts, Lasts, Ids
  <1>17. CutFrom(up, bytes, places, blocks, up2, rest)
    BY <1>a, <1>b, <1>c, <1>2, <1>4, <1>5, <1>6, <1>10, <1>12, <1>14, <1>15, <1>16 DEF CutFrom
  <1> QED BY <1>16, <1>17 DEF blocks, rest, up2

-----------------------------------------------------------------------------
(* One step of z: it takes the head of its queue if pop holds and sends the   *)
(* data stanzas blocks and then the stanzas after.                            *)

Same(y) ==
  /\ state'[y] = state[y] /\ inFlight'[y] = inFlight[y] /\ writeBuffer'[y] = writeBuffer[y]
  /\ writeBlocked'[y] = writeBlocked[y] /\ readBlocked'[y] = readBlocked[y] /\ readBuffer'[y] = readBuffer[y]
  /\ notAcked'[y] = notAcked[y] /\ closeIq'[y] = closeIq[y]
  /\ sent'[y] = sent[y] /\ seq'[y] = seq[y] /\ received'[y] = received[y] /\ upto'[y] = upto[y]

Moves(z, pop, ms) ==
  /\ pop => to[z] # <<>>
  /\ to'[z] = (IF pop THEN Tail(to[z]) ELSE to[z])
  /\ to'[Peer(z)] = to[Peer(z)] \o ms

(* The head of the queue, if it is taken, has one of the types in T.          *)
Takes(z, pop, T) == pop /\ to[z][1].type \in T

Step(z, pop, blocks, after) ==
  /\ pop \in BOOLEAN /\ blocks \in Seq(Messages) /\ after \in Seq(Messages)
  /\ Same(Peer(z))
  /\ Moves(z, pop, blocks \o after)
  /\ ~Any(after, {"data"})
  /\ Cut(upto[z], blocks, upto'[z]) /\ seq'[z] = seq[z] + Len(blocks)
  /\ Len(received[z]) <= Len(received'[z])
  /\ Truthful(upto[Peer(z)], after, Len(received'[z]))
  /\ \A id \in Nat : (Takes(z, pop, {"data"}) /\ to[z][1].id = id) \/ Kept(z, id)
                        => Kept(z, id)' \/ Answered(after, id)
  /\ state'[z] # "CLOSED" =>
        /\ state[z] # "CLOSED"
        /\ \A id \in inFlight'[z] :
              \/ id \in Len(upto[z]) + 1 .. Len(upto[z]) + Len(blocks)
              \/ id \in inFlight[z] /\ ~(Takes(z, pop, {"acked", "refused"}) /\ to[z][1].id = id)

LEMMA Sided ==
  ASSUME NEW z \in Sides
  PROVE  Peer(z) \in Sides /\ Peer(z) # z /\ Peer(Peer(z)) = z /\ \A x \in Sides : x = z \/ x = Peer(z)
  BY DEF Sides, Peer

LEMMA Posted ==
  ASSUME NEW z \in Sides, to \in [Sides -> Seq(Messages)], NEW pop \in BOOLEAN, NEW ms \in Seq(Messages),
         pop => to[z] # <<>>, Post(z, pop, ms)
  PROVE  Moves(z, pop, ms) /\ to' \in [Sides -> Seq(Messages)]
  <1>1. Peer(z) \in Sides /\ Peer(z) # z /\ \A x \in Sides : x = z \/ x = Peer(z)
    BY Sided
  <1>2. /\ to'[z] = (IF pop THEN Tail(to[z]) ELSE to[z])
        /\ to'[Peer(z)] = to[Peer(z)] \o ms
        /\ to' = [x \in Sides |-> to'[x]]
    BY <1>1 DEF Post
  <1>3. to[z] \in Seq(Messages) /\ to[Peer(z)] \in Seq(Messages)
    BY <1>1
  <1>4. to'[Peer(z)] \in Seq(Messages)
    BY <1>2, <1>3, JoinedMessages
  <1>5. to'[z] \in Seq(Messages)
    BY <1>2, <1>3, Popped
  <1>6. \A x \in Sides : to'[x] \in Seq(Messages)
    BY <1>1, <1>4, <1>5
  <1> QED BY <1>2, <1>6 DEF Moves

LEMMA PeerOwn ==
  ASSUME NEW y \in Sides, Same(y), Own(y)
  PROVE  Own(y)'
  BY DEF Same, Own, Sender, Window, Reader, Unused

(* The data on their way from z.                                              *)
LEMMA PeerInbound ==
  ASSUME NEW z \in Sides, Types, Own(z), Inbound(Peer(z)), upto'[z] \in Seq(Nat),
         NEW pop, NEW blocks, NEW after, Step(z, pop, blocks, after)
  PROVE  Inbound(Peer(z))'
  <1> DEFINE y == Peer(z)
  <1>1. y \in Sides /\ Peer(y) = z
    BY Sided
  <1>2. /\ upto[z] \in Seq(Nat) /\ to[y] \in Seq(Messages) /\ blocks \in Seq(Messages) /\ after \in Seq(Messages)
        /\ Cut(upto[z], blocks, upto'[z]) /\ ~Any(after, {"data"}) /\ Len(upto[z]) = seq[z]
        /\ to'[y] = to[y] \o (blocks \o after) /\ seq'[z] = seq[z] + Len(blocks)
    BY <1>1 DEF Step, Types, Own, Sender, Moves
  <1>3. /\ received'[y] = received[y] /\ readBuffer'[y] = readBuffer[y] /\ state'[y] = state[y]
        /\ notAcked'[y] = notAcked[y]
    BY DEF Step, Same
  <1>4. /\ InOrder(upto[z], to[y])
        /\ Run(received[y], 0) /\ Run(readBuffer[y], Len(received[y]))
        /\ Held(y) <= Last(upto[z], seq[z])
        /\ state[y] \notin Over => Continues(upto[z], to[y], Held(y))
        /\ \A k \in 1 .. Len(notAcked[y]) : notAcked[y][k] \in 1 .. seq[z] /\ upto[z][notAcked[y][k]] <= Held(y)
    BY <1>1 DEF Inbound
  <1>5. InOrder(upto'[z], to'[y])
    BY <1>2, <1>4, CutOrder
  <1>6. state[y] \notin Over => Continues(upto'[z], to'[y], Held(y))
    BY <1>2, <1>4, CutContinues
  <1>7. Held(y)' = Held(y)
    BY <1>3 DEF Held
  <1>8. Len(upto'[z]) = seq'[z] /\ seq[z] \in Nat /\ Len(blocks) \in Nat /\ Held(y) \in Nat
    BY <1>1, <1>2, LenProperties DEF Cut, Types, Held
  <1>9. Held(y) <= Last(upto'[z], seq'[z])
    <2>1. Last(upto[z], Len(upto[z])) <= Last(upto'[z], Len(upto'[z]))
      BY <1>2, LastExtended
    <2>2. Last(upto[z], Len(upto[z])) \in Nat /\ Last(upto'[z], Len(upto'[z])) \in Nat
      BY <1>2, LastType, LenProperties
    <2> QED BY <1>2, <1>4, <1>8, <2>1, <2>2
  <1>10. ASSUME NEW k \in 1 .. Len(notAcked[y])
         PROVE  notAcked[y][k] \in 1 .. seq'[z] /\ upto'[z][notAcked[y][k]] <= Held(y)
    <2>1. notAcked[y][k] \in 1 .. Len(upto[z]) /\ upto[z][notAcked[y][k]] <= Held(y)
      BY <1>2, <1>4
    <2>2. upto'[z][notAcked[y][k]] = upto[z][notAcked[y][k]]
      BY <1>2, <2>1 DEF Cut
    <2>3. notAcked[y][k] \in 1 .. seq'[z]
      BY <1>2, <1>8, <2>1, SMTT(40)
    <2> QED BY <2>1, <2>2, <2>3
  <1> HIDE DEF y
  <1> QED
    <2>1. Inbound(y)'
      BY <1>1, <1>3, <1>4, <1>5, <1>6, <1>7, <1>9, <1>10 DEF Inbound
    <2> QED BY <2>1 DEF y

(* Truthful answers.                                                          *)
LEMMA TruthfulJoined ==
  ASSUME NEW up, NEW len, NEW q \in Seq(Messages), NEW r \in Seq(Messages),
         Truthful(up, q, len), Truthful(up, r, len)
  PROVE  Truthful(up, q \o r, len)
  <1> SUFFICES ASSUME NEW i \in 1 .. Len(q \o r), (q \o r)[i].type \in {"acked", "refused"}
               PROVE  /\ (q \o r)[i].id \in 1 .. Len(up)
                      /\ (q \o r)[i].type = "acked" => up[(q \o r)[i].id] <= len
    BY DEF Truthful
  <1>1. CASE i \in 1 .. Len(q)
    <2>1. (q \o r)[i] = q[i]
      BY <1>1, JoinedMessages
    <2> QED BY <1>1, <2>1 DEF Truthful
  <1>2. CASE i - Len(q) \in 1 .. Len(r) /\ (q \o r)[i] = r[i - Len(q)]
    BY <1>2 DEF Truthful
  <1> QED BY <1>1, <1>2, JoinedMessages

LEMMA TruthfulGrows ==
  ASSUME NEW up \in Seq(Nat), NEW m \in Nat, NEW n \in Nat, m <= n, NEW q, Truthful(up, q, m)
  PROVE  Truthful(up, q, n)
  <1> SUFFICES ASSUME NEW i \in 1 .. Len(q), q[i].type \in {"acked", "refused"}
               PROVE  q[i].id \in 1 .. Len(up) /\ (q[i].type = "acked" => up[q[i].id] <= n)
    BY DEF Truthful
  <1>1. q[i].id \in 1 .. Len(up) /\ (q[i].type = "acked" => up[q[i].id] <= m)
    BY DEF Truthful
  <1>2. up[q[i].id] \in Nat
    BY <1>1, ElementOfSeq
  <1> QED BY <1>1, <1>2

LEMMA TruthfulExtended ==
  ASSUME NEW up \in Seq(Nat), NEW up2 \in Seq(Nat), NEW blocks \in Seq(Messages), Cut(up, blocks, up2),
         NEW len, NEW q, Truthful(up, q, len)
  PROVE  Truthful(up2, q, len)
  <1>1. Len(up) \in Nat /\ Len(blocks) \in Nat /\ Len(up2) = Len(up) + Len(blocks)
    BY LenProperties DEF Cut
  <1>2. \A k \in 1 .. Len(up) : up2[k] = up[k] /\ k \in 1 .. Len(up2)
    BY <1>1 DEF Cut
  <1> QED BY <1>2 DEF Truthful

(* Answers remain true: the acknowledged data were given to the user.         *)
LEMMA StepAnswers ==
  ASSUME NEW z \in Sides, Types, Own(z), Own(Peer(z)), Answers(z), Answers(Peer(z)), upto'[z] \in Seq(Nat),
         received' \in [Sides -> Seq(Nat)],
         NEW pop, NEW blocks, NEW after, Step(z, pop, blocks, after)
  PROVE  Answers(z)' /\ Answers(Peer(z))'
  <1> DEFINE y == Peer(z)
  <1>1. y \in Sides /\ Peer(y) = z /\ y # z
    BY Sided
  <1>2. /\ upto[z] \in Seq(Nat) /\ to[y] \in Seq(Messages) /\ blocks \in Seq(Messages) /\ after \in Seq(Messages)
        /\ to[z] \in Seq(Messages) /\ Cut(upto[z], blocks, upto'[z])
        /\ to'[y] = to[y] \o (blocks \o after) /\ (pop => to[z] # <<>>)
        /\ to'[z] = (IF pop THEN Tail(to[z]) ELSE to[z])
        /\ upto'[y] = upto[y] /\ received'[y] = received[y] /\ Len(received[z]) <= Len(received'[z])
        /\ Truthful(upto[y], after, Len(received'[z]))
    BY <1>1 DEF Step, Types, Moves, Same
  <1>3. Truthful(upto[z], to[z], Len(received[y])) /\ Truthful(upto[y], to[y], Len(received[z]))
    BY <1>1 DEF Answers
  <1>4. Truthful(upto[z], to'[z], Len(received[y]))
    <2>1. CASE ~pop
      BY <1>2, <1>3, <2>1
    <2>2. CASE pop
      <3>1. /\ Len(to[z]) \in Nat /\ Len(Tail(to[z])) = Len(to[z]) - 1
            /\ \A i \in 1 .. Len(to[z]) - 1 : Tail(to[z])[i] = to[z][i + 1]
        BY <1>2, <2>2, Popped
      <3> QED BY <1>2, <1>3, <2>2, <3>1, SMTT(40) DEF Truthful
    <2> QED BY <2>1, <2>2 DEF Step
  <1>5. Truthful(upto'[z], to'[z], Len(received[y]))
    BY <1>2, <1>4, TruthfulExtended
  <1>6. Truthful(upto[y], to[y], Len(received'[z]))
    <2>1. Len(received[z]) \in Nat /\ Len(received'[z]) \in Nat /\ upto[y] \in Seq(Nat)
      BY <1>1, LenProperties DEF Types
    <2> QED BY <1>2, <1>3, <2>1, TruthfulGrows
  <1>7. Truthful(upto[y], to[y] \o (blocks \o after), Len(received'[z]))
    <2>1. to[y] \in Seq(Messages) /\ blocks \in Seq(Messages) /\ after \in Seq(Messages)
      BY <1>2
    <2>2. blocks \o after \in Seq(Messages)
      BY <2>1, JoinedMessages
    <2>3. Truthful(upto[y], blocks, Len(received'[z]))
      BY <1>2 DEF Truthful, Cut
    <2>4. Truthful(upto[y], blocks \o after, Len(received'[z]))
      BY <1>2, <2>3, TruthfulJoined
    <2> QED BY <1>6, <2>1, <2>2, <2>4, TruthfulJoined
  <1>8. Truthful(upto'[y], to'[y], Len(received'[z]))
    BY <1>2, <1>7
  <1> HIDE DEF y
  <1>9. Answers(z)'
    <2>1. Peer(z) = y
      BY DEF y
    <2> QED BY <1>2, <1>5, <2>1 DEF Answers
  <1>10. Answers(y)'
    BY <1>1, <1>8 DEF Answers
  <1> QED BY <1>9, <1>10 DEF y

(* Every data stanza in flight is on its way, kept or answered.               *)
LEMMA StepAccounted ==
  ASSUME NEW z \in Sides, Types, Own(z), Own(Peer(z)), Accounted(z), Accounted(Peer(z)),
         NEW pop, NEW blocks, NEW after, Step(z, pop, blocks, after)
  PROVE  Accounted(z)' /\ Accounted(Peer(z))'
  <1> DEFINE y == Peer(z)
  <1>1. y \in Sides /\ Peer(y) = z /\ y # z
    BY Sided
  <1>2. /\ upto[z] \in Seq(Nat) /\ to[y] \in Seq(Messages) /\ blocks \in Seq(Messages) /\ after \in Seq(Messages)
        /\ to[z] \in Seq(Messages) /\ Cut(upto[z], blocks, upto'[z]) /\ ~Any(after, {"data"})
        /\ to'[y] = to[y] \o (blocks \o after) /\ (pop => to[z] # <<>>)
        /\ to'[z] = (IF pop THEN Tail(to[z]) ELSE to[z]) /\ pop \in BOOLEAN
    BY <1>1 DEF Step, Types, Moves
  <1>3. state'[y] = state[y] /\ inFlight'[y] = inFlight[y] /\ notAcked'[y] = notAcked[y]
    BY DEF Step, Same
  <1>4. ASSUME NEW id \in Nat
        PROVE  Has(to'[y], id) <=> Has(to[y], id) \/ id \in Len(upto[z]) + 1 .. Len(upto[z]) + Len(blocks)
    BY <1>2, CutHas
  <1>5. ASSUME NEW id \in Nat
        PROVE  /\ Answered(to[y], id) => Answered(to'[y], id)
               /\ Answered(after, id) => Answered(to'[y], id)
    <2>0. to[y] \in Seq(Messages) /\ blocks \in Seq(Messages) /\ after \in Seq(Messages)
      BY <1>2
    <2>1. blocks \o after \in Seq(Messages)
      BY <2>0, JoinedMessages
    <2>2. Answered(to[y] \o (blocks \o after), id) <=> Answered(to[y], id) \/ Answered(blocks \o after, id)
      BY <2>0, <2>1, HasJoined
    <2>3. Answered(blocks \o after, id) <=> Answered(blocks, id) \/ Answered(after, id)
      BY <2>0, HasJoined
    <2> QED BY <1>2, <2>2, <2>3
  <1>6. ASSUME NEW id \in Nat
        PROVE  /\ Has(to[z], id) => Has(to'[z], id) \/ (Takes(z, pop, {"data"}) /\ to[z][1].id = id)
               /\ Answered(to[z], id) => \/ Answered(to'[z], id)
                                         \/ Takes(z, pop, {"acked", "refused"}) /\ to[z][1].id = id
    <2>1. CASE ~pop
      BY <1>2, <2>1
    <2>2. CASE pop
      <3>1. /\ Has(to[z], id) <=> (to[z][1].type = "data" /\ to[z][1].id = id) \/ Has(Tail(to[z]), id)
            /\ Answered(to[z], id) <=> \/ to[z][1].type \in {"acked", "refused"} /\ to[z][1].id = id
                                       \/ Answered(Tail(to[z]), id)
        BY <1>2, <2>2, HasPopped
      <3> QED BY <1>2, <2>2, <3>1 DEF Takes
    <2> QED BY <1>2, <2>1, <2>2
  <1>7. ASSUME state'[z] # "CLOSED", NEW id \in inFlight'[z]
        PROVE  Has(to'[y], id) \/ Answered(to'[z], id) \/ Kept(y, id)'
    <2>1. \/ id \in Len(upto[z]) + 1 .. Len(upto[z]) + Len(blocks)
          \/ id \in inFlight[z] /\ ~(Takes(z, pop, {"acked", "refused"}) /\ to[z][1].id = id)
      BY <1>7 DEF Step
    <2>2. CASE id \in Len(upto[z]) + 1 .. Len(upto[z]) + Len(blocks)
      <3>1. id \in Nat
        BY <1>2, <2>2, LenProperties
      <3> QED BY <1>4, <2>2, <3>1
    <2>3. CASE id \in inFlight[z] /\ ~(Takes(z, pop, {"acked", "refused"}) /\ to[z][1].id = id)
      <3>1. id \in Nat
        BY <2>3 DEF Types
      <3>2. Has(to[y], id) \/ Answered(to[z], id) \/ Kept(y, id)
        BY <1>7, <2>3 DEF Accounted, Step
      <3>3. Kept(y, id)' <=> Kept(y, id)
        BY <1>3 DEF Kept
      <3> QED BY <1>4, <1>6, <2>3, <3>1, <3>2, <3>3
    <2> QED BY <2>1, <2>2, <2>3
  <1>8. ASSUME state'[y] # "CLOSED", NEW id \in inFlight'[y]
        PROVE  Has(to'[z], id) \/ Answered(to'[y], id) \/ Kept(z, id)'
    <2>1. id \in Nat
      BY <1>1, <1>3, <1>8 DEF Types
    <2>2. Has(to[z], id) \/ Answered(to[y], id) \/ Kept(z, id)
      BY <1>1, <1>3, <1>8 DEF Accounted
    <2>3. (Takes(z, pop, {"data"}) /\ to[z][1].id = id) \/ Kept(z, id) => Kept(z, id)' \/ Answered(after, id)
      BY <2>1 DEF Step
    <2> QED BY <1>5, <1>6, <2>1, <2>2, <2>3
  <1>9. Accounted(z)'
    BY <1>7 DEF Accounted
  <1>10. Accounted(y)'
    <2> HIDE DEF y
    <2> QED BY <1>1, <1>8 DEF Accounted
  <1> QED BY <1>9, <1>10

-----------------------------------------------------------------------------
(* A step of z that sends no data, and one in which its user is given none.   *)

Quiet(z) ==
  /\ upto'[z] = upto[z] /\ seq'[z] = seq[z] /\ sent'[z] = sent[z]
  /\ inFlight'[z] \subseteq inFlight[z]
  /\ writeBuffer'[z] = writeBuffer[z] \/ (writeBuffer'[z] = <<>> /\ state'[z] = "CLOSED")
  /\ writeBlocked'[z] = (writeBuffer'[z] # <<>>)
  /\ closeIq'[z] => state'[z] = "CLOSING"
  /\ state'[z] # "CLOSED" => state[z] # "CLOSED"
  /\ state'[z] = "OPEN" => writeBuffer[z] = <<>> \/ (state[z] = "OPEN" /\ inFlight'[z] = inFlight[z])
  /\ state'[z] \in Early => state[z] \in Early

Unread(z, pop) ==
  /\ received'[z] = received[z]
  /\ \/ readBuffer'[z] = readBuffer[z] /\ notAcked'[z] = notAcked[z]
     \/ state'[z] \in Over /\ notAcked'[z] = <<>> /\ readBuffer'[z] \in {readBuffer[z], <<>>}
  /\ state'[z] \notin Over => state[z] \notin Over /\ ~Takes(z, pop, {"data"})

LEMMA OwnQuiet ==
  ASSUME NEW z \in Sides, Types, Own(z), Quiet(z), Reader(z)'
  PROVE  Own(z)'
  <1>1. Sender(z)'
    <2>1. Len(<<>>) = 0
      BY EmptySeq
    <2>2. Len(writeBuffer[z]) \in Nat /\ Last(upto[z], seq[z]) \in Nat /\ sent[z] \in Nat
      <3>1. upto[z] \in Seq(Nat) /\ seq[z] \in Nat /\ Len(upto[z]) = seq[z] /\ seq[z] \in 0 .. seq[z]
        BY DEF Types, Own, Sender
      <3>2. Last(upto[z], seq[z]) \in Nat
        BY <3>1, LastType
      <3> QED BY <3>2, LenProperties DEF Types
    <2>3. CASE writeBuffer'[z] = writeBuffer[z]
      BY <2>3 DEF Quiet, Own, Sender
    <2>4. CASE writeBuffer'[z] = <<>> /\ state'[z] = "CLOSED"
      <3>1. Last(upto[z], seq[z]) + Len(<<>>) <= sent[z]
        BY <2>1, <2>2 DEF Own, Sender
      <3>2. Run(<<>>, Last(upto[z], seq[z]))
        BY <2>1 DEF Run
      <3> QED BY <2>4, <3>1, <3>2 DEF Quiet, Own, Sender
    <2> QED BY <2>3, <2>4 DEF Quiet
  <1>2. Window(z)'
    <2>1. IsFiniteSet(inFlight'[z]) /\ Cardinality(inFlight'[z]) <= Cardinality(inFlight[z])
      BY FS_Subset DEF Quiet, Own, Window
    <2>2. Cardinality(inFlight'[z]) \in Nat /\ Cardinality(inFlight[z]) \in Nat /\ WindowSize \in Nat
      BY <2>1, FS_CardinalityType, IBBAssumption DEF Own, Window
    <2>3. Cardinality(inFlight'[z]) <= WindowSize
      BY <2>1, <2>2 DEF Own, Window
    <2>4. state'[z] = "OPEN" /\ writeBuffer'[z] # <<>> => inFlight'[z] # {}
      BY DEF Quiet, Own, Window
    <2> QED BY <2>1, <2>3, <2>4 DEF Quiet, Own, Window
  <1>3. Unused(z)'
    BY DEF Quiet, Own, Unused, Early
  <1> QED BY <1>1, <1>2, <1>3 DEF Own

LEMMA OwnInbound ==
  ASSUME NEW z \in Sides, Types, Own(Peer(z)), Inbound(z), Same(Peer(z)),
         NEW pop \in BOOLEAN, NEW ms, Moves(z, pop, ms), Unread(z, pop)
  PROVE  Inbound(z)'
  <1> DEFINE y == Peer(z)
  <1>1. y \in Sides
    BY Sided
  <1>2. /\ upto[y] \in Seq(Nat) /\ to[z] \in Seq(Messages) /\ (pop => to[z] # <<>>)
        /\ to'[z] = (IF pop THEN Tail(to[z]) ELSE to[z]) /\ upto'[y] = upto[y] /\ seq'[y] = seq[y]
        /\ received'[z] = received[z]
    BY <1>1 DEF Types, Moves, Same, Unread
  <1>3. InOrder(upto[y], to'[z])
    <2>1. InOrder(upto[y], to[z])
      BY DEF Inbound
    <2>2. pop => InOrder(upto[y], Tail(to[z]))
      BY <1>2, <2>1, PopOrder
    <2> QED BY <1>2, <2>1, <2>2
  <1>4. state'[z] \notin Over => Continues(upto[y], to'[z], Held(z))
    <2> SUFFICES ASSUME state'[z] \notin Over PROVE Continues(upto[y], to'[z], Held(z))
      OBVIOUS
    <2>1. Continues(upto[y], to[z], Held(z)) /\ ~Takes(z, pop, {"data"})
      BY DEF Inbound, Unread
    <2>2. pop => Continues(upto[y], Tail(to[z]), Held(z))
      BY <1>2, <2>1, PopPlain DEF Takes
    <2> QED BY <1>2, <2>1, <2>2
  <1>5. Len(<<>>) = 0 /\ Len(received[z]) \in Nat /\ Len(readBuffer[z]) \in Nat
    BY EmptySeq, LenProperties DEF Types
  <1>6. CASE readBuffer'[z] = readBuffer[z] /\ notAcked'[z] = notAcked[z]
    <2>1. Held(z)' = Held(z)
      BY <1>2, <1>6 DEF Held
    <2> QED BY <1>2, <1>3, <1>4, <1>6, <2>1 DEF Inbound
  <1>7. CASE state'[z] \in Over /\ notAcked'[z] = <<>> /\ readBuffer'[z] \in {readBuffer[z], <<>>}
    <2>1. Held(z)' <= Last(upto[y], seq[y])
      <3>1. Held(z)' <= Held(z) /\ Held(z) \in Nat /\ Held(z)' \in Nat
        <4>1. Len(readBuffer'[z]) = Len(readBuffer[z]) \/ Len(readBuffer'[z]) = 0
          BY <1>5, <1>7
        <4>2. Held(z) = Len(received[z]) + Len(readBuffer[z]) /\ Held(z)' = Len(received[z]) + Len(readBuffer'[z])
          BY <1>2 DEF Held
        <4>3. PICK a \in Nat, b \in Nat, c \in Nat :
                a = Len(received[z]) /\ b = Len(readBuffer[z]) /\ c = Len(readBuffer'[z])
          BY <1>5, <4>1
        <4>4. Held(z) = a + b /\ Held(z)' = a + c /\ (c = b \/ c = 0)
          BY <4>1, <4>2, <4>3
        <4> QED BY <4>4
      <3>2. Last(upto[y], seq[y]) \in Nat
        <4>1. seq[y] \in 0 .. Len(upto[y])
          BY <1>1 DEF Types, Own, Sender
        <4> QED BY <1>2, <4>1, LastType
      <3> QED BY <3>1, <3>2 DEF Inbound
    <2>2. Run(readBuffer'[z], Len(received[z]))
      BY <1>5, <1>7 DEF Inbound, Run
    <2>3. \A k \in 1 .. Len(notAcked'[z]) : FALSE
      BY <1>5, <1>7
    <2> QED BY <1>2, <1>3, <1>7, <2>1, <2>2, <2>3 DEF Inbound
  <1> QED BY <1>6, <1>7 DEF Unread

(* Steps that neither take nor answer data.                                   *)
LEMMA IdleStep ==
  ASSUME NEW z \in Sides, Types, Own(z), NEW pop \in BOOLEAN, NEW after \in Seq(Messages),
         Same(Peer(z)), Moves(z, pop, after), ~Any(after, {"data", "acked", "refused"}),
         ~Takes(z, pop, {"data"}),
         upto'[z] = upto[z], seq'[z] = seq[z], received'[z] = received[z], notAcked'[z] = notAcked[z],
         inFlight'[z] = inFlight[z],
         state'[z] # "CLOSED" => state[z] # "CLOSED" /\ ~Takes(z, pop, {"acked", "refused"})
  PROVE  Step(z, pop, <<>>, after)
  <1>1. <<>> \o after = after /\ <<>> \in Seq(Messages) /\ Len(<<>>) = 0
    BY ConcatEmptySeq, EmptySeq
  <1>2. Cut(upto[z], <<>>, upto'[z])
    BY NothingCut DEF Types, Own, Sender
  <1>3. ~Any(after, {"data"})
    BY DEF Any
  <1>4. Truthful(upto[Peer(z)], after, Len(received'[z]))
    BY DEF Any, Truthful
  <1>5. seq'[z] = seq[z] + Len(<<>>) /\ Len(received[z]) <= Len(received'[z])
    <2>1. seq[z] \in Nat /\ Len(received[z]) \in Nat
      BY LenProperties DEF Types
    <2> QED BY <1>1, <2>1
  <1>6. \A id : Kept(z, id)' <=> Kept(z, id)
    BY DEF Kept
  <1>7. \A id : ~(Takes(z, pop, {"data"}) /\ to[z][1].id = id)
    OBVIOUS
  <1> QED BY <1>1, <1>2, <1>3, <1>4, <1>5, <1>6, <1>7 DEF Step

LEMMA One ==
  ASSUME NEW m \in Messages
  PROVE  /\ <<m>> \in Seq(Messages) /\ Len(<<m>>) = 1 /\ <<m>>[1] = m
         /\ \A T : Any(<<m>>, T) <=> m.type \in T
         /\ \A T : Once(<<m>>, T)
         /\ \A id : Answered(<<m>>, id) <=> m.type \in {"acked", "refused"} /\ m.id = id
  <1>1. <<m>> \in Seq(Messages) /\ Len(<<m>>) = 1 /\ <<m>>[1] = m
    OBVIOUS
  <1>2. \A i \in 1 .. Len(<<m>>) : i = 1
    BY <1>1
  <1>3. 1 \in 1 .. Len(<<m>>)
    BY <1>1
  <1> HIDE <1>1
  <1>4. \A T : Any(<<m>>, T) <=> m.type \in T
    BY <1>1, <1>2, <1>3 DEF Any
  <1>5. \A T : Once(<<m>>, T)
    BY <1>2 DEF Once
  <1>6. \A id : Answered(<<m>>, id) <=> m.type \in {"acked", "refused"} /\ m.id = id
    BY <1>1, <1>2, <1>3 DEF Answered
  <1> QED BY <1>1, <1>4, <1>5, <1>6

LEMMA None ==
  /\ <<>> \in Seq(Messages) /\ Len(<<>>) = 0
  /\ \A T : ~Any(<<>>, T) /\ Once(<<>>, T)
  /\ \A id : ~Answered(<<>>, id)
  <1>1. <<>> \in Seq(Messages) /\ Len(<<>>) = 0
    BY EmptySeq
  <1>2. \A i \in 1 .. Len(<<>>) : FALSE
    BY <1>1
  <1> QED BY <1>1, <1>2 DEF Any, Once, Answered

-----------------------------------------------------------------------------
(* gabble_bytestream_ibb_close.                                               *)

LEMMA RefusalsOf ==
  ASSUME NEW ids \in Seq(Nat)
  PROVE  /\ Refusals(ids) \in Seq(Messages) /\ Len(Refusals(ids)) = Len(ids)
         /\ \A i \in 1 .. Len(ids) : Refusals(ids)[i].type = "refused" /\ Refusals(ids)[i].id = ids[i]
  <1>1. Len(ids) \in Nat /\ DOMAIN ids = 1 .. Len(ids) /\ \A i \in 1 .. Len(ids) : ids[i] \in Nat
    BY LenProperties, ElementOfSeq
  <1>2. Refusals(ids) = [i \in 1 .. Len(ids) |-> Stanza("refused", ids[i], <<>>)]
    BY <1>1 DEF Refusals
  <1>3. \A i \in 1 .. Len(ids) : Stanza("refused", ids[i], <<>>) \in Messages
    BY <1>1, EmptySeq DEF Stanza, Messages, MessageTypes
  <1>4. Refusals(ids) \in Seq(Messages) /\ Len(Refusals(ids)) = Len(ids)
    BY <1>1, <1>2, <1>3
  <1> QED BY <1>2, <1>4 DEF Stanza

LEMMA AcksOf ==
  ASSUME NEW ids \in Seq(Nat)
  PROVE  /\ Acks(ids) \in Seq(Messages) /\ Len(Acks(ids)) = Len(ids)
         /\ \A i \in 1 .. Len(ids) : Acks(ids)[i].type = "acked" /\ Acks(ids)[i].id = ids[i]
  <1>1. Len(ids) \in Nat /\ DOMAIN ids = 1 .. Len(ids) /\ \A i \in 1 .. Len(ids) : ids[i] \in Nat
    BY LenProperties, ElementOfSeq
  <1>2. Acks(ids) = [i \in 1 .. Len(ids) |-> Stanza("acked", ids[i], <<>>)]
    BY <1>1 DEF Acks
  <1>3. \A i \in 1 .. Len(ids) : Stanza("acked", ids[i], <<>>) \in Messages
    BY <1>1, EmptySeq DEF Stanza, Messages, MessageTypes
  <1>4. Acks(ids) \in Seq(Messages) /\ Len(Acks(ids)) = Len(ids)
    BY <1>1, <1>2, <1>3
  <1> QED BY <1>2, <1>4 DEF Stanza

LEMMA OneAnswer ==
  ASSUME NEW id \in Nat
  PROVE  /\ Refusals(<<id>>) \in Seq(Messages) /\ Len(Refusals(<<id>>)) = 1
         /\ Refusals(<<id>>)[1].type = "refused" /\ Refusals(<<id>>)[1].id = id
         /\ Acks(<<id>>) \in Seq(Messages) /\ Len(Acks(<<id>>)) = 1
         /\ Acks(<<id>>)[1].type = "acked" /\ Acks(<<id>>)[1].id = id
  <1>0. <<id>> \in Seq(Nat) /\ Len(<<id>>) = 1 /\ <<id>>[1] = id
    OBVIOUS
  <1>1. PICK ids \in Seq(Nat) : ids = <<id>> /\ Len(ids) = 1 /\ ids[1] = id
    BY <1>0
  <1>2. 1 \in 1 .. Len(ids)
    BY <1>1
  <1>3. /\ Refusals(ids) \in Seq(Messages) /\ Len(Refusals(ids)) = Len(ids)
        /\ Refusals(ids)[1].type = "refused" /\ Refusals(ids)[1].id = ids[1]
    BY <1>2, RefusalsOf
  <1>4. /\ Acks(ids) \in Seq(Messages) /\ Len(Acks(ids)) = Len(ids)
        /\ Acks(ids)[1].type = "acked" /\ Acks(ids)[1].id = ids[1]
    BY <1>2, AcksOf
  <1> QED BY <1>1, <1>3, <1>4

LEMMA PlainMessage ==
  ASSUME NEW t \in MessageTypes
  PROVE  Plain(t) \in Messages /\ Plain(t).type = t
  BY EmptySeq DEF Plain, Stanza, Messages

(* What is said last: that the offer is declined, or the close stanzas.       *)
Final(z, cq) == IF state[z] = "LOCAL_PENDING" THEN <<Plain("declined")>> ELSE CloseStanzas(cq)

FinalTypes(z) == IF state[z] = "LOCAL_PENDING" THEN {"declined"} ELSE {"close", "close-acked"}

LEMMA CloseStanzasOf ==
  ASSUME NEW cq \in BOOLEAN
  PROVE  /\ CloseStanzas(cq) \in Seq(Messages)
         /\ \A i \in 1 .. Len(CloseStanzas(cq)) : CloseStanzas(cq)[i].type \in {"close", "close-acked"}
  <1>1. Plain("close") \in Messages /\ Plain("close").type = "close"
    BY PlainMessage DEF MessageTypes
  <1>2. Plain("close-acked") \in Messages /\ Plain("close-acked").type = "close-acked"
    BY PlainMessage DEF MessageTypes
  <1>3. CASE cq
    <2>1. CloseStanzas(cq) = <<Plain("close-acked"), Plain("close")>>
      BY <1>3 DEF CloseStanzas
    <2> HIDE DEF CloseStanzas
    <2> QED BY <1>1, <1>2, <2>1
  <1>4. CASE ~cq
    <2>1. CloseStanzas(cq) = <<Plain("close")>>
      BY <1>4 DEF CloseStanzas
    <2> QED BY <1>1, <2>1
  <1> QED BY <1>3, <1>4

LEMMA FinalOf ==
  ASSUME NEW z \in Sides, NEW cq \in BOOLEAN
  PROVE  /\ Final(z, cq) \in Seq(Messages)
         /\ \A i \in 1 .. Len(Final(z, cq)) : Final(z, cq)[i].type \in FinalTypes(z)
         /\ Once(Final(z, cq), Offers)
  <1>1. CASE state[z] = "LOCAL_PENDING"
    <2>1. Plain("declined") \in Messages /\ Plain("declined").type = "declined"
      BY PlainMessage DEF MessageTypes
    <2>2. Final(z, cq) = <<Plain("declined")>> /\ FinalTypes(z) = {"declined"}
      BY <1>1 DEF Final, FinalTypes
    <2>3. Once(<<Plain("declined")>>, Offers)
      BY <2>1, One
    <2> QED BY <2>1, <2>2, <2>3
  <1>2. CASE state[z] # "LOCAL_PENDING"
    <2>1. Final(z, cq) = CloseStanzas(cq) /\ FinalTypes(z) = {"close", "close-acked"}
      BY <1>2 DEF Final, FinalTypes
    <2>2. Once(CloseStanzas(cq), Offers)
      BY CloseStanzasOf DEF Once, Offers
    <2> QED BY <2>1, <2>2, CloseStanzasOf
  <1> QED BY <1>1, <1>2

(* The stanzas that closing sends after those of before.                      *)
Answering(z, before, after) ==
  /\ after \in Seq(Messages)
  /\ \A T : Any(after, T) => Any(before, T) \/ "refused" \in T \/ \E t \in FinalTypes(z) : t \in T
  /\ ~Any(before, Offers) => Once(after, Offers)
  /\ \A id : Kept(z, id) \/ Answered(before, id) => Answered(after, id)
  /\ \A up, len : Truthful(up, before, len) /\ (\A k \in 1 .. Len(notAcked[z]) : notAcked[z][k] \in 1 .. Len(up))
                     => Truthful(up, after, len)

LEMMA AnswersSent ==
  ASSUME NEW z \in Sides, notAcked[z] \in Seq(Nat), NEW before \in Seq(Messages)
  PROVE  Answering(z, before, before \o Refusals(notAcked[z]))
  <1> DEFINE r == Refusals(notAcked[z])
  <1>1. r \in Seq(Messages) /\ Len(r) = Len(notAcked[z])
        /\ \A i \in 1 .. Len(notAcked[z]) : r[i].type = "refused" /\ r[i].id = notAcked[z][i]
    BY RefusalsOf
  <1> HIDE DEF r
  <1>2. before \o r \in Seq(Messages)
    BY <1>1, JoinedMessages
  <1>3. ASSUME NEW T, Any(before \o r, T) PROVE Any(before, T) \/ "refused" \in T
    <2>1. Any(before, T) \/ Any(r, T)
      BY <1>1, <1>3, HasJoined
    <2>2. Any(r, T) => "refused" \in T
      BY <1>1 DEF Any
    <2> QED BY <2>1, <2>2
  <1>4. ASSUME ~Any(before, Offers) PROVE Once(before \o r, Offers)
    <2>1. Once(r, Offers)
      BY <1>1 DEF Once, Offers
    <2> QED BY <1>1, <1>4, <2>1, OnceJoined
  <1>5. ASSUME NEW id, Kept(z, id) \/ Answered(before, id) PROVE Answered(before \o r, id)
    <2>1. Kept(z, id) => Answered(r, id)
      BY <1>1 DEF Kept, Answered
    <2> QED BY <1>1, <1>5, <2>1, HasJoined
  <1>6. ASSUME NEW up, NEW len, Truthful(up, before, len),
               \A k \in 1 .. Len(notAcked[z]) : notAcked[z][k] \in 1 .. Len(up)
        PROVE  Truthful(up, before \o r, len)
    <2>1. Truthful(up, r, len)
      BY <1>1, <1>6 DEF Truthful
    <2> QED BY <1>1, <1>6, <2>1, TruthfulJoined
  <1>7. Answering(z, before, before \o r)
    BY <1>2, <1>3, <1>4, <1>5, <1>6 DEF Answering
  <1> QED BY <1>7 DEF r

LEMMA FinalSent ==
  ASSUME NEW z \in Sides, NEW before \in Seq(Messages), NEW answers, Answering(z, before, answers),
         ~Any(answers, Offers), NEW cq \in BOOLEAN
  PROVE  Answering(z, before, answers \o Final(z, cq))
  <1> DEFINE f == Final(z, cq)
  <1>1. f \in Seq(Messages) /\ (\A i \in 1 .. Len(f) : f[i].type \in FinalTypes(z)) /\ Once(f, Offers)
    BY FinalOf
  <1>2. answers \in Seq(Messages)
    BY DEF Answering
  <1> HIDE DEF f
  <1>3. answers \o f \in Seq(Messages)
    BY <1>1, <1>2, JoinedMessages
  <1>4. ASSUME NEW T, Any(answers \o f, T)
        PROVE  Any(before, T) \/ "refused" \in T \/ \E t \in FinalTypes(z) : t \in T
    <2>1. Any(answers, T) \/ Any(f, T)
      BY <1>1, <1>2, <1>4, HasJoined
    <2>2. Any(f, T) => \E t \in FinalTypes(z) : t \in T
      BY <1>1 DEF Any
    <2> QED BY <2>1, <2>2 DEF Answering
  <1>5. Once(answers \o f, Offers)
    BY <1>1, <1>2, OnceJoined
  <1>6. ASSUME NEW id, Kept(z, id) \/ Answered(before, id) PROVE Answered(answers \o f, id)
    BY <1>1, <1>2, <1>6, HasJoined DEF Answering
  <1>7. ASSUME NEW up, NEW len, Truthful(up, before, len),
               \A k \in 1 .. Len(notAcked[z]) : notAcked[z][k] \in 1 .. Len(up)
        PROVE  Truthful(up, answers \o f, len)
    <2>1. Truthful(up, answers, len)
      BY <1>7 DEF Answering
    <2>2. Truthful(up, f, len)
      BY <1>1 DEF Truthful, FinalTypes
    <2> QED BY <1>1, <1>2, <2>1, <2>2, TruthfulJoined
  <1>8. Answering(z, before, answers \o f)
    BY <1>3, <1>4, <1>5, <1>6, <1>7 DEF Answering
  <1> QED BY <1>8 DEF f

(* What becomes of the variables of z.                                        *)
Finished(z) ==
  /\ state'[z] = "CLOSED" /\ writeBuffer'[z] = <<>> /\ readBuffer'[z] = <<>>
  /\ ~writeBlocked'[z] /\ ~readBlocked'[z] /\ ~closeIq'[z]
Waits(z) ==
  /\ state'[z] = "CLOSING" /\ state[z] # "LOCAL_PENDING" /\ writeBuffer[z] # <<>>
  /\ writeBuffer'[z] = writeBuffer[z] /\ readBuffer'[z] = readBuffer[z]
  /\ writeBlocked'[z] = writeBlocked[z] /\ readBlocked'[z] = readBlocked[z]
LocalTypes ==
  /\ state \in [Sides -> States]
  /\ writeBuffer \in [Sides -> Seq(Nat)] /\ readBuffer \in [Sides -> Seq(Nat)]
  /\ writeBlocked \in [Sides -> BOOLEAN] /\ readBlocked \in [Sides -> BOOLEAN]
  /\ notAcked \in [Sides -> Seq(Nat)] /\ closeIq \in [Sides -> BOOLEAN]
LocalSame(y) ==
  /\ state'[y] = state[y] /\ writeBuffer'[y] = writeBuffer[y] /\ readBuffer'[y] = readBuffer[y]
  /\ writeBlocked'[y] = writeBlocked[y] /\ readBlocked'[y] = readBlocked[y]
  /\ notAcked'[y] = notAcked[y] /\ closeIq'[y] = closeIq[y]

LEMMA Closing ==
  ASSUME NEW z \in Sides, Types, NEW pop \in BOOLEAN, pop => to[z] # <<>>, NEW before \in Seq(Messages),
         ~Any(before, Offers), NEW cq \in BOOLEAN, Close(z, pop, before, cq)
  PROVE  /\ LocalTypes' /\ LocalSame(Peer(z)) /\ notAcked'[z] = <<>> /\ (Finished(z) \/ Waits(z))
         /\ to' \in [Sides -> Seq(Messages)]
         /\ \E after : Answering(z, before, after) /\ Moves(z, pop, after)
  <1> DEFINE answers == before \o Refusals(notAcked[z])
             waits == state[z] # "LOCAL_PENDING" /\ writeBuffer[z] # <<>>
  <1>1. /\ notAcked' = [notAcked EXCEPT ![z] = <<>>]
        /\ waits => /\ state' = [state EXCEPT ![z] = "CLOSING"]
                    /\ closeIq' = [closeIq EXCEPT ![z] = cq]
                    /\ Post(z, pop, answers)
                    /\ UNCHANGED <<writeBuffer, writeBlocked, readBuffer, readBlocked>>
        /\ ~waits => /\ state' = [state EXCEPT ![z] = "CLOSED"]
                     /\ closeIq' = [closeIq EXCEPT ![z] = FALSE]
                     /\ Post(z, pop, answers \o Final(z, cq))
                     /\ Finalise(z)
    BY DEF Close, Final
  <1>2. Peer(z) \in Sides /\ Peer(z) # z
    BY Sided
  <1>3. <<>> \in Seq(Nat) /\ "CLOSING" \in States /\ "CLOSED" \in States
    BY EmptySeq DEF States
  <1>4. notAcked' \in [Sides -> Seq(Nat)] /\ notAcked'[z] = <<>> /\ notAcked'[Peer(z)] = notAcked[Peer(z)]
    BY <1>1, <1>2, <1>3 DEF Types
  <1>5. Answering(z, before, answers) /\ ~Any(answers, Offers) /\ answers \in Seq(Messages)
    <2>1. Answering(z, before, answers)
      BY AnswersSent DEF Types
    <2>2. ~Any(answers, Offers)
      <3>1. Refusals(notAcked[z]) \in Seq(Messages) /\ ~Any(Refusals(notAcked[z]), Offers)
        BY RefusalsOf DEF Types, Any, Offers
      <3> QED BY <3>1, HasJoined
    <2> QED BY <2>1, <2>2 DEF Answering
  <1> HIDE DEF answers
  <1>6. CASE waits
    <2>1. LocalTypes' /\ LocalSame(Peer(z)) /\ Waits(z)
      <3>1. state' \in [Sides -> States] /\ state'[z] = "CLOSING" /\ state'[Peer(z)] = state[Peer(z)]
        BY <1>1, <1>2, <1>3, <1>6, ZenonT(40) DEF Types
      <3>2. closeIq' \in [Sides -> BOOLEAN] /\ closeIq'[Peer(z)] = closeIq[Peer(z)]
        BY <1>1, <1>2, <1>6 DEF Types
      <3>3. UNCHANGED <<writeBuffer, writeBlocked, readBuffer, readBlocked>>
        BY <1>1, <1>6
      <3> QED BY <1>4, <1>6, <3>1, <3>2, <3>3 DEF LocalTypes, LocalSame, Waits, Types
    <2>2. Moves(z, pop, answers) /\ to' \in [Sides -> Seq(Messages)]
      BY <1>1, <1>5, <1>6, Posted DEF Types
    <2> QED BY <1>4, <1>5, <2>1, <2>2
  <1>7. CASE ~waits
    <2> HIDE DEF waits
    <2>1. LocalTypes' /\ LocalSame(Peer(z)) /\ Finished(z)
      <3>1. state' \in [Sides -> States] /\ state'[z] = "CLOSED" /\ state'[Peer(z)] = state[Peer(z)]
        BY <1>1, <1>2, <1>3, <1>7 DEF Types
      <3>2. closeIq' \in [Sides -> BOOLEAN] /\ closeIq'[Peer(z)] = closeIq[Peer(z)] /\ ~closeIq'[z]
        BY <1>1, <1>2, <1>7 DEF Types
      <3>3. /\ writeBuffer' \in [Sides -> Seq(Nat)] /\ writeBuffer'[z] = <<>> /\ writeBuffer'[Peer(z)] = writeBuffer[Peer(z)]
            /\ readBuffer' \in [Sides -> Seq(Nat)] /\ readBuffer'[z] = <<>> /\ readBuffer'[Peer(z)] = readBuffer[Peer(z)]
        <4>1. /\ writeBuffer' = [writeBuffer EXCEPT ![z] = <<>>] /\ readBuffer' = [readBuffer EXCEPT ![z] = <<>>]
              /\ writeBuffer \in [Sides -> Seq(Nat)] /\ readBuffer \in [Sides -> Seq(Nat)]
          BY <1>1, <1>7 DEF Types, Finalise
        <4>2. writeBuffer' \in [Sides -> Seq(Nat)] /\ writeBuffer'[z] = <<>> /\ writeBuffer'[Peer(z)] = writeBuffer[Peer(z)]
          BY <1>2, <1>3, <4>1
        <4>3. readBuffer' \in [Sides -> Seq(Nat)] /\ readBuffer'[z] = <<>> /\ readBuffer'[Peer(z)] = readBuffer[Peer(z)]
          BY <1>2, <1>3, <4>1
        <4> QED BY <4>2, <4>3
      <3>4. /\ writeBlocked' \in [Sides -> BOOLEAN] /\ ~writeBlocked'[z] /\ writeBlocked'[Peer(z)] = writeBlocked[Peer(z)]
            /\ readBlocked' \in [Sides -> BOOLEAN] /\ ~readBlocked'[z] /\ readBlocked'[Peer(z)] = readBlocked[Peer(z)]
        BY <1>1, <1>2, <1>7 DEF Types, Finalise
      <3> QED BY <1>4, <3>1, <3>2, <3>3, <3>4 DEF LocalTypes, LocalSame, Finished
    <2>2. Answering(z, before, answers \o Final(z, cq))
      BY <1>5, FinalSent
    <2>3. Moves(z, pop, answers \o Final(z, cq)) /\ to' \in [Sides -> Seq(Messages)]
      BY <1>1, <1>7, <2>2, Posted DEF Types, Answering
    <2> QED BY <1>4, <2>1, <2>2, <2>3
  <1> QED BY <1>6, <1>7

-----------------------------------------------------------------------------
(* The handshake.                                                             *)

LEMMA QueueAfter ==
  ASSUME NEW z \in Sides, to \in [Sides -> Seq(Messages)], NEW pop \in BOOLEAN, NEW ms \in Seq(Messages),
         Moves(z, pop, ms), NEW T
  PROVE  /\ Any(to'[Peer(z)], T) <=> Any(to[Peer(z)], T) \/ Any(ms, T)
         /\ Any(to'[z], T) => Any(to[z], T)
         /\ ~Takes(z, pop, T) => (Any(to'[z], T) <=> Any(to[z], T))
         /\ Takes(z, pop, T) => Any(to[z], T) /\ (Once(to[z], T) => ~Any(to'[z], T))
         /\ Once(to[z], T) => Once(to'[z], T)
         /\ Once(to[Peer(z)], T) /\ ~Any(ms, T) => Once(to'[Peer(z)], T)
         /\ ~Any(to[Peer(z)], T) /\ Once(ms, T) => Once(to'[Peer(z)], T)
  <1> DEFINE y == Peer(z)
  <1>1. /\ to[z] \in Seq(Messages) /\ to[y] \in Seq(Messages) /\ (pop => to[z] # <<>>)
        /\ to'[z] = (IF pop THEN Tail(to[z]) ELSE to[z]) /\ to'[y] = to[y] \o ms
    BY Sided DEF Moves
  <1>2. Any(to[y] \o ms, T) <=> Any(to[y], T) \/ Any(ms, T)
    BY <1>1, HasJoined
  <1>3. /\ Once(to[y], T) /\ ~Any(ms, T) => Once(to[y] \o ms, T)
        /\ ~Any(to[y], T) /\ Once(ms, T) => Once(to[y] \o ms, T)
    BY <1>1, OnceJoined
  <1> HIDE DEF y
  <1>4. CASE pop
    <2>1. to'[z] = Tail(to[z]) /\ to[z] \in Seq(Messages) /\ to[z] # <<>>
      BY <1>1, <1>4
    <2>2. Any(to[z], T) <=> to[z][1].type \in T \/ Any(Tail(to[z]), T)
      BY <2>1, HasPopped
    <2>3. Once(to[z], T) => Once(Tail(to[z]), T) /\ (to[z][1].type \in T => ~Any(Tail(to[z]), T))
      BY <2>1, OncePopped
    <2> QED BY <1>1, <1>2, <1>3, <1>4, <2>1, <2>2, <2>3 DEF Takes, y
  <1>5. CASE ~pop
    BY <1>1, <1>2, <1>3, <1>5 DEF Takes, y
  <1> QED BY <1>4, <1>5

LEMMA FollowsAfter ==
  ASSUME NEW z \in Sides, to \in [Sides -> Seq(Messages)], NEW pop \in BOOLEAN, NEW ms \in Seq(Messages),
         Moves(z, pop, ms)
  PROVE  /\ DataFollows(to[z]) /\ ~Takes(z, pop, {"opened"}) => DataFollows(to'[z])
         /\ DataFollows(to[Peer(z)]) /\ (Any(to[Peer(z)], {"opened"}) \/ ~Any(ms, {"data"}))
               => DataFollows(to'[Peer(z)])
         /\ DataFollows(to[z]) => ~Takes(z, pop, {"data"})
  <1> DEFINE y == Peer(z)
  <1>1. /\ to[z] \in Seq(Messages) /\ to[y] \in Seq(Messages) /\ (pop => to[z] # <<>>)
        /\ to'[z] = (IF pop THEN Tail(to[z]) ELSE to[z]) /\ to'[y] = to[y] \o ms
    BY Sided DEF Moves
  <1>2. DataFollows(to[y]) /\ (Any(to[y], {"opened"}) \/ ~Any(ms, {"data"})) => DataFollows(to[y] \o ms)
    BY <1>1, FollowsJoined
  <1>3. pop /\ DataFollows(to[z]) => to[z][1].type # "data" /\ (to[z][1].type # "opened" => DataFollows(Tail(to[z])))
    BY <1>1, FollowsPopped
  <1> HIDE DEF y
  <1> QED BY <1>1, <1>2, <1>3 DEF Takes, y

(* What a step does to a stream whose handshake it does not carry on.         *)
Aside(z, pop, ms) ==
  /\ ~Any(ms, Opened) /\ ~Any(ms, {"open"}) /\ ~Any(ms, {"opened"})
  /\ Any(ms, {"data"}) => state[z] \in {"OPEN", "CLOSING"}
  /\ Any(ms, Offers) => state[z] = "LOCAL_PENDING" /\ state'[z] = "CLOSED"
  /\ Once(ms, Offers)
  /\ ~Takes(z, pop, {"open"}) /\ ~Takes(z, pop, Opened) /\ ~Takes(z, pop, {"opened"}) /\ ~Takes(z, pop, Offers)
  /\ state'[Peer(z)] = state[Peer(z)] /\ seq'[Peer(z)] = seq[Peer(z)]
  /\ seq'[z] = seq[z] \/ state[z] \in {"OPEN", "CLOSING"}
  /\ \/ state'[z] = state[z]
     \/ state'[z] = "CLOSED" /\ state[z] # "NONE"
     \/ state'[z] = "CLOSING" /\ state[z] \in {"OPEN", "CLOSING"}

LEMMA HandshakeAside ==
  ASSUME NEW z \in Sides, to \in [Sides -> Seq(Messages)], Handshake, NEW pop \in BOOLEAN,
         NEW ms \in Seq(Messages), Moves(z, pop, ms), Aside(z, pop, ms)
  PROVE  Handshake'
  <1> DEFINE y == Peer(z)
  <1>1. /\ Any(to'[y], Offers) <=> Any(to[y], Offers) \/ Any(ms, Offers)
        /\ Any(to'[y], Opened) <=> Any(to[y], Opened)
        /\ Any(to'[y], {"open"}) <=> Any(to[y], {"open"})
        /\ Any(to'[y], {"opened"}) <=> Any(to[y], {"opened"})
    BY QueueAfter DEF Aside
  <1>2. /\ Any(to'[z], Offers) <=> Any(to[z], Offers)
        /\ Any(to'[z], Opened) <=> Any(to[z], Opened)
        /\ Any(to'[z], {"open"}) <=> Any(to[z], {"open"})
        /\ Any(to'[z], {"opened"}) <=> Any(to[z], {"opened"})
    BY QueueAfter DEF Aside
  <1>3. /\ Once(to[y], Opened) => Once(to'[y], Opened)
        /\ Once(to[y], {"open"}) => Once(to'[y], {"open"})
        /\ Once(to[y], Offers) /\ ~Any(ms, Offers) => Once(to'[y], Offers)
        /\ ~Any(to[y], Offers) => Once(to'[y], Offers)
    BY QueueAfter DEF Aside
  <1>4. /\ Once(to[z], Opened) => Once(to'[z], Opened)
        /\ Once(to[z], {"open"}) => Once(to'[z], {"open"})
        /\ Once(to[z], Offers) => Once(to'[z], Offers)
    BY QueueAfter
  <1>5. /\ DataFollows(to[z]) => DataFollows(to'[z])
        /\ DataFollows(to[y]) /\ (Any(to[y], {"opened"}) \/ ~Any(ms, {"data"})) => DataFollows(to'[y])
    BY FollowsAfter DEF Aside
  <1>6. CASE z = "a"
    <2>1. y = "b"
      BY <1>6 DEF Peer
    <2> QED BY <1>1, <1>2, <1>3, <1>4, <1>5, <1>6, <2>1 DEF Handshake, Aside, Early, Peer
  <1>7. CASE z = "b"
    <2>1. y = "a"
      BY <1>7 DEF Peer
    <2> QED BY <1>1, <1>2, <1>3, <1>4, <1>5, <1>7, <2>1 DEF Handshake, Aside, Early, Peer
  <1> QED BY <1>6, <1>7 DEF Sides

(* The steps of the handshake: an offer is accepted or declined, the stream   *)
(* is opened, and so is the peer's.                                           *)
Opens(z, pop, ms) ==
  \/ /\ z = "b" /\ ~pop /\ ms = <<Plain("accepted")>>
     /\ state["b"] = "LOCAL_PENDING" /\ state'["b"] = "ACCEPTED"
  \/ /\ z = "a" /\ pop /\ to["a"][1].type = "accepted" /\ ms = <<Plain("open")>> /\ state'["a"] = "INITIATING"
  \/ /\ z = "a" /\ pop /\ to["a"][1].type = "declined" /\ ms = <<>> /\ state'["a"] = "CLOSED"
  \/ /\ pop /\ to[z][1].type = "open" /\ state[z] = "ACCEPTED"
     /\ ms = <<Plain("opened")>> /\ state'[z] = "OPEN"
  \/ /\ pop /\ to[z][1].type = "open" /\ state[z] # "ACCEPTED"
     /\ ms = <<Plain("not-opened")>> /\ state'[z] = state[z]
  \/ /\ pop /\ to[z][1].type \in Opened /\ ms = <<>>
     /\ state'[z] = IF to[z][1].type = "opened" /\ state[z] # "CLOSED" THEN "OPEN" ELSE "CLOSED"


LEMMA HandshakeOpens ==
  ASSUME NEW z \in Sides, to \in [Sides -> Seq(Messages)], Handshake, NEW pop \in BOOLEAN,
         NEW ms \in Seq(Messages), Moves(z, pop, ms), Opens(z, pop, ms),
         state[Peer(z)] = state'[Peer(z)], seq' = seq, seq["b"] = 0 => ~Any(to["a"], {"data"})
  PROVE  Handshake'
  <1> DEFINE y == Peer(z)
  <1>a. \A t \in MessageTypes : \A T : /\ Any(<<Plain(t)>>, T) <=> t \in T
                                       /\ Once(<<Plain(t)>>, T)
    <2> SUFFICES ASSUME NEW t \in MessageTypes PROVE \A T : (Any(<<Plain(t)>>, T) <=> t \in T) /\ Once(<<Plain(t)>>, T)
      OBVIOUS
    <2>1. Plain(t) \in Messages /\ Plain(t).type = t
      BY PlainMessage
    <2>2. (\A T : Any(<<Plain(t)>>, T) <=> Plain(t).type \in T) /\ (\A T : Once(<<Plain(t)>>, T))
      BY <2>1, One
    <2> QED BY <2>1, <2>2
  <1>b. \A T : ~Any(<<>>, T) /\ Once(<<>>, T)
    BY None
  <1>1. /\ Any(to'[y], Offers) <=> Any(to[y], Offers) \/ Any(ms, Offers)
        /\ Any(to'[y], Opened) <=> Any(to[y], Opened) \/ Any(ms, Opened)
        /\ Any(to'[y], {"open"}) <=> Any(to[y], {"open"}) \/ Any(ms, {"open"})
        /\ Any(to'[y], {"opened"}) <=> Any(to[y], {"opened"}) \/ Any(ms, {"opened"})
    BY QueueAfter
  <1>2. /\ Any(to'[z], Offers) => Any(to[z], Offers)
        /\ Any(to'[z], Opened) => Any(to[z], Opened)
        /\ Any(to'[z], {"open"}) => Any(to[z], {"open"})
        /\ Any(to'[z], {"opened"}) => Any(to[z], {"opened"})
        /\ ~Takes(z, pop, {"opened"}) => (Any(to'[z], {"opened"}) <=> Any(to[z], {"opened"}))
    BY QueueAfter
  <1>3. /\ Once(to[y], Opened) /\ ~Any(ms, Opened) => Once(to'[y], Opened)
        /\ Once(to[y], {"open"}) /\ ~Any(ms, {"open"}) => Once(to'[y], {"open"})
        /\ Once(to[y], Offers) /\ ~Any(ms, Offers) => Once(to'[y], Offers)
    BY QueueAfter
  <1>4. /\ ~Any(to[y], Opened) /\ Once(ms, Opened) => Once(to'[y], Opened)
        /\ ~Any(to[y], {"open"}) /\ Once(ms, {"open"}) => Once(to'[y], {"open"})
        /\ ~Any(to[y], Offers) /\ Once(ms, Offers) => Once(to'[y], Offers)
    BY QueueAfter
  <1>5. /\ Once(to[z], Opened) => Once(to'[z], Opened)
        /\ Once(to[z], {"open"}) => Once(to'[z], {"open"})
        /\ Once(to[z], Offers) => Once(to'[z], Offers)
    BY QueueAfter
  <1>6. /\ Takes(z, pop, Offers) => Any(to[z], Offers) /\ (Once(to[z], Offers) => ~Any(to'[z], Offers))
        /\ Takes(z, pop, Opened) => Any(to[z], Opened) /\ (Once(to[z], Opened) => ~Any(to'[z], Opened))
        /\ Takes(z, pop, {"open"}) => Any(to[z], {"open"}) /\ (Once(to[z], {"open"}) => ~Any(to'[z], {"open"}))
        /\ Takes(z, pop, {"opened"}) => Any(to[z], {"opened"})
    BY QueueAfter
  <1>7. /\ DataFollows(to[z]) /\ ~Takes(z, pop, {"opened"}) => DataFollows(to'[z])
        /\ DataFollows(to[y]) /\ ~Any(ms, {"data"}) => DataFollows(to'[y])
    BY FollowsAfter
  <1>8. Any(to'[z], {"data"}) => Any(to[z], {"data"})
    BY QueueAfter
  <1>9. ~Any(to'[z], {"data"}) => DataFollows(to'[z])
    BY DEF Any, DataFollows
  <1> HIDE DEF y
  <1>10. CASE z = "b" /\ ~pop /\ ms = <<Plain("accepted")>>
              /\ state["b"] = "LOCAL_PENDING" /\ state'["b"] = "ACCEPTED"
    <2>1. ~Any(ms, Opened) /\ ~Any(ms, {"open"}) /\ ~Any(ms, {"opened"}) /\ Once(ms, Offers) /\ ~Any(ms, {"data"})
      BY <1>a, <1>10 DEF Opened, MessageTypes
    <2>2. y = "a" /\ Peer("b") = "a"
      BY <1>10 DEF Peer, y
    <2> QED BY <1>1, <1>2, <1>3, <1>4, <1>5, <1>7, <1>10, <2>1, <2>2 DEF Handshake, Early, Takes
  <1>11. CASE z = "a" /\ pop /\ to["a"][1].type = "accepted" /\ ms = <<Plain("open")>> /\ state'["a"] = "INITIATING"
    <2>1. ~Any(ms, Opened) /\ ~Any(ms, Offers) /\ ~Any(ms, {"opened"}) /\ Once(ms, {"open"}) /\ ~Any(ms, {"data"})
      BY <1>a, <1>11 DEF Opened, Offers, MessageTypes
    <2>2. y = "b" /\ Peer("a") = "b"
      BY <1>11 DEF Peer, y
    <2>3. Takes("a", pop, Offers)
      BY <1>11 DEF Takes, Offers
    <2>4. /\ Any(to["a"], Offers) /\ ~Any(to'["a"], Offers)
          /\ state["a"] = "NONE" /\ state["b"] \in {"ACCEPTED", "CLOSED"} /\ seq["b"] = 0
      BY <1>6, <1>11, <2>3 DEF Handshake
    <2>5. DataFollows(to'["a"])
      BY <1>8, <1>9, <1>11, <2>4
    <2> QED BY <1>1, <1>2, <1>3, <1>4, <1>5, <1>11, <2>1, <2>2, <2>4, <2>5 DEF Handshake, Early
  <1>12. CASE z = "a" /\ pop /\ to["a"][1].type = "declined" /\ ms = <<>> /\ state'["a"] = "CLOSED"
    <2>1. ~Any(ms, Opened) /\ ~Any(ms, Offers) /\ ~Any(ms, {"opened"}) /\ ~Any(ms, {"open"}) /\ ~Any(ms, {"data"})
      BY <1>b, <1>12
    <2>2. y = "b" /\ Peer("a") = "b"
      BY <1>12 DEF Peer, y
    <2>3. Takes("a", pop, Offers)
      BY <1>12 DEF Takes, Offers
    <2>4. /\ Any(to["a"], Offers) /\ ~Any(to'["a"], Offers)
          /\ state["a"] = "NONE" /\ state["b"] \in {"ACCEPTED", "CLOSED"} /\ seq["b"] = 0
      BY <1>6, <1>12, <2>3 DEF Handshake
    <2> QED BY <1>1, <1>2, <1>3, <1>5, <1>12, <2>1, <2>2, <2>4 DEF Handshake, Early
  <1>13. CASE pop /\ to[z][1].type = "open" /\ state[z] = "ACCEPTED"
              /\ ms = <<Plain("opened")>> /\ state'[z] = "OPEN"
    <2>1. /\ ~Any(ms, Offers) /\ ~Any(ms, {"open"}) /\ Any(ms, {"opened"}) /\ Any(ms, Opened) /\ Once(ms, Opened)
          /\ ~Any(ms, {"data"})
      <3>1. \A T : (Any(ms, T) <=> "opened" \in T) /\ Once(ms, T)
        BY <1>a, <1>13 DEF MessageTypes
      <3> QED BY <3>1 DEF Opened, Offers
    <2>2. Takes(z, pop, {"open"})
      BY <1>13 DEF Takes
    <2>3. Any(to[z], {"open"})
      BY <1>6, <2>2
    <2>4. z = "b" /\ y = "a" /\ Peer("b") = "a"
      BY <2>3 DEF Handshake, Sides, Peer, y
    <2>5. ~Any(to'["b"], {"open"}) /\ ~Any(to["a"], Opened)
      BY <1>6, <2>2, <2>3, <2>4 DEF Handshake
    <2>6. DataFollows(to["a"]) => DataFollows(to'["a"])
      BY <1>7, <2>1, <2>4
    <2> QED BY <1>1, <1>2, <1>3, <1>4, <1>5, <1>13, <2>1, <2>3, <2>4, <2>5, <2>6 DEF Handshake, Early
  <1>14. CASE pop /\ to[z][1].type = "open" /\ state[z] # "ACCEPTED"
              /\ ms = <<Plain("not-opened")>> /\ state'[z] = state[z]
    <2>1. /\ ~Any(ms, Offers) /\ ~Any(ms, {"open"}) /\ ~Any(ms, {"opened"}) /\ Any(ms, Opened) /\ Once(ms, Opened)
          /\ ~Any(ms, {"data"})
      BY <1>a, <1>14 DEF Opened, Offers, MessageTypes
    <2>2. Takes(z, pop, {"open"})
      BY <1>14 DEF Takes
    <2>3. Any(to[z], {"open"})
      BY <1>6, <2>2
    <2>4. z = "b" /\ y = "a" /\ Peer("b") = "a"
      BY <2>3 DEF Handshake, Sides, Peer, y
    <2>5. ~Any(to'["b"], {"open"}) /\ ~Any(to["a"], Opened)
      BY <1>6, <2>2, <2>3, <2>4 DEF Handshake
    <2>6. DataFollows(to["a"]) => DataFollows(to'["a"])
      BY <1>7, <2>1, <2>4
    <2> QED BY <1>1, <1>2, <1>3, <1>4, <1>5, <1>14, <2>1, <2>3, <2>4, <2>5, <2>6 DEF Handshake, Early
  <1>15. CASE pop /\ to[z][1].type \in Opened /\ ms = <<>>
              /\ state'[z] = IF to[z][1].type = "opened" /\ state[z] # "CLOSED" THEN "OPEN" ELSE "CLOSED"
    <2>1. ~Any(ms, Opened) /\ ~Any(ms, Offers) /\ ~Any(ms, {"opened"}) /\ ~Any(ms, {"open"}) /\ ~Any(ms, {"data"})
      BY <1>b, <1>15
    <2>2. Takes(z, pop, Opened)
      BY <1>15 DEF Takes
    <2>3. Any(to[z], Opened)
      BY <1>6, <2>2
    <2>4. z = "a" /\ y = "b" /\ Peer("a") = "b"
      BY <2>3 DEF Handshake, Sides, Peer, y
    <2>5. ~Any(to'["a"], Opened)
      BY <1>6, <2>2, <2>4 DEF Handshake
    <2>6. ~Any(to'["a"], {"opened"})
      BY <2>5 DEF Any, Opened
    <2>7. state'["a"] = "OPEN" => Any(to["a"], {"opened"})
      BY <1>6, <1>15, <2>4 DEF Takes
    <2> QED BY <1>1, <1>2, <1>3, <1>5, <1>15, <2>1, <2>3, <2>4, <2>5, <2>6, <2>7 DEF Handshake, Early
  <1> QED BY <1>10, <1>11, <1>12, <1>13, <1>14, <1>15 DEF Opens


-----------------------------------------------------------------------------
(* Each action keeps the invariant.                                           *)

LEMMA StepKept ==
  ASSUME NEW z \in Sides, IBBInv, NEW pop, NEW blocks, NEW after, Step(z, pop, blocks, after),
         Types', Own(z)', Inbound(z)', Handshake'
  PROVE  IBBInv'
  <1>1. Types /\ Own(z) /\ Own(Peer(z)) /\ Inbound(Peer(z)) /\ Answers(z) /\ Answers(Peer(z))
        /\ Accounted(z) /\ Accounted(Peer(z))
    BY Sided DEF IBBInv
  <1>2. Same(Peer(z)) /\ Peer(z) \in Sides
    BY Sided DEF Step
  <1>3. upto'[z] \in Seq(Nat) /\ received' \in [Sides -> Seq(Nat)]
    BY DEF Types
  <1>4. Own(Peer(z))'
    BY <1>1, <1>2, PeerOwn
  <1>5. Inbound(Peer(z))'
    BY <1>1, <1>3, PeerInbound
  <1>6. Answers(z)' /\ Answers(Peer(z))'
    BY <1>1, <1>3, StepAnswers
  <1>7. Accounted(z)' /\ Accounted(Peer(z))'
    BY <1>1, StepAccounted
  <1>8. ASSUME NEW x \in Sides PROVE Own(x)' /\ Inbound(x)' /\ Answers(x)' /\ Accounted(x)'
    <2>1. x = z \/ x = Peer(z)
      BY Sided
    <2>2. CASE x = z
      BY <1>6, <1>7, <2>2
    <2>3. CASE x = Peer(z)
      BY <1>4, <1>5, <1>6, <1>7, <2>3
    <2> QED BY <2>1, <2>2, <2>3
  <1> QED BY <1>8 DEF IBBInv

(* A step that only carries the handshake on or answers a close stanza.       *)
LEMMA IdleKept ==
  ASSUME NEW z \in Sides, IBBInv, NEW pop \in BOOLEAN, pop => to[z] # <<>>,
         NEW ms \in Seq(Messages), Post(z, pop, ms), ~Any(ms, {"data", "acked", "refused"}),
         ~Takes(z, pop, {"data"}), Takes(z, pop, {"acked", "refused"}) => state'[z] = "CLOSED",
         UNCHANGED <<buffers, notAcked, closeIq, ghosts>>,
         state' \in [Sides -> States], state'[Peer(z)] = state[Peer(z)],
         state'[z] = state[z] \/ (state[z] \in Early /\ state'[z] \in Early \cup {"OPEN", "CLOSED"}),
         Handshake'
  PROVE  IBBInv'
  <1>1. Types /\ Own(z) /\ Own(Peer(z)) /\ Inbound(z)
    BY Sided DEF IBBInv
  <1>2. Moves(z, pop, ms) /\ to' \in [Sides -> Seq(Messages)]
    BY <1>1, Posted DEF Types
  <1>3. UNCHANGED <<inFlight, writeBuffer, writeBlocked, readBlocked, readBuffer, notAcked, closeIq,
                    sent, seq, upto, received, refused>>
    BY DEF buffers, ghosts
  <1>4. Types'
    BY <1>1, <1>2, <1>3 DEF Types
  <1>5. Same(Peer(z))
    BY <1>3 DEF Same
  <1>6. state'[z] # "CLOSED" => state[z] # "CLOSED"
    BY DEF Early
  <1>7. Step(z, pop, <<>>, ms)
    <2>1. /\ upto'[z] = upto[z] /\ seq'[z] = seq[z] /\ received'[z] = received[z] /\ notAcked'[z] = notAcked[z]
          /\ inFlight'[z] = inFlight[z]
      BY <1>3
    <2> QED BY <1>1, <1>2, <1>5, <1>6, <2>1, IdleStep
  <1>8. state[z] \in Early => /\ writeBuffer[z] = <<>> /\ ~closeIq[z] /\ ~readBlocked[z] /\ notAcked[z] = <<>>
    BY <1>1 DEF Own, Unused, Sender, Reader, Types, Early
  <1>9. Quiet(z)
    BY <1>1, <1>3, <1>6, <1>8 DEF Quiet, Own, Sender, Early
  <1>10. Reader(z)'
    BY <1>1, <1>3, <1>8 DEF Reader, Own
  <1>11. Own(z)'
    BY <1>1, <1>9, <1>10, OwnQuiet
  <1>12. Unread(z, pop)
    BY <1>3 DEF Unread, Over, Early
  <1>13. Inbound(z)'
    BY <1>1, <1>2, <1>5, <1>12, OwnInbound
  <1> QED BY <1>4, <1>7, <1>11, <1>13, StepKept


LEMMA Arrived ==
  ASSUME NEW z \in Sides, Types, NEW t, Arrives(z, t)
  PROVE  /\ to[z] \in Seq(Messages) /\ to[z] # <<>> /\ Head(to[z]) = to[z][1]
         /\ to[z][1] \in Messages /\ to[z][1].type = t
         /\ \A T : Takes(z, TRUE, T) <=> t \in T
  <1>1. to[z] \in Seq(Messages) /\ to[z] # <<>> /\ Head(to[z]).type = t
    BY DEF Types, Arrives
  <1>2. Head(to[z]) = to[z][1] /\ to[z][1] \in Messages
    BY <1>1, Popped
  <1> QED BY <1>1, <1>2 DEF Takes

LEMMA NoDataYet ==
  ASSUME NEW z \in Sides, IBBInv, seq[Peer(z)] = 0
  PROVE  ~Any(to[z], {"data"}) /\ \A T : ~(Takes(z, TRUE, {"data"}) /\ to[z] # <<>>)
  <1>1. Len(upto[Peer(z)]) = 0 /\ InOrder(upto[Peer(z)], to[z]) /\ to[z] \in Seq(Messages)
    BY Sided DEF IBBInv, Own, Sender, Inbound, Types
  <1>2. \A i \in 1 .. Len(to[z]) : to[z][i].type # "data"
    BY <1>1 DEF InOrder, Carries
  <1>3. to[z] # <<>> => 1 \in 1 .. Len(to[z])
    BY <1>1, Popped
  <1> QED BY <1>2, <1>3 DEF Any, Takes

LEMMA NoAnswersYet ==
  ASSUME NEW z \in Sides, IBBInv, to[z] # <<>>, Takes(z, TRUE, {"acked", "refused"})
  PROVE  to[z][1].id \in 1 .. seq[z] /\ state[z] \notin Early
  <1>1. /\ Len(upto[z]) = seq[z] /\ (state[z] \in Early => seq[z] = 0) /\ seq[z] \in Nat
        /\ Truthful(upto[z], to[z], Len(received[Peer(z)])) /\ to[z] \in Seq(Messages)
    BY DEF IBBInv, Own, Sender, Unused, Answers, Types
  <1>2. 1 \in 1 .. Len(to[z])
    BY <1>1, Popped
  <1>3. to[z][1].id \in 1 .. seq[z]
    BY <1>1, <1>2 DEF Truthful, Takes
  <1> QED BY <1>1, <1>3

(* An answer to a close stanza, and a close stanza that comes too late.       *)
LEMMA CloseAnsweredKept ==
  ASSUME NEW z \in Sides, IBBInv,
         CloseReplyArrives(z) \/ LateReplyArrives(z) \/ (CloseArrives(z) /\ state[z] \in {"NONE", "CLOSED"})
  PROVE  IBBInv'
  <1>1. Types /\ Handshake /\ to \in [Sides -> Seq(Messages)] /\ state \in [Sides -> States]
    BY DEF IBBInv, Types
  <1>2. PICK t \in {"close", "close-acked", "close-refused", "acked", "refused"}, ms \in {<<>>, <<Plain("close-refused")>>} :
          /\ Arrives(z, t) /\ Post(z, TRUE, ms) /\ UNCHANGED <<state, buffers, notAcked, closeIq, ghosts>>
          /\ t \in {"acked", "refused"} => state[z] = "CLOSED"
    BY DEF CloseReplyArrives, LateReplyArrives, CloseArrives
  <1>3. /\ ms \in Seq(Messages) /\ ~Any(ms, {"data", "acked", "refused"})
        /\ ~Any(ms, Opened) /\ ~Any(ms, {"open"}) /\ ~Any(ms, {"opened"}) /\ ~Any(ms, {"data"})
        /\ ~Any(ms, Offers) /\ Once(ms, Offers)
    <2>1. CASE ms = <<>>
      BY <2>1, None
    <2>2. CASE ms = <<Plain("close-refused")>>
      <3>1. Plain("close-refused") \in Messages /\ Plain("close-refused").type = "close-refused"
        BY PlainMessage DEF MessageTypes
      <3>2. ms \in Seq(Messages) /\ \A T : (Any(ms, T) <=> "close-refused" \in T) /\ Once(ms, T)
        BY <2>2, <3>1, One
      <3> QED BY <3>2 DEF Opened, Offers
    <2> QED BY <2>1, <2>2
  <1>4. to[z] # <<>> /\ to[z][1].type = t
    BY <1>1, <1>2, Arrived
  <1>5. Moves(z, TRUE, ms)
    BY <1>1, <1>2, <1>3, <1>4, Posted
  <1>6. UNCHANGED <<state, buffers, notAcked, closeIq, ghosts>> /\ seq' = seq
    BY <1>2 DEF ghosts
  <1>7. Aside(z, TRUE, ms)
    <2>1. ~Takes(z, TRUE, {"open"}) /\ ~Takes(z, TRUE, Opened) /\ ~Takes(z, TRUE, {"opened"}) /\ ~Takes(z, TRUE, Offers)
      BY <1>4 DEF Opened, Offers, Takes
    <2> QED BY <1>3, <1>6, <2>1 DEF Aside
  <1>8. Handshake'
    BY <1>1, <1>3, <1>5, <1>7, HandshakeAside
  <1>9. ~Takes(z, TRUE, {"data"}) /\ (Takes(z, TRUE, {"acked", "refused"}) => state'[z] = "CLOSED")
    BY <1>2, <1>4 DEF Takes
  <1> QED BY <1>1, <1>2, <1>3, <1>4, <1>6, <1>8, <1>9, IdleKept

(* The handshake.                                                             *)
LEMMA OpeningKept ==
  ASSUME NEW z \in Sides, IBBInv, NEW pop \in BOOLEAN, pop => to[z] # <<>>,
         NEW ms \in {<<>>} \cup {<<Plain(t)>> : t \in {"accepted", "open", "opened", "not-opened"}},
         Post(z, pop, ms), Opens(z, pop, ms), UNCHANGED <<buffers, notAcked, closeIq, ghosts>>,
         state' \in [Sides -> States], state'[Peer(z)] = state[Peer(z)]
  PROVE  IBBInv'
  <1>1. Types /\ Handshake /\ to \in [Sides -> Seq(Messages)] /\ to[z] \in Seq(Messages)
    BY DEF IBBInv, Types
  <1>2. ms \in Seq(Messages) /\ ~Any(ms, {"data", "acked", "refused"})
    <2>1. CASE ms = <<>>
      BY <2>1, None
    <2>2. ASSUME NEW t \in {"accepted", "open", "opened", "not-opened"}, ms = <<Plain(t)>>
          PROVE  ms \in Seq(Messages) /\ ~Any(ms, {"data", "acked", "refused"})
      <3>1. Plain(t) \in Messages /\ Plain(t).type = t
        BY PlainMessage DEF MessageTypes
      <3>2. ms \in Seq(Messages) /\ \A T : (Any(ms, T) <=> t \in T)
        BY <2>2, <3>1, One
      <3> QED BY <3>2
    <2> QED BY <2>1, <2>2
  <1>3. Moves(z, pop, ms)
    BY <1>1, <1>2, Posted
  <1>4. seq' = seq
    BY DEF ghosts
  <1>5. seq["b"] = 0 => ~Any(to["a"], {"data"})
    <2>1. "a" \in Sides /\ Peer("a") = "b"
      BY DEF Sides, Peer
    <2> QED BY <2>1, NoDataYet
  <1>6. Handshake'
    BY <1>1, <1>2, <1>3, <1>4, <1>5, HandshakeOpens
  <1>7. ~Takes(z, pop, {"data"}) /\ ~Takes(z, pop, {"acked", "refused"})
    BY DEF Opens, Takes, Opened
  <1>8. pop => \A T : to[z][1].type \in T => Any(to[z], T)
    <2>1. pop => 1 \in 1 .. Len(to[z])
      BY <1>1, Popped
    <2> QED BY <2>1 DEF Any
  <1>9. state'[z] = state[z] \/ (state[z] \in Early /\ state'[z] \in Early \cup {"OPEN", "CLOSED"})
    <2>1. CASE to[z][1].type \in Offers /\ pop /\ z = "a" /\ state'["a"] \in {"INITIATING", "CLOSED"}
      <3>1. state["a"] = "NONE"
        BY <1>1, <1>8, <2>1 DEF Handshake
      <3> QED BY <2>1, <3>1 DEF Early
    <2>2. CASE to[z][1].type \in Opened /\ pop
               /\ state'[z] = IF to[z][1].type = "opened" /\ state[z] # "CLOSED" THEN "OPEN" ELSE "CLOSED"
      <3>1. z = "a"
        BY <1>1, <1>8, <2>2 DEF Handshake, Sides
      <3>2. state[z] \in {"INITIATING", "CLOSED"}
        BY <1>1, <1>8, <2>2, <3>1 DEF Handshake
      <3> QED BY <2>2, <3>2 DEF Early
    <2>3. CASE state[z] \in {"LOCAL_PENDING", "ACCEPTED"} /\ state'[z] \in {"ACCEPTED", "OPEN"}
      BY <2>3 DEF Early
    <2> QED BY <2>1, <2>2, <2>3 DEF Opens, Offers
  <1> QED BY <1>2, <1>6, <1>7, <1>9, IdleKept

LEMMA HandshakeKept ==
  ASSUME NEW z \in Sides, IBBInv,
         (z = "b" /\ Accept) \/ (z = "a" /\ SiReplyArrives) \/ OpenArrives(z) \/ OpenReplyArrives(z)
  PROVE  IBBInv'
  <1>1. Types /\ state \in [Sides -> States] /\ Peer(z) # z
    BY Sided DEF IBBInv, Types
  <1>2. CASE z = "b" /\ Accept
    <2>1. state' \in [Sides -> States] /\ state'[Peer(z)] = state[Peer(z)] /\ state'["b"] = "ACCEPTED"
      BY <1>1, <1>2 DEF Accept, States
    <2>2. Opens(z, FALSE, <<Plain("accepted")>>)
      BY <1>2, <2>1 DEF Accept, Opens
    <2> QED BY <1>2, <2>1, <2>2, OpeningKept DEF Accept
  <1>3. CASE z = "a" /\ SiReplyArrives /\ Arrives("a", "accepted") /\ Post("a", TRUE, <<Plain("open")>>)
             /\ state' = [state EXCEPT !["a"] = "INITIATING"]
    <2>1. state' \in [Sides -> States] /\ state'[Peer(z)] = state[Peer(z)] /\ state'["a"] = "INITIATING"
      BY <1>1, <1>3 DEF States
    <2>2. to[z] # <<>> /\ to[z][1].type = "accepted"
      BY <1>1, <1>3, Arrived
    <2>3. Opens(z, TRUE, <<Plain("open")>>)
      BY <1>3, <2>1, <2>2 DEF Opens
    <2> QED BY <1>3, <2>1, <2>2, <2>3, OpeningKept DEF SiReplyArrives
  <1>4. CASE z = "a" /\ SiReplyArrives /\ Arrives("a", "declined") /\ Post("a", TRUE, <<>>)
             /\ state' = [state EXCEPT !["a"] = "CLOSED"]
    <2>1. state' \in [Sides -> States] /\ state'[Peer(z)] = state[Peer(z)] /\ state'["a"] = "CLOSED"
      BY <1>1, <1>4 DEF States
    <2>2. to[z] # <<>> /\ to[z][1].type = "declined"
      BY <1>1, <1>4, Arrived
    <2>3. Opens(z, TRUE, <<>>)
      BY <1>4, <2>1, <2>2 DEF Opens
    <2> QED BY <1>4, <2>1, <2>2, <2>3, OpeningKept DEF SiReplyArrives
  <1>5. CASE OpenArrives(z) /\ state[z] = "ACCEPTED"
    <2>1. state' \in [Sides -> States] /\ state'[Peer(z)] = state[Peer(z)] /\ state'[z] = "OPEN"
      <3>1. state' = [state EXCEPT ![z] = "OPEN"] /\ "OPEN" \in States
        BY <1>5 DEF OpenArrives, States
      <3> QED BY <1>1, <3>1
    <2>2. to[z] # <<>> /\ to[z][1].type = "open"
      BY <1>1, <1>5, Arrived DEF OpenArrives
    <2>3. Opens(z, TRUE, <<Plain("opened")>>)
      BY <1>5, <2>1, <2>2 DEF Opens
    <2> QED BY <1>5, <2>1, <2>2, <2>3, OpeningKept DEF OpenArrives
  <1>6. CASE OpenArrives(z) /\ state[z] # "ACCEPTED"
    <2>1. state' \in [Sides -> States] /\ state' = state
      BY <1>1, <1>6 DEF OpenArrives
    <2>2. to[z] # <<>> /\ to[z][1].type = "open"
      BY <1>1, <1>6, Arrived DEF OpenArrives
    <2>3. Opens(z, TRUE, <<Plain("not-opened")>>)
      BY <1>6, <2>1, <2>2 DEF Opens
    <2> QED BY <1>6, <2>1, <2>2, <2>3, OpeningKept DEF OpenArrives
  <1>7. CASE OpenReplyArrives(z)
    <2>1. PICK t \in Opened : Arrives(z, t)
      BY <1>7 DEF OpenReplyArrives, Opened
    <2>2. to[z] # <<>> /\ to[z][1].type = t /\ Head(to[z]) = to[z][1]
      BY <1>1, <2>1, Arrived
    <2>3. Arrives(z, "opened") <=> to[z][1].type = "opened"
      BY <2>2 DEF Arrives
    <2>4. /\ state' \in [Sides -> States] /\ state'[Peer(z)] = state[Peer(z)]
          /\ state'[z] = IF to[z][1].type = "opened" /\ state[z] # "CLOSED" THEN "OPEN" ELSE "CLOSED"
      BY <1>1, <1>7, <2>3 DEF States, OpenReplyArrives
    <2>5. Opens(z, TRUE, <<>>)
      BY <2>1, <2>2, <2>4 DEF Opens
    <2> QED BY <1>7, <2>2, <2>4, <2>5, OpeningKept DEF OpenReplyArrives
  <1> QED BY <1>2, <1>3, <1>4, <1>5, <1>6, <1>7 DEF SiReplyArrives


(* The stream is closed, or waits for its write buffer to be sent.            *)
LEMMA ClosingKept ==
  ASSUME NEW z \in Sides, IBBInv, NEW pop \in BOOLEAN, pop => to[z] # <<>>,
         NEW before \in Seq(Messages), \A T : Any(before, T) => "refused" \in T,
         Truthful(upto[Peer(z)], before, Len(received[z])),
         NEW cq \in BOOLEAN, Close(z, pop, before, cq), state[z] \notin {"NONE", "CLOSED"},
         UNCHANGED <<sent, seq, upto, received>>,
         inFlight' \in [Sides -> SUBSET Nat], inFlight'[Peer(z)] = inFlight[Peer(z)],
         inFlight'[z] \subseteq inFlight[z],
         Takes(z, pop, {"acked", "refused"}) => to[z][1].id \notin inFlight'[z],
         Takes(z, pop, {"data"}) => Answered(before, to[z][1].id),
         ~Takes(z, pop, {"open"}), ~Takes(z, pop, Opened), ~Takes(z, pop, {"opened"}), ~Takes(z, pop, Offers)
  PROVE  IBBInv'
  <1> DEFINE y == Peer(z)
  <1>1. Types /\ Own(z) /\ Own(y) /\ Inbound(z) /\ y \in Sides /\ Handshake
    BY Sided DEF IBBInv
  <1>2. ~Any(before, Offers)
    BY DEF Offers
  <1>3. /\ LocalTypes' /\ LocalSame(y) /\ notAcked'[z] = <<>> /\ (Finished(z) \/ Waits(z))
        /\ to' \in [Sides -> Seq(Messages)]
        /\ \E after : Answering(z, before, after) /\ Moves(z, pop, after)
    BY <1>1, <1>2, Closing
  <1>4. PICK after : Answering(z, before, after) /\ Moves(z, pop, after)
    BY <1>3
  <1>5. after \in Seq(Messages)
    BY <1>4 DEF Answering
  <1>6. Types'
    BY <1>1, <1>3 DEF Types, LocalTypes
  <1>7. Same(y)
    BY <1>3 DEF Same, LocalSame
  <1>8. state'[z] \in Over /\ (state'[z] = "CLOSING" => state[z] \in {"OPEN", "CLOSING"})
    BY <1>1, <1>3 DEF Finished, Waits, Over, Own, Unused, Types, States, Early
  <1>9. ASSUME NEW T, Any(after, T) PROVE "refused" \in T \/ \E t \in FinalTypes(z) : t \in T
    BY <1>4, <1>9 DEF Answering
  <1>10. /\ ~Any(after, Opened) /\ ~Any(after, {"open"}) /\ ~Any(after, {"opened"}) /\ ~Any(after, {"data"})
         /\ Any(after, Offers) => state[z] = "LOCAL_PENDING" /\ state'[z] = "CLOSED"
         /\ Once(after, Offers)
    <2>1. ~Any(after, Opened)
      BY <1>9 DEF Opened, FinalTypes
    <2>2. ~Any(after, {"open"}) /\ ~Any(after, {"opened"}) /\ ~Any(after, {"data"})
      BY <1>9 DEF FinalTypes
    <2>3. Any(after, Offers) => state[z] = "LOCAL_PENDING"
      BY <1>9 DEF FinalTypes, Offers
    <2>4. Once(after, Offers)
      BY <1>2, <1>4 DEF Answering
    <2> QED BY <1>8, <2>1, <2>2, <2>3, <2>4 DEF Over
  <1>11. Aside(z, pop, after)
    BY <1>7, <1>8, <1>10 DEF Aside, Over, Same
  <1>12. Handshake'
    BY <1>1, <1>4, <1>5, <1>11, HandshakeAside DEF Types
  <1>13. Step(z, pop, <<>>, after)
    <2>1. <<>> \o after = after /\ <<>> \in Seq(Messages) /\ Len(<<>>) = 0
      BY <1>5, EmptySeq, ConcatEmptySeq
    <2>2. Cut(upto[z], <<>>, upto'[z]) /\ seq[z] \in Nat
      BY <1>1, NothingCut DEF Own, Sender, Types
    <2>3. Truthful(upto[y], after, Len(received[z]))
      <3>1. \A k \in 1 .. Len(notAcked[z]) : notAcked[z][k] \in 1 .. Len(upto[y])
        BY <1>1 DEF Inbound, Own, Sender
      <3> QED BY <1>4, <3>1 DEF Answering
    <2>4. \A id : (Takes(z, pop, {"data"}) /\ to[z][1].id = id) \/ Kept(z, id) => Answered(after, id)
      BY <1>4 DEF Answering
    <2>5. Len(received[z]) \in Nat
      BY <1>1, LenProperties DEF Types
    <2>6. Moves(z, pop, <<>> \o after)
      BY <1>4, <2>1
    <2>7. received' = received /\ seq'[z] = seq[z] + Len(<<>>) /\ Len(received[z]) <= Len(received'[z])
      BY <2>1, <2>2, <2>5
    <2>8. \A id \in inFlight'[z] : id \in inFlight[z] /\ ~(Takes(z, pop, {"acked", "refused"}) /\ to[z][1].id = id)
      OBVIOUS
    <2> QED BY <1>5, <1>7, <1>10, <2>1, <2>2, <2>3, <2>4, <2>6, <2>7, <2>8 DEF Step
  <1>14. Quiet(z)
    <2>1. writeBlocked'[z] = (writeBuffer'[z] # <<>>)
      <3>1. CASE Finished(z)
        <4>1. writeBlocked'[z] \in BOOLEAN
          BY <1>6 DEF Types
        <4> QED BY <3>1, <4>1, Zenon DEF Finished
      <3>2. CASE Waits(z)
        BY <1>1, <3>2 DEF Waits, Own, Sender
      <3> QED BY <1>3, <3>1, <3>2
    <2>2. closeIq'[z] => state'[z] = "CLOSING"
      BY <1>3 DEF Finished, Waits
    <2>3. writeBuffer'[z] = writeBuffer[z] \/ (writeBuffer'[z] = <<>> /\ state'[z] = "CLOSED")
      BY <1>3 DEF Finished, Waits
    <2> QED BY <1>8, <2>1, <2>2, <2>3 DEF Quiet, Over, Early
  <1>15. Reader(z)'
    <2>1. Len(<<>>) = 0 /\ ReadBufferMax \in Nat
      BY EmptySeq, IBBAssumption
    <2> QED BY <1>1, <1>3, <2>1 DEF Reader, Own, Finished, Waits
  <1>16. Own(z)'
    BY <1>1, <1>14, <1>15, OwnQuiet
  <1>17. Unread(z, pop)
    BY <1>3, <1>8 DEF Unread, Finished, Waits
  <1>18. Inbound(z)'
    BY <1>1, <1>4, <1>7, <1>17, OwnInbound
  <1> QED BY <1>6, <1>12, <1>13, <1>16, <1>18, StepKept


LEMMA CloseKept ==
  ASSUME NEW z \in Sides, IBBInv,
         \/ UserClose(z) \/ RefusalArrives(z) \/ DataOverflows(z)
         \/ CloseArrives(z) /\ state[z] \notin {"NONE", "CLOSED"}
  PROVE  IBBInv'
  <1>1. Types /\ closeIq[z] \in BOOLEAN /\ inFlight \in [Sides -> SUBSET Nat] /\ Peer(z) \in Sides /\ Peer(z) # z
    BY Sided DEF IBBInv, Types
  <1>2. <<>> \in Seq(Messages) /\ (\A T : ~Any(<<>>, T)) /\ Truthful(upto[Peer(z)], <<>>, Len(received[z]))
    BY None DEF Truthful
  <1>3. CASE UserClose(z)
    <2>1. /\ Close(z, FALSE, <<>>, closeIq[z]) /\ state[z] \notin {"NONE", "CLOSED"} /\ UNCHANGED inFlight
          /\ UNCHANGED <<sent, seq, upto, received>>
      BY <1>3 DEF UserClose
    <2>2. \A T : ~Takes(z, FALSE, T)
      BY DEF Takes
    <2> QED BY <1>1, <1>2, <2>1, <2>2, ClosingKept
  <1>4. CASE RefusalArrives(z)
    <2>1. /\ Close(z, TRUE, <<>>, closeIq[z]) /\ state[z] # "CLOSED" /\ Arrives(z, "refused")
          /\ UNCHANGED <<sent, seq, upto, received>>
          /\ inFlight' = [inFlight EXCEPT ![z] = @ \ {Head(to[z]).id}]
      BY <1>4 DEF RefusalArrives
    <2>2. to[z] # <<>> /\ to[z][1].type = "refused" /\ Head(to[z]) = to[z][1]
      BY <1>1, <2>1, Arrived
    <2>3. state[z] \notin {"NONE", "CLOSED"}
      <3>1. Takes(z, TRUE, {"acked", "refused"})
        BY <2>2 DEF Takes
      <3>2. state[z] \notin Early
        BY <2>2, <3>1, NoAnswersYet
      <3> QED BY <2>1, <3>2 DEF Early
    <2>4. /\ inFlight' \in [Sides -> SUBSET Nat] /\ inFlight'[Peer(z)] = inFlight[Peer(z)]
          /\ inFlight'[z] = inFlight[z] \ {to[z][1].id}
      BY <1>1, <2>1, <2>2
    <2>5. /\ ~Takes(z, TRUE, {"data"}) /\ ~Takes(z, TRUE, {"open"}) /\ ~Takes(z, TRUE, Opened)
          /\ ~Takes(z, TRUE, {"opened"}) /\ ~Takes(z, TRUE, Offers)
      BY <2>2 DEF Takes, Opened, Offers
    <2> QED BY <1>1, <1>2, <2>1, <2>2, <2>3, <2>4, <2>5, ClosingKept
  <1>5. CASE CloseArrives(z) /\ state[z] \notin {"NONE", "CLOSED"}
    <2>1. /\ Close(z, TRUE, <<>>, TRUE) /\ Arrives(z, "close") /\ UNCHANGED inFlight
          /\ UNCHANGED <<sent, seq, upto, received>>
      BY <1>5 DEF CloseArrives, ghosts
    <2>2. to[z] # <<>> /\ to[z][1].type = "close"
      BY <1>1, <2>1, Arrived
    <2>3. /\ ~Takes(z, TRUE, {"data"}) /\ ~Takes(z, TRUE, {"open"}) /\ ~Takes(z, TRUE, Opened)
          /\ ~Takes(z, TRUE, {"opened"}) /\ ~Takes(z, TRUE, Offers) /\ ~Takes(z, TRUE, {"acked", "refused"})
      BY <2>2 DEF Takes, Opened, Offers
    <2> QED BY <1>1, <1>2, <1>5, <2>1, <2>2, <2>3, ClosingKept
  <1>6. CASE DataOverflows(z)
    <2> DEFINE id == to[z][1].id
               before == Refusals(<<id>>)
    <2>1. /\ Close(z, TRUE, Refusals(<<Message(z).id>>), closeIq[z]) /\ Arrives(z, "data") /\ UNCHANGED inFlight
          /\ UNCHANGED <<sent, seq, upto, received>> /\ state[z] = "OPEN"
      BY <1>6 DEF DataOverflows
    <2>2. to[z] \in Seq(Messages) /\ to[z] # <<>> /\ to[z][1].type = "data" /\ Head(to[z]) = to[z][1] /\ to[z][1] \in Messages
      BY <1>1, <2>1, Arrived
    <2>3. /\ ~Takes(z, TRUE, {"acked", "refused"}) /\ ~Takes(z, TRUE, {"open"}) /\ ~Takes(z, TRUE, Opened)
          /\ ~Takes(z, TRUE, {"opened"}) /\ ~Takes(z, TRUE, Offers)
      BY <2>2 DEF Takes, Opened, Offers
    <2>4. id \in Nat
      BY <2>2 DEF Messages
    <2>5. before \in Seq(Messages) /\ Len(before) = 1 /\ before[1].type = "refused" /\ before[1].id = id
      BY <2>4, OneAnswer
    <2>6. id \in 1 .. Len(upto[Peer(z)])
      <3>1. 1 \in 1 .. Len(to[z])
        BY <2>2, Popped
      <3> QED BY <2>2, <3>1 DEF IBBInv, Inbound, InOrder, Carries
    <2>7. Close(z, TRUE, before, closeIq[z])
      BY <2>1, <2>2 DEF Message
    <2> HIDE DEF before, id
    <2>8. Truthful(upto[Peer(z)], before, Len(received[z]))
      BY <2>5, <2>6 DEF Truthful
    <2>9. Answered(before, to[z][1].id)
      BY <2>5 DEF Answered, id
    <2>10. \A T : Any(before, T) => "refused" \in T
      BY <2>5 DEF Any
    <2> QED BY <1>1, <2>1, <2>2, <2>3, <2>5, <2>7, <2>8, <2>9, <2>10, ClosingKept
  <1> QED BY <1>3, <1>4, <1>5, <1>6


(* A step that takes data or gives them to the user.                          *)
LEMMA ReadingKept ==
  ASSUME NEW z \in Sides, IBBInv, NEW pop \in BOOLEAN, NEW after \in Seq(Messages),
         Moves(z, pop, after), to' \in [Sides -> Seq(Messages)],
         \A T : Any(after, T) => "acked" \in T \/ "refused" \in T,
         \A T : Takes(z, pop, T) => "data" \in T,
         UNCHANGED <<state, inFlight, writeBuffer, writeBlocked, closeIq, sent, seq, upto>>,
         readBuffer' \in [Sides -> Seq(Nat)], readBuffer'[Peer(z)] = readBuffer[Peer(z)],
         readBlocked' \in [Sides -> BOOLEAN], readBlocked'[Peer(z)] = readBlocked[Peer(z)],
         notAcked' \in [Sides -> Seq(Nat)], notAcked'[Peer(z)] = notAcked[Peer(z)],
         received' \in [Sides -> Seq(Nat)], received'[Peer(z)] = received[Peer(z)],
         Reader(z)', Inbound(z)', Len(received[z]) <= Len(received'[z]),
         Truthful(upto[Peer(z)], after, Len(received'[z])),
         \A id : (Takes(z, pop, {"data"}) /\ to[z][1].id = id) \/ Kept(z, id) => Kept(z, id)' \/ Answered(after, id)
  PROVE  IBBInv'
  <1>1. Types /\ Own(z) /\ Handshake /\ upto[z] \in Seq(Nat) /\ seq[z] \in Nat
    BY DEF IBBInv, Types
  <1>2. Types'
    BY <1>1 DEF Types
  <1>3. Same(Peer(z))
    BY DEF Same
  <1>4. Aside(z, pop, after)
    <2>1. ~Any(after, Opened) /\ ~Any(after, Offers) /\ ~Takes(z, pop, Opened) /\ ~Takes(z, pop, Offers)
      BY DEF Opened, Offers
    <2>2. /\ ~Any(after, {"open"}) /\ ~Any(after, {"opened"}) /\ ~Any(after, {"data"})
          /\ ~Takes(z, pop, {"open"}) /\ ~Takes(z, pop, {"opened"})
      OBVIOUS
    <2>3. Once(after, Offers)
      BY <2>1 DEF Once, Any
    <2> QED BY <2>1, <2>2, <2>3 DEF Aside
  <1>5. Handshake'
    BY <1>1, <1>4, HandshakeAside DEF Types
  <1>6. Quiet(z)
    BY <1>1 DEF Quiet, Own, Sender
  <1>7. Own(z)'
    BY <1>1, <1>6, OwnQuiet
  <1>8. Step(z, pop, <<>>, after)
    <2>1. <<>> \o after = after /\ <<>> \in Seq(Messages) /\ Len(<<>>) = 0
      BY EmptySeq, ConcatEmptySeq
    <2>2. Cut(upto[z], <<>>, upto'[z])
      BY <1>1, NothingCut DEF Own, Sender
    <2>3. Moves(z, pop, <<>> \o after)
      BY <2>1
    <2>4. seq'[z] = seq[z] + Len(<<>>)
      BY <1>1, <2>1
    <2>5. ~Any(after, {"data"}) /\ ~Takes(z, pop, {"acked", "refused"})
      OBVIOUS
    <2> QED BY <1>3, <2>1, <2>2, <2>3, <2>4, <2>5 DEF Step
  <1> QED BY <1>2, <1>5, <1>7, <1>8, StepKept

(* The data stanza at the head of the queue.                                  *)
LEMMA DataArrived ==
  ASSUME NEW z \in Sides, IBBInv, Arrives(z, "data")
  PROVE  /\ Message(z) = to[z][1] /\ to[z][1] \in Messages /\ to[z] # <<>> /\ to[z] \in Seq(Messages)
         /\ to[z][1].id \in 1 .. Len(upto[Peer(z)]) /\ to[z][1].id \in Nat
         /\ to[z][1].body \in Seq(Nat) /\ Len(to[z][1].body) \in Nat
         /\ Takes(z, TRUE, {"data"}) /\ (\A T : Takes(z, TRUE, T) => "data" \in T)
         /\ state[z] \notin Early
  <1>1. /\ Types /\ to[z] \in Seq(Messages) /\ to[z] # <<>> /\ to[z][1].type = "data"
        /\ Head(to[z]) = to[z][1] /\ to[z][1] \in Messages
    BY Arrived DEF IBBInv
  <1>2. 1 \in 1 .. Len(to[z])
    BY <1>1, Popped
  <1>3. to[z][1].id \in 1 .. Len(upto[Peer(z)])
    BY <1>1, <1>2 DEF IBBInv, Inbound, InOrder, Carries
  <1>4. /\ to[z][1].body \in Seq(Nat) /\ to[z][1].id \in Nat /\ Len(to[z][1].body) \in Nat
    BY <1>1, LenProperties DEF Messages
  <1>5. Takes(z, TRUE, {"data"}) /\ (\A T : Takes(z, TRUE, T) => "data" \in T)
    BY <1>1 DEF Takes
  <1>6. seq[Peer(z)] # 0
    BY <1>1, <1>5, NoDataYet
  <1>7. state[z] \notin Early
    <2>1. CASE z = "b"
      BY <1>6, <2>1 DEF IBBInv, Handshake, Peer, Early
    <2>2. CASE z = "a"
      <3>1. state["a"] # "NONE"
        BY <1>6, <2>2 DEF IBBInv, Handshake, Peer
      <3>2. state["a"] # "INITIATING"
        <4>1. DataFollows(to["a"]) => to["a"][1].type # "data"
          BY <1>1, <2>2, FollowsPopped
        <4> QED BY <1>1, <2>2, <4>1 DEF IBBInv, Handshake
      <3> QED BY <2>2, <3>1, <3>2 DEF IBBInv, Handshake, Early
    <2> QED BY <2>1, <2>2 DEF Sides
  <1> QED BY <1>1, <1>3, <1>4, <1>5, <1>7 DEF Message

LEMMA DataRefusedKept ==
  ASSUME NEW z \in Sides, IBBInv, DataRefused(z)
  PROVE  IBBInv'
  <1> DEFINE id == to[z][1].id
             after == Refusals(<<id>>)
  <1>1. /\ Arrives(z, "data") /\ state[z] # "OPEN" /\ Post(z, TRUE, Refusals(<<Message(z).id>>))
        /\ UNCHANGED <<state, inFlight, writeBuffer, writeBlocked, readBlocked, readBuffer, notAcked, closeIq,
                       sent, seq, upto, received>>
    BY DEF DataRefused, buffers, ghosts
  <1>2. /\ Message(z) = to[z][1] /\ to[z] # <<>> /\ id \in 1 .. Len(upto[Peer(z)]) /\ id \in Nat
        /\ Takes(z, TRUE, {"data"}) /\ (\A T : Takes(z, TRUE, T) => "data" \in T) /\ state[z] \notin Early
    BY <1>1, DataArrived
  <1>3. after \in Seq(Messages) /\ Len(after) = 1 /\ after[1].type = "refused" /\ after[1].id = id
    BY <1>2, OneAnswer
  <1>4. Post(z, TRUE, after)
    BY <1>1, <1>2
  <1> HIDE DEF after, id
  <1>5. /\ \A T : Any(after, T) => "acked" \in T \/ "refused" \in T
        /\ Truthful(upto[Peer(z)], after, Len(received'[z]))
        /\ Answered(after, id)
    BY <1>2, <1>3 DEF Any, Truthful, Answered
  <1>6. Types /\ Own(z) /\ Inbound(z) /\ Own(Peer(z)) /\ Len(received[z]) \in Nat
    BY Sided, LenProperties DEF IBBInv, Types
  <1>7. Moves(z, TRUE, after) /\ to' \in [Sides -> Seq(Messages)]
    BY <1>2, <1>3, <1>4, <1>6, Posted DEF Types
  <1>8. Unread(z, TRUE)
    BY <1>1, <1>2, <1>6 DEF Unread, Types, States, Early, Over
  <1>9. Same(Peer(z))
    BY <1>1 DEF Same
  <1>10. Inbound(z)'
    BY <1>6, <1>7, <1>8, <1>9, OwnInbound
  <1>11. Reader(z)'
    BY <1>1, <1>6 DEF Reader, Own
  <1>12. /\ readBuffer' \in [Sides -> Seq(Nat)] /\ readBlocked' \in [Sides -> BOOLEAN]
         /\ notAcked' \in [Sides -> Seq(Nat)] /\ received' \in [Sides -> Seq(Nat)]
    BY <1>1, <1>6 DEF Types
  <1>13. \A m : (Takes(z, TRUE, {"data"}) /\ to[z][1].id = m) \/ Kept(z, m) => Kept(z, m)' \/ Answered(after, m)
    BY <1>1, <1>5 DEF Kept, id
  <1>14. Len(received[z]) <= Len(received'[z])
    BY <1>1, <1>6
  <1> QED BY <1>1, <1>2, <1>3, <1>5, <1>7, <1>10, <1>11, <1>12, <1>13, <1>14, ReadingKept


LEMMA Sums ==
  ASSUME NEW a \in Nat, NEW b \in Nat, NEW c \in Nat
  PROVE  a + b \in Nat /\ a + (b + c) = (a + b) + c /\ a <= a + b
  OBVIOUS

(* The data that arrive are the next ones.                                    *)
LEMMA NextData ==
  ASSUME NEW z \in Sides, IBBInv, Arrives(z, "data"), state[z] = "OPEN"
  PROVE  /\ Held(z) \in Nat /\ Run(to[z][1].body, Held(z))
         /\ Held(z) + Len(to[z][1].body) = upto[Peer(z)][to[z][1].id]
         /\ Held(z) + Len(to[z][1].body) <= Last(upto[Peer(z)], seq[Peer(z)])
         /\ Continues(upto[Peer(z)], Tail(to[z]), Held(z) + Len(to[z][1].body))
         /\ InOrder(upto[Peer(z)], Tail(to[z]))
  <1> DEFINE y == Peer(z)
  <1>1. /\ upto[y] \in Seq(Nat) /\ Rising(upto[y]) /\ Len(upto[y]) = seq[y]
        /\ InOrder(upto[y], to[z]) /\ Continues(upto[y], to[z], Held(z))
        /\ received[z] \in Seq(Nat) /\ readBuffer[z] \in Seq(Nat)
    BY Sided DEF IBBInv, Types, Own, Sender, Inbound, Over
  <1>2. to[z] \in Seq(Messages) /\ to[z] # <<>> /\ to[z][1].type = "data"
    BY Arrived DEF IBBInv
  <1>3. Held(z) \in Nat
    <2>1. Len(received[z]) \in Nat /\ Len(readBuffer[z]) \in Nat
      BY <1>1, LenProperties
    <2> QED BY <2>1, Sums, Zenon DEF Held
  <1> HIDE DEF y
  <1>4. /\ Run(to[z][1].body, Held(z))
        /\ Held(z) + Len(to[z][1].body) = upto[y][to[z][1].id]
        /\ Held(z) + Len(to[z][1].body) <= Last(upto[y], Len(upto[y]))
        /\ Continues(upto[y], Tail(to[z]), Held(z) + Len(to[z][1].body))
    BY <1>1, <1>2, <1>3, PopData
  <1>5. InOrder(upto[y], Tail(to[z]))
    BY <1>1, <1>2, PopOrder
  <1> QED BY <1>1, <1>3, <1>4, <1>5 DEF y

LEMMA DataBufferedKept ==
  ASSUME NEW z \in Sides, IBBInv, DataBuffered(z)
  PROVE  IBBInv'
  <1> DEFINE id == to[z][1].id
             body == to[z][1].body
             y == Peer(z)
  <1>1. /\ Arrives(z, "data") /\ state[z] = "OPEN" /\ Post(z, TRUE, <<>>)
        /\ readBlocked[z] /\ ~Overflows(z)
        /\ readBuffer' = [readBuffer EXCEPT ![z] = @ \o Message(z).body]
        /\ notAcked' = [notAcked EXCEPT ![z] = Append(@, Message(z).id)]
        /\ UNCHANGED <<state, inFlight, writeBuffer, writeBlocked, readBlocked, closeIq, sent, seq, upto, received>>
    BY DEF DataBuffered, ghosts
  <1>2. /\ Message(z) = to[z][1] /\ to[z] # <<>> /\ id \in 1 .. Len(upto[y]) /\ id \in Nat
        /\ body \in Seq(Nat) /\ Len(body) \in Nat
        /\ (\A T : Takes(z, TRUE, T) => "data" \in T)
    BY <1>1, DataArrived
  <1>3. /\ Held(z) \in Nat /\ Run(body, Held(z)) /\ Held(z) + Len(body) = upto[y][id]
        /\ Held(z) + Len(body) <= Last(upto[y], seq[y])
        /\ Continues(upto[y], Tail(to[z]), Held(z) + Len(body)) /\ InOrder(upto[y], Tail(to[z]))
    BY <1>1, NextData
  <1>4. /\ Types /\ Own(z) /\ Inbound(z) /\ received[z] \in Seq(Nat) /\ readBuffer[z] \in Seq(Nat)
        /\ Len(upto[y]) = seq[y] /\ y \in Sides /\ y # z
    BY Sided DEF IBBInv, Types, Own, Sender
  <1>5. Moves(z, TRUE, <<>>) /\ to' \in [Sides -> Seq(Messages)]
    BY <1>1, <1>2, <1>4, None, Posted DEF Types
  <1> HIDE DEF id, body, y
  <1>6. /\ readBuffer[z] \o body \in Seq(Nat) /\ Len(readBuffer[z] \o body) = Len(readBuffer[z]) + Len(body)
        /\ Len(readBuffer[z]) \in Nat /\ Len(received[z]) \in Nat
    BY <1>2, <1>4, JoinedBytes, LenProperties
  <1>7. /\ readBuffer' \in [Sides -> Seq(Nat)] /\ readBuffer'[y] = readBuffer[y]
        /\ readBuffer'[z] = readBuffer[z] \o body
    <2>1. readBuffer' = [readBuffer EXCEPT ![z] = readBuffer[z] \o body] /\ readBuffer \in [Sides -> Seq(Nat)]
      BY <1>1, <1>2, <1>4 DEF Types, body
    <2> QED BY <1>4, <1>6, <2>1
  <1>8. /\ notAcked' \in [Sides -> Seq(Nat)] /\ notAcked'[y] = notAcked[y]
        /\ notAcked'[z] = Append(notAcked[z], id) /\ notAcked[z] \in Seq(Nat)
    <2>1. notAcked' = [notAcked EXCEPT ![z] = Append(notAcked[z], id)] /\ notAcked \in [Sides -> Seq(Nat)]
      BY <1>1, <1>2, <1>4 DEF Types, id
    <2>2. Append(notAcked[z], id) \in Seq(Nat)
      BY <1>2, <2>1
    <2> QED BY <1>4, <2>1, <2>2
  <1>9. /\ Len(notAcked'[z]) = Len(notAcked[z]) + 1 /\ Len(notAcked[z]) \in Nat
        /\ notAcked'[z][Len(notAcked[z]) + 1] = id
        /\ \A k \in 1 .. Len(notAcked[z]) : notAcked'[z][k] = notAcked[z][k]
    BY <1>2, <1>8, AppendProperties, LenProperties
  <1>10. Reader(z)'
    <2>1. Len(readBuffer[z]) + Len(body) <= ReadBufferMax
      <3>1. ~(Len(readBuffer[z]) + Len(body) > ReadBufferMax)
        BY <1>1, <1>2 DEF Overflows, body
      <3>2. Len(readBuffer[z]) \in Nat /\ Len(body) \in Nat /\ ReadBufferMax \in Nat
        BY <1>2, <1>6, IBBAssumption
      <3> QED BY <3>1, <3>2
    <2>2. Len(readBuffer'[z]) <= ReadBufferMax
      BY <1>6, <1>7, <2>1
    <2> QED BY <1>1, <2>2 DEF Reader
  <1>11. Held(z)' = Held(z) + Len(body)
    <2>1. Held(z)' = Len(received[z]) + Len(readBuffer'[z]) /\ Held(z) = Len(received[z]) + Len(readBuffer[z])
      BY <1>1 DEF Held
    <2>2. Len(readBuffer'[z]) = Len(readBuffer[z]) + Len(body)
      BY <1>6, <1>7
    <2>3. Len(readBuffer[z]) \in Nat /\ Len(received[z]) \in Nat /\ Len(body) \in Nat
      BY <1>2, <1>6
    <2>4. Len(received[z]) + (Len(readBuffer[z]) + Len(body)) = (Len(received[z]) + Len(readBuffer[z])) + Len(body)
      BY <2>3, Sums, Zenon
    <2>5. Held(z)' = Len(received[z]) + (Len(readBuffer[z]) + Len(body))
      BY <2>1, <2>2, Zenon
    <2> QED BY <2>1, <2>4, <2>5, Zenon
  <1>12. Run(readBuffer'[z], Len(received[z]))
    <2>1. Run(readBuffer[z], Len(received[z])) /\ Run(body, Len(received[z]) + Len(readBuffer[z]))
      BY <1>3, <1>4 DEF Inbound, Held
    <2> QED BY <1>2, <1>4, <1>6, <1>7, <2>1, RunJoined
  <1>13. to'[z] = Tail(to[z])
    BY <1>5 DEF Moves
  <1>14. ASSUME NEW k \in 1 .. Len(notAcked'[z])
         PROVE  notAcked'[z][k] \in 1 .. seq[y] /\ upto[y][notAcked'[z][k]] <= Held(z) + Len(body)
    <2>1. CASE k \in 1 .. Len(notAcked[z])
      <3>1. notAcked[z][k] \in 1 .. seq[y] /\ upto[y][notAcked[z][k]] <= Held(z)
        BY <1>4, <2>1 DEF Inbound, y
      <3>2. upto[y][notAcked[z][k]] \in Nat
        <4>1. upto[y] \in Seq(Nat) /\ notAcked[z][k] \in 1 .. Len(upto[y])
          BY <1>4, <3>1 DEF Types
        <4> QED BY <4>1, ElementOfSeq
      <3>3. notAcked'[z][k] = notAcked[z][k]
        BY <1>9, <2>1
      <3>4. upto[y][notAcked[z][k]] <= Held(z) + Len(body)
        BY <1>2, <1>3, <3>1, <3>2
      <3> QED BY <3>1, <3>3, <3>4
    <2>2. CASE k = Len(notAcked[z]) + 1
      <3>1. upto[y][id] <= Held(z) + Len(body)
        BY <1>2, <1>3
      <3> QED BY <1>2, <1>4, <1>9, <2>2, <3>1
    <2> QED BY <1>9, <2>1, <2>2
  <1>15. Inbound(z)'
    <2>1. InOrder(upto'[y], to'[z]) /\ Run(received'[z], 0) /\ Run(readBuffer'[z], Len(received'[z]))
      BY <1>1, <1>3, <1>4, <1>12, <1>13 DEF Inbound
    <2>2. Held(z)' <= Last(upto'[y], seq'[y]) /\ Continues(upto'[y], to'[z], Held(z)')
      BY <1>1, <1>3, <1>11, <1>13
    <2>3. \A k \in 1 .. Len(notAcked'[z]) : notAcked'[z][k] \in 1 .. seq'[y] /\ upto'[y][notAcked'[z][k]] <= Held(z)'
      BY <1>1, <1>11, <1>14
    <2>4. y = Peer(z)
      BY DEF y
    <2> QED BY <2>1, <2>2, <2>3, <2>4 DEF Inbound
  <1>16. \A m : (Takes(z, TRUE, {"data"}) /\ to[z][1].id = m) \/ Kept(z, m) => Kept(z, m)'
    <2>1. ASSUME NEW m, Kept(z, m) PROVE Kept(z, m)'
      BY <1>9, <2>1 DEF Kept
    <2>2. ASSUME NEW m, to[z][1].id = m PROVE Kept(z, m)'
      <3>1. m = id
        BY <2>2 DEF id
      <3>2. Len(notAcked[z]) + 1 \in 1 .. Len(notAcked'[z]) /\ notAcked'[z][Len(notAcked[z]) + 1] = m
        BY <1>9, <3>1
      <3> QED BY <3>2 DEF Kept
    <2> QED BY <2>1, <2>2
  <1>17. /\ <<>> \in Seq(Messages) /\ (\A T : ~Any(<<>>, T)) /\ Truthful(upto[y], <<>>, Len(received'[z]))
    BY None DEF Truthful
  <1>18. /\ readBlocked' \in [Sides -> BOOLEAN] /\ received' \in [Sides -> Seq(Nat)]
         /\ Len(received[z]) <= Len(received'[z])
    BY <1>1, <1>4, <1>6, SMTT(40) DEF Types
  <1> QED BY <1>1, <1>2, <1>5, <1>7, <1>8, <1>10, <1>15, <1>16, <1>17, <1>18, ReadingKept DEF y

LEMMA DataDeliveredKept ==
  ASSUME NEW z \in Sides, IBBInv, DataDelivered(z)
  PROVE  IBBInv'
  <1> DEFINE id == to[z][1].id
             body == to[z][1].body
             y == Peer(z)
             after == Acks(<<id>>)
  <1>1. /\ Arrives(z, "data") /\ state[z] = "OPEN" /\ Post(z, TRUE, Acks(<<Message(z).id>>))
        /\ ~readBlocked[z]
        /\ received' = [received EXCEPT ![z] = @ \o Message(z).body]
        /\ UNCHANGED <<state, inFlight, writeBuffer, writeBlocked, readBlocked, readBuffer, notAcked, closeIq,
                       sent, seq, upto>>
    BY DEF DataDelivered, buffers
  <1>2. /\ Message(z) = to[z][1] /\ to[z] # <<>> /\ id \in 1 .. Len(upto[y]) /\ id \in Nat
        /\ body \in Seq(Nat) /\ Len(body) \in Nat
        /\ (\A T : Takes(z, TRUE, T) => "data" \in T)
    BY <1>1, DataArrived
  <1>3. /\ Held(z) \in Nat /\ Run(body, Held(z)) /\ Held(z) + Len(body) = upto[y][id]
        /\ Held(z) + Len(body) <= Last(upto[y], seq[y])
        /\ Continues(upto[y], Tail(to[z]), Held(z) + Len(body)) /\ InOrder(upto[y], Tail(to[z]))
    BY <1>1, NextData
  <1>4. /\ Types /\ Own(z) /\ Inbound(z) /\ received[z] \in Seq(Nat)
        /\ Len(upto[y]) = seq[y] /\ y \in Sides /\ y # z /\ upto[y] \in Seq(Nat)
    BY Sided DEF IBBInv, Types, Own, Sender
  <1>5. after \in Seq(Messages) /\ Len(after) = 1 /\ after[1].type = "acked" /\ after[1].id = id
    BY <1>2, OneAnswer
  <1>6. Post(z, TRUE, after)
    BY <1>1, <1>2
  <1> HIDE DEF after, id, body, y
  <1>7. Moves(z, TRUE, after) /\ to' \in [Sides -> Seq(Messages)]
    BY <1>2, <1>4, <1>5, <1>6, Posted DEF Types
  <1>8. readBuffer[z] = <<>> /\ Len(readBuffer[z]) = 0
    BY <1>1, <1>4, EmptySeq DEF Own, Reader
  <1>9. /\ received[z] \o body \in Seq(Nat) /\ Len(received[z] \o body) = Len(received[z]) + Len(body)
        /\ Len(received[z]) \in Nat
    BY <1>2, <1>4, JoinedBytes
  <1>10. /\ received' \in [Sides -> Seq(Nat)] /\ received'[y] = received[y]
         /\ received'[z] = received[z] \o body
    <2>1. received' = [received EXCEPT ![z] = received[z] \o body] /\ received \in [Sides -> Seq(Nat)]
      BY <1>1, <1>2, <1>4 DEF Types, body
    <2> QED BY <1>4, <1>9, <2>1
  <1>11. Len(received'[z]) = Held(z) + Len(body) /\ Held(z) = Len(received[z]) /\ Held(z)' = Held(z) + Len(body)
    BY <1>1, <1>2, <1>8, <1>9, <1>10 DEF Held
  <1>12. Run(received'[z], 0) /\ Run(readBuffer'[z], Len(received'[z]))
    <2>1. Run(received[z], 0) /\ Run(body, 0 + Len(received[z]))
      BY <1>3, <1>4, <1>9, <1>11 DEF Inbound
    <2>2. Run(received[z] \o body, 0)
      BY <1>2, <1>4, <2>1, RunJoined
    <2>3. Run(readBuffer'[z], Len(received'[z]))
      BY <1>1, <1>8 DEF Run
    <2> QED BY <1>10, <2>2, <2>3
  <1>13. to'[z] = Tail(to[z])
    BY <1>7 DEF Moves
  <1>14. ASSUME NEW k \in 1 .. Len(notAcked[z])
         PROVE  notAcked[z][k] \in 1 .. seq[y] /\ upto[y][notAcked[z][k]] <= Held(z) + Len(body)
    <2>1. notAcked[z][k] \in 1 .. seq[y] /\ upto[y][notAcked[z][k]] <= Held(z)
      BY <1>4 DEF Inbound, y
    <2>2. upto[y][notAcked[z][k]] \in Nat
      BY <1>4, <2>1, ElementOfSeq
    <2> QED BY <1>2, <1>3, <2>1, <2>2
  <1>15. Inbound(z)'
    <2>1. InOrder(upto'[y], to'[z])
      BY <1>1, <1>3, <1>13
    <2>2. Held(z)' <= Last(upto'[y], seq'[y]) /\ Continues(upto'[y], to'[z], Held(z)')
      BY <1>1, <1>3, <1>11, <1>13
    <2>3. \A k \in 1 .. Len(notAcked'[z]) : notAcked'[z][k] \in 1 .. seq'[y] /\ upto'[y][notAcked'[z][k]] <= Held(z)'
      BY <1>1, <1>11, <1>14
    <2>4. y = Peer(z)
      BY DEF y
    <2> QED BY <1>12, <2>1, <2>2, <2>3, <2>4 DEF Inbound
  <1>16. /\ \A T : Any(after, T) => "acked" \in T \/ "refused" \in T
         /\ Answered(after, id)
    BY <1>5 DEF Any, Answered
  <1>17. Truthful(upto[y], after, Len(received'[z]))
    <2>1. upto[y][id] <= Len(received'[z])
      BY <1>2, <1>3, <1>11
    <2> QED BY <1>2, <1>5, <2>1 DEF Truthful
  <1>18. \A m : (Takes(z, TRUE, {"data"}) /\ to[z][1].id = m) \/ Kept(z, m) => Kept(z, m)' \/ Answered(after, m)
    BY <1>1, <1>16 DEF Kept, id
  <1>19. /\ readBlocked' \in [Sides -> BOOLEAN] /\ readBuffer' \in [Sides -> Seq(Nat)] /\ notAcked' \in [Sides -> Seq(Nat)]
         /\ readBlocked' = readBlocked /\ readBuffer' = readBuffer /\ notAcked' = notAcked
    BY <1>1, <1>4 DEF Types
  <1>20. Reader(z)'
    BY <1>1, <1>4 DEF Reader, Own
  <1>21. Len(received[z]) <= Len(received'[z])
    BY <1>2, <1>9, <1>10
  <1> QED BY <1>1, <1>2, <1>5, <1>7, <1>10, <1>15, <1>16, <1>17, <1>18, <1>19, <1>20, <1>21, ReadingKept DEF y


LEMMA BlockKept ==
  ASSUME NEW z \in Sides, IBBInv, BlockReading(z)
  PROVE  IBBInv'
  <1>1. /\ state[z] = "OPEN" /\ readBlocked' = [readBlocked EXCEPT ![z] = TRUE]
        /\ UNCHANGED <<state, inFlight, writeBuffer, writeBlocked, readBuffer, notAcked, closeIq, to,
                       sent, seq, upto, received>>
    BY DEF BlockReading, ghosts
  <1>2. /\ Types /\ Own(z) /\ Inbound(z) /\ to[z] \in Seq(Messages) /\ to[Peer(z)] \in Seq(Messages)
        /\ Len(received[z]) \in Nat /\ Peer(z) \in Sides /\ Peer(z) # z
    BY Sided, LenProperties DEF IBBInv, Types
  <1>3. <<>> \in Seq(Messages) /\ (\A T : ~Any(<<>>, T)) /\ Truthful(upto[Peer(z)], <<>>, Len(received'[z]))
    BY None DEF Truthful
  <1>4. to[Peer(z)] \o <<>> = to[Peer(z)]
    BY <1>2, ConcatEmptySeq
  <1>5. Moves(z, FALSE, <<>>)
    BY <1>1, <1>4 DEF Moves
  <1>6. readBlocked' \in [Sides -> BOOLEAN] /\ readBlocked'[Peer(z)] = readBlocked[Peer(z)] /\ readBlocked'[z]
    <2>1. readBlocked \in [Sides -> BOOLEAN]
      BY <1>2 DEF Types
    <2> QED BY <1>1, <1>2, <2>1
  <1>7. Reader(z)'
    BY <1>1, <1>2, <1>6 DEF Reader, Own
  <1>8. Inbound(z)'
    BY <1>1, <1>2 DEF Inbound, Held
  <1>9. /\ readBuffer' \in [Sides -> Seq(Nat)] /\ notAcked' \in [Sides -> Seq(Nat)]
        /\ received' \in [Sides -> Seq(Nat)] /\ to' \in [Sides -> Seq(Messages)]
        /\ Len(received[z]) <= Len(received'[z])
    BY <1>1, <1>2 DEF Types
  <1>10. \A m : (Takes(z, FALSE, {"data"}) /\ to[z][1].id = m) \/ Kept(z, m) => Kept(z, m)'
    BY <1>1 DEF Kept, Takes
  <1>11. \A T : ~Takes(z, FALSE, T)
    BY DEF Takes
  <1> QED BY <1>1, <1>3, <1>5, <1>6, <1>7, <1>8, <1>9, <1>10, <1>11, ReadingKept

LEMMA UnblockKept ==
  ASSUME NEW z \in Sides, IBBInv, UnblockReading(z)
  PROVE  IBBInv'
  <1> DEFINE y == Peer(z)
             after == Acks(notAcked[z])
  <1>1. /\ readBlocked[z] /\ readBlocked' = [readBlocked EXCEPT ![z] = FALSE]
        /\ received' = [received EXCEPT ![z] = @ \o readBuffer[z]]
        /\ readBuffer' = [readBuffer EXCEPT ![z] = <<>>] /\ notAcked' = [notAcked EXCEPT ![z] = <<>>]
        /\ Post(z, FALSE, after)
        /\ UNCHANGED <<state, inFlight, writeBuffer, writeBlocked, closeIq, sent, seq, upto>>
    BY DEF UnblockReading
  <1>2. /\ Types /\ Own(z) /\ Inbound(z) /\ received[z] \in Seq(Nat) /\ readBuffer[z] \in Seq(Nat)
        /\ notAcked[z] \in Seq(Nat) /\ upto[y] \in Seq(Nat)
        /\ Len(upto[y]) = seq[y] /\ y \in Sides /\ y # z
    BY Sided DEF IBBInv, Types, Own, Sender
  <1>3. /\ after \in Seq(Messages) /\ Len(after) = Len(notAcked[z])
        /\ \A i \in 1 .. Len(notAcked[z]) : after[i].type = "acked" /\ after[i].id = notAcked[z][i]
    BY <1>2, AcksOf
  <1> HIDE DEF y, after
  <1>4. Moves(z, FALSE, after) /\ to' \in [Sides -> Seq(Messages)]
    BY <1>1, <1>2, <1>3, Posted DEF Types
  <1>5. /\ received[z] \o readBuffer[z] \in Seq(Nat)
        /\ Len(received[z] \o readBuffer[z]) = Len(received[z]) + Len(readBuffer[z])
        /\ Len(received[z]) \in Nat /\ Len(readBuffer[z]) \in Nat
    BY <1>2, JoinedBytes
  <1>6. /\ received' \in [Sides -> Seq(Nat)] /\ received'[y] = received[y]
        /\ received'[z] = received[z] \o readBuffer[z]
    <2>1. received \in [Sides -> Seq(Nat)]
      BY <1>2 DEF Types
    <2> QED BY <1>1, <1>2, <1>5, <2>1
  <1>7. <<>> \in Seq(Nat) /\ Len(<<>>) = 0
    BY EmptySeq
  <1>8. readBuffer' \in [Sides -> Seq(Nat)] /\ readBuffer'[y] = readBuffer[y] /\ readBuffer'[z] = <<>>
    <2>1. readBuffer \in [Sides -> Seq(Nat)]
      BY <1>2 DEF Types
    <2> QED BY <1>1, <1>2, <1>7, <2>1
  <1>9. notAcked' \in [Sides -> Seq(Nat)] /\ notAcked'[y] = notAcked[y] /\ notAcked'[z] = <<>>
    <2>1. notAcked \in [Sides -> Seq(Nat)]
      BY <1>2 DEF Types
    <2> QED BY <1>1, <1>2, <1>7, <2>1
  <1>10. readBlocked' \in [Sides -> BOOLEAN] /\ readBlocked'[y] = readBlocked[y] /\ ~readBlocked'[z]
    <2>1. readBlocked \in [Sides -> BOOLEAN]
      BY <1>2 DEF Types
    <2> QED BY <1>1, <1>2, <2>1
  <1>11. Len(received'[z]) = Held(z) /\ Held(z)' = Held(z)
    <2>1. Len(received'[z]) = Held(z)
      BY <1>5, <1>6 DEF Held
    <2>2. Held(z)' = Len(received'[z]) + 0 /\ Len(received'[z]) \in Nat
      BY <1>6, <1>7, <1>8, LenProperties DEF Held
    <2> QED BY <2>1, <2>2
  <1>12. Run(received'[z], 0) /\ Run(readBuffer'[z], Len(received'[z]))
    <2>1. Run(received[z], 0) /\ Run(readBuffer[z], 0 + Len(received[z]))
      BY <1>2, <1>5 DEF Inbound
    <2>2. Run(received[z] \o readBuffer[z], 0)
      BY <1>2, <2>1, RunJoined
    <2>3. Run(<<>>, Len(received'[z]))
      BY <1>7 DEF Run
    <2>4. Run(readBuffer'[z], Len(received'[z]))
      BY <1>8, <2>3, Zenon
    <2> QED BY <1>6, <2>2, <2>4, Zenon
  <1>13. Inbound(z)'
    <2>1. to'[z] = to[z]
      BY <1>4 DEF Moves
    <2>2. InOrder(upto[y], to[z]) /\ Held(z) <= Last(upto[y], seq[y]) /\ (state[z] \notin Over => Continues(upto[y], to[z], Held(z)))
      BY <1>2 DEF Inbound, y
    <2>3. InOrder(upto'[y], to'[z]) /\ Held(z)' <= Last(upto'[y], seq'[y])
          /\ (state'[z] \notin Over => Continues(upto'[y], to'[z], Held(z)'))
      BY <1>1, <1>11, <2>1, <2>2
    <2>4. \A k \in 1 .. Len(notAcked'[z]) : FALSE
      BY <1>7, <1>9
    <2>5. y = Peer(z)
      BY DEF y
    <2> QED BY <1>12, <2>3, <2>4, <2>5 DEF Inbound
  <1>14. /\ \A T : Any(after, T) => "acked" \in T \/ "refused" \in T
         /\ \A m : Kept(z, m) => Answered(after, m)
    BY <1>3 DEF Any, Answered, Kept
  <1>15. Truthful(upto[y], after, Len(received'[z]))
    <2>1. \A k \in 1 .. Len(notAcked[z]) : notAcked[z][k] \in 1 .. Len(upto[y]) /\ upto[y][notAcked[z][k]] <= Held(z)
      BY <1>2 DEF Inbound, y
    <2> QED BY <1>3, <1>11, <2>1 DEF Truthful
  <1>16. Reader(z)'
    <2>1. ReadBufferMax \in Nat
      BY IBBAssumption
    <2> QED BY <1>7, <1>8, <1>9, <1>10, <2>1 DEF Reader
  <1>17. Len(received[z]) <= Len(received'[z])
    <2>1. Len(received'[z]) = Len(received[z]) + Len(readBuffer[z])
      BY <1>5, <1>6
    <2>2. Len(received[z]) <= Len(received[z]) + Len(readBuffer[z])
      BY <1>5, Sums, Zenon
    <2> QED BY <2>1, <2>2, Zenon
  <1>18. \A T : ~Takes(z, FALSE, T)
    BY DEF Takes
  <1>19. \A m : (Takes(z, FALSE, {"data"}) /\ to[z][1].id = m) \/ Kept(z, m) => Kept(z, m)' \/ Answered(after, m)
    BY <1>14, <1>18
  <1> QED BY <1>1, <1>3, <1>4, <1>6, <1>8, <1>9, <1>10, <1>13, <1>14, <1>15, <1>16, <1>17, <1>18, <1>19, ReadingKept DEF y


-----------------------------------------------------------------------------
(* Sending.                                                                   *)

(* What send_data leaves behind.                                              *)
Sends(z, waiting, blocks, rest, total) ==
  /\ blocks \in Seq(Messages) /\ rest \in Seq(Nat)
  /\ upto' \in [Sides -> Seq(Nat)] /\ upto'[Peer(z)] = upto[Peer(z)] /\ Cut(upto[z], blocks, upto'[z])
  /\ seq' \in [Sides -> Nat] /\ seq'[Peer(z)] = seq[Peer(z)] /\ seq'[z] = seq[z] + Len(blocks)
  /\ seq'[z] = Len(upto'[z])
  /\ inFlight' \in [Sides -> SUBSET Nat] /\ inFlight'[Peer(z)] = inFlight[Peer(z)]
  /\ inFlight'[z] = waiting \cup (seq[z] + 1 .. seq'[z])
  /\ IsFiniteSet(inFlight'[z]) /\ Cardinality(inFlight'[z]) <= WindowSize
  /\ Run(rest, Last(upto'[z], seq'[z])) /\ Last(upto'[z], seq'[z]) + Len(rest) = total
  /\ rest # <<>> => inFlight'[z] # {}

LEMMA Waiting ==
  ASSUME NEW z \in Sides, IBBInv, NEW waiting \in SUBSET inFlight[z]
  PROVE  /\ IsFiniteSet(waiting) /\ Cardinality(waiting) \in Nat /\ Places(waiting) \in Nat
         /\ Cardinality(waiting) + Places(waiting) = WindowSize /\ waiting \subseteq Nat
         /\ waiting = {} => Places(waiting) > 0
  <1>1. IsFiniteSet(inFlight[z]) /\ Cardinality(inFlight[z]) <= WindowSize /\ inFlight[z] \subseteq Nat
    BY DEF IBBInv, Own, Window, Types
  <1>2. IsFiniteSet(waiting) /\ Cardinality(waiting) <= Cardinality(inFlight[z])
    BY <1>1, FS_Subset
  <1>3. Cardinality(waiting) \in Nat /\ Cardinality(inFlight[z]) \in Nat /\ WindowSize \in Nat \ {0}
    BY <1>1, <1>2, FS_CardinalityType, IBBAssumption
  <1>4. waiting = {} => Cardinality(waiting) = 0
    BY FS_EmptySet
  <1>5. Places(waiting) = WindowSize - Cardinality(waiting)
    BY DEF Places
  <1>6. Cardinality(waiting) <= WindowSize
    BY <1>1, <1>2, <1>3
  <1> HIDE DEF Places
  <1>7. Places(waiting) \in Nat /\ Cardinality(waiting) + Places(waiting) = WindowSize
    BY <1>3, <1>5, <1>6
  <1>8. waiting = {} => Places(waiting) > 0
    BY <1>3, <1>4, <1>5
  <1> QED BY <1>1, <1>2, <1>3, <1>7, <1>8

LEMMA FilledWindow ==
  ASSUME NEW W, IsFiniteSet(W), NEW a \in Nat, NEW n \in Nat, NEW p \in Nat, n <= p,
         Cardinality(W) + p = WindowSize
  PROVE  /\ IsFiniteSet(W \cup (a + 1 .. a + n)) /\ Cardinality(W \cup (a + 1 .. a + n)) <= WindowSize
         /\ W \cup (a + 1 .. a + n) = {} => n = 0
  <1> DEFINE I == a + 1 .. a + n
  <1>1. IsFiniteSet(I) /\ Cardinality(I) = n
    <2>1. a + 1 \in Int /\ a + n \in Int
      OBVIOUS
    <2>2. IsFiniteSet(I) /\ Cardinality(I) = IF a + 1 > a + n THEN 0 ELSE (a + n) - (a + 1) + 1
      BY <2>1, FS_Interval
    <2> QED BY <2>2
  <1>2. n # 0 => a + 1 \in I
    OBVIOUS
  <1> HIDE DEF I
  <1>3. /\ IsFiniteSet(W \cup I) /\ IsFiniteSet(W \cap I)
        /\ Cardinality(W \cup I) = Cardinality(W) + Cardinality(I) - Cardinality(W \cap I)
    BY <1>1, FS_Union, FS_Intersection
  <1>4. /\ Cardinality(W) \in Nat /\ Cardinality(W \cap I) \in Nat /\ Cardinality(W \cup I) \in Nat
        /\ WindowSize \in Nat
    BY <1>3, FS_CardinalityType, IBBAssumption
  <1>5. Cardinality(W \cup I) <= WindowSize
    BY <1>1, <1>3, <1>4
  <1> QED BY <1>2, <1>3, <1>5 DEF I

LEMMA BlocksSent ==
  ASSUME NEW z \in Sides, IBBInv, NEW pop \in BOOLEAN, pop => to[z] # <<>>,
         NEW waiting \in SUBSET inFlight[z], NEW bytes \in Seq(Nat), Run(bytes, Last(upto[z], seq[z])),
         NEW after \in Seq(Messages),
         SendBlocks(z, pop, waiting, Blocks(z, bytes, Places(waiting)), after)
  PROVE  LET blocks == Blocks(z, bytes, Places(waiting))
             rest == Rest(bytes, Len(blocks))
         IN  /\ Sends(z, waiting, blocks, rest, Last(upto[z], seq[z]) + Len(bytes))
             /\ Moves(z, pop, blocks \o after) /\ to' \in [Sides -> Seq(Messages)]
  <1> DEFINE blocks == Blocks(z, bytes, Places(waiting))
             rest == Rest(bytes, Len(blocks))
             up2 == upto[z] \o Lasts(blocks)
             ids == Ids(blocks)
             places == Places(waiting)
  <1>1. /\ Types /\ upto[z] \in Seq(Nat) /\ Rising(upto[z]) /\ Len(upto[z]) = seq[z] /\ seq[z] \in Nat
        /\ Peer(z) \in Sides /\ Peer(z) # z /\ to \in [Sides -> Seq(Messages)]
    BY Sided DEF IBBInv, Types, Own, Sender
  <1>2. /\ IsFiniteSet(waiting) /\ places \in Nat /\ waiting \subseteq Nat
        /\ Cardinality(waiting) + places = WindowSize /\ (waiting = {} => places > 0)
    BY Waiting
  <1>a. Run(bytes, Last(upto[z], Len(upto[z])))
    BY <1>1
  <1>3. /\ blocks \in Seq(Messages) /\ up2 \in Seq(Nat) /\ rest \in Seq(Nat)
        /\ Cut(upto[z], blocks, up2) /\ Len(blocks) <= places
        /\ Run(rest, Last(up2, Len(up2))) /\ Last(up2, Len(up2)) + Len(rest) = Last(upto[z], Len(upto[z])) + Len(bytes)
        /\ rest # <<>> => Len(blocks) = places
        /\ ids = Len(upto[z]) + 1 .. Len(up2)
    <2>1. upto[z] \in Seq(Nat) /\ Rising(upto[z]) /\ Len(upto[z]) = seq[z] /\ places \in Nat
      BY <1>1, <1>2
    <2>2. CutFrom(upto[z], bytes, places, blocks, up2, rest)
      BY <1>a, <2>1, BlocksCut, Zenon
    <2> HIDE DEF blocks, up2, rest, places
    <2> QED BY <2>2 DEF CutFrom
  <1>4. /\ Post(z, pop, blocks \o after)
        /\ inFlight' = [inFlight EXCEPT ![z] = waiting \cup ids]
        /\ seq' = [seq EXCEPT ![z] = seq[z] + Len(blocks)]
        /\ upto' = [upto EXCEPT ![z] = up2]
    BY <1>1 DEF SendBlocks, Types, Lasts, Ids
  <1> HIDE DEF blocks, rest, up2, ids, places
  <1>5. Len(blocks) \in Nat /\ Len(up2) = seq[z] + Len(blocks)
    BY <1>1, <1>3, LenProperties DEF Cut
  <1>6. blocks \o after \in Seq(Messages)
    BY <1>3, JoinedMessages
  <1>7. Moves(z, pop, blocks \o after) /\ to' \in [Sides -> Seq(Messages)]
    BY <1>1, <1>4, <1>6, Posted
  <1>8. upto' \in [Sides -> Seq(Nat)] /\ upto'[Peer(z)] = upto[Peer(z)] /\ upto'[z] = up2
    <2>1. upto \in [Sides -> Seq(Nat)]
      BY <1>1 DEF Types
    <2> QED BY <1>1, <1>3, <1>4, <2>1
  <1>9. seq' \in [Sides -> Nat] /\ seq'[Peer(z)] = seq[Peer(z)] /\ seq'[z] = seq[z] + Len(blocks)
    <2>1. seq \in [Sides -> Nat] /\ seq[z] + Len(blocks) \in Nat
      BY <1>1, <1>5 DEF Types
    <2> QED BY <1>1, <1>4, <2>1
  <1>10. ids = seq[z] + 1 .. seq[z] + Len(blocks) /\ ids \subseteq Nat
    <2>1. ids = seq[z] + 1 .. seq[z] + Len(blocks)
      BY <1>1, <1>3, <1>5
    <2>2. seq[z] + 1 .. seq[z] + Len(blocks) \subseteq Nat
      BY <1>1, <1>5
    <2> QED BY <2>1, <2>2
  <1>11. inFlight' \in [Sides -> SUBSET Nat] /\ inFlight'[Peer(z)] = inFlight[Peer(z)] /\ inFlight'[z] = waiting \cup ids
    <2>1. inFlight \in [Sides -> SUBSET Nat]
      BY <1>1 DEF Types
    <2> QED BY <1>1, <1>2, <1>4, <1>10, <2>1
  <1>12. /\ IsFiniteSet(inFlight'[z]) /\ Cardinality(inFlight'[z]) <= WindowSize
         /\ inFlight'[z] = {} => Len(blocks) = 0
    <2>1. /\ IsFiniteSet(waiting \cup (seq[z] + 1 .. seq[z] + Len(blocks)))
          /\ Cardinality(waiting \cup (seq[z] + 1 .. seq[z] + Len(blocks))) <= WindowSize
          /\ waiting \cup (seq[z] + 1 .. seq[z] + Len(blocks)) = {} => Len(blocks) = 0
      BY <1>1, <1>2, <1>3, <1>5, FilledWindow
    <2> QED BY <1>10, <1>11, <2>1
  <1>13. rest # <<>> => inFlight'[z] # {}
    <2> SUFFICES ASSUME rest # <<>>, inFlight'[z] = {} PROVE FALSE
      OBVIOUS
    <2>1. waiting = {} /\ Len(blocks) = 0
      BY <1>11, <1>12
    <2> QED BY <1>2, <1>3, <2>1
  <1>14. Run(rest, Last(upto'[z], seq'[z])) /\ Last(upto'[z], seq'[z]) + Len(rest) = Last(upto[z], seq[z]) + Len(bytes)
         /\ seq'[z] = Len(upto'[z])
    BY <1>1, <1>3, <1>5, <1>8, <1>9
  <1>15. inFlight'[z] = waiting \cup (seq[z] + 1 .. seq'[z])
    BY <1>9, <1>10, <1>11
  <1>16. Cut(upto[z], blocks, upto'[z])
    BY <1>3, <1>8
  <1>17. Sends(z, waiting, blocks, rest, Last(upto[z], seq[z]) + Len(bytes))
    BY <1>3, <1>8, <1>9, <1>11, <1>12, <1>13, <1>14, <1>15, <1>16 DEF Sends
  <1> QED BY <1>7, <1>17 DEF blocks, rest, places


(* Data are sent: the rest of them is kept in the write buffer, or nothing is *)
(* left and the stream is closed.                                             *)
Flushes(z, rest) ==
  \/ /\ state'[z] = state[z] /\ closeIq'[z] = closeIq[z] /\ readBuffer'[z] = readBuffer[z]
     /\ readBlocked'[z] = readBlocked[z] /\ writeBuffer'[z] = rest /\ writeBlocked'[z] = (rest # <<>>)
  \/ rest = <<>> /\ Finished(z) /\ notAcked[z] = <<>>

LEMMA SendingKept ==
  ASSUME NEW z \in Sides, IBBInv, NEW pop \in BOOLEAN, NEW waiting \in SUBSET inFlight[z], NEW blocks, NEW rest,
         NEW total \in Nat, Sends(z, waiting, blocks, rest, total), state[z] \in {"OPEN", "CLOSING"},
         NEW after \in Seq(Messages), Moves(z, pop, blocks \o after), to' \in [Sides -> Seq(Messages)],
         \A T : Any(after, T) => "close" \in T \/ "close-acked" \in T,
         \A T : Takes(z, pop, T) => "acked" \in T,
         Takes(z, pop, {"acked", "refused"}) => to[z][1].id \notin waiting,
         sent' \in [Sides -> Nat], sent'[Peer(z)] = sent[Peer(z)], sent'[z] = total,
         UNCHANGED <<received, notAcked>>, LocalTypes', LocalSame(Peer(z)), Flushes(z, rest)
  PROVE  IBBInv'
  <1> DEFINE y == Peer(z)
  <1>1. /\ Types /\ Own(z) /\ Own(y) /\ Inbound(z) /\ Handshake /\ seq[z] \in Nat /\ y \in Sides
        /\ inFlight[z] \subseteq 1 .. seq[z] /\ Len(received[z]) \in Nat /\ upto[z] \in Seq(Nat)
        /\ Len(upto[z]) = seq[z]
    BY Sided, LenProperties DEF IBBInv, Types, Own, Window, Sender
  <1>2. blocks \in Seq(Messages) /\ Len(blocks) \in Nat /\ Cut(upto[z], blocks, upto'[z]) /\ seq'[z] = seq[z] + Len(blocks)
    BY LenProperties DEF Sends
  <1>3. Types'
    BY <1>1 DEF Types, LocalTypes, Sends
  <1>4. Same(y)
    BY DEF Same, LocalSame, Sends
  <1>5. state'[z] \in {"OPEN", "CLOSING", "CLOSED"} /\ (state'[z] = state[z] \/ state'[z] = "CLOSED")
    BY DEF Flushes, Finished
  <1>6. /\ ~Any(after, {"data"}) /\ ~Any(after, {"acked", "refused"})
        /\ ~Any(after, {"open"}) /\ ~Any(after, {"opened"})
    OBVIOUS
  <1>7. ~Any(after, Opened) /\ ~Any(after, Offers)
    BY DEF Opened, Offers
  <1>8. /\ ~Any(blocks, Opened) /\ ~Any(blocks, Offers) /\ ~Any(blocks, {"open"}) /\ ~Any(blocks, {"opened"})
    <2>1. "data" \notin Opened /\ "data" \notin Offers /\ "data" \notin {"open"} /\ "data" \notin {"opened"}
      BY DEF Opened, Offers
    <2> QED BY <1>2, <2>1, CutAny
  <1>9. /\ blocks \o after \in Seq(Messages)
        /\ \A T : Any(blocks \o after, T) <=> Any(blocks, T) \/ Any(after, T)
    BY <1>2, JoinedMessages, HasJoined
  <1>10. Aside(z, pop, blocks \o after)
    <2>1. /\ ~Any(blocks \o after, Opened) /\ ~Any(blocks \o after, {"open"})
          /\ ~Any(blocks \o after, {"opened"}) /\ ~Any(blocks \o after, Offers)
      BY <1>6, <1>7, <1>8, <1>9
    <2>2. Once(blocks \o after, Offers)
      BY <2>1 DEF Once, Any
    <2>3. ~Takes(z, pop, {"open"}) /\ ~Takes(z, pop, Opened) /\ ~Takes(z, pop, {"opened"}) /\ ~Takes(z, pop, Offers)
      BY DEF Opened, Offers
    <2>4. state'[y] = state[y] /\ seq'[y] = seq[y]
      BY <1>4 DEF Same
    <2> QED BY <1>5, <2>1, <2>2, <2>3, <2>4 DEF Aside
  <1>11. Handshake'
    BY <1>1, <1>9, <1>10, HandshakeAside DEF Types
  <1>12. Unread(z, pop)
    <2>1. ~Takes(z, pop, {"data"})
      OBVIOUS
    <2>2. \/ readBuffer'[z] = readBuffer[z] /\ notAcked'[z] = notAcked[z]
          \/ state'[z] \in Over /\ notAcked'[z] = <<>> /\ readBuffer'[z] \in {readBuffer[z], <<>>}
      BY DEF Flushes, Finished, Over
    <2> QED BY <1>5, <2>1, <2>2 DEF Unread, Over
  <1>13. Inbound(z)'
    BY <1>1, <1>4, <1>12, OwnInbound
  <1>14. Step(z, pop, blocks, after)
    <2>1. Len(received[z]) <= Len(received'[z])
      BY <1>1
    <2>2. Truthful(upto[y], after, Len(received'[z]))
      BY <1>6 DEF Truthful, Any
    <2>3. ASSUME NEW id \in Nat, (Takes(z, pop, {"data"}) /\ to[z][1].id = id) \/ Kept(z, id)
          PROVE  Kept(z, id)'
      <3>1. ~Takes(z, pop, {"data"})
        OBVIOUS
      <3> QED BY <2>3, <3>1 DEF Kept
    <2>4. ASSUME NEW id \in inFlight'[z]
          PROVE  \/ id \in Len(upto[z]) + 1 .. Len(upto[z]) + Len(blocks)
                 \/ id \in inFlight[z] /\ ~(Takes(z, pop, {"acked", "refused"}) /\ to[z][1].id = id)
      <3>1. id \in waiting \/ id \in seq[z] + 1 .. seq'[z]
        BY DEF Sends
      <3> QED BY <1>1, <1>2, <3>1
    <2> QED BY <1>2, <1>4, <1>5, <1>6, <2>1, <2>2, <2>3, <2>4 DEF Step
  <1>15. Sender(z)'
    <2>1. /\ Len(upto'[z]) = seq'[z] /\ Rising(upto'[z])
      BY DEF Sends, Cut
    <2>2. writeBuffer'[z] = rest
      BY DEF Flushes, Finished
    <2>3. Run(writeBuffer'[z], Last(upto'[z], seq'[z])) /\ Last(upto'[z], seq'[z]) + Len(writeBuffer'[z]) = sent'[z]
      BY <2>2 DEF Sends
    <2>4. writeBlocked'[z] = (writeBuffer'[z] # <<>>)
      <3>1. writeBlocked'[z] \in BOOLEAN
        BY <1>3 DEF Types
      <3>2. CASE writeBlocked'[z] = (rest # <<>>)
        BY <2>2, <3>2
      <3>3. CASE rest = <<>> /\ ~writeBlocked'[z]
        BY <2>2, <3>1, <3>3, Zenon
      <3> QED BY <3>2, <3>3 DEF Flushes, Finished
    <2>5. closeIq'[z] => state'[z] = "CLOSING"
      BY <1>1 DEF Flushes, Finished, Own, Sender
    <2>6. Last(upto'[z], seq'[z]) + Len(writeBuffer'[z]) <= sent'[z]
      BY <2>3
    <2> QED BY <2>1, <2>3, <2>4, <2>5, <2>6 DEF Sender
  <1>16. Window(z)'
    <2>1. inFlight'[z] \subseteq 1 .. seq'[z]
      <3>1. ASSUME NEW id \in inFlight'[z] PROVE id \in 1 .. seq'[z]
        <4>1. id \in waiting \/ id \in seq[z] + 1 .. seq'[z]
          BY DEF Sends
        <4> QED BY <1>1, <1>2, <4>1
      <3> QED BY <3>1
    <2>2. writeBuffer'[z] = rest
      BY DEF Flushes, Finished
    <2> QED BY <2>1, <2>2 DEF Window, Sends
  <1>17. Reader(z)'
    <2>1. Len(<<>>) = 0 /\ ReadBufferMax \in Nat
      BY EmptySeq, IBBAssumption
    <2> QED BY <1>1, <2>1 DEF Reader, Own, Flushes, Finished
  <1>18. Unused(z)'
    BY <1>5 DEF Unused, Early
  <1> QED BY <1>3, <1>11, <1>13, <1>14, <1>15, <1>16, <1>17, <1>18, StepKept DEF Own


LEMMA AckKept ==
  ASSUME NEW z \in Sides, IBBInv, AckArrives(z)
  PROVE  IBBInv'
  <1> DEFINE id == to[z][1].id
             waiting == inFlight[z] \ {id}
             bytes == writeBuffer[z]
             blocks == Blocks(z, bytes, Places(waiting))
             rest == Rest(bytes, Len(blocks))
             closes == bytes # <<>> /\ rest = <<>> /\ state[z] = "CLOSING"
             after == IF closes THEN CloseStanzas(closeIq[z]) ELSE <<>>
             total == Last(upto[z], seq[z]) + Len(bytes)
  <1>1. /\ Types /\ Own(z) /\ bytes \in Seq(Nat) /\ Run(bytes, Last(upto[z], seq[z])) /\ closeIq[z] \in BOOLEAN
        /\ sent \in [Sides -> Nat] /\ Peer(z) \in Sides /\ Peer(z) # z /\ state \in [Sides -> States]
    BY Sided DEF IBBInv, Types, Own, Sender
  <1>2. to[z] \in Seq(Messages) /\ to[z] # <<>> /\ to[z][1].type = "acked" /\ Head(to[z]) = to[z][1]
    BY <1>1, Arrived DEF AckArrives
  <1>3. state[z] # "CLOSED"
    BY DEF AckArrives
  <1>4. state[z] \in {"OPEN", "CLOSING"}
    <2>1. Takes(z, TRUE, {"acked", "refused"})
      BY <1>2 DEF Takes
    <2>2. state[z] \notin Early
      BY <1>2, <2>1, NoAnswersYet
    <2> QED BY <1>1, <1>3, <2>2 DEF Types, States, Early
  <1>5. /\ closes => /\ SendBlocks(z, TRUE, waiting, blocks, CloseStanzas(closeIq[z]))
                     /\ state' = [state EXCEPT ![z] = "CLOSED"] /\ closeIq' = [closeIq EXCEPT ![z] = FALSE]
                     /\ Finalise(z)
        /\ ~closes => /\ SendBlocks(z, TRUE, waiting, blocks, <<>>)
                      /\ writeBuffer' = [writeBuffer EXCEPT ![z] = rest]
                      /\ writeBlocked' = [writeBlocked EXCEPT ![z] = rest # <<>>]
                      /\ UNCHANGED <<state, closeIq, readBuffer, readBlocked>>
        /\ UNCHANGED <<notAcked, sent, received>>
    BY <1>2 DEF AckArrives, ChangeWriteBlocked
  <1>6. total = sent[z] /\ total \in Nat
    BY <1>1, <1>3 DEF Own, Sender
  <1>7. after \in Seq(Messages) /\ \A T : Any(after, T) => "close" \in T \/ "close-acked" \in T
    <2>1. CASE closes
      <3>1. after = CloseStanzas(closeIq[z])
        BY <2>1
      <3> QED BY <1>1, <3>1, CloseStanzasOf DEF Any
    <2>2. CASE ~closes
      <3>1. after = <<>>
        BY <2>2
      <3> QED BY <3>1, None
    <2> QED BY <2>1, <2>2
  <1>8. SendBlocks(z, TRUE, waiting, blocks, after)
    BY <1>5
  <1> HIDE DEF after, total
  <1>9. /\ Sends(z, waiting, blocks, rest, total)
        /\ Moves(z, TRUE, blocks \o after) /\ to' \in [Sides -> Seq(Messages)]
    <2>1. waiting \in SUBSET inFlight[z]
      OBVIOUS
    <2> HIDE DEF waiting
    <2> QED BY <1>1, <1>2, <1>7, <1>8, <2>1, BlocksSent DEF total
  <1>10. rest \in Seq(Nat)
    BY <1>9 DEF Sends
  <1> HIDE DEF rest, blocks, waiting
  <1>11. <<>> \in Seq(Nat) /\ "CLOSED" \in States
    BY EmptySeq DEF States
  <1>12. notAcked' \in [Sides -> Seq(Nat)] /\ notAcked' = notAcked
    BY <1>1, <1>5 DEF Types
  <1>13. LocalTypes' /\ LocalSame(Peer(z)) /\ Flushes(z, rest)
    <2>1. CASE closes
      <3>1. state' \in [Sides -> States] /\ state'[z] = "CLOSED" /\ state'[Peer(z)] = state[Peer(z)]
        BY <1>1, <1>5, <1>11, <2>1
      <3>2. closeIq' \in [Sides -> BOOLEAN] /\ closeIq'[Peer(z)] = closeIq[Peer(z)] /\ ~closeIq'[z]
        BY <1>1, <1>5, <2>1 DEF Types
      <3>3. Finalise(z)
        BY <1>5, <2>1
      <3>4. writeBuffer' \in [Sides -> Seq(Nat)] /\ writeBuffer'[z] = <<>> /\ writeBuffer'[Peer(z)] = writeBuffer[Peer(z)]
        BY <1>1, <1>11, <3>3 DEF Types, Finalise
      <3>5. readBuffer' \in [Sides -> Seq(Nat)] /\ readBuffer'[z] = <<>> /\ readBuffer'[Peer(z)] = readBuffer[Peer(z)]
        BY <1>1, <1>11, <3>3 DEF Types, Finalise
      <3>6. /\ writeBlocked' \in [Sides -> BOOLEAN] /\ ~writeBlocked'[z] /\ writeBlocked'[Peer(z)] = writeBlocked[Peer(z)]
            /\ readBlocked' \in [Sides -> BOOLEAN] /\ ~readBlocked'[z] /\ readBlocked'[Peer(z)] = readBlocked[Peer(z)]
        BY <1>1, <3>3 DEF Types, Finalise
      <3>7. notAcked[z] = <<>> /\ rest = <<>>
        BY <1>1, <2>1 DEF Own, Reader
      <3> QED BY <1>12, <3>1, <3>2, <3>4, <3>5, <3>6, <3>7 DEF LocalTypes, LocalSame, Flushes, Finished
    <2>2. CASE ~closes
      <3>1. /\ UNCHANGED <<state, closeIq, readBuffer, readBlocked>>
            /\ writeBuffer' = [writeBuffer EXCEPT ![z] = rest]
            /\ writeBlocked' = [writeBlocked EXCEPT ![z] = rest # <<>>]
        BY <1>5, <2>2
      <3>2. writeBuffer' \in [Sides -> Seq(Nat)] /\ writeBuffer'[z] = rest /\ writeBuffer'[Peer(z)] = writeBuffer[Peer(z)]
        BY <1>1, <1>10, <3>1 DEF Types
      <3>3. /\ writeBlocked' \in [Sides -> BOOLEAN] /\ writeBlocked'[z] = (rest # <<>>)
            /\ writeBlocked'[Peer(z)] = writeBlocked[Peer(z)]
        BY <1>1, <3>1 DEF Types
      <3> QED BY <1>1, <1>12, <3>1, <3>2, <3>3 DEF LocalTypes, LocalSame, Flushes, Types
    <2> QED BY <2>1, <2>2
  <1>14. \A T : Takes(z, TRUE, T) => "acked" \in T
    BY <1>2 DEF Takes
  <1>15. to[z][1].id \notin waiting /\ waiting \in SUBSET inFlight[z]
    BY DEF waiting
  <1> HIDE DEF closes
  <1> QED BY <1>1, <1>4, <1>5, <1>6, <1>7, <1>9, <1>13, <1>14, <1>15, SendingKept

LEMMA BytesGiven ==
  ASSUME NEW s \in Nat, NEW n \in Nat
  PROVE  LET bytes == [i \in 1 .. n |-> s + i]
         IN  bytes \in Seq(Nat) /\ Len(bytes) = n /\ Run(bytes, s)
  BY DEF Run

LEMMA SendKept ==
  ASSUME NEW z \in Sides, IBBInv, NEW n \in Nat, UserSend(z, n)
  PROVE  IBBInv'
  <1> DEFINE bytes == [i \in 1 .. n |-> sent[z] + i]
             blocks == Blocks(z, bytes, Places(inFlight[z]))
             rest == Rest(bytes, Len(blocks))
             last == Last(upto[z], seq[z])
  <1>1. /\ Types /\ Own(z) /\ writeBuffer[z] \in Seq(Nat) /\ Run(writeBuffer[z], last)
        /\ sent \in [Sides -> Nat] /\ sent[z] \in Nat /\ Peer(z) \in Sides /\ Peer(z) # z
    BY Sided DEF IBBInv, Types, Own, Sender
  <1>2. /\ state[z] = "OPEN" /\ sent' = [sent EXCEPT ![z] = sent[z] + n]
        /\ UNCHANGED <<state, readBlocked, readBuffer, notAcked, closeIq, received>>
        /\ writeBuffer[z] # <<>> => /\ writeBuffer' = [writeBuffer EXCEPT ![z] = writeBuffer[z] \o bytes]
                                    /\ UNCHANGED <<to, inFlight, seq, upto, writeBlocked>>
        /\ writeBuffer[z] = <<>> => /\ SendBlocks(z, FALSE, inFlight[z], blocks, <<>>)
                                    /\ writeBuffer' = [writeBuffer EXCEPT ![z] = rest]
                                    /\ writeBlocked' = [writeBlocked EXCEPT ![z] = rest # <<>>]
    BY <1>1 DEF UserSend, ChangeWriteBlocked
  <1>3. bytes \in Seq(Nat) /\ Len(bytes) = n /\ Run(bytes, sent[z])
    BY <1>1, BytesGiven
  <1> HIDE DEF bytes
  <1>4. last + Len(writeBuffer[z]) = sent[z]
    BY <1>1, <1>2 DEF Own, Sender
  <1>5. last \in Nat /\ Len(writeBuffer[z]) \in Nat /\ upto[z] \in Seq(Nat)
    <2>1. upto[z] \in Seq(Nat) /\ seq[z] \in Nat /\ Len(upto[z]) = seq[z] /\ seq[z] \in 0 .. seq[z]
      BY <1>1 DEF Types, Own, Sender
    <2> QED BY <1>1, <2>1, LastType, LenProperties
  <1> HIDE DEF last
  <1>6. sent' \in [Sides -> Nat] /\ sent'[Peer(z)] = sent[Peer(z)] /\ sent'[z] = sent[z] + n /\ sent[z] + n \in Nat
    BY <1>1, <1>2
  <1>7. <<>> \in Seq(Messages) /\ \A T : ~Any(<<>>, T)
    BY None
  <1>8. \A T : ~Takes(z, FALSE, T)
    BY DEF Takes
  <1>9. /\ state' \in [Sides -> States] /\ readBuffer' \in [Sides -> Seq(Nat)] /\ readBlocked' \in [Sides -> BOOLEAN]
        /\ notAcked' \in [Sides -> Seq(Nat)] /\ closeIq' \in [Sides -> BOOLEAN]
    BY <1>1, <1>2 DEF Types
  <1>10. ASSUME NEW r, writeBuffer' \in [Sides -> Seq(Nat)], writeBlocked' \in [Sides -> BOOLEAN],
                writeBuffer'[Peer(z)] = writeBuffer[Peer(z)], writeBlocked'[Peer(z)] = writeBlocked[Peer(z)],
                writeBuffer'[z] = r, writeBlocked'[z] = (r # <<>>)
         PROVE  LocalTypes' /\ LocalSame(Peer(z)) /\ Flushes(z, r)
    BY <1>2, <1>9, <1>10 DEF LocalTypes, LocalSame, Flushes
  <1>11. CASE writeBuffer[z] = <<>>
    <2>1. Len(<<>>) = 0
      BY EmptySeq
    <2>2. last = sent[z]
      BY <1>4, <1>5, <1>11, <2>1
    <2>3. Run(bytes, Last(upto[z], seq[z]))
      BY <1>3, <2>2 DEF last
    <2>4. SendBlocks(z, FALSE, inFlight[z], blocks, <<>>)
      BY <1>2, <1>11
    <2>5. /\ Sends(z, inFlight[z], blocks, rest, Last(upto[z], seq[z]) + Len(bytes))
          /\ Moves(z, FALSE, blocks \o <<>>) /\ to' \in [Sides -> Seq(Messages)]
      BY <1>3, <1>7, <2>3, <2>4, BlocksSent
    <2>6. Sends(z, inFlight[z], blocks, rest, sent[z] + n)
      BY <1>3, <2>2, <2>5 DEF last
    <2>7. rest \in Seq(Nat)
      BY <2>5 DEF Sends
    <2> HIDE DEF blocks, rest
    <2>8. writeBuffer' \in [Sides -> Seq(Nat)] /\ writeBuffer'[z] = rest /\ writeBuffer'[Peer(z)] = writeBuffer[Peer(z)]
      <3>1. writeBuffer' = [writeBuffer EXCEPT ![z] = rest] /\ writeBuffer \in [Sides -> Seq(Nat)]
        BY <1>1, <1>2, <1>11 DEF Types
      <3> QED BY <1>1, <2>7, <3>1
    <2>9. /\ writeBlocked' \in [Sides -> BOOLEAN] /\ writeBlocked'[z] = (rest # <<>>)
          /\ writeBlocked'[Peer(z)] = writeBlocked[Peer(z)]
      <3>1. writeBlocked' = [writeBlocked EXCEPT ![z] = rest # <<>>] /\ writeBlocked \in [Sides -> BOOLEAN]
        BY <1>1, <1>2, <1>11 DEF Types
      <3> QED BY <1>1, <3>1
    <2>10. LocalTypes' /\ LocalSame(Peer(z)) /\ Flushes(z, rest)
      BY <1>10, <2>8, <2>9
    <2> QED BY <1>2, <1>6, <1>7, <1>8, <2>5, <2>6, <2>10, SendingKept
  <1>12. CASE writeBuffer[z] # <<>>
    <2> DEFINE all == writeBuffer[z] \o bytes
    <2>1. all \in Seq(Nat) /\ Len(all) = Len(writeBuffer[z]) + Len(bytes)
      BY <1>1, <1>3, JoinedBytes
    <2>2. Run(all, last)
      BY <1>1, <1>3, <1>4, <1>5, RunJoined
    <2>3. all # <<>>
      <3>1. Len(writeBuffer[z]) # 0
        BY <1>1, <1>12, EmptySeq
      <3>2. Len(all) # 0
        BY <1>3, <1>5, <2>1, <3>1
      <3> QED BY <3>2, EmptySeq
    <2> HIDE DEF all
    <2>4. /\ writeBuffer' = [writeBuffer EXCEPT ![z] = all] /\ writeBuffer \in [Sides -> Seq(Nat)]
          /\ UNCHANGED <<to, inFlight, seq, upto, writeBlocked>>
      BY <1>1, <1>2, <1>12 DEF Types, all
    <2>5. writeBuffer' \in [Sides -> Seq(Nat)] /\ writeBuffer'[z] = all /\ writeBuffer'[Peer(z)] = writeBuffer[Peer(z)]
      BY <1>1, <2>1, <2>4
    <2>6. writeBlocked' \in [Sides -> BOOLEAN] /\ writeBlocked'[z] = (all # <<>>)
      <3>1. writeBlocked \in [Sides -> BOOLEAN] /\ writeBlocked[z] = (writeBuffer[z] # <<>>)
        BY <1>1 DEF Types, Own, Sender
      <3> QED BY <1>12, <2>3, <2>4, <3>1
    <2>7. LocalTypes' /\ LocalSame(Peer(z)) /\ Flushes(z, all)
      BY <1>10, <2>4, <2>5, <2>6
    <2>8. last + Len(all) = sent[z] + n
      <3>1. last + (Len(writeBuffer[z]) + n) = (last + Len(writeBuffer[z])) + n
        BY <1>5, Sums, ZenonT(40)
      <3> QED BY <1>3, <1>4, <2>1, <3>1
    <2>9. Sends(z, inFlight[z], <<>>, all, sent[z] + n)
      <3>1. <<>> \in Seq(Messages) /\ Len(<<>>) = 0 /\ Cut(upto[z], <<>>, upto[z])
        BY <1>1, <1>5, EmptySeq, NothingCut DEF Own, Sender
      <3>2. /\ seq[z] \in Nat /\ inFlight[z] # {} /\ Len(upto[z]) = seq[z]
            /\ IsFiniteSet(inFlight[z]) /\ Cardinality(inFlight[z]) <= WindowSize
            /\ upto \in [Sides -> Seq(Nat)] /\ seq \in [Sides -> Nat] /\ inFlight \in [Sides -> SUBSET Nat]
        BY <1>1, <1>2, <1>12 DEF Types, Own, Sender, Window
      <3>3. inFlight[z] = inFlight[z] \cup (seq[z] + 1 .. seq[z]) /\ seq[z] = seq[z] + 0
        BY <3>2
      <3>4. Run(all, Last(upto[z], seq[z])) /\ Last(upto[z], seq[z]) + Len(all) = sent[z] + n
        BY <2>2, <2>8 DEF last
      <3> QED BY <2>1, <2>4, <3>1, <3>2, <3>3, <3>4 DEF Sends
    <2>10. Moves(z, FALSE, <<>> \o <<>>) /\ to' \in [Sides -> Seq(Messages)]
      <3>1. <<>> \o <<>> = <<>> /\ to[Peer(z)] \o <<>> = to[Peer(z)]
        BY <1>1, <1>7, ConcatEmptySeq DEF Types
      <3>2. to \in [Sides -> Seq(Messages)]
        BY <1>1 DEF Types
      <3> QED BY <2>4, <3>1, <3>2 DEF Moves
    <2> QED BY <1>2, <1>6, <1>7, <1>8, <2>7, <2>9, <2>10, SendingKept
  <1> QED BY <1>11, <1>12


-----------------------------------------------------------------------------
(* The invariant holds.                                                       *)

LEMMA InitInv == Init => IBBInv
  <1> SUFFICES ASSUME Init PROVE IBBInv
    OBVIOUS
  <1>1. <<>> \in Seq(Nat) /\ <<>> \in Seq(Messages) /\ Len(<<>>) = 0
    BY EmptySeq
  <1>2. Types
    BY <1>1 DEF Init, Types, States
  <1>3. ASSUME NEW x \in Sides PROVE Own(x)
    <2>1. /\ upto[x] = <<>> /\ seq[x] = 0 /\ writeBuffer[x] = <<>> /\ sent[x] = 0 /\ inFlight[x] = {}
          /\ writeBlocked[x] = FALSE /\ readBuffer[x] = <<>> /\ readBlocked[x] = FALSE /\ notAcked[x] = <<>>
          /\ closeIq[x] = FALSE
      BY DEF Init
    <2>2. Sender(x)
      <3>1. Rising(<<>>) /\ Run(<<>>, 0) /\ Last(<<>>, 0) = 0
        BY <1>1 DEF Rising, Run, Last
      <3>2. writeBlocked[x] = (writeBuffer[x] # <<>>) /\ ~closeIq[x]
        BY <2>1
      <3>3. Len(upto[x]) = seq[x] /\ Rising(upto[x]) /\ Run(writeBuffer[x], Last(upto[x], seq[x]))
        BY <1>1, <2>1, <3>1
      <3>4. Last(upto[x], seq[x]) + Len(writeBuffer[x]) = sent[x] /\ sent[x] \in Nat
        BY <1>1, <2>1, <3>1
      <3>5. Last(upto[x], seq[x]) + Len(writeBuffer[x]) <= sent[x]
        BY <3>4
      <3> QED BY <3>2, <3>3, <3>4, <3>5 DEF Sender
    <2>3. Window(x)
      <3>1. IsFiniteSet({}) /\ Cardinality({}) = 0 /\ WindowSize \in Nat
        BY FS_EmptySet, IBBAssumption
      <3> QED BY <2>1, <3>1 DEF Window
    <2>4. Reader(x) /\ Unused(x)
      BY <1>1, <2>1, IBBAssumption DEF Reader, Unused
    <2> QED BY <2>2, <2>3, <2>4 DEF Own
  <1>4. ASSUME NEW x \in Sides PROVE Inbound(x) /\ Answers(x) /\ Accounted(x)
    <2>1. /\ upto[x] = <<>> /\ upto[Peer(x)] = <<>> /\ seq[Peer(x)] = 0 /\ to[x] = <<>> /\ received[x] = <<>>
          /\ readBuffer[x] = <<>> /\ notAcked[x] = <<>> /\ inFlight[x] = {}
      BY Sided DEF Init
    <2>2. InOrder(<<>>, <<>>) /\ Run(<<>>, 0) /\ Last(<<>>, 0) = 0
      BY <1>1 DEF InOrder, Run, Last
    <2>3. Continues(<<>>, <<>>, 0)
      BY <1>1, <2>2 DEF Continues
    <2>4. Held(x) = 0
      BY <1>1, <2>1 DEF Held
    <2>5. Inbound(x)
      BY <1>1, <2>1, <2>2, <2>3, <2>4 DEF Inbound
    <2>6. Answers(x)
      BY <1>1, <2>1 DEF Answers, Truthful
    <2>7. Accounted(x)
      BY <2>1 DEF Accounted
    <2> QED BY <2>5, <2>6, <2>7
  <1>5. Handshake
    <2>1. /\ to["a"] = <<>> /\ to["b"] = <<>> /\ seq["a"] = 0 /\ seq["b"] = 0
          /\ state["a"] = "NONE" /\ state["b"] = "LOCAL_PENDING"
      BY DEF Init, Sides
    <2>2. \A T : ~Any(<<>>, T) /\ Once(<<>>, T)
      BY None
    <2> QED BY <2>1, <2>2 DEF Handshake, Early
  <1> QED BY <1>2, <1>3, <1>4, <1>5 DEF IBBInv

LEMMA StepInv == IBBInv /\ [Next]_vars => IBBInv'
  <1> SUFFICES ASSUME IBBInv, [Next]_vars PROVE IBBInv'
    OBVIOUS
  <1>1. CASE UNCHANGED vars
    <2>1. UNCHANGED <<state, inFlight, writeBuffer, writeBlocked, readBlocked, readBuffer, notAcked, closeIq, to,
                      sent, seq, upto, received>>
      BY <1>1 DEF vars, buffers, ghosts
    <2>2. Types' /\ Handshake'
      BY <2>1 DEF IBBInv, Types, Handshake
    <2>3. ASSUME NEW x \in Sides PROVE Own(x)' /\ Inbound(x)' /\ Answers(x)' /\ Accounted(x)'
      <3>1. Own(x) /\ Inbound(x) /\ Answers(x) /\ Accounted(x)
        BY DEF IBBInv
      <3>2. Own(x)'
        BY <2>1, <3>1 DEF Own, Sender, Window, Reader, Unused
      <3>3. Inbound(x)'
        BY <2>1, <3>1 DEF Inbound, Held
      <3>4. Answers(x)' /\ Accounted(x)'
        BY <2>1, <3>1 DEF Answers, Accounted, Kept
      <3> QED BY <3>2, <3>3, <3>4
    <2> QED BY <2>2, <2>3 DEF IBBInv
  <1>2. CASE Accept
    <2>1. "b" \in Sides
      BY DEF Sides
    <2> QED BY <1>2, <2>1, HandshakeKept
  <1>3. ASSUME NEW z \in Sides, StanzaArrives(z) PROVE IBBInv'
    <2>1. CASE CloseArrives(z)
      BY <2>1, CloseAnsweredKept, CloseKept
    <2>2. CASE CloseReplyArrives(z) \/ LateReplyArrives(z)
      BY <2>2, CloseAnsweredKept
    <2>3. CASE (z = "a" /\ SiReplyArrives) \/ OpenArrives(z) \/ OpenReplyArrives(z)
      BY <2>3, HandshakeKept
    <2>4. CASE AckArrives(z)
      BY <2>4, AckKept
    <2>5. CASE RefusalArrives(z) \/ DataOverflows(z)
      BY <2>5, CloseKept
    <2>6. CASE DataRefused(z)
      BY <2>6, DataRefusedKept
    <2>7. CASE DataBuffered(z)
      BY <2>7, DataBufferedKept
    <2>8. CASE DataDelivered(z)
      BY <2>8, DataDeliveredKept
    <2> QED BY <1>3, <2>1, <2>2, <2>3, <2>4, <2>5, <2>6, <2>7, <2>8 DEF StanzaArrives
  <1>4. ASSUME NEW z \in Sides, UserClose(z) PROVE IBBInv'
    BY <1>4, CloseKept
  <1>5. ASSUME NEW z \in Sides, NEW n \in 1 .. Budget[z], UserSend(z, n) PROVE IBBInv'
    BY <1>5, SendKept
  <1>6. ASSUME NEW z \in Sides, BlockReading(z) \/ UnblockReading(z) PROVE IBBInv'
    BY <1>6, BlockKept, UnblockKept
  <1> QED BY <1>1, <1>2, <1>3, <1>4, <1>5, <1>6 DEF Next

LEMMA InvSound == IBBInv => StreamSound
  <1> SUFFICES ASSUME IBBInv PROVE StreamSound
    OBVIOUS
  <1>1. Types /\ \A x \in Sides : Own(x) /\ Inbound(x) /\ Answers(x) /\ Accounted(x)
    BY DEF IBBInv
  <1>2. TypeOK
    <2>1. state \in [Sides -> {"NONE", "LOCAL_PENDING", "ACCEPTED", "INITIATING", "OPEN", "CLOSING", "CLOSED"}]
      BY <1>1 DEF Types, States
    <2>2. ASSUME NEW x \in Sides
          PROVE  /\ inFlight[x] \subseteq 1 .. seq[x] /\ writeBlocked[x] = (writeBuffer[x] # <<>>)
                 /\ readBuffer[x] # <<>> => readBlocked[x]
                 /\ closeIq[x] => state[x] = "CLOSING"
      BY <1>1 DEF Own, Sender, Window, Reader
    <2>3. ASSUME NEW x \in Sides PROVE notAcked[x] \in Seq(1 .. seq[Peer(x)])
      <3>1. notAcked[x] \in Seq(Nat) /\ \A k \in 1 .. Len(notAcked[x]) : notAcked[x][k] \in 1 .. seq[Peer(x)]
        BY <1>1 DEF Types, Inbound
      <3>2. Len(notAcked[x]) \in Nat /\ notAcked[x] \in [1 .. Len(notAcked[x]) -> Nat]
        BY <3>1, LenProperties
      <3>3. notAcked[x] \in [1 .. Len(notAcked[x]) -> 1 .. seq[Peer(x)]]
        BY <3>1, <3>2
      <3> QED BY <3>2, <3>3, SeqDef
    <2>4. ASSUME NEW x \in Sides PROVE DOMAIN upto[x] = 1 .. seq[x]
      <3>1. upto[x] \in Seq(Nat) /\ Len(upto[x]) = seq[x]
        BY <1>1 DEF Types, Own, Sender
      <3> QED BY <3>1, LenProperties
    <2> QED BY <2>1, <2>2, <2>3, <2>4 DEF TypeOK
  <1>3. WindowBound /\ ReadBufferBound /\ NoStall
    BY <1>1 DEF WindowBound, ReadBufferBound, NoStall, Own, Window, Reader
  <1>4. EveryIqAccounted
    <2> SUFFICES ASSUME NEW x \in Sides, state[x] # "CLOSED", NEW id \in inFlight[x]
                 PROVE  \/ \E i \in DOMAIN to[Peer(x)] : to[Peer(x)][i].type = "data" /\ to[Peer(x)][i].id = id
                        \/ \E i \in DOMAIN to[x] : to[x][i].type \in {"acked", "refused"} /\ to[x][i].id = id
                        \/ \E i \in DOMAIN notAcked[Peer(x)] : notAcked[Peer(x)][i] = id
      BY DEF EveryIqAccounted
    <2>1. to[x] \in Seq(Messages) /\ to[Peer(x)] \in Seq(Messages) /\ notAcked[Peer(x)] \in Seq(Nat)
      BY <1>1, Sided DEF Types
    <2>2. /\ DOMAIN to[x] = 1 .. Len(to[x]) /\ DOMAIN to[Peer(x)] = 1 .. Len(to[Peer(x)])
          /\ DOMAIN notAcked[Peer(x)] = 1 .. Len(notAcked[Peer(x)])
      BY <2>1, LenProperties
    <2>3. Has(to[Peer(x)], id) \/ Answered(to[x], id) \/ Kept(Peer(x), id)
      BY <1>1 DEF Accounted
    <2> QED BY <2>2, <2>3 DEF Has, Answered, Kept
  <1>5. DeliveredIsPrefix
    <2> SUFFICES ASSUME NEW x \in Sides
                 PROVE  Len(received[x]) <= sent[Peer(x)] /\ \A i \in DOMAIN received[x] : received[x][i] = i
      BY DEF DeliveredIsPrefix
    <2>1. received[x] \in Seq(Nat) /\ readBuffer[x] \in Seq(Nat) /\ Run(received[x], 0) /\ Peer(x) \in Sides
          /\ Len(received[x]) + Len(readBuffer[x]) <= Last(upto[Peer(x)], seq[Peer(x)])
      BY <1>1, Sided DEF Types, Inbound, Held
    <2>2. /\ upto[Peer(x)] \in Seq(Nat) /\ seq[Peer(x)] \in Nat /\ Len(upto[Peer(x)]) = seq[Peer(x)]
          /\ writeBuffer[Peer(x)] \in Seq(Nat) /\ sent[Peer(x)] \in Nat
          /\ Last(upto[Peer(x)], seq[Peer(x)]) + Len(writeBuffer[Peer(x)]) <= sent[Peer(x)]
      BY <1>1, <2>1 DEF Types, Own, Sender
    <2>3. /\ Len(received[x]) \in Nat /\ Len(readBuffer[x]) \in Nat /\ Len(writeBuffer[Peer(x)]) \in Nat
          /\ DOMAIN received[x] = 1 .. Len(received[x])
      BY <2>1, <2>2, LenProperties
    <2>4. Last(upto[Peer(x)], seq[Peer(x)]) \in Nat
      <3>1. seq[Peer(x)] \in 0 .. Len(upto[Peer(x)])
        BY <2>2
      <3> QED BY <2>2, <3>1, LastType
    <2>5. Len(received[x]) <= sent[Peer(x)]
      <3>1. PICK l \in Nat, r \in Nat, k \in Nat, w \in Nat, n \in Nat :
              /\ l = Last(upto[Peer(x)], seq[Peer(x)]) /\ r = Len(received[x]) /\ k = Len(readBuffer[x])
              /\ w = Len(writeBuffer[Peer(x)]) /\ n = sent[Peer(x)]
        BY <2>2, <2>3, <2>4, Zenon
      <3>2. r + k <= l /\ l + w <= n
        BY <2>1, <2>2, <3>1, Zenon
      <3>3. r <= n
        BY <3>2
      <3> QED BY <3>1, <3>3, Zenon
    <2>6. \A i \in DOMAIN received[x] : received[x][i] = i
      BY <2>1, <2>3 DEF Run
    <2> QED BY <2>5, <2>6
  <1>6. AckMeansDelivered
    <2> SUFFICES ASSUME NEW x \in Sides, NEW i \in DOMAIN to[x], to[x][i].type = "acked"
                 PROVE  upto[x][to[x][i].id] <= Len(received[Peer(x)])
      BY DEF AckMeansDelivered
    <2>1. DOMAIN to[x] = 1 .. Len(to[x])
      BY <1>1, LenProperties DEF Types
    <2> QED BY <1>1, <2>1 DEF Answers, Truthful
  <1> QED BY <1>2, <1>3, <1>4, <1>5, <1>6 DEF StreamSound, BuffersBounded, StreamFaithful

(* The window and the two buffers of GabbleBytestreamIBB lose, double and     *)
(* reorder nothing, keep their limits, answer every data IQ and never leave   *)
(* data in the write buffer of an open stream with nothing in flight, for     *)
(* every WINDOW_SIZE, block-size and READ_BUFFER_MAX_SIZE and any amount of   *)
(* data (send_data, iq_reply_cb, gabble_bytestream_ibb_receive,               *)
(* gabble_bytestream_ibb_block_reading, gabble_bytestream_ibb_close).         *)
THEOREM StreamIsSound == Spec => []StreamSound
  <1>1. Init => IBBInv
    BY InitInv
  <1>2. IBBInv /\ [Next]_vars => IBBInv'
    BY StepInv
  <1>3. IBBInv => StreamSound
    BY InvSound
  <1> QED BY <1>1, <1>2, <1>3, PTL DEF Spec


-----------------------------------------------------------------------------
(* The in-band bytestream is a bytestream.                                    *)

Phases == [x \in Sides |-> PhaseOf(state[x])]

LEMMA PhaseUpdated ==
  ASSUME NEW z \in Sides, NEW st, state'[z] = st, state'[Peer(z)] = state[Peer(z)]
  PROVE  Phases' = [Phases EXCEPT ![z] = PhaseOf(st)]
  <1>1. ASSUME NEW x \in Sides PROVE Phases'[x] = [Phases EXCEPT ![z] = PhaseOf(st)][x]
    BY Sided DEF Phases
  <1>2. Phases' = [x \in Sides |-> Phases'[x]]
    BY DEF Phases
  <1>3. [Phases EXCEPT ![z] = PhaseOf(st)] = [x \in Sides |-> [Phases EXCEPT ![z] = PhaseOf(st)][x]]
    BY DEF Phases
  <1> QED BY <1>1, <1>2, <1>3

(* The steps of the stream.                                                   *)
LEMMA StreamOpens ==
  ASSUME NEW z \in Sides, state[z] \in Early, state'[z] = "OPEN", state'[Peer(z)] = state[Peer(z)],
         z = "a" => state["b"] \in States \ Early, UNCHANGED <<sent, received>>
  PROVE  InBand!StreamNext
  <1>1. Phases' = [Phases EXCEPT ![z] = "open"]
    <2>1. Phases' = [Phases EXCEPT ![z] = PhaseOf("OPEN")]
      BY PhaseUpdated
    <2> QED BY <2>1 DEF PhaseOf
  <1>2. Phases[z] = "setup"
    BY DEF Phases, PhaseOf, Early
  <1>3. z = "a" => Phases["b"] # "setup"
    BY DEF Phases, PhaseOf, Early, States, Sides
  <1>4. InBand!Opens(z)
    BY <1>1, <1>2, <1>3 DEF InBand!Opens, Phases
  <1> QED BY <1>4 DEF InBand!StreamNext, Sides

LEMMA StreamCloses ==
  ASSUME NEW z \in Sides, state[z] \in States, state'[Peer(z)] = state[Peer(z)], UNCHANGED <<sent, received>>,
         (state'[z] = "CLOSED" /\ state[z] # "CLOSED") \/ (state'[z] = "CLOSING" /\ state[z] = "OPEN")
  PROVE  InBand!StreamNext
  <1>1. Phases' = [Phases EXCEPT ![z] = PhaseOf(state'[z])]
    <2>1. PICK st : st = state'[z]
      OBVIOUS
    <2>2. Phases' = [Phases EXCEPT ![z] = PhaseOf(st)]
      BY <2>1, PhaseUpdated
    <2> QED BY <2>1, <2>2
  <1>2. CASE state'[z] = "CLOSED" /\ state[z] # "CLOSED"
    <2>1. PhaseOf(state'[z]) = "over" /\ Phases[z] # "over"
      BY <1>2 DEF Phases, PhaseOf, States
    <2>2. InBand!Closes(z)
      BY <1>1, <2>1 DEF InBand!Closes, Phases
    <2> QED BY <2>2 DEF InBand!StreamNext, Sides
  <1>3. CASE state'[z] = "CLOSING" /\ state[z] = "OPEN"
    <2>1. PhaseOf(state'[z]) = "closing" /\ Phases[z] = "open"
      BY <1>3 DEF Phases, PhaseOf
    <2>2. InBand!Closes(z)
      BY <1>1, <2>1 DEF InBand!Closes, Phases
    <2> QED BY <2>2 DEF InBand!StreamNext, Sides
  <1> QED BY <1>2, <1>3

LEMMA StreamStutters ==
  ASSUME NEW z \in Sides, state'[Peer(z)] = state[Peer(z)], UNCHANGED <<sent, received>>,
         state'[z] = state[z] \/ (state[z] \in Early /\ state'[z] \in Early)
  PROVE  UNCHANGED InBand!streamVars
  <1>1. PICK st : st = state'[z]
    OBVIOUS
  <1>2. Phases' = [Phases EXCEPT ![z] = PhaseOf(st)]
    BY <1>1, PhaseUpdated
  <1>3. PhaseOf(st) = Phases[z]
    BY <1>1 DEF Phases, PhaseOf, Early
  <1>4. Phases' = Phases
    BY <1>2, <1>3 DEF Phases
  <1> QED BY <1>4 DEF InBand!streamVars, Phases

LEMMA StreamGives ==
  ASSUME NEW z \in Sides, NEW n \in 1 .. Budget[z], state[z] = "OPEN", UNCHANGED <<state, received>>,
         sent' = [sent EXCEPT ![z] = @ + n]
  PROVE  InBand!StreamNext
  <1>1. n \in 1 .. Budget["a"] + Budget["b"]
    BY IBBAssumption DEF Sides
  <1>2. Phases[z] = "open" /\ Phases' = Phases
    BY DEF Phases, PhaseOf
  <1>3. InBand!Gives(z)
    BY <1>1, <1>2 DEF InBand!Gives, Phases
  <1> QED BY <1>3 DEF InBand!StreamNext, Sides

LEMMA RunIs ==
  ASSUME NEW s \in Seq(Nat), NEW n \in Nat, Run(s, n)
  PROVE  s = [i \in 1 .. Len(s) |-> n + i]
  <1>1. s = [i \in 1 .. Len(s) |-> s[i]]
    BY LenProperties
  <1> QED BY <1>1 DEF Run

LEMMA StreamTakes ==
  ASSUME NEW z \in Sides, IBBInv, DeliveredIsPrefix', state[z] \in {"OPEN", "CLOSING"}, UNCHANGED <<state, sent>>,
         NEW bytes \in Seq(Nat), Run(bytes, Len(received[z])),
         received' = [received EXCEPT ![z] = @ \o bytes]
  PROVE  [InBand!StreamNext]_InBand!streamVars
  <1>1. /\ received \in [Sides -> Seq(Nat)] /\ received[z] \in Seq(Nat)
        /\ Len(received[z]) \in Nat /\ Len(bytes) \in Nat
        /\ sent \in [Sides -> Nat] /\ sent[Peer(z)] \in Nat
    BY Sided, LenProperties DEF IBBInv, Types
  <1>2. Phases[z] \in {"open", "closing"} /\ Phases' = Phases
    BY DEF Phases, PhaseOf
  <1>3. received'[z] = received[z] \o bytes /\ Len(received[z] \o bytes) = Len(received[z]) + Len(bytes)
    BY <1>1, JoinedBytes
  <1>4. Len(received'[z]) <= sent'[Peer(z)]
    BY DEF DeliveredIsPrefix
  <1>5. bytes = [i \in 1 .. Len(bytes) |-> Len(received[z]) + i]
    BY <1>1, RunIs
  <1>6. InBand!Opposite(z) = Peer(z)
    BY DEF InBand!Opposite, Peer
  <1>7. CASE Len(bytes) = 0
    <2>1. bytes = <<>>
      BY <1>7, EmptySeq
    <2>2. received[z] \o bytes = received[z]
      BY <1>1, <2>1, ConcatEmptySeq
    <2>3. received' = received
      BY <1>1, <2>2
    <2> QED BY <1>2, <2>3 DEF InBand!streamVars, Phases
  <1>8. CASE Len(bytes) # 0
    <2>1. Len(bytes) \in 1 .. (sent[Peer(z)] - Len(received[z]))
      <3>1. PICK r \in Nat, k \in Nat, n \in Nat : r = Len(received[z]) /\ k = Len(bytes) /\ n = sent[Peer(z)]
        BY <1>1, Zenon
      <3>2. r + k <= n /\ k # 0
        BY <1>3, <1>4, <1>8, <3>1
      <3>3. k \in 1 .. (n - r)
        BY <3>2
      <3> QED BY <3>1, <3>3, Zenon
    <2>2. received' = [received EXCEPT ![z] = @ \o [i \in 1 .. Len(bytes) |-> Len(@) + i]]
      BY <1>1, <1>5
    <2>3. InBand!Takes(z)
      BY <1>2, <1>6, <2>1, <2>2 DEF InBand!Takes, Phases
    <2> QED BY <2>3 DEF InBand!StreamNext, Sides
  <1> QED BY <1>7, <1>8


(* Closing.                                                                   *)
LEMMA CloseStreams ==
  ASSUME NEW z \in Sides, IBBInv, NEW pop, NEW before, NEW cq, Close(z, pop, before, cq), state[z] # "CLOSED",
         UNCHANGED <<sent, received>>
  PROVE  [InBand!StreamNext]_InBand!streamVars
  <1>1. /\ state \in [Sides -> States] /\ state[z] \in States /\ Peer(z) \in Sides /\ Peer(z) # z
        /\ state[z] \in Early => writeBuffer[z] = <<>>
    BY Sided DEF IBBInv, Types, Own, Unused
  <1>2. \/ state' = [state EXCEPT ![z] = "CLOSED"]
        \/ state' = [state EXCEPT ![z] = "CLOSING"] /\ writeBuffer[z] # <<>>
    BY DEF Close
  <1>3. CASE state' = [state EXCEPT ![z] = "CLOSED"]
    <2>1. state'[z] = "CLOSED" /\ state'[Peer(z)] = state[Peer(z)]
      BY <1>1, <1>3
    <2> QED BY <1>1, <2>1, StreamCloses
  <1>4. CASE state' = [state EXCEPT ![z] = "CLOSING"] /\ writeBuffer[z] # <<>>
    <2>1. state'[z] = "CLOSING" /\ state'[Peer(z)] = state[Peer(z)] /\ state[z] \in {"OPEN", "CLOSING"}
      BY <1>1, <1>4 DEF States, Early
    <2>2. CASE state[z] = "OPEN"
      BY <1>1, <2>1, <2>2, StreamCloses
    <2>3. CASE state[z] = "CLOSING"
      BY <2>1, <2>3, StreamStutters
    <2> QED BY <2>1, <2>2, <2>3
  <1> QED BY <1>2, <1>3, <1>4

LEMMA StreamsOf ==
  ASSUME NEW z \in Sides, IBBInv, DeliveredIsPrefix', StanzaArrives(z)
  PROVE  [InBand!StreamNext]_InBand!streamVars
  <1>1. /\ Types /\ Handshake /\ state \in [Sides -> States] /\ state[z] \in States
        /\ Peer(z) \in Sides /\ Peer(z) # z /\ to[z] \in Seq(Messages)
    BY Sided DEF IBBInv, Types
  <1>2. ASSUME NEW t, Arrives(z, t), NEW T, t \in T PROVE Any(to[z], T)
    <2>1. to[z] # <<>> /\ to[z][1].type = t
      BY <1>1, <1>2, Arrived
    <2>2. 1 \in 1 .. Len(to[z])
      BY <1>1, <2>1, Popped
    <2> QED BY <1>2, <2>1, <2>2 DEF Any
  <1>3. ASSUME UNCHANGED <<state, sent, received>> PROVE [InBand!StreamNext]_InBand!streamVars
    BY <1>3, StreamStutters
  <1>4. CASE CloseArrives(z)
    <2>1. CASE state[z] \in {"NONE", "CLOSED"}
      BY <1>3, <1>4, <2>1 DEF CloseArrives, ghosts
    <2>2. CASE state[z] \notin {"NONE", "CLOSED"}
      BY <1>4, <2>2, CloseStreams DEF CloseArrives, ghosts
    <2> QED BY <2>1, <2>2
  <1>5. CASE CloseReplyArrives(z) \/ LateReplyArrives(z) \/ DataRefused(z) \/ DataBuffered(z)
    BY <1>3, <1>5 DEF CloseReplyArrives, LateReplyArrives, DataRefused, DataBuffered, ghosts
  <1>6. CASE z = "a" /\ SiReplyArrives
    <2>1. UNCHANGED <<sent, received>>
      BY <1>6 DEF SiReplyArrives, ghosts
    <2>2. PICK t \in Offers : Arrives("a", t)
      BY <1>6 DEF SiReplyArrives, Offers
    <2>3. Any(to["a"], Offers)
      BY <1>2, <1>6, <2>2
    <2>4. state["a"] = "NONE"
      BY <1>1, <2>3 DEF Handshake
    <2>5. CASE state' = [state EXCEPT !["a"] = "INITIATING"]
      <3>1. state'[z] = "INITIATING" /\ state'[Peer(z)] = state[Peer(z)]
        BY <1>1, <1>6, <2>5
      <3> QED BY <1>6, <2>1, <2>4, <3>1, StreamStutters DEF Early
    <2>6. CASE state' = [state EXCEPT !["a"] = "CLOSED"]
      <3>1. state'[z] = "CLOSED" /\ state'[Peer(z)] = state[Peer(z)]
        BY <1>1, <1>6, <2>6
      <3> QED BY <1>1, <1>6, <2>1, <2>4, <3>1, StreamCloses
    <2> QED BY <1>6, <2>5, <2>6 DEF SiReplyArrives
  <1>7. CASE OpenArrives(z)
    <2>1. UNCHANGED <<sent, received>> /\ Arrives(z, "open")
      BY <1>7 DEF OpenArrives, ghosts
    <2>2. z = "b"
      BY <1>1, <1>2, <2>1 DEF Handshake, Sides
    <2>3. CASE state[z] = "ACCEPTED"
      <3>1. state' = [state EXCEPT ![z] = "OPEN"]
        BY <1>7, <2>3 DEF OpenArrives
      <3>2. state'[z] = "OPEN" /\ state'[Peer(z)] = state[Peer(z)]
        BY <1>1, <3>1
      <3> QED BY <2>1, <2>2, <2>3, <3>2, StreamOpens DEF Early
    <2>4. CASE state[z] # "ACCEPTED"
      BY <1>3, <1>7, <2>1, <2>4 DEF OpenArrives
    <2> QED BY <2>3, <2>4
  <1>8. CASE OpenReplyArrives(z)
    <2>1. UNCHANGED <<sent, received>> /\ (Arrives(z, "opened") \/ Arrives(z, "not-opened"))
      BY <1>8 DEF OpenReplyArrives, ghosts
    <2>2. Any(to[z], Opened)
      BY <1>2, <2>1 DEF Opened
    <2>3. z = "a"
      BY <1>1, <2>2 DEF Handshake, Sides
    <2>4. state["a"] \in {"INITIATING", "CLOSED"}
      BY <1>1, <2>2, <2>3 DEF Handshake
    <2>5. PICK st \in {"OPEN", "CLOSED"} :
            /\ state' = [state EXCEPT ![z] = st]
            /\ st = "OPEN" => Arrives(z, "opened") /\ state[z] # "CLOSED"
      <3>1. state' = [state EXCEPT ![z] =
               IF state[z] # "CLOSED" /\ Arrives(z, "opened") THEN "OPEN" ELSE "CLOSED"]
        BY <1>1, <1>8 DEF OpenReplyArrives
      <3> QED BY <3>1
    <2>6. state'[z] = st /\ state'[Peer(z)] = state[Peer(z)]
      BY <1>1, <2>5
    <2>7. CASE st = "OPEN"
      <3>1. Any(to["a"], {"opened"})
        BY <1>2, <2>3, <2>5, <2>7
      <3>2. state["b"] \in States \ Early
        BY <1>1, <3>1 DEF Handshake, Sides
      <3>3. state[z] = "INITIATING"
        BY <2>3, <2>4, <2>5, <2>7
      <3> QED BY <2>1, <2>6, <2>7, <3>2, <3>3, StreamOpens DEF Early
    <2>8. CASE st = "CLOSED"
      <3>1. CASE state[z] = "CLOSED"
        BY <2>1, <2>6, <2>8, <3>1, StreamStutters
      <3>2. CASE state[z] # "CLOSED"
        BY <1>1, <2>1, <2>6, <2>8, <3>2, StreamCloses
      <3> QED BY <3>1, <3>2
    <2> QED BY <2>7, <2>8
  <1>9. CASE AckArrives(z)
    <2>1. UNCHANGED <<sent, received>> /\ state[z] # "CLOSED"
      BY <1>9 DEF AckArrives
    <2>2. state' = [state EXCEPT ![z] = "CLOSED"] \/ state' = state
      BY <1>9 DEF AckArrives
    <2>3. CASE state' = [state EXCEPT ![z] = "CLOSED"]
      <3>1. state'[z] = "CLOSED" /\ state'[Peer(z)] = state[Peer(z)]
        BY <1>1, <2>3
      <3> QED BY <1>1, <2>1, <3>1, StreamCloses
    <2>4. CASE state' = state
      BY <1>3, <2>1, <2>4
    <2> QED BY <2>2, <2>3, <2>4
  <1>10. CASE RefusalArrives(z)
    BY <1>10, CloseStreams DEF RefusalArrives
  <1>11. CASE DataOverflows(z)
    BY <1>11, CloseStreams DEF DataOverflows
  <1>12. CASE DataDelivered(z)
    <2>1. /\ Arrives(z, "data") /\ state[z] = "OPEN" /\ ~readBlocked[z] /\ UNCHANGED <<state, sent>>
          /\ received' = [received EXCEPT ![z] = @ \o Message(z).body]
      BY <1>12 DEF DataDelivered
    <2>2. Message(z) = to[z][1] /\ to[z][1].body \in Seq(Nat)
      BY <2>1, DataArrived
    <2>3. Run(to[z][1].body, Held(z))
      BY <2>1, NextData
    <2>4. Held(z) = Len(received[z])
      <3>1. readBuffer[z] = <<>> /\ Len(<<>>) = 0
        BY <2>1, EmptySeq DEF IBBInv, Own, Reader
      <3>2. Len(received[z]) \in Nat
        BY <1>1, LenProperties DEF Types
      <3> QED BY <3>1, <3>2 DEF Held
    <2> QED BY <2>1, <2>2, <2>3, <2>4, StreamTakes
  <1> QED BY <1>4, <1>5, <1>6, <1>7, <1>8, <1>9, <1>10, <1>11, <1>12 DEF StanzaArrives

LEMMA StreamStep == IBBInv /\ DeliveredIsPrefix' /\ [Next]_vars => [InBand!StreamNext]_InBand!streamVars
  <1> SUFFICES ASSUME IBBInv, DeliveredIsPrefix', [Next]_vars PROVE [InBand!StreamNext]_InBand!streamVars
    OBVIOUS
  <1>1. Types /\ state \in [Sides -> States] /\ "b" \in Sides
    BY DEF IBBInv, Types, Sides
  <1>2. CASE UNCHANGED vars
    <2>1. UNCHANGED <<state, sent, received>>
      BY <1>2 DEF vars, ghosts
    <2> QED BY <1>1, <2>1, StreamStutters
  <1>3. CASE Accept
    <2>1. /\ UNCHANGED <<sent, received>> /\ state["b"] = "LOCAL_PENDING"
          /\ state' = [state EXCEPT !["b"] = "ACCEPTED"]
      BY <1>3 DEF Accept, ghosts
    <2>2. state'["b"] = "ACCEPTED" /\ state'[Peer("b")] = state[Peer("b")]
      BY <1>1, <2>1, Sided
    <2> QED BY <1>1, <2>1, <2>2, StreamStutters DEF Early
  <1>4. ASSUME NEW z \in Sides, StanzaArrives(z) PROVE [InBand!StreamNext]_InBand!streamVars
    BY <1>4, StreamsOf
  <1>5. ASSUME NEW z \in Sides, UserClose(z) PROVE [InBand!StreamNext]_InBand!streamVars
    BY <1>5, CloseStreams DEF UserClose
  <1>6. ASSUME NEW z \in Sides, NEW n \in 1 .. Budget[z], UserSend(z, n)
        PROVE  [InBand!StreamNext]_InBand!streamVars
    <2>1. state[z] = "OPEN" /\ UNCHANGED <<state, received>> /\ sent' = [sent EXCEPT ![z] = @ + n]
      BY <1>6 DEF UserSend
    <2> QED BY <2>1, StreamGives
  <1>7. ASSUME NEW z \in Sides, BlockReading(z) PROVE [InBand!StreamNext]_InBand!streamVars
    <2>1. UNCHANGED <<state, sent, received>>
      BY <1>7 DEF BlockReading, ghosts
    <2> QED BY <2>1, StreamStutters
  <1>8. ASSUME NEW z \in Sides, UnblockReading(z) PROVE [InBand!StreamNext]_InBand!streamVars
    <2>1. /\ readBlocked[z] /\ UNCHANGED <<state, sent>>
          /\ received' = [received EXCEPT ![z] = @ \o readBuffer[z]]
      BY <1>8 DEF UnblockReading
    <2>2. /\ state[z] \in {"OPEN", "CLOSING"} /\ readBuffer[z] \in Seq(Nat)
          /\ Run(readBuffer[z], Len(received[z]))
      BY <1>1, <2>1 DEF IBBInv, Own, Reader, Inbound, Types
    <2> QED BY <2>1, <2>2, StreamTakes
  <1> QED BY <1>2, <1>3, <1>4, <1>5, <1>6, <1>7, <1>8 DEF Next

(* GabbleBytestreamIBB keeps what GabbleBytestreamIface promises: an end is   *)
(* set up, open, closing and over in that order, the end that offers opens    *)
(* after the other, and a user is given the units sent, in order and once,    *)
(* while its end is open or closing.                                          *)
THEOREM IBBIsABytestream == Spec => InBand!StreamSpec
  <1>1. Init => IBBInv
    BY InitInv
  <1>2. IBBInv /\ [Next]_vars => IBBInv'
    BY StepInv
  <1>3. IBBInv => DeliveredIsPrefix
    BY InvSound DEF StreamSound, StreamFaithful
  <1>4. IBBInv /\ DeliveredIsPrefix' /\ [Next]_vars => [InBand!StreamNext]_InBand!streamVars
    BY StreamStep
  <1>5. Init => InBand!StreamInit
    BY DEF Init, InBand!StreamInit, Sides, PhaseOf
  <1> QED BY <1>1, <1>2, <1>3, <1>4, <1>5, PTL DEF Spec, InBand!StreamSpec


=============================================================================
