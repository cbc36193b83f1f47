--------------------------- MODULE ImChannelProofs ---------------------------
(* The invariants of ImChannel for any set of contacts, whatever they send,   *)
(* and however many messages are heard and sent.                              *)
EXTENDS ImChannel, SequenceTheorems, FiniteSetTheorems, TLAPS

Addresses == (Friends \cup {"none"}) \X {"none", "bare", "r1", "r2"}
Chans == [open : BOOLEAN, peer : Addresses, states : {"UNKNOWN", "SUPPORTED", "NOT_SUPPORTED"}, nick : BOOLEAN,
          pending : Seq(Nat), gone : BOOLEAN, rescued : SUBSET Nat]
Ims == [up : BOOLEAN, chan : [Friends -> Chans]]
Outs == [to : Addresses, kind : {"message", "state"}, nick : BOOLEAN, n : Nat, friend : Friends, state : BOOLEAN]
Answers == [n : Nat, how : {"sent", "failed", "refused"}, report : BOOLEAN]
Asked == [n : Nat, report : BOOLEAN]
Mails == [heard : Nat, let : SUBSET Nat, sent : Nat, out : Seq(Outs), answers : Seq(Answers),
          opened : [Friends -> Nat], closed : [Friends -> Nat], spoke : [Friends -> Addresses],
          receipts : SUBSET Friends]
Items(s) == {s[i] : i \in 1..Len(s)}
Stateful(s) == s.stanzas \cap {"stated", "state"} # {}

-----------------------------------------------------------------------------
(* The inductive invariant.                                                   *)

Types ==
  /\ imScene \in ImScenes
  /\ im \in Ims
  /\ DOMAIN seen = Friends
  /\ porterQ \in Seq(Asked)
  /\ mail \in Mails

(* The channel of contact c in scene s, when op of them were opened and cl    *)
(* closed and the contact last spoke from sp.                                 *)
Fine(s, c, ch, op, cl, sp) ==
  /\ ~ch.open => ch = NoChan
  /\ op = cl + (IF ch.open THEN 1 ELSE 0)
  /\ ch.open => ch.peer \in {Bare(c), sp}
  /\ ch.pending # <<>> /\ s.stanzas \subseteq {"body", "stated"} => ch.peer = sp
  /\ ch.states = "SUPPORTED" => Stateful(s)
  /\ ch.nick => c \notin s.visibleTo

Channels == \A c \in Friends : Fine(imScene, c, im.chan[c], mail.opened[c], mail.closed[c], mail.spoke[c])

Unread(chan) == UNION {Items(chan[c].pending) : c \in Friends}
Kept == 1..mail.heard = mail.let \cup Unread(im.chan)

(* What was answered, and what the porter has: the number of a message is     *)
(* in one of them, once, and the porter answers in order.                     *)
Ledger(a, q, sent) ==
  /\ Len(a) + Len(q) = sent
  /\ \A i \in 1..Len(a) : a[i].n \in 1..sent
  /\ \A j \in 1..Len(q) : q[j].n \in 1..sent
  /\ \A i, j \in 1..Len(a) : i # j => a[i].n # a[j].n
  /\ \A i, j \in 1..Len(q) : i < j => q[i].n < q[j].n
  /\ \A i \in 1..Len(a), j \in 1..Len(q) : a[i].n # q[j].n /\ (a[i].how # "refused" => a[i].n < q[j].n)
  /\ \A i, j \in 1..Len(a) : i < j /\ a[i].how # "refused" /\ a[j].how # "refused" => a[i].n < a[j].n

(* The nickname was told less often than channels were opened while one of    *)
(* them has yet to tell it.                                                   *)
Told(out, c) == {i \in 1..Len(out) : out[i].friend = c /\ out[i].nick}
Counted(s, out, c, ch, op) ==
  /\ Cardinality(Told(out, c)) + (IF ch.nick THEN 1 ELSE 0) <= op
  /\ c \in s.visibleTo => Told(out, c) = {}
Nicks == \A c \in Friends : Counted(imScene, mail.out, c, im.chan[c], mail.opened[c])

Discreet(s, out, know) == \A i \in 1..Len(out) : out[i].kind = "state" => know[out[i].friend] = "states" \/ Stateful(s)
Reports == \A c \in mail.receipts : c \in imScene.visibleTo /\ ~imScene.hidden

ImInv ==
  /\ Types /\ Channels /\ Kept /\ Ledger(mail.answers, porterQ, mail.sent) /\ Nicks
  /\ Discreet(imScene, mail.out, seen) /\ Reports

LEMMA InvariantMeansSound == ImInv => ImSound
<1> SUFFICES ASSUME ImInv PROVE ImSound
  OBVIOUS
<1>1. UnreadKept
  BY DEF ImInv, Kept, Unread, Items, UnreadKept
<1>2. OneChannelEach
  <2> SUFFICES ASSUME NEW c \in Friends
               PROVE  mail.opened[c] - mail.closed[c] = (IF im.chan[c].open THEN 1 ELSE 0)
    BY DEF OneChannelEach
  <2>1. mail.opened[c] \in Nat /\ mail.closed[c] \in Nat
    BY DEF ImInv, Types, Mails
  <2>2. mail.opened[c] = mail.closed[c] + (IF im.chan[c].open THEN 1 ELSE 0)
    BY DEF ImInv, Channels, Fine
  <2> QED BY <2>1, <2>2
<1>3. WritesWhereItSpoke /\ RepliesWhereItSpoke
  BY DEF ImInv, Channels, Fine, WritesWhereItSpoke, RepliesWhereItSpoke
<1>4. SendsAnsweredOnce
  BY DEF ImInv, Ledger, SendsAnsweredOnce
<1>5. NickToldOnce
  <2> SUFFICES ASSUME NEW c \in Friends
               PROVE  Cardinality(Told(mail.out, c)) <= mail.opened[c] /\ (c \in imScene.visibleTo => Told(mail.out, c) = {})
    BY DEF NickToldOnce, Told
  <2>1. mail.opened[c] \in Nat /\ Len(mail.out) \in Nat
    BY LenProperties DEF ImInv, Types, Mails
  <2>2. Cardinality(Told(mail.out, c)) \in Nat
    <3>1. IsFiniteSet(1..Len(mail.out))
      BY <2>1, FS_Interval
    <3>2. Told(mail.out, c) \in SUBSET (1..Len(mail.out))
      BY DEF Told
    <3> QED BY <3>1, <3>2, FS_Subset, FS_CardinalityType
  <2>3. Counted(imScene, mail.out, c, im.chan[c], mail.opened[c])
    BY DEF ImInv, Nicks
  <2> QED BY <2>1, <2>2, <2>3 DEF Counted
<1>6. UnseenStaysQuiet
  BY DEF ImInv, Discreet, Reports, Stateful, UnseenStaysQuiet
<1> QED BY <1>1, <1>2, <1>3, <1>4, <1>5, <1>6 DEF ImSound

-----------------------------------------------------------------------------
(* Operators.                                                                 *)

LEMMA NewChannels ==
  ASSUME NEW c \in Friends
  PROVE  /\ Bare(c) \in Addresses /\ Resources(c) \subseteq Addresses /\ NoChan \in Chans
         /\ NewIm(c) \in Chans /\ NewIm(c).open /\ NewIm(c).peer = Bare(c) /\ NewIm(c).pending = <<>>
         /\ NewIm(c).states = "UNKNOWN" /\ (NewIm(c).nick => c \notin imScene.visibleTo)
<1>1. Bare(c) \in Addresses /\ Resources(c) \subseteq Addresses /\ <<"none", "none">> \in Addresses
  BY DEF Bare, Resources, Addresses
<1>2. <<>> \in Seq(Nat)
  BY EmptySeq
<1> HIDE DEF Addresses, Bare
<1>3. NoChan \in Chans
  BY <1>1, <1>2 DEF NoChan, Chans
<1> QED BY <1>1, <1>2, <1>3 DEF NewIm, NoChan, Chans

LEMMA ItemsOfAppend ==
  ASSUME NEW S, NEW s \in Seq(S), NEW x \in S
  PROVE  Append(s, x) \in Seq(S) /\ Items(Append(s, x)) = Items(s) \cup {x} /\ Append(s, x) # <<>>
<1>1. Len(s) \in Nat
  BY LenProperties
<1>2. /\ Append(s, x) \in Seq(S) /\ Len(Append(s, x)) = Len(s) + 1
      /\ \A i \in 1..Len(s) : Append(s, x)[i] = s[i]
      /\ Append(s, x)[Len(s) + 1] = x
  BY AppendProperties
<1>3. 1..Len(Append(s, x)) = 1..Len(s) \cup {Len(s) + 1}
  BY <1>1, <1>2
<1>4. Append(s, x) # <<>>
  BY <1>1, <1>2
<1> QED BY <1>2, <1>3, <1>4 DEF Items

LEMMA ItemsOfTail ==
  ASSUME NEW S, NEW s \in Seq(S), s # <<>>
  PROVE  Tail(s) \in Seq(S) /\ Head(s) \in S /\ Items(Tail(s)) \cup {Head(s)} = Items(s)
<1>1. Len(s) \in Nat /\ Len(s) # 0
  BY LenProperties, EmptySeq
<1>2. Tail(s) \in Seq(S) /\ Len(Tail(s)) = Len(s) - 1 /\ Head(s) = s[1] /\ Head(s) \in S
  BY HeadTailProperties
<1>3. \A i \in 1..Len(Tail(s)) : Tail(s)[i] = s[i + 1]
  BY HeadTailProperties
<1>4. \A x : x \in Items(s) <=> x = s[1] \/ \E i \in 1..(Len(s) - 1) : x = s[i + 1]
  <2>1. \A x : (x \in Items(s)) <=> \E i \in 1..Len(s) : x = s[i]
    BY DEF Items
  <2>2. ASSUME NEW x, NEW i \in 1..Len(s), x = s[i] PROVE x = s[1] \/ \E j \in 1..(Len(s) - 1) : x = s[j + 1]
    <3>1. CASE i = 1
      BY <2>2, <3>1
    <3>2. CASE i # 1
      <4>1. i - 1 \in 1..(Len(s) - 1) /\ (i - 1) + 1 = i
        BY <1>1, <3>2
      <4> QED BY <2>2, <4>1
    <3> QED BY <3>1, <3>2
  <2>3. ASSUME NEW x, x = s[1] \/ \E j \in 1..(Len(s) - 1) : x = s[j + 1] PROVE \E i \in 1..Len(s) : x = s[i]
    <3>1. 1 \in 1..Len(s) /\ \A j \in 1..(Len(s) - 1) : j + 1 \in 1..Len(s)
      BY <1>1
    <3> QED BY <2>3, <3>1
  <2> QED BY <2>1, <2>2, <2>3
<1>5. \A x : x \in Items(Tail(s)) <=> \E i \in 1..(Len(s) - 1) : x = s[i + 1]
  BY <1>2, <1>3 DEF Items
<1> QED BY <1>2, <1>4, <1>5

(* One more message was handed over, refused or answered.                     *)
LEMMA LedgerSend ==
  ASSUME NEW a \in Seq(Answers), NEW q \in Seq(Asked), NEW sent \in Nat, Ledger(a, q, sent),
         NEW x \in Asked, x.n = sent + 1
  PROVE  Ledger(a, Append(q, x), sent + 1)
<1>1. Len(a) \in Nat /\ Len(q) \in Nat
  BY LenProperties
<1>2. PICK q2 : q2 = Append(q, x)
  OBVIOUS
<1>3. /\ Len(q2) = Len(q) + 1 /\ q2[Len(q) + 1].n = sent + 1
      /\ \A i \in 1..Len(q) : q2[i] = q[i]
  BY <1>2, AppendProperties
<1>4. /\ \A i \in 1..Len(a) : a[i].n \in 1..sent
      /\ \A j \in 1..Len(q) : q[j].n \in 1..sent
      /\ Len(a) + Len(q) = sent
  BY DEF Ledger
<1>5. \A j \in 1..Len(q2) : j \in 1..Len(q) \/ j = Len(q) + 1
  BY <1>1, <1>3
<1>6. 1..sent \subseteq 1..(sent + 1) /\ sent + 1 \in 1..(sent + 1) /\ \A n \in 1..sent : n < sent + 1
  OBVIOUS
<1>7. \A j \in 1..Len(q2) : q2[j].n \in 1..(sent + 1)
  BY <1>3, <1>4, <1>5, <1>6
<1>8. \A i \in 1..Len(a) : a[i].n \in 1..(sent + 1)
  BY <1>4, <1>6
<1>9. \A i, j \in 1..Len(q2) : i < j => q2[i].n < q2[j].n
  <2> SUFFICES ASSUME NEW i \in 1..Len(q2), NEW j \in 1..Len(q2), i < j PROVE q2[i].n < q2[j].n
    OBVIOUS
  <2>1. i \in 1..Len(q)
    BY <1>1, <1>3
  <2>2. CASE j \in 1..Len(q)
    BY <1>3, <2>1, <2>2 DEF Ledger
  <2>3. CASE j = Len(q) + 1
    <3>1. q[i].n < sent + 1
      BY <1>4, <1>6, <2>1
    <3> QED BY <1>3, <2>1, <2>3, <3>1
  <2> QED BY <1>5, <2>2, <2>3
<1>10. \A i \in 1..Len(a), j \in 1..Len(q2) : a[i].n # q2[j].n /\ (a[i].how # "refused" => a[i].n < q2[j].n)
  <2> SUFFICES ASSUME NEW i \in 1..Len(a), NEW j \in 1..Len(q2)
               PROVE  a[i].n # q2[j].n /\ (a[i].how # "refused" => a[i].n < q2[j].n)
    OBVIOUS
  <2>1. CASE j \in 1..Len(q)
    BY <1>3, <2>1 DEF Ledger
  <2>2. CASE j = Len(q) + 1
    <3>1. a[i].n < sent + 1 /\ a[i].n # sent + 1
      BY <1>4
    <3> QED BY <1>3, <2>2, <3>1
  <2> QED BY <1>5, <2>1, <2>2
<1>11. Len(a) + Len(q2) = sent + 1
  BY <1>1, <1>3, <1>4
<1>12. /\ \A i, j \in 1..Len(a) : i # j => a[i].n # a[j].n
       /\ \A i, j \in 1..Len(a) : i < j /\ a[i].how # "refused" /\ a[j].how # "refused" => a[i].n < a[j].n
  BY DEF Ledger
<1> QED BY <1>2, <1>7, <1>8, <1>9, <1>10, <1>11, <1>12 DEF Ledger

(* The answer y joins the answers a while the porter has q.                   *)
Joins(y, a, q, sent) ==
  /\ Len(a) + 1 + Len(q) = sent
  /\ y.n \in 1..sent
  /\ \A i \in 1..Len(a) : a[i].n \in 1..sent
  /\ \A j \in 1..Len(q) : q[j].n \in 1..sent
  /\ \A i, j \in 1..Len(a) : i # j => a[i].n # a[j].n
  /\ \A i, j \in 1..Len(q) : i < j => q[i].n < q[j].n
  /\ \A i \in 1..Len(a), j \in 1..Len(q) : a[i].n # q[j].n /\ (a[i].how # "refused" => a[i].n < q[j].n)
  /\ \A i, j \in 1..Len(a) : i < j /\ a[i].how # "refused" /\ a[j].how # "refused" => a[i].n < a[j].n
  /\ \A i \in 1..Len(a) : a[i].n # y.n /\ (a[i].how # "refused" /\ y.how # "refused" => a[i].n < y.n)
  /\ \A j \in 1..Len(q) : y.n # q[j].n /\ (y.how # "refused" => y.n < q[j].n)

LEMMA LedgerJoins ==
  ASSUME NEW a \in Seq(Answers), NEW q \in Seq(Asked), NEW sent \in Nat, NEW y \in Answers, Joins(y, a, q, sent)
  PROVE  Ledger(Append(a, y), q, sent)
<1>1. Len(a) \in Nat /\ Len(q) \in Nat
  BY LenProperties
<1>2. PICK a2 : a2 = Append(a, y)
  OBVIOUS
<1>3. /\ Len(a2) = Len(a) + 1 /\ a2[Len(a) + 1] = y
      /\ \A i \in 1..Len(a) : a2[i] = a[i]
  BY <1>2, AppendProperties
<1>4. \A i \in 1..Len(a2) : i \in 1..Len(a) \/ i = Len(a) + 1
  BY <1>1, <1>3
<1>5. \A i \in 1..Len(a2) : a2[i].n \in 1..sent
  BY <1>3, <1>4 DEF Joins
<1>6. ASSUME NEW i \in 1..Len(a2), NEW j \in 1..Len(a2), i # j PROVE a2[i].n # a2[j].n
  <2>1. CASE i \in 1..Len(a) /\ j \in 1..Len(a)
    BY <1>3, <1>6, <2>1 DEF Joins
  <2>2. CASE i \in 1..Len(a) /\ j = Len(a) + 1
    BY <1>3, <2>2 DEF Joins
  <2>3. CASE i = Len(a) + 1 /\ j \in 1..Len(a)
    BY <1>3, <2>3 DEF Joins
  <2> QED BY <1>4, <1>6, <2>1, <2>2, <2>3
<1>7. ASSUME NEW i \in 1..Len(a2), NEW j \in 1..Len(a2), i < j, a2[i].how # "refused", a2[j].how # "refused"
      PROVE  a2[i].n < a2[j].n
  <2>1. i \in 1..Len(a)
    BY <1>1, <1>3, <1>7
  <2>2. CASE j \in 1..Len(a)
    BY <1>3, <1>7, <2>1, <2>2 DEF Joins
  <2>3. CASE j = Len(a) + 1
    BY <1>3, <1>7, <2>1, <2>3 DEF Joins
  <2> QED BY <1>4, <2>2, <2>3
<1>8. ASSUME NEW i \in 1..Len(a2), NEW j \in 1..Len(q)
      PROVE  a2[i].n # q[j].n /\ (a2[i].how # "refused" => a2[i].n < q[j].n)
  <2>1. CASE i \in 1..Len(a)
    BY <1>3, <2>1 DEF Joins
  <2>2. CASE i = Len(a) + 1
    BY <1>3, <2>2 DEF Joins
  <2> QED BY <1>4, <2>1, <2>2
<1>9. Len(a2) + Len(q) = sent
  BY <1>1, <1>3 DEF Joins
<1>10. /\ \A j \in 1..Len(q) : q[j].n \in 1..sent
       /\ \A i, j \in 1..Len(q) : i < j => q[i].n < q[j].n
  BY DEF Joins
<1> QED BY <1>2, <1>5, <1>6, <1>7, <1>8, <1>9, <1>10 DEF Ledger

LEMMA LedgerRefuse ==
  ASSUME NEW a \in Seq(Answers), NEW q \in Seq(Asked), NEW sent \in Nat, Ledger(a, q, sent),
         NEW y \in Answers, y.n = sent + 1, y.how = "refused"
  PROVE  Ledger(Append(a, y), q, sent + 1)
<1>1. Len(a) \in Nat /\ Len(q) \in Nat /\ sent + 1 \in Nat
  BY LenProperties
<1>2. /\ \A i \in 1..Len(a) : a[i].n \in 1..sent
      /\ \A j \in 1..Len(q) : q[j].n \in 1..sent
      /\ Len(a) + Len(q) = sent
  BY DEF Ledger
<1>3. 1..sent \subseteq 1..(sent + 1) /\ sent + 1 \in 1..(sent + 1) /\ sent + 1 \notin 1..sent
  OBVIOUS
<1>4. /\ \A i \in 1..Len(a) : a[i].n \in 1..(sent + 1) /\ a[i].n # y.n
      /\ \A j \in 1..Len(q) : q[j].n \in 1..(sent + 1) /\ y.n # q[j].n
  BY <1>2, <1>3
<1>5. Len(a) + 1 + Len(q) = sent + 1
  BY <1>1, <1>2
<1>6. Joins(y, a, q, sent + 1)
  BY <1>3, <1>4, <1>5 DEF Joins, Ledger
<1> QED BY <1>1, <1>6, LedgerJoins

LEMMA LedgerAnswer ==
  ASSUME NEW a \in Seq(Answers), NEW q \in Seq(Asked), NEW sent \in Nat, Ledger(a, q, sent), q # <<>>,
         NEW y \in Answers, y.n = Head(q).n
  PROVE  Ledger(Append(a, y), Tail(q), sent)
<1>1. Len(a) \in Nat /\ Len(q) \in Nat /\ Len(q) # 0
  BY LenProperties, EmptySeq
<1>2. PICK t : t = Tail(q)
  OBVIOUS
<1>3. t \in Seq(Asked) /\ Len(t) = Len(q) - 1 /\ Head(q) = q[1] /\ \A j \in 1..Len(t) : t[j] = q[j + 1]
  BY <1>2, HeadTailProperties
<1>4. 1 \in 1..Len(q) /\ \A j \in 1..Len(t) : j + 1 \in 1..Len(q) /\ 1 < j + 1
  BY <1>1, <1>3
<1>5. Len(a) + 1 + Len(t) = sent
  <2>1. Len(a) + Len(q) = sent
    BY DEF Ledger
  <2>2. PICK m \in Nat, k \in Nat, l \in Int : m = Len(a) /\ k = Len(q) /\ l = Len(t)
    BY <1>1, <1>3
  <2>3. l = k - 1 /\ m + k = sent
    BY <1>3, <2>1, <2>2
  <2>4. m + 1 + l = sent
    BY <2>3
  <2> QED BY <2>2, <2>4
<1>6. y.n = q[1].n /\ q[1].n \in 1..sent
  BY <1>3, <1>4 DEF Ledger
<1>7. \A j \in 1..Len(t) : t[j].n \in 1..sent
  BY <1>3, <1>4 DEF Ledger
<1>8. ASSUME NEW i \in 1..Len(t), NEW j \in 1..Len(t), i < j PROVE t[i].n < t[j].n
  <2>1. i + 1 < j + 1
    BY <1>8
  <2> QED BY <1>3, <1>4, <2>1 DEF Ledger
<1>9. ASSUME NEW i \in 1..Len(a), NEW j \in 1..Len(t)
      PROVE  a[i].n # t[j].n /\ (a[i].how # "refused" => a[i].n < t[j].n)
  BY <1>3, <1>4 DEF Ledger
<1>10. \A i \in 1..Len(a) : a[i].n # y.n /\ (a[i].how # "refused" => a[i].n < y.n)
  BY <1>4, <1>6 DEF Ledger
<1>11. ASSUME NEW j \in 1..Len(t) PROVE y.n # t[j].n /\ y.n < t[j].n
  <2>1. q[1].n < q[j + 1].n
    BY <1>4 DEF Ledger
  <2>2. q[1].n \in 1..sent /\ q[j + 1].n \in 1..sent
    BY <1>4 DEF Ledger
  <2>3. y.n < t[j].n /\ y.n \in Nat /\ t[j].n \in Nat
    BY <1>3, <1>6, <2>1, <2>2
  <2> QED BY <2>3
<1>12. /\ \A i \in 1..Len(a) : a[i].n \in 1..sent
       /\ \A i, j \in 1..Len(a) : i # j => a[i].n # a[j].n
       /\ \A i, j \in 1..Len(a) : i < j /\ a[i].how # "refused" /\ a[j].how # "refused" => a[i].n < a[j].n
  BY DEF Ledger
<1>13. Joins(y, a, t, sent)
  BY <1>5, <1>6, <1>7, <1>8, <1>9, <1>10, <1>11, <1>12 DEF Joins
<1> QED BY <1>2, <1>3, <1>13, LedgerJoins

-----------------------------------------------------------------------------
(* What was written.                                                          *)

(* A stanza o to contact c, whose channel was ch and is ch2.                  *)
Written(s, know, c, ch, ch2, o) ==
  /\ o \in Outs /\ o.friend = c
  /\ o.nick => ch.nick /\ ~ch2.nick
  /\ o.kind = "state" => know[c] = "states" \/ Stateful(s)

LEMMA ToldMore ==
  ASSUME NEW out \in Seq(Outs), NEW o \in Outs, NEW c
  PROVE  /\ IsFiniteSet(Told(out, c)) /\ Cardinality(Told(out, c)) \in Nat
         /\ o.friend = c /\ o.nick =>
              Cardinality(Told(Append(out, o), c)) = Cardinality(Told(out, c)) + 1
         /\ ~(o.friend = c /\ o.nick) => Told(Append(out, o), c) = Told(out, c)
<1>1. Len(out) \in Nat
  BY LenProperties
<1>2. PICK out2 : out2 = Append(out, o)
  OBVIOUS
<1>3. Len(out2) = Len(out) + 1 /\ out2[Len(out) + 1] = o /\ \A i \in 1..Len(out) : out2[i] = out[i]
  BY <1>2, AppendProperties
<1>4. 1..Len(out2) = 1..Len(out) \cup {Len(out) + 1} /\ Len(out) + 1 \notin 1..Len(out)
  BY <1>1, <1>3
<1>5. IsFiniteSet(Told(out, c))
  <2>1. IsFiniteSet(1..Len(out))
    BY <1>1, FS_Interval
  <2>2. Told(out, c) \in SUBSET (1..Len(out))
    BY DEF Told
  <2> QED BY <2>1, <2>2, FS_Subset
<1>6. o.friend = c /\ o.nick => Told(out2, c) = Told(out, c) \cup {Len(out) + 1}
  BY <1>3, <1>4 DEF Told
<1>7. ~(o.friend = c /\ o.nick) => Told(out2, c) = Told(out, c)
  BY <1>3, <1>4 DEF Told
<1>8. Cardinality(Told(out, c) \cup {Len(out) + 1}) = Cardinality(Told(out, c)) + 1
  <2>1. Len(out) + 1 \notin Told(out, c)
    BY <1>4 DEF Told
  <2> QED BY <1>5, <2>1, FS_AddElement
<1> QED BY <1>2, <1>5, <1>6, <1>7, <1>8, FS_CardinalityType

LEMMA LaterDiscreet ==
  ASSUME NEW s, NEW know, NEW later, NEW out \in Seq(Outs), Discreet(s, out, know),
         \A d \in Friends : know[d] = "states" => later[d] = "states"
  PROVE  Discreet(s, out, later)
<1>1. \A i \in 1..Len(out) : out[i] \in Outs
  BY ElementOfSeq
<1>2. \A o \in Outs : o.friend \in Friends
  BY DEF Outs
<1> QED BY <1>1, <1>2 DEF Discreet

LEMMA StillDiscreet ==
  ASSUME NEW s, NEW know, NEW out \in Seq(Outs), Discreet(s, out, know), NEW c, NEW ch, NEW ch2, NEW o,
         Written(s, know, c, ch, ch2, o)
  PROVE  Discreet(s, Append(out, o), know)
<1>1. Len(out) \in Nat /\ o \in Outs
  BY LenProperties DEF Written
<1>2. PICK out2 : out2 = Append(out, o)
  OBVIOUS
<1>3. Len(out2) = Len(out) + 1 /\ out2[Len(out) + 1] = o /\ \A i \in 1..Len(out) : out2[i] = out[i]
  BY <1>1, <1>2, AppendProperties
<1>4. \A i \in 1..Len(out2) : i \in 1..Len(out) \/ i = Len(out) + 1
  BY <1>1, <1>3
<1>5. Discreet(s, out2, know)
  BY <1>3, <1>4 DEF Discreet, Written
<1> QED BY <1>2, <1>5

-----------------------------------------------------------------------------
(* A step that concerns contact c: its channel becomes ch2, the messages dh   *)
(* are heard and dl let go, op channels were opened and cl closed, and the    *)
(* contact last spoke from sp.                                                *)
Effect(c, ch2, dl, dh, op, cl, sp) ==
  /\ c \in Friends /\ ch2 \in Chans
  /\ im' \in Ims /\ \A d \in Friends : im'.chan[d] = IF d = c THEN ch2 ELSE im.chan[d]
  /\ imScene' = imScene /\ mail' \in Mails /\ porterQ' \in Seq(Asked)
  /\ mail'.let = mail.let \cup dl /\ 1..mail'.heard = 1..mail.heard \cup dh
  /\ Items(ch2.pending) \cup dl = Items(im.chan[c].pending) \cup dh
  /\ \A d \in Friends :
       /\ mail'.opened[d] = IF d = c THEN op ELSE mail.opened[d]
       /\ mail'.closed[d] = IF d = c THEN cl ELSE mail.closed[d]
       /\ mail'.spoke[d] = IF d = c THEN sp ELSE mail.spoke[d]
  /\ Fine(imScene, c, ch2, op, cl, sp)
  /\ mail.opened[c] <= op /\ (ch2.nick /\ ~im.chan[c].nick => mail.opened[c] + 1 <= op)
  /\ DOMAIN seen' = Friends /\ \A d \in Friends : seen[d] = "states" => seen'[d] = "states"
  /\ \/ mail'.out = mail.out
     \/ \E o : Written(imScene, seen, c, im.chan[c], ch2, o) /\ mail'.out = Append(mail.out, o)
  /\ Ledger(mail'.answers, porterQ', mail'.sent)
  /\ \A d \in mail'.receipts : d \in imScene.visibleTo /\ ~imScene.hidden

LEMMA EffectKeeps ==
  ASSUME ImInv, NEW c, NEW ch2, NEW dl, NEW dh, NEW op, NEW cl, NEW sp, Effect(c, ch2, dl, dh, op, cl, sp)
  PROVE  ImInv'
<1>1. /\ c \in Friends /\ ch2 \in Chans /\ imScene' = imScene /\ mail' \in Mails /\ porterQ' \in Seq(Asked)
  BY DEF Effect
<1>2. im \in Ims /\ mail \in Mails /\ imScene \in ImScenes
  BY DEF ImInv, Types
<1>3. im' \in Ims /\ \A d \in Friends : im'.chan[d] = IF d = c THEN ch2 ELSE im.chan[d]
  BY DEF Effect
<1>4. \A d \in Friends :
       /\ mail'.opened[d] = IF d = c THEN op ELSE mail.opened[d]
       /\ mail'.closed[d] = IF d = c THEN cl ELSE mail.closed[d]
       /\ mail'.spoke[d] = IF d = c THEN sp ELSE mail.spoke[d]
  BY DEF Effect
<1>5. Types'
  BY <1>1, <1>2, <1>3 DEF Types, Effect
<1>6. Channels'
  <2> SUFFICES ASSUME NEW d \in Friends
               PROVE  Fine(imScene, d, im'.chan[d], mail'.opened[d], mail'.closed[d], mail'.spoke[d])
    BY <1>1 DEF Channels
  <2>1. CASE d = c
    <3>1. im'.chan[d] = ch2 /\ mail'.opened[d] = op /\ mail'.closed[d] = cl /\ mail'.spoke[d] = sp
      BY <1>3, <1>4, <2>1
    <3> QED BY <2>1, <3>1 DEF Effect
  <2>2. CASE d # c
    <3>1. /\ im'.chan[d] = im.chan[d] /\ mail'.opened[d] = mail.opened[d] /\ mail'.closed[d] = mail.closed[d]
          /\ mail'.spoke[d] = mail.spoke[d]
      BY <1>3, <1>4, <2>2
    <3> QED BY <3>1 DEF ImInv, Channels
  <2> QED BY <2>1, <2>2
<1>7. Kept'
  <2>1. 1..mail.heard = mail.let \cup Unread(im.chan)
    BY DEF ImInv, Kept
  <2>2. /\ mail'.let = mail.let \cup dl /\ 1..mail'.heard = 1..mail.heard \cup dh
        /\ Items(ch2.pending) \cup dl = Items(im.chan[c].pending) \cup dh
    BY DEF Effect
  <2>3. PICK new, old : new = Items(ch2.pending) /\ old = Items(im.chan[c].pending)
    OBVIOUS
  <2> DEFINE rest == UNION {Items(im.chan[d].pending) : d \in Friends \ {c}}
  <2>4. Unread(im.chan) = rest \cup old
    BY <1>1, <2>3 DEF Unread
  <2>5. Unread(im'.chan) = rest \cup new
    BY <1>1, <1>3, <2>3 DEF Unread
  <2> HIDE DEF rest
  <2>6. 1..mail'.heard = mail'.let \cup Unread(im'.chan)
    BY <2>1, <2>2, <2>3, <2>4, <2>5
  <2> QED BY <2>6 DEF Kept, Unread
<1>8. mail.out \in Seq(Outs) /\ mail.opened[c] \in Nat /\ op \in Nat
  BY <1>1, <1>2, <1>4 DEF Mails
<1>9. ASSUME mail'.out = mail.out PROVE Nicks' /\ Discreet(imScene, mail'.out, seen')
  <2>1. Nicks'
    <3> SUFFICES ASSUME NEW d \in Friends PROVE Counted(imScene, mail.out, d, im'.chan[d], mail'.opened[d])
      BY <1>1, <1>9 DEF Nicks
    <3>1. Counted(imScene, mail.out, d, im.chan[d], mail.opened[d])
      BY DEF ImInv, Nicks
    <3>2. CASE d = c
      <4>1. im'.chan[d] = ch2 /\ mail'.opened[d] = op
        BY <1>3, <1>4, <3>2
      <4>2. mail.opened[c] <= op /\ (ch2.nick /\ ~im.chan[c].nick => mail.opened[c] + 1 <= op)
        BY DEF Effect
      <4>3. Cardinality(Told(mail.out, c)) \in Nat
        <5>1. IsFiniteSet(Told(mail.out, c))
          <6>1. Len(mail.out) \in Nat
            BY <1>8, LenProperties
          <6>2. IsFiniteSet(1..Len(mail.out))
            BY <6>1, FS_Interval
          <6>3. Told(mail.out, c) \in SUBSET (1..Len(mail.out))
            BY DEF Told
          <6> QED BY <6>2, <6>3, FS_Subset
        <5> QED BY <5>1, FS_CardinalityType
      <4>4. Cardinality(Told(mail.out, c)) + (IF ch2.nick THEN 1 ELSE 0) <= op
        BY <1>8, <3>1, <3>2, <4>2, <4>3 DEF Counted
      <4> QED BY <3>1, <3>2, <4>1, <4>4 DEF Counted
    <3>3. CASE d # c
      BY <1>3, <1>4, <3>1, <3>3
    <3> QED BY <3>2, <3>3
  <2>2. Discreet(imScene, mail'.out, seen')
    <3>1. Discreet(imScene, mail.out, seen) /\ \A d \in Friends : seen[d] = "states" => seen'[d] = "states"
      BY DEF ImInv, Effect
    <3>2. PICK later : later = seen'
      OBVIOUS
    <3>3. Discreet(imScene, mail.out, later)
      BY <1>8, <3>1, <3>2, LaterDiscreet
    <3> QED BY <1>9, <3>2, <3>3
  <2> QED BY <2>1, <2>2
<1>10. ASSUME mail'.out # mail.out PROVE Nicks' /\ Discreet(imScene, mail'.out, seen')
  <2>1. PICK o : Written(imScene, seen, c, im.chan[c], ch2, o) /\ mail'.out = Append(mail.out, o)
    BY <1>10 DEF Effect
  <2>2. o \in Outs /\ o.friend = c /\ (o.nick => im.chan[c].nick /\ ~ch2.nick)
    BY <2>1 DEF Written
  <2>3. PICK out, out2 : out = mail.out /\ out2 = Append(mail.out, o)
    OBVIOUS
  <2>4. Nicks'
    <3> SUFFICES ASSUME NEW d \in Friends PROVE Counted(imScene, out2, d, im'.chan[d], mail'.opened[d])
      BY <1>1, <2>1, <2>3 DEF Nicks
    <3>1. Counted(imScene, out, d, im.chan[d], mail.opened[d])
      BY <2>3 DEF ImInv, Nicks
    <3>2. /\ IsFiniteSet(Told(out, d)) /\ Cardinality(Told(out, d)) \in Nat
          /\ o.friend = d /\ o.nick => Cardinality(Told(out2, d)) = Cardinality(Told(out, d)) + 1
          /\ ~(o.friend = d /\ o.nick) => Told(out2, d) = Told(out, d)
      BY <1>8, <2>2, <2>3, ToldMore
    <3>3. CASE d = c
      <4>1. im'.chan[d] = ch2 /\ mail'.opened[d] = op
        BY <1>3, <1>4, <3>3
      <4>2. mail.opened[c] <= op /\ (ch2.nick /\ ~im.chan[c].nick => mail.opened[c] + 1 <= op)
        BY DEF Effect
      <4>3. CASE o.nick
        <5>1. im.chan[c].nick /\ ~ch2.nick /\ c \notin imScene.visibleTo
          <6>1. Fine(imScene, c, im.chan[c], mail.opened[c], mail.closed[c], mail.spoke[c])
            BY <1>1 DEF ImInv, Channels
          <6> QED BY <2>2, <4>3, <6>1 DEF Fine
        <5>2. Cardinality(Told(out, c)) + 1 <= mail.opened[c]
          BY <3>1, <3>3, <5>1 DEF Counted
        <5>3. Cardinality(Told(out2, c)) = Cardinality(Told(out, c)) + 1
          BY <2>2, <3>2, <3>3, <4>3
        <5>4. Cardinality(Told(out2, c)) + (IF ch2.nick THEN 1 ELSE 0) <= op
          BY <1>8, <3>2, <3>3, <4>2, <5>1, <5>2, <5>3
        <5> QED BY <3>3, <4>1, <5>1, <5>4 DEF Counted
      <4>4. CASE ~o.nick
        <5>1. Told(out2, c) = Told(out, c)
          BY <3>2, <3>3, <4>4
        <5>2. Cardinality(Told(out, c)) + (IF ch2.nick THEN 1 ELSE 0) <= op
          BY <1>8, <3>1, <3>2, <3>3, <4>2 DEF Counted
        <5> QED BY <3>1, <3>3, <4>1, <5>1, <5>2 DEF Counted
      <4> QED BY <4>3, <4>4
    <3>4. CASE d # c
      <4>1. Told(out2, d) = Told(out, d) /\ im'.chan[d] = im.chan[d] /\ mail'.opened[d] = mail.opened[d]
        BY <1>3, <1>4, <2>2, <3>2, <3>4
      <4> QED BY <3>1, <4>1 DEF Counted
    <3> QED BY <3>3, <3>4
  <2>5. Discreet(imScene, out2, seen')
    <3>1. Discreet(imScene, Append(mail.out, o), seen)
      BY <1>8, <2>1, StillDiscreet DEF ImInv
    <3>2. Append(mail.out, o) \in Seq(Outs)
      BY <1>8, <2>2, AppendProperties
    <3>3. \A d \in Friends : seen[d] = "states" => seen'[d] = "states"
      BY DEF Effect
    <3>4. PICK later : later = seen'
      OBVIOUS
    <3>5. Discreet(imScene, Append(mail.out, o), later)
      BY <3>1, <3>2, <3>3, <3>4, LaterDiscreet
    <3> QED BY <2>3, <3>4, <3>5
  <2> QED BY <2>1, <2>3, <2>4, <2>5
<1>11. Reports' /\ Ledger(mail'.answers, porterQ', mail'.sent)
  BY <1>1 DEF Effect, Reports
<1>12. Nicks' /\ Discreet(imScene, mail'.out, seen')
  BY <1>9, <1>10
<1> QED BY <1>1, <1>5, <1>6, <1>7, <1>11, <1>12 DEF ImInv

-----------------------------------------------------------------------------
(* Steps.                                                                     *)

LEMMA StutterKeeps ==
  ASSUME ImInv, UNCHANGED imVars
  PROVE  ImInv'
<1>1. imScene' = imScene /\ im' = im /\ seen' = seen /\ porterQ' = porterQ /\ mail' = mail
  BY DEF imVars
<1>2. Types'
  BY <1>1 DEF ImInv, Types
<1>3. Channels' /\ Kept' /\ Nicks' /\ Reports'
  BY <1>1 DEF ImInv, Channels, Kept, Nicks, Reports, Unread
<1> QED BY <1>1, <1>2, <1>3 DEF ImInv

(* What is known of the channel of c.                                         *)
LEMMA Parts ==
  ASSUME ImInv, NEW c \in Friends
  PROVE  /\ im \in Ims /\ mail \in Mails /\ im.chan[c] \in Chans
         /\ Fine(imScene, c, im.chan[c], mail.opened[c], mail.closed[c], mail.spoke[c])
         /\ mail.opened[c] \in Nat /\ mail.closed[c] \in Nat /\ mail.spoke[c] \in Addresses
         /\ mail.heard \in Nat /\ mail.sent \in Nat /\ mail.let \in SUBSET Nat
         /\ DOMAIN seen = Friends /\ porterQ \in Seq(Asked) /\ mail.answers \in Seq(Answers) /\ mail.out \in Seq(Outs)
         /\ Ledger(mail.answers, porterQ, mail.sent) /\ Reports
BY DEF ImInv, Types, Channels, Ims, Mails

(* A step in which nothing is sent, answered or closed.                       *)
Listens(c, ch2, dl, dh, op, sp) ==
  /\ im' = [im EXCEPT !.chan[c] = ch2]
  /\ mail' \in Mails /\ mail'.let = mail.let \cup dl /\ 1..mail'.heard = 1..mail.heard \cup dh
  /\ Items(ch2.pending) \cup dl = Items(im.chan[c].pending) \cup dh
  /\ \A d \in Friends :
       /\ mail'.opened[d] = IF d = c THEN op ELSE mail.opened[d]
       /\ mail'.closed[d] = mail.closed[d]
       /\ mail'.spoke[d] = IF d = c THEN sp ELSE mail.spoke[d]
  /\ mail'.sent = mail.sent /\ mail'.out = mail.out /\ mail'.answers = mail.answers
  /\ \A d \in mail'.receipts : d \in imScene.visibleTo /\ ~imScene.hidden
  /\ Fine(imScene, c, ch2, op, mail.closed[c], sp)
  /\ mail.opened[c] <= op /\ (ch2.nick /\ ~im.chan[c].nick => mail.opened[c] + 1 <= op)
  /\ UNCHANGED <<imScene, seen, porterQ>>

LEMMA ListensKeeps ==
  ASSUME ImInv, NEW c \in Friends, NEW ch2 \in Chans, NEW dl, NEW dh, NEW op, NEW sp, Listens(c, ch2, dl, dh, op, sp)
  PROVE  ImInv'
<1>1. im \in Ims /\ DOMAIN seen = Friends /\ porterQ \in Seq(Asked) /\ Ledger(mail.answers, porterQ, mail.sent)
  BY Parts
<1>2. im' \in Ims /\ \A d \in Friends : im'.chan[d] = IF d = c THEN ch2 ELSE im.chan[d]
  BY <1>1 DEF Ims, Listens
<1>3. \A d \in Friends :
        /\ mail'.opened[d] = IF d = c THEN op ELSE mail.opened[d]
        /\ mail'.closed[d] = IF d = c THEN mail.closed[c] ELSE mail.closed[d]
        /\ mail'.spoke[d] = IF d = c THEN sp ELSE mail.spoke[d]
  BY DEF Listens
<1>4. Ledger(mail'.answers, porterQ', mail'.sent)
  BY <1>1 DEF Listens
<1>5. DOMAIN seen' = Friends /\ \A d \in Friends : seen[d] = "states" => seen'[d] = "states"
  BY <1>1 DEF Listens
<1>6. Effect(c, ch2, dl, dh, op, mail.closed[c], sp)
  BY <1>1, <1>2, <1>3, <1>4, <1>5 DEF Effect, Listens
<1> QED BY <1>6, EffectKeeps

(* The history after one of its fields changed.                              *)
LEMMA HearsOne ==
  ASSUME NEW m \in Mails, NEW n \in Nat, NEW h, h = [m EXCEPT !.heard = n]
  PROVE
  /\ h \in Mails /\ h.heard = n /\ h.let = m.let /\ h.sent = m.sent /\ h.out = m.out /\ h.answers = m.answers
  /\ h.opened = m.opened /\ h.closed = m.closed /\ h.spoke = m.spoke /\ h.receipts = m.receipts
BY DEF Mails

LEMMA OpensOne ==
  ASSUME NEW m \in Mails, NEW c \in Friends, NEW h, h = Opened(m, c)
  PROVE
  /\ h \in Mails /\ h.heard = m.heard /\ h.let = m.let /\ h.sent = m.sent /\ h.out = m.out /\ h.answers = m.answers
  /\ h.closed = m.closed /\ h.spoke = m.spoke /\ h.receipts = m.receipts
  /\ \A d \in Friends : h.opened[d] = IF d = c THEN m.opened[c] + 1 ELSE m.opened[d]
<1>0. m.opened \in [Friends -> Nat]
  BY DEF Mails
<1>1. PICK f : f = [m.opened EXCEPT ![c] = @ + 1]
  OBVIOUS
<1>2. f \in [Friends -> Nat] /\ \A d \in Friends : f[d] = IF d = c THEN m.opened[c] + 1 ELSE m.opened[d]
  BY <1>0, <1>1
<1>3. h = [m EXCEPT !.opened = f]
  BY <1>1 DEF Opened
<1> QED BY <1>2, <1>3 DEF Mails

LEMMA SpeaksFrom ==
  ASSUME NEW m \in Mails, NEW c \in Friends, NEW a \in Addresses, NEW h, h = Spoken(m, c, a)
  PROVE
  /\ h \in Mails /\ h.heard = m.heard /\ h.let = m.let /\ h.sent = m.sent /\ h.out = m.out /\ h.answers = m.answers
  /\ h.closed = m.closed /\ h.opened = m.opened /\ h.receipts = m.receipts
  /\ \A d \in Friends : h.spoke[d] = IF d = c THEN a ELSE m.spoke[d]
<1>0. m.spoke \in [Friends -> Addresses]
  BY DEF Mails
<1>1. PICK f : f = [m.spoke EXCEPT ![c] = a]
  OBVIOUS
<1>2. f \in [Friends -> Addresses] /\ \A d \in Friends : f[d] = IF d = c THEN a ELSE m.spoke[d]
  BY <1>0, <1>1
<1>3. h = [m EXCEPT !.spoke = f]
  BY <1>1 DEF Spoken
<1> QED BY <1>2, <1>3 DEF Mails

LEMMA LetsGo ==
  ASSUME NEW m \in Mails, NEW l \in SUBSET Nat, NEW h, h = [m EXCEPT !.let = l]
  PROVE
  /\ h \in Mails /\ h.heard = m.heard /\ h.let = l /\ h.sent = m.sent /\ h.out = m.out /\ h.answers = m.answers
  /\ h.opened = m.opened /\ h.closed = m.closed /\ h.spoke = m.spoke /\ h.receipts = m.receipts
BY DEF Mails

LEMMA Writes ==
  ASSUME NEW m \in Mails, NEW out \in Seq(Outs), NEW h, h = [m EXCEPT !.out = out]
  PROVE
  /\ h \in Mails /\ h.heard = m.heard /\ h.let = m.let /\ h.sent = m.sent /\ h.out = out /\ h.answers = m.answers
  /\ h.opened = m.opened /\ h.closed = m.closed /\ h.spoke = m.spoke /\ h.receipts = m.receipts
BY DEF Mails

LEMMA OneMore == ASSUME NEW n \in Nat PROVE 1..(n + 1) = 1..n \cup {n + 1}
OBVIOUS

LEMMA MessageHeardKeeps ==
  ASSUME ImInv, NEW c \in Friends, NEW from \in Resources(c), NEW state \in BOOLEAN, state => Stateful(imScene),
         MessageHeard(c, from, state), UNCHANGED <<imScene, seen, porterQ>>
  PROVE  ImInv'
<1>1. /\ im.chan[c] \in Chans /\ Fine(imScene, c, im.chan[c], mail.opened[c], mail.closed[c], mail.spoke[c])
      /\ mail.opened[c] \in Nat /\ mail.closed[c] \in Nat /\ mail.heard \in Nat /\ mail \in Mails /\ Reports
  BY Parts
<1>2. from \in Addresses
  BY NewChannels
<1> DEFINE n == mail.heard + 1
           op == IF im.chan[c].open THEN mail.opened[c] ELSE mail.opened[c] + 1
<1>n. n \in Nat
  BY <1>1
<1>3. PICK ch : ch = ChannelFor(c)
  OBVIOUS
<1>4. ch \in Chans /\ ch.open /\ ch.pending = im.chan[c].pending /\ (ch.nick => c \notin imScene.visibleTo)
  <2>1. CASE im.chan[c].open
    BY <1>1, <1>3, <2>1 DEF ChannelFor, Fine
  <2>2. CASE ~im.chan[c].open
    <3>1. im.chan[c] = NoChan /\ ch = NewIm(c)
      BY <1>1, <1>3, <2>2 DEF ChannelFor, Fine
    <3> QED BY <3>1, NewChannels DEF NoChan
  <2> QED BY <2>1, <2>2
<1>5. PICK ch2 : ch2 = Received(ch, from, state, n)
  OBVIOUS
<1>6. n \in Nat /\ Append(ch.pending, n) \in Seq(Nat) /\ Items(Append(ch.pending, n)) = Items(ch.pending) \cup {n}
  <2>1. ch.pending \in Seq(Nat) /\ n \in Nat
    BY <1>1, <1>4 DEF Chans
  <2> QED BY <2>1, ItemsOfAppend
<1>7. /\ ch2 \in Chans /\ ch2.open /\ ch2.peer = from /\ ch2.pending = Append(ch.pending, n) /\ ch2.nick = ch.nick
      /\ ch2.states = "SUPPORTED" => state
  BY <1>2, <1>4, <1>5, <1>6 DEF Received, StateReceived, Chans
<1>8. /\ im' = [im EXCEPT !.chan[c] = ch2]
      /\ mail' = [Spoken(OpenedFor(Hears, c), c, from) EXCEPT !.receipts =
                    IF DeliveryReported(c, imScene.wantsReceipts) THEN @ \cup {c} ELSE @]
  BY <1>3, <1>5 DEF MessageHeard
<1>9. PICK mm : mm = OpenedFor(Hears, c)
  OBVIOUS
<1>10. /\ mm \in Mails /\ mm.heard = n /\ mm.let = mail.let /\ mm.sent = mail.sent /\ mm.out = mail.out
       /\ mm.answers = mail.answers /\ mm.closed = mail.closed /\ mm.spoke = mail.spoke /\ mm.receipts = mail.receipts
       /\ \A d \in Friends : mm.opened[d] = IF d = c THEN op ELSE mail.opened[d]
  <2>1. PICK h : h = Hears
    OBVIOUS
  <2>2. /\ h \in Mails /\ h.heard = n /\ h.let = mail.let /\ h.sent = mail.sent /\ h.out = mail.out
        /\ h.answers = mail.answers /\ h.closed = mail.closed /\ h.spoke = mail.spoke /\ h.receipts = mail.receipts
        /\ h.opened = mail.opened
    BY <1>1, <2>1, <1>n, HearsOne DEF Hears, n
  <2>3. mm = IF im.chan[c].open THEN h ELSE Opened(h, c)
    BY <1>9, <2>1 DEF OpenedFor
  <2> HIDE DEF n
  <2>4. CASE im.chan[c].open
    BY <2>2, <2>3, <2>4
  <2>5. CASE ~im.chan[c].open
    <3>1. mm = Opened(h, c)
      BY <2>3, <2>5
    <3>2. /\ mm \in Mails /\ mm.heard = h.heard /\ mm.let = h.let /\ mm.sent = h.sent /\ mm.out = h.out
          /\ mm.answers = h.answers /\ mm.closed = h.closed /\ mm.spoke = h.spoke /\ mm.receipts = h.receipts
          /\ \A d \in Friends : mm.opened[d] = IF d = c THEN h.opened[c] + 1 ELSE h.opened[d]
      <4>1. h \in Mails
        BY <2>2
      <4> QED BY <3>1, <4>1, OpensOne
    <3> QED BY <2>2, <2>5, <3>2
  <2> QED BY <2>4, <2>5
<1> HIDE DEF n, op
<1>11. /\ mail' \in Mails /\ mail'.heard = n /\ mail'.let = mail.let /\ mail'.sent = mail.sent /\ mail'.out = mail.out
       /\ mail'.answers = mail.answers /\ mail'.closed = mail.closed /\ mail'.opened = mm.opened
       /\ \A d \in Friends : mail'.spoke[d] = IF d = c THEN from ELSE mail.spoke[d]
       /\ mail'.receipts = IF DeliveryReported(c, imScene.wantsReceipts) THEN mail.receipts \cup {c} ELSE mail.receipts
  BY <1>2, <1>8, <1>9, <1>10 DEF Spoken, Mails
<1>12. \A d \in mail'.receipts : d \in imScene.visibleTo /\ ~imScene.hidden
  BY <1>1, <1>11 DEF Reports, DeliveryReported
<1>13. op = mail.closed[c] + 1 /\ mail.opened[c] <= op /\ (~im.chan[c].open => mail.opened[c] + 1 <= op)
  BY <1>1 DEF Fine, op
<1>14. Fine(imScene, c, ch2, op, mail.closed[c], from)
  BY <1>4, <1>7, <1>13 DEF Fine
<1>15. ch2.nick /\ ~im.chan[c].nick => mail.opened[c] + 1 <= op
  BY <1>3, <1>7, <1>13 DEF ChannelFor
<1>16. 1..mail'.heard = 1..mail.heard \cup {n} /\ Items(ch2.pending) \cup {} = Items(im.chan[c].pending) \cup {n}
       /\ mail'.let = mail.let \cup {}
  BY <1>1, <1>4, <1>6, <1>7, <1>11, OneMore DEF n
<1>17. \A d \in Friends :
         /\ mail'.opened[d] = IF d = c THEN op ELSE mail.opened[d]
         /\ mail'.closed[d] = mail.closed[d]
         /\ mail'.spoke[d] = IF d = c THEN from ELSE mail.spoke[d]
  BY <1>10, <1>11
<1>18. Listens(c, ch2, {}, {n}, op, from)
  BY <1>8, <1>11, <1>12, <1>13, <1>14, <1>15, <1>16, <1>17 DEF Listens
<1> QED BY <1>7, <1>18, ListensKeeps

LEMMA SameIm ==
  ASSUME NEW m \in Ims, NEW c \in Friends
  PROVE  m = [m EXCEPT !.chan[c] = m.chan[c]]
<1>1. m.chan \in [Friends -> Chans]
  BY DEF Ims
<1>2. m.chan = [m.chan EXCEPT ![c] = m.chan[c]]
  BY <1>1
<1> QED BY <1>2 DEF Ims

(* A stanza that no channel shows.                                            *)
LEMMA IgnoredKeeps ==
  ASSUME ImInv, NEW c \in Friends, NEW ch2 \in Chans, im' = [im EXCEPT !.chan[c] = ch2],
         ch2.pending = im.chan[c].pending, ch2.nick = im.chan[c].nick,
         Fine(imScene, c, ch2, mail.opened[c], mail.closed[c], mail.spoke[c]),
         mail' = [Hears EXCEPT !.let = @ \cup {mail.heard + 1}], UNCHANGED <<imScene, seen, porterQ>>
  PROVE  ImInv'
<1>1. mail \in Mails /\ mail.heard \in Nat /\ mail.let \in SUBSET Nat /\ Reports /\ mail.opened[c] \in Nat
  BY Parts
<1>2. PICK n \in Nat : n = mail.heard + 1
  BY <1>1
<1>3. PICK h : h = [mail EXCEPT !.heard = n]
  OBVIOUS
<1>4. /\ h \in Mails /\ h.heard = n /\ h.let = mail.let /\ h.sent = mail.sent /\ h.out = mail.out
      /\ h.answers = mail.answers /\ h.opened = mail.opened /\ h.closed = mail.closed /\ h.spoke = mail.spoke
      /\ h.receipts = mail.receipts
  BY <1>1, <1>3, HearsOne
<1>5. PICK l \in SUBSET Nat : l = mail.let \cup {n}
  BY <1>1
<1>6. PICK g : g = [h EXCEPT !.let = l]
  OBVIOUS
<1>7. mail' = g
  BY <1>2, <1>3, <1>4, <1>5, <1>6 DEF Hears
<1>8. h \in Mails
  BY <1>4
<1>9. /\ g \in Mails /\ g.heard = h.heard /\ g.let = l /\ g.sent = h.sent /\ g.out = h.out /\ g.answers = h.answers
      /\ g.opened = h.opened /\ g.closed = h.closed /\ g.spoke = h.spoke /\ g.receipts = h.receipts
  BY <1>6, <1>8 DEF Mails
<1>10. 1..mail'.heard = 1..mail.heard \cup {n}
  <2>1. mail'.heard = mail.heard + 1
    BY <1>2, <1>4, <1>7, <1>9
  <2> QED BY <1>1, <1>2, <2>1, OneMore
<1>a. \A d \in Friends :
        /\ mail'.opened[d] = IF d = c THEN mail.opened[c] ELSE mail.opened[d]
        /\ mail'.closed[d] = mail.closed[d]
        /\ mail'.spoke[d] = IF d = c THEN mail.spoke[c] ELSE mail.spoke[d]
  BY <1>4, <1>7, <1>9
<1>b. Items(ch2.pending) \cup {n} = Items(im.chan[c].pending) \cup {n}
  OBVIOUS
<1>c. /\ mail' \in Mails /\ mail'.let = mail.let \cup {n}
      /\ mail'.sent = mail.sent /\ mail'.out = mail.out /\ mail'.answers = mail.answers
      /\ mail'.receipts = mail.receipts
  BY <1>4, <1>5, <1>7, <1>9
<1>11. Listens(c, ch2, {n}, {n}, mail.opened[c], mail.spoke[c])
  BY <1>1, <1>10, <1>a, <1>b, <1>c DEF Listens, Reports
<1> QED BY <1>11, ListensKeeps

LEMMA NothingHeardKeeps ==
  ASSUME ImInv, NEW c \in Friends, im' = [im EXCEPT !.chan[c] = im.chan[c]],
         mail' = [Hears EXCEPT !.let = @ \cup {mail.heard + 1}], UNCHANGED <<imScene, seen, porterQ>>
  PROVE  ImInv'
<1>1. im.chan[c] \in Chans /\ Fine(imScene, c, im.chan[c], mail.opened[c], mail.closed[c], mail.spoke[c])
  BY Parts
<1> QED BY <1>1, IgnoredKeeps

LEMMA StateHeardKeeps ==
  ASSUME ImInv, NEW c \in Friends, "state" \in imScene.stanzas, StateHeard(c), UNCHANGED <<imScene, seen, porterQ>>
  PROVE  ImInv'
<1>1. im.chan[c] \in Chans /\ Fine(imScene, c, im.chan[c], mail.opened[c], mail.closed[c], mail.spoke[c])
  BY Parts
<1>2. mail' = [Hears EXCEPT !.let = @ \cup {mail.heard + 1}]
      /\ im' = [im EXCEPT !.chan[c] = IF im.chan[c].open THEN StateReceived(im.chan[c]) ELSE im.chan[c]]
  BY DEF StateHeard
<1>3. CASE im.chan[c].open
  <2>1. PICK ch, ch2 : ch = im.chan[c] /\ ch2 = StateReceived(im.chan[c])
    OBVIOUS
  <2>2. /\ ch2 \in Chans /\ ch2.pending = ch.pending /\ ch2.nick = ch.nick /\ ch2.open = ch.open
        /\ ch2.peer = ch.peer
    BY <1>1, <2>1 DEF StateReceived, Chans
  <2>3. Stateful(imScene)
    BY DEF Stateful
  <2>4. Fine(imScene, c, ch2, mail.opened[c], mail.closed[c], mail.spoke[c])
    BY <1>1, <1>3, <2>1, <2>2, <2>3 DEF Fine
  <2> QED BY <1>2, <1>3, <2>1, <2>2, <2>4, IgnoredKeeps
<1>4. CASE ~im.chan[c].open
  BY <1>2, <1>4, NothingHeardKeeps
<1> QED BY <1>3, <1>4

(* A report about a message of ours is shown in the open channel.             *)
LEMMA ReportKeeps ==
  ASSUME ImInv, NEW c \in Friends, im.chan[c].open, NEW failed \in BOOLEAN,
         im' = [im EXCEPT !.chan[c] = DeliveryReport(c, im.chan[c], failed, mail.heard + 1)],
         mail' = IF failed THEN Spoken(Hears, c, Bare(c)) ELSE Hears,
         failed \/ ~(imScene.stanzas \subseteq {"body", "stated"}),
         UNCHANGED <<imScene, seen, porterQ>>
  PROVE  ImInv'
<1>1. mail \in Mails /\ mail.heard \in Nat /\ Reports /\ mail.opened[c] \in Nat /\ im.chan[c] \in Chans
      /\ Fine(imScene, c, im.chan[c], mail.opened[c], mail.closed[c], mail.spoke[c])
  BY Parts
<1>2. PICK n \in Nat : n = mail.heard + 1
  BY <1>1
<1>3. PICK h : h = [mail EXCEPT !.heard = n]
  OBVIOUS
<1>4. /\ h \in Mails /\ h.heard = n /\ h.let = mail.let /\ h.sent = mail.sent /\ h.out = mail.out
      /\ h.answers = mail.answers /\ h.opened = mail.opened /\ h.closed = mail.closed /\ h.spoke = mail.spoke
      /\ h.receipts = mail.receipts
  BY <1>1, <1>3, HearsOne
<1>5. Bare(c) \in Addresses
  BY NewChannels
<1>6. PICK sp : sp = IF failed THEN Bare(c) ELSE mail.spoke[c]
  OBVIOUS
<1>7. /\ mail' \in Mails /\ mail'.heard = n /\ mail'.let = mail.let /\ mail'.sent = mail.sent /\ mail'.out = mail.out
      /\ mail'.answers = mail.answers /\ mail'.opened = mail.opened /\ mail'.closed = mail.closed
      /\ mail'.receipts = mail.receipts
      /\ \A d \in Friends : mail'.spoke[d] = IF d = c THEN sp ELSE mail.spoke[d]
  <2>1. CASE failed
    <3>1. PICK g : g = Spoken(h, c, Bare(c))
      OBVIOUS
    <3>2. mail' = g
      BY <1>2, <1>3, <2>1, <3>1 DEF Hears
    <3>3. h \in Mails
      BY <1>4
    <3>4. /\ g \in Mails /\ g.heard = h.heard /\ g.let = h.let /\ g.sent = h.sent /\ g.out = h.out
          /\ g.answers = h.answers /\ g.closed = h.closed /\ g.opened = h.opened /\ g.receipts = h.receipts
          /\ \A d \in Friends : g.spoke[d] = IF d = c THEN Bare(c) ELSE h.spoke[d]
      BY <1>5, <3>1, <3>3, SpeaksFrom
    <3> QED BY <1>4, <1>6, <2>1, <3>2, <3>4
  <2>2. CASE ~failed
    <3>1. mail' = h
      BY <1>2, <1>3, <2>2 DEF Hears
    <3> QED BY <1>4, <1>6, <2>2, <3>1
  <2> QED BY <2>1, <2>2
<1>8. PICK ch, ch2 : ch = im.chan[c] /\ ch2 = DeliveryReport(c, im.chan[c], failed, n)
  OBVIOUS
<1>9. Append(ch.pending, n) \in Seq(Nat) /\ Items(Append(ch.pending, n)) = Items(ch.pending) \cup {n}
  <2>1. ch.pending \in Seq(Nat)
    BY <1>1, <1>8 DEF Chans
  <2> QED BY <2>1, ItemsOfAppend
<1>10. /\ ch2 \in Chans /\ ch2.open = ch.open /\ ch2.nick = ch.nick /\ ch2.pending = Append(ch.pending, n)
       /\ ch2.peer = IF failed THEN Bare(c) ELSE ch.peer
       /\ ch2.states = IF failed THEN "UNKNOWN" ELSE ch.states
  BY <1>1, <1>5, <1>8, <1>9 DEF DeliveryReport, Chans
<1>11. Fine(imScene, c, ch2, mail.opened[c], mail.closed[c], sp)
  BY <1>1, <1>6, <1>8, <1>10 DEF Fine
<1>12. 1..mail'.heard = 1..mail.heard \cup {n} /\ im' = [im EXCEPT !.chan[c] = ch2]
       /\ Items(ch2.pending) \cup {} = Items(im.chan[c].pending) \cup {n}
  <2>1. 1..(mail.heard + 1) = 1..mail.heard \cup {mail.heard + 1}
    BY <1>1, OneMore
  <2>2. mail'.heard = mail.heard + 1
    BY <1>2, <1>7
  <2>3. im' = [im EXCEPT !.chan[c] = ch2]
    BY <1>2, <1>8
  <2> QED BY <1>2, <1>8, <1>9, <1>10, <2>1, <2>2, <2>3
<1>13. Listens(c, ch2, {}, {n}, mail.opened[c], sp)
  BY <1>1, <1>7, <1>8, <1>10, <1>11, <1>12 DEF Listens, Reports
<1> QED BY <1>10, <1>13, ListensKeeps

LEMMA ErrorHeardKeeps ==
  ASSUME ImInv, NEW c \in Friends, NEW from, ErrorHeard(c, from), UNCHANGED <<imScene, seen, porterQ>>
  PROVE  ImInv'
<1>1. CASE im.chan[c].open
  <2>1. /\ im' = [im EXCEPT !.chan[c] = DeliveryReport(c, im.chan[c], TRUE, mail.heard + 1)]
        /\ mail' = IF TRUE THEN Spoken(Hears, c, Bare(c)) ELSE Hears
    BY <1>1 DEF ErrorHeard
  <2> QED BY <1>1, <2>1, ReportKeeps
<1>2. CASE ~im.chan[c].open
  <2>1. /\ im' = [im EXCEPT !.chan[c] = im.chan[c]]
        /\ mail' = [Hears EXCEPT !.let = @ \cup {mail.heard + 1}]
    BY <1>2 DEF ErrorHeard
  <2> QED BY <2>1, NothingHeardKeeps
<1> QED BY <1>1, <1>2

LEMMA ReceiptHeardKeeps ==
  ASSUME ImInv, NEW c \in Friends, imScene.stanzas \cap {"receipt", "own"} # {}, ReceiptHeard(c) \/ OwnMessageHeard(c),
         UNCHANGED <<imScene, seen, porterQ>>
  PROVE  ImInv'
<1>0. ~(imScene.stanzas \subseteq {"body", "stated"})
  OBVIOUS
<1>1. CASE im.chan[c].open
  <2>1. /\ im' = [im EXCEPT !.chan[c] = DeliveryReport(c, im.chan[c], FALSE, mail.heard + 1)]
        /\ mail' = IF FALSE THEN Spoken(Hears, c, Bare(c)) ELSE Hears
    BY <1>1 DEF ReceiptHeard, OwnMessageHeard
  <2> QED BY <1>0, <1>1, <2>1, ReportKeeps
<1>2. CASE ~im.chan[c].open
  <2>1. /\ im' = [im EXCEPT !.chan[c] = im.chan[c]]
        /\ mail' = [Hears EXCEPT !.let = @ \cup {mail.heard + 1}]
    BY <1>2 DEF ReceiptHeard, OwnMessageHeard
  <2> QED BY <2>1, NothingHeardKeeps
<1> QED BY <1>1, <1>2

LEMMA StanzaHeardKeeps ==
  ASSUME ImInv, NEW c \in Friends, StanzaHeard(c)
  PROVE  ImInv'
<1>1. UNCHANGED <<imScene, seen, porterQ>> /\ imScene \in ImScenes /\ im \in Ims
  BY DEF StanzaHeard, ImInv, Types
<1>2. PICK from \in Resources(c), kind \in imScene.stanzas :
        CASE kind = "body" -> MessageHeard(c, from, FALSE)
          [] kind = "stated" -> MessageHeard(c, from, TRUE)
          [] kind = "error" -> ErrorHeard(c, from)
          [] kind = "mute_error" -> NothingHeard
          [] kind = "state" -> StateHeard(c)
          [] kind = "receipt" -> ReceiptHeard(c)
          [] kind = "own" -> OwnMessageHeard(c)
  BY DEF StanzaHeard
<1>3. kind \in {"body", "stated", "error", "mute_error", "state", "receipt", "own"}
  BY <1>1, ImAssumption
<1>4. CASE kind = "body"
  <2>1. MessageHeard(c, from, FALSE)
    BY <1>2, <1>4
  <2> QED BY <1>1, <2>1, MessageHeardKeeps
<1>5. CASE kind = "stated"
  <2>1. MessageHeard(c, from, TRUE) /\ Stateful(imScene)
    BY <1>2, <1>5 DEF Stateful
  <2> QED BY <1>1, <2>1, MessageHeardKeeps
<1>6. CASE kind = "error"
  <2>1. ErrorHeard(c, from)
    BY <1>2, <1>6
  <2> QED BY <1>1, <2>1, ErrorHeardKeeps
<1>7. CASE kind = "mute_error"
  <2>1. NothingHeard
    BY <1>2, <1>7
  <2>2. im' = [im EXCEPT !.chan[c] = im.chan[c]]
    BY <1>1, <2>1, SameIm DEF NothingHeard
  <2> QED BY <1>1, <2>1, <2>2, NothingHeardKeeps DEF NothingHeard
<1>8. CASE kind = "state"
  <2>1. StateHeard(c) /\ "state" \in imScene.stanzas
    BY <1>2, <1>8
  <2> QED BY <1>1, <2>1, StateHeardKeeps
<1>9. CASE kind \in {"receipt", "own"}
  <2>1. (ReceiptHeard(c) \/ OwnMessageHeard(c)) /\ imScene.stanzas \cap {"receipt", "own"} # {}
    BY <1>2, <1>9
  <2> QED BY <1>1, <2>1, ReceiptHeardKeeps
<1> QED BY <1>3, <1>4, <1>5, <1>6, <1>7, <1>8, <1>9

LEMMA RequestImKeeps ==
  ASSUME ImInv, NEW c \in Friends, RequestIm(c)
  PROVE  ImInv'
<1>0. UNCHANGED <<imScene, seen, porterQ>>
  BY DEF RequestIm
<1>1. mail \in Mails /\ mail.heard \in Nat /\ Reports /\ mail.opened[c] \in Nat /\ mail.closed[c] \in Nat
      /\ Fine(imScene, c, im.chan[c], mail.opened[c], mail.closed[c], mail.spoke[c])
  BY Parts
<1>2. CASE im.chan[c].open
  <2>1. UNCHANGED imVars
    BY <1>0, <1>2 DEF RequestIm, imVars
  <2> QED BY <2>1, StutterKeeps
<1>3. CASE ~im.chan[c].open
  <2>1. im' = [im EXCEPT !.chan[c] = NewIm(c)] /\ mail' = Opened(mail, c)
    BY <1>3 DEF RequestIm
  <2>2. PICK g : g = Opened(mail, c)
    OBVIOUS
  <2>3. /\ g \in Mails /\ g.heard = mail.heard /\ g.let = mail.let /\ g.sent = mail.sent /\ g.out = mail.out
        /\ g.answers = mail.answers /\ g.closed = mail.closed /\ g.spoke = mail.spoke /\ g.receipts = mail.receipts
        /\ \A d \in Friends : g.opened[d] = IF d = c THEN mail.opened[c] + 1 ELSE mail.opened[d]
    BY <1>1, <2>2, OpensOne
  <2>4. PICK ch2 : ch2 = NewIm(c)
    OBVIOUS
  <2>5. /\ ch2 \in Chans /\ ch2.open /\ ch2.peer = Bare(c) /\ ch2.pending = <<>>
        /\ ch2.states = "UNKNOWN" /\ (ch2.nick => c \notin imScene.visibleTo)
    BY <2>4, NewChannels
  <2>6. im.chan[c] = NoChan /\ mail.opened[c] = mail.closed[c]
    BY <1>1, <1>3 DEF Fine
  <2>7. Fine(imScene, c, ch2, mail.opened[c] + 1, mail.closed[c], mail.spoke[c])
    BY <2>5, <2>6 DEF Fine
  <2>8. \A d \in Friends :
          /\ mail'.opened[d] = IF d = c THEN mail.opened[c] + 1 ELSE mail.opened[d]
          /\ mail'.closed[d] = mail.closed[d]
          /\ mail'.spoke[d] = IF d = c THEN mail.spoke[c] ELSE mail.spoke[d]
    BY <2>1, <2>2, <2>3
  <2>9. /\ mail' \in Mails /\ mail'.let = mail.let \cup {} /\ 1..mail'.heard = 1..mail.heard \cup {}
        /\ mail'.sent = mail.sent /\ mail'.out = mail.out /\ mail'.answers = mail.answers
        /\ mail'.receipts = mail.receipts
    BY <2>1, <2>2, <2>3
  <2>10. Items(ch2.pending) \cup {} = Items(im.chan[c].pending) \cup {}
    BY <2>5, <2>6 DEF NoChan
  <2>11. mail.opened[c] <= mail.opened[c] + 1
    BY <1>1
  <2>12. Listens(c, ch2, {}, {}, mail.opened[c] + 1, mail.spoke[c])
    BY <1>0, <1>1, <2>1, <2>4, <2>7, <2>8, <2>9, <2>10, <2>11 DEF Listens, Reports
  <2> QED BY <2>5, <2>12, ListensKeeps
<1> QED BY <1>2, <1>3

LEMMA AcknowledgeKeeps ==
  ASSUME ImInv, NEW c \in Friends, Acknowledge(c)
  PROVE  ImInv'
<1>0. /\ UNCHANGED <<imScene, seen, porterQ>> /\ im.chan[c].open /\ im.chan[c].pending # <<>>
      /\ im' = [im EXCEPT !.chan[c].pending = Tail(@)]
      /\ mail' = [mail EXCEPT !.let = @ \cup {Head(im.chan[c].pending)}]
  BY DEF Acknowledge
<1>1. mail \in Mails /\ mail.heard \in Nat /\ mail.let \in SUBSET Nat /\ Reports /\ mail.opened[c] \in Nat
      /\ im \in Ims /\ im.chan[c] \in Chans
      /\ Fine(imScene, c, im.chan[c], mail.opened[c], mail.closed[c], mail.spoke[c])
  BY Parts
<1>2. PICK ch, ch2 : ch = im.chan[c] /\ ch2 = [im.chan[c] EXCEPT !.pending = Tail(@)]
  OBVIOUS
<1>3. Tail(ch.pending) \in Seq(Nat) /\ Head(ch.pending) \in Nat /\ Items(Tail(ch.pending)) \cup {Head(ch.pending)} = Items(ch.pending)
  <2>1. ch.pending \in Seq(Nat) /\ ch.pending # <<>>
    BY <1>0, <1>1, <1>2 DEF Chans
  <2> QED BY <2>1, ItemsOfTail
<1>4. /\ ch2 \in Chans /\ ch2.open = ch.open /\ ch2.peer = ch.peer /\ ch2.states = ch.states /\ ch2.nick = ch.nick
      /\ ch2.pending = Tail(ch.pending)
  BY <1>1, <1>2, <1>3 DEF Chans
<1>5. im' = [im EXCEPT !.chan[c] = ch2]
  BY <1>0, <1>1, <1>2 DEF Ims
<1>6. PICK l \in SUBSET Nat : l = mail.let \cup {Head(ch.pending)}
  BY <1>1, <1>3
<1>7. PICK g : g = [mail EXCEPT !.let = l]
  OBVIOUS
<1>8. mail' = g
  BY <1>0, <1>2, <1>6, <1>7
<1>9. /\ g \in Mails /\ g.heard = mail.heard /\ g.let = l /\ g.sent = mail.sent /\ g.out = mail.out
      /\ g.answers = mail.answers /\ g.opened = mail.opened /\ g.closed = mail.closed /\ g.spoke = mail.spoke
      /\ g.receipts = mail.receipts
  BY <1>1, <1>7, LetsGo
<1>10. Fine(imScene, c, ch2, mail.opened[c], mail.closed[c], mail.spoke[c])
  BY <1>0, <1>1, <1>2, <1>4 DEF Fine
<1>11. \A d \in Friends :
        /\ mail'.opened[d] = IF d = c THEN mail.opened[c] ELSE mail.opened[d]
        /\ mail'.closed[d] = mail.closed[d]
        /\ mail'.spoke[d] = IF d = c THEN mail.spoke[c] ELSE mail.spoke[d]
  BY <1>8, <1>9
<1>12. /\ mail' \in Mails /\ mail'.let = mail.let \cup {Head(ch.pending)} /\ 1..mail'.heard = 1..mail.heard \cup {}
       /\ mail'.sent = mail.sent /\ mail'.out = mail.out /\ mail'.answers = mail.answers
       /\ mail'.receipts = mail.receipts
  BY <1>6, <1>8, <1>9
<1>13. Items(ch2.pending) \cup {Head(ch.pending)} = Items(im.chan[c].pending) \cup {}
  BY <1>2, <1>3, <1>4
<1>14. Listens(c, ch2, {Head(ch.pending)}, {}, mail.opened[c], mail.spoke[c])
  BY <1>0, <1>1, <1>2, <1>4, <1>5, <1>10, <1>11, <1>12, <1>13 DEF Listens, Reports
<1> QED BY <1>4, <1>14, ListensKeeps

(* The porter answers, in order.                                              *)
LEMMA SentAnsweredKeeps ==
  ASSUME ImInv, NEW ok \in BOOLEAN, SentAnswered(ok)
  PROVE  ImInv'
<1>1. /\ imScene' = imScene /\ im' = im /\ seen' = seen /\ porterQ # <<>> /\ porterQ' = Tail(porterQ)
      /\ mail' = [mail EXCEPT !.answers =
                    Append(@, [n |-> Head(porterQ).n, how |-> IF ok THEN "sent" ELSE "failed",
                               report |-> ok /\ Head(porterQ).report])]
  BY DEF SentAnswered
<1>2. /\ mail \in Mails /\ porterQ \in Seq(Asked) /\ mail.answers \in Seq(Answers) /\ mail.sent \in Nat
      /\ Ledger(mail.answers, porterQ, mail.sent)
  BY DEF ImInv, Types, Mails
<1>3. PICK y : y = [n |-> Head(porterQ).n, how |-> IF ok THEN "sent" ELSE "failed", report |-> ok /\ Head(porterQ).report]
  OBVIOUS
<1>4. Tail(porterQ) \in Seq(Asked) /\ Head(porterQ) \in Asked
  BY <1>1, <1>2, HeadTailProperties
<1>5. y \in Answers /\ y.n = Head(porterQ).n
  BY <1>3, <1>4 DEF Asked, Answers
<1>6. PICK a : a = Append(mail.answers, y)
  OBVIOUS
<1>7. a \in Seq(Answers) /\ Ledger(a, porterQ', mail.sent)
  BY <1>1, <1>2, <1>5, <1>6, LedgerAnswer, AppendProperties
<1>8. mail' = [mail EXCEPT !.answers = a]
  BY <1>1, <1>3, <1>6
<1>9. /\ mail' \in Mails /\ mail'.heard = mail.heard /\ mail'.let = mail.let /\ mail'.sent = mail.sent
      /\ mail'.out = mail.out /\ mail'.answers = a /\ mail'.opened = mail.opened /\ mail'.closed = mail.closed
      /\ mail'.spoke = mail.spoke /\ mail'.receipts = mail.receipts
  BY <1>2, <1>7, <1>8 DEF Mails
<1>10. Types'
  BY <1>1, <1>4, <1>9 DEF ImInv, Types
<1>11. Channels' /\ Kept' /\ Nicks' /\ Reports'
  BY <1>1, <1>9 DEF ImInv, Channels, Kept, Nicks, Reports, Unread
<1>12. Ledger(mail'.answers, porterQ', mail'.sent) /\ Discreet(imScene', mail'.out, seen')
  BY <1>1, <1>7, <1>9 DEF ImInv
<1> QED BY <1>10, <1>11, <1>12 DEF ImInv

LEMMA ImDisconnectedKeeps ==
  ASSUME ImInv, ImDisconnected
  PROVE  ImInv'
<1>1. /\ imScene' = imScene /\ seen' = seen /\ porterQ' = porterQ
      /\ im' = [up |-> FALSE, chan |-> [c \in Friends |-> NoChan]]
      /\ mail' = [mail EXCEPT !.let = 1..mail.heard, !.closed = [c \in Friends |-> mail.opened[c]]]
  BY DEF ImDisconnected
<1>2. mail \in Mails /\ mail.heard \in Nat /\ mail.opened \in [Friends -> Nat] /\ mail.spoke \in [Friends -> Addresses]
  BY DEF ImInv, Types, Mails
<1>3. PICK l \in SUBSET Nat, cl \in [Friends -> Nat] : l = 1..mail.heard /\ cl = [c \in Friends |-> mail.opened[c]]
  <2>1. 1..mail.heard \in SUBSET Nat
    BY <1>2
  <2>2. [c \in Friends |-> mail.opened[c]] \in [Friends -> Nat]
    BY <1>2
  <2> QED BY <2>1, <2>2
<1>4. mail' = [mail EXCEPT !.let = l, !.closed = cl]
  BY <1>1, <1>3
<1>5. /\ mail' \in Mails /\ mail'.heard = mail.heard /\ mail'.let = l /\ mail'.sent = mail.sent
      /\ mail'.out = mail.out /\ mail'.answers = mail.answers /\ mail'.opened = mail.opened /\ mail'.closed = cl
      /\ mail'.spoke = mail.spoke /\ mail'.receipts = mail.receipts
  BY <1>2, <1>4 DEF Mails
<1>6. \A c \in Friends : NoChan \in Chans
  BY NewChannels
<1>7. im' \in Ims /\ \A c \in Friends : im'.chan[c] = NoChan
  BY <1>1, <1>6 DEF Ims
<1>8. Types'
  BY <1>1, <1>5, <1>7 DEF ImInv, Types
<1>9. NoChan.pending = <<>> /\ NoChan.nick = FALSE /\ NoChan.open = FALSE /\ NoChan.states = "UNKNOWN"
  BY DEF NoChan
<1>10. Channels'
  <2> SUFFICES ASSUME NEW c \in Friends
               PROVE  Fine(imScene, c, im'.chan[c], mail'.opened[c], mail'.closed[c], mail'.spoke[c])
    BY <1>1 DEF Channels
  <2>1. mail'.opened[c] = mail'.closed[c] /\ mail'.opened[c] \in Nat /\ im'.chan[c] = NoChan
    BY <1>2, <1>3, <1>5, <1>7
  <2> QED BY <1>9, <2>1 DEF Fine
<1>11. Kept'
  <2>1. \A c \in Friends : Items(im'.chan[c].pending) = {}
    BY <1>7, <1>9 DEF Items
  <2>2. Unread(im'.chan) = {}
    BY <2>1 DEF Unread
  <2>3. 1..mail'.heard = mail'.let \cup Unread(im'.chan)
    BY <1>3, <1>5, <2>2
  <2> QED BY <2>3 DEF Kept, Unread
<1>12. Nicks'
  <2> SUFFICES ASSUME NEW c \in Friends PROVE Counted(imScene, mail.out, c, NoChan, mail.opened[c])
    BY <1>1, <1>5, <1>7 DEF Nicks
  <2>1. Counted(imScene, mail.out, c, im.chan[c], mail.opened[c])
    BY DEF ImInv, Nicks
  <2>2. IsFiniteSet(Told(mail.out, c))
    <3>1. Len(mail.out) \in Nat
      BY <1>2, LenProperties DEF Mails
    <3>2. IsFiniteSet(1..Len(mail.out))
      BY <3>1, FS_Interval
    <3>3. Told(mail.out, c) \in SUBSET (1..Len(mail.out))
      BY DEF Told
    <3> QED BY <3>2, <3>3, FS_Subset
  <2>3. Cardinality(Told(mail.out, c)) \in Nat /\ mail.opened[c] \in Nat
    BY <1>2, <2>2, FS_CardinalityType
  <2>4. Cardinality(Told(mail.out, c)) + 0 <= mail.opened[c]
    BY <2>1, <2>3 DEF Counted
  <2> QED BY <1>9, <2>1, <2>4 DEF Counted
<1>13. Reports' /\ Ledger(mail'.answers, porterQ', mail'.sent) /\ Discreet(imScene', mail'.out, seen')
  BY <1>1, <1>5 DEF ImInv, Reports
<1> QED BY <1>8, <1>10, <1>11, <1>12, <1>13 DEF ImInv

(* A chat state is written only to those who can be known to understand it.   *)
LEMMA StateWritten ==
  ASSUME ImInv, NEW c \in Friends, NEW ch \in Chans, NEW ch1, NEW ch2,
         ch.states = im.chan[c].states, StatesSupported(c, ch, FALSE)
  PROVE  Out(c, ch, "state", 0) \in Outs /\ Written(imScene, seen, c, ch1, ch2, Out(c, ch, "state", 0))
<1>1. Fine(imScene, c, im.chan[c], mail.opened[c], mail.closed[c], mail.spoke[c])
  BY Parts
<1>2. PICK o : o = Out(c, ch, "state", 0)
  OBVIOUS
<1>3. o \in Outs /\ o.friend = c /\ o.nick = FALSE
  BY <1>2 DEF Out, Outs, Chans
<1>4. seen[c] = "states" \/ Stateful(imScene)
  BY <1>1 DEF StatesSupported, Fine
<1> QED BY <1>2, <1>3, <1>4 DEF Written

(* A step in which nothing is heard or let go.                                *)
Speaks(c, ch2, sent, out, answers) ==
  /\ im' = [im EXCEPT !.chan[c] = ch2]
  /\ mail' = [mail EXCEPT !.sent = sent, !.out = out, !.answers = answers]
  /\ sent \in Nat /\ out \in Seq(Outs) /\ answers \in Seq(Answers) /\ porterQ' \in Seq(Asked)
  /\ Ledger(answers, porterQ', sent)
  /\ \/ out = mail.out
     \/ \E o : Written(imScene, seen, c, im.chan[c], ch2, o) /\ out = Append(mail.out, o)
  /\ ch2.open = im.chan[c].open /\ ch2.peer = im.chan[c].peer /\ ch2.states = im.chan[c].states
  /\ ch2.pending = im.chan[c].pending /\ (ch2.nick => im.chan[c].nick) /\ im.chan[c].open
  /\ UNCHANGED <<imScene, seen>>

LEMMA SpeaksKeeps ==
  ASSUME ImInv, NEW c \in Friends, NEW ch2 \in Chans, NEW sent, NEW out, NEW answers, Speaks(c, ch2, sent, out, answers)
  PROVE  ImInv'
<1>1. /\ mail \in Mails /\ mail.opened[c] \in Nat /\ im \in Ims /\ DOMAIN seen = Friends /\ Reports
      /\ Fine(imScene, c, im.chan[c], mail.opened[c], mail.closed[c], mail.spoke[c])
  BY Parts
<1>2. /\ mail' \in Mails /\ mail'.heard = mail.heard /\ mail'.let = mail.let /\ mail'.sent = sent
      /\ mail'.out = out /\ mail'.answers = answers /\ mail'.opened = mail.opened /\ mail'.closed = mail.closed
      /\ mail'.spoke = mail.spoke /\ mail'.receipts = mail.receipts
  <2>1. /\ mail' = [mail EXCEPT !.sent = sent, !.out = out, !.answers = answers]
        /\ sent \in Nat /\ out \in Seq(Outs) /\ answers \in Seq(Answers)
    BY DEF Speaks
  <2> QED BY <1>1, <2>1 DEF Mails
<1>3. im' \in Ims /\ \A d \in Friends : im'.chan[d] = IF d = c THEN ch2 ELSE im.chan[d]
  BY <1>1 DEF Speaks, Ims
<1>4. Fine(imScene, c, ch2, mail.opened[c], mail.closed[c], mail.spoke[c])
  BY <1>1 DEF Speaks, Fine
<1>5. /\ mail'.let = mail.let \cup {} /\ 1..mail'.heard = 1..mail.heard \cup {}
      /\ Items(ch2.pending) \cup {} = Items(im.chan[c].pending) \cup {}
      /\ \A d \in Friends :
           /\ mail'.opened[d] = IF d = c THEN mail.opened[c] ELSE mail.opened[d]
           /\ mail'.closed[d] = IF d = c THEN mail.closed[c] ELSE mail.closed[d]
           /\ mail'.spoke[d] = IF d = c THEN mail.spoke[c] ELSE mail.spoke[d]
  BY <1>2 DEF Speaks
<1>6. /\ DOMAIN seen' = Friends /\ \A d \in Friends : seen[d] = "states" => seen'[d] = "states"
  BY <1>1 DEF Speaks
<1>7. /\ mail.opened[c] <= mail.opened[c] /\ (ch2.nick /\ ~im.chan[c].nick => mail.opened[c] + 1 <= mail.opened[c])
      /\ imScene' = imScene /\ porterQ' \in Seq(Asked) /\ Ledger(mail'.answers, porterQ', mail'.sent)
      /\ \/ mail'.out = mail.out
         \/ \E o : Written(imScene, seen, c, im.chan[c], ch2, o) /\ mail'.out = Append(mail.out, o)
  BY <1>1, <1>2 DEF Speaks
<1>8. \A d \in mail'.receipts : d \in imScene.visibleTo /\ ~imScene.hidden
  BY <1>1, <1>2 DEF Reports
<1>9. Effect(c, ch2, {}, {}, mail.opened[c], mail.closed[c], mail.spoke[c])
  BY <1>2, <1>3, <1>4, <1>5, <1>6, <1>7, <1>8 DEF Effect
<1> QED BY <1>9, EffectKeeps

LEMMA SendMessageKeeps ==
  ASSUME ImInv, NEW c \in Friends, SendMessage(c)
  PROVE  ImInv'
<1>1. /\ mail \in Mails /\ mail.sent \in Nat /\ im \in Ims /\ im.chan[c] \in Chans /\ porterQ \in Seq(Asked)
      /\ mail.answers \in Seq(Answers) /\ mail.out \in Seq(Outs) /\ Ledger(mail.answers, porterQ, mail.sent)
  BY Parts
<1>2. PICK n, ch : n \in Nat /\ n = mail.sent + 1 /\ ch = im.chan[c]
  BY <1>1
<1>3. PICK valid \in BOOLEAN, report \in BOOLEAN :
        /\ ch.open
        /\ im' = [im EXCEPT !.chan[c] = [NickSpent(ch) EXCEPT !.gone = TRUE]]
        /\ porterQ' = IF valid THEN Append(porterQ, [n |-> n, report |-> report]) ELSE porterQ
        /\ mail' = [mail EXCEPT !.sent = n, !.out = IF valid THEN Append(@, Out(c, ch, "message", n)) ELSE @,
                      !.answers = IF valid THEN @ ELSE Append(@, [n |-> n, how |-> "refused", report |-> FALSE])]
        /\ UNCHANGED <<imScene, seen>>
  BY <1>2 DEF SendMessage
<1>4. PICK ch2 : ch2 = [NickSpent(ch) EXCEPT !.gone = TRUE]
  OBVIOUS
<1>5. /\ ch2 \in Chans /\ ch2.open = ch.open /\ ch2.peer = ch.peer /\ ch2.states = ch.states
      /\ ch2.pending = ch.pending /\ ch2.nick = FALSE
  BY <1>1, <1>2, <1>4 DEF NickSpent, Chans
<1>6. PICK o : o = Out(c, ch, "message", n)
  OBVIOUS
<1>7. o \in Outs /\ Written(imScene, seen, c, im.chan[c], ch2, o)
  <2>1. o \in Outs /\ o.friend = c /\ o.nick = ch.nick /\ o.kind = "message"
    BY <1>1, <1>2, <1>6 DEF Out, Outs, Chans
  <2> QED BY <1>2, <1>5, <2>1 DEF Written
<1>8. PICK out, answers : /\ out = IF valid THEN Append(mail.out, o) ELSE mail.out
                          /\ answers = IF valid THEN mail.answers ELSE Append(mail.answers, [n |-> n, how |-> "refused", report |-> FALSE])
  OBVIOUS
<1>9. mail' = [mail EXCEPT !.sent = n, !.out = out, !.answers = answers]
  BY <1>3, <1>6, <1>8
<1>10. out \in Seq(Outs)
  BY <1>1, <1>7, <1>8, AppendProperties
<1>11. answers \in Seq(Answers) /\ porterQ' \in Seq(Asked) /\ Ledger(answers, porterQ', n)
  <2>1. CASE valid
    <3>1. PICK x : x = [n |-> n, report |-> report]
      OBVIOUS
    <3>2. x \in Asked /\ x.n = mail.sent + 1
      BY <1>2, <3>1 DEF Asked
    <3>3. porterQ' = Append(porterQ, x) /\ answers = mail.answers
      BY <1>3, <1>8, <2>1, <3>1
    <3>4. Ledger(mail.answers, Append(porterQ, x), mail.sent + 1) /\ Append(porterQ, x) \in Seq(Asked)
      BY <1>1, <3>2, LedgerSend, AppendProperties
    <3> QED BY <1>1, <1>2, <3>3, <3>4
  <2>2. CASE ~valid
    <3>1. PICK y : y = [n |-> n, how |-> "refused", report |-> FALSE]
      OBVIOUS
    <3>2. y \in Answers /\ y.n = mail.sent + 1 /\ y.how = "refused"
      BY <1>2, <3>1 DEF Answers
    <3>3. porterQ' = porterQ /\ answers = Append(mail.answers, y)
      BY <1>3, <1>8, <2>2, <3>1
    <3>4. Ledger(Append(mail.answers, y), porterQ, mail.sent + 1) /\ Append(mail.answers, y) \in Seq(Answers)
      BY <1>1, <3>2, LedgerRefuse, AppendProperties
    <3> QED BY <1>1, <1>2, <3>3, <3>4
  <2> QED BY <2>1, <2>2
<1>12. Speaks(c, ch2, n, out, answers)
  BY <1>2, <1>3, <1>4, <1>5, <1>7, <1>8, <1>9, <1>10, <1>11 DEF Speaks
<1> QED BY <1>5, <1>12, SpeaksKeeps

LEMMA SetChatStateKeeps ==
  ASSUME ImInv, NEW c \in Friends, SetChatState(c)
  PROVE  ImInv'
<1>1. /\ mail \in Mails /\ mail.sent \in Nat /\ im \in Ims /\ im.chan[c] \in Chans /\ porterQ \in Seq(Asked)
      /\ mail.answers \in Seq(Answers) /\ mail.out \in Seq(Outs) /\ Ledger(mail.answers, porterQ, mail.sent)
  BY Parts
<1>2. /\ im.chan[c].open /\ mail' = ToldState(c, im.chan[c], mail)
      /\ im' = [im EXCEPT !.chan[c].gone = TRUE] /\ UNCHANGED <<imScene, seen, porterQ>>
  BY DEF SetChatState
<1>3. PICK ch, ch2, o : ch = im.chan[c] /\ ch2 = [im.chan[c] EXCEPT !.gone = TRUE] /\ o = Out(c, im.chan[c], "state", 0)
  OBVIOUS
<1>4. /\ ch2 \in Chans /\ ch2.open = ch.open /\ ch2.peer = ch.peer /\ ch2.states = ch.states
      /\ ch2.pending = ch.pending /\ ch2.nick = ch.nick
  BY <1>1, <1>3 DEF Chans
<1>5. im' = [im EXCEPT !.chan[c] = ch2]
  BY <1>1, <1>2, <1>3 DEF Ims
<1>6. PICK out : out = IF StatesSupported(c, ch, FALSE) THEN Append(mail.out, o) ELSE mail.out
  OBVIOUS
<1>7. mail' = [mail EXCEPT !.sent = mail.sent, !.out = out, !.answers = mail.answers]
  BY <1>1, <1>2, <1>3, <1>6 DEF ToldState, Mails
<1>8. out \in Seq(Outs)
      /\ (out = mail.out \/ \E x : Written(imScene, seen, c, im.chan[c], ch2, x) /\ out = Append(mail.out, x))
  <2>1. CASE StatesSupported(c, ch, FALSE)
    <3>1. o \in Outs /\ Written(imScene, seen, c, im.chan[c], ch2, o)
      BY <1>1, <1>3, <2>1, StateWritten
    <3> QED BY <1>1, <1>6, <2>1, <3>1, AppendProperties
  <2>2. CASE ~StatesSupported(c, ch, FALSE)
    BY <1>1, <1>6, <2>2
  <2> QED BY <2>1, <2>2
<1>9. Speaks(c, ch2, mail.sent, out, mail.answers)
  BY <1>1, <1>2, <1>3, <1>4, <1>5, <1>7, <1>8 DEF Speaks
<1> QED BY <1>4, <1>9, SpeaksKeeps

(* The history when a channel of c closes and, or not, opens again.           *)
Closed(m, c, k) == [m EXCEPT !.closed[c] = @ + 1, !.opened[c] = @ + k]

LEMMA ClosesOne ==
  ASSUME NEW m \in Mails, NEW c \in Friends, NEW k \in Nat, NEW h, h = Closed(m, c, k)
  PROVE
  /\ h \in Mails /\ h.heard = m.heard /\ h.let = m.let /\ h.sent = m.sent /\ h.out = m.out /\ h.answers = m.answers
  /\ h.spoke = m.spoke /\ h.receipts = m.receipts
  /\ \A d \in Friends : /\ h.opened[d] = IF d = c THEN m.opened[c] + k ELSE m.opened[d]
                        /\ h.closed[d] = IF d = c THEN m.closed[c] + 1 ELSE m.closed[d]
<1>0. m.opened \in [Friends -> Nat] /\ m.closed \in [Friends -> Nat]
  BY DEF Mails
<1>1. PICK f, g : f = [m.opened EXCEPT ![c] = @ + k] /\ g = [m.closed EXCEPT ![c] = @ + 1]
  OBVIOUS
<1>2. f \in [Friends -> Nat] /\ \A d \in Friends : f[d] = IF d = c THEN m.opened[c] + k ELSE m.opened[d]
  BY <1>0, <1>1
<1>3. g \in [Friends -> Nat] /\ \A d \in Friends : g[d] = IF d = c THEN m.closed[c] + 1 ELSE m.closed[d]
  BY <1>0, <1>1
<1>4. h = [m EXCEPT !.closed = g, !.opened = f]
  BY <1>1 DEF Closed
<1> QED BY <1>2, <1>3, <1>4 DEF Mails

(* A step in which the channel of c is closed, after the messages dl of it    *)
(* were let go: ch and mm are the channel and the history by then.            *)
Closes(c, ch, mm, dl) ==
  /\ ch \in Chans /\ mm \in Mails /\ im.chan[c].open
  /\ ch.open = im.chan[c].open /\ ch.peer = im.chan[c].peer /\ ch.states = im.chan[c].states
  /\ ch.nick = im.chan[c].nick /\ (ch.pending # <<>> => im.chan[c].pending # <<>>)
  /\ Items(ch.pending) \cup dl = Items(im.chan[c].pending)
  /\ mm.heard = mail.heard /\ mm.let = mail.let \cup dl /\ mm.sent = mail.sent /\ mm.out = mail.out
  /\ mm.answers = mail.answers /\ mm.opened = mail.opened /\ mm.closed = mail.closed
  /\ mm.spoke = mail.spoke /\ mm.receipts = mail.receipts
  /\ CloseWith(c, ch, mm) /\ UNCHANGED <<imScene, porterQ>>

LEMMA ClosesKeeps ==
  ASSUME ImInv, NEW c \in Friends, NEW ch, NEW mm, NEW dl, Closes(c, ch, mm, dl)
  PROVE  ImInv'
<1>1. /\ mail \in Mails /\ im \in Ims /\ im.chan[c] \in Chans /\ porterQ \in Seq(Asked) /\ DOMAIN seen = Friends
      /\ mail.opened[c] \in Nat /\ mail.closed[c] \in Nat /\ mail.out \in Seq(Outs)
      /\ Ledger(mail.answers, porterQ, mail.sent) /\ Reports
      /\ Fine(imScene, c, im.chan[c], mail.opened[c], mail.closed[c], mail.spoke[c])
  BY Parts
<1>2. /\ ch \in Chans /\ mm \in Mails /\ im.chan[c].open
      /\ ch.open = im.chan[c].open /\ ch.peer = im.chan[c].peer /\ ch.states = im.chan[c].states
      /\ ch.nick = im.chan[c].nick /\ (ch.pending # <<>> => im.chan[c].pending # <<>>)
      /\ Items(ch.pending) \cup dl = Items(im.chan[c].pending)
  BY DEF Closes
<1>3. /\ mm.heard = mail.heard /\ mm.let = mail.let \cup dl /\ mm.sent = mail.sent /\ mm.out = mail.out
      /\ mm.answers = mail.answers /\ mm.opened = mail.opened /\ mm.closed = mail.closed
      /\ mm.spoke = mail.spoke /\ mm.receipts = mail.receipts /\ imScene' = imScene /\ porterQ' = porterQ
  BY DEF Closes
<1>4. PICK rescue, said, k :
        /\ rescue = (ch.pending # <<>>) /\ k = (IF rescue THEN 1 ELSE 0)
        /\ said = IF ch.gone THEN ToldState(c, ch, mm) ELSE mm
  OBVIOUS
<1>5. PICK ch2 : ch2 = IF rescue THEN [ch EXCEPT !.gone = FALSE, !.rescued = Items(ch.pending)] ELSE NoChan
  OBVIOUS
<1>6. /\ im' = [im EXCEPT !.chan[c] = ch2]
      /\ seen' = IF rescue THEN seen ELSE PresenceLet(c)
  BY <1>4, <1>5 DEF Closes, CloseWith, Items
<1>7. PICK o : o = Out(c, ch, "state", 0)
  OBVIOUS
<1>8. /\ said \in Mails /\ said.heard = mm.heard /\ said.let = mm.let /\ said.sent = mm.sent
      /\ said.answers = mm.answers /\ said.opened = mm.opened /\ said.closed = mm.closed
      /\ said.spoke = mm.spoke /\ said.receipts = mm.receipts
      /\ (said.out = mail.out \/ (Written(imScene, seen, c, im.chan[c], ch2, o) /\ said.out = Append(mail.out, o)))
  <2>1. CASE ch.gone /\ StatesSupported(c, ch, FALSE)
    <3>1. o \in Outs /\ Written(imScene, seen, c, im.chan[c], ch2, o)
      BY <1>2, <1>7, <2>1, StateWritten
    <3>2. PICK out : out = Append(mail.out, o)
      OBVIOUS
    <3>3. out \in Seq(Outs)
      BY <1>1, <3>1, <3>2, AppendProperties
    <3>4. said = [mm EXCEPT !.out = out]
      BY <1>3, <1>4, <1>7, <2>1, <3>2 DEF ToldState
    <3>5. /\ said \in Mails /\ said.heard = mm.heard /\ said.let = mm.let /\ said.sent = mm.sent /\ said.out = out
          /\ said.answers = mm.answers /\ said.opened = mm.opened /\ said.closed = mm.closed
          /\ said.spoke = mm.spoke /\ said.receipts = mm.receipts
      <4>1. mm \in Mails
        BY <1>2
      <4> QED BY <3>3, <3>4, <4>1, Writes
    <3> QED BY <3>1, <3>2, <3>5
  <2>2. CASE ~(ch.gone /\ StatesSupported(c, ch, FALSE))
    <3>1. said = mm
      BY <1>4, <2>2 DEF ToldState
    <3> QED BY <1>2, <1>3, <3>1
  <2> QED BY <2>1, <2>2
<1>9. k \in {0, 1} /\ mail' = [said EXCEPT !.closed[c] = @ + 1, !.opened[c] = @ + k]
  <2>1. mail' = [said EXCEPT !.closed[c] = @ + 1, !.opened[c] = IF rescue THEN @ + 1 ELSE @]
    BY <1>4 DEF Closes, CloseWith
  <2>2. CASE rescue
    BY <1>4, <2>1, <2>2
  <2>3. CASE ~rescue
    <3>1. said.opened[c] \in Nat /\ said.opened[c] + 0 = said.opened[c]
      BY <1>1, <1>3, <1>8
    <3>2. k = 0 /\ mail' = [said EXCEPT !.closed[c] = @ + 1, !.opened[c] = @]
      BY <1>4, <2>1, <2>3
    <3> QED BY <3>1, <3>2
  <2>4. rescue \in BOOLEAN
    BY <1>4
  <2> QED BY <2>2, <2>3, <2>4
<1>10. /\ mail' \in Mails /\ mail'.heard = said.heard /\ mail'.let = said.let /\ mail'.sent = said.sent /\ mail'.out = said.out
       /\ mail'.answers = said.answers /\ mail'.spoke = said.spoke /\ mail'.receipts = said.receipts
       /\ \A d \in Friends : /\ mail'.opened[d] = IF d = c THEN said.opened[c] + k ELSE said.opened[d]
                             /\ mail'.closed[d] = IF d = c THEN said.closed[c] + 1 ELSE said.closed[d]
  <2>1. said \in Mails /\ k \in Nat
    BY <1>8, <1>9
  <2>2. PICK h : h = mail'
    OBVIOUS
  <2>3. h = Closed(said, c, k)
    BY <1>9, <2>2 DEF Closed
  <2>4. /\ h \in Mails /\ h.heard = said.heard /\ h.let = said.let /\ h.sent = said.sent /\ h.out = said.out
        /\ h.answers = said.answers /\ h.spoke = said.spoke /\ h.receipts = said.receipts
        /\ \A d \in Friends : /\ h.opened[d] = IF d = c THEN said.opened[c] + k ELSE said.opened[d]
                              /\ h.closed[d] = IF d = c THEN said.closed[c] + 1 ELSE said.closed[d]
    BY <2>1, <2>3, ClosesOne
  <2> QED BY <2>2, <2>4
<1>11. \A d \in Friends : /\ mail'.opened[d] = IF d = c THEN mail.opened[c] + k ELSE mail.opened[d]
                          /\ mail'.closed[d] = IF d = c THEN mail.closed[c] + 1 ELSE mail.closed[d]
                          /\ mail'.spoke[d] = IF d = c THEN mail.spoke[c] ELSE mail.spoke[d]
  BY <1>3, <1>8, <1>10
<1>12. Items(ch.pending) \in SUBSET Nat
  <2>1. ch.pending \in Seq(Nat)
    BY <1>2 DEF Chans
  <2> QED BY <2>1, ElementOfSeq DEF Items
<1>13. /\ ch2 \in Chans
       /\ Items(ch2.pending) \cup dl = Items(im.chan[c].pending)
       /\ Fine(imScene, c, ch2, mail.opened[c] + k, mail.closed[c] + 1, mail.spoke[c])
       /\ (ch2.nick => im.chan[c].nick)
  <2>1. CASE rescue
    <3>1. ch2 = [ch EXCEPT !.gone = FALSE, !.rescued = Items(ch.pending)]
      BY <1>5, <2>1
    <3>2. /\ ch2 \in Chans /\ ch2.open = ch.open /\ ch2.peer = ch.peer /\ ch2.states = ch.states
          /\ ch2.pending = ch.pending /\ ch2.nick = ch.nick
      BY <1>2, <1>12, <3>1 DEF Chans
    <3>3. k = 1 /\ ch2.open
      BY <1>2, <1>4, <2>1, <3>2
    <3>4. Fine(imScene, c, ch2, mail.opened[c] + k, mail.closed[c] + 1, mail.spoke[c])
      BY <1>1, <1>2, <3>2, <3>3 DEF Fine
    <3> QED BY <1>2, <3>2, <3>4
  <2>2. CASE ~rescue
    <3>1. ch2 = NoChan /\ k = 0 /\ ch.pending = <<>>
      BY <1>4, <1>5, <2>2
    <3>2. ch2 \in Chans
      BY <3>1, NewChannels
    <3>3. NoChan.pending = <<>> /\ NoChan.nick = FALSE /\ NoChan.open = FALSE /\ NoChan.states = "UNKNOWN"
      BY DEF NoChan
    <3>4. mail.opened[c] + k = mail.closed[c] + 1
      BY <1>1, <1>2, <3>1 DEF Fine
    <3>5. Fine(imScene, c, ch2, mail.opened[c] + k, mail.closed[c] + 1, mail.spoke[c])
      BY <1>1, <3>1, <3>3, <3>4 DEF Fine
    <3> QED BY <1>2, <3>1, <3>2, <3>3, <3>5
  <2> QED BY <1>4, <2>1, <2>2
<1>14. im' \in Ims /\ \A d \in Friends : im'.chan[d] = IF d = c THEN ch2 ELSE im.chan[d]
  BY <1>1, <1>6, <1>13 DEF Ims
<1>15. DOMAIN seen' = Friends /\ \A d \in Friends : seen[d] = "states" => seen'[d] = "states"
  BY <1>1, <1>6 DEF PresenceLet
<1>16. /\ mail'.let = mail.let \cup dl /\ 1..mail'.heard = 1..mail.heard \cup {}
       /\ Items(ch2.pending) \cup dl = Items(im.chan[c].pending) \cup {}
       /\ imScene' = imScene /\ porterQ' \in Seq(Asked) /\ Ledger(mail'.answers, porterQ', mail'.sent)
  BY <1>1, <1>3, <1>8, <1>10, <1>13
<1>17. /\ mail.opened[c] <= mail.opened[c] + k /\ (ch2.nick /\ ~im.chan[c].nick => mail.opened[c] + 1 <= mail.opened[c] + k)
  BY <1>1, <1>9, <1>13
<1>18. \/ mail'.out = mail.out
       \/ \E x : Written(imScene, seen, c, im.chan[c], ch2, x) /\ mail'.out = Append(mail.out, x)
  BY <1>8, <1>10
<1>19. \A d \in mail'.receipts : d \in imScene.visibleTo /\ ~imScene.hidden
  BY <1>1, <1>3, <1>8, <1>10 DEF Reports
<1>20. Effect(c, ch2, dl, {}, mail.opened[c] + k, mail.closed[c] + 1, mail.spoke[c])
  BY <1>10, <1>11, <1>13, <1>14, <1>15, <1>16, <1>17, <1>18, <1>19 DEF Effect
<1> QED BY <1>20, EffectKeeps

LEMMA CloseImKeeps ==
  ASSUME ImInv, NEW c \in Friends, CloseIm(c)
  PROVE  ImInv'
<1>1. mail \in Mails /\ im.chan[c] \in Chans
  BY Parts
<1>2. im.chan[c].open /\ CloseWith(c, im.chan[c], mail) /\ UNCHANGED <<imScene, porterQ>>
  BY DEF CloseIm
<1>3. Closes(c, im.chan[c], mail, {})
  BY <1>1, <1>2 DEF Closes
<1> QED BY <1>3, ClosesKeeps

LEMMA DestroyImKeeps ==
  ASSUME ImInv, NEW c \in Friends, DestroyIm(c)
  PROVE  ImInv'
<1>1. mail \in Mails /\ im.chan[c] \in Chans /\ mail.let \in SUBSET Nat
  BY Parts
<1>2. PICK dl, ch, mm : /\ dl = Items(im.chan[c].pending) /\ ch = [im.chan[c] EXCEPT !.pending = <<>>]
                        /\ mm = [mail EXCEPT !.let = mail.let \cup dl]
  OBVIOUS
<1>3. im.chan[c].open /\ CloseWith(c, ch, mm) /\ UNCHANGED <<imScene, porterQ>>
  BY <1>2 DEF DestroyIm, Items
<1>4. dl \in SUBSET Nat
  <2>1. im.chan[c].pending \in Seq(Nat)
    BY <1>1 DEF Chans
  <2> QED BY <1>2, <2>1, ElementOfSeq DEF Items
<1>5. PICK l \in SUBSET Nat : l = mail.let \cup dl
  BY <1>1, <1>4
<1>6. /\ mm \in Mails /\ mm.heard = mail.heard /\ mm.let = l /\ mm.sent = mail.sent /\ mm.out = mail.out
      /\ mm.answers = mail.answers /\ mm.opened = mail.opened /\ mm.closed = mail.closed
      /\ mm.spoke = mail.spoke /\ mm.receipts = mail.receipts
  <2>1. mm = [mail EXCEPT !.let = l]
    BY <1>2, <1>5
  <2> QED BY <1>1, <2>1, LetsGo
<1>7. <<>> \in Seq(Nat)
  BY EmptySeq
<1>8. /\ ch \in Chans /\ ch.open = im.chan[c].open /\ ch.peer = im.chan[c].peer /\ ch.states = im.chan[c].states
      /\ ch.nick = im.chan[c].nick /\ ch.pending = <<>>
  BY <1>1, <1>2, <1>7 DEF Chans
<1>9. Items(ch.pending) \cup dl = Items(im.chan[c].pending)
  <2>1. Items(ch.pending) = {}
    BY <1>8 DEF Items
  <2> QED BY <1>2, <2>1
<1>10. Closes(c, ch, mm, dl)
  BY <1>3, <1>5, <1>6, <1>8, <1>9 DEF Closes
<1> QED BY <1>10, ClosesKeeps

-----------------------------------------------------------------------------
LEMMA InitIsFine == ASSUME ImInit PROVE ImInv
<1>1. imScene \in ImScenes /\ im = [up |-> TRUE, chan |-> [c \in Friends |-> NoChan]]
      /\ DOMAIN seen = Friends /\ porterQ = <<>> /\ mail = NoMail
  BY DEF ImInit
<1>2. /\ mail.heard = 0 /\ mail.let = {} /\ mail.sent = 0 /\ mail.out = <<>> /\ mail.answers = <<>>
      /\ mail.opened = [c \in Friends |-> 0] /\ mail.closed = [c \in Friends |-> 0]
      /\ mail.spoke = [c \in Friends |-> <<"none", "none">>] /\ mail.receipts = {}
  BY <1>1 DEF NoMail
<1>3. mail \in Mails
  <2>1. <<"none", "none">> \in Addresses
    BY DEF Addresses
  <2>2. /\ [c \in Friends |-> 0] \in [Friends -> Nat]
        /\ [c \in Friends |-> <<"none", "none">>] \in [Friends -> Addresses]
        /\ <<>> \in Seq(Outs) /\ <<>> \in Seq(Answers)
    BY <2>1, EmptySeq
  <2> HIDE DEF Addresses, Outs, Answers
  <2> QED BY <1>1, <2>2 DEF NoMail, Mails
<1>4. \A c \in Friends : NoChan \in Chans
  BY NewChannels
<1>5. im \in Ims /\ \A c \in Friends : im.chan[c] = NoChan
  BY <1>1, <1>4 DEF Ims
<1>6. Types
  BY <1>1, <1>3, <1>5, EmptySeq DEF Types
<1>7. NoChan.pending = <<>> /\ NoChan.nick = FALSE /\ NoChan.open = FALSE /\ NoChan.states = "UNKNOWN"
  BY DEF NoChan
<1>8. Channels
  <2> SUFFICES ASSUME NEW c \in Friends
               PROVE  Fine(imScene, c, im.chan[c], mail.opened[c], mail.closed[c], mail.spoke[c])
    BY DEF Channels
  <2>1. mail.opened[c] = 0 /\ mail.closed[c] = 0 /\ im.chan[c] = NoChan
    BY <1>2, <1>5
  <2> QED BY <1>7, <2>1 DEF Fine
<1>9. Kept
  <2>1. \A c \in Friends : Items(im.chan[c].pending) = {}
    BY <1>5, <1>7 DEF Items
  <2>2. Unread(im.chan) = {}
    BY <2>1 DEF Unread
  <2> QED BY <1>2, <2>2 DEF Kept
<1>10. Ledger(mail.answers, porterQ, mail.sent)
  BY <1>1, <1>2 DEF Ledger
<1>11. Nicks
  <2> SUFFICES ASSUME NEW c \in Friends PROVE Counted(imScene, mail.out, c, im.chan[c], mail.opened[c])
    BY DEF Nicks
  <2>1. Told(mail.out, c) = {}
    BY <1>2 DEF Told
  <2>2. Cardinality(Told(mail.out, c)) = 0
    BY <2>1, FS_EmptySet
  <2>3. mail.opened[c] = 0 /\ im.chan[c].nick = FALSE
    BY <1>2, <1>5, <1>7
  <2> QED BY <2>1, <2>2, <2>3 DEF Counted
<1>12. Discreet(imScene, mail.out, seen) /\ Reports
  BY <1>2 DEF Discreet, Reports
<1> QED BY <1>6, <1>8, <1>9, <1>10, <1>11, <1>12 DEF ImInv

LEMMA StepKeeps == ASSUME ImInv, [ImNext]_imVars PROVE ImInv'
<1>1. ASSUME NEW c \in Friends, StanzaHeard(c) PROVE ImInv'
  BY <1>1, StanzaHeardKeeps
<1>2. ASSUME NEW c \in Friends, RequestIm(c) PROVE ImInv'
  BY <1>2, RequestImKeeps
<1>3. ASSUME NEW c \in Friends, SendMessage(c) PROVE ImInv'
  BY <1>3, SendMessageKeeps
<1>4. ASSUME NEW c \in Friends, SetChatState(c) PROVE ImInv'
  BY <1>4, SetChatStateKeeps
<1>5. ASSUME NEW c \in Friends, Acknowledge(c) PROVE ImInv'
  BY <1>5, AcknowledgeKeeps
<1>6. ASSUME NEW c \in Friends, CloseIm(c) PROVE ImInv'
  BY <1>6, CloseImKeeps
<1>7. ASSUME NEW c \in Friends, DestroyIm(c) PROVE ImInv'
  BY <1>7, DestroyImKeeps
<1>8. ASSUME NEW ok \in BOOLEAN, SentAnswered(ok) PROVE ImInv'
  BY <1>8, SentAnsweredKeeps
<1>9. CASE ImDisconnected
  BY <1>9, ImDisconnectedKeeps
<1>10. CASE UNCHANGED imVars
  BY <1>10, StutterKeeps
<1> QED BY <1>1, <1>2, <1>3, <1>4, <1>5, <1>6, <1>7, <1>8, <1>9, <1>10 DEF ImNext

(* One-to-one text is sound: no message is lost when its channel is closed    *)
(* over it, a contact has one channel and is answered where it spoke, each    *)
(* message sent is answered once and in order, the nickname is told once and  *)
(* only to those who do not see us, and nobody we hide from hears that we are *)
(* here (im-factory.c, im-channel.c, message-util.c).                         *)
THEOREM ImIsSound == ImSpec => []ImSound
<1>1. ImInit => ImInv
  BY InitIsFine
<1>2. ImInv /\ [ImNext]_imVars => ImInv'
  BY StepKeeps
<1>3. ImInv => ImSound
  BY InvariantMeansSound
<1> QED BY <1>1, <1>2, <1>3, PTL DEF ImSpec
=============================================================================
