---------------------------- MODULE RosterProofs ----------------------------
(* The invariant EditsTracked of Roster for any contacts, groups and names,   *)
(* whatever users, the server and contacts do, and however often.             *)
EXTENDS Roster, SequenceTheorems, FiniteSetTheorems, TLAPS

EditSet == [there : BOOLEAN, create : BOOLEAN, sub : {"none", "remove", "invalid"},
            type : Types \cup {"invalid"}, name : Names \cup {NoName, "same"},
            add : SUBSET Groups, drop : SUBSET Groups, only : BOOLEAN, results : SUBSET Nat]
ItemSet == [there : BOOLEAN, sub : Subscriptions, ask : BOOLEAN, type : Types,
            name : Names \cup {NoName}, groups : SUBSET Groups, inFlight : BOOLEAN, edit : EditSet,
            subscribe : States, publish : States, stored : BOOLEAN, blocked : BOOLEAN, flicker : BOOLEAN]
Subscribed == {"none", "from", "to", "both"}
ContentSet(subs) == [sub : subs, ask : BOOLEAN, type : Types, name : Names \cup {NoName}, groups : SUBSET Groups]
EntrySet == [there : BOOLEAN, sub : Subscribed, ask : BOOLEAN, type : Types,
             name : Names \cup {NoName}, groups : SUBSET Groups, pending : BOOLEAN]
RequestSet == [kind : UserOps, contacts : SUBSET Contacts, group : Groups \cup {""}, todo : Nat,
               state : {"waiting", "idle", "done"}]

(* What goes to the server.  An edit that takes the item away says so.        *)
Negotiations == Presences \ {"available"}
SetStanzas == [kind : {"set"}, c : Contacts,
               data : [sub : Subscriptions, type : Types, name : Names \cup {NoName}, groups : SUBSET Groups],
               edit : EditSet]
Upward == {m \in SetStanzas : m.data.sub = "remove" => m.edit.sub = "remove"}
          \cup [kind : {"presence"}, c : Contacts, type : Negotiations]

(* What comes from it.                                                        *)
Downward == [kind : {"push"}, c : Contacts, data : ContentSet(Subscribed \cup {"remove"})]
            \cup [kind : {"answer"}, c : Contacts, edit : EditSet]
            \cup [kind : {"presence"}, c : Contacts, type : Presences]
            \cup [kind : {"roster"}, items : UNION {[D -> ContentSet(Subscribed)] : D \in SUBSET Contacts}]

-----------------------------------------------------------------------------
(* The inductive invariant.                                                   *)

Typed ==
  /\ env \in Environments
  /\ item \in [Contacts -> ItemSet]
  /\ received \in BOOLEAN /\ answered \in BOOLEAN /\ crashed \in BOOLEAN
  /\ preAuth \subseteq Contacts
  /\ req \in Seq(RequestSet)
  /\ server \in [Contacts -> EntrySet]
  /\ toServer \in Seq(Upward)
  /\ toClient \in Seq(Downward)

(* The server has no subscription to keep for a contact that it has not.      *)
Rostered(e) == ~e.there => e.sub = "none" /\ ~e.ask

(* Among the stanzas q there is none of kind k about c, or m and no other.    *)
NoneOf(q, k, c) == \A i \in 1..Len(q) : ~(q[i].kind = k /\ q[i].c = c)
OneOf(q, k, c, m) ==
  \E i \in 1..Len(q) : /\ q[i] = m /\ m.kind = k /\ m.c = c
                       /\ \A j \in 1..Len(q) : q[j].kind = k /\ q[j].c = c => j = i

(* The edits F of c are in flight: none, or one on its way to the server or   *)
(* with its answer on the way back.                                           *)
Flies(up, down, c, flying, F) ==
  \/ ~flying /\ F = {} /\ NoneOf(up, "set", c) /\ NoneOf(down, "answer", c)
  \/ flying /\ NoneOf(down, "answer", c) /\ \E m : OneOf(up, "set", c, m) /\ F = {m.edit}
  \/ flying /\ NoneOf(up, "set", c) /\ \E m : OneOf(down, "answer", c, m) /\ F = {m.edit}
Flying(up, down, c) ==
  {m.edit : m \in {x \in Range(up) : x.kind = "set" /\ x.c = c}
                  \cup {x \in Range(down) : x.kind = "answer" /\ x.c = c}}

(* The item it of a contact whose edits F are in flight, when the roster has  *)
(* been received or not and there were n requests.                            *)
Kept(it, F, ready, n) ==
  /\ ~it.there => it = NoItem
  /\ ~it.edit.there => it.edit = NoEdit
  /\ it.edit.there => it.inFlight \/ ~ready
  /\ it.inFlight => ready
  /\ it.edit.results \subseteq 1..n
  /\ \A e \in F : e.results \subseteq 1..n /\ e.results \cap it.edit.results = {}

(* Who holds a request: H[c] are the requests that the edits of c carry.      *)
Carried(F) == UNION {e.results : e \in F}
HoldersOf(r, H) == {c \in Contacts : r \in H[c]}
Exact(rs, H) ==
  \A r \in 1..Len(rs) : /\ rs[r].todo = Cardinality(HoldersOf(r, H))
                        /\ rs[r].state = "waiting" <=> HoldersOf(r, H) # {}

(* Where nobody else removes contacts and pushes come first, the server says  *)
(* that an item is gone only before it answers the edit that removed it.      *)
Calm(e) == e.pushFirst /\ "delete" \notin e.events
Gone(m, c) == m.kind = "push" /\ m.c = c /\ m.data.sub = "remove"
Removes(m, c) == m.kind = "answer" /\ m.c = c /\ m.edit.sub = "remove"
Warned(down, c) ==
  \A i \in 1..Len(down) : Gone(down[i], c) => \E j \in 1..Len(down) : i < j /\ Removes(down[j], c)
Peaceful(it, F) == it.sub # "invalid" /\ \A e \in F : e.sub = "invalid" => it.sub # "remove"

(* The requests that the edits of a contact carry.                            *)
Held(it, F) == it.edit.results \cup Carried(F)
HeldBy(items, F) == [d \in Contacts |-> Held(items[d], F[d])]

Sound(F) ==
  /\ Typed
  /\ \A c \in Contacts : Rostered(server[c]) /\ item[c].groups \subseteq groups
  /\ \A c \in Contacts : /\ Flies(toServer, toClient, c, item[c].inFlight, F[c])
                         /\ Kept(item[c], F[c], received, Len(req))
  /\ Exact(req, HeldBy(item, F))
  /\ Calm(env) => ~crashed /\ \A c \in Contacts : Warned(toClient, c) /\ Peaceful(item[c], F[c])

RosterInv == Sound([c \in Contacts |-> Flying(toServer, toClient, c)])

-----------------------------------------------------------------------------
(* Stanzas.                                                                   *)

LEMMA Appended ==
  ASSUME NEW S, NEW q \in Seq(S), NEW s \in Seq(S)
  PROVE  /\ q \o s \in Seq(S) /\ Len(q \o s) = Len(q) + Len(s) /\ Len(q) \in Nat /\ Len(s) \in Nat
         /\ \A i \in 1..Len(q) : (q \o s)[i] = q[i]
         /\ \A i \in 1..Len(s) : Len(q) + i \in 1..Len(q \o s) /\ (q \o s)[Len(q) + i] = s[i]
         /\ \A i \in 1..Len(q \o s) : i \in 1..Len(q) \/ \E j \in 1..Len(s) : i = Len(q) + j
<1>1. Len(q) \in Nat /\ Len(s) \in Nat
  BY LenProperties
<1>2. /\ q \o s \in Seq(S) /\ Len(q \o s) = Len(q) + Len(s)
      /\ \A i \in 1..(Len(q) + Len(s)) : (q \o s)[i] = IF i <= Len(q) THEN q[i] ELSE s[i - Len(q)]
  BY ConcatProperties
<1>3. \A i \in 1..Len(q) : (q \o s)[i] = q[i]
  BY <1>1, <1>2
<1>4. \A i \in 1..Len(s) : Len(q) + i \in 1..Len(q \o s) /\ (q \o s)[Len(q) + i] = s[i]
  <2> SUFFICES ASSUME NEW i \in 1..Len(s)
               PROVE  Len(q) + i \in 1..Len(q \o s) /\ (q \o s)[Len(q) + i] = s[i]
    OBVIOUS
  <2>1. Len(q) + i \in 1..(Len(q) + Len(s)) /\ ~(Len(q) + i <= Len(q)) /\ (Len(q) + i) - Len(q) = i
    BY <1>1
  <2> QED BY <1>2, <2>1
<1>5. ASSUME NEW i \in 1..Len(q \o s), i \notin 1..Len(q) PROVE \E j \in 1..Len(s) : i = Len(q) + j
  <2>1. i - Len(q) \in 1..Len(s) /\ i = Len(q) + (i - Len(q))
    BY <1>1, <1>2, <1>5
  <2> QED BY <2>1
<1> QED BY <1>1, <1>2, <1>3, <1>4, <1>5

(* More stanzas, none of them of kind k about c, or the first such stanza.    *)
LEMMA AppendNone ==
  ASSUME NEW S, NEW q \in Seq(S), NEW s \in Seq(S), NEW k, NEW c, NoneOf(s, k, c)
  PROVE  /\ NoneOf(q, k, c) => NoneOf(q \o s, k, c)
         /\ \A m : OneOf(q, k, c, m) => OneOf(q \o s, k, c, m)
<1>1. PICK t : t = q \o s
  OBVIOUS
<1>2. /\ Len(t) = Len(q) + Len(s) /\ Len(q) \in Nat /\ Len(s) \in Nat
      /\ \A i \in 1..Len(q) : t[i] = q[i]
      /\ \A i \in 1..Len(s) : t[Len(q) + i] = s[i]
      /\ \A i \in 1..Len(t) : i \in 1..Len(q) \/ \E j \in 1..Len(s) : i = Len(q) + j
  BY <1>1, Appended
<1>3. ASSUME NoneOf(q, k, c) PROVE NoneOf(t, k, c)
  BY <1>2, <1>3 DEF NoneOf
<1>4. ASSUME NEW m, OneOf(q, k, c, m) PROVE OneOf(t, k, c, m)
  <2>1. PICK i \in 1..Len(q) : /\ q[i] = m /\ m.kind = k /\ m.c = c
                               /\ \A j \in 1..Len(q) : q[j].kind = k /\ q[j].c = c => j = i
    BY <1>4 DEF OneOf
  <2>2. i \in 1..Len(t) /\ t[i] = m
    BY <1>2, <2>1
  <2>3. ASSUME NEW j \in 1..Len(t), t[j].kind = k, t[j].c = c PROVE j = i
    BY <1>2, <2>1, <2>3 DEF NoneOf
  <2> QED BY <2>1, <2>2, <2>3 DEF OneOf
<1> QED BY <1>1, <1>3, <1>4

LEMMA AppendOne ==
  ASSUME NEW S, NEW q \in Seq(S), NEW s \in Seq(S), NEW k, NEW c, NEW m, NoneOf(q, k, c), OneOf(s, k, c, m)
  PROVE  OneOf(q \o s, k, c, m)
<1>1. PICK t : t = q \o s
  OBVIOUS
<1>2. /\ Len(t) = Len(q) + Len(s) /\ Len(q) \in Nat /\ Len(s) \in Nat
      /\ \A i \in 1..Len(q) : t[i] = q[i]
      /\ \A i \in 1..Len(s) : Len(q) + i \in 1..Len(t) /\ t[Len(q) + i] = s[i]
      /\ \A i \in 1..Len(t) : i \in 1..Len(q) \/ \E j \in 1..Len(s) : i = Len(q) + j
  BY <1>1, Appended
<1>3. PICK i \in 1..Len(s) : /\ s[i] = m /\ m.kind = k /\ m.c = c
                             /\ \A j \in 1..Len(s) : s[j].kind = k /\ s[j].c = c => j = i
  BY DEF OneOf
<1>4. Len(q) + i \in 1..Len(t) /\ t[Len(q) + i] = m
  BY <1>2, <1>3
<1>5. ASSUME NEW j \in 1..Len(t), t[j].kind = k, t[j].c = c PROVE j = Len(q) + i
  <2>1. j \notin 1..Len(q)
    BY <1>2, <1>5 DEF NoneOf
  <2>2. PICK l \in 1..Len(s) : j = Len(q) + l
    BY <1>2, <2>1
  <2>3. l = i
    BY <1>2, <1>3, <1>5, <2>2
  <2> QED BY <2>2, <2>3
<1>6. OneOf(t, k, c, m)
  BY <1>3, <1>4, <1>5 DEF OneOf
<1> QED BY <1>1, <1>6

(* The first stanza is taken.                                                 *)
LEMMA Taken ==
  ASSUME NEW S, NEW q \in Seq(S), q # <<>>
  PROVE  /\ Tail(q) \in Seq(S) /\ Head(q) \in S /\ Head(q) = q[1] /\ Len(q) \in Nat /\ 1 \in 1..Len(q)
         /\ Len(Tail(q)) = Len(q) - 1
         /\ \A i \in 1..Len(Tail(q)) : i + 1 \in 1..Len(q) /\ Tail(q)[i] = q[i + 1]
<1>1. /\ Len(q) \in Nat /\ Len(q) > 0 /\ Tail(q) \in Seq(S) /\ Head(q) \in S /\ Head(q) = q[1]
      /\ Len(Tail(q)) = Len(q) - 1
  BY HeadTailProperties, EmptySeq, LenProperties
<1>2. ASSUME NEW i \in 1..Len(Tail(q)) PROVE i + 1 \in 1..Len(q) /\ Tail(q)[i] = q[i + 1]
  BY <1>1
<1> QED BY <1>1, <1>2

LEMMA TailNone ==
  ASSUME NEW S, NEW q \in Seq(S), q # <<>>, NEW k, NEW c
  PROVE  /\ NoneOf(q, k, c) => NoneOf(Tail(q), k, c)
         /\ ~(Head(q).kind = k /\ Head(q).c = c) => \A m : OneOf(q, k, c, m) => OneOf(Tail(q), k, c, m)
         /\ Head(q).kind = k /\ Head(q).c = c => \A m : OneOf(q, k, c, m) => m = Head(q) /\ NoneOf(Tail(q), k, c)
<1>1. PICK t, h : t = Tail(q) /\ h = Head(q)
  OBVIOUS
<1>2. /\ h = q[1] /\ Len(q) \in Nat /\ 1 \in 1..Len(q) /\ Len(t) = Len(q) - 1
      /\ \A i \in 1..Len(t) : i + 1 \in 1..Len(q) /\ t[i] = q[i + 1]
  BY <1>1, Taken
<1>3. ASSUME NoneOf(q, k, c) PROVE NoneOf(t, k, c)
  BY <1>2, <1>3 DEF NoneOf
<1>4. ASSUME NEW m, OneOf(q, k, c, m)
      PROVE  /\ ~(h.kind = k /\ h.c = c) => OneOf(t, k, c, m)
             /\ h.kind = k /\ h.c = c => m = h /\ NoneOf(t, k, c)
  <2>1. PICK i \in 1..Len(q) : /\ q[i] = m /\ m.kind = k /\ m.c = c
                               /\ \A j \in 1..Len(q) : q[j].kind = k /\ q[j].c = c => j = i
    BY <1>4 DEF OneOf
  <2>2. CASE h.kind = k /\ h.c = c
    <3>1. i = 1
      BY <1>2, <2>1, <2>2
    <3>2. NoneOf(t, k, c)
      <4> SUFFICES ASSUME NEW j \in 1..Len(t), t[j].kind = k, t[j].c = c PROVE FALSE
        BY DEF NoneOf
      <4>1. j + 1 \in 1..Len(q) /\ q[j + 1].kind = k /\ q[j + 1].c = c
        BY <1>2
      <4>2. j + 1 = 1
        BY <2>1, <3>1, <4>1
      <4> QED BY <1>2, <4>2
    <3> QED BY <1>2, <2>1, <2>2, <3>1, <3>2
  <2>3. CASE ~(h.kind = k /\ h.c = c)
    <3>1. i # 1
      BY <1>2, <2>1, <2>3
    <3>2. i - 1 \in 1..Len(t) /\ (i - 1) + 1 = i
      BY <1>2, <3>1
    <3>3. t[i - 1] = m
      BY <1>2, <2>1, <3>2
    <3>4. ASSUME NEW j \in 1..Len(t), t[j].kind = k, t[j].c = c PROVE j = i - 1
      <4>1. j + 1 = i
        BY <1>2, <2>1, <3>4
      <4> QED BY <1>2, <4>1
    <3>5. OneOf(t, k, c, m)
      BY <2>1, <3>2, <3>3, <3>4 DEF OneOf
    <3> QED BY <2>3, <3>5
  <2> QED BY <2>2, <2>3
<1> QED BY <1>1, <1>3, <1>4

(* Nothing of kind k about c comes or goes.                                   *)
Steady(q, q2, k, c) == (NoneOf(q, k, c) => NoneOf(q2, k, c)) /\ \A m : OneOf(q, k, c, m) => OneOf(q2, k, c, m)

LEMMA FliesOn ==
  ASSUME NEW up, NEW down, NEW up2, NEW down2, NEW c, NEW flying, NEW F, Flies(up, down, c, flying, F),
         Steady(up, up2, "set", c), Steady(down, down2, "answer", c)
  PROVE  Flies(up2, down2, c, flying, F)
<1>1. CASE ~flying /\ F = {} /\ NoneOf(up, "set", c) /\ NoneOf(down, "answer", c)
  BY <1>1 DEF Flies, Steady
<1>2. CASE flying /\ NoneOf(down, "answer", c) /\ \E m : OneOf(up, "set", c, m) /\ F = {m.edit}
  BY <1>2 DEF Flies, Steady
<1>3. CASE flying /\ NoneOf(up, "set", c) /\ \E m : OneOf(down, "answer", c, m) /\ F = {m.edit}
  BY <1>3 DEF Flies, Steady
<1> QED BY <1>1, <1>2, <1>3 DEF Flies

LEMMA EditsOfNone ==
  ASSUME NEW S, NEW q \in Seq(S), NEW k, NEW c, NoneOf(q, k, c)
  PROVE  {x \in Range(q) : x.kind = k /\ x.c = c} = {}
<1>1. DOMAIN q = 1..Len(q)
  BY LenProperties
<1> QED BY <1>1 DEF NoneOf, Range

LEMMA EditsOfOne ==
  ASSUME NEW S, NEW q \in Seq(S), NEW k, NEW c, NEW m, OneOf(q, k, c, m)
  PROVE  {x \in Range(q) : x.kind = k /\ x.c = c} = {m}
<1>1. DOMAIN q = 1..Len(q)
  BY LenProperties
<1> QED BY <1>1 DEF OneOf, Range

LEMMA FliesIs ==
  ASSUME NEW up \in Seq(Upward), NEW down \in Seq(Downward), NEW c, NEW flying, NEW F, Flies(up, down, c, flying, F)
  PROVE  Flying(up, down, c) = F
<1>1. CASE ~flying /\ F = {} /\ NoneOf(up, "set", c) /\ NoneOf(down, "answer", c)
  <2>1. {x \in Range(up) : x.kind = "set" /\ x.c = c} = {} /\ {x \in Range(down) : x.kind = "answer" /\ x.c = c} = {}
    BY <1>1, EditsOfNone
  <2> QED BY <1>1, <2>1 DEF Flying
<1>2. CASE flying /\ NoneOf(down, "answer", c) /\ \E m : OneOf(up, "set", c, m) /\ F = {m.edit}
  <2>1. PICK m : OneOf(up, "set", c, m) /\ F = {m.edit}
    BY <1>2
  <2>2. {x \in Range(up) : x.kind = "set" /\ x.c = c} = {m}
    BY <2>1, EditsOfOne
  <2>3. {x \in Range(down) : x.kind = "answer" /\ x.c = c} = {}
    BY <1>2, EditsOfNone
  <2> QED BY <2>1, <2>2, <2>3 DEF Flying
<1>3. CASE flying /\ NoneOf(up, "set", c) /\ \E m : OneOf(down, "answer", c, m) /\ F = {m.edit}
  <2>1. PICK m : OneOf(down, "answer", c, m) /\ F = {m.edit}
    BY <1>3
  <2>2. {x \in Range(down) : x.kind = "answer" /\ x.c = c} = {m}
    BY <2>1, EditsOfOne
  <2>3. {x \in Range(up) : x.kind = "set" /\ x.c = c} = {}
    BY <1>3, EditsOfNone
  <2> QED BY <2>1, <2>2, <2>3 DEF Flying
<1> QED BY <1>1, <1>2, <1>3 DEF Flies

LEMMA WarnedAppend ==
  ASSUME NEW S, NEW q \in Seq(S), NEW s \in Seq(S), NEW c, Warned(q, c), Warned(s, c)
  PROVE  Warned(q \o s, c)
<1>1. PICK t : t = q \o s
  OBVIOUS
<1>2. /\ Len(t) = Len(q) + Len(s) /\ Len(q) \in Nat /\ Len(s) \in Nat
      /\ \A i \in 1..Len(q) : t[i] = q[i]
      /\ \A i \in 1..Len(s) : Len(q) + i \in 1..Len(t) /\ t[Len(q) + i] = s[i]
      /\ \A i \in 1..Len(t) : i \in 1..Len(q) \/ \E j \in 1..Len(s) : i = Len(q) + j
  BY <1>1, Appended
<1>3. ASSUME NEW i \in 1..Len(t), Gone(t[i], c) PROVE \E j \in 1..Len(t) : i < j /\ Removes(t[j], c)
  <2>1. CASE i \in 1..Len(q)
    <3>1. PICK j \in 1..Len(q) : i < j /\ Removes(q[j], c)
      BY <1>2, <1>3, <2>1 DEF Warned
    <3>2. j \in 1..Len(t) /\ t[j] = q[j]
      BY <1>2
    <3> QED BY <3>1, <3>2
  <2>2. CASE i \notin 1..Len(q)
    <3>1. PICK l \in 1..Len(s) : i = Len(q) + l
      BY <1>2, <2>2
    <3>2. Gone(s[l], c)
      BY <1>2, <1>3, <3>1
    <3>3. PICK j \in 1..Len(s) : l < j /\ Removes(s[j], c)
      BY <3>2 DEF Warned
    <3>4. Len(q) + j \in 1..Len(t) /\ t[Len(q) + j] = s[j] /\ i < Len(q) + j
      BY <1>2, <3>1, <3>3
    <3> QED BY <3>3, <3>4
  <2> QED BY <2>1, <2>2
<1> QED BY <1>1, <1>3 DEF Warned

LEMMA WarnedTail ==
  ASSUME NEW S, NEW q \in Seq(S), q # <<>>, NEW c, Warned(q, c)
  PROVE  Warned(Tail(q), c)
<1>1. PICK t : t = Tail(q)
  OBVIOUS
<1>2. /\ Len(q) \in Nat /\ 1 \in 1..Len(q) /\ Len(t) = Len(q) - 1
      /\ \A i \in 1..Len(t) : i + 1 \in 1..Len(q) /\ t[i] = q[i + 1]
  BY <1>1, Taken
<1>3. ASSUME NEW i \in 1..Len(t), Gone(t[i], c) PROVE \E j \in 1..Len(t) : i < j /\ Removes(t[j], c)
  <2>1. PICK j \in 1..Len(q) : i + 1 < j /\ Removes(q[j], c)
    BY <1>2, <1>3 DEF Warned
  <2>2. j - 1 \in 1..Len(t) /\ i < j - 1 /\ (j - 1) + 1 = j
    BY <1>2, <2>1
  <2>3. t[j - 1] = q[j]
    BY <1>2, <2>2
  <2> QED BY <2>1, <2>2, <2>3
<1> QED BY <1>1, <1>3 DEF Warned

(* While no answer to a removal is on its way no item goes.                   *)
LEMMA NoneGone ==
  ASSUME NEW q, NEW c, Warned(q, c), NoneOf(q, "answer", c) \/ \E m : OneOf(q, "answer", c, m) /\ m.edit.sub # "remove"
  PROVE  \A i \in 1..Len(q) : ~Gone(q[i], c)
<1>1. CASE NoneOf(q, "answer", c)
  BY <1>1 DEF Warned, NoneOf, Removes
<1>2. ASSUME NEW m, OneOf(q, "answer", c, m), m.edit.sub # "remove" PROVE \A i \in 1..Len(q) : ~Gone(q[i], c)
  BY <1>2 DEF Warned, OneOf, Removes
<1> QED BY <1>1, <1>2

LEMMA FiniteRange ==
  ASSUME NEW S, IsFiniteSet(S), NEW f, f = [x \in S |-> f[x]]
  PROVE  IsFiniteSet(Range(f))
<1>1. DOMAIN f = S /\ f \in [S -> Range(f)] /\ \A y \in Range(f) : \E x \in S : f[x] = y
  BY DEF Range
<1>2. f \in Surjection(S, Range(f))
  BY <1>1 DEF Surjection
<1> QED BY <1>2, FS_Surjection

(* What is sent contact by contact holds each contact's edit once.            *)
LEMMA InTurn ==
  ASSUME NEW cs \in SUBSET Contacts, NEW sent \in [cs -> Seq(Upward)], NEW s \in SentInTurn(sent),
         \A c \in cs : \A k \in 1..Len(sent[c]) : sent[c][k].c = c
  PROVE  /\ s \in Seq(Upward)
         /\ \A c \in Contacts \ cs : NoneOf(s, "set", c)
         /\ \A c \in cs : NoneOf(sent[c], "set", c) => NoneOf(s, "set", c)
         /\ \A c \in cs : \A m : OneOf(sent[c], "set", c, m) => OneOf(s, "set", c, m)
<1>1. PICK R : R = [c \in cs |-> Range(sent[c])]
  OBVIOUS
<1>2. PICK U : U = UNION {Range(sent[c]) : c \in cs}
  OBVIOUS
<1>3. \A c \in cs : /\ IsFiniteSet(Range(sent[c])) /\ Range(sent[c]) \subseteq Upward
                    /\ Range(sent[c]) = {sent[c][k] : k \in 1..Len(sent[c])}
  <2> SUFFICES ASSUME NEW c \in cs
               PROVE  /\ IsFiniteSet(Range(sent[c])) /\ Range(sent[c]) \subseteq Upward
                      /\ Range(sent[c]) = {sent[c][k] : k \in 1..Len(sent[c])}
    OBVIOUS
  <2>1. PICK x : x = sent[c]
    OBVIOUS
  <2>2. x \in Seq(Upward) /\ DOMAIN x = 1..Len(x) /\ Len(x) \in Nat
    BY <2>1, LenProperties
  <2>3. x \in [1..Len(x) -> Upward]
    BY <2>2
  <2>4. IsFiniteSet(1..Len(x))
    BY <2>2, FS_Interval
  <2>5. Range(x) = {x[k] : k \in 1..Len(x)} /\ Range(x) \subseteq Upward
    BY <2>2, <2>3 DEF Range
  <2>6. IsFiniteSet(Range(x))
    BY <2>3, <2>4, FiniteRange
  <2> QED BY <2>1, <2>5, <2>6
<1>4. IsFiniteSet(U)
  <2>1. IsFiniteSet(cs)
    BY ConstantsAssumption, FS_Subset
  <2>2. IsFiniteSet(Range(R))
    BY <1>1, <2>1, FiniteRange
  <2>3. Range(R) = {Range(sent[c]) : c \in cs}
    BY <1>1 DEF Range
  <2>4. IsFiniteSet({Range(sent[c]) : c \in cs})
    BY <2>2, <2>3
  <2> QED BY <1>2, <1>3, <2>4, FS_UNION
<1>5. Cardinality(U) \in Nat
  BY <1>4, FS_CardinalityType
<1>6. /\ s \in [1..Cardinality(U) -> U] /\ \A i, j \in 1..Cardinality(U) : s[i] = s[j] => i = j
      /\ \A c \in cs : \E i \in 0 .. (Len(s) - Len(sent[c])) : \A k \in 1 .. Len(sent[c]) : s[i + k] = sent[c][k]
  <2>1. DOMAIN sent = cs
    OBVIOUS
  <2> QED BY <1>2, <2>1 DEF SentInTurn, SetToSeqs, IsInjective
<1>7. s \in Seq(U) /\ Len(s) = Cardinality(U)
  BY <1>5, <1>6, SeqDef
<1>8. ASSUME NEW i \in 1..Len(s)
      PROVE  \E c \in cs : \E k \in 1..Len(sent[c]) : s[i] = sent[c][k] /\ s[i].c = c
  <2>1. s[i] \in U
    BY <1>5, <1>6, <1>7, <1>8
  <2>2. PICK c \in cs : s[i] \in Range(sent[c])
    BY <1>2, <2>1
  <2>3. PICK k \in 1..Len(sent[c]) : s[i] = sent[c][k]
    BY <1>3, <2>2
  <2> QED BY <2>2, <2>3
<1>9. U \subseteq Upward
  BY <1>2, <1>3
<1>10. s \in Seq(Upward)
  BY <1>7, <1>9
<1>11. \A c \in Contacts \ cs : NoneOf(s, "set", c)
  BY <1>8 DEF NoneOf
<1>12. ASSUME NEW c \in cs, NoneOf(sent[c], "set", c) PROVE NoneOf(s, "set", c)
  BY <1>8, <1>12 DEF NoneOf
<1>13. ASSUME NEW c \in cs, NEW m, OneOf(sent[c], "set", c, m) PROVE OneOf(s, "set", c, m)
  <2>1. PICK k \in 1..Len(sent[c]) : /\ sent[c][k] = m /\ m.kind = "set" /\ m.c = c
                                     /\ \A j \in 1..Len(sent[c]) : sent[c][j].kind = "set" /\ sent[c][j].c = c => j = k
    BY <1>13 DEF OneOf
  <2>2. PICK i \in 0 .. (Len(s) - Len(sent[c])) : \A l \in 1 .. Len(sent[c]) : s[i + l] = sent[c][l]
    BY <1>6
  <2>3. Len(sent[c]) \in Nat /\ Len(s) \in Nat
    BY <1>5, <1>7, LenProperties
  <2>4. i + k \in 1..Len(s) /\ s[i + k] = m
    BY <2>1, <2>2, <2>3
  <2>5. ASSUME NEW j \in 1..Len(s), s[j].kind = "set", s[j].c = c PROVE j = i + k
    <3>1. PICK d \in cs : \E l \in 1..Len(sent[d]) : s[j] = sent[d][l] /\ s[j].c = d
      BY <1>8
    <3>2. PICK l \in 1..Len(sent[c]) : s[j] = sent[c][l]
      BY <2>5, <3>1
    <3>3. s[j] = m
      BY <2>1, <2>5, <3>2
    <3> QED BY <1>6, <1>7, <2>4, <3>3
  <2> QED BY <2>1, <2>4, <2>5 DEF OneOf
<1> QED BY <1>10, <1>11, <1>12, <1>13

-----------------------------------------------------------------------------
(* Requests.                                                                  *)

(* Exact, before a request that nobody holds has become idle.                 *)
Counted(rs, H) ==
  \A r \in 1..Len(rs) : /\ rs[r].todo = Cardinality(HoldersOf(r, H))
                        /\ rs[r].state # "waiting" => HoldersOf(r, H) = {}

LEMMA ExactIsCounted == ASSUME NEW rs, NEW H, Exact(rs, H) PROVE Counted(rs, H)
BY DEF Exact, Counted

LEMMA FewHolders == ASSUME NEW r, NEW H PROVE IsFiniteSet(HoldersOf(r, H)) /\ Cardinality(HoldersOf(r, H)) \in Nat
<1>1. HoldersOf(r, H) \in SUBSET Contacts
  BY DEF HoldersOf
<1>2. IsFiniteSet(HoldersOf(r, H))
  BY <1>1, ConstantsAssumption, FS_Subset
<1> QED BY <1>2, FS_CardinalityType

LEMMA CountedDown ==
  ASSUME NEW rs \in Seq(RequestSet), NEW H \in [Contacts -> SUBSET Nat], NEW freed \in [Contacts -> SUBSET Nat],
         \A c \in Contacts : freed[c] \subseteq H[c], Counted(rs, H),
         NEW H2, H2 = [c \in Contacts |-> H[c] \ freed[c]],
         NEW rs2, rs2 = Countdown(rs, freed)
  PROVE  rs2 \in Seq(RequestSet) /\ Len(rs2) = Len(rs) /\ Exact(rs2, H2)
<1>1. DOMAIN rs = 1..Len(rs) /\ Len(rs) \in Nat /\ \A r \in 1..Len(rs) : rs[r] \in RequestSet
  BY LenProperties, ElementOfSeq
<1>2. DOMAIN rs2 = 1..Len(rs)
  BY <1>1 DEF Countdown
<1>3. ASSUME NEW r \in 1..Len(rs)
      PROVE  /\ rs2[r] \in RequestSet /\ rs2[r].todo = Cardinality(HoldersOf(r, H2))
             /\ rs2[r].state = "waiting" <=> HoldersOf(r, H2) # {}
  <2>1. PICK S, T : S = HoldersOf(r, H) /\ T = {c \in Contacts : r \in freed[c]}
    OBVIOUS
  <2>2. T \subseteq S /\ HoldersOf(r, H2) = S \ T
    BY <2>1 DEF HoldersOf
  <2>3. IsFiniteSet(S) /\ Cardinality(S) \in Nat
    BY <2>1, FewHolders
  <2>4. IsFiniteSet(S \ T) /\ Cardinality(S \ T) = Cardinality(S) - Cardinality(S \cap T)
    BY <2>3, FS_Difference
  <2>5. S \cap T = T
    BY <2>2
  <2>6. Cardinality(S \ T) \in Nat
    BY <2>4, FS_CardinalityType
  <2>7. Cardinality(S \ T) = 0 <=> S \ T = {}
    BY <2>4, FS_EmptySet
  <2>8. PICK n : n = rs[r].todo - Cardinality(T)
    OBVIOUS
  <2>9. rs2[r] = [rs[r] EXCEPT !.todo = n, !.state = IF n = 0 /\ @ = "waiting" THEN "idle" ELSE @]
    BY <1>1, <1>3, <2>1, <2>8 DEF Countdown
  <2>10. n = Cardinality(S \ T) /\ n \in Nat /\ (rs[r].state # "waiting" => S = {})
    BY <1>3, <2>1, <2>4, <2>5, <2>6, <2>8 DEF Counted
  <2>11. /\ rs2[r] \in RequestSet /\ rs2[r].todo = n
         /\ rs2[r].state = IF n = 0 /\ rs[r].state = "waiting" THEN "idle" ELSE rs[r].state
    BY <1>1, <2>9, <2>10 DEF RequestSet
  <2>12. rs2[r].state = "waiting" <=> S \ T # {}
    BY <2>7, <2>10, <2>11
  <2> QED BY <2>2, <2>10, <2>11, <2>12
<1>4. rs2 = [r \in 1..Len(rs) |-> rs2[r]]
  BY <1>1 DEF Countdown
<1>5. rs2 \in Seq(RequestSet) /\ Len(rs2) = Len(rs)
  <2>1. rs2 \in [1..Len(rs) -> RequestSet]
    BY <1>3, <1>4
  <2> QED BY <1>1, <1>2, <2>1
<1> QED BY <1>3, <1>5 DEF Exact

(* A request more, that the contacts cs hold.                                 *)
LEMMA OneMoreRequest ==
  ASSUME NEW rs \in Seq(RequestSet), NEW H \in [Contacts -> SUBSET Nat], Exact(rs, H),
         \A c \in Contacts : H[c] \subseteq 1..Len(rs),
         NEW q \in RequestSet, NEW cs \in SUBSET Contacts, q.todo = Cardinality(cs), q.state = "waiting",
         NEW H2, H2 = [c \in Contacts |-> IF c \in cs THEN H[c] \cup {Len(rs) + 1} ELSE H[c]]
  PROVE  Append(rs, q) \in Seq(RequestSet) /\ Len(Append(rs, q)) = Len(rs) + 1 /\ Counted(Append(rs, q), H2)
<1>1. PICK rs2 : rs2 = Append(rs, q)
  OBVIOUS
<1>2. /\ rs2 \in Seq(RequestSet) /\ Len(rs2) = Len(rs) + 1 /\ Len(rs) \in Nat
      /\ \A i \in 1..Len(rs) : rs2[i] = rs[i]
      /\ rs2[Len(rs) + 1] = q
  BY <1>1, AppendProperties, LenProperties
<1>3. ASSUME NEW r \in 1..Len(rs2)
      PROVE  rs2[r].todo = Cardinality(HoldersOf(r, H2)) /\ (rs2[r].state # "waiting" => HoldersOf(r, H2) = {})
  <2>1. CASE r \in 1..Len(rs)
    <3>1. r # Len(rs) + 1
      BY <1>2, <2>1
    <3>2. HoldersOf(r, H2) = HoldersOf(r, H)
      BY <3>1 DEF HoldersOf
    <3> QED BY <1>2, <2>1, <3>2 DEF Exact
  <2>2. CASE r = Len(rs) + 1
    <3>1. r \notin 1..Len(rs)
      BY <1>2, <2>2
    <3>2. HoldersOf(r, H2) = cs
      BY <2>2, <3>1 DEF HoldersOf
    <3> QED BY <1>2, <2>2, <3>2
  <2> QED BY <1>2, <2>1, <2>2
<1> QED BY <1>1, <1>2, <1>3 DEF Counted

-----------------------------------------------------------------------------
(* A batch of edits is applied.                                               *)

LEMMA NothingTyped == NoEdit \in EditSet /\ NoItem \in ItemSet /\ NoItem.edit = NoEdit
<1>1. NoEdit \in EditSet
  BY DEF NoEdit, EditSet
<1>2. NoItem.edit = NoEdit
  BY DEF NoItem
<1>3. NoItem \in ItemSet
  <2> HIDE DEF NoEdit
  <2> QED BY <1>1 DEF NoItem, ItemSet, Subscriptions, States, Types
<1> QED BY <1>1, <1>2, <1>3

PresencesTo(c) == [kind : {"presence"}, c : {c}, type : Negotiations]

LEMMA PresencesSent ==
  ASSUME NEW c \in Contacts, NEW s \in Seq(PresencesTo(c))
  PROVE  /\ s \in Seq(Upward) /\ \A k \in 1..Len(s) : s[k].c = c
         /\ \A d : NoneOf(s, "set", d)
<1>1. PresencesTo(c) \subseteq Upward
  BY DEF PresencesTo, Upward
<1>2. \A k \in 1..Len(s) : s[k] \in PresencesTo(c)
  BY ElementOfSeq
<1>3. \A k \in 1..Len(s) : s[k].c = c /\ s[k].kind = "presence"
  BY <1>2 DEF PresencesTo
<1>4. s \in Seq(Upward)
  BY <1>1
<1> QED BY <1>3, <1>4 DEF NoneOf

LEMMA Cancelled ==
  ASSUME NEW c \in Contacts, NEW it
  PROVE  CancelSubscriptions(c, it) \in Seq(PresencesTo(c)) /\ <<>> \in Seq(PresencesTo(c))
<1>1. PICK a, b : /\ a = (IF it.sub \in {"from", "both"} THEN <<[kind |-> "presence", c |-> c, type |-> "unsubscribed"]>> ELSE <<>>)
                  /\ b = (IF it.sub \in {"to", "both"} THEN <<[kind |-> "presence", c |-> c, type |-> "unsubscribe"]>> ELSE <<>>)
  OBVIOUS
<1>2. /\ [kind |-> "presence", c |-> c, type |-> "unsubscribed"] \in PresencesTo(c)
      /\ [kind |-> "presence", c |-> c, type |-> "unsubscribe"] \in PresencesTo(c)
  BY DEF PresencesTo, Negotiations, Presences
<1>3. \A x \in PresencesTo(c) : <<x>> \in Seq(PresencesTo(c))
  OBVIOUS
<1>4. a \in Seq(PresencesTo(c)) /\ b \in Seq(PresencesTo(c)) /\ <<>> \in Seq(PresencesTo(c))
  BY <1>1, <1>2, <1>3, EmptySeq
<1>5. a \o b \in Seq(PresencesTo(c))
  BY <1>4, ConcatProperties
<1> QED BY <1>1, <1>4, <1>5 DEF CancelSubscriptions

(* What Apply may make of the item it.                                        *)
Outcome(ready, c, it, r) ==
  /\ r.it \in ItemSet /\ r.it.there = it.there /\ r.it.sub = it.sub /\ r.it.groups = it.groups
  /\ r.sent \in Seq(Upward) /\ \A k \in 1..Len(r.sent) : r.sent[k].c = c
  /\ \/ /\ HeldBack(ready, it) /\ r.it = it /\ NoneOf(r.sent, "set", c) /\ r.freed = {} /\ r.fails = FALSE
     \/ /\ ~HeldBack(ready, it) /\ r.it.edit = NoEdit /\ r.it.inFlight = it.inFlight
        /\ NoneOf(r.sent, "set", c) /\ r.freed = it.edit.results /\ r.fails = FALSE
     \/ /\ ~HeldBack(ready, it) /\ r.it.edit = NoEdit /\ r.it.inFlight /\ r.freed = {}
        /\ r.fails \in BOOLEAN /\ (r.fails => it.sub = "invalid")
        /\ \E m : /\ OneOf(r.sent, "set", c, m) /\ m.edit \in EditSet /\ m.edit.results = it.edit.results
                  /\ m.edit.sub = "invalid" => it.sub # "remove"

LEMMA LastIsOne ==
  ASSUME NEW S, NEW s \in Seq(S), NEW m \in S, NEW c, NoneOf(s, "set", c), m.kind = "set", m.c = c
  PROVE  s \o <<m>> \in Seq(S) /\ OneOf(s \o <<m>>, "set", c, m)
<1>1. PICK t : t = <<m>>
  OBVIOUS
<1>2. t \in Seq(S) /\ Len(t) = 1 /\ t[1] = m
  BY <1>1
<1>3. OneOf(t, "set", c, m)
  <2>1. 1 \in 1..Len(t) /\ \A j \in 1..Len(t) : j = 1
    BY <1>2
  <2> QED BY <1>2, <2>1 DEF OneOf
<1> QED BY <1>1, <1>2, <1>3, AppendOne, ConcatProperties

LEMMA Applies ==
  ASSUME NEW ready \in BOOLEAN, NEW c \in Contacts, NEW it \in ItemSet, NEW r, r = Apply(ready, c, it)
  PROVE  Outcome(ready, c, it, r)
<1>1. PICK e : e = it.edit
  OBVIOUS
<1>2. e \in EditSet /\ it.sub \in Subscriptions
  BY <1>1 DEF ItemSet
<1>3. PICK edited : edited = Edited(it, e)
  OBVIOUS
<1>4. /\ edited \in [sub : Subscriptions, type : Types, name : Names \cup {NoName}, groups : SUBSET Groups]
      /\ (edited.sub = it.sub /\ (e.sub = "invalid" \/ e.sub = "remove")) \/ (edited.sub = e.sub /\ e.sub # "invalid")
  <2>1. PICK type, keeps : /\ type = IF e.type = "invalid" THEN it.type ELSE e.type
                           /\ keeps = (e.sub = "invalid" \/ (e.sub = "remove" /\ type = "blocked"))
    OBVIOUS
  <2>2. PICK name, gs, sub : /\ name = (IF e.name = "same" THEN it.name ELSE e.name)
                             /\ gs = ((IF e.only THEN {} ELSE it.groups) \cup e.add) \ e.drop
                             /\ sub = IF keeps THEN it.sub ELSE e.sub
    OBVIOUS
  <2>3. edited = [sub |-> sub, type |-> type, name |-> name, groups |-> gs]
    BY <1>3, <2>1, <2>2 DEF Edited
  <2>4. type \in Types
    BY <1>2, <2>1 DEF ItemSet, EditSet
  <2>5. name \in Names \cup {NoName} /\ gs \in SUBSET Groups
    BY <1>2, <2>2 DEF ItemSet, EditSet
  <2>6. sub \in Subscriptions
    BY <1>2, <2>2 DEF EditSet, Subscriptions
  <2>7. edited \in [sub : Subscriptions, type : Types, name : Names \cup {NoName}, groups : SUBSET Groups]
    BY <2>3, <2>4, <2>5, <2>6
  <2>8. edited.sub = sub
    BY <2>3
  <2> QED BY <2>1, <2>2, <2>7, <2>8
<1>5. PICK creates, data, cancels, idle :
        /\ creates = (e.sub # "remove" /\ edited.sub = "remove")
        /\ data = IF creates THEN [edited EXCEPT !.sub = "none"] ELSE edited
        /\ cancels = IF e.sub = "remove" /\ it.sub # "remove" /\ edited.type = "blocked"
                     THEN CancelSubscriptions(c, it) ELSE <<>>
        /\ idle = [it EXCEPT !.edit = NoEdit]
  OBVIOUS
<1>6. PICK e2 : e2 = IF creates THEN [e EXCEPT !.sub = "none"] ELSE e
  OBVIOUS
<1>7. PICK m : m = [kind |-> "set", c |-> c, data |-> data, edit |-> e2]
  OBVIOUS
<1>8. r = IF HeldBack(ready, it) THEN [it |-> it, sent |-> <<>>, freed |-> {}, fails |-> FALSE]
          ELSE IF ~Altered(it, e, edited) THEN [it |-> idle, sent |-> cancels, freed |-> e.results, fails |-> FALSE]
          ELSE [it |-> [idle EXCEPT !.inFlight = TRUE], sent |-> cancels \o <<m>>, freed |-> {}, fails |-> data.sub = "invalid"]
  BY <1>1, <1>3, <1>5, <1>6, <1>7 DEF Apply
<1>9. idle \in ItemSet /\ idle.there = it.there /\ idle.sub = it.sub /\ idle.groups = it.groups
      /\ idle.edit = NoEdit /\ idle.inFlight = it.inFlight
  BY <1>5, NothingTyped DEF ItemSet
<1>10. cancels \in Seq(PresencesTo(c)) /\ <<>> \in Seq(PresencesTo(c))
  BY <1>5, Cancelled
<1>11. /\ cancels \in Seq(Upward) /\ (\A k \in 1..Len(cancels) : cancels[k].c = c) /\ NoneOf(cancels, "set", c)
       /\ <<>> \in Seq(Upward) /\ NoneOf(<<>>, "set", c)
  BY <1>10, PresencesSent
<1>12. CASE HeldBack(ready, it)
  <2>1. r.it = it /\ r.sent = <<>> /\ r.freed = {} /\ r.fails = FALSE
    BY <1>8, <1>12
  <2> QED BY <1>11, <1>12, <2>1 DEF Outcome
<1>13. CASE ~HeldBack(ready, it) /\ ~Altered(it, e, edited)
  <2>1. r.it = idle /\ r.sent = cancels /\ r.freed = e.results /\ r.fails = FALSE
    BY <1>8, <1>13
  <2> QED BY <1>1, <1>9, <1>11, <1>13, <2>1 DEF Outcome
<1>14. CASE ~HeldBack(ready, it) /\ Altered(it, e, edited)
  <2>1. PICK it2, s : it2 = [idle EXCEPT !.inFlight = TRUE] /\ s = cancels \o <<m>>
    OBVIOUS
  <2>2. r.it = it2 /\ r.sent = s /\ r.freed = {} /\ r.fails = (data.sub = "invalid")
    BY <1>8, <1>14, <2>1
  <2>3. it2 \in ItemSet /\ it2.there = it.there /\ it2.sub = it.sub /\ it2.groups = it.groups
        /\ it2.edit = NoEdit /\ it2.inFlight
    BY <1>9, <2>1 DEF ItemSet
  <2>4. e2 \in EditSet /\ e2.results = e.results /\ (e2.sub = IF creates THEN "none" ELSE e.sub)
    BY <1>2, <1>6 DEF EditSet
  <2>5. /\ data \in [sub : Subscriptions, type : Types, name : Names \cup {NoName}, groups : SUBSET Groups]
        /\ (data.sub = IF creates THEN "none" ELSE edited.sub)
    BY <1>4, <1>5 DEF Subscriptions
  <2>6. m \in SetStanzas /\ m.kind = "set" /\ m.c = c /\ m.edit = e2 /\ m.data = data
    BY <1>7, <2>4, <2>5 DEF SetStanzas
  <2>7. data.sub = "remove" => e2.sub = "remove"
    BY <1>5, <2>4, <2>5
  <2>8. m \in Upward
    BY <2>6, <2>7 DEF Upward
  <2>9. s \in Seq(Upward) /\ OneOf(s, "set", c, m)
    BY <1>11, <2>1, <2>6, <2>8, LastIsOne
  <2>10. \A k \in 1..Len(s) : s[k].c = c
    <3>1. /\ Len(s) = Len(cancels) + Len(<<m>>) /\ \A i \in 1..Len(cancels) : s[i] = cancels[i]
          /\ \A i \in 1..Len(<<m>>) : s[Len(cancels) + i] = <<m>>[i]
          /\ \A i \in 1..Len(s) : i \in 1..Len(cancels) \/ \E j \in 1..Len(<<m>>) : i = Len(cancels) + j
      <4>1. <<m>> \in Seq(Upward)
        BY <2>8
      <4> QED BY <1>11, <2>1, <4>1, Appended
    <3>2. Len(<<m>>) = 1 /\ <<m>>[1] = m
      OBVIOUS
    <3>3. \A j \in 1..Len(<<m>>) : <<m>>[j].c = c
      BY <2>6, <3>2
    <3> QED BY <1>11, <3>1, <3>3
  <2>11. data.sub = "invalid" => it.sub = "invalid"
    BY <1>4, <2>5
  <2>12. e2.sub = "invalid" => it.sub # "remove"
    BY <1>4, <1>5, <2>4
  <2>13. (data.sub = "invalid") \in BOOLEAN
    OBVIOUS
  <2>14. \E x : /\ OneOf(s, "set", c, x) /\ x.edit \in EditSet /\ x.edit.results = it.edit.results
                /\ x.edit.sub = "invalid" => it.sub # "remove"
    BY <1>1, <2>4, <2>6, <2>9, <2>12
  <2> QED BY <1>14, <2>2, <2>3, <2>9, <2>10, <2>11, <2>13, <2>14 DEF Outcome
<1> QED BY <1>12, <1>13, <1>14

-----------------------------------------------------------------------------
(* Together.                                                                  *)

LEMMA Together == ASSUME NEW F, Sound(F)' PROVE RosterInv'
<1>1. PICK G : G = [c \in Contacts |-> Flying(toServer', toClient', c)]
  OBVIOUS
<1>2. \A c \in Contacts : G[c] = F[c]
  <2> SUFFICES ASSUME NEW c \in Contacts PROVE Flying(toServer', toClient', c) = F[c]
    BY <1>1
  <2>1. toServer' \in Seq(Upward) /\ toClient' \in Seq(Downward)
    BY DEF Sound, Typed
  <2>2. Flies(toServer', toClient', c, item'[c].inFlight, F[c])
    BY DEF Sound
  <2> QED BY <2>1, <2>2, FliesIs
<1>3. HeldBy(item', F) = HeldBy(item', G)
  BY <1>2 DEF HeldBy
<1>4. Sound(G)'
  BY <1>2, <1>3 DEF Sound
<1> QED BY <1>1, <1>4 DEF RosterInv

(* The requests that edits carry are some of those that were made.            *)
LEMMA HeldInRange ==
  ASSUME NEW F, Sound(F)
  PROVE  /\ Len(req) \in Nat
         /\ \A c \in Contacts : Held(item[c], F[c]) \subseteq 1..Len(req)
         /\ HeldBy(item, F) \in [Contacts -> SUBSET Nat]
<1>1. Len(req) \in Nat
  BY LenProperties DEF Sound, Typed
<1>2. ASSUME NEW c \in Contacts PROVE Held(item[c], F[c]) \subseteq 1..Len(req)
  <2>1. Kept(item[c], F[c], received, Len(req))
    BY DEF Sound
  <2> QED BY <2>1 DEF Kept, Held, Carried
<1>3. \A c \in Contacts : Held(item[c], F[c]) \in SUBSET Nat
  BY <1>1, <1>2
<1> QED BY <1>1, <1>2, <1>3 DEF HeldBy

LEMMA KeptOn ==
  ASSUME NEW it, NEW F, NEW ready, NEW n \in Nat, Kept(it, F, ready, n), NEW n2 \in Nat, n <= n2,
         NEW it2, it2.edit = it.edit, it2.inFlight = it.inFlight, ~it2.there => it2 = NoItem
  PROVE  Kept(it2, F, ready, n2)
<1>1. 1..n \subseteq 1..n2
  OBVIOUS
<1> QED BY <1>1 DEF Kept

(* An item that is not being edited goes.                                     *)
LEMMA KeptGone ==
  ASSUME NEW F, NEW ready, NEW n, F = {}
  PROVE  Kept(NoItem, F, ready, n) /\ NoItem.inFlight = FALSE /\ NoItem.groups = {} /\ NoItem.sub = "remove"
         /\ NoItem.edit.results = {}
BY DEF Kept, NoItem, NoEdit

LEMMA StutterKeeps == ASSUME NEW F, Sound(F), UNCHANGED vars PROVE Sound(F)'
BY DEF Sound, Typed, vars

LEMMA InvHasParts == ASSUME RosterInv PROVE \E F : Sound(F)
BY DEF RosterInv

LEMMA Starts == Init => RosterInv
<1> SUFFICES ASSUME Init PROVE RosterInv
  OBVIOUS
<1>1. /\ env \in Environments /\ item = [c \in Contacts |-> NoItem] /\ received = FALSE /\ groups = {}
      /\ preAuth = {} /\ req = <<>> /\ toServer = <<>> /\ toClient = <<>> /\ answered = FALSE /\ crashed = FALSE
  BY DEF Init
<1>2. /\ req \in Seq(RequestSet) /\ toServer \in Seq(Upward) /\ toClient \in Seq(Downward)
      /\ Len(req) = 0 /\ Len(toServer) = 0 /\ Len(toClient) = 0
  BY <1>1
<1>3. env.subs \subseteq {"none", "from", "to", "both", "remove"}
  BY <1>1, ConstantsAssumption DEF Environment
<1>4. NoEntry \in EntrySet /\ Rostered(NoEntry)
  BY DEF NoEntry, EntrySet, Subscribed, Types, Rostered
<1>5. \A sub \in {"none", "from", "to", "both", "remove"} : Entry(sub) \in EntrySet /\ Rostered(Entry(sub))
  BY DEF Entry, NoEntry, EntrySet, Subscribed, Types, Rostered
<1>6. \A x \in {Entry(sub) : sub \in env.subs} \cup {NoEntry} : x \in EntrySet /\ Rostered(x)
  BY <1>3, <1>4, <1>5
<1>7. server \in [Contacts -> EntrySet] /\ \A c \in Contacts : Rostered(server[c])
  <2>1. server \in [Contacts -> {Entry(sub) : sub \in env.subs} \cup {NoEntry}]
    BY DEF Init
  <2>2. PICK E : E = {Entry(sub) : sub \in env.subs} \cup {NoEntry}
    OBVIOUS
  <2>3. server \in [Contacts -> E] /\ \A x \in E : x \in EntrySet /\ Rostered(x)
    BY <1>6, <2>1, <2>2
  <2> QED BY <2>3
<1>8. Typed
  BY <1>1, <1>2, <1>7, NothingTyped DEF Typed
<1>9. ASSUME NEW c \in Contacts
      PROVE  Flying(toServer, toClient, c) = {} /\ Flies(toServer, toClient, c, FALSE, {})
  <2>1. NoneOf(toServer, "set", c) /\ NoneOf(toClient, "answer", c)
    BY <1>2 DEF NoneOf
  <2>2. Flies(toServer, toClient, c, FALSE, {})
    BY <2>1 DEF Flies
  <2> QED BY <1>2, <2>2, FliesIs
<1>10. PICK F : F = [c \in Contacts |-> Flying(toServer, toClient, c)]
  OBVIOUS
<1>11. ASSUME NEW c \in Contacts
       PROVE  /\ item[c].groups \subseteq groups /\ Flies(toServer, toClient, c, item[c].inFlight, F[c])
              /\ Kept(item[c], F[c], received, Len(req)) /\ Warned(toClient, c) /\ Peaceful(item[c], F[c])
  <2>1. F[c] = {} /\ item[c] = NoItem
    BY <1>1, <1>9, <1>10
  <2>2. Warned(toClient, c)
    BY <1>2 DEF Warned
  <2>3. Peaceful(item[c], F[c])
    BY <2>1, KeptGone DEF Peaceful
  <2>4. Kept(item[c], F[c], received, Len(req)) /\ item[c].groups \subseteq groups /\ item[c].inFlight = FALSE
    BY <2>1, KeptGone
  <2> QED BY <1>9, <2>1, <2>2, <2>3, <2>4
<1>12. Exact(req, HeldBy(item, F))
  BY <1>2 DEF Exact
<1>13. Sound(F)
  BY <1>1, <1>7, <1>8, <1>11, <1>12 DEF Sound
<1> QED BY <1>10, <1>13 DEF RosterInv

-----------------------------------------------------------------------------
(* What the invariant implies.                                                *)

LEMMA CountNone ==
  ASSUME NEW S, NEW q \in Seq(S), NEW k, NEW c, NoneOf(q, k, c)
  PROVE  Cardinality({i \in DOMAIN q : q[i].kind = k /\ q[i].c = c}) = 0
<1>1. DOMAIN q = 1..Len(q)
  BY LenProperties
<1>2. {i \in DOMAIN q : q[i].kind = k /\ q[i].c = c} = {}
  BY <1>1 DEF NoneOf
<1> QED BY <1>2, FS_EmptySet

LEMMA CountOne ==
  ASSUME NEW S, NEW q \in Seq(S), NEW k, NEW c, NEW m, OneOf(q, k, c, m)
  PROVE  Cardinality({i \in DOMAIN q : q[i].kind = k /\ q[i].c = c}) = 1
<1>1. DOMAIN q = 1..Len(q)
  BY LenProperties
<1>2. PICK i \in 1..Len(q) : /\ q[i] = m /\ m.kind = k /\ m.c = c
                             /\ \A j \in 1..Len(q) : q[j].kind = k /\ q[j].c = c => j = i
  BY DEF OneOf
<1>3. {j \in DOMAIN q : q[j].kind = k /\ q[j].c = c} = {i}
  BY <1>1, <1>2
<1>4. Cardinality({i}) = 1
  BY FS_Singleton
<1> QED BY <1>3, <1>4

LEMMA InvTracks == RosterInv => EditsTracked
<1> SUFFICES ASSUME RosterInv PROVE EditsTracked
  OBVIOUS
<1>1. PICK F : F = [c \in Contacts |-> Flying(toServer, toClient, c)]
  OBVIOUS
<1>2. Sound(F)
  BY <1>1 DEF RosterInv
<1>3. \A c \in Contacts : F[c] = InFlight(c)
  BY <1>1 DEF Flying, InFlight
<1>4. /\ Typed /\ Exact(req, HeldBy(item, F))
      /\ \A c \in Contacts : /\ item[c].groups \subseteq groups
                             /\ Flies(toServer, toClient, c, item[c].inFlight, F[c])
                             /\ Kept(item[c], F[c], received, Len(req))
      /\ (Calm(env) => ~crashed)
  BY <1>2 DEF Sound
<1>5. DOMAIN req = 1..Len(req) /\ \A r \in 1..Len(req) : req[r] \in RequestSet
  BY <1>4, LenProperties, ElementOfSeq DEF Typed
<1>6. TypeOK
  <2>1. PICK I : I = [there : BOOLEAN, sub : Subscriptions, ask : BOOLEAN, type : Types,
        name : Names \cup {NoName}, groups : SUBSET Groups, inFlight : BOOLEAN,
        edit : [there : BOOLEAN, create : BOOLEAN, sub : {"none", "remove", "invalid"},
                type : Types \cup {"invalid"}, name : Names \cup {NoName, "same"},
                add : SUBSET Groups, drop : SUBSET Groups, only : BOOLEAN,
                results : SUBSET DOMAIN req],
        subscribe : States, publish : States, stored : BOOLEAN, blocked : BOOLEAN,
        flicker : BOOLEAN]
    OBVIOUS
  <2>2. ASSUME NEW c \in Contacts PROVE item[c] \in I
    <3>1. PICK it, e : it = item[c] /\ e = it.edit
      OBVIOUS
    <3>2. it \in ItemSet /\ e \in EditSet
      BY <1>4, <3>1 DEF Typed, ItemSet
    <3>3. e.results \subseteq DOMAIN req
      BY <1>4, <1>5, <3>1 DEF Kept
    <3>4. e \in [there : BOOLEAN, create : BOOLEAN, sub : {"none", "remove", "invalid"},
                type : Types \cup {"invalid"}, name : Names \cup {NoName, "same"},
                add : SUBSET Groups, drop : SUBSET Groups, only : BOOLEAN,
                results : SUBSET DOMAIN req]
      BY <3>2, <3>3 DEF EditSet
    <3> QED BY <2>1, <3>1, <3>2, <3>4 DEF ItemSet
  <2>3. item \in [Contacts -> I]
    BY <1>4, <2>2 DEF Typed
  <2>4. received \in BOOLEAN /\ preAuth \subseteq Contacts
    BY <1>4 DEF Typed
  <2>5. \A r \in DOMAIN req : req[r].todo \in Nat /\ req[r].state \in {"waiting", "idle", "done"}
    BY <1>5 DEF RequestSet
  <2> QED BY <2>1, <2>3, <2>4, <2>5 DEF TypeOK
<1>7. OneInFlight
  <2> SUFFICES ASSUME NEW c \in Contacts
               PROVE  Cardinality({i \in DOMAIN toServer : toServer[i].kind = "set" /\ toServer[i].c = c})
                        + Cardinality({i \in DOMAIN toClient : toClient[i].kind = "answer" /\ toClient[i].c = c})
                      = IF item[c].inFlight THEN 1 ELSE 0
    BY DEF OneInFlight
  <2>1. PICK a, b : /\ a = Cardinality({i \in DOMAIN toServer : toServer[i].kind = "set" /\ toServer[i].c = c})
                    /\ b = Cardinality({i \in DOMAIN toClient : toClient[i].kind = "answer" /\ toClient[i].c = c})
    OBVIOUS
  <2>2. toServer \in Seq(Upward) /\ toClient \in Seq(Downward)
    BY <1>4 DEF Typed
  <2>3. NoneOf(toServer, "set", c) => a = 0
    BY <2>1, <2>2, CountNone
  <2>4. NoneOf(toClient, "answer", c) => b = 0
    BY <2>1, <2>2, CountNone
  <2>5. \A m : OneOf(toServer, "set", c, m) => a = 1
    BY <2>1, <2>2, CountOne
  <2>6. \A m : OneOf(toClient, "answer", c, m) => b = 1
    BY <2>1, <2>2, CountOne
  <2>7. \/ ~item[c].inFlight /\ a = 0 /\ b = 0
        \/ item[c].inFlight /\ a = 1 /\ b = 0
        \/ item[c].inFlight /\ a = 0 /\ b = 1
    BY <1>4, <2>3, <2>4, <2>5, <2>6 DEF Flies
  <2>8. a + b = IF item[c].inFlight THEN 1 ELSE 0
    BY <2>7
  <2> QED BY <2>1, <2>8
<1>8. NobodyWaitsForNothing
  BY <1>4 DEF Kept, NobodyWaitsForNothing
<1>9. CountdownExact
  <2> SUFFICES ASSUME NEW r \in DOMAIN req
               PROVE  LET holders == {c \in Contacts : r \in item[c].edit.results \/ \E e \in InFlight(c) : r \in e.results}
                      IN  /\ req[r].todo = Cardinality(holders)
                          /\ req[r].state = "waiting" <=> holders # {}
    BY DEF CountdownExact
  <2>1. PICK H : H = HeldBy(item, F)
    OBVIOUS
  <2>2. {c \in Contacts : r \in item[c].edit.results \/ \E e \in InFlight(c) : r \in e.results} = HoldersOf(r, H)
    BY <1>3, <2>1 DEF HoldersOf, Held, Carried, HeldBy
  <2>3. /\ req[r].todo = Cardinality(HoldersOf(r, H))
        /\ req[r].state = "waiting" <=> HoldersOf(r, H) # {}
    BY <1>4, <1>5, <2>1 DEF Exact
  <2> QED BY <2>2, <2>3
<1>10. GroupsKnown
  BY <1>4 DEF GroupsKnown
<1>11. NoCrash
  BY <1>4 DEF NoCrash, Calm
<1> QED BY <1>6, <1>7, <1>8, <1>9, <1>10, <1>11 DEF EditsTracked

-----------------------------------------------------------------------------
(* The server and the contacts.                                               *)

LEMMA SteadyAppend ==
  ASSUME NEW S, NEW q \in Seq(S), NEW s \in Seq(S), NEW k, NEW c, NoneOf(s, k, c)
  PROVE  Steady(q, q \o s, k, c)
BY AppendNone DEF Steady

LEMMA SteadyTail ==
  ASSUME NEW S, NEW q \in Seq(S), q # <<>>, NEW k, NEW c, ~(Head(q).kind = k /\ Head(q).c = c)
  PROVE  Steady(q, Tail(q), k, c)
BY TailNone DEF Steady

LEMMA ServerMoves ==
  ASSUME NEW F, Sound(F), UNCHANGED <<env, item, received, groups, preAuth, req, crashed>>,
         answered' \in BOOLEAN, server' \in [Contacts -> EntrySet], \A c \in Contacts : Rostered(server'[c]),
         toServer' \in Seq(Upward), toClient' \in Seq(Downward),
         \A c \in Contacts : Flies(toServer', toClient', c, item[c].inFlight, F[c]),
         Calm(env) => \A c \in Contacts : Warned(toClient', c)
  PROVE  Sound(F)'
<1>1. Typed'
  BY DEF Sound, Typed
<1> QED BY <1>1 DEF Sound

(* The server sends s and t, which answer no edit.                            *)
LEMMA Delivers ==
  ASSUME NEW F, Sound(F), UNCHANGED <<env, item, received, groups, preAuth, req, crashed>>,
         answered' \in BOOLEAN, server' \in [Contacts -> EntrySet], \A c \in Contacts : Rostered(server'[c]),
         toServer' \in Seq(Upward), \A c \in Contacts : Steady(toServer, toServer', "set", c),
         NEW s \in Seq(Downward), NEW t \in Seq(Downward), toClient' = toClient \o s \o t,
         \A c \in Contacts : NoneOf(s, "answer", c) /\ NoneOf(t, "answer", c),
         Calm(env) => \A c \in Contacts : Warned(s, c) /\ Warned(t, c)
  PROVE  Sound(F)'
<1>1. toClient \in Seq(Downward)
  BY DEF Sound, Typed
<1>2. toClient \o s \in Seq(Downward) /\ toClient' \in Seq(Downward)
  BY <1>1, ConcatProperties
<1>3. ASSUME NEW c \in Contacts PROVE Flies(toServer', toClient', c, item[c].inFlight, F[c])
  <2>1. Steady(toClient, toClient \o s, "answer", c) /\ Steady(toClient \o s, toClient', "answer", c)
    BY <1>1, <1>2, SteadyAppend
  <2>2. Steady(toClient, toClient', "answer", c)
    BY <2>1 DEF Steady
  <2>3. Flies(toServer, toClient, c, item[c].inFlight, F[c])
    BY DEF Sound
  <2> QED BY <2>2, <2>3, FliesOn
<1>4. ASSUME Calm(env), NEW c \in Contacts PROVE Warned(toClient', c)
  <2>1. Warned(toClient, c)
    BY <1>4 DEF Sound
  <2>2. Warned(toClient \o s, c)
    BY <1>1, <1>4, <2>1, WarnedAppend
  <2> QED BY <1>2, <1>4, <2>2, WarnedAppend
<1> QED BY <1>2, <1>3, <1>4, ServerMoves

LEMMA OneStanza ==
  ASSUME NEW m \in Downward
  PROVE  /\ <<m>> \in Seq(Downward)
         /\ m.kind # "answer" => \A d : NoneOf(<<m>>, "answer", d)
         /\ ~(m.kind = "push" /\ m.data.sub = "remove") => \A d : Warned(<<m>>, d)
<1>1. PICK s : s = <<m>>
  OBVIOUS
<1>2. s \in Seq(Downward) /\ Len(s) = 1 /\ s[1] = m
  BY <1>1
<1>3. \A i \in 1..Len(s) : s[i] = m
  BY <1>2
<1>4. m.kind # "answer" => \A d : NoneOf(s, "answer", d)
  BY <1>3 DEF NoneOf
<1>5. ~(m.kind = "push" /\ m.data.sub = "remove") => \A d : Warned(s, d)
  BY <1>3 DEF Warned, Gone
<1> QED BY <1>1, <1>2, <1>4, <1>5

LEMMA NoStanza == <<>> \in Seq(Downward) /\ \A d : NoneOf(<<>>, "answer", d) /\ Warned(<<>>, d)
<1>1. PICK s : s = <<>>
  OBVIOUS
<1>2. s \in Seq(Downward) /\ Len(s) = 0
  BY <1>1
<1>3. \A d : NoneOf(s, "answer", d) /\ Warned(s, d)
  BY <1>2 DEF NoneOf, Warned
<1> QED BY <1>1, <1>2, <1>3

LEMMA ContentTyped ==
  ASSUME NEW e \in EntrySet
  PROVE  /\ Content(e) \in ContentSet(Subscribed \cup {"remove"})
         /\ e.there => Content(e) \in ContentSet(Subscribed) /\ Content(e).sub # "remove"
<1>1. Content(e) = [sub |-> IF e.there THEN e.sub ELSE "remove", ask |-> e.ask, type |-> e.type, name |-> e.name, groups |-> e.groups]
  BY DEF Content
<1> QED BY <1>1 DEF ContentSet, EntrySet, Subscribed

LEMMA Pushed ==
  ASSUME NEW c \in Contacts, NEW e \in EntrySet
  PROVE  /\ Push(c, e) \in Seq(Downward) /\ \A d : NoneOf(Push(c, e), "answer", d)
         /\ e.there => \A d : Warned(Push(c, e), d)
<1>1. PICK m : m = [kind |-> "push", c |-> c, data |-> Content(e)]
  OBVIOUS
<1>2. m \in Downward /\ m.kind = "push" /\ m.data = Content(e)
  BY <1>1, ContentTyped DEF Downward
<1>3. Push(c, e) = <<m>> \/ Push(c, e) = <<>>
  BY <1>1 DEF Push
<1> QED BY <1>2, <1>3, OneStanza, NoStanza, ContentTyped

LEMMA RevokedTyped ==
  ASSUME NEW sub \in Subscribed, NEW to \in BOOLEAN
  PROVE  Revoked(sub, to) \in Subscribed /\ Granted(sub, to) \in Subscribed /\ Revoked("none", to) = "none"
BY DEF Revoked, Granted, Subscribed

LEMMA OutboundTyped ==
  ASSUME NEW e \in EntrySet, Rostered(e), NEW t \in Negotiations, NEW new, new = Outbound(e, t)
  PROVE  new \in EntrySet /\ Rostered(new) /\ (Content(new) # Content(e) => new.there)
<1>1. e.sub \in Subscribed
  BY DEF EntrySet
<1>2. PICK rt, rf, gf : rt = Revoked(e.sub, TRUE) /\ rf = Revoked(e.sub, FALSE) /\ gf = Granted(e.sub, FALSE)
  OBVIOUS
<1>3. rt \in Subscribed /\ rf \in Subscribed /\ gf \in Subscribed /\ (e.sub = "none" => rt = "none" /\ rf = "none")
  BY <1>1, <1>2, RevokedTyped
<1>4. CASE t = "subscribe"
  <2>1. new = IF e.sub \in {"to", "both"} THEN e ELSE [e EXCEPT !.there = TRUE, !.ask = TRUE]
    BY <1>4 DEF Outbound
  <2>2. CASE e.sub \in {"to", "both"}
    BY <2>1, <2>2
  <2>3. CASE e.sub \notin {"to", "both"}
    <3>1. new = [e EXCEPT !.there = TRUE, !.ask = TRUE]
      BY <2>1, <2>3
    <3>2. new \in EntrySet /\ new.there = TRUE
      BY <3>1 DEF EntrySet
    <3> QED BY <3>2 DEF Rostered
  <2> QED BY <2>2, <2>3
<1>5. CASE t = "unsubscribe"
  <2>1. new = [e EXCEPT !.ask = FALSE, !.sub = rt]
    BY <1>2, <1>5 DEF Outbound
  <2>2. /\ new \in EntrySet /\ new.there = e.there /\ new.sub = rt /\ new.ask = FALSE
        /\ new.type = e.type /\ new.name = e.name /\ new.groups = e.groups
    BY <1>3, <2>1 DEF EntrySet
  <2>3. Rostered(new)
    BY <1>3, <2>2 DEF Rostered
  <2>4. ~e.there => Content(new) = Content(e)
    <3>1. e.ask \in BOOLEAN
      BY DEF EntrySet
    <3>2. ~e.there => new.ask = e.ask
      BY <2>2, <3>1 DEF Rostered
    <3> QED BY <2>2, <3>2 DEF Content
  <2> QED BY <2>2, <2>3, <2>4
<1>6. CASE t = "subscribed"
  <2>1. new = IF e.pending THEN [e EXCEPT !.there = TRUE, !.pending = FALSE, !.sub = gf] ELSE e
    BY <1>2, <1>6 DEF Outbound
  <2> QED BY <1>3, <2>1 DEF EntrySet, Rostered
<1>7. CASE t = "unsubscribed"
  <2>1. new = [e EXCEPT !.pending = FALSE, !.sub = rf]
    BY <1>2, <1>7 DEF Outbound
  <2>2. /\ new \in EntrySet /\ new.there = e.there /\ new.sub = rf /\ new.ask = e.ask
        /\ new.type = e.type /\ new.name = e.name /\ new.groups = e.groups
    BY <1>3, <2>1 DEF EntrySet
  <2>3. Rostered(new)
    BY <1>3, <2>2 DEF Rostered
  <2>4. ~e.there => Content(new) = Content(e)
    BY <1>3, <2>2 DEF Content
  <2> QED BY <2>2, <2>3, <2>4
<1> QED BY <1>4, <1>5, <1>6, <1>7 DEF Negotiations, Presences

LEMMA InboundTyped ==
  ASSUME NEW e \in EntrySet, Rostered(e), NEW t \in Presences, NEW new, new = Inbound(e, t)
  PROVE  new \in EntrySet /\ Rostered(new) /\ (Content(new) # Content(e) => new.there)
<1>1. e.sub \in Subscribed
  BY DEF EntrySet
<1>2. PICK rt, rf, gt : rt = Revoked(e.sub, TRUE) /\ rf = Revoked(e.sub, FALSE) /\ gt = Granted(e.sub, TRUE)
  OBVIOUS
<1>3. rt \in Subscribed /\ rf \in Subscribed /\ gt \in Subscribed /\ (e.sub = "none" => rt = "none" /\ rf = "none")
  BY <1>1, <1>2, RevokedTyped
<1>4. CASE t = "subscribe"
  <2>1. new = IF e.sub \in {"from", "both"} THEN e ELSE [e EXCEPT !.pending = TRUE]
    BY <1>4 DEF Inbound
  <2>2. /\ new \in EntrySet /\ new.there = e.there /\ new.sub = e.sub /\ new.ask = e.ask
        /\ new.type = e.type /\ new.name = e.name /\ new.groups = e.groups
    BY <2>1 DEF EntrySet
  <2> QED BY <2>2 DEF Rostered, Content
<1>5. CASE t = "unsubscribe"
  <2>1. new = [e EXCEPT !.pending = FALSE, !.sub = rf]
    BY <1>2, <1>5 DEF Inbound
  <2>2. /\ new \in EntrySet /\ new.there = e.there /\ new.sub = rf /\ new.ask = e.ask
        /\ new.type = e.type /\ new.name = e.name /\ new.groups = e.groups
    BY <1>3, <2>1 DEF EntrySet
  <2>3. Rostered(new)
    BY <1>3, <2>2 DEF Rostered
  <2>4. ~e.there => Content(new) = Content(e)
    BY <1>3, <2>2 DEF Content
  <2> QED BY <2>2, <2>3, <2>4
<1>6. CASE t = "subscribed"
  <2>1. new = IF e.ask THEN [e EXCEPT !.ask = FALSE, !.sub = gt] ELSE e
    BY <1>2, <1>6 DEF Inbound
  <2>2. new \in EntrySet /\ (e.ask => e.there /\ new.there) /\ (~e.ask => new = e)
    BY <1>3, <2>1 DEF EntrySet, Rostered
  <2> QED BY <2>2 DEF Rostered
<1>7. CASE t = "unsubscribed"
  <2>1. new = [e EXCEPT !.ask = FALSE, !.sub = rt]
    BY <1>2, <1>7 DEF Inbound
  <2>2. /\ new \in EntrySet /\ new.there = e.there /\ new.sub = rt /\ new.ask = FALSE
        /\ new.type = e.type /\ new.name = e.name /\ new.groups = e.groups
    BY <1>3, <2>1 DEF EntrySet
  <2>3. Rostered(new)
    BY <1>3, <2>2 DEF Rostered
  <2>4. ~e.there => Content(new) = Content(e)
    <3>1. e.ask \in BOOLEAN
      BY DEF EntrySet
    <3>2. ~e.there => new.ask = e.ask
      BY <2>2, <3>1 DEF Rostered
    <3> QED BY <2>2, <3>2 DEF Content
  <2> QED BY <2>2, <2>3, <2>4
<1>8. CASE t = "available"
  <2>1. new = e
    BY <1>8 DEF Inbound
  <2> QED BY <2>1
<1> QED BY <1>4, <1>5, <1>6, <1>7, <1>8 DEF Presences

LEMMA ServerChanges ==
  ASSUME NEW F, Sound(F), NEW c \in Contacts, NEW e \in EntrySet, Rostered(e), server' = [server EXCEPT ![c] = e]
  PROVE  server' \in [Contacts -> EntrySet] /\ \A d \in Contacts : Rostered(server'[d])
<1>1. server \in [Contacts -> EntrySet] /\ \A d \in Contacts : Rostered(server[d])
  BY DEF Sound, Typed
<1> QED BY <1>1

LEMMA ServerKeeps == ASSUME NEW F, Sound(F) PROVE server \in [Contacts -> EntrySet] /\ (\A d \in Contacts : Rostered(server[d]))
                                                  /\ answered \in BOOLEAN /\ env \in Environments
                                                  /\ toServer \in Seq(Upward) /\ toClient \in Seq(Downward)
                                                  /\ \A d \in Contacts : Steady(toServer, toServer, "set", d)
BY DEF Sound, Typed, Steady

LEMMA Environs == ASSUME NEW e \in Environments PROVE e.contacts \subseteq Contacts /\ e.events \subseteq Events
BY ConstantsAssumption DEF Environment

LEMMA PlusNothing ==
  ASSUME NEW S, NEW q \in Seq(S), NEW s \in Seq(S)
  PROVE  q \o s = q \o s \o <<>> /\ q = q \o <<>> \o <<>>
<1>1. q \o s \in Seq(S)
  BY ConcatProperties
<1> QED BY <1>1, ConcatEmptySeq

LEMMA ContactSendsKeeps ==
  ASSUME NEW F, Sound(F), NEW c \in Contacts, NEW t \in Presences, ContactSends(c, t)
  PROVE  Sound(F)'
<1>1. PICK new, push, presence : /\ new = Inbound(server[c], t) /\ presence = <<Presence(c, t)>>
                                 /\ push = IF Content(new) # Content(server[c]) THEN Push(c, new) ELSE <<>>
  OBVIOUS
<1>2. /\ server' = [server EXCEPT ![c] = new]
      /\ toClient' = toClient \o presence \o push \/ toClient' = toClient \o push \o presence
      /\ UNCHANGED <<env, item, received, groups, preAuth, req, crashed>> /\ answered' = answered /\ toServer' = toServer
  BY <1>1 DEF ContactSends, Happens
<1>3. new \in EntrySet /\ Rostered(new) /\ (Content(new) # Content(server[c]) => new.there)
  BY <1>1, ServerKeeps, InboundTyped
<1>4. push \in Seq(Downward) /\ \A d : NoneOf(push, "answer", d) /\ Warned(push, d)
  BY <1>1, <1>3, Pushed, NoStanza
<1>5. Presence(c, t) \in Downward /\ Presence(c, t).kind = "presence"
  BY DEF Presence, Downward
<1>6. presence \in Seq(Downward) /\ \A d : NoneOf(presence, "answer", d) /\ Warned(presence, d)
  BY <1>1, <1>5, OneStanza
<1>7. server' \in [Contacts -> EntrySet] /\ \A d \in Contacts : Rostered(server'[d])
  BY <1>2, <1>3, ServerChanges
<1>8. answered' \in BOOLEAN /\ toServer' \in Seq(Upward) /\ \A d \in Contacts : Steady(toServer, toServer', "set", d)
  BY <1>2, ServerKeeps
<1>9. CASE toClient' = toClient \o presence \o push
  BY <1>2, <1>4, <1>6, <1>7, <1>8, <1>9, Delivers
<1>10. CASE toClient' = toClient \o push \o presence
  BY <1>2, <1>4, <1>6, <1>7, <1>8, <1>10, Delivers
<1> QED BY <1>2, <1>9, <1>10

LEMMA OtherResourceKeeps ==
  ASSUME NEW F, Sound(F), NEW c \in Contacts, NEW what \in {"edit", "hide", "delete"}, OtherResource(c, what)
  PROVE  Sound(F)'
<1>1. PICK e : e = server[c]
  OBVIOUS
<1>2. PICK new : new = (CASE what = "edit" -> [e EXCEPT !.there = TRUE, !.name = NoName]
                          [] what = "hide" -> [e EXCEPT !.there = TRUE, !.type = "hidden"]
                          [] what = "delete" -> [NoEntry EXCEPT !.pending = e.pending])
  OBVIOUS
<1>3. /\ server' = [server EXCEPT ![c] = new] /\ toClient' = toClient \o Push(c, new) /\ what \in env.events
      /\ UNCHANGED <<env, item, received, groups, preAuth, req, crashed>> /\ answered' = answered /\ toServer' = toServer
  BY <1>1, <1>2 DEF OtherResource, Happens
<1>4. e \in EntrySet /\ Rostered(e)
  BY <1>1, ServerKeeps
<1>5. new \in EntrySet /\ Rostered(new) /\ (what # "delete" => new.there)
  <2>1. CASE what = "edit"
    <3>1. new = [e EXCEPT !.there = TRUE, !.name = NoName]
      BY <1>2, <2>1
    <3> QED BY <1>4, <3>1 DEF EntrySet, Rostered
  <2>2. CASE what = "hide"
    <3>1. new = [e EXCEPT !.there = TRUE, !.type = "hidden"]
      BY <1>2, <2>2
    <3> QED BY <1>4, <3>1 DEF EntrySet, Rostered, Types
  <2>3. CASE what = "delete"
    <3>1. new = [NoEntry EXCEPT !.pending = e.pending]
      BY <1>2, <2>3
    <3> QED BY <1>4, <2>3, <3>1 DEF EntrySet, Rostered, Types, NoEntry, Subscribed
  <2> QED BY <2>1, <2>2, <2>3
<1>6. /\ Push(c, new) \in Seq(Downward) /\ \A d : NoneOf(Push(c, new), "answer", d)
      /\ Calm(env) => \A d : Warned(Push(c, new), d)
  <2>1. Calm(env) => new.there
    BY <1>3, <1>5 DEF Calm
  <2> QED BY <1>5, <2>1, Pushed
<1>7. server' \in [Contacts -> EntrySet] /\ \A d \in Contacts : Rostered(server'[d])
  BY <1>3, <1>5, ServerChanges
<1>8. /\ answered' \in BOOLEAN /\ toServer' \in Seq(Upward) /\ \A d \in Contacts : Steady(toServer, toServer', "set", d)
      /\ toClient \in Seq(Downward)
  BY <1>3, ServerKeeps
<1>9. toClient' = toClient \o Push(c, new) \o <<>>
  BY <1>3, <1>6, <1>8, PlusNothing
<1> QED BY <1>3, <1>6, <1>7, <1>8, <1>9, NoStanza, Delivers

LEMMA ServerFlickersKeeps == ASSUME NEW F, Sound(F), NEW c \in Contacts, ServerFlickers(c) PROVE Sound(F)'
<1>1. PICK e : e = [server[c] EXCEPT !.ask = FALSE]
  OBVIOUS
<1>2. /\ toClient' = toClient \o Push(c, e) \o Push(c, server[c]) /\ server[c].there /\ server' = server
      /\ UNCHANGED <<env, item, received, groups, preAuth, req, crashed>> /\ answered' = answered /\ toServer' = toServer
  BY <1>1 DEF ServerFlickers, Happens
<1>3. server[c] \in EntrySet /\ e \in EntrySet /\ e.there
  <2>1. server[c] \in EntrySet
    BY ServerKeeps
  <2> QED BY <1>1, <1>2, <2>1 DEF EntrySet
<1>4. /\ Push(c, e) \in Seq(Downward) /\ \A d : NoneOf(Push(c, e), "answer", d) /\ Warned(Push(c, e), d)
      /\ Push(c, server[c]) \in Seq(Downward) /\ \A d : NoneOf(Push(c, server[c]), "answer", d) /\ Warned(Push(c, server[c]), d)
  BY <1>2, <1>3, Pushed
<1>5. /\ server' \in [Contacts -> EntrySet] /\ (\A d \in Contacts : Rostered(server'[d])) /\ answered' \in BOOLEAN
      /\ toServer' \in Seq(Upward) /\ \A d \in Contacts : Steady(toServer, toServer', "set", d)
  BY <1>2, ServerKeeps
<1> QED BY <1>2, <1>4, <1>5, Delivers

(* The roster is sent, once or again.                                         *)
LEMMA RosterSentKeeps ==
  ASSUME NEW F, Sound(F), UNCHANGED <<env, item, received, groups, preAuth, req, crashed, server, toServer>>, answered' \in BOOLEAN,
         toClient' = Append(toClient,
           [kind |-> "roster", items |-> [c \in {x \in Contacts : server[x].there} |-> Content(server[c])]])
  PROVE  Sound(F)'
<1>1. PICK D : D = {x \in Contacts : server[x].there}
  OBVIOUS
<1>2. PICK f : f = [c \in D |-> Content(server[c])]
  OBVIOUS
<1>3. PICK m : m = [kind |-> "roster", items |-> f]
  OBVIOUS
<1>4. \A c \in D : Content(server[c]) \in ContentSet(Subscribed)
  BY <1>1, ServerKeeps, ContentTyped
<1>5. f \in [D -> ContentSet(Subscribed)] /\ D \in SUBSET Contacts
  BY <1>1, <1>2, <1>4
<1>6. m \in Downward /\ m.kind = "roster"
  BY <1>3, <1>5 DEF Downward
<1>7. <<m>> \in Seq(Downward) /\ \A d : NoneOf(<<m>>, "answer", d) /\ Warned(<<m>>, d)
  BY <1>6, OneStanza
<1>8. toClient' = toClient \o <<m>> \o <<>>
  <2>1. toClient' = Append(toClient, m)
    BY <1>1, <1>2, <1>3
  <2>2. toClient \in Seq(Downward)
    BY ServerKeeps
  <2>3. Append(toClient, m) = toClient \o <<m>>
    BY <1>6, <2>2, AppendIsConcat
  <2> QED BY <1>7, <2>1, <2>2, <2>3, PlusNothing
<1>9. /\ server' \in [Contacts -> EntrySet] /\ (\A d \in Contacts : Rostered(server'[d]))
      /\ toServer' \in Seq(Upward) /\ \A d \in Contacts : Steady(toServer, toServer', "set", d)
  BY ServerKeeps
<1> QED BY <1>7, <1>8, <1>9, NoStanza, Delivers

LEMMA ServerHearsPresenceKeeps == ASSUME NEW F, Sound(F), ServerHearsPresence PROVE Sound(F)'
<1>1. PICK m : m = Head(toServer)
  OBVIOUS
<1>2. PICK new : new = Outbound(server[m.c], m.type)
  OBVIOUS
<1>3. /\ server' = [server EXCEPT ![m.c] = new] /\ m.kind = "presence" /\ toServer # <<>> /\ toServer' = Tail(toServer)
      /\ toClient' = IF Content(new) # Content(server[m.c]) THEN toClient \o Push(m.c, new) ELSE toClient
      /\ UNCHANGED <<env, item, received, groups, preAuth, req, crashed>> /\ answered' = answered
  BY <1>1, <1>2 DEF ServerHearsPresence, ServerTakes
<1>4. toServer' \in Seq(Upward) /\ m \in Upward
  BY <1>1, <1>3, ServerKeeps, Taken
<1>5. m.c \in Contacts /\ m.type \in Negotiations
  BY <1>3, <1>4 DEF Upward, SetStanzas
<1>6. new \in EntrySet /\ Rostered(new) /\ (Content(new) # Content(server[m.c]) => new.there)
  BY <1>2, <1>5, ServerKeeps, OutboundTyped
<1>7. PICK push : push = IF Content(new) # Content(server[m.c]) THEN Push(m.c, new) ELSE <<>>
  OBVIOUS
<1>8. push \in Seq(Downward) /\ \A d : NoneOf(push, "answer", d) /\ Warned(push, d)
  BY <1>5, <1>6, <1>7, Pushed, NoStanza
<1>9. toClient' = toClient \o push \o <<>>
  <2>1. toClient \in Seq(Downward)
    BY ServerKeeps
  <2>2. toClient' = toClient \o push
    BY <1>3, <1>7, <2>1, ConcatEmptySeq
  <2> QED BY <1>8, <2>1, <2>2, PlusNothing
<1>10. server' \in [Contacts -> EntrySet] /\ \A d \in Contacts : Rostered(server'[d])
  BY <1>3, <1>5, <1>6, ServerChanges
<1>11. \A d \in Contacts : Steady(toServer, toServer', "set", d)
  BY <1>1, <1>3, ServerKeeps, SteadyTail
<1>12. answered' \in BOOLEAN
  BY <1>3, ServerKeeps
<1> QED BY <1>3, <1>4, <1>8, <1>9, <1>10, <1>11, <1>12, NoStanza, Delivers

(* The server answers the edit m: s is pushed before the answer a, t after.   *)
LEMMA FliesBack ==
  ASSUME NEW up \in Seq(Upward), up # <<>>, NEW m, m = Head(up), m.kind = "set",
         NEW down \in Seq(Downward), NEW s \in Seq(Downward), NEW t \in Seq(Downward), NEW a \in Downward,
         a.kind = "answer", a.c = m.c, a.edit = m.edit,
         NEW c, NEW flying, NEW F, Flies(up, down, c, flying, F), NoneOf(s, "answer", c), NoneOf(t, "answer", c),
         NEW down2, down2 = down \o s \o <<a>> \o t
  PROVE  Flies(Tail(up), down2, c, flying, F)
<1>1. PICK d1, d2, one : d1 = down \o s /\ d2 = d1 \o one /\ one = <<a>>
  OBVIOUS
<1>2. one \in Seq(Downward) /\ Len(one) = 1 /\ one[1] = a
  BY <1>1
<1>3. d1 \in Seq(Downward) /\ d2 \in Seq(Downward) /\ down2 = d2 \o t
  BY <1>1, <1>2, ConcatProperties
<1>4. \A j \in 1..Len(one) : j = 1 /\ one[j] = a
  BY <1>2
<1>5. CASE c # m.c
  <2>1. NoneOf(one, "answer", c)
    BY <1>4, <1>5 DEF NoneOf
  <2>2. Steady(down, d1, "answer", c) /\ Steady(d1, d2, "answer", c) /\ Steady(d2, down2, "answer", c)
    BY <1>1, <1>2, <1>3, <2>1, SteadyAppend
  <2>3. Steady(down, down2, "answer", c)
    BY <2>2 DEF Steady
  <2>4. Steady(up, Tail(up), "set", c)
    BY <1>5, SteadyTail
  <2> QED BY <2>3, <2>4, FliesOn
<1>6. CASE c = m.c
  <2>1. ~NoneOf(up, "set", c)
    <3>1. 1 \in 1..Len(up) /\ up[1] = m
      BY Taken
    <3> QED BY <1>6, <3>1 DEF NoneOf
  <2>2. PICK x : flying /\ NoneOf(down, "answer", c) /\ OneOf(up, "set", c, x) /\ F = {x.edit}
    BY <2>1 DEF Flies
  <2>3. x = m /\ NoneOf(Tail(up), "set", c)
    BY <1>6, <2>2, TailNone
  <2>4. NoneOf(d1, "answer", c)
    BY <1>1, <2>2, AppendNone
  <2>5. OneOf(one, "answer", c, a)
    <3>1. 1 \in 1..Len(one)
      BY <1>2
    <3> QED BY <1>2, <1>4, <1>6, <3>1 DEF OneOf
  <2>6. OneOf(d2, "answer", c, a)
    BY <1>1, <1>2, <1>3, <2>4, <2>5, AppendOne
  <2>7. OneOf(down2, "answer", c, a)
    BY <1>3, <2>6, AppendNone
  <2>8. F = {a.edit}
    BY <2>2, <2>3
  <2> QED BY <2>2, <2>3, <2>7, <2>8 DEF Flies
<1> QED BY <1>5, <1>6

(* The push that a contact has gone comes with the answer to its removal.     *)
LEMMA WarnedBack ==
  ASSUME NEW down \in Seq(Downward), NEW s \in Seq(Downward), NEW a \in Downward, NEW c \in Contacts, Warned(down, c),
         Warned(s, c) \/ Removes(a, c), a.kind = "answer"
  PROVE  Warned(down \o s \o <<a>>, c)
<1>1. PICK one, t : one = <<a>> /\ t = s \o one
  OBVIOUS
<1>2. one \in Seq(Downward) /\ Len(one) = 1 /\ one[1] = a
  BY <1>1
<1>3. Warned(one, c)
  BY <1>1, OneStanza
<1>4. Warned(t, c)
  <2>1. CASE Warned(s, c)
    BY <1>1, <1>2, <1>3, <2>1, WarnedAppend
  <2>2. CASE Removes(a, c)
    <3>1. /\ Len(t) = Len(s) + Len(one) /\ Len(s) \in Nat
          /\ \A i \in 1..Len(one) : Len(s) + i \in 1..Len(t) /\ t[Len(s) + i] = one[i]
      BY <1>1, <1>2, Appended
    <3>2. Len(t) \in 1..Len(t) /\ t[Len(t)] = a /\ Len(t) \in Nat
      BY <1>2, <3>1
    <3>3. ASSUME NEW i \in 1..Len(t), Gone(t[i], c) PROVE i < Len(t)
      <4>1. i # Len(t)
        BY <2>2, <3>2, <3>3 DEF Gone, Removes
      <4> QED BY <3>2, <4>1
    <3> QED BY <2>2, <3>2, <3>3 DEF Warned
  <2> QED BY <2>1, <2>2
<1>5. t \in Seq(Downward) /\ down \o s \o one = down \o t
  BY <1>1, <1>2, ConcatProperties, ConcatAssociative
<1> QED BY <1>1, <1>4, <1>5, WarnedAppend

LEMMA ServerEditsKeeps == ASSUME NEW F, Sound(F), NEW ok \in BOOLEAN, ServerEdits(ok) PROVE Sound(F)'
<1>1. PICK m : m = Head(toServer)
  OBVIOUS
<1>2. PICK e : e = server[m.c]
  OBVIOUS
<1>3. PICK new, a, missing :
        /\ new = IF m.data.sub = "remove" THEN [NoEntry EXCEPT !.pending = e.pending]
                 ELSE [e EXCEPT !.there = TRUE, !.name = m.data.name, !.groups = m.data.groups,
                                !.type = IF env.google THEN m.data.type ELSE @]
        /\ a = [kind |-> "answer", c |-> m.c, edit |-> m.edit]
        /\ missing = (m.data.sub = "remove" /\ ~e.there)
  OBVIOUS
<1>4. /\ toServer # <<>> /\ toServer' = Tail(toServer) /\ m.kind = "set"
      /\ UNCHANGED <<env, item, received, groups, preAuth, req, crashed>> /\ answered' = answered
  BY <1>1 DEF ServerEdits, ServerTakes
<1>5. \/ /\ server' = [server EXCEPT ![m.c] = new]
         /\ \/ toClient' = toClient \o Push(m.c, new) \o <<a>>
            \/ ~env.pushFirst /\ toClient' = toClient \o <<a>> \o Push(m.c, new)
      \/ server' = server /\ toClient' = toClient \o <<a>>
  BY <1>1, <1>2, <1>3 DEF ServerEdits
<1>6. toServer' \in Seq(Upward) /\ m \in Upward /\ toServer \in Seq(Upward) /\ toClient \in Seq(Downward)
  BY <1>1, <1>4, ServerKeeps, Taken
<1>7. m \in SetStanzas /\ m.c \in Contacts /\ (m.data.sub = "remove" => m.edit.sub = "remove") /\ m.edit \in EditSet
  BY <1>4, <1>6 DEF Upward, SetStanzas
<1>8. a \in Downward /\ a.kind = "answer" /\ a.c = m.c /\ a.edit = m.edit
  BY <1>3, <1>7 DEF Downward
<1>9. e \in EntrySet /\ Rostered(e)
  BY <1>2, <1>7, ServerKeeps
<1>10. new \in EntrySet /\ Rostered(new) /\ (m.data.sub # "remove" => new.there)
  <2>1. CASE m.data.sub = "remove"
    <3>1. new = [NoEntry EXCEPT !.pending = e.pending]
      BY <1>3, <2>1
    <3> QED BY <1>9, <2>1, <3>1 DEF EntrySet, Rostered, Types, NoEntry, Subscribed
  <2>2. CASE m.data.sub # "remove"
    <3>1. PICK type : type = IF env.google THEN m.data.type ELSE e.type
      OBVIOUS
    <3>2. type \in Types /\ m.data.name \in Names \cup {NoName} /\ m.data.groups \in SUBSET Groups
      BY <1>7, <1>9, <3>1 DEF SetStanzas, EntrySet
    <3>3. new = [e EXCEPT !.there = TRUE, !.name = m.data.name, !.groups = m.data.groups, !.type = type]
      BY <1>3, <2>2, <3>1
    <3> QED BY <1>9, <3>2, <3>3 DEF EntrySet, Rostered
  <2> QED BY <2>1, <2>2
<1>11. server' \in [Contacts -> EntrySet] /\ \A d \in Contacts : Rostered(server'[d])
  BY <1>5, <1>7, <1>10, ServerChanges, ServerKeeps
<1>12. PICK s, t : /\ s \in Seq(Downward) /\ t \in Seq(Downward) /\ toClient' = toClient \o s \o <<a>> \o t
                   /\ \A d : NoneOf(s, "answer", d) /\ NoneOf(t, "answer", d)
                   /\ Calm(env) => t = <<>> /\ \A d \in Contacts : Warned(s, d) \/ Removes(a, d)
  <2>1. PICK one, push, none : one = <<a>> /\ push = Push(m.c, new) /\ none = <<>>
    OBVIOUS
  <2>2. /\ one \in Seq(Downward) /\ push \in Seq(Downward) /\ none \in Seq(Downward)
        /\ \A d : NoneOf(push, "answer", d) /\ NoneOf(none, "answer", d) /\ Warned(none, d)
        /\ (new.there => \A d : Warned(push, d))
    BY <1>7, <1>8, <1>10, <2>1, Pushed, NoStanza
  <2>3. CASE toClient' = toClient \o push \o one
    <3>1. toClient' = toClient \o push \o one \o none
      <4>1. toClient \o push \in Seq(Downward)
        BY <1>6, <2>2, ConcatProperties
      <4>2. toClient \o push \o one \in Seq(Downward)
        BY <2>2, <4>1, ConcatProperties
      <4> QED BY <2>1, <2>3, <4>2, ConcatEmptySeq
    <3>2. \A d \in Contacts : Warned(push, d) \/ Removes(a, d)
      <4>1. CASE new.there
        BY <2>2, <4>1
      <4>2. CASE ~new.there
        <5>1. a.edit.sub = "remove" /\ a.kind = "answer" /\ a.c = m.c
          BY <1>7, <1>8, <1>10, <4>2
        <5>2. ASSUME NEW d \in Contacts PROVE Warned(push, d) \/ Removes(a, d)
          <6>1. CASE d = m.c
            BY <5>1, <6>1 DEF Removes
          <6>2. CASE d # m.c
            <7>1. \A i \in 1..Len(push) : ~Gone(push[i], d)
              <8>1. push = <<>> \/ push = <<[kind |-> "push", c |-> m.c, data |-> Content(new)]>>
                BY <2>1 DEF Push
              <8>2. PICK x : x = [kind |-> "push", c |-> m.c, data |-> Content(new)]
                OBVIOUS
              <8>3. x.c # d
                BY <6>2, <8>2
              <8>4. push = <<>> \/ push = <<x>>
                BY <8>1, <8>2
              <8>5. \A i \in 1..Len(push) : push[i] = x
                BY <8>4
              <8> QED BY <8>3, <8>5 DEF Gone
            <7> QED BY <7>1 DEF Warned
          <6> QED BY <6>1, <6>2
        <5> QED BY <5>2
      <4> QED BY <4>1, <4>2
    <3> QED BY <2>1, <2>2, <3>1, <3>2
  <2>4. CASE ~env.pushFirst /\ toClient' = toClient \o one \o push
    <3>1. toClient' = toClient \o none \o one \o push
      BY <1>6, <2>1, <2>4, ConcatEmptySeq
    <3>2. ~Calm(env)
      BY <2>4 DEF Calm
    <3> QED BY <2>1, <2>2, <3>1, <3>2
  <2>5. CASE toClient' = toClient \o one
    <3>1. toClient' = toClient \o none \o one \o none
      <4>1. toClient \o one \in Seq(Downward)
        BY <1>6, <2>2, ConcatProperties
      <4>2. toClient \o none = toClient /\ (toClient \o one) \o none = toClient \o one
        BY <1>6, <2>1, <4>1, ConcatEmptySeq
      <4> QED BY <2>5, <4>2
    <3> QED BY <2>1, <2>2, <3>1
  <2> QED BY <1>5, <2>1, <2>3, <2>4, <2>5
<1>13. toClient' \in Seq(Downward)
  <2>1. <<a>> \in Seq(Downward)
    BY <1>8
  <2>2. toClient \o s \in Seq(Downward)
    BY <1>6, <1>12, ConcatProperties
  <2>3. toClient \o s \o <<a>> \in Seq(Downward)
    BY <2>1, <2>2, ConcatProperties
  <2> QED BY <1>12, <2>3, ConcatProperties
<1>14. ASSUME NEW c \in Contacts PROVE Flies(toServer', toClient', c, item[c].inFlight, F[c])
  <2>1. Flies(toServer, toClient, c, item[c].inFlight, F[c])
    BY DEF Sound
  <2> QED BY <1>1, <1>4, <1>6, <1>8, <1>12, <2>1, FliesBack
<1>15. ASSUME Calm(env), NEW c \in Contacts PROVE Warned(toClient', c)
  <2>1. Warned(toClient, c)
    BY <1>15 DEF Sound
  <2>2. t = <<>> /\ (Warned(s, c) \/ Removes(a, c))
    BY <1>12, <1>15
  <2>3. toClient' = toClient \o s \o <<a>>
    <3>1. <<a>> \in Seq(Downward)
      BY <1>8
    <3>2. toClient \o s \in Seq(Downward)
      BY <1>6, <1>12, ConcatProperties
    <3>3. toClient \o s \o <<a>> \in Seq(Downward)
      BY <3>1, <3>2, ConcatProperties
    <3> QED BY <1>12, <2>2, <3>3, ConcatEmptySeq
  <2> QED BY <1>6, <1>8, <1>12, <2>1, <2>2, <2>3, WarnedBack
<1>16. answered' \in BOOLEAN
  BY <1>4, ServerKeeps
<1> QED BY <1>4, <1>6, <1>11, <1>13, <1>14, <1>15, <1>16, ServerMoves

-----------------------------------------------------------------------------
(* Items change and no edit is sent.                                          *)

LEMMA ItemMoves ==
  ASSUME NEW F, Sound(F), UNCHANGED <<env, received, crashed, answered, server>>, preAuth' \subseteq Contacts,
         item' \in [Contacts -> ItemSet], req' \in Seq(RequestSet), toServer' \in Seq(Upward), toClient' \in Seq(Downward),
         \A d \in Contacts : item'[d].groups \subseteq groups',
         \A d \in Contacts : Steady(toServer, toServer', "set", d) /\ Steady(toClient, toClient', "answer", d),
         \A d \in Contacts : \/ /\ item'[d].edit = item[d].edit /\ item'[d].inFlight = item[d].inFlight
                                /\ ~item'[d].there => item'[d] = NoItem
                             \/ item'[d] = NoItem /\ ~item[d].inFlight,
         Len(req) <= Len(req'), Exact(req', HeldBy(item', F)),
         Calm(env) => \A d \in Contacts : Warned(toClient', d) /\ Peaceful(item'[d], F[d])
  PROVE  Sound(F)'
<1>1. Typed'
  BY DEF Sound, Typed
<1>2. Len(req) \in Nat /\ Len(req') \in Nat
  BY HeldInRange, LenProperties
<1>3. ASSUME NEW d \in Contacts
      PROVE  Flies(toServer', toClient', d, item'[d].inFlight, F[d]) /\ Kept(item'[d], F[d], received, Len(req'))
  <2>1. Flies(toServer, toClient, d, item[d].inFlight, F[d]) /\ Kept(item[d], F[d], received, Len(req))
    BY DEF Sound
  <2>2. Flies(toServer', toClient', d, item[d].inFlight, F[d])
    BY <2>1, FliesOn
  <2>3. CASE /\ item'[d].edit = item[d].edit /\ item'[d].inFlight = item[d].inFlight
             /\ ~item'[d].there => item'[d] = NoItem
    BY <1>2, <2>1, <2>2, <2>3, KeptOn
  <2>4. CASE item'[d] = NoItem /\ ~item[d].inFlight
    <3>1. F[d] = {}
      BY <2>1, <2>4 DEF Flies
    <3>2. item'[d].inFlight = FALSE /\ item[d].inFlight = FALSE
      <4>1. item[d].inFlight \in BOOLEAN
        BY DEF Sound, Typed, ItemSet
      <4> QED BY <2>4, <3>1, <4>1, KeptGone
    <3> QED BY <2>2, <2>4, <3>1, <3>2, KeptGone
  <2> QED BY <2>3, <2>4
<1> QED BY <1>1, <1>3 DEF Sound

(* A request that edits of an item carry is counted down when the item goes.  *)
LEMMA Released ==
  ASSUME NEW F, Sound(F), NEW c \in Contacts, NEW it, it.edit = item[c].edit, it.inFlight = item[c].inFlight,
         item' = [item EXCEPT ![c] = MaybeRemove(it)],
         NEW H, H = HeldBy(item, F), NEW rs \in Seq(RequestSet), Counted(rs, H),
         req' = Countdown(rs, For(c, FreedWith(it)))
  PROVE  req' \in Seq(RequestSet) /\ Len(req') = Len(rs) /\ Exact(req', HeldBy(item', F))
<1>1. PICK freed : freed = For(c, FreedWith(it))
  OBVIOUS
<1>2. H \in [Contacts -> SUBSET Nat]
  BY HeldInRange
<1>3. FreedWith(it) \subseteq Held(item[c], F[c])
  BY DEF FreedWith, Held
<1>4. freed \in [Contacts -> SUBSET Nat] /\ freed[c] = FreedWith(it) /\ \A d \in Contacts : d # c => freed[d] = {}
  <2>1. FreedWith(it) \in SUBSET Nat
    BY <1>1, <1>2, <1>3 DEF HeldBy
  <2> QED BY <1>1, <2>1 DEF For, None
<1>5. \A d \in Contacts : freed[d] \subseteq H[d]
  BY <1>1, <1>3, <1>4 DEF HeldBy
<1>6. PICK H2 : H2 = [d \in Contacts |-> H[d] \ freed[d]]
  OBVIOUS
<1>7. req' \in Seq(RequestSet) /\ Len(req') = Len(rs) /\ Exact(req', H2)
  BY <1>1, <1>2, <1>4, <1>5, <1>6, CountedDown
<1>8. ASSUME NEW d \in Contacts PROVE H2[d] = Held(item'[d], F[d])
  <2>1. item \in [Contacts -> ItemSet]
    BY DEF Sound, Typed
  <2>2. CASE d # c
    <3>1. item'[d] = item[d]
      BY <2>1, <2>2
    <3> QED BY <1>1, <1>4, <1>6, <2>2, <3>1 DEF HeldBy
  <2>3. CASE d = c /\ Forgettable(it)
    <3>1. item'[c] = NoItem /\ freed[c] = item[c].edit.results /\ ~item[c].inFlight
      BY <1>4, <2>1, <2>3 DEF MaybeRemove, FreedWith, Forgettable
    <3>2. F[c] = {}
      <4>1. Flies(toServer, toClient, c, item[c].inFlight, F[c])
        BY DEF Sound
      <4> QED BY <3>1, <4>1 DEF Flies
    <3>3. H[c] = item[c].edit.results
      BY <1>1, <3>2 DEF Held, Carried, HeldBy
    <3>4. H2[c] = {}
      BY <1>6, <3>1, <3>3
    <3>5. Held(item'[c], F[c]) = {}
      BY <3>1, <3>2, KeptGone DEF Held, Carried
    <3> QED BY <2>3, <3>4, <3>5
  <2>4. CASE d = c /\ ~Forgettable(it)
    <3>1. item'[c].edit = item[c].edit /\ freed[c] = {}
      BY <1>4, <2>1, <2>4 DEF MaybeRemove, FreedWith
    <3>2. H2[c] = H[c]
      BY <1>6, <3>1
    <3>3. Held(item'[c], F[c]) = Held(item[c], F[c])
      BY <3>1 DEF Held
    <3> QED BY <1>1, <2>4, <3>2, <3>3 DEF HeldBy
  <2> QED BY <2>2, <2>3, <2>4
<1>9. H2 = HeldBy(item', F)
  BY <1>6, <1>8 DEF HeldBy
<1> QED BY <1>7, <1>9

LEMMA ItemKnown ==
  ASSUME NEW F, Sound(F), NEW c \in Contacts
  PROVE  /\ item[c] \in ItemSet /\ item[c].groups \subseteq groups /\ (~item[c].there => item[c] = NoItem)
         /\ item \in [Contacts -> ItemSet] /\ preAuth \subseteq Contacts /\ req \in Seq(RequestSet)
         /\ Flies(toServer, toClient, c, item[c].inFlight, F[c])
         /\ item[c].inFlight \in BOOLEAN /\ received \in BOOLEAN /\ (item[c].inFlight => received)
         /\ (~item[c].inFlight => F[c] = {})
         /\ (Calm(env) => ~crashed /\ Warned(toClient, c) /\ Peaceful(item[c], F[c]))
<1>1. Typed /\ item[c].groups \subseteq groups /\ Kept(item[c], F[c], received, Len(req))
      /\ Flies(toServer, toClient, c, item[c].inFlight, F[c])
      /\ (Calm(env) => ~crashed /\ Warned(toClient, c) /\ Peaceful(item[c], F[c]))
  BY DEF Sound
<1>2. item[c] \in ItemSet /\ item \in [Contacts -> ItemSet] /\ preAuth \subseteq Contacts /\ req \in Seq(RequestSet) /\ received \in BOOLEAN
  BY <1>1 DEF Typed
<1>3. item[c].inFlight \in BOOLEAN
  BY <1>2 DEF ItemSet
<1>4. (~item[c].there => item[c] = NoItem) /\ (item[c].inFlight => received)
  BY <1>1 DEF Kept
<1>5. ~item[c].inFlight => F[c] = {}
  BY <1>1 DEF Flies
<1> QED BY <1>1, <1>2, <1>3, <1>4, <1>5

(* The item of c becomes it, or goes if it need not be kept.                  *)
LEMMA ItemCleared ==
  ASSUME NEW F, Sound(F), UNCHANGED <<env, received, crashed, answered, server, preAuth>>,
         NEW c \in Contacts, NEW it \in ItemSet, it.there, it.edit = item[c].edit, it.inFlight = item[c].inFlight,
         item' = [item EXCEPT ![c] = MaybeRemove(it)], req' = Countdown(req, For(c, FreedWith(it))),
         groups \subseteq groups', it.groups \subseteq groups',
         toServer' \in Seq(Upward), toClient' \in Seq(Downward),
         \A d \in Contacts : Steady(toServer, toServer', "set", d) /\ Steady(toClient, toClient', "answer", d),
         Calm(env) => Peaceful(it, F[c]) /\ \A d \in Contacts : Warned(toClient', d)
  PROVE  Sound(F)'
<1>1. item \in [Contacts -> ItemSet] /\ req \in Seq(RequestSet) /\ preAuth' \subseteq Contacts
  BY ItemKnown
<1>2. MaybeRemove(it) \in ItemSet
  BY NothingTyped DEF MaybeRemove
<1>3. item' \in [Contacts -> ItemSet]
  BY <1>1, <1>2
<1>8. PICK H : H = HeldBy(item, F)
  OBVIOUS
<1>4. Counted(req, H)
  BY <1>8, ExactIsCounted DEF Sound
<1>5. req' \in Seq(RequestSet) /\ Len(req') = Len(req) /\ Exact(req', HeldBy(item', F))
  BY <1>1, <1>4, <1>8, Released
<1>6. Len(req) <= Len(req')
  BY <1>1, <1>5, LenProperties
<1>7. ASSUME NEW d \in Contacts
      PROVE  /\ item'[d].groups \subseteq groups'
             /\ \/ /\ item'[d].edit = item[d].edit /\ item'[d].inFlight = item[d].inFlight
                   /\ ~item'[d].there => item'[d] = NoItem
                \/ item'[d] = NoItem /\ ~item[d].inFlight
             /\ Calm(env) => Peaceful(item'[d], F[d])
  <2>1. CASE d # c
    <3>1. item'[d] = item[d]
      BY <1>1, <2>1
    <3> QED BY <3>1, ItemKnown
  <2>2. CASE d = c /\ Forgettable(it)
    <3>1. item'[d] = NoItem /\ ~item[d].inFlight
      BY <1>1, <2>2 DEF MaybeRemove, Forgettable
    <3>2. F[d] = {}
      BY <3>1, ItemKnown
    <3>3. Peaceful(NoItem, F[d]) /\ NoItem.groups = {}
      BY <3>2, KeptGone DEF Peaceful
    <3> QED BY <3>1, <3>3
  <2>3. CASE d = c /\ ~Forgettable(it)
    <3>1. item'[d] = it
      BY <1>1, <2>3 DEF MaybeRemove
    <3> QED BY <2>3, <3>1
  <2> QED BY <2>1, <2>2, <2>3
<1> QED BY <1>1, <1>3, <1>5, <1>6, <1>7, ItemMoves

(* The item of c becomes it and no request is answered.                       *)
LEMMA ItemPut ==
  ASSUME NEW F, Sound(F), UNCHANGED <<env, received, crashed, answered, server, req, groups>>, preAuth' \subseteq Contacts,
         NEW c \in Contacts, NEW it \in ItemSet, it.edit = item[c].edit, it.inFlight = item[c].inFlight,
         ~it.there => it = NoItem, item' = [item EXCEPT ![c] = it], it.groups \subseteq groups, it.sub = item[c].sub,
         toServer' \in Seq(Upward), toClient' \in Seq(Downward),
         \A d \in Contacts : Steady(toServer, toServer', "set", d) /\ Steady(toClient, toClient', "answer", d),
         Calm(env) => \A d \in Contacts : Warned(toClient', d)
  PROVE  Sound(F)'
<1>1. item \in [Contacts -> ItemSet] /\ req \in Seq(RequestSet) /\ Len(req) \in Nat
  BY ItemKnown, HeldInRange
<1>2. item' \in [Contacts -> ItemSet]
  BY <1>1
<1>3. ASSUME NEW d \in Contacts
      PROVE  /\ item'[d].groups \subseteq groups /\ item'[d].edit = item[d].edit /\ item'[d].inFlight = item[d].inFlight
             /\ ~item'[d].there => item'[d] = NoItem
             /\ Calm(env) => Peaceful(item'[d], F[d])
  <2>1. CASE d # c
    <3>1. item'[d] = item[d]
      BY <1>1, <2>1
    <3> QED BY <3>1, ItemKnown
  <2>2. CASE d = c
    <3>1. item'[d] = it
      BY <1>1, <2>2
    <3>2. Calm(env) => Peaceful(it, F[c])
      <4>1. Calm(env) => Peaceful(item[c], F[c])
        BY ItemKnown
      <4> QED BY <4>1 DEF Peaceful
    <3> QED BY <2>2, <3>1, <3>2
  <2> QED BY <2>1, <2>2
<1>4. HeldBy(item', F) = HeldBy(item, F)
  BY <1>3 DEF Held, HeldBy
<1>5. Exact(req', HeldBy(item', F)) /\ Len(req) <= Len(req')
  BY <1>1, <1>4 DEF Sound
<1> QED BY <1>1, <1>2, <1>3, <1>5, ItemMoves

LEMMA PresenceAppended ==
  ASSUME NEW q \in Seq(Upward), NEW c \in Contacts, NEW t \in Negotiations
  PROVE  Append(q, Presence(c, t)) \in Seq(Upward) /\ \A d : Steady(q, Append(q, Presence(c, t)), "set", d)
<1>1. PICK m, s : m = Presence(c, t) /\ s = <<m>>
  OBVIOUS
<1>2. m \in PresencesTo(c)
  BY <1>1 DEF Presence, PresencesTo
<1>3. s \in Seq(PresencesTo(c)) /\ m \in Upward
  BY <1>1, <1>2 DEF PresencesTo, Upward
<1>4. s \in Seq(Upward) /\ \A d : NoneOf(s, "set", d)
  BY <1>3, PresencesSent
<1>5. Append(q, m) = q \o s
  BY <1>1, <1>3, AppendIsConcat
<1>6. q \o s \in Seq(Upward) /\ \A d : Steady(q, q \o s, "set", d)
  BY <1>4, ConcatProperties, SteadyAppend
<1> QED BY <1>1, <1>5, <1>6

LEMMA Ensured ==
  ASSUME NEW F, Sound(F), NEW c \in Contacts, NEW it, it = Ensure(c)
  PROVE  /\ it \in ItemSet /\ it.there = TRUE /\ it.edit = item[c].edit /\ it.inFlight = item[c].inFlight
         /\ it.groups = item[c].groups /\ it.sub = item[c].sub
<1>1. CASE item[c].there
  <2>1. it = item[c]
    BY <1>1 DEF Ensure
  <2> QED BY <1>1, <2>1, ItemKnown DEF ItemSet
<1>2. CASE ~item[c].there
  <2>1. item[c] = NoItem
    BY <1>2, ItemKnown
  <2>2. AliasOf[c] \in Names \cup {NoName}
    BY ConstantsAssumption
  <2>3. it = [NoItem EXCEPT !.there = TRUE, !.name = AliasOf[c]]
    BY <1>2 DEF Ensure
  <2>4. NoItem \in ItemSet
    BY NothingTyped
  <2> QED BY <2>1, <2>2, <2>3, <2>4 DEF ItemSet
<1> QED BY <1>1, <1>2

LEMMA Here ==
  ASSUME NEW F, Sound(F)
  PROVE  /\ toServer \in Seq(Upward) /\ toClient \in Seq(Downward)
         /\ \A d : Steady(toServer, toServer, "set", d) /\ Steady(toClient, toClient, "answer", d)
         /\ Calm(env) => \A d \in Contacts : Warned(toClient, d)
         /\ preAuth \subseteq Contacts /\ env \in Environments
BY DEF Sound, Typed, Steady

(* Only presences are sent.                                                   *)
LEMMA OnlyPresences ==
  ASSUME NEW F, Sound(F), UNCHANGED <<env, received, crashed, answered, server, req, groups, item>>, preAuth' \subseteq Contacts,
         toServer' \in Seq(Upward), toClient' \in Seq(Downward),
         \A d \in Contacts : Steady(toServer, toServer', "set", d) /\ Steady(toClient, toClient', "answer", d),
         Calm(env) => \A d \in Contacts : Warned(toClient', d)
  PROVE  Sound(F)'
<1>1. item' \in [Contacts -> ItemSet] /\ req' \in Seq(RequestSet) /\ Len(req) \in Nat
  BY HeldInRange DEF Sound, Typed
<1>2. Exact(req', HeldBy(item', F)) /\ Len(req) <= Len(req')
  BY <1>1 DEF Sound
<1>3. \A d \in Contacts : /\ item'[d].groups \subseteq groups' /\ item'[d].edit = item[d].edit /\ item'[d].inFlight = item[d].inFlight
                          /\ ~item'[d].there => item'[d] = NoItem
                          /\ Calm(env) => Peaceful(item'[d], F[d])
  BY ItemKnown
<1> QED BY <1>1, <1>2, <1>3, ItemMoves

LEMMA AuthorizeKeeps == ASSUME NEW F, Sound(F), NEW c \in Contacts, Authorize(c) PROVE Sound(F)'
<1>1. /\ UNCHANGED <<env, received, crashed, answered, server, req, groups, item, toClient>>
      /\ preAuth' = preAuth \/ preAuth' = preAuth \cup {c}
      /\ toServer' = toServer \/ toServer' = Append(toServer, Presence(c, "subscribed"))
  BY DEF Authorize, Asks
<1>2. "subscribed" \in Negotiations
  BY DEF Negotiations, Presences
<1>3. toServer' \in Seq(Upward) /\ \A d \in Contacts : Steady(toServer, toServer', "set", d)
  BY <1>1, <1>2, Here, PresenceAppended
<1>4. /\ preAuth' \subseteq Contacts /\ toClient' \in Seq(Downward) /\ (\A d \in Contacts : Steady(toClient, toClient', "answer", d))
      /\ Calm(env) => \A d \in Contacts : Warned(toClient', d)
  BY <1>1, Here
<1> QED BY <1>1, <1>3, <1>4, OnlyPresences

(* Unsubscribe and Unpublish: only presences are sent, or a state is cleared. *)
LEMMA ClearKeeps ==
  ASSUME NEW F, Sound(F), UNCHANGED <<env, received, crashed, answered, server, groups, toClient, preAuth>>,
         NEW c \in Contacts, NEW t \in Negotiations, toServer' = toServer \/ toServer' = Append(toServer, Presence(c, t)),
         NEW it, \/ it = [item[c] EXCEPT !.subscribe = "no"] /\ item[c].subscribe = "removed"
                 \/ it = [item[c] EXCEPT !.publish = "no"] /\ item[c].publish \in {"ask", "removed"},
         Clear(c, it)
  PROVE  Sound(F)'
<1>1. item[c] \in ItemSet /\ item[c].groups \subseteq groups /\ (~item[c].there => item[c] = NoItem)
      /\ (Calm(env) => Peaceful(item[c], F[c]))
  BY ItemKnown
<1>2. item[c].there
  BY <1>1 DEF NoItem
<1>3. it \in ItemSet /\ it.there /\ it.edit = item[c].edit /\ it.inFlight = item[c].inFlight /\ it.groups = item[c].groups /\ it.sub = item[c].sub
  BY <1>1, <1>2 DEF ItemSet, States
<1>4. item' = [item EXCEPT ![c] = MaybeRemove(it)] /\ req' = Countdown(req, For(c, FreedWith(it)))
  BY DEF Clear
<1>5. toServer' \in Seq(Upward) /\ \A d \in Contacts : Steady(toServer, toServer', "set", d)
  <2>1. CASE toServer' = toServer
    BY <2>1, Here
  <2>2. CASE toServer' = Append(toServer, Presence(c, t))
    BY <2>2, Here, PresenceAppended
  <2> QED BY <2>1, <2>2
<1>6. /\ toClient' \in Seq(Downward) /\ (\A d \in Contacts : Steady(toClient, toClient', "answer", d))
      /\ Calm(env) => \A d \in Contacts : Warned(toClient', d)
  BY Here
<1>7. Calm(env) => Peaceful(it, F[c])
  BY <1>1, <1>3 DEF Peaceful
<1> QED BY <1>1, <1>3, <1>4, <1>5, <1>6, <1>7, ItemCleared

LEMMA UnsubscribeKeeps == ASSUME NEW F, Sound(F), NEW c \in Contacts, Unsubscribe(c) PROVE Sound(F)'
<1>1. UNCHANGED <<env, received, crashed, answered, server, groups, toClient, preAuth>>
  BY DEF Unsubscribe, Asks
<1>2. "unsubscribe" \in Negotiations
  BY DEF Negotiations, Presences
<1>3. CASE item[c].subscribe = "removed"
  <2>1. Clear(c, [item[c] EXCEPT !.subscribe = "no"]) /\ toServer' = toServer
    BY <1>3 DEF Unsubscribe
  <2> QED BY <1>1, <1>2, <1>3, <2>1, ClearKeeps
<1>4. CASE item[c].subscribe # "removed"
  <2>1. UNCHANGED <<item, req>> /\ (toServer' = toServer \/ toServer' = Append(toServer, Presence(c, "unsubscribe")))
    BY <1>4 DEF Unsubscribe
  <2>2. toServer' \in Seq(Upward) /\ \A d \in Contacts : Steady(toServer, toServer', "set", d)
    BY <1>2, <2>1, Here, PresenceAppended
  <2>3. /\ preAuth' \subseteq Contacts /\ toClient' \in Seq(Downward) /\ (\A d \in Contacts : Steady(toClient, toClient', "answer", d))
        /\ Calm(env) => \A d \in Contacts : Warned(toClient', d)
    BY <1>1, Here
  <2> QED BY <1>1, <2>1, <2>2, <2>3, OnlyPresences
<1> QED BY <1>3, <1>4

LEMMA UnpublishKeeps == ASSUME NEW F, Sound(F), NEW c \in Contacts, Unpublish(c) PROVE Sound(F)'
<1>1. UNCHANGED <<env, received, crashed, answered, server, groups, toClient, preAuth>>
  BY DEF Unpublish, Asks
<1>2. "unsubscribed" \in Negotiations
  BY DEF Negotiations, Presences
<1>3. CASE item[c].publish \in {"ask", "removed"}
  <2>1. Clear(c, [item[c] EXCEPT !.publish = "no"]) /\ (toServer' = toServer \/ toServer' = Append(toServer, Presence(c, "unsubscribed")))
    BY <1>3 DEF Unpublish
  <2> QED BY <1>1, <1>2, <1>3, <2>1, ClearKeeps
<1>4. CASE item[c].publish \notin {"ask", "removed"}
  <2>1. UNCHANGED <<item, req>> /\ (toServer' = toServer \/ toServer' = Append(toServer, Presence(c, "unsubscribed")))
    BY <1>4 DEF Unpublish
  <2>2. toServer' \in Seq(Upward) /\ \A d \in Contacts : Steady(toServer, toServer', "set", d)
    BY <1>2, <2>1, Here, PresenceAppended
  <2>3. /\ preAuth' \subseteq Contacts /\ toClient' \in Seq(Downward) /\ (\A d \in Contacts : Steady(toClient, toClient', "answer", d))
        /\ Calm(env) => \A d \in Contacts : Warned(toClient', d)
    BY <1>1, Here
  <2> QED BY <1>1, <2>1, <2>2, <2>3, OnlyPresences
<1> QED BY <1>3, <1>4

LEMMA FlickerTimeoutKeeps == ASSUME NEW F, Sound(F), NEW c \in Contacts, FlickerTimeout(c) PROVE Sound(F)'
<1>1. PICK over, it : /\ over = (item[c].sub \in {"none", "remove"} /\ ~item[c].ask)
                      /\ it = [item[c] EXCEPT !.flicker = FALSE, !.subscribe = IF over THEN "no" ELSE @]
  OBVIOUS
<1>2. item[c] \in ItemSet /\ item[c].groups \subseteq groups /\ item \in [Contacts -> ItemSet]
  BY ItemKnown
<1>3. /\ UNCHANGED <<env, received, crashed, answered, server, groups, toClient, toServer, preAuth, req>> /\ item[c].there
      /\ item' = [item EXCEPT ![c].flicker = FALSE, ![c].subscribe = IF over THEN "no" ELSE @]
  BY <1>1 DEF FlickerTimeout
<1>4. item' = [item EXCEPT ![c] = it]
  <2>1. item[c] = [item[c] EXCEPT !.flicker = item[c].flicker]
    BY <1>2 DEF ItemSet
  <2> QED BY <1>1, <1>2, <1>3
<1>5. it \in ItemSet /\ it.there /\ it.edit = item[c].edit /\ it.inFlight = item[c].inFlight /\ it.groups = item[c].groups /\ it.sub = item[c].sub
  BY <1>1, <1>2, <1>3 DEF ItemSet, States
<1>6. /\ toServer' \in Seq(Upward) /\ (\A d \in Contacts : Steady(toServer, toServer', "set", d)) /\ preAuth' \subseteq Contacts
      /\ toClient' \in Seq(Downward) /\ (\A d \in Contacts : Steady(toClient, toClient', "answer", d))
      /\ Calm(env) => \A d \in Contacts : Warned(toClient', d)
  BY <1>3, Here
<1>7. UNCHANGED <<env, received, crashed, answered, server, req, groups>> /\ it.groups \subseteq groups /\ (~it.there => it = NoItem)
  BY <1>2, <1>3, <1>5
<1> QED BY <1>4, <1>5, <1>6, <1>7, ItemPut

(* The first stanza is taken, and it answers no edit.                         *)
LEMMA TakesOther ==
  ASSUME NEW F, Sound(F), Take, Head(toClient).kind # "answer"
  PROVE  /\ toClient' \in Seq(Downward) /\ Head(toClient) \in Downward
         /\ \A d \in Contacts : Steady(toClient, toClient', "answer", d)
         /\ Calm(env) => \A d \in Contacts : Warned(toClient', d)
         /\ UNCHANGED <<env, preAuth, server, answered>> /\ toClient # <<>>
<1>1. toClient # <<>> /\ toClient' = Tail(toClient) /\ UNCHANGED <<env, preAuth, server, answered>>
  BY DEF Take
<1>2. toClient \in Seq(Downward) /\ (Calm(env) => \A d \in Contacts : Warned(toClient, d))
  BY Here
<1>3. toClient' \in Seq(Downward) /\ Head(toClient) \in Downward
  BY <1>1, <1>2, Taken
<1>4. \A d \in Contacts : Steady(toClient, toClient', "answer", d)
  BY <1>1, <1>2, SteadyTail
<1>5. Calm(env) => \A d \in Contacts : Warned(toClient', d)
  BY <1>1, <1>2, WarnedTail
<1> QED BY <1>1, <1>3, <1>4, <1>5

LEMMA PresenceReceivedKeeps == ASSUME NEW F, Sound(F), PresenceReceived PROVE Sound(F)'
<1>1. PICK m : m = Head(toClient)
  OBVIOUS
<1>2. PICK c, t : c = m.c /\ t = m.type
  OBVIOUS
<1>3. PICK it : it = Ensure(c)
  OBVIOUS
<1>4. PICK new : new = Hears(it, t)
  OBVIOUS
<1>5. /\ Take /\ m.kind = "presence" /\ item' = [item EXCEPT ![c] = new]
      /\ toServer' = IF t = "subscribe"
                     THEN IF c \in preAuth THEN Append(toServer, Presence(c, "subscribed")) ELSE toServer
                     ELSE IF new # it THEN Append(toServer, Presence(c, Ack(t))) ELSE toServer
      /\ UNCHANGED <<received, groups, req, crashed>>
  BY <1>1, <1>2, <1>3, <1>4 DEF PresenceReceived
<1>6. /\ toClient' \in Seq(Downward) /\ m \in Downward
      /\ \A d \in Contacts : Steady(toClient, toClient', "answer", d)
      /\ Calm(env) => \A d \in Contacts : Warned(toClient', d)
      /\ UNCHANGED <<env, preAuth, server, answered>>
  BY <1>1, <1>5, TakesOther
<1>7. c \in Contacts /\ t \in Presences
  BY <1>2, <1>5, <1>6 DEF Downward
<1>8. /\ it \in ItemSet /\ it.there = TRUE /\ it.edit = item[c].edit /\ it.inFlight = item[c].inFlight
      /\ it.groups = item[c].groups /\ it.sub = item[c].sub
  BY <1>3, <1>7, Ensured
<1>9. /\ new \in ItemSet /\ new.there = TRUE /\ new.edit = item[c].edit /\ new.inFlight = item[c].inFlight
      /\ new.groups = item[c].groups /\ new.sub = item[c].sub /\ (t = "available" => new = it)
  <2>1. CASE t = "subscribe"
    <3>1. new = [it EXCEPT !.publish = "ask"]
      BY <1>4, <2>1 DEF Hears
    <3> QED BY <1>8, <2>1, <3>1 DEF ItemSet, States
  <2>2. CASE t = "subscribed"
    <3>1. new = [it EXCEPT !.subscribe = "yes"]
      BY <1>4, <2>2 DEF Hears
    <3> QED BY <1>8, <2>2, <3>1 DEF ItemSet, States
  <2>3. CASE t = "unsubscribe"
    <3>1. new = [it EXCEPT !.publish = IF @ \in {"yes", "ask"} THEN "removed" ELSE @]
      BY <1>4, <2>3 DEF Hears
    <3> QED BY <1>8, <2>3, <3>1 DEF ItemSet, States
  <2>4. CASE t = "unsubscribed"
    <3>1. new = [it EXCEPT !.subscribe = IF @ \in {"yes", "ask"} THEN "removed" ELSE @]
      BY <1>4, <2>4 DEF Hears
    <3> QED BY <1>8, <2>4, <3>1 DEF ItemSet, States
  <2>5. CASE t = "available"
    <3>1. new = it
      BY <1>4, <2>5 DEF Hears
    <3> QED BY <1>8, <3>1
  <2> QED BY <1>7, <2>1, <2>2, <2>3, <2>4, <2>5 DEF Presences
<1>10. t # "subscribe" /\ t # "available" => Ack(t) \in Negotiations
  BY <1>7 DEF Ack, Negotiations, Presences
<1>11. "subscribed" \in Negotiations
  BY DEF Negotiations, Presences
<1>12. toServer' \in Seq(Upward) /\ \A d \in Contacts : Steady(toServer, toServer', "set", d)
  <2>1. \/ toServer' = toServer
        \/ \E a \in Negotiations : toServer' = Append(toServer, Presence(c, a))
    BY <1>5, <1>9, <1>10, <1>11
  <2>2. CASE toServer' = toServer
    BY <2>2, Here
  <2>3. ASSUME NEW a \in Negotiations, toServer' = Append(toServer, Presence(c, a))
        PROVE  toServer' \in Seq(Upward) /\ \A d \in Contacts : Steady(toServer, toServer', "set", d)
    BY <1>7, <2>3, Here, PresenceAppended
  <2> QED BY <2>1, <2>2, <2>3
<1>13. preAuth' \subseteq Contacts /\ new.groups \subseteq groups
  BY <1>6, <1>7, <1>9, Here, ItemKnown
<1> QED BY <1>5, <1>6, <1>7, <1>9, <1>12, <1>13, ItemPut

LEMMA Marked ==
  ASSUME NEW it \in ItemSet, NEW stored \in BOOLEAN, NEW blocked \in BOOLEAN,
         NEW new, new = [it EXCEPT !.stored = stored, !.blocked = blocked]
  PROVE  /\ new \in ItemSet /\ new.there = it.there /\ new.edit = it.edit /\ new.inFlight = it.inFlight
         /\ new.groups = it.groups /\ new.sub = it.sub
BY DEF ItemSet

(* What process_roster makes of the item old.                                 *)
Mirrors(it, old, d) ==
  /\ it \in ItemSet /\ it.there = TRUE /\ it.edit = old.edit /\ it.inFlight = old.inFlight
  /\ it.groups = d.groups /\ it.sub = d.sub

LEMMA ProcessedTyped ==
  ASSUME NEW F, Sound(F), NEW c \in Contacts, NEW d \in ContentSet(Subscribed \cup {"remove"}),
         NEW r, r = Processed(c, d)
  PROVE  Mirrors(r.it, item[c], d)
<1>1. PICK e : e = Ensure(c)
  OBVIOUS
<1>2. e \in ItemSet /\ e.there = TRUE /\ e.edit = item[c].edit /\ e.inFlight = item[c].inFlight
  BY <1>1, Ensured
<1>3. PICK u : u = Update(c, d)
  OBVIOUS
<1>4. PICK type, name : type = (IF env.google THEN d.type ELSE e.type) /\ name = IF d.sub = "remove" THEN NoName ELSE d.name
  OBVIOUS
<1>5. /\ type \in Types /\ name \in Names \cup {NoName} /\ d.ask \in BOOLEAN /\ d.groups \in SUBSET Groups /\ d.sub \in Subscriptions
  BY <1>2, <1>4 DEF ItemSet, ContentSet, Subscribed, Subscriptions
<1>6. u = [e EXCEPT !.sub = d.sub, !.ask = d.ask, !.type = type, !.name = name, !.groups = d.groups]
  BY <1>1, <1>3, <1>4 DEF Update
<1>7. /\ u \in ItemSet /\ u.there = TRUE /\ u.edit = item[c].edit /\ u.inFlight = item[c].inFlight
      /\ u.groups = d.groups /\ u.sub = d.sub
  BY <1>2, <1>5, <1>6 DEF ItemSet
<1>8. PICK hide : hide = (env.google /\ ~ShouldKeep(u))
  OBVIOUS
<1>9. PICK p, s, f, st, b :
        /\ p = Publish(u, hide) /\ s = Subscribe(u, hide) /\ f = Flicker(u)
        /\ st = (u.sub # "remove" /\ (hide => "ask" \in {p, s}))
        /\ b = IF env.google THEN u.sub # "remove" /\ u.type = "blocked" ELSE u.blocked
  OBVIOUS
<1>10. u.publish \in States /\ u.subscribe \in States /\ u.flicker \in BOOLEAN /\ u.blocked \in BOOLEAN
  BY <1>7 DEF ItemSet
<1>11. p \in States
  BY <1>9, <1>10 DEF Publish, States
<1>12. s \in States
  BY <1>9, <1>10 DEF Subscribe, States
<1>13. f \in BOOLEAN
  BY <1>9, <1>10 DEF Flicker
<1>14. st \in BOOLEAN /\ b \in BOOLEAN
  BY <1>9, <1>10
<1>15. PICK it : it = [u EXCEPT !.publish = p, !.subscribe = s, !.flicker = f, !.stored = st, !.blocked = b]
  OBVIOUS
<1>16. r.it = it
  BY <1>3, <1>8, <1>9, <1>15 DEF Processed
<1>17. PICK v : v = [u EXCEPT !.publish = p, !.subscribe = s, !.flicker = f]
  OBVIOUS
<1>18. /\ v \in ItemSet /\ v.there = TRUE /\ v.edit = item[c].edit /\ v.inFlight = item[c].inFlight
       /\ v.groups = d.groups /\ v.sub = d.sub
  BY <1>7, <1>11, <1>12, <1>13, <1>17 DEF ItemSet
<1>19. it = [v EXCEPT !.stored = st, !.blocked = b]
  BY <1>15, <1>17
<1>20. it \in ItemSet /\ it.there = TRUE /\ it.edit = item[c].edit /\ it.inFlight = item[c].inFlight
       /\ it.groups = d.groups /\ it.sub = d.sub
  BY <1>14, <1>18, <1>19, Marked
<1>21. Mirrors(it, item[c], d)
  BY <1>20 DEF Mirrors
<1> QED BY <1>16, <1>21

LEMMA RosterPushKeeps == ASSUME NEW F, Sound(F), RosterPush PROVE Sound(F)'
<1>1. PICK m : m = Head(toClient)
  OBVIOUS
<1>2. PICK c, data : c = m.c /\ data = m.data
  OBVIOUS
<1>10. PICK p : p = Processed(c, data)
  OBVIOUS
<1>3. /\ Take /\ m.kind = "push" /\ item' = [item EXCEPT ![c] = MaybeRemove(p.it)]
      /\ groups' = groups \cup m.data.groups /\ req' = Countdown(req, For(c, FreedWith(p.it)))
      /\ UNCHANGED <<received, toServer, crashed>>
  BY <1>1, <1>2, <1>10 DEF RosterPush
<1>4. /\ toClient' \in Seq(Downward) /\ m \in Downward /\ toClient # <<>>
      /\ \A d \in Contacts : Steady(toClient, toClient', "answer", d)
      /\ Calm(env) => \A d \in Contacts : Warned(toClient', d)
      /\ UNCHANGED <<env, preAuth, server, answered>>
  BY <1>1, <1>3, TakesOther
<1>5. c \in Contacts /\ m.data \in ContentSet(Subscribed \cup {"remove"})
  BY <1>2, <1>3, <1>4 DEF Downward
<1>6. PICK it : /\ p.it = it
                /\ it \in ItemSet /\ it.there = TRUE /\ it.edit = item[c].edit /\ it.inFlight = item[c].inFlight
                /\ it.groups = data.groups /\ it.sub = data.sub
  <2>1. data \in ContentSet(Subscribed \cup {"remove"})
    BY <1>2, <1>5
  <2>2. Mirrors(p.it, item[c], data)
    BY <1>5, <1>10, <2>1, ProcessedTyped
  <2>3. PICK x : x = p.it
    OBVIOUS
  <2>4. Mirrors(x, item[c], data)
    BY <2>2, <2>3
  <2> QED BY <2>3, <2>4 DEF Mirrors
<1>7. ASSUME Calm(env) PROVE Peaceful(it, F[c])
  <2>1. it.sub # "invalid"
    BY <1>2, <1>5, <1>6 DEF ContentSet, Subscribed
  <2>2. ASSUME NEW e \in F[c], e.sub = "invalid" PROVE it.sub # "remove"
    <3>1. Flies(toServer, toClient, c, item[c].inFlight, F[c]) /\ Warned(toClient, c)
      BY <1>5, <1>7, ItemKnown
    <3>2. NoneOf(toClient, "answer", c) \/ \E x : OneOf(toClient, "answer", c, x) /\ x.edit.sub # "remove"
      BY <2>2, <3>1 DEF Flies
    <3>3. \A i \in 1..Len(toClient) : ~Gone(toClient[i], c)
      BY <3>1, <3>2, NoneGone
    <3>4. ~Gone(m, c)
      <4>1. toClient \in Seq(Downward)
        BY Here
      <4>2. 1 \in 1..Len(toClient) /\ m = toClient[1]
        BY <1>1, <1>4, <4>1, Taken
      <4> QED BY <3>3, <4>2
    <3> QED BY <1>2, <1>3, <1>6, <3>4 DEF Gone
  <2> QED BY <2>1, <2>2 DEF Peaceful
<1>8. toServer' \in Seq(Upward) /\ \A d \in Contacts : Steady(toServer, toServer', "set", d)
  BY <1>3, Here
<1>9. groups \subseteq groups' /\ it.groups \subseteq groups'
  BY <1>2, <1>3, <1>6
<1> QED BY <1>3, <1>4, <1>5, <1>6, <1>7, <1>8, <1>9, ItemCleared

LEMMA NewRequest ==
  ASSUME NEW kind \in UserOps, NEW cs \in SUBSET Contacts, NEW g \in Groups \cup {""}, NEW q, q = Request(kind, cs, g)
  PROVE  q \in RequestSet /\ q.todo = 0 /\ q.state = "waiting"
BY DEF Request, RequestSet

LEMMA RemoveTransientKeeps == ASSUME NEW F, Sound(F), NEW c \in Contacts, RemoveTransient(c) PROVE Sound(F)'
<1>1. PICK it, q : it = [item[c] EXCEPT !.publish = "no", !.subscribe = "no"] /\ q = Request("remove", {c}, "")
  OBVIOUS
<1>2. /\ item[c].there /\ Forgettable(it) /\ item' = [item EXCEPT ![c] = NoItem]
      /\ req' = Countdown(Append(req, q), For(c, it.edit.results))
      /\ UNCHANGED <<env, received, server, toClient, answered, groups, preAuth, toServer, crashed>>
  BY <1>1 DEF RemoveTransient, Asks
<1>3. item[c] \in ItemSet /\ item \in [Contacts -> ItemSet] /\ req \in Seq(RequestSet) /\ preAuth' \subseteq Contacts
  BY <1>2, ItemKnown
<1>4. it.edit = item[c].edit /\ it.inFlight = item[c].inFlight
  BY <1>1, <1>3 DEF ItemSet
<1>5. ~item[c].inFlight /\ MaybeRemove(it) = NoItem /\ FreedWith(it) = it.edit.results
  BY <1>2, <1>4 DEF Forgettable, MaybeRemove, FreedWith
<1>6. q \in RequestSet /\ q.todo = 0 /\ q.state = "waiting"
  <2>1. "remove" \in UserOps
    BY DEF UserOps
  <2> QED BY <1>1, <2>1, NewRequest
<1>7. PICK H, H2 : /\ H = HeldBy(item, F)
                   /\ H2 = [d \in Contacts |-> IF d \in {} THEN H[d] \cup {Len(req) + 1} ELSE H[d]]
  OBVIOUS
<1>8. H \in [Contacts -> SUBSET Nat] /\ (\A d \in Contacts : H[d] \subseteq 1..Len(req)) /\ Exact(req, H)
  BY <1>7, HeldInRange DEF Sound, HeldBy
<1>9. H2 = H
  BY <1>7, <1>8
<1>10. PICK rs : rs = Append(req, q)
  OBVIOUS
<1>11. rs \in Seq(RequestSet) /\ Len(rs) = Len(req) + 1 /\ Counted(rs, H)
  <2>1. q.todo = Cardinality({}) /\ {} \in SUBSET Contacts
    BY <1>6, FS_EmptySet
  <2> QED BY <1>3, <1>6, <1>7, <1>8, <1>9, <1>10, <2>1, OneMoreRequest
<1>12. req' \in Seq(RequestSet) /\ Len(req') = Len(rs) /\ Exact(req', HeldBy(item', F))
  <2>1. item' = [item EXCEPT ![c] = MaybeRemove(it)] /\ req' = Countdown(rs, For(c, FreedWith(it)))
    BY <1>2, <1>5, <1>10
  <2>2. H = HeldBy(item, F)
    BY <1>7
  <2> QED BY <1>4, <1>11, <2>1, <2>2, Released
<1>13. Len(req) <= Len(req')
  BY <1>11, <1>12, HeldInRange
<1>14. item' \in [Contacts -> ItemSet]
  BY <1>2, <1>3, NothingTyped
<1>15. ASSUME NEW d \in Contacts
       PROVE  /\ item'[d].groups \subseteq groups'
              /\ \/ /\ item'[d].edit = item[d].edit /\ item'[d].inFlight = item[d].inFlight
                    /\ ~item'[d].there => item'[d] = NoItem
                 \/ item'[d] = NoItem /\ ~item[d].inFlight
              /\ Calm(env) => Peaceful(item'[d], F[d])
  <2>1. CASE d # c
    <3>1. item'[d] = item[d]
      BY <1>2, <1>3, <2>1
    <3> QED BY <1>2, <3>1, ItemKnown
  <2>2. CASE d = c
    <3>1. item'[d] = NoItem /\ ~item[d].inFlight
      BY <1>2, <1>3, <1>5, <2>2
    <3>2. F[d] = {}
      BY <3>1, ItemKnown
    <3>3. Peaceful(NoItem, F[d]) /\ NoItem.groups = {}
      BY <3>2, KeptGone DEF Peaceful
    <3> QED BY <3>1, <3>3
  <2> QED BY <2>1, <2>2
<1>16. /\ toServer' \in Seq(Upward) /\ (\A d \in Contacts : Steady(toServer, toServer', "set", d))
       /\ toClient' \in Seq(Downward) /\ (\A d \in Contacts : Steady(toClient, toClient', "answer", d))
       /\ Calm(env) => \A d \in Contacts : Warned(toClient', d)
  BY <1>2, Here
<1> QED BY <1>2, <1>3, <1>12, <1>13, <1>14, <1>15, <1>16, ItemMoves

LEMMA InSomeOrder ==
  ASSUME NEW S, IsFiniteSet(S)
  PROVE  Cardinality(S) \in Nat /\ \A i \in 1..Cardinality(S) : SetToSeq(S)[i] \in S
<1>1. Cardinality(S) \in Nat /\ ExistsBijection(1..Cardinality(S), S)
  BY FS_CardinalityType
<1>2. PICK f \in [1..Cardinality(S) -> S] : IsInjective(f)
  BY <1>1 DEF ExistsBijection, Bijection, Injection, IsInjective
<1>3. SetToSeq(S) \in [1..Cardinality(S) -> S]
  BY <1>2 DEF SetToSeq
<1> QED BY <1>1, <1>3

LEMMA CompleteKeeps == ASSUME NEW F, Sound(F), NEW r \in DOMAIN req, Complete(r) PROVE Sound(F)'
<1>1. PICK q : q = req[r]
  OBVIOUS
<1>2. PICK dissolves, subscribes :
        /\ dissolves = (q.kind = "dissolve" /\ {c \in Contacts : q.group \in item[c].groups} \subseteq q.contacts)
        /\ subscribes = {c \in q.contacts : q.kind = "subscribe" /\ item[c].sub \notin {"to", "both"}}
  OBVIOUS
<1>3. /\ q.state = "idle" /\ req' = [req EXCEPT ![r].state = "done"]
      /\ toServer' = toServer \o [i \in 1 .. Cardinality(subscribes) |-> Presence(SetToSeq(subscribes)[i], "subscribe")]
      /\ groups' = IF dissolves THEN groups \ {q.group} ELSE groups
      /\ item' = [c \in Contacts |-> IF dissolves THEN [item[c] EXCEPT !.groups = @ \ {q.group}] ELSE item[c]]
      /\ UNCHANGED <<env, received, preAuth, server, toClient, answered, crashed>>
  BY <1>1, <1>2 DEF Complete
<1>4. /\ req \in Seq(RequestSet) /\ DOMAIN req = 1..Len(req) /\ Len(req) \in Nat /\ item \in [Contacts -> ItemSet]
      /\ \A i \in 1..Len(req) : req[i] \in RequestSet
  BY LenProperties, ElementOfSeq DEF Sound, Typed
<1>5. q \in RequestSet
  BY <1>1, <1>4
<1>6. PICK q2 : q2 = [q EXCEPT !.state = "done"]
  OBVIOUS
<1>7. q2 \in RequestSet /\ q2.todo = q.todo /\ q2.state = "done"
  BY <1>5, <1>6 DEF RequestSet
<1>8. req' \in Seq(RequestSet) /\ Len(req') = Len(req) /\ req'[r] = q2 /\ \A i \in 1..Len(req) : i # r => req'[i] = req[i]
  <2>1. req' = [req EXCEPT ![r] = q2]
    BY <1>1, <1>3, <1>4, <1>6
  <2>2. req' \in [1..Len(req) -> RequestSet]
    <3>1. req \in [1..Len(req) -> RequestSet]
      BY <1>4
    <3> QED BY <1>7, <2>1, <3>1
  <2>3. req' \in Seq(RequestSet) /\ Len(req') = Len(req)
    BY <1>4, <2>2
  <2> QED BY <1>4, <2>1, <2>3
<1>9. \A d \in Contacts : /\ item'[d] \in ItemSet /\ item'[d].edit = item[d].edit /\ item'[d].inFlight = item[d].inFlight
                          /\ (~item'[d].there => item'[d] = NoItem) /\ item'[d].sub = item[d].sub
                          /\ item'[d].groups \subseteq groups'
  <2> SUFFICES ASSUME NEW d \in Contacts
               PROVE  /\ item'[d] \in ItemSet /\ item'[d].edit = item[d].edit /\ item'[d].inFlight = item[d].inFlight
                      /\ (~item'[d].there => item'[d] = NoItem) /\ item'[d].sub = item[d].sub
                      /\ item'[d].groups \subseteq groups'
    OBVIOUS
  <2>1. item[d] \in ItemSet /\ item[d].groups \subseteq groups /\ (~item[d].there => item[d] = NoItem)
    BY ItemKnown
  <2>2. CASE ~dissolves
    <3>1. item'[d] = item[d] /\ groups' = groups
      BY <1>3, <2>2
    <3> QED BY <2>1, <3>1
  <2>3. CASE dissolves
    <3>1. PICK gs : gs = item[d].groups \ {q.group}
      OBVIOUS
    <3>2. item'[d] = [item[d] EXCEPT !.groups = gs] /\ groups' = groups \ {q.group}
      BY <1>3, <2>3, <3>1
    <3>3. item[d].groups \in SUBSET Groups
      BY <2>1 DEF ItemSet
    <3>4. gs \in SUBSET Groups /\ gs \subseteq groups'
      BY <2>1, <3>1, <3>2, <3>3
    <3>5. /\ item'[d] \in ItemSet /\ item'[d].edit = item[d].edit /\ item'[d].inFlight = item[d].inFlight
          /\ item'[d].sub = item[d].sub /\ item'[d].groups = gs /\ item'[d].there = item[d].there
      BY <2>1, <3>2, <3>4 DEF ItemSet
    <3>6. ASSUME ~item[d].there PROVE item'[d] = NoItem
      <4>1. item[d] = NoItem /\ gs = {}
        BY <2>1, <3>1, <3>6, KeptGone
      <4>2. item'[d] = [NoItem EXCEPT !.groups = {}]
        BY <3>2, <4>1
      <4>3. [NoItem EXCEPT !.groups = {}] = NoItem
        <5>1. \A x \in ItemSet : x.groups = {} => [x EXCEPT !.groups = {}] = x
          BY DEF ItemSet
        <5> QED BY <5>1, NothingTyped, <4>1, <3>1, <2>1, KeptGone
      <4> QED BY <4>2, <4>3
    <3> QED BY <3>4, <3>5, <3>6
  <2> QED BY <2>2, <2>3
<1>10. item' \in [Contacts -> ItemSet]
  <2>1. item' = [c \in Contacts |-> item'[c]]
    BY <1>3
  <2> QED BY <1>9, <2>1
<1>11. PICK H : H = HeldBy(item, F)
  OBVIOUS
<1>12. HeldBy(item', F) = H
  BY <1>9, <1>11 DEF Held, HeldBy
<1>13. Exact(req', H)
  <2>1. Exact(req, H)
    BY <1>11 DEF Sound
  <2>2. ASSUME NEW i \in 1..Len(req')
        PROVE  req'[i].todo = Cardinality(HoldersOf(i, H)) /\ (req'[i].state = "waiting" <=> HoldersOf(i, H) # {})
    <3>1. req[i].todo = Cardinality(HoldersOf(i, H)) /\ (req[i].state = "waiting" <=> HoldersOf(i, H) # {})
      BY <1>8, <2>1, <2>2 DEF Exact
    <3> QED BY <1>1, <1>3, <1>7, <1>8, <3>1
  <2> QED BY <2>2 DEF Exact
<1>14. PICK s : s = [i \in 1 .. Cardinality(subscribes) |-> Presence(SetToSeq(subscribes)[i], "subscribe")]
  OBVIOUS
<1>15. s \in Seq(Upward) /\ \A d : NoneOf(s, "set", d)
  <2>1. subscribes \in SUBSET Contacts
    BY <1>2, <1>5 DEF RequestSet
  <2>2. IsFiniteSet(subscribes)
    BY <2>1, ConstantsAssumption, FS_Subset
  <2>3. Cardinality(subscribes) \in Nat /\ \A i \in 1..Cardinality(subscribes) : SetToSeq(subscribes)[i] \in Contacts
    BY <2>1, <2>2, InSomeOrder
  <2>4. \A c \in Contacts : Presence(c, "subscribe") \in Upward /\ Presence(c, "subscribe").kind = "presence"
    BY DEF Presence, Upward, Negotiations, Presences
  <2>5. \A i \in 1..Cardinality(subscribes) : s[i] \in Upward /\ s[i].kind = "presence"
    BY <1>14, <2>3, <2>4
  <2>6. s \in [1..Cardinality(subscribes) -> Upward]
    BY <1>14, <2>5
  <2>7. s \in Seq(Upward) /\ Len(s) = Cardinality(subscribes)
    BY <2>3, <2>6
  <2> QED BY <2>5, <2>7 DEF NoneOf
<1>16. toServer' \in Seq(Upward) /\ \A d \in Contacts : Steady(toServer, toServer', "set", d)
  <2>1. toServer \in Seq(Upward) /\ toServer' = toServer \o s
    BY <1>3, <1>14, Here
  <2> QED BY <1>15, <2>1, ConcatProperties, SteadyAppend
<1>17. /\ toClient' \in Seq(Downward) /\ (\A d \in Contacts : Steady(toClient, toClient', "answer", d))
       /\ (Calm(env) => \A d \in Contacts : Warned(toClient', d)) /\ preAuth' \subseteq Contacts
  BY <1>3, Here
<1>18. Calm(env) => \A d \in Contacts : Peaceful(item'[d], F[d])
  <2>1. Calm(env) => \A d \in Contacts : Peaceful(item[d], F[d])
    BY ItemKnown
  <2> QED BY <1>9, <2>1 DEF Peaceful
<1>19. Exact(req', HeldBy(item', F)) /\ Len(req) <= Len(req')
  BY <1>4, <1>8, <1>12, <1>13
<1> QED BY <1>3, <1>8, <1>9, <1>10, <1>16, <1>17, <1>18, <1>19, ItemMoves

-----------------------------------------------------------------------------
(* Items are edited: what Kept says of an item but that its edits are sent.   *)

Queued(it, F, ready, n) ==
  /\ ~it.there => it = NoItem
  /\ ~it.edit.there => it.edit = NoEdit
  /\ it.inFlight => ready
  /\ it.edit.results \subseteq 1..n
  /\ \A e \in F : e.results \subseteq 1..n /\ e.results \cap it.edit.results = {}

(* What Apply leaves of the item it and of the edits F in flight.             *)
Sends(up, down, c, it, F, ready, n, r, G) ==
  /\ Flies(up, down, c, r.it.inFlight, G) /\ Kept(r.it, G, ready, n)
  /\ r.freed \subseteq Held(it, F) /\ Held(r.it, G) = Held(it, F) \ r.freed
  /\ Peaceful(it, F) => Peaceful(r.it, G) /\ r.fails = FALSE

LEMMA Applied ==
  ASSUME NEW ready \in BOOLEAN, NEW c \in Contacts, NEW it \in ItemSet, NEW n \in Nat,
         NEW up \in Seq(Upward), NEW down \in Seq(Downward), NEW F, Flies(up, down, c, it.inFlight, F), Queued(it, F, ready, n),
         NEW r, Outcome(ready, c, it, r), NEW s \in Seq(Upward),
         NoneOf(r.sent, "set", c) => NoneOf(s, "set", c), \A m : OneOf(r.sent, "set", c, m) => OneOf(s, "set", c, m),
         NEW up2, up2 = up \o s
  PROVE  \E G : Sends(up2, down, c, it, F, ready, n, r, G)
<1>1. r.it \in ItemSet /\ r.it.there = it.there /\ r.it.sub = it.sub
  BY DEF Outcome
<1>2. it.inFlight \in BOOLEAN /\ it.edit \in EditSet
  BY DEF ItemSet
<1>3. ~it.inFlight => F = {} /\ NoneOf(up, "set", c) /\ NoneOf(down, "answer", c)
  BY DEF Flies
<1>4. NoEdit.results = {} /\ NoEdit.there = FALSE
  BY DEF NoEdit
<1>5. CASE HeldBack(ready, it) /\ r.it = it /\ NoneOf(r.sent, "set", c) /\ r.freed = {} /\ r.fails = FALSE
  <2>1. Steady(up, up2, "set", c) /\ Steady(down, down, "answer", c)
    <3>1. NoneOf(s, "set", c)
      BY <1>5
    <3>2. Steady(up, up2, "set", c)
      BY <3>1, SteadyAppend
    <3> QED BY <3>2 DEF Steady
  <2>2. Flies(up2, down, c, it.inFlight, F)
    BY <2>1, FliesOn
  <2>3. Kept(it, F, ready, n)
    BY <1>5 DEF HeldBack, Kept, Queued
  <2>4. {} \subseteq Held(it, F) /\ Held(it, F) = Held(it, F) \ {}
    OBVIOUS
  <2>5. Sends(up2, down, c, it, F, ready, n, r, F)
    BY <1>5, <2>2, <2>3, <2>4 DEF Sends
  <2> QED BY <2>5
<1>6. ASSUME ~HeldBack(ready, it) PROVE ready /\ ~it.inFlight /\ it.there
  <2>1. ready /\ ~it.inFlight /\ it.edit.there
    BY <1>6 DEF HeldBack
  <2>2. ~it.there => it.edit = NoEdit
    BY NothingTyped DEF Queued
  <2> QED BY <1>4, <2>1, <2>2
<1>7. CASE /\ ~HeldBack(ready, it) /\ r.it.edit = NoEdit /\ r.it.inFlight = it.inFlight
           /\ NoneOf(r.sent, "set", c) /\ r.freed = it.edit.results /\ r.fails = FALSE
  <2>1. F = {} /\ NoneOf(up, "set", c) /\ NoneOf(down, "answer", c) /\ ~r.it.inFlight /\ ready /\ r.it.there
    BY <1>1, <1>3, <1>6, <1>7
  <2>2. NoneOf(up2, "set", c)
    BY <1>7, <2>1, AppendNone
  <2>3. Flies(up2, down, c, r.it.inFlight, {})
    BY <2>1, <2>2 DEF Flies
  <2>4. Kept(r.it, {}, ready, n)
    BY <1>4, <1>7, <2>1 DEF Kept
  <2>5. Held(it, F) = it.edit.results /\ Held(r.it, {}) = {}
    BY <1>4, <1>7, <2>1 DEF Held, Carried
  <2>6. r.freed \subseteq Held(it, F) /\ Held(r.it, {}) = Held(it, F) \ r.freed
    BY <1>7, <2>5
  <2>7. Peaceful(it, F) => Peaceful(r.it, {})
    BY <1>1 DEF Peaceful
  <2>8. Sends(up2, down, c, it, F, ready, n, r, {})
    BY <1>7, <2>3, <2>4, <2>6, <2>7 DEF Sends
  <2> QED BY <2>8
<1>8. CASE /\ ~HeldBack(ready, it) /\ r.it.edit = NoEdit /\ r.it.inFlight /\ r.freed = {}
           /\ r.fails \in BOOLEAN /\ (r.fails => it.sub = "invalid")
           /\ \E m : /\ OneOf(r.sent, "set", c, m) /\ m.edit \in EditSet /\ m.edit.results = it.edit.results
                     /\ m.edit.sub = "invalid" => it.sub # "remove"
  <2>1. F = {} /\ NoneOf(up, "set", c) /\ NoneOf(down, "answer", c) /\ ready /\ r.it.there
    BY <1>1, <1>3, <1>6, <1>8
  <2>2. PICK m : /\ OneOf(r.sent, "set", c, m) /\ m.edit.results = it.edit.results
                 /\ m.edit.sub = "invalid" => it.sub # "remove"
    BY <1>8
  <2>3. OneOf(up2, "set", c, m)
    <3>1. OneOf(s, "set", c, m)
      BY <2>2
    <3> QED BY <2>1, <3>1, AppendOne
  <2>4. PICK G : G = {m.edit}
    OBVIOUS
  <2>5. Flies(up2, down, c, r.it.inFlight, G)
    BY <1>8, <2>1, <2>3, <2>4 DEF Flies
  <2>6. Kept(r.it, G, ready, n)
    <3>1. it.edit.results \subseteq 1..n
      BY DEF Queued
    <3>2. \A e \in G : e.results \subseteq 1..n /\ e.results \cap {} = {}
      BY <2>2, <2>4, <3>1
    <3> QED BY <1>4, <1>8, <2>1, <3>2 DEF Kept
  <2>7. Held(it, F) = it.edit.results /\ Held(r.it, G) = it.edit.results
    BY <1>4, <1>8, <2>1, <2>2, <2>4 DEF Held, Carried
  <2>8. r.freed \subseteq Held(it, F) /\ Held(r.it, G) = Held(it, F) \ r.freed
    BY <1>8, <2>7
  <2>9. Peaceful(it, F) => Peaceful(r.it, G)
    BY <1>1, <2>2, <2>4 DEF Peaceful
  <2>10. Peaceful(it, F) => r.fails = FALSE
    BY <1>8 DEF Peaceful
  <2>11. Sends(up2, down, c, it, F, ready, n, r, G)
    BY <2>5, <2>6, <2>8, <2>9, <2>10 DEF Sends
  <2> QED BY <2>11
<1> QED BY <1>5, <1>7, <1>8 DEF Outcome

(* The items queued of the contacts cs are applied one after the other; rs    *)
(* are the requests before any of them is counted down.                       *)
LEMMA Batch ==
  ASSUME NEW F, Sound(F), NEW cs \in SUBSET Contacts, NEW queued \in [cs -> ItemSet], NEW n \in Nat,
         UNCHANGED <<env, answered, server>>, received' \in BOOLEAN, preAuth' \subseteq Contacts,
         \A c \in cs : queued[c].inFlight = item[c].inFlight /\ Queued(queued[c], F[c], received', n),
         \A c \in Contacts \ cs : Kept(item[c], F[c], received', n),
         NEW done, \A c \in cs : Outcome(received', c, queued[c], done[c]),
         item' = [c \in Contacts |-> IF c \in cs THEN done[c].it ELSE item[c]],
         NEW s \in SentInTurn([c \in cs |-> done[c].sent]), toServer' = toServer \o s,
         NEW rs \in Seq(RequestSet), Len(rs) = n,
         NEW H, H = [c \in Contacts |-> IF c \in cs THEN Held(queued[c], F[c]) ELSE Held(item[c], F[c])], Counted(rs, H),
         NEW freed, freed = [c \in Contacts |-> IF c \in cs THEN done[c].freed ELSE {}], req' = Countdown(rs, freed),
         crashed' = (crashed \/ \E c \in cs : done[c].fails),
         toClient' \in Seq(Downward), \A c \in Contacts : Steady(toClient, toClient', "answer", c),
         \A c \in cs : queued[c].groups \subseteq groups', \A c \in Contacts \ cs : item[c].groups \subseteq groups',
         Calm(env) => (\A c \in cs : Peaceful(queued[c], F[c])) /\ \A c \in Contacts : Warned(toClient', c)
  PROVE  \E G : Sound(G)'
<1>1. toServer \in Seq(Upward) /\ toClient \in Seq(Downward) /\ item \in [Contacts -> ItemSet] /\ crashed \in BOOLEAN
  BY DEF Sound, Typed
<1>2. PICK sent : sent = [c \in cs |-> done[c].sent]
  OBVIOUS
<1>3. sent \in [cs -> Seq(Upward)] /\ \A c \in cs : \A k \in 1..Len(sent[c]) : sent[c][k].c = c
  BY <1>2 DEF Outcome
<1>4. /\ s \in Seq(Upward)
      /\ \A c \in Contacts \ cs : NoneOf(s, "set", c)
      /\ \A c \in cs : NoneOf(sent[c], "set", c) => NoneOf(s, "set", c)
      /\ \A c \in cs : \A m : OneOf(sent[c], "set", c, m) => OneOf(s, "set", c, m)
  <2>1. s \in SentInTurn(sent)
    BY <1>2
  <2> QED BY <1>3, <2>1, InTurn
<1>5. toServer' \in Seq(Upward)
  BY <1>1, <1>4, ConcatProperties
<1>6. \A c \in Contacts : Flies(toServer, toClient', c, item[c].inFlight, F[c])
  <2> SUFFICES ASSUME NEW c \in Contacts PROVE Flies(toServer, toClient', c, item[c].inFlight, F[c])
    OBVIOUS
  <2>1. Flies(toServer, toClient, c, item[c].inFlight, F[c]) /\ Steady(toServer, toServer, "set", c)
    BY Here, ItemKnown
  <2> QED BY <2>1, FliesOn
<1>7. ASSUME NEW c \in cs PROVE \E G : Sends(toServer', toClient', c, queued[c], F[c], received', n, done[c], G)
  <2>1. Flies(toServer, toClient', c, queued[c].inFlight, F[c]) /\ queued[c] \in ItemSet /\ c \in Contacts
    BY <1>6
  <2>2. PICK r : r = done[c]
    OBVIOUS
  <2>3. sent[c] = r.sent
    BY <1>2, <2>2
  <2>4. Outcome(received', c, queued[c], r) /\ Queued(queued[c], F[c], received', n)
    BY <2>2
  <2>5. /\ NoneOf(r.sent, "set", c) => NoneOf(s, "set", c)
        /\ \A m : OneOf(r.sent, "set", c, m) => OneOf(s, "set", c, m)
    BY <1>4, <2>3
  <2>6. \E G : Sends(toServer', toClient', c, queued[c], F[c], received', n, r, G)
    BY <1>1, <1>4, <2>1, <2>4, <2>5, Applied
  <2> QED BY <2>2, <2>6
<1>8. PICK G : G = [c \in Contacts |-> IF c \in cs
                                       THEN CHOOSE g : Sends(toServer', toClient', c, queued[c], F[c], received', n, done[c], g)
                                       ELSE F[c]]
  OBVIOUS
<1>9. /\ \A c \in cs : Sends(toServer', toClient', c, queued[c], F[c], received', n, done[c], G[c])
      /\ \A c \in Contacts \ cs : G[c] = F[c]
  BY <1>7, <1>8
<1>10. (\A c \in cs : item'[c] = done[c].it) /\ \A c \in Contacts \ cs : item'[c] = item[c]
  OBVIOUS
<1>11. item' \in [Contacts -> ItemSet]
  <2>1. \A c \in cs : done[c].it \in ItemSet
    BY DEF Outcome
  <2> QED BY <1>1, <2>1
<1>12. H \in [Contacts -> SUBSET Nat]
  <2>3. HeldBy(item, F) \in [Contacts -> SUBSET Nat]
    BY HeldInRange
  <2>1. \A c \in Contacts : Held(item[c], F[c]) \in SUBSET Nat
    BY <2>3 DEF HeldBy
  <2>2. \A c \in cs : Held(queued[c], F[c]) \in SUBSET Nat
    BY DEF Queued, Held, Carried
  <2> QED BY <2>1, <2>2
<1>13. ASSUME NEW c \in Contacts PROVE freed[c] \in SUBSET Nat /\ freed[c] \subseteq H[c] /\ H[c] \ freed[c] = Held(item'[c], G[c])
  <2>1. CASE c \in cs
    <3>1. Sends(toServer', toClient', c, queued[c], F[c], received', n, done[c], G[c])
      BY <1>9, <2>1
    <3>2. freed[c] = done[c].freed /\ H[c] = Held(queued[c], F[c]) /\ item'[c] = done[c].it
      BY <1>10, <2>1
    <3>3. done[c].freed \subseteq Held(queued[c], F[c]) /\ Held(done[c].it, G[c]) = Held(queued[c], F[c]) \ done[c].freed
      BY <3>1 DEF Sends
    <3> QED BY <1>12, <3>2, <3>3
  <2>2. CASE c \notin cs
    <3>1. freed[c] = {} /\ H[c] = Held(item[c], F[c]) /\ item'[c] = item[c] /\ G[c] = F[c]
      BY <1>9, <1>10, <2>2
    <3> QED BY <3>1
  <2> QED BY <2>1, <2>2
<1>14. freed \in [Contacts -> SUBSET Nat]
  <2>1. freed = [c \in Contacts |-> freed[c]]
    OBVIOUS
  <2> QED BY <1>13, <2>1
<1>15. PICK H2 : H2 = [c \in Contacts |-> H[c] \ freed[c]]
  OBVIOUS
<1>16. req' \in Seq(RequestSet) /\ Len(req') = n /\ Exact(req', H2)
  <2>1. \A c \in Contacts : freed[c] \subseteq H[c]
    BY <1>13
  <2>2. PICK rs2 : rs2 = Countdown(rs, freed)
    OBVIOUS
  <2>3. rs2 \in Seq(RequestSet) /\ Len(rs2) = Len(rs) /\ Exact(rs2, H2)
    BY <1>12, <1>14, <1>15, <2>1, <2>2, CountedDown
  <2> QED BY <2>2, <2>3
<1>17. H2 = HeldBy(item', G)
  BY <1>13, <1>15 DEF HeldBy
<1>18. ASSUME NEW c \in Contacts
       PROVE  /\ Flies(toServer', toClient', c, item'[c].inFlight, G[c]) /\ Kept(item'[c], G[c], received', n)
              /\ item'[c].groups \subseteq groups'
  <2>1. CASE c \in cs
    <3>1. Sends(toServer', toClient', c, queued[c], F[c], received', n, done[c], G[c]) /\ item'[c] = done[c].it
      BY <1>9, <1>10, <2>1
    <3>2. done[c].it.groups = queued[c].groups
      BY <2>1 DEF Outcome
    <3> QED BY <2>1, <3>1, <3>2 DEF Sends
  <2>2. CASE c \notin cs
    <3>1. item'[c] = item[c] /\ G[c] = F[c]
      BY <1>9, <1>10, <2>2
    <3>2. Steady(toServer, toServer', "set", c)
      BY <1>1, <1>4, <2>2, SteadyAppend
    <3>3. Steady(toClient', toClient', "answer", c)
      BY DEF Steady
    <3>4. Flies(toServer', toClient', c, item[c].inFlight, F[c])
      BY <1>6, <3>2, <3>3, FliesOn
    <3> QED BY <2>2, <3>1, <3>4
  <2> QED BY <2>1, <2>2
<1>19. ASSUME Calm(env) PROVE ~crashed' /\ \A c \in Contacts : Peaceful(item'[c], G[c])
  <2>1. ASSUME NEW c \in cs PROVE done[c].fails = FALSE /\ Peaceful(item'[c], G[c])
    <3>1. Sends(toServer', toClient', c, queued[c], F[c], received', n, done[c], G[c]) /\ item'[c] = done[c].it
      BY <1>9, <1>10, <2>1
    <3>2. Peaceful(queued[c], F[c])
      BY <1>19
    <3> QED BY <3>1, <3>2 DEF Sends
  <2>2. ASSUME NEW c \in Contacts \ cs PROVE Peaceful(item'[c], G[c])
    <3>1. item'[c] = item[c] /\ G[c] = F[c] /\ Peaceful(item[c], F[c])
      BY <1>9, <1>10, <1>19, ItemKnown
    <3> QED BY <3>1
  <2>3. ~crashed
    BY <1>19 DEF Sound
  <2>4. ~crashed'
    BY <2>1, <2>3
  <2> QED BY <2>1, <2>2, <2>4
<1>20. crashed' \in BOOLEAN
  OBVIOUS
<1>21. Typed'
  <2>1. env' \in Environments /\ answered' \in BOOLEAN /\ server' \in [Contacts -> EntrySet]
    BY ServerKeeps
  <2> QED BY <1>5, <1>11, <1>16, <1>20, <2>1 DEF Typed
<1>22. \A c \in Contacts : Rostered(server'[c])
  BY ServerKeeps
<1>23. Sound(G)'
  BY <1>16, <1>17, <1>18, <1>19, <1>21, <1>22 DEF Sound
<1> QED BY <1>23

(* The item it2 is the item it with another batch of edits.                   *)
Amends(it2, it) ==
  /\ it2 \in ItemSet /\ it2.there = TRUE /\ it2.inFlight = it.inFlight /\ it2.edit.results = it.edit.results
  /\ it2.sub = it.sub /\ it2.groups = it.groups

(* The batch is queued, for the requests R more.                              *)
Queue(it, R) == [it EXCEPT !.edit.there = TRUE, !.edit.results = it.edit.results \cup R]

(* The requests R are some of those after the first n of n2.                  *)
Later(R, n, n2) == n <= n2 /\ \A k \in R : k \in 1..n2 /\ k \notin 1..n

LEMMA Queues ==
  ASSUME NEW it, NEW F, NEW ready, NEW n \in Nat, Kept(it, F, ready, n), NEW it2, Amends(it2, it), NEW R, NEW n2 \in Nat, Later(R, n, n2),
         NEW it3, it3 = Queue(it2, R)
  PROVE  /\ it3 \in ItemSet /\ Queued(it3, F, ready, n2) /\ it3.inFlight = it.inFlight /\ it3.groups = it.groups
         /\ it3.sub = it.sub /\ Held(it3, F) = Held(it, F) \cup R
<1>1. it2 \in ItemSet /\ it2.edit \in EditSet /\ it2.edit.results = it.edit.results
  BY DEF Amends, ItemSet
<1>2. PICK e : e = [it2.edit EXCEPT !.there = TRUE, !.results = it2.edit.results \cup R]
  OBVIOUS
<1>3. it3 = [it2 EXCEPT !.edit = e]
  BY <1>1, <1>2 DEF ItemSet, EditSet, Queue
<1>4. it.edit.results \cup R \in SUBSET Nat /\ it.edit.results \cup R \subseteq 1..n2 /\ 1..n \subseteq 1..n2
  BY DEF Kept, Later
<1>5. e \in EditSet /\ e.results = it.edit.results \cup R /\ e.there = TRUE
  BY <1>1, <1>2, <1>4 DEF EditSet
<1>6. /\ it3 \in ItemSet /\ it3.edit = e /\ it3.there = TRUE /\ it3.inFlight = it2.inFlight /\ it3.sub = it2.sub
      /\ it3.groups = it2.groups
  BY <1>1, <1>3, <1>5 DEF ItemSet, Amends
<1>7. /\ it3 \in ItemSet /\ it3.edit = e /\ it3.there = TRUE /\ it3.inFlight = it.inFlight /\ it3.sub = it.sub
      /\ it3.groups = it.groups
  BY <1>6 DEF Amends
<1>8. ASSUME NEW x \in F PROVE x.results \subseteq 1..n2 /\ x.results \cap e.results = {}
  <2>1. x.results \subseteq 1..n /\ x.results \cap it.edit.results = {}
    BY DEF Kept
  <2>2. x.results \cap R = {}
    BY <2>1 DEF Later
  <2> QED BY <1>4, <1>5, <2>1, <2>2
<1>9. Queued(it3, F, ready, n2)
  <2>1. it.inFlight => ready
    BY DEF Kept
  <2> QED BY <1>4, <1>5, <1>7, <1>8, <2>1 DEF Queued
<1>10. Held(it3, F) = Held(it, F) \cup R
  BY <1>5, <1>7 DEF Held
<1> QED BY <1>7, <1>9, <1>10

(* No request comes with the edits, or one that waits for them.               *)
Fresh(new) == new = <<>> \/ \E q \in RequestSet : q.state = "waiting" /\ new = <<q>>

LEMMA EditItemsKeeps ==
  ASSUME NEW F, Sound(F), NEW edited, DOMAIN edited \subseteq Contacts, \A c \in DOMAIN edited : Amends(edited[c], item[c]),
         NEW new, Fresh(new),
         EditItems(edited, new), UNCHANGED <<env, received, server, toClient, answered, preAuth>>, groups \subseteq groups'
  PROVE  \E G : Sound(G)'
<1> DEFINE cs == DOMAIN edited
           rs == req \o new
           r == Len(rs)
           queued == [c \in cs |-> [edited[c] EXCEPT !.edit.there = TRUE,
                                                     !.edit.results = IF new = <<>> THEN @ ELSE @ \cup {r}]]
           done == [c \in cs |-> Apply(received, c, queued[c])]
           counted == [q \in DOMAIN rs |->
                        IF new # <<>> /\ q = r THEN [rs[q] EXCEPT !.todo = Cardinality(cs)] ELSE rs[q]]
           freed == [c \in Contacts |-> IF c \in cs THEN done[c].freed ELSE {}]
<1>8. /\ item' = [c \in Contacts |-> IF c \in cs THEN done[c].it ELSE item[c]]
      /\ \E s \in SentInTurn([c \in cs |-> done[c].sent]) : toServer' = toServer \o s
      /\ req' = Countdown(counted, freed)
      /\ crashed' = (crashed \/ \E c \in cs : done[c].fails)
  BY DEF EditItems
<1>1. cs \in SUBSET Contacts /\ \A c \in cs : Amends(edited[c], item[c])
  OBVIOUS
<1>2. req \in Seq(RequestSet) /\ Len(req) \in Nat /\ received \in BOOLEAN /\ item \in [Contacts -> ItemSet]
  BY LenProperties DEF Sound, Typed
<1>3. rs = req \o new /\ r = Len(rs)
  OBVIOUS
<1>4. queued = [c \in cs |-> [edited[c] EXCEPT !.edit.there = TRUE,
                                               !.edit.results = IF new = <<>> THEN @ ELSE @ \cup {r}]]
  OBVIOUS
<1>5. done = [c \in cs |-> Apply(received, c, queued[c])]
  OBVIOUS
<1>6. counted = [q \in DOMAIN rs |-> IF new # <<>> /\ q = r THEN [rs[q] EXCEPT !.todo = Cardinality(cs)] ELSE rs[q]]
  OBVIOUS
<1>7. freed = [c \in Contacts |-> IF c \in cs THEN done[c].freed ELSE {}]
  OBVIOUS
<1> HIDE DEF cs, rs, r, queued, done, counted, freed
<1>9. PICK R, n : R = (IF new = <<>> THEN {} ELSE {Len(req) + 1}) /\ n = Len(req) + (IF new = <<>> THEN 0 ELSE 1)
  OBVIOUS
<1>10. PICK H : H = [c \in Contacts |-> IF c \in cs THEN HeldBy(item, F)[c] \cup R ELSE HeldBy(item, F)[c]]
  OBVIOUS
<1>11. HeldBy(item, F) \in [Contacts -> SUBSET Nat] /\ (\A c \in Contacts : HeldBy(item, F)[c] \subseteq 1..Len(req))
       /\ Exact(req, HeldBy(item, F)) /\ \A c \in Contacts : HeldBy(item, F)[c] = Held(item[c], F[c])
  BY HeldInRange DEF Sound, HeldBy
<1>12. /\ counted \in Seq(RequestSet) /\ Len(counted) = n /\ Counted(counted, H)
       /\ new # <<>> => r = Len(req) + 1
  <2>1. CASE new = <<>>
    <3>1. rs = req
      BY <1>2, <1>3, <2>1, ConcatEmptySeq
    <3>2. counted = req
      <4>1. counted = [q \in DOMAIN req |-> req[q]]
        BY <1>6, <2>1, <3>1
      <4> QED BY <1>2, <4>1
    <3>3. H = HeldBy(item, F)
      BY <1>9, <1>10, <1>11, <2>1
    <3>4. n = Len(req)
      BY <1>2, <1>9, <2>1
    <3> QED BY <1>2, <1>11, <2>1, <3>2, <3>3, <3>4, ExactIsCounted
  <2>2. ASSUME NEW q \in RequestSet, q.state = "waiting", new = <<q>>, new # <<>>
        PROVE  counted \in Seq(RequestSet) /\ Len(counted) = n /\ Counted(counted, H) /\ r = Len(req) + 1
    <3>1. PICK q2 : q2 = [q EXCEPT !.todo = Cardinality(cs)]
      OBVIOUS
    <3>2. IsFiniteSet(cs) /\ Cardinality(cs) \in Nat
      BY <1>1, ConstantsAssumption, FS_Subset, FS_CardinalityType
    <3>3. q2 \in RequestSet /\ q2.todo = Cardinality(cs) /\ q2.state = "waiting"
      BY <2>2, <3>1, <3>2 DEF RequestSet
    <3>4. rs = Append(req, q)
      BY <1>2, <1>3, <2>2, AppendIsConcat
    <3>5. /\ rs \in Seq(RequestSet) /\ Len(rs) = Len(req) + 1 /\ DOMAIN rs = 1..(Len(req) + 1)
          /\ (\A i \in 1..Len(req) : rs[i] = req[i]) /\ rs[Len(req) + 1] = q
      BY <1>2, <3>4, AppendProperties, LenProperties
    <3>6. PICK rs2 : rs2 = Append(req, q2)
      OBVIOUS
    <3>7. /\ rs2 \in Seq(RequestSet) /\ Len(rs2) = Len(req) + 1 /\ DOMAIN rs2 = 1..(Len(req) + 1)
          /\ (\A i \in 1..Len(req) : rs2[i] = req[i]) /\ rs2[Len(req) + 1] = q2
      BY <1>2, <3>3, <3>6, AppendProperties, LenProperties
    <3>8. r = Len(req) + 1
      BY <1>3, <3>5
    <3>9. ASSUME NEW i \in 1..(Len(req) + 1) PROVE counted[i] = rs2[i]
      <4>1. CASE i = r
        <5>1. counted[i] = [rs[i] EXCEPT !.todo = Cardinality(cs)]
          BY <1>6, <2>2, <3>5, <4>1
        <5> QED BY <3>1, <3>5, <3>7, <3>8, <4>1, <5>1
      <4>2. CASE i # r
        <5>1. counted[i] = rs[i]
          BY <1>6, <3>5, <4>2
        <5>2. i \in 1..Len(req)
          BY <1>2, <3>8, <4>2
        <5> QED BY <3>5, <3>7, <5>1, <5>2
      <4> QED BY <4>1, <4>2
    <3>10. counted = rs2
      <4>1. counted = [i \in 1..(Len(req) + 1) |-> counted[i]]
        BY <1>6, <3>5
      <4>2. rs2 = [i \in 1..(Len(req) + 1) |-> rs2[i]]
        BY <3>7
      <4> QED BY <3>9, <4>1, <4>2
    <3>11. PICK H0 : H0 = HeldBy(item, F)
      OBVIOUS
    <3>12. H0 \in [Contacts -> SUBSET Nat] /\ (\A c \in Contacts : H0[c] \subseteq 1..Len(req)) /\ Exact(req, H0)
      BY <1>11, <3>11
    <3>13. H = [c \in Contacts |-> IF c \in cs THEN H0[c] \cup {Len(req) + 1} ELSE H0[c]]
      BY <1>9, <1>10, <2>2, <3>11
    <3>14. Counted(rs2, H)
      BY <1>1, <1>2, <3>3, <3>6, <3>12, <3>13, OneMoreRequest
    <3>15. n = Len(req) + 1
      BY <1>9, <2>2
    <3> QED BY <3>7, <3>8, <3>10, <3>14, <3>15
  <2>3. \A q : <<q>> # <<>>
    OBVIOUS
  <2> QED BY <2>1, <2>2, <2>3 DEF Fresh
<1>13. n \in Nat /\ Len(req) <= n /\ Later(R, Len(req), n)
  BY <1>2, <1>9 DEF Later
<1>14. ASSUME NEW c \in cs
       PROVE  /\ queued[c] \in ItemSet /\ Queued(queued[c], F[c], received, n) /\ queued[c].inFlight = item[c].inFlight
              /\ queued[c].groups = item[c].groups /\ queued[c].sub = item[c].sub
              /\ Held(queued[c], F[c]) = Held(item[c], F[c]) \cup R
  <2>1. PICK it2, it3 : it2 = edited[c] /\ it3 = queued[c]
    OBVIOUS
  <2>4. PICK it, F0 : it = item[c] /\ F0 = F[c]
    OBVIOUS
  <2>2. Amends(it2, it) /\ Kept(it, F0, received, Len(req))
    BY <1>1, <2>1, <2>4 DEF Sound
  <2>3. it3 = Queue(it2, R)
    <3>1. it2 \in ItemSet /\ it2.edit \in EditSet
      BY <2>2 DEF Amends, ItemSet
    <3>2. PICK S : S = IF new = <<>> THEN it2.edit.results ELSE it2.edit.results \cup {r}
      OBVIOUS
    <3>3. S = it2.edit.results \cup R
      BY <1>9, <1>12, <3>2
    <3>4. it3 = [it2 EXCEPT !.edit.there = TRUE, !.edit.results = S]
      BY <1>4, <2>1, <3>1, <3>2 DEF ItemSet, EditSet
    <3> QED BY <3>3, <3>4 DEF Queue
  <2>5. /\ it3 \in ItemSet /\ Queued(it3, F0, received, n) /\ it3.inFlight = it.inFlight /\ it3.groups = it.groups
        /\ it3.sub = it.sub /\ Held(it3, F0) = Held(it, F0) \cup R
    BY <1>2, <1>13, <2>2, <2>3, Queues
  <2> QED BY <2>1, <2>4, <2>5
<1>15. queued \in [cs -> ItemSet]
  BY <1>4, <1>14
<1>16. \A c \in cs : Outcome(received, c, queued[c], done[c])
  BY <1>1, <1>2, <1>5, <1>14, Applies
<1>17. \A c \in Contacts \ cs : Kept(item[c], F[c], received, n)
  <2> SUFFICES ASSUME NEW c \in Contacts \ cs PROVE Kept(item[c], F[c], received, n)
    OBVIOUS
  <2>1. Kept(item[c], F[c], received, Len(req)) /\ (~item[c].there => item[c] = NoItem)
    BY ItemKnown DEF Sound
  <2> QED BY <1>2, <1>13, <2>1, KeptOn
<1>18. H = [c \in Contacts |-> IF c \in cs THEN Held(queued[c], F[c]) ELSE Held(item[c], F[c])]
  BY <1>10, <1>11, <1>14
<1>19. PICK s \in SentInTurn([c \in cs |-> done[c].sent]) : toServer' = toServer \o s
  BY <1>8
<1>20. ASSUME Calm(env), NEW c \in cs PROVE Peaceful(queued[c], F[c])
  <2>1. Peaceful(item[c], F[c])
    BY <1>1, <1>20, ItemKnown
  <2> QED BY <1>14, <2>1 DEF Peaceful
<1>21. /\ toClient' \in Seq(Downward) /\ (\A c \in Contacts : Steady(toClient, toClient', "answer", c))
       /\ (Calm(env) => \A c \in Contacts : Warned(toClient', c)) /\ preAuth' \subseteq Contacts
  BY Here
<1>22. (\A c \in cs : queued[c].groups \subseteq groups') /\ \A c \in Contacts \ cs : item[c].groups \subseteq groups'
  BY <1>1, <1>14, ItemKnown
<1>23. received' \in BOOLEAN /\ (\A c \in cs : Outcome(received', c, queued[c], done[c]))
       /\ (\A c \in cs : queued[c].inFlight = item[c].inFlight /\ Queued(queued[c], F[c], received', n))
       /\ \A c \in Contacts \ cs : Kept(item[c], F[c], received', n)
  BY <1>2, <1>14, <1>16, <1>17
<1>24. Calm(env) => (\A c \in cs : Peaceful(queued[c], F[c])) /\ \A c \in Contacts : Warned(toClient', c)
  BY <1>20, <1>21
<1> QED BY <1>1, <1>7, <1>8, <1>12, <1>13, <1>15, <1>18, <1>19, <1>21, <1>22, <1>23, <1>24, Batch

LEMMA AmendsOn ==
  ASSUME NEW it0, NEW it, Amends(it, it0), NEW e \in EditSet, e.results = it.edit.results, NEW it2, it2 = [it EXCEPT !.edit = e]
  PROVE  Amends(it2, it0)
<1>1. it \in ItemSet /\ it.there = TRUE /\ it.inFlight = it0.inFlight /\ it.edit.results = it0.edit.results
      /\ it.sub = it0.sub /\ it.groups = it0.groups
  BY DEF Amends
<1>2. it2 \in ItemSet /\ it2.there = it.there /\ it2.inFlight = it.inFlight /\ it2.edit = e /\ it2.sub = it.sub /\ it2.groups = it.groups
  BY <1>1 DEF ItemSet
<1> QED BY <1>1, <1>2 DEF Amends

LEMMA AmendsSelf ==
  ASSUME NEW F, Sound(F), NEW c \in Contacts
  PROVE  /\ Amends(Ensure(c), item[c])
         /\ item[c].there => Amends(item[c], item[c])
<1>1. PICK it : it = Ensure(c)
  OBVIOUS
<1>2. /\ it \in ItemSet /\ it.there = TRUE /\ it.edit = item[c].edit /\ it.inFlight = item[c].inFlight
      /\ it.groups = item[c].groups /\ it.sub = item[c].sub
  BY <1>1, Ensured
<1>3. Amends(it, item[c])
  BY <1>2 DEF Amends
<1>4. item[c] \in ItemSet /\ item[c].there \in BOOLEAN
  BY ItemKnown DEF ItemSet
<1> QED BY <1>1, <1>3, <1>4 DEF Amends

LEMMA AmendsGroups ==
  ASSUME NEW it0, NEW it, Amends(it, it0), NEW g \in Groups
  PROVE  Amends(AddTo(it, g), it0) /\ Amends(RemoveFrom(it, g), it0)
<1>1. it \in ItemSet /\ it.edit \in EditSet
  BY DEF Amends, ItemSet
<1>2. PICK e : e = [it.edit EXCEPT !.add = @ \cup {g}, !.drop = @ \ {g}]
  OBVIOUS
<1>3. PICK f : f = [it.edit EXCEPT !.drop = @ \cup {g}, !.add = @ \ {g}]
  OBVIOUS
<1>4. e \in EditSet /\ e.results = it.edit.results
  BY <1>1, <1>2 DEF EditSet
<1>5. f \in EditSet /\ f.results = it.edit.results
  BY <1>1, <1>3 DEF EditSet
<1>6. AddTo(it, g) = [it EXCEPT !.edit = e]
  BY <1>1, <1>2 DEF AddTo, ItemSet, EditSet
<1>7. RemoveFrom(it, g) = [it EXCEPT !.edit = f]
  BY <1>1, <1>3 DEF RemoveFrom, ItemSet, EditSet
<1>8. Amends([it EXCEPT !.edit = e], it0)
  BY <1>4, AmendsOn
<1>9. Amends([it EXCEPT !.edit = f], it0)
  BY <1>5, AmendsOn
<1> QED BY <1>6, <1>7, <1>8, <1>9

LEMMA Asked ==
  ASSUME NEW op, Asks(op)
  PROVE  UNCHANGED <<env, received, server, toClient, answered>> /\ op \in env.ops /\ ~crashed
BY DEF Asks

LEMMA NewForOne ==
  ASSUME NEW kind \in UserOps, NEW c \in Contacts, NEW new, new = <<Request(kind, {c}, "")>>
  PROVE  Fresh(new)
<1>1. {c} \in SUBSET Contacts /\ "" \in Groups \cup {""}
  OBVIOUS
<1>2. PICK q : q = Request(kind, {c}, "")
  OBVIOUS
<1>3. q \in RequestSet /\ q.state = "waiting"
  BY <1>1, <1>2, NewRequest
<1> QED BY <1>2, <1>3 DEF Fresh

LEMMA StoreKeeps == ASSUME NEW F, Sound(F), NEW c \in Contacts, NEW op, Store(op, c) PROVE \E G : Sound(G)'
<1>1. PICK edited, new : /\ edited = [x \in IF Addable(c) THEN {c} ELSE {} |->
                                       [Ensure(x) EXCEPT !.edit.create = TRUE, !.edit.type = "normal"]]
                         /\ new = <<Request(op, {c}, "")>>
  OBVIOUS
<1>2. /\ op \in {"store", "subscribe"} /\ Asks(op) /\ EditItems(edited, new) /\ UNCHANGED <<groups, preAuth>>
  BY <1>1 DEF Store
<1>3. DOMAIN edited \subseteq {c}
  BY <1>1
<1>4. \A x \in DOMAIN edited : edited[x] = [Ensure(x) EXCEPT !.edit.create = TRUE, !.edit.type = "normal"]
  BY <1>1
<1>5. ASSUME NEW x \in DOMAIN edited PROVE Amends(edited[x], item[x])
  <2>1. PICK it : it = Ensure(x)
    OBVIOUS
  <2>2. Amends(it, item[x]) /\ it \in ItemSet /\ it.edit \in EditSet
    <3>1. Amends(it, item[x])
      BY <1>3, <2>1, AmendsSelf
    <3> QED BY <3>1 DEF Amends, ItemSet
  <2>3. PICK e : e = [it.edit EXCEPT !.create = TRUE, !.type = "normal"]
    OBVIOUS
  <2>4. e \in EditSet /\ e.results = it.edit.results
    BY <2>2, <2>3 DEF EditSet, Types
  <2>5. edited[x] = [it EXCEPT !.edit = e]
    BY <1>4, <2>1, <2>2, <2>3 DEF ItemSet, EditSet
  <2> QED BY <2>2, <2>4, <2>5, AmendsOn
<1>6. op \in UserOps
  BY <1>2 DEF UserOps
<1>7. Fresh(new)
  BY <1>1, <1>6, NewForOne
<1> QED BY <1>2, <1>3, <1>5, <1>7, Asked, EditItemsKeeps

LEMMA SetBlockedKeeps == ASSUME NEW F, Sound(F), NEW c \in Contacts, NEW op, SetBlocked(op, c) PROVE \E G : Sound(G)'
<1>1. PICK edited, new : /\ edited = [x \in {c} |->
                                       [Ensure(x) EXCEPT !.edit.type = IF op = "block" THEN "blocked" ELSE "normal"]]
                         /\ new = <<Request(op, {c}, "")>>
  OBVIOUS
<1>2. /\ op \in {"block", "unblock"} /\ Asks(op) /\ EditItems(edited, new) /\ UNCHANGED <<groups, preAuth>>
  BY <1>1 DEF SetBlocked
<1>3. DOMAIN edited \subseteq {c}
  BY <1>1
<1>4. \A x \in DOMAIN edited : edited[x] = [Ensure(x) EXCEPT !.edit.type = IF op = "block" THEN "blocked" ELSE "normal"]
  BY <1>1
<1>5. ASSUME NEW x \in DOMAIN edited PROVE Amends(edited[x], item[x])
  <2>1. PICK it : it = Ensure(x)
    OBVIOUS
  <2>2. Amends(it, item[x]) /\ it \in ItemSet /\ it.edit \in EditSet
    <3>1. Amends(it, item[x])
      BY <1>3, <2>1, AmendsSelf
    <3> QED BY <3>1 DEF Amends, ItemSet
  <2>3. PICK t : t = IF op = "block" THEN "blocked" ELSE "normal"
    OBVIOUS
  <2>4. PICK e : e = [it.edit EXCEPT !.type = t]
    OBVIOUS
  <2>5. e \in EditSet /\ e.results = it.edit.results
    BY <2>2, <2>3, <2>4 DEF EditSet, Types
  <2>6. edited[x] = [it EXCEPT !.edit = e]
    BY <1>4, <2>1, <2>2, <2>3, <2>4 DEF ItemSet, EditSet
  <2> QED BY <2>2, <2>5, <2>6, AmendsOn
<1>6. op \in UserOps
  BY <1>2 DEF UserOps
<1>7. Fresh(new)
  BY <1>1, <1>6, NewForOne
<1> QED BY <1>2, <1>3, <1>5, <1>7, Asked, EditItemsKeeps

LEMMA SetNameKeeps ==
  ASSUME NEW F, Sound(F), NEW c \in Contacts, NEW n \in Names \cup {NoName}, SetName(c, n)
  PROVE  \E G : Sound(G)'
<1>1. PICK edited : edited = [x \in {c} |-> [Ensure(x) EXCEPT !.edit.name = n]]
  OBVIOUS
<1>2. /\ UNCHANGED <<env, received, server, toClient, answered>> /\ EditItems(edited, <<>>) /\ UNCHANGED <<groups, preAuth>>
  BY <1>1, Asked DEF SetName
<1>3. DOMAIN edited \subseteq {c}
  BY <1>1
<1>4. \A x \in DOMAIN edited : edited[x] = [Ensure(x) EXCEPT !.edit.name = n]
  BY <1>1
<1>5. ASSUME NEW x \in DOMAIN edited PROVE Amends(edited[x], item[x])
  <2>1. PICK it : it = Ensure(x)
    OBVIOUS
  <2>2. Amends(it, item[x]) /\ it \in ItemSet /\ it.edit \in EditSet
    <3>1. Amends(it, item[x])
      BY <1>3, <2>1, AmendsSelf
    <3> QED BY <3>1 DEF Amends, ItemSet
  <2>3. PICK e : e = [it.edit EXCEPT !.name = n]
    OBVIOUS
  <2>4. e \in EditSet /\ e.results = it.edit.results
    BY <2>2, <2>3 DEF EditSet
  <2>5. edited[x] = [it EXCEPT !.edit = e]
    BY <1>4, <2>1, <2>2, <2>3 DEF ItemSet, EditSet
  <2> QED BY <2>2, <2>4, <2>5, AmendsOn
<1>6. Fresh(<<>>)
  BY DEF Fresh
<1> QED BY <1>2, <1>3, <1>5, <1>6, EditItemsKeeps

LEMMA RemoveContactKeeps == ASSUME NEW F, Sound(F), NEW c \in Contacts, RemoveContact(c) PROVE \E G : Sound(G)'
<1> DEFINE transient == item[c].sub = "remove"
           cleared == [item[c] EXCEPT !.publish = IF transient THEN "no" ELSE @,
                                      !.subscribe = IF transient THEN "no" ELSE @]
           edited == [x \in IF item[c].there THEN {c} ELSE {} |-> [cleared EXCEPT !.edit.sub = "remove"]]
           new == <<Request("remove", {c}, "")>>
<1>1. /\ Asks("remove") /\ EditItems(edited, new) /\ UNCHANGED <<groups, preAuth>>
  BY DEF RemoveContact
<1>2. DOMAIN edited \subseteq {c} /\ (DOMAIN edited # {} => item[c].there)
  OBVIOUS
<1>3. \A x \in DOMAIN edited : edited[x] = [cleared EXCEPT !.edit.sub = "remove"]
  OBVIOUS
<1>4. new = <<Request("remove", {c}, "")>>
  OBVIOUS
<1>5. ASSUME item[c].there PROVE Amends(cleared, item[c])
  <2>1. item[c] \in ItemSet /\ item[c].there = TRUE
    BY <1>5, ItemKnown DEF ItemSet
  <2>2. PICK p, s : p = (IF transient THEN "no" ELSE item[c].publish) /\ s = IF transient THEN "no" ELSE item[c].subscribe
    OBVIOUS
  <2>3. p \in States /\ s \in States
    BY <2>1, <2>2 DEF ItemSet, States
  <2>4. cleared = [item[c] EXCEPT !.publish = p, !.subscribe = s]
    BY <2>1, <2>2 DEF ItemSet
  <2> HIDE DEF cleared
  <2> QED BY <2>1, <2>3, <2>4 DEF ItemSet, Amends
<1> HIDE DEF transient, cleared, edited, new
<1>6. ASSUME NEW x \in DOMAIN edited PROVE Amends(edited[x], item[x])
  <2>1. x = c /\ Amends(cleared, item[x])
    BY <1>2, <1>5
  <2>2. cleared \in ItemSet /\ cleared.edit \in EditSet
    BY <2>1 DEF Amends, ItemSet
  <2>3. PICK e : e = [cleared.edit EXCEPT !.sub = "remove"]
    OBVIOUS
  <2>4. e \in EditSet /\ e.results = cleared.edit.results
    BY <2>2, <2>3 DEF EditSet
  <2>5. edited[x] = [cleared EXCEPT !.edit = e]
    BY <1>3, <2>2, <2>3 DEF ItemSet, EditSet
  <2> QED BY <2>1, <2>4, <2>5, AmendsOn
<1>7. "remove" \in UserOps
  BY DEF UserOps
<1>8. Fresh(new)
  BY <1>4, <1>7, NewForOne
<1> QED BY <1>1, <1>2, <1>6, <1>8, Asked, EditItemsKeeps

LEMMA NewForSome ==
  ASSUME NEW kind \in UserOps, NEW cs \in SUBSET Contacts, NEW g \in Groups, NEW new, new = <<Request(kind, cs, g)>>
  PROVE  Fresh(new)
<1>1. g \in Groups \cup {""}
  OBVIOUS
<1>2. PICK q : q = Request(kind, cs, g)
  OBVIOUS
<1>3. q \in RequestSet /\ q.state = "waiting"
  BY <1>1, <1>2, NewRequest
<1> QED BY <1>2, <1>3 DEF Fresh

LEMMA AddToGroupKeeps == ASSUME NEW F, Sound(F), NEW c \in Contacts, NEW g \in Groups, AddToGroup(c, g) PROVE \E G : Sound(G)'
<1>1. PICK edited, new : edited = [x \in {c} |-> AddTo(Ensure(x), g)] /\ new = <<Request("join", {c}, g)>>
  OBVIOUS
<1>2. /\ Asks("join") /\ EditItems(edited, new) /\ preAuth' = preAuth /\ groups' = groups \cup {g}
  BY <1>1 DEF AddToGroup
<1>3. DOMAIN edited \subseteq {c} /\ \A x \in DOMAIN edited : edited[x] = AddTo(Ensure(x), g)
  BY <1>1
<1>4. ASSUME NEW x \in DOMAIN edited PROVE Amends(edited[x], item[x])
  <2>1. Amends(Ensure(x), item[x])
    BY <1>3, AmendsSelf
  <2> QED BY <1>3, <2>1, AmendsGroups
<1>5. "join" \in UserOps /\ {c} \in SUBSET Contacts
  BY DEF UserOps
<1>6. Fresh(new)
  BY <1>1, <1>5, NewForSome
<1> QED BY <1>2, <1>3, <1>4, <1>6, Asked, EditItemsKeeps

LEMMA RemoveFromGroupKeeps ==
  ASSUME NEW F, Sound(F), NEW c \in Contacts, NEW g \in Groups, RemoveFromGroup(c, g) PROVE \E G : Sound(G)'
<1>1. PICK edited, new : edited = [x \in {c} |-> RemoveFrom(Ensure(x), g)] /\ new = <<Request("leave", {c}, g)>>
  OBVIOUS
<1>2. /\ Asks("leave") /\ EditItems(edited, new) /\ UNCHANGED <<groups, preAuth>>
  BY <1>1 DEF RemoveFromGroup
<1>3. DOMAIN edited \subseteq {c} /\ \A x \in DOMAIN edited : edited[x] = RemoveFrom(Ensure(x), g)
  BY <1>1
<1>4. ASSUME NEW x \in DOMAIN edited PROVE Amends(edited[x], item[x])
  <2>1. Amends(Ensure(x), item[x])
    BY <1>3, AmendsSelf
  <2> QED BY <1>3, <2>1, AmendsGroups
<1>5. "leave" \in UserOps /\ {c} \in SUBSET Contacts
  BY DEF UserOps
<1>6. Fresh(new)
  BY <1>1, <1>5, NewForSome
<1> QED BY <1>2, <1>3, <1>4, <1>6, Asked, EditItemsKeeps

LEMMA SetContactGroupsKeeps ==
  ASSUME NEW F, Sound(F), NEW c \in Contacts, NEW gs \in SUBSET Groups, SetContactGroups(c, gs) PROVE \E G : Sound(G)'
<1>1. PICK edited, new : /\ edited = [x \in {c} |-> [Ensure(x) EXCEPT !.edit.add = gs, !.edit.drop = {}, !.edit.only = TRUE]]
                         /\ new = <<Request("groups", {c}, "")>>
  OBVIOUS
<1>2. /\ Asks("groups") /\ EditItems(edited, new) /\ preAuth' = preAuth /\ groups' = groups \cup gs
  BY <1>1 DEF SetContactGroups
<1>3. DOMAIN edited \subseteq {c}
  BY <1>1
<1>4. \A x \in DOMAIN edited : edited[x] = [Ensure(x) EXCEPT !.edit.add = gs, !.edit.drop = {}, !.edit.only = TRUE]
  BY <1>1
<1>5. ASSUME NEW x \in DOMAIN edited PROVE Amends(edited[x], item[x])
  <2>1. PICK it : it = Ensure(x)
    OBVIOUS
  <2>2. Amends(it, item[x]) /\ it \in ItemSet /\ it.edit \in EditSet
    <3>1. Amends(it, item[x])
      BY <1>3, <2>1, AmendsSelf
    <3> QED BY <3>1 DEF Amends, ItemSet
  <2>3. PICK e : e = [it.edit EXCEPT !.add = gs, !.drop = {}, !.only = TRUE]
    OBVIOUS
  <2>4. e \in EditSet /\ e.results = it.edit.results
    BY <2>2, <2>3 DEF EditSet
  <2>5. edited[x] = [it EXCEPT !.edit = e]
    BY <1>4, <2>1, <2>2, <2>3 DEF ItemSet, EditSet
  <2> QED BY <2>2, <2>4, <2>5, AmendsOn
<1>6. "groups" \in UserOps
  BY DEF UserOps
<1>7. Fresh(new)
  BY <1>1, <1>6, NewForOne
<1> QED BY <1>2, <1>3, <1>5, <1>7, Asked, EditItemsKeeps

LEMMA SetGroupMembersKeeps ==
  ASSUME NEW F, Sound(F), NEW g \in Groups, NEW cs \in SUBSET Contacts, SetGroupMembers(g, cs) PROVE \E G : Sound(G)'
<1>1. PICK there : there = {c \in Contacts : item[c].there}
  OBVIOUS
<1>2. PICK edited, new : /\ edited = [x \in there |-> IF x \in cs THEN AddTo(item[x], g) ELSE RemoveFrom(item[x], g)]
                         /\ new = <<Request("members", cs, g)>>
  OBVIOUS
<1>3. /\ Asks("members") /\ EditItems(edited, new) /\ preAuth' = preAuth /\ groups' = groups \cup {g}
  BY <1>1, <1>2 DEF SetGroupMembers
<1>4. /\ DOMAIN edited \subseteq Contacts
      /\ \A x \in DOMAIN edited : item[x].there /\ edited[x] \in {AddTo(item[x], g), RemoveFrom(item[x], g)}
  BY <1>1, <1>2
<1>5. ASSUME NEW x \in DOMAIN edited PROVE Amends(edited[x], item[x])
  <2>1. Amends(item[x], item[x])
    BY <1>4, AmendsSelf
  <2> QED BY <1>4, <2>1, AmendsGroups
<1>6. "members" \in UserOps
  BY DEF UserOps
<1>7. Fresh(new)
  BY <1>2, <1>6, NewForSome
<1> QED BY <1>3, <1>4, <1>5, <1>7, Asked, EditItemsKeeps

LEMMA RemoveGroupKeeps == ASSUME NEW F, Sound(F), NEW g \in Groups, RemoveGroup(g) PROVE \E G : Sound(G)'
<1>1. PICK members : members = IF g \in groups THEN {c \in Contacts : g \in item[c].groups} ELSE {}
  OBVIOUS
<1>2. PICK edited, new : edited = [x \in members |-> RemoveFrom(item[x], g)] /\ new = <<Request("dissolve", members, g)>>
  OBVIOUS
<1>3. /\ Asks("dissolve") /\ EditItems(edited, new) /\ UNCHANGED <<groups, preAuth>>
  BY <1>1, <1>2 DEF RemoveGroup
<1>4. /\ members \in SUBSET Contacts /\ DOMAIN edited = members
      /\ \A x \in members : g \in item[x].groups /\ edited[x] = RemoveFrom(item[x], g)
  BY <1>1, <1>2
<1>5. ASSUME NEW x \in DOMAIN edited PROVE Amends(edited[x], item[x])
  <2>1. item[x].there
    BY <1>4, ItemKnown, KeptGone
  <2>2. Amends(item[x], item[x])
    BY <1>4, <2>1, AmendsSelf
  <2> QED BY <1>4, <2>2, AmendsGroups
<1>6. "dissolve" \in UserOps
  BY DEF UserOps
<1>7. Fresh(new)
  BY <1>2, <1>4, <1>6, NewForSome
<1> QED BY <1>3, <1>4, <1>5, <1>7, Asked, EditItemsKeeps

-----------------------------------------------------------------------------
(* The roster arrives.                                                        *)

(* What the roster makes of an item that it holds.                            *)
LEMMA FromRoster ==
  ASSUME NEW F, Sound(F), ~received, NEW c \in Contacts, NEW d \in ContentSet(Subscribed), NEW r, r = Processed(c, d)
  PROVE  /\ MaybeRemove(r.it) = r.it /\ Mirrors(r.it, item[c], d) /\ F[c] = {}
         /\ Queued(r.it, F[c], TRUE, Len(req)) /\ Held(r.it, F[c]) = Held(item[c], F[c]) /\ Peaceful(r.it, F[c])
<1>1. d \in ContentSet(Subscribed \cup {"remove"}) /\ d.sub \in Subscribed
  BY DEF ContentSet
<1>2. PICK x : x = r.it
  OBVIOUS
<1>3. Mirrors(x, item[c], d)
  <2>1. Mirrors(r.it, item[c], d)
    BY <1>1, ProcessedTyped
  <2> QED BY <1>2, <2>1
<1>4. x.there = TRUE /\ x.edit = item[c].edit /\ x.inFlight = item[c].inFlight /\ x.sub \in Subscribed
  BY <1>1, <1>3 DEF Mirrors
<1>5. F[c] = {} /\ Kept(item[c], F[c], received, Len(req))
  BY ItemKnown DEF Sound
<1>6. MaybeRemove(x) = x
  BY <1>4 DEF MaybeRemove, Forgettable, Subscribed
<1>7. Queued(x, F[c], TRUE, Len(req))
  BY <1>4, <1>5 DEF Queued, Kept
<1>8. Held(x, F[c]) = Held(item[c], F[c])
  BY <1>4 DEF Held
<1>9. Peaceful(x, F[c])
  BY <1>4, <1>5 DEF Peaceful, Subscribed
<1> QED BY <1>2, <1>3, <1>5, <1>6, <1>7, <1>8, <1>9

LEMMA RosterReceivedKeeps == ASSUME NEW F, Sound(F), RosterReceived PROVE \E G : Sound(G)'
<1> DEFINE m == Head(toClient)
           items == m.items
           new == [c \in Contacts |-> IF c \in DOMAIN items THEN MaybeRemove(Processed(c, items[c]).it) ELSE item[c]]
           done == [c \in Contacts |-> Apply(TRUE, c, new[c])]
           freed == [c \in Contacts |-> done[c].freed]
<1>1. /\ Take /\ m.kind = "roster"
      /\ received => UNCHANGED <<item, received, groups, req, told, toServer, crashed>>
      /\ ~received => /\ item' = [c \in Contacts |-> done[c].it] /\ received' = TRUE
                      /\ groups' = groups \cup UNION {items[c].groups : c \in DOMAIN items}
                      /\ req' = Countdown(req, freed)
                      /\ \E s \in SentInTurn([c \in Contacts |-> done[c].sent]) : toServer' = toServer \o s
                      /\ crashed' = (crashed \/ \E c \in Contacts : done[c].fails)
  BY DEF RosterReceived
<1>2. m = Head(toClient) /\ items = m.items
  OBVIOUS
<1>3. new = [c \in Contacts |-> IF c \in DOMAIN items THEN MaybeRemove(Processed(c, items[c]).it) ELSE item[c]]
  OBVIOUS
<1>4. done = [c \in Contacts |-> Apply(TRUE, c, new[c])]
  OBVIOUS
<1>5. freed = [c \in Contacts |-> done[c].freed]
  OBVIOUS
<1> HIDE DEF m, items, new, done, freed
<1>6. /\ toClient' \in Seq(Downward) /\ m \in Downward
      /\ \A d \in Contacts : Steady(toClient, toClient', "answer", d)
      /\ Calm(env) => \A d \in Contacts : Warned(toClient', d)
      /\ UNCHANGED <<env, preAuth, server, answered>>
  BY <1>1, <1>2, TakesOther
<1>7. preAuth' \subseteq Contacts
  BY <1>6, Here
<1>8. CASE received
  <2>1. UNCHANGED <<item, received, groups, req, toServer, crashed>>
    BY <1>1, <1>8
  <2>2. toServer' \in Seq(Upward) /\ \A d \in Contacts : Steady(toServer, toServer', "set", d)
    BY <2>1, Here
  <2> QED BY <1>6, <1>7, <2>1, <2>2, OnlyPresences
<1>9. CASE ~received
  <2>1. /\ item' = [c \in Contacts |-> done[c].it] /\ received' = TRUE
        /\ groups' = groups \cup UNION {items[c].groups : c \in DOMAIN items}
        /\ req' = Countdown(req, freed)
        /\ crashed' = (crashed \/ \E c \in Contacts : done[c].fails)
    BY <1>1, <1>9
  <2>2. PICK s \in SentInTurn([c \in Contacts |-> done[c].sent]) : toServer' = toServer \o s
    BY <1>1, <1>9
  <2>3. DOMAIN items \subseteq Contacts /\ \A c \in DOMAIN items : items[c] \in ContentSet(Subscribed)
    <3>1. items \in UNION {[D -> ContentSet(Subscribed)] : D \in SUBSET Contacts}
      BY <1>1, <1>2, <1>6 DEF Downward
    <3> QED BY <3>1
  <2>4. req \in Seq(RequestSet) /\ Len(req) \in Nat /\ item \in [Contacts -> ItemSet]
    BY LenProperties DEF Sound, Typed
  <2>5. ASSUME NEW c \in Contacts
        PROVE  /\ new[c] \in ItemSet /\ new[c].inFlight = item[c].inFlight /\ Queued(new[c], F[c], TRUE, Len(req))
               /\ new[c].groups \subseteq groups' /\ Held(new[c], F[c]) = Held(item[c], F[c])
               /\ Calm(env) => Peaceful(new[c], F[c])
    <3>1. CASE c \notin DOMAIN items
      <4>1. new[c] = item[c]
        BY <1>3, <3>1
      <4>2. Kept(item[c], F[c], received, Len(req))
        BY DEF Sound
      <4>3. Queued(item[c], F[c], TRUE, Len(req))
        BY <4>2 DEF Queued, Kept
      <4>4. item[c].groups \subseteq groups'
        BY <2>1, ItemKnown
      <4> QED BY <4>1, <4>3, <4>4, ItemKnown
    <3>2. CASE c \in DOMAIN items
      <4>1. PICK d, r : d = items[c] /\ r = Processed(c, d)
        OBVIOUS
      <4>2. d \in ContentSet(Subscribed)
        BY <2>3, <3>2, <4>1
      <4>3. /\ MaybeRemove(r.it) = r.it /\ Mirrors(r.it, item[c], d)
            /\ Queued(r.it, F[c], TRUE, Len(req)) /\ Held(r.it, F[c]) = Held(item[c], F[c]) /\ Peaceful(r.it, F[c])
        BY <1>9, <4>1, <4>2, FromRoster
      <4>4. new[c] = r.it
        BY <1>3, <3>2, <4>1, <4>3
      <4>5. d.groups \subseteq groups'
        BY <2>1, <3>2, <4>1
      <4>6. Mirrors(new[c], item[c], d)
        BY <4>3, <4>4
      <4>7. new[c] \in ItemSet /\ new[c].inFlight = item[c].inFlight /\ new[c].groups = d.groups
        BY <4>6 DEF Mirrors
      <4> QED BY <4>3, <4>4, <4>5, <4>7
    <3> QED BY <3>1, <3>2
  <2>6. new \in [Contacts -> ItemSet]
    BY <1>3, <2>5
  <2>7. \A c \in Contacts : Outcome(TRUE, c, new[c], done[c])
    BY <1>4, <2>6, Applies
  <2>8. PICK H : H = HeldBy(item, F)
    OBVIOUS
  <2>9. Counted(req, H)
    BY <2>8, ExactIsCounted DEF Sound
  <2>10. PICK cs : cs = Contacts
    OBVIOUS
  <2>11. H = [c \in Contacts |-> IF c \in cs THEN Held(new[c], F[c]) ELSE Held(item[c], F[c])]
    BY <2>5, <2>8, <2>10 DEF HeldBy
  <2>12. item' = [c \in Contacts |-> IF c \in cs THEN done[c].it ELSE item[c]]
    BY <2>1, <2>10
  <2>13. freed = [c \in Contacts |-> IF c \in cs THEN done[c].freed ELSE {}]
    BY <1>5, <2>10
  <2>14. cs \in SUBSET Contacts /\ new \in [cs -> ItemSet] /\ \A c \in Contacts : c \in cs
    BY <2>6, <2>10
  <2>15. received' \in BOOLEAN /\ (\A c \in cs : Outcome(received', c, new[c], done[c]))
         /\ (\A c \in cs : new[c].inFlight = item[c].inFlight /\ Queued(new[c], F[c], received', Len(req)))
    BY <2>1, <2>5, <2>7, <2>10
  <2>16. Calm(env) => (\A c \in cs : Peaceful(new[c], F[c])) /\ \A c \in Contacts : Warned(toClient', c)
    BY <1>6, <2>5, <2>10
  <2>17. \A c \in cs : new[c].groups \subseteq groups'
    BY <2>5, <2>10
  <2>18. s \in SentInTurn([c \in cs |-> done[c].sent]) /\ crashed' = (crashed \/ \E c \in cs : done[c].fails)
    BY <2>1, <2>2, <2>10
  <2>19. PICK n : n = Len(req)
    OBVIOUS
  <2>20. /\ \A c \in Contacts \ cs : Kept(item[c], F[c], received', n)
         /\ \A c \in Contacts \ cs : item[c].groups \subseteq groups'
    BY <2>14
  <2>21. /\ \A c \in cs : new[c].inFlight = item[c].inFlight /\ Queued(new[c], F[c], received', n)
         /\ n \in Nat /\ received' \in BOOLEAN /\ \A c \in cs : Outcome(received', c, new[c], done[c])
    BY <2>4, <2>15, <2>19
  <2>22. UNCHANGED <<env, answered, server>> /\ req' = Countdown(req, freed) /\ toServer' = toServer \o s
    BY <1>6, <2>1, <2>2
  <2> QED BY <1>6, <1>7, <2>4, <2>9, <2>11, <2>12, <2>13, <2>14, <2>16, <2>17, <2>18, <2>19, <2>20, <2>21, <2>22, Batch
<1> QED BY <1>8, <1>9

-----------------------------------------------------------------------------
(* An edit is answered.                                                       *)

(* The answer m to an edit of c is taken: the edit was the one in flight.     *)
Lands(m, c, F) ==
  /\ c \in Contacts /\ m.edit \in EditSet /\ F[c] = {m.edit}
  /\ item[c].there /\ item[c].inFlight /\ received = TRUE
  /\ Flies(toServer, toClient', c, FALSE, {})
  /\ \A d \in Contacts : d # c => Steady(toClient, toClient', "answer", d)
  /\ toClient' \in Seq(Downward) /\ (Calm(env) => \A d \in Contacts : Warned(toClient', d))

LEMMA Landed ==
  ASSUME NEW F, Sound(F), Take, Head(toClient).kind = "answer"
  PROVE  \E m, c : m = Head(toClient) /\ c = m.c /\ Lands(m, c, F)
<1>0. PICK m, c : m = Head(toClient) /\ c = m.c /\ m.kind = "answer"
  OBVIOUS
<1>1. toClient # <<>> /\ toClient' = Tail(toClient)
  BY DEF Take
<1>2. toClient \in Seq(Downward) /\ (Calm(env) => \A d \in Contacts : Warned(toClient, d))
  BY Here
<1>3. /\ toClient' \in Seq(Downward) /\ m \in Downward /\ m = toClient[1] /\ 1 \in 1..Len(toClient)
  BY <1>0, <1>1, <1>2, Taken
<1>4. c \in Contacts /\ m.edit \in EditSet
  BY <1>0, <1>3 DEF Downward
<1>5. Flies(toServer, toClient, c, item[c].inFlight, F[c]) /\ item[c].inFlight \in BOOLEAN /\ received \in BOOLEAN
      /\ (item[c].inFlight => received) /\ (~item[c].there => item[c] = NoItem)
  BY <1>4, ItemKnown
<1>6. ~NoneOf(toClient, "answer", c)
  BY <1>0, <1>3 DEF NoneOf
<1>7. item[c].inFlight /\ NoneOf(toServer, "set", c) /\ \E x : OneOf(toClient, "answer", c, x) /\ F[c] = {x.edit}
  BY <1>5, <1>6 DEF Flies
<1>8. PICK x : OneOf(toClient, "answer", c, x) /\ F[c] = {x.edit}
  BY <1>7
<1>9. x = m /\ NoneOf(toClient', "answer", c)
  BY <1>0, <1>1, <1>2, <1>8, TailNone
<1>10. Flies(toServer, toClient', c, FALSE, {})
  BY <1>7, <1>9 DEF Flies
<1>11. item[c].there
  BY <1>5, <1>7 DEF NoItem
<1>12. \A d \in Contacts : d # c => Steady(toClient, toClient', "answer", d)
  BY <1>0, <1>1, <1>2, SteadyTail
<1>13. Calm(env) => \A d \in Contacts : Warned(toClient', d)
  BY <1>1, <1>2, WarnedTail
<1>14. Lands(m, c, F)
  BY <1>3, <1>4, <1>5, <1>7, <1>8, <1>9, <1>10, <1>11, <1>12, <1>13 DEF Lands
<1> QED BY <1>0, <1>14

(* The item y is believed to have the subscription sub, or goes.              *)
Subscribing(y, sub) == [y EXCEPT !.sub = sub]
Settles(up, down, c, y, G, n, z, new) ==
  /\ new \in ItemSet /\ new.groups \subseteq y.groups /\ FreedWith(z) = {}
  /\ Flies(up, down, c, new.inFlight, G) /\ Kept(new, G, TRUE, n) /\ Held(new, G) = Held(y, G)
  /\ Peaceful(z, G) => Peaceful(new, G)

LEMMA Believed ==
  ASSUME NEW up, NEW down, NEW c, NEW y \in ItemSet, y.there, NEW G, NEW n \in Nat,
         Flies(up, down, c, y.inFlight, G), Kept(y, G, TRUE, n),
         NEW sub \in Subscriptions, NEW z, z = Subscribing(y, sub), NEW new, new = MaybeRemove(z)
  PROVE  Settles(up, down, c, y, G, n, z, new)
<1>1. /\ z \in ItemSet /\ z.there /\ z.edit = y.edit /\ z.inFlight = y.inFlight /\ z.groups = y.groups /\ z.sub = sub
      /\ z.inFlight \in BOOLEAN
  BY DEF ItemSet, Subscribing
<1>2. CASE ~Forgettable(z)
  <2>1. new = z /\ FreedWith(z) = {}
    BY <1>2 DEF MaybeRemove, FreedWith
  <2>2. Kept(z, G, TRUE, n)
    BY <1>1 DEF Kept
  <2>3. Held(z, G) = Held(y, G)
    BY <1>1 DEF Held
  <2> QED BY <1>1, <2>1, <2>2, <2>3 DEF Settles
<1>3. CASE Forgettable(z)
  <2>1. new = NoItem /\ FreedWith(z) = z.edit.results /\ z.inFlight = FALSE
    BY <1>1, <1>3 DEF MaybeRemove, FreedWith, Forgettable
  <2>2. y.inFlight = FALSE
    BY <1>1, <2>1
  <2>3. G = {}
    BY <2>2 DEF Flies
  <2>4. y.edit = NoEdit
    BY <2>2 DEF Kept
  <2>5. NoEdit.results = {}
    BY DEF NoEdit
  <2>6. /\ Kept(NoItem, G, TRUE, n) /\ NoItem.inFlight = FALSE /\ NoItem.groups = {} /\ NoItem.sub = "remove"
        /\ NoItem.edit.results = {}
    BY <2>3, KeptGone
  <2>7. Held(NoItem, G) = Held(y, G)
    BY <2>3, <2>4, <2>5, <2>6 DEF Held, Carried
  <2>8. Peaceful(NoItem, G)
    BY <2>3, <2>6 DEF Peaceful
  <2>9. NoItem \in ItemSet
    BY NothingTyped
  <2>10. Flies(up, down, c, NoItem.inFlight, G)
    BY <2>2, <2>6
  <2>11. FreedWith(z) = {}
    BY <1>1, <2>1, <2>4, <2>5
  <2> QED BY <2>1, <2>6, <2>7, <2>8, <2>9, <2>10, <2>11 DEF Settles
<1> QED BY <1>2, <1>3

(* Two countdowns of requests that c holds.                                   *)
With(H, c, S) == [d \in Contacts |-> IF d = c THEN S ELSE H[d]]
Parts(S, A, B) == A \subseteq S /\ B \subseteq S \ A

LEMMA CountedTwice ==
  ASSUME NEW rs \in Seq(RequestSet), NEW H \in [Contacts -> SUBSET Nat], Exact(rs, H), NEW c \in Contacts,
         NEW A, NEW B, Parts(H[c], A, B),
         NEW rs2, rs2 = Countdown(Countdown(rs, For(c, A)), For(c, B)),
         NEW H2, H2 = With(H, c, (H[c] \ A) \ B)
  PROVE  rs2 \in Seq(RequestSet) /\ Len(rs2) = Len(rs) /\ Exact(rs2, H2)
<1>1. PICK fa, fb : fa = For(c, A) /\ fb = For(c, B)
  OBVIOUS
<1>2. A \in SUBSET Nat /\ B \in SUBSET Nat /\ A \subseteq H[c] /\ B \subseteq H[c] \ A
  BY DEF Parts
<1>3. /\ fa \in [Contacts -> SUBSET Nat] /\ fa[c] = A /\ (\A d \in Contacts : d # c => fa[d] = {})
      /\ fb \in [Contacts -> SUBSET Nat] /\ fb[c] = B /\ (\A d \in Contacts : d # c => fb[d] = {})
  BY <1>1, <1>2 DEF For, None
<1>4. PICK r1, H1 : r1 = Countdown(rs, fa) /\ H1 = [d \in Contacts |-> H[d] \ fa[d]]
  OBVIOUS
<1>5. \A d \in Contacts : fa[d] \subseteq H[d]
  BY <1>2, <1>3
<1>6. Counted(rs, H)
  BY ExactIsCounted
<1>7. r1 \in Seq(RequestSet) /\ Len(r1) = Len(rs) /\ Exact(r1, H1)
  BY <1>3, <1>4, <1>5, <1>6, CountedDown
<1>8. H1 \in [Contacts -> SUBSET Nat] /\ H1[c] = H[c] \ A /\ \A d \in Contacts : d # c => H1[d] = H[d]
  BY <1>3, <1>4
<1>9. \A d \in Contacts : fb[d] \subseteq H1[d]
  BY <1>2, <1>3, <1>8
<1>10. PICK H3 : H3 = [d \in Contacts |-> H1[d] \ fb[d]]
  OBVIOUS
<1>11. rs2 = Countdown(r1, fb) /\ Counted(r1, H1)
  BY <1>1, <1>4, <1>7, ExactIsCounted
<1>12. rs2 \in Seq(RequestSet) /\ Len(rs2) = Len(r1) /\ Exact(rs2, H3)
  <2>1. PICK r2 : r2 = Countdown(r1, fb)
    OBVIOUS
  <2>2. r1 \in Seq(RequestSet) /\ H1 \in [Contacts -> SUBSET Nat] /\ fb \in [Contacts -> SUBSET Nat] /\ Counted(r1, H1)
    BY <1>3, <1>7, <1>8, <1>11
  <2>3. r2 \in Seq(RequestSet) /\ Len(r2) = Len(r1) /\ Exact(r2, H3)
    BY <1>9, <1>10, <2>1, <2>2, CountedDown
  <2> QED BY <1>11, <2>1, <2>3
<1>13. \A d \in Contacts : H3[d] = IF d = c THEN (H[c] \ A) \ B ELSE H[d]
  BY <1>3, <1>8, <1>10
<1>14. H3 = H2
  BY <1>10, <1>13 DEF With
<1> QED BY <1>7, <1>12, <1>14

LEMMA EditAnsweredKeeps == ASSUME NEW F, Sound(F), EditAnswered PROVE \E G : Sound(G)'
<1> DEFINE m == Head(toClient)
           c == m.c
           x == [item[c] EXCEPT !.inFlight = FALSE]
           next == Apply(received, c, x)
           y == next.it
           believes == y.sub = "remove" /\ m.edit.sub # "remove"
           sub == IF believes THEN m.edit.sub ELSE y.sub
           z == [y EXCEPT !.sub = IF believes THEN m.edit.sub ELSE @]
           freed == next.freed \cup FreedWith(z)
<1>1. /\ Take /\ m.kind = "answer" /\ item' = [item EXCEPT ![c] = MaybeRemove(z)] /\ toServer' = toServer \o next.sent
      /\ req' = Countdown(Countdown(req, For(c, m.edit.results)), For(c, freed))
      /\ crashed' = (crashed \/ next.fails) /\ UNCHANGED <<received, groups>>
  BY DEF EditAnswered
<1>2. m = Head(toClient) /\ c = m.c
  OBVIOUS
<1>3. x = [item[c] EXCEPT !.inFlight = FALSE]
  OBVIOUS
<1>4. next = Apply(received, c, x)
  OBVIOUS
<1>5. y = next.it
  OBVIOUS
<1>6. sub = IF y.sub = "remove" /\ m.edit.sub # "remove" THEN m.edit.sub ELSE y.sub
  OBVIOUS
<1>7. y \in ItemSet => z = [y EXCEPT !.sub = sub]
  BY DEF ItemSet
<1>8. freed = next.freed \cup FreedWith(z)
  OBVIOUS
<1> HIDE DEF m, c, x, next, y, believes, sub, z, freed
<1>9. /\ c \in Contacts /\ m.edit \in EditSet /\ F[c] = {m.edit}
      /\ item[c].there /\ item[c].inFlight /\ received = TRUE
      /\ Flies(toServer, toClient', c, FALSE, {})
      /\ \A d \in Contacts : d # c => Steady(toClient, toClient', "answer", d)
      /\ toClient' \in Seq(Downward) /\ (Calm(env) => \A d \in Contacts : Warned(toClient', d))
  <2>1. Take /\ Head(toClient).kind = "answer"
    BY <1>1, <1>2
  <2>2. Lands(m, c, F)
    BY <1>2, <2>1, Landed
  <2> QED BY <2>2 DEF Lands
<1>10. /\ item \in [Contacts -> ItemSet] /\ item[c] \in ItemSet /\ toServer \in Seq(Upward) /\ Len(req) \in Nat
       /\ req \in Seq(RequestSet) /\ Kept(item[c], F[c], received, Len(req)) /\ item[c].groups \subseteq groups
       /\ UNCHANGED <<env, answered, preAuth, server>>
  BY <1>1, <1>9, Here, ItemKnown, HeldInRange DEF Sound, Take
<1>11. x \in ItemSet /\ x.edit = item[c].edit /\ x.inFlight = FALSE /\ x.there /\ x.sub = item[c].sub /\ x.groups = item[c].groups
  BY <1>3, <1>9, <1>10 DEF ItemSet
<1>12. PICK n, E : n = Len(req) /\ E = {}
  OBVIOUS
<1>13. Queued(x, E, TRUE, n) /\ Flies(toServer, toClient', c, x.inFlight, E) /\ n \in Nat
  BY <1>9, <1>10, <1>11, <1>12 DEF Queued, Kept
<1>14. Outcome(TRUE, c, x, next)
  BY <1>4, <1>9, <1>11, Applies
<1>15. next.sent \in Seq(Upward) /\ \A k \in 1..Len(next.sent) : next.sent[k].c = c
  BY <1>14 DEF Outcome
<1>16. PICK G0 : Sends(toServer', toClient', c, x, E, TRUE, n, next, G0)
  <2>1. PICK s : s = next.sent
    OBVIOUS
  <2>2. /\ NoneOf(next.sent, "set", c) => NoneOf(s, "set", c)
        /\ \A k : OneOf(next.sent, "set", c, k) => OneOf(s, "set", c, k)
        /\ s \in Seq(Upward) /\ toServer' = toServer \o s
    BY <1>1, <1>15, <2>1
  <2> QED BY <1>9, <1>10, <1>11, <1>13, <1>14, <2>2, Applied
<1>17. y \in ItemSet /\ y.there /\ y.sub = item[c].sub /\ y.groups = item[c].groups
  BY <1>5, <1>11, <1>14 DEF Outcome
<1>18. Flies(toServer', toClient', c, y.inFlight, G0) /\ Kept(y, G0, TRUE, n)
       /\ next.freed \subseteq Held(x, E) /\ Held(y, G0) = Held(x, E) \ next.freed
       /\ (Peaceful(x, E) => Peaceful(y, G0) /\ next.fails = FALSE)
  BY <1>5, <1>16 DEF Sends
<1>19. sub \in Subscriptions
  BY <1>6, <1>9, <1>17 DEF ItemSet, EditSet, Subscriptions
<1>20. PICK new : new = MaybeRemove(z)
  OBVIOUS
<1>21. /\ new \in ItemSet /\ new.groups \subseteq y.groups /\ FreedWith(z) = {}
       /\ Flies(toServer', toClient', c, new.inFlight, G0) /\ Kept(new, G0, TRUE, n) /\ Held(new, G0) = Held(y, G0)
       /\ Peaceful(z, G0) => Peaceful(new, G0)
  <2>1. z = Subscribing(y, sub)
    BY <1>7, <1>17 DEF Subscribing
  <2>2. PICK y0, z0, s0 : y0 = y /\ z0 = z /\ s0 = sub
    OBVIOUS
  <2>3. y0 \in ItemSet /\ y0.there /\ n \in Nat /\ s0 \in Subscriptions
    BY <1>13, <1>17, <1>19, <2>2
  <2>4. Flies(toServer', toClient', c, y0.inFlight, G0) /\ Kept(y0, G0, TRUE, n)
    BY <1>18, <2>2
  <2>5. z0 = Subscribing(y0, s0) /\ new = MaybeRemove(z0)
    BY <1>20, <2>1, <2>2
  <2>6. Settles(toServer', toClient', c, y0, G0, n, z0, new)
    BY <2>3, <2>4, <2>5, Believed
  <2> QED BY <2>2, <2>6 DEF Settles
<1>22. PICK G : G = [d \in Contacts |-> IF d = c THEN G0 ELSE F[d]]
  OBVIOUS
<1>23. G[c] = G0 /\ \A d \in Contacts : d # c => G[d] = F[d]
  BY <1>9, <1>22
<1>24. item' \in [Contacts -> ItemSet] /\ item'[c] = new /\ \A d \in Contacts : d # c => item'[d] = item[d]
  BY <1>1, <1>9, <1>10, <1>20, <1>21
<1>25. PICK H, A : H = HeldBy(item, F) /\ A = m.edit.results
  OBVIOUS
<1>26. H \in [Contacts -> SUBSET Nat] /\ Exact(req, H) /\ \A d \in Contacts : H[d] = Held(item[d], F[d])
  BY <1>25, HeldInRange DEF Sound, HeldBy
<1>27. A \subseteq H[c] /\ H[c] \ A = Held(x, E)
  <2>1. A \cap item[c].edit.results = {}
    BY <1>9, <1>10, <1>25 DEF Kept
  <2>2. H[c] = item[c].edit.results \cup A
    BY <1>9, <1>25, <1>26 DEF Held, Carried
  <2>3. Held(x, E) = item[c].edit.results
    BY <1>11, <1>12 DEF Held, Carried
  <2> QED BY <2>1, <2>2, <2>3
<1>28. freed = next.freed
  BY <1>8, <1>21
<1>29. PICK H2 : H2 = With(H, c, (H[c] \ A) \ freed)
  OBVIOUS
<1>30. req' \in Seq(RequestSet) /\ Len(req') = n /\ Exact(req', H2)
  <2>1. freed \subseteq H[c] \ A
    BY <1>18, <1>27, <1>28
  <2>2. PICK rs2, B : rs2 = Countdown(Countdown(req, For(c, A)), For(c, B)) /\ B = freed
    OBVIOUS
  <2>3. req' = rs2
    BY <1>1, <1>25, <2>2
  <2>4. rs2 \in Seq(RequestSet) /\ Len(rs2) = Len(req) /\ Exact(rs2, H2)
    <3>1. c \in Contacts /\ req \in Seq(RequestSet) /\ H \in [Contacts -> SUBSET Nat] /\ Exact(req, H)
      BY <1>9, <1>10, <1>26
    <3>2. Parts(H[c], A, B) /\ H2 = With(H, c, (H[c] \ A) \ B)
      BY <1>27, <1>29, <2>1, <2>2 DEF Parts
    <3>3. rs2 = Countdown(Countdown(req, For(c, A)), For(c, B))
      BY <2>2
    <3> QED BY <3>1, <3>2, <3>3, CountedTwice
  <2> QED BY <1>12, <2>3, <2>4
<1>31. H2 = HeldBy(item', G)
  <2>1. ASSUME NEW d \in Contacts PROVE H2[d] = Held(item'[d], G[d])
    <3>1. CASE d = c
      BY <1>18, <1>21, <1>23, <1>24, <1>27, <1>28, <1>29, <3>1 DEF With
    <3>2. CASE d # c
      BY <1>23, <1>24, <1>26, <1>29, <3>2 DEF With
    <3> QED BY <3>1, <3>2
  <2> QED BY <1>29, <2>1 DEF HeldBy, With
<1>32. ASSUME NEW d \in Contacts
       PROVE  /\ Flies(toServer', toClient', d, item'[d].inFlight, G[d]) /\ Kept(item'[d], G[d], received', n)
              /\ item'[d].groups \subseteq groups'
  <2>1. CASE d = c
    BY <1>1, <1>9, <1>10, <1>17, <1>21, <1>23, <1>24, <2>1
  <2>2. CASE d # c
    <3>1. item'[d] = item[d] /\ G[d] = F[d]
      BY <1>23, <1>24, <2>2
    <3>2. Flies(toServer, toClient, d, item[d].inFlight, F[d]) /\ Kept(item[d], F[d], received, n) /\ item[d].groups \subseteq groups
      BY <1>12, ItemKnown DEF Sound
    <3>3. NoneOf(next.sent, "set", d)
      BY <1>15, <2>2 DEF NoneOf
    <3>4. Steady(toServer, toServer', "set", d)
      BY <1>1, <1>10, <1>15, <3>3, SteadyAppend
    <3>5. Flies(toServer', toClient', d, item[d].inFlight, F[d])
      BY <1>9, <2>2, <3>2, <3>4, FliesOn
    <3> QED BY <1>1, <3>1, <3>2, <3>5
  <2> QED BY <2>1, <2>2
<1>33. ASSUME Calm(env) PROVE ~crashed' /\ \A d \in Contacts : Peaceful(item'[d], G[d])
  <2>1. ~crashed /\ \A d \in Contacts : Peaceful(item[d], F[d])
    BY <1>33, ItemKnown DEF Take, Sound
  <2>2. item[c].sub # "invalid" /\ (m.edit.sub = "invalid" => item[c].sub # "remove")
    BY <1>9, <2>1 DEF Peaceful
  <2>3. Peaceful(x, E)
    BY <1>11, <1>12, <2>2 DEF Peaceful
  <2>4. Peaceful(y, G0) /\ next.fails = FALSE
    BY <1>18, <2>3
  <2>5. z.sub = sub
    BY <1>7, <1>17 DEF ItemSet
  <2>6. Peaceful(z, G0)
    BY <1>6, <1>17, <2>2, <2>4, <2>5 DEF Peaceful
  <2>7. ASSUME NEW d \in Contacts PROVE Peaceful(item'[d], G[d])
    <3>1. CASE d = c
      BY <1>21, <1>23, <1>24, <2>6, <3>1
    <3>2. CASE d # c
      BY <1>23, <1>24, <2>1, <3>2
    <3> QED BY <3>1, <3>2
  <2>8. ~crashed'
    BY <1>1, <2>1, <2>4
  <2> QED BY <2>7, <2>8
<1>34. Typed'
  <2>1. env' \in Environments /\ answered' \in BOOLEAN /\ server' \in [Contacts -> EntrySet] /\ preAuth' \subseteq Contacts
    BY <1>10, Here, ServerKeeps
  <2>2. received' \in BOOLEAN /\ crashed' \in BOOLEAN
    BY <1>1, <1>9
  <2>3. toServer' \in Seq(Upward)
    BY <1>1, <1>10, <1>15, ConcatProperties
  <2> QED BY <1>9, <1>24, <1>30, <2>1, <2>2, <2>3 DEF Typed
<1>35. \A d \in Contacts : Rostered(server'[d])
  BY <1>10, ServerKeeps
<1>36. Calm(env') => ~crashed' /\ \A d \in Contacts : Warned(toClient', d) /\ Peaceful(item'[d], G[d])
  BY <1>9, <1>10, <1>33
<1>37. Sound(G)'
  BY <1>30, <1>31, <1>32, <1>34, <1>35, <1>36 DEF Sound
<1> QED BY <1>37

-----------------------------------------------------------------------------
(* Every step.                                                                *)

LEMMA UserActsKeeps == ASSUME NEW F, Sound(F), UserActs PROVE \E G : Sound(G)'
<1>1. env.contacts \subseteq Contacts
  BY Here, Environs
<1>2. CASE \E c \in env.contacts : \E op \in UserOps : Store(op, c) \/ SetBlocked(op, c)
  BY <1>1, <1>2, StoreKeeps, SetBlockedKeeps
<1>3. CASE \E c \in env.contacts : \E n \in Names \cup {NoName} : SetName(c, n)
  BY <1>1, <1>3, SetNameKeeps
<1>4. CASE \E c \in env.contacts : RemoveTransient(c) \/ RemoveContact(c)
  BY <1>1, <1>4, RemoveTransientKeeps, RemoveContactKeeps
<1>5. CASE \E c \in env.contacts : \E g \in Groups : AddToGroup(c, g) \/ RemoveFromGroup(c, g)
  BY <1>1, <1>5, AddToGroupKeeps, RemoveFromGroupKeeps
<1>6. CASE \E c \in env.contacts : \E gs \in SUBSET Groups : SetContactGroups(c, gs)
  BY <1>1, <1>6, SetContactGroupsKeeps
<1>7. CASE \E c \in env.contacts : Authorize(c) \/ Unsubscribe(c) \/ Unpublish(c)
  BY <1>1, <1>7, AuthorizeKeeps, UnsubscribeKeeps, UnpublishKeeps
<1>8. CASE \E g \in Groups : RemoveGroup(g)
  BY <1>8, RemoveGroupKeeps
<1>9. CASE \E g \in Groups : \E cs \in SUBSET env.contacts : SetGroupMembers(g, cs)
  BY <1>1, <1>9, SetGroupMembersKeeps
<1> QED BY <1>2, <1>3, <1>4, <1>5, <1>6, <1>7, <1>8, <1>9 DEF UserActs

LEMMA OthersKeeps == ASSUME NEW F, Sound(F), Others PROVE Sound(F)'
<1>1. env.contacts \subseteq Contacts
  BY Here, Environs
<1>2. CASE \E c \in env.contacts : \E t \in Presences : ContactSends(c, t)
  BY <1>1, <1>2, ContactSendsKeeps
<1>3. CASE \E c \in env.contacts : \E what \in {"edit", "hide", "delete"} : OtherResource(c, what)
  BY <1>1, <1>3, OtherResourceKeeps
<1>4. CASE \E c \in env.contacts : ServerFlickers(c)
  BY <1>1, <1>4, ServerFlickersKeeps
<1>5. CASE ServerAnswersAgain
  <2>1. /\ UNCHANGED <<env, item, received, groups, preAuth, req, crashed, server, toServer>> /\ answered' = answered
        /\ toClient' = Append(toClient,
             [kind |-> "roster", items |-> [c \in {x \in Contacts : server[x].there} |-> Content(server[c])]])
    BY <1>5 DEF ServerAnswersAgain, Happens
  <2>2. answered' \in BOOLEAN
    BY <2>1 DEF Sound, Typed
  <2> QED BY <2>1, <2>2, RosterSentKeeps
<1> QED BY <1>2, <1>3, <1>4, <1>5 DEF Others

LEMMA ProgressKeeps == ASSUME NEW F, Sound(F), Progress PROVE \E G : Sound(G)'
<1>1. CASE RosterPush \/ RosterReceived \/ EditAnswered \/ PresenceReceived
  BY <1>1, RosterPushKeeps, RosterReceivedKeeps, EditAnsweredKeeps, PresenceReceivedKeeps
<1>2. CASE \E ok \in BOOLEAN : ServerEdits(ok)
  BY <1>2, ServerEditsKeeps
<1>3. CASE ServerHearsPresence
  BY <1>3, ServerHearsPresenceKeeps
<1>4. CASE ServerAnswersRoster
  <2>1. /\ UNCHANGED <<env, item, received, groups, preAuth, req, crashed, server, toServer>> /\ answered' = TRUE
        /\ toClient' = Append(toClient,
             [kind |-> "roster", items |-> [c \in {x \in Contacts : server[x].there} |-> Content(server[c])]])
    BY <1>4 DEF ServerAnswersRoster
  <2> QED BY <2>1, RosterSentKeeps
<1>5. CASE \E r \in DOMAIN req : Complete(r)
  BY <1>5, CompleteKeeps
<1>6. CASE \E c \in Contacts : FlickerTimeout(c)
  BY <1>6, FlickerTimeoutKeeps
<1> QED BY <1>1, <1>2, <1>3, <1>4, <1>5, <1>6 DEF Progress

LEMMA EveryStepKeeps == RosterInv /\ [Next]_vars => RosterInv'
<1> SUFFICES ASSUME RosterInv, [Next]_vars PROVE RosterInv'
  OBVIOUS
<1>1. PICK F : Sound(F)
  BY InvHasParts
<1>2. \E G : Sound(G)'
  <2>1. CASE UserActs
    BY <1>1, <2>1, UserActsKeeps
  <2>2. CASE Others
    BY <1>1, <2>2, OthersKeeps
  <2>3. CASE Progress
    BY <1>1, <2>3, ProgressKeeps
  <2>4. CASE UNCHANGED vars
    BY <1>1, <2>4, StutterKeeps
  <2> QED BY <2>1, <2>2, <2>3, <2>4 DEF Next
<1> QED BY <1>2, Together

-----------------------------------------------------------------------------
(* RosterInv holds of every state: the edit that an item says is in flight is *)
(* the only stanza about it under way, and every request knows its holders.   *)
THEOREM RosterStaysSound == Spec => []RosterInv
<1>1. Init => RosterInv
  BY Starts
<1>2. RosterInv /\ [Next]_vars => RosterInv'
  BY EveryStepKeeps
<1> QED BY <1>1, <1>2, PTL DEF Spec

(* Edits and the requests of clients that wait for them are accounted for     *)
(* (roster_item_apply_edits, roster_edited_cb): one batch in flight for each  *)
(* contact and the others held back for it, each request of a client counting *)
(* the batches that carry it, however pushes, answers and calls interleave.   *)
(* Where pushes come before answers and nobody else removes contacts, no      *)
(* assertion of roster_item_apply_edits fails.                                *)
THEOREM EditsStayTracked == Spec => []EditsTracked
<1>1. RosterInv => EditsTracked
  BY InvTracks
<1> QED BY <1>1, RosterStaysSound, PTL
=============================================================================
