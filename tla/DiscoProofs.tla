----------------------------- MODULE DiscoProofs -----------------------------
(* The invariants of Disco for every window, any number of services, rooms,  *)
(* clients and listings, and whether or not addresses are used again.        *)
EXTENDS Disco, SequenceTheorems, FiniteSetTheorems, TLAPS

Outcomes == {"nothing", "reply", "error", "timeout", "cancelled", "again", "wrong"}
Statuses == {"connecting", "connected", "disconnected", "disposing", "disposed"}
Jids(p) == IF p = "service" THEN discoEnv.services ELSE discoEnv.rooms
Jobs == [owner : Pipelines \cup discoEnv.objects,
         jid : {List} \cup discoEnv.services \cup discoEnv.rooms]

-----------------------------------------------------------------------------
(* The inductive invariant.                                                  *)

(* The table of requests.                                                    *)
Table ==
  /\ discoEnv \in DiscoEnvironments
  /\ status \in Statuses
  /\ req \in Seq(Jobs)
  /\ \A r \in 1 .. Len(req) :
        req[r].owner \in Pipelines => req[r].jid \in {List} \cup Jids(req[r].owner)
  /\ requests \subseteq 1 .. Len(req)
  /\ wire \subseteq 1 .. Len(req)
  /\ DOMAIN freedAt = 1 .. Len(req)
  /\ told \in [1 .. Len(req) -> Outcomes]
  /\ dead \subseteq discoEnv.objects

(* Who is in the list has been told nothing and is alive; who is not has     *)
(* been told something, or is dead.                                          *)
ToldInv ==
  \A r \in 1 .. Len(req) :
    /\ told[r] # "again"
    /\ r \in requests => told[r] = "nothing" /\ req[r].owner \notin dead
    /\ r \notin requests /\ told[r] = "nothing" => req[r].owner \in dead

(* The callback of a request that is not in the list is not called.          *)
Quiet == \A r \in 1 .. Len(req) : r \notin requests => told'[r] = told[r]

(* The info and the items requests of pipeline p that are under way.         *)
Infos(p) == {r \in requests : req[r].owner = p /\ req[r].jid # List}
Lists(p) == {r \in requests : req[r].owner = p /\ req[r].jid = List}

(* What the struct q of a pipeline for the items jids says, when these are   *)
(* its requests: it knows its info requests and, unless rooms were listed    *)
(* while they were being listed, its items request; and such a pipeline      *)
(* stops only when nothing is left.                                          *)
Sound(q, jids, infos, lists, clean) ==
  /\ q.array = infos
  /\ Cardinality(infos) <= PipelineSize
  /\ q.remaining \subseteq jids
  /\ q.list # None => q.list \in lists
  /\ infos # {} => q.running
  /\ ~q.alive => q = NoPipe
  /\ clean => /\ lists = {q.list} \ {None}
              /\ q.list # None => infos = {} /\ q.remaining = {}
              /\ ~q.running => q.list = None /\ q.remaining = {}

Struct(jids) == [alive : BOOLEAN, running : BOOLEAN, list : Nat, array : SUBSET Nat,
                 remaining : SUBSET jids]
PipeTypes == Struct(discoEnv.services \cup discoEnv.rooms)

Pipes ==
  /\ pipe \in [Pipelines -> PipeTypes]
  /\ \A p \in Pipelines : Sound(pipe[p], Jids(p), Infos(p), Lists(p), ~relisted)
  /\ status = "connecting" => pipe["service"] = NoPipe

(* The roomlist channel lists rooms as long as its pipeline runs.            *)
Channel ==
  /\ {listing, closed, relisted, crashed} \subseteq BOOLEAN
  /\ cache \in Seq(discoEnv.services)
  /\ pipe["rooms"].running = listing
  /\ ~listing => asked = {}
  /\ found = announced \cup asked /\ found \subseteq discoEnv.rooms
  /\ nlist \in 0 .. discoEnv.listings /\ timer \in 0 .. nlist /\ timers \subseteq 1 .. nlist
  /\ ~relisted => timers = IF listing THEN {timer} ELSE {}
  /\ closed => ~listing
  /\ ~relisted => ~crashed

DiscoInv == Table /\ ToldInv /\ Pipes /\ Channel

-----------------------------------------------------------------------------
(* What the invariant says of the properties.                                *)

LEMMA Environments ==
  ASSUME discoEnv \in DiscoEnvironments
  PROVE  /\ PipelineSize \in Nat /\ PipelineSize # 0
         /\ IsFiniteSet(discoEnv.services) /\ IsFiniteSet(discoEnv.rooms)
         /\ List \notin discoEnv.services /\ List \notin discoEnv.rooms
         /\ "service" \notin discoEnv.objects /\ "rooms" \notin discoEnv.objects
         /\ discoEnv.listings \in Nat
BY DiscoAssumption DEF EnvironmentsAreSets, Pipelines

LEMMA Invariant_Types == DiscoInv => DiscoTypeOK
<1> SUFFICES ASSUME DiscoInv PROVE DiscoTypeOK
  OBVIOUS
<1>1. DOMAIN req = 1 .. Len(req) /\ Len(req) \in Nat
  BY LenProperties DEF DiscoInv, Table
<1>2. DOMAIN told = 1 .. Len(req) /\ told \in [1 .. Len(req) -> Outcomes]
  BY DEF DiscoInv, Table
<1>3. ASSUME NEW p \in Pipelines
      PROVE  /\ pipe[p].list \in DOMAIN req \cup {None}
             /\ pipe[p].array \subseteq DOMAIN req
             /\ pipe[p].remaining \subseteq discoEnv.services \cup discoEnv.rooms
  <2>1. Sound(pipe[p], Jids(p), Infos(p), Lists(p), ~relisted)
    BY DEF DiscoInv, Pipes
  <2>2. requests \subseteq DOMAIN req
    BY <1>1 DEF DiscoInv, Table
  <2> QED BY <2>1, <2>2 DEF Sound, Jids, Infos, Lists
<1>4. /\ timers \subseteq 1 .. discoEnv.listings /\ timer \in 0 .. discoEnv.listings
  <2>1. discoEnv.listings \in Nat
    BY Environments DEF DiscoInv, Table
  <2> QED BY <2>1 DEF DiscoInv, Channel
<1>5. /\ cache \in Seq(discoEnv.services) /\ asked \subseteq discoEnv.rooms
      /\ announced \subseteq found /\ found \subseteq discoEnv.rooms
  BY DEF DiscoInv, Channel
<1>6. /\ discoEnv \in DiscoEnvironments /\ status \in Statuses /\ req \in Seq(Jobs)
      /\ requests \subseteq DOMAIN req /\ wire \subseteq DOMAIN req /\ DOMAIN freedAt = DOMAIN req
      /\ dead \subseteq discoEnv.objects
  BY <1>1 DEF DiscoInv, Table
<1> QED BY <1>1, <1>2, <1>3, <1>4, <1>5, <1>6 DEF DiscoTypeOK, Outcomes, Statuses, Jobs

LEMMA Invariant_Requests == DiscoInv => NoCrash /\ PipelineOwnsItsRequests /\ ToldOnce
<1> SUFFICES ASSUME DiscoInv PROVE NoCrash /\ PipelineOwnsItsRequests /\ ToldOnce
  OBVIOUS
<1>1. NoCrash
  BY DEF DiscoInv, Channel, NoCrash
<1>2. ASSUME ~relisted, NEW p \in Pipelines PROVE OwnedBy(p) = PipelineRequests(pipe[p])
  <2>1. Sound(pipe[p], Jids(p), Infos(p), Lists(p), ~relisted)
    BY DEF DiscoInv, Pipes
  <2>2. pipe[p].array = Infos(p) /\ Lists(p) = {pipe[p].list} \ {None}
    BY <1>2, <2>1 DEF Sound
  <2>3. None \notin Infos(p)
    BY DEF Infos, None, DiscoInv, Table
  <2>4. OwnedBy(p) = Infos(p) \cup Lists(p)
    BY DEF OwnedBy, Infos, Lists
  <2> QED BY <2>2, <2>3, <2>4 DEF PipelineRequests
<1>3. ToldOnce
  <2>1. DOMAIN req = 1 .. Len(req)
    BY LenProperties DEF DiscoInv, Table
  <2> QED BY <2>1 DEF DiscoInv, ToldInv, ToldOnce
<1> QED BY <1>1, <1>2, <1>3 DEF PipelineOwnsItsRequests

LEMMA Invariant_Listing == DiscoInv => ListingComplete
<1> SUFFICES ASSUME DiscoInv PROVE ListingComplete
  OBVIOUS
<1>1. \A p \in Pipelines : Sound(pipe[p], Jids(p), Infos(p), Lists(p), ~relisted)
  BY DEF DiscoInv, Pipes
<1>2. WindowBound
  BY <1>1 DEF Sound, WindowBound
<1>3. NoRoomLost /\ TimerMatchesListing
  BY DEF DiscoInv, Channel, NoRoomLost, TimerMatchesListing
<1>4. EndMeansComplete
  <2> SUFFICES ASSUME ~listing, ~relisted
               PROVE  PipelineRequests(pipe["rooms"]) = {} /\ pipe["rooms"].remaining = {}
    BY DEF EndMeansComplete
  <2>1. ~pipe["rooms"].running
    BY DEF DiscoInv, Channel
  <2>2. Sound(pipe["rooms"], Jids("rooms"), Infos("rooms"), Lists("rooms"), TRUE)
    BY <1>1 DEF Pipelines
  <2> QED BY <2>1, <2>2 DEF Sound, PipelineRequests
<1> QED BY <1>2, <1>3, <1>4 DEF ListingComplete

LEMMA InvariantMeansSound == DiscoInv => DiscoSound
BY Invariant_Types, Invariant_Requests, Invariant_Listing DEF DiscoSound, RequestsSafe

-----------------------------------------------------------------------------
(* The table.                                                                *)

(* Requests for js were added to the table and those in del left the list.   *)
Grown(owner, js, del) ==
  /\ req' \in Seq(Jobs)
  /\ Len(req') = Len(req) + Len(js)
  /\ \A r \in 1 .. Len(req) : req'[r] = req[r]
  /\ \A r \in Len(req) + 1 .. Len(req) + Len(js) :
        req'[r].owner = owner /\ req'[r].jid = js[r - Len(req)]
  /\ requests' = (requests \cup (Len(req) + 1 .. Len(req) + Len(js))) \ del
  /\ DOMAIN freedAt' = 1 .. Len(req')
  /\ wire' \subseteq 1 .. Len(req')

LEMMA RequestGrows ==
  ASSUME Table,
         NEW owner \in Pipelines \cup discoEnv.objects,
         NEW js \in Seq({List} \cup discoEnv.services \cup discoEnv.rooms),
         NEW del, NEW ans, Request(owner, js, del, ans)
  PROVE  Grown(owner, js, del)
<1> DEFINE add == [i \in DOMAIN js |-> [owner |-> owner, jid |-> js[i]]]
<1>1. DOMAIN js = 1 .. Len(js) /\ Len(js) \in Nat
  BY LenProperties
<1>2. add \in Seq(Jobs)
  <2>1. \A i \in 1 .. Len(js) : js[i] \in {List} \cup discoEnv.services \cup discoEnv.rooms
    BY ElementOfSeq
  <2>2. add \in [1 .. Len(js) -> Jobs]
    BY <1>1, <2>1 DEF Jobs
  <2> QED BY <1>1, <2>2, SeqDef
<1>3. Len(add) = Len(js)
  <2>1. DOMAIN add = 1 .. Len(js)
    BY <1>1
  <2>2. DOMAIN add = 1 .. Len(add) /\ Len(add) \in Nat
    BY <1>2, LenProperties
  <2> HIDE DEF add
  <2> QED BY <1>1, <2>1, <2>2
<1>4. \A i \in 1 .. Len(js) : add[i] = [owner |-> owner, jid |-> js[i]]
  BY <1>1
<1>5. req \in Seq(Jobs) /\ Len(req) \in Nat /\ DOMAIN req = 1 .. Len(req)
  BY LenProperties DEF Table
<1>6. req' = req \o add /\ requests' = (requests \cup (Len(req) + 1 .. Len(req) + Len(js))) \ del
  BY DEF Request
<1>7. DOMAIN freedAt' = DOMAIN req'
  BY DEF Request
<1>8. wire' \subseteq wire \cup (Len(req) + 1 .. Len(req) + Len(js))
  BY DEF Request
<1> HIDE DEF add
<1>9. /\ req' \in Seq(Jobs) /\ Len(req') = Len(req) + Len(js)
      /\ \A i \in 1 .. Len(req) + Len(js) :
            req'[i] = IF i <= Len(req) THEN req[i] ELSE add[i - Len(req)]
  <2>1. /\ req \o add \in Seq(Jobs) /\ Len(req \o add) = Len(req) + Len(add)
        /\ \A i \in 1 .. Len(req) + Len(add) :
              (req \o add)[i] = IF i <= Len(req) THEN req[i] ELSE add[i - Len(req)]
    BY <1>2, <1>5, ConcatProperties, Zenon
  <2> QED BY <1>3, <1>6, <2>1, Zenon
<1>10. DOMAIN req' = 1 .. Len(req')
  BY <1>9, LenProperties
<1>11. wire' \subseteq 1 .. Len(req')
  BY <1>1, <1>5, <1>8, <1>9 DEF Table
<1>12. \A r \in 1 .. Len(req) : req'[r] = req[r]
  BY <1>1, <1>5, <1>9
<1>13. ASSUME NEW r \in Len(req) + 1 .. Len(req) + Len(js)
       PROVE  req'[r].owner = owner /\ req'[r].jid = js[r - Len(req)]
  <2>1. r \in 1 .. Len(req) + Len(js) /\ ~(r <= Len(req)) /\ r - Len(req) \in 1 .. Len(js)
    BY <1>1, <1>5
  <2>2. req'[r] = [owner |-> owner, jid |-> js[r - Len(req)]]
    BY <1>4, <1>9, <2>1
  <2> QED BY <2>2
<1> QED BY <1>6, <1>7, <1>9, <1>10, <1>11, <1>12, <1>13 DEF Grown

LEMMA DeleteGrows ==
  ASSUME Table, NEW del, NEW ans, Delete(del, ans)
  PROVE  Grown(None, <<>>, del) /\ req' = req /\ requests' = requests \ del
<1>1. req \in Seq(Jobs) /\ Len(req) \in Nat /\ DOMAIN req = 1 .. Len(req)
  BY LenProperties DEF Table
<1>2. Request(None, <<>>, del, ans)
  BY DEF Delete
<1> DEFINE e == <<>>
           add == [i \in DOMAIN e |-> [owner |-> None, jid |-> e[i]]]
<1>3. Len(e) = 0 /\ DOMAIN e = {} /\ Len(req) + 1 .. Len(req) + Len(e) = {}
  BY <1>1
<1>4. add = <<>>
  OBVIOUS
<1>5. req' = req \o add
  BY <1>2 DEF Request
<1>6. req' = req
  BY <1>1, <1>4, <1>5, ConcatEmptySeq
<1>7. requests' = (requests \cup (Len(req) + 1 .. Len(req) + Len(e))) \ del
  BY <1>2 DEF Request
<1>8. DOMAIN freedAt' = DOMAIN req'
  BY <1>2 DEF Request
<1>9. wire' \subseteq wire \cup (Len(req) + 1 .. Len(req) + Len(e))
  BY <1>2 DEF Request
<1> HIDE DEF add, e
<1>10. requests' = requests \ del /\ wire' \subseteq wire
  BY <1>3, <1>7, <1>9
<1> USE DEF e
<1> QED BY <1>1, <1>6, <1>8, <1>10 DEF Grown, Table

LEMMA TableKept ==
  ASSUME Table, NEW owner, NEW js, Len(js) \in Nat, NEW del, Grown(owner, js, del),
         \A i \in 1 .. Len(js) : owner \in Pipelines => js[i] \in {List} \cup Jids(owner),
         NEW rs, NEW o \in Outcomes, Told(rs, o),
         discoEnv' = discoEnv, status' \in Statuses, dead' \subseteq discoEnv.objects
  PROVE  Table'
<1>1. Len(req) \in Nat /\ req' \in Seq(Jobs) /\ Len(req') = Len(req) + Len(js) /\ DOMAIN req' = 1 .. Len(req')
  BY LenProperties DEF Table, Grown
<1>2. Jobs' = Jobs
  BY DEF Jobs
<1>3. ASSUME NEW r \in 1 .. Len(req'), req'[r].owner \in Pipelines
      PROVE  req'[r].jid \in {List} \cup Jids(req'[r].owner)
  <2>1. CASE r \in 1 .. Len(req)
    BY <1>3, <2>1 DEF Grown, Table
  <2>2. CASE r \in Len(req) + 1 .. Len(req) + Len(js)
    <3>1. req'[r].owner = owner /\ req'[r].jid = js[r - Len(req)] /\ r - Len(req) \in 1 .. Len(js)
      BY <1>1, <2>2 DEF Grown
    <3> QED BY <1>3, <3>1
  <2> QED BY <1>1, <2>1, <2>2
<1>4. \A r \in 1 .. Len(req') :
        req'[r].owner \in Pipelines =>
          req'[r].jid \in {List} \cup IF req'[r].owner = "service" THEN discoEnv'.services ELSE discoEnv'.rooms
  BY <1>3 DEF Jids
<1>5. requests' \subseteq 1 .. Len(req')
  <2>1. 1 .. Len(req) \subseteq 1 .. Len(req') /\ Len(req) + 1 .. Len(req) + Len(js) \subseteq 1 .. Len(req')
    BY <1>1
  <2>2. requests' \subseteq requests \cup (Len(req) + 1 .. Len(req) + Len(js)) /\ requests \subseteq 1 .. Len(req)
    BY DEF Table, Grown
  <2> QED BY <2>1, <2>2
<1>6. told' \in [1 .. Len(req') -> Outcomes]
  <2>1. \A r \in DOMAIN told : told[r] \in Outcomes
    BY DEF Table
  <2>2. told' = [r \in DOMAIN req' |->
                CASE r \notin DOMAIN told -> "nothing"
                  [] r \in rs /\ told[r] # "nothing" -> "again"
                  [] r \in rs /\ told[r] = "nothing" -> o
                  [] OTHER -> told[r]]
    BY DEF Told
  <2>3. ASSUME NEW r \in DOMAIN req' PROVE told'[r] \in Outcomes
    <3>1. CASE r \notin DOMAIN told
      BY <2>2, <3>1 DEF Outcomes
    <3>2. CASE r \in DOMAIN told
      BY <2>1, <2>2, <3>2 DEF Outcomes
    <3> QED BY <3>1, <3>2
  <2> QED BY <1>1, <2>2, <2>3
<1>7. wire' \subseteq 1 .. Len(req') /\ DOMAIN freedAt' = 1 .. Len(req')
  BY DEF Grown
<1> QED BY <1>1, <1>2, <1>4, <1>5, <1>6, <1>7 DEF Table, Jids

LEMMA ToldKept ==
  ASSUME Table, ToldInv, NEW owner, NEW js, Len(js) \in Nat, NEW del, Grown(owner, js, del),
         NEW rs, NEW o \in Outcomes, Told(rs, o),
         rs = {} \/ o \notin {"again", "nothing"},
         rs \subseteq requests, rs \subseteq del, del \subseteq requests,
         \A r \in del \ rs : req[r].owner \in dead',
         \A r \in requests \ del : req[r].owner \notin dead',
         dead \subseteq dead', Len(js) = 0 \/ owner \notin dead'
  PROVE  ToldInv' /\ Quiet
<1>1. Len(req) \in Nat /\ Len(req') = Len(req) + Len(js) /\ DOMAIN req' = 1 .. Len(req')
  BY LenProperties DEF Table, Grown
<1>2. DOMAIN told = 1 .. Len(req) /\ requests \subseteq 1 .. Len(req)
  BY DEF Table
<1>q. Quiet
  <2> SUFFICES ASSUME NEW r \in 1 .. Len(req), r \notin requests PROVE told'[r] = told[r]
    BY DEF Quiet
  <2>1. r \in DOMAIN req' /\ r \in DOMAIN told /\ r \notin rs
    BY <1>1, <1>2
  <2> QED BY <2>1 DEF Told
<1> SUFFICES ASSUME NEW r \in 1 .. Len(req')
             PROVE  /\ told'[r] # "again"
                    /\ r \in requests' => told'[r] = "nothing" /\ req'[r].owner \notin dead'
                    /\ r \notin requests' /\ told'[r] = "nothing" => req'[r].owner \in dead'
  BY <1>q DEF ToldInv
<1>3. told'[r] = CASE r \notin DOMAIN told -> "nothing"
                   [] r \in rs /\ told[r] # "nothing" -> "again"
                   [] r \in rs /\ told[r] = "nothing" -> o
                   [] OTHER -> told[r]
  BY <1>1 DEF Told
<1>4. CASE r \in 1 .. Len(req)
  <2>1. req'[r] = req[r] /\ r \notin Len(req) + 1 .. Len(req) + Len(js)
    BY <1>1, <1>4 DEF Grown
  <2>2. r \in requests' <=> r \in requests /\ r \notin del
    BY <2>1 DEF Grown
  <2>3. /\ told[r] # "again"
        /\ r \in requests => told[r] = "nothing" /\ req[r].owner \notin dead
        /\ r \notin requests /\ told[r] = "nothing" => req[r].owner \in dead
    BY <1>4 DEF ToldInv
  <2>4. CASE r \in rs
    <3>1. told[r] = "nothing" /\ r \notin requests'
      BY <2>2, <2>3, <2>4
    <3>2. told'[r] = o
      BY <1>2, <1>3, <1>4, <2>4, <3>1
    <3> QED BY <2>4, <3>1, <3>2
  <2>5. CASE r \notin rs
    <3>1. told'[r] = told[r]
      BY <1>2, <1>3, <1>4, <2>5
    <3> QED BY <2>1, <2>2, <2>3, <2>5, <3>1
  <2> QED BY <2>4, <2>5
<1>5. CASE r \in Len(req) + 1 .. Len(req) + Len(js)
  <2>1. r \notin 1 .. Len(req) /\ Len(js) # 0
    BY <1>1, <1>5
  <2>2. told'[r] = "nothing"
    BY <1>2, <1>3, <2>1
  <2>3. r \notin del
    BY <1>2, <2>1
  <2>4. r \in requests' /\ req'[r].owner = owner
    BY <1>5, <2>3 DEF Grown
  <2> QED BY <2>1, <2>2, <2>4
<1> QED BY <1>1, <1>4, <1>5

-----------------------------------------------------------------------------
(* Pipelines.                                                                *)

(* A pipeline none of whose requests are made or deleted.                    *)
LEMMA OthersUntouched ==
  ASSUME Table, NEW owner, NEW js, Len(js) \in Nat, NEW del, Grown(owner, js, del),
         NEW p, Len(js) = 0 \/ owner # p,
         \A r \in del \cap requests : req[r].owner # p
  PROVE  Infos(p)' = Infos(p) /\ Lists(p)' = Lists(p)
<1>1. Len(req) \in Nat /\ requests \subseteq 1 .. Len(req)
  BY LenProperties DEF Table
<1>2. ASSUME NEW r
      PROVE  r \in requests' /\ req'[r].owner = p <=> r \in requests /\ req[r].owner = p
  <2>1. CASE r \in requests
    <3>1. req'[r] = req[r] /\ (r \in requests' <=> r \notin del)
      BY <1>1, <2>1 DEF Grown
    <3> QED BY <2>1, <3>1
  <2>2. CASE r \notin requests /\ r \in Len(req) + 1 .. Len(req) + Len(js)
    <3>1. req'[r].owner = owner /\ Len(js) # 0
      BY <1>1, <2>2 DEF Grown
    <3> QED BY <2>2, <3>1
  <2>3. CASE r \notin requests /\ r \notin Len(req) + 1 .. Len(req) + Len(js)
    BY <2>3 DEF Grown
  <2> QED BY <2>1, <2>2, <2>3
<1>3. \A r \in requests : req'[r] = req[r]
  BY <1>1 DEF Grown
<1> QED BY <1>2, <1>3 DEF Infos, Lists

(* Items are queried by pipeline p, and its request r is done with.          *)
LEMMA OwnQueries ==
  ASSUME Table, NEW p, NEW js, Len(js) \in Nat, NEW r \in requests, Grown(p, js, {r}),
         \A i \in 1 .. Len(js) : js[i] # List
  PROVE  /\ Infos(p)' = (Infos(p) \ {r}) \cup (Len(req) + 1 .. Len(req) + Len(js))
         /\ Lists(p)' = Lists(p) \ {r}
<1>1. Len(req) \in Nat /\ requests \subseteq 1 .. Len(req)
  BY LenProperties DEF Table
<1>2. \A s \in requests : req'[s] = req[s] /\ s \notin Len(req) + 1 .. Len(req) + Len(js)
  BY <1>1 DEF Grown
<1>3. \A s \in Len(req) + 1 .. Len(req) + Len(js) : req'[s].owner = p /\ req'[s].jid # List /\ s # r
  <2> SUFFICES ASSUME NEW s \in Len(req) + 1 .. Len(req) + Len(js)
               PROVE  req'[s].owner = p /\ req'[s].jid # List /\ s # r
    OBVIOUS
  <2>1. s - Len(req) \in 1 .. Len(js) /\ s # r
    BY <1>1
  <2>2. req'[s].owner = p /\ req'[s].jid = js[s - Len(req)]
    BY DEF Grown
  <2> QED BY <2>1, <2>2
<1>4. requests' = (requests \cup (Len(req) + 1 .. Len(req) + Len(js))) \ {r}
  BY DEF Grown
<1> QED BY <1>2, <1>3, <1>4 DEF Infos, Lists

(* An items request of pipeline p is made.                                   *)
LEMMA OwnList ==
  ASSUME Table, NEW p, Grown(p, <<List>>, {})
  PROVE  Infos(p)' = Infos(p) /\ Lists(p)' = Lists(p) \cup {Len(req) + 1}
<1>1. Len(req) \in Nat /\ requests \subseteq 1 .. Len(req) /\ Len(<<List>>) = 1
  BY LenProperties DEF Table
<1>2. Len(req) + 1 .. Len(req) + Len(<<List>>) = {Len(req) + 1}
  BY <1>1
<1>3. requests' = requests \cup {Len(req) + 1}
  BY <1>2 DEF Grown
<1>4. \A s \in requests : req'[s] = req[s]
  BY <1>1 DEF Grown
<1>5. req'[Len(req) + 1].owner = p /\ req'[Len(req) + 1].jid = List
  <2>1. Len(req) + 1 \in Len(req) + 1 .. Len(req) + Len(<<List>>) /\ Len(req) + 1 - Len(req) = 1
    BY <1>1, <1>2
  <2>2. req'[Len(req) + 1].owner = p /\ req'[Len(req) + 1].jid = <<List>>[Len(req) + 1 - Len(req)]
    BY <2>1 DEF Grown
  <2>3. <<List>>[1] = List
    OBVIOUS
  <2> QED BY <2>1, <2>2, <2>3
<1>6. Len(req) + 1 \notin requests
  BY <1>1
<1> QED BY <1>3, <1>4, <1>5, <1>6 DEF Infos, Lists

LEMMA PipesKept ==
  ASSUME Pipes, pipe' = pipe, discoEnv' = discoEnv, relisted' = relisted,
         status' = "connecting" => status = "connecting",
         \A p \in Pipelines : Infos(p)' = Infos(p) /\ Lists(p)' = Lists(p)
  PROVE  Pipes'
<1>1. PipeTypes' = PipeTypes
  BY DEF PipeTypes
<1>2. ASSUME NEW p \in Pipelines
      PROVE  Sound(pipe'[p], Jids(p)', Infos(p)', Lists(p)', ~relisted')
  <2>1. Jids(p)' = Jids(p)
    BY DEF Jids
  <2>2. Sound(pipe[p], Jids(p), Infos(p), Lists(p), ~relisted)
    BY DEF Pipes
  <2> QED BY <2>1, <2>2
<1> QED BY <1>1, <1>2 DEF Pipes

(* A pipeline in whose callback gabble_disco_fill_pipeline is called.        *)
Ready(q, jids, infos, lists, clean) ==
  /\ q.alive
  /\ q.array = infos
  /\ Cardinality(infos) <= PipelineSize
  /\ q.remaining \subseteq jids
  /\ q.list # None => q.list \in lists
  /\ infos # {} => q.running
  /\ clean => lists = {} /\ q.list = None /\ q.running

(* The struct in the callback of its items request.                          *)
WithItems(q, js) == [q EXCEPT !.list = None, !.remaining = @ \cup js]

LEMMA ItemsReady ==
  ASSUME NEW q, NEW jids, NEW infos, NEW lists, NEW clean \in BOOLEAN,
         q \in Struct(jids),
         Sound(q, jids, infos, lists, clean), q.alive,
         NEW r \in lists, r # None, r \notin infos, NEW js \in SUBSET jids
  PROVE  Ready(WithItems(q, js), jids, infos \ {r}, lists \ {r}, clean)
<1> DEFINE q2 == WithItems(q, js)
<1>1. /\ q2.alive = q.alive /\ q2.array = q.array /\ q2.running = q.running /\ q2.list = None
      /\ q2.remaining = q.remaining \cup js
  BY DEF Struct, WithItems
<1>2. infos \ {r} = infos
  OBVIOUS
<1>3. clean => lists \ {r} = {} /\ q.running
  BY DEF Sound
<1> HIDE DEF q2
<1>4. Ready(q2, jids, infos, lists \ {r}, clean)
  BY <1>1, <1>3 DEF Ready, Sound
<1> QED BY <1>2, <1>4 DEF q2

LEMMA InfoReady ==
  ASSUME NEW q, NEW jids, NEW infos, IsFiniteSet(infos), NEW lists, NEW clean \in BOOLEAN,
         q \in Struct(jids),
         Sound(q, jids, infos, lists, clean), q.alive,
         NEW r \in infos, r \notin lists, PipelineSize \in Nat
  PROVE  Ready([q EXCEPT !.array = @ \ {r}], jids, infos \ {r}, lists \ {r}, clean)
<1> DEFINE q2 == [q EXCEPT !.array = @ \ {r}]
<1>1. /\ q2.alive = q.alive /\ q2.array = q.array \ {r} /\ q2.running = q.running /\ q2.list = q.list
      /\ q2.remaining = q.remaining
  BY DEF Struct
<1>2. lists \ {r} = lists
  OBVIOUS
<1>3. Cardinality(infos \ {r}) = Cardinality(infos) - 1 /\ Cardinality(infos) \in Nat
  BY FS_RemoveElement, FS_CardinalityType
<1>4. Cardinality(infos \ {r}) <= PipelineSize
  BY <1>3 DEF Sound
<1>5. q.running /\ (clean => lists = {} /\ q.list = None)
  BY DEF Sound
<1> HIDE DEF q2
<1>6. Ready(q2, jids, infos \ {r}, lists, clean)
  BY <1>1, <1>4, <1>5 DEF Ready, Sound
<1> QED BY <1>2, <1>6 DEF q2

(* How many requests gabble_disco_fill_pipeline makes.                       *)
LEMMA PlacesBound ==
  ASSUME NEW q, IsFiniteSet(q.array), IsFiniteSet(q.remaining),
         PipelineSize \in Nat, PipelineSize # 0, Cardinality(q.array) <= PipelineSize
  PROVE  /\ Places(q) \in Nat
         /\ Places(q) + Cardinality(q.array) <= PipelineSize
         /\ Places(q) # 0 => q.running
         /\ q.running /\ q.array = {} /\ Places(q) = 0 => q.remaining = {}
<1>1. Cardinality(q.array) \in Nat /\ Cardinality(q.remaining) \in Nat
  BY FS_CardinalityType
<1>2. q.array = {} => Cardinality(q.array) = 0
  BY FS_EmptySet
<1>3. Cardinality(q.remaining) = 0 => q.remaining = {}
  BY FS_EmptySet
<1> QED BY <1>1, <1>2, <1>3 DEF Places

LEMMA Count ==
  ASSUME NEW n \in Nat, NEW m \in Nat
  PROVE  IsFiniteSet(n + 1 .. n + m) /\ Cardinality(n + 1 .. n + m) = m
<1>1. PICK a \in Int, b \in Int : a = n + 1 /\ b = n + m
  OBVIOUS
<1>2. IsFiniteSet(a .. b) /\ Cardinality(a .. b) = IF a > b THEN 0 ELSE b - a + 1
  BY FS_Interval
<1>3. (IF a > b THEN 0 ELSE b - a + 1) = m
  BY <1>1
<1>4. a .. b = n + 1 .. n + m
  BY <1>1
<1> QED BY <1>2, <1>3, <1>4

(* The struct after requests were made for all but the items left.           *)
Filled(q, new, left, ends) ==
  [q EXCEPT !.array = @ \cup new, !.remaining = left, !.running = @ /\ ~ends]

(* The arguments of gabble_disco_fill_pipeline and what it does with them.   *)
Filling(q, jids, infos, lists, clean, n, new, left, ends) ==
  /\ clean \in BOOLEAN /\ q \in Struct(jids) /\ Ready(q, jids, infos, lists, clean)
  /\ IsFiniteSet(infos) /\ IsFiniteSet(jids) /\ PipelineSize \in Nat /\ PipelineSize # 0
  /\ n \in Nat /\ new = n + 1 .. n + Places(q)
  /\ left \in SUBSET q.remaining /\ (Places(q) = 0 => left = q.remaining)
  /\ ends = (q.running /\ q.array = {} /\ new = {})

LEMMA FillSound ==
  ASSUME NEW q, NEW jids, NEW infos, NEW lists, NEW clean, NEW n, NEW new, NEW left, NEW ends,
         Filling(q, jids, infos, lists, clean, n, new, left, ends)
  PROVE  /\ Sound(Filled(q, new, left, ends), jids, infos \cup new, lists, clean)
         /\ ends => Sound(NoPipe, jids, infos \cup new, lists, clean)
<1> USE DEF Filling
<1> DEFINE q2 == Filled(q, new, left, ends)
<1>1. /\ q2.alive = q.alive /\ q2.array = q.array \cup new /\ q2.running = (q.running /\ ~ends) /\ q2.list = q.list
      /\ q2.remaining = left
  BY DEF Struct, Filled
<1>2. IsFiniteSet(q.remaining) /\ IsFiniteSet(q.array) /\ q.array = infos
  BY FS_Subset DEF Ready, Struct
<1>3. /\ Places(q) \in Nat
      /\ Places(q) + Cardinality(infos) <= PipelineSize
      /\ Places(q) # 0 => q.running
      /\ q.running /\ q.array = {} /\ Places(q) = 0 => q.remaining = {}
  BY <1>2, PlacesBound DEF Ready
<1>a. PICK m \in Nat : m = Places(q)
  BY <1>3
<1>b. new = n + 1 .. n + m
  BY <1>a
<1>d. IsFiniteSet(n + 1 .. n + m) /\ Cardinality(n + 1 .. n + m) = m
  BY Count
<1>4. IsFiniteSet(new) /\ Cardinality(new) = Places(q)
  BY <1>a, <1>b, <1>d
<1>5. new = {} <=> Places(q) = 0
  <2>1. (n + 1 .. n + m = {}) <=> m = 0
    OBVIOUS
  <2> QED BY <1>a, <1>b, <2>1
<1>6. Cardinality(infos \cup new) <= PipelineSize
  <2>1. Cardinality(infos \cup new) = Cardinality(infos) + Cardinality(new) - Cardinality(infos \cap new)
    BY <1>2, <1>4, FS_Union
  <2>2. IsFiniteSet(infos \cap new)
    <3>1. infos \cap new \in SUBSET infos
      OBVIOUS
    <3> QED BY <3>1, FS_Subset
  <2>3. Cardinality(infos \cap new) \in Nat /\ Cardinality(infos) \in Nat
    BY <2>2, FS_CardinalityType
  <2> QED BY <1>3, <1>4, <2>1, <2>3
<1>7. ends => left = {} /\ infos \cup new = {}
  BY <1>2, <1>3, <1>5
<1>8. infos \cup new # {} => q2.running
  BY <1>1, <1>2, <1>3, <1>5 DEF Ready
<1>9. clean => lists = {} /\ q2.list = None /\ (~q2.running => left = {})
  BY <1>1, <1>7 DEF Ready
<1> HIDE DEF q2
<1>10. Sound(q2, jids, infos \cup new, lists, clean)
  BY <1>1, <1>2, <1>6, <1>8, <1>9 DEF Sound, Ready
<1>11. ASSUME ends PROVE Sound(NoPipe, jids, infos \cup new, lists, clean)
  <2>1. infos \cup new = {} /\ Cardinality(infos \cup new) <= PipelineSize
    BY <1>6, <1>7, <1>11
  <2>2. NoPipe.array = {} /\ NoPipe.remaining = {} /\ NoPipe.list = None /\ NoPipe.running = FALSE
    BY DEF NoPipe
  <2> QED BY <1>9, <2>1, <2>2 DEF Sound
<1> QED BY <1>10, <1>11 DEF q2

-----------------------------------------------------------------------------
(* Steps that concern clients only.                                          *)

LEMMA ChannelKept ==
  ASSUME Channel, UNCHANGED <<discoEnv, pipe, cache, channelVars, relisted, crashed>>
  PROVE  Channel'
BY DEF Channel, channelVars

LEMMA ClientStep ==
  ASSUME DiscoInv, NEW owner, NEW js, Len(js) \in Nat, NEW del, Grown(owner, js, del),
         Len(js) = 0 \/ owner \notin Pipelines, del \subseteq requests, \A r \in del : req[r].owner \notin Pipelines,
         NEW rs, NEW o \in Outcomes, Told(rs, o), rs = {} \/ o \notin {"again", "nothing"},
         rs \subseteq del, \A r \in del \ rs : req[r].owner \in dead',
         \A r \in requests \ del : req[r].owner \notin dead',
         dead \subseteq dead', Len(js) = 0 \/ owner \notin dead',
         dead' \subseteq discoEnv.objects, status' \in Statuses,
         status' = "connecting" => status = "connecting",
         UNCHANGED <<discoEnv, relisted, pipe, cache, channelVars, crashed>>
  PROVE  DiscoInv' /\ Quiet
<1>0. \A i \in 1 .. Len(js) : owner \in Pipelines => js[i] \in {List} \cup Jids(owner)
  OBVIOUS
<1>1. Table'
  BY <1>0, TableKept DEF DiscoInv
<1>2. ToldInv' /\ Quiet
  BY ToldKept DEF DiscoInv
<1>3. ASSUME NEW p \in Pipelines PROVE Infos(p)' = Infos(p) /\ Lists(p)' = Lists(p)
  <2>1. \A r \in del \cap requests : req[r].owner # p
    OBVIOUS
  <2> QED BY <2>1, OthersUntouched DEF DiscoInv
<1>4. Pipes'
  BY <1>3, PipesKept DEF DiscoInv
<1>5. Channel'
  BY ChannelKept DEF DiscoInv
<1> QED BY <1>1, <1>2, <1>4, <1>5 DEF DiscoInv

LEMMA Clients == \A o \in discoEnv.objects : discoEnv \in DiscoEnvironments => o \notin Pipelines
BY DiscoAssumption DEF EnvironmentsAreSets

LEMMA ClientRequestKeeps ==
  ASSUME DiscoInv, NEW o \in discoEnv.objects, ClientRequest(o)
  PROVE  DiscoInv' /\ Quiet
<1>1. Table /\ discoEnv \in DiscoEnvironments /\ status \in Statuses /\ dead \subseteq discoEnv.objects
  BY DEF DiscoInv, Table
<1>2. o \notin Pipelines
  BY <1>1, Clients
<1>3. Request(o, <<List>>, {}, {}) /\ Told({}, "nothing") /\ o \notin dead
      /\ UNCHANGED <<discoEnv, relisted, status, dead, pipe, cache, done, channelVars, crashed>>
  BY DEF ClientRequest
<1>4. <<List>> \in Seq({List} \cup discoEnv.services \cup discoEnv.rooms) /\ Len(<<List>>) = 1
  OBVIOUS
<1>5. Grown(o, <<List>>, {})
  BY <1>1, <1>3, <1>4, RequestGrows
<1>6. \A r \in requests : req[r].owner \notin dead
  BY DEF DiscoInv, ToldInv, Table
<1>7. Len(<<List>>) \in Nat /\ "nothing" \in Outcomes
  BY <1>4 DEF Outcomes
<1> QED BY <1>1, <1>2, <1>3, <1>5, <1>6, <1>7, ClientStep

(* A client's requests are deleted and some of them told so.                 *)
LEMMA ClientDeletes ==
  ASSUME DiscoInv, NEW del, NEW ans, Delete(del, ans), del \subseteq requests,
         \A r \in del : req[r].owner \in discoEnv.objects,
         NEW rs, NEW o \in Outcomes, Told(rs, o), rs = {} \/ o \notin {"again", "nothing"},
         rs \subseteq del, \A r \in del \ rs : req[r].owner \in dead',
         \A r \in requests \ del : req[r].owner \notin dead',
         dead \subseteq dead', dead' \subseteq discoEnv.objects, status' \in Statuses,
         status' = "connecting" => status = "connecting",
         UNCHANGED <<discoEnv, relisted, pipe, cache, channelVars, crashed>>
  PROVE  DiscoInv' /\ Quiet
<1>1. Table /\ discoEnv \in DiscoEnvironments
  BY DEF DiscoInv, Table
<1>2. Grown(None, <<>>, del)
  BY <1>1, DeleteGrows
<1>3. Len(<<>>) = 0 /\ Len(<<>>) \in Nat
  OBVIOUS
<1>4. \A r \in del : req[r].owner \notin Pipelines
  BY <1>1, Clients
<1> QED BY <1>2, <1>3, <1>4, ClientStep

(* The rooms' and the services' requests, and those of live clients.         *)
LEMMA Owners ==
  ASSUME DiscoInv, NEW r \in requests
  PROVE  /\ r \in 1 .. Len(req) /\ r \in Nat /\ r # None
         /\ req[r].owner \in Pipelines \cup discoEnv.objects
         /\ req[r].owner \notin dead /\ told[r] = "nothing"
<1>1. r \in 1 .. Len(req) /\ Len(req) \in Nat /\ req \in Seq(Jobs)
  BY LenProperties DEF DiscoInv, Table
<1>2. req[r] \in Jobs
  BY <1>1, ElementOfSeq
<1> QED BY <1>1, <1>2 DEF DiscoInv, ToldInv, Jobs, None

LEMMA ClientCancelKeeps ==
  ASSUME DiscoInv, NEW r \in requests, ClientCancel(r)
  PROVE  DiscoInv' /\ Quiet
<1>1. req[r].owner \in discoEnv.objects /\ Delete({r}, {}) /\ Told({r}, "cancelled")
      /\ UNCHANGED <<discoEnv, relisted, status, dead, pipe, cache, done, channelVars, crashed>>
  BY DEF ClientCancel
<1>2. status \in Statuses /\ dead \subseteq discoEnv.objects
  BY DEF DiscoInv, Table
<1>3. \A s \in requests \ {r} : req[s].owner \notin dead'
  BY <1>1, Owners
<1>4. "cancelled" \in Outcomes
  BY DEF Outcomes
<1> QED BY <1>1, <1>2, <1>3, <1>4, ClientDeletes

LEMMA ObjectDiesKeeps ==
  ASSUME DiscoInv, NEW o \in discoEnv.objects, ObjectDies(o)
  PROVE  DiscoInv' /\ Quiet
<1>1. dead' = dead \cup {o} /\ Delete(OwnedBy(o), {}) /\ Told({}, "nothing")
      /\ UNCHANGED <<discoEnv, relisted, status, pipe, cache, done, channelVars, crashed>>
  BY DEF ObjectDies
<1>2. status \in Statuses /\ dead \subseteq discoEnv.objects
  BY DEF DiscoInv, Table
<1>3. \A s \in requests \ OwnedBy(o) : req[s].owner \notin dead'
  BY <1>1, Owners DEF OwnedBy
<1>4. "nothing" \in Outcomes
  BY DEF Outcomes
<1>5. OwnedBy(o) \subseteq requests /\ \A r \in OwnedBy(o) : req[r].owner = o
  BY DEF OwnedBy
<1> QED BY <1>1, <1>2, <1>3, <1>4, <1>5, ClientDeletes

LEMMA LateReplyKeeps ==
  ASSUME DiscoInv, NEW s, LateReply(s)
  PROVE  DiscoInv' /\ Quiet
<1>1. Delete({}, {s}) /\ Told({}, "nothing")
      /\ UNCHANGED <<discoEnv, relisted, status, dead, pipe, cache, done, channelVars, crashed>>
  BY DEF LateReply
<1>2. status \in Statuses /\ dead \subseteq discoEnv.objects
  BY DEF DiscoInv, Table
<1>3. \A r \in requests \ {} : req[r].owner \notin dead'
  BY <1>1, Owners
<1>4. "nothing" \in Outcomes
  BY DEF Outcomes
<1> QED BY <1>1, <1>2, <1>3, <1>4, ClientDeletes

-----------------------------------------------------------------------------
(* Callbacks of a pipeline.                                                  *)

(* The service cache turned round at the end of the discovery.               *)
LEMMA Reversed ==
  ASSUME NEW S, NEW s \in Seq(S)
  PROVE  [i \in DOMAIN s |-> s[Len(s) + 1 - i]] \in Seq(S)
<1>1. Len(s) \in Nat /\ DOMAIN s = 1 .. Len(s)
  BY LenProperties
<1>2. \A i \in 1 .. Len(s) : s[Len(s) + 1 - i] \in S
  <2>1. \A i \in 1 .. Len(s) : Len(s) + 1 - i \in 1 .. Len(s)
    BY <1>1
  <2> QED BY <2>1, ElementOfSeq
<1>3. [i \in DOMAIN s |-> s[Len(s) + 1 - i]] \in [1 .. Len(s) -> S]
  BY <1>1, <1>2
<1> QED BY <1>1, <1>3, SeqDef

LEMMA FilledChannel ==
  ASSUME Channel, NEW p \in Pipelines, NEW running \in BOOLEAN, running = pipe[p].running, NEW ends \in BOOLEAN,
         ends => running,
         pipe'["rooms"].running = IF p = "rooms" THEN running /\ ~ends ELSE pipe["rooms"].running,
         NEW added \in SUBSET discoEnv.rooms, added # {} => listing, NEW ps, ps = asked \cup added,
         found' = found \cup added, cache' \in Seq(discoEnv.services),
         IF ends /\ p = "rooms" THEN RoomsEnd(ps)
         ELSE asked' = ps /\ UNCHANGED <<announced, listing, timers, timer>>,
         UNCHANGED <<discoEnv, relisted, closed, nlist, crashed>>
  PROVE  Channel'
<1>1. CASE ends /\ p = "rooms"
  <2>1. listing /\ listing \in BOOLEAN
    BY <1>1 DEF Channel
  <2>2. /\ announced' = announced \cup ps /\ asked' = {} /\ listing' = FALSE
        /\ timers' = timers \ {timer} /\ timer' = None
    BY <1>1, <2>1 DEF RoomsEnd
  <2>3. pipe'["rooms"].running = FALSE
    BY <1>1
  <2>4. found' = announced' \cup asked' /\ found' \subseteq discoEnv.rooms
    BY <2>2 DEF Channel
  <2>5. timer' \in 0 .. nlist /\ timers' \subseteq 1 .. nlist /\ (~relisted => timers' = {})
    BY <2>1, <2>2 DEF Channel, None
  <2> QED BY <2>2, <2>3, <2>4, <2>5 DEF Channel
<1>2. CASE ~(ends /\ p = "rooms")
  <2>1. asked' = ps /\ UNCHANGED <<announced, listing, timers, timer>>
    BY <1>2
  <2>2. pipe'["rooms"].running = listing
    BY <1>2 DEF Channel
  <2>3. ~listing => asked' = {}
    BY <2>1 DEF Channel
  <2>4. found' = announced' \cup asked' /\ found' \subseteq discoEnv.rooms
    BY <2>1 DEF Channel
  <2> QED BY <2>1, <2>2, <2>3, <2>4 DEF Channel
<1> QED BY <1>1, <1>2

(* The callback of p's request r calls gabble_disco_fill_pipeline with q and *)
(* has added rooms to those that will be announced.                          *)
Fills(p, r, q, ans, items, added, o) ==
  /\ p \in Pipelines /\ r \in requests /\ req[r].owner = p
  /\ q \in Struct(Jids(p))
  /\ Ready(q, Jids(p), Infos(p) \ {r}, Lists(p) \ {r}, ~relisted)
  /\ q.running = pipe[p].running /\ pipe[p].alive
  /\ items \in Seq(discoEnv.services)
  /\ added \subseteq discoEnv.rooms /\ (added # {} => listing)
  /\ Fill(p, q, r, ans, items, asked \cup added) /\ found' = found \cup added
  /\ o \in Outcomes /\ o \notin {"again", "nothing"} /\ Told({r}, o)
  /\ UNCHANGED <<discoEnv, relisted, status, dead, closed, nlist, crashed>>

LEMMA FillKeeps ==
  ASSUME DiscoInv, NEW p, NEW r, NEW q, NEW ans, NEW items, NEW added, NEW o,
         Fills(p, r, q, ans, items, added, o)
  PROVE  DiscoInv' /\ Quiet
<1> DEFINE ps == asked \cup added
<1>a. p \in Pipelines /\ r \in requests /\ req[r].owner = p
  BY DEF Fills
<1>b. q \in Struct(Jids(p))
  BY DEF Fills
<1>c. Ready(q, Jids(p), Infos(p) \ {r}, Lists(p) \ {r}, ~relisted) /\ q.running = pipe[p].running /\ pipe[p].alive
  BY DEF Fills
<1>d. items \in Seq(discoEnv.services) /\ added \in SUBSET discoEnv.rooms /\ (added # {} => listing)
      /\ found' = found \cup added
  BY DEF Fills
<1>e. Told({r}, o) /\ o \in Outcomes /\ o \notin {"again", "nothing"}
  BY DEF Fills
<1>f. UNCHANGED <<discoEnv, relisted, status, dead, closed, nlist, crashed>>
  BY DEF Fills
<1>g. Fill(p, q, r, ans, items, ps)
  BY DEF Fills
<1> HIDE DEF ps
<1>1. Table /\ discoEnv \in DiscoEnvironments /\ status \in Statuses /\ dead \subseteq discoEnv.objects
      /\ Len(req) \in Nat /\ requests \subseteq 1 .. Len(req)
  BY LenProperties DEF DiscoInv, Table
<1>2. /\ PipelineSize \in Nat /\ PipelineSize # 0
      /\ IsFiniteSet(Jids(p)) /\ List \notin Jids(p)
      /\ Jids(p) \subseteq discoEnv.services \cup discoEnv.rooms
      /\ "service" \notin discoEnv.objects /\ "rooms" \notin discoEnv.objects
  BY <1>a, <1>1, Environments DEF Jids, Pipelines
<1>3. IsFiniteSet(Infos(p) \ {r})
  <2>1. IsFiniteSet(1 .. Len(req))
    BY <1>1, FS_Interval
  <2>2. Infos(p) \ {r} \in SUBSET (1 .. Len(req))
    BY <1>1 DEF Infos
  <2> QED BY <2>1, <2>2, FS_Subset
<1>4. Places(q) \in Nat
  <2>1. IsFiniteSet(q.array) /\ Cardinality(q.array) <= PipelineSize
    BY <1>3, <1>c DEF Ready
  <2>2. IsFiniteSet(q.remaining)
    <3>1. q.remaining \in SUBSET Jids(p)
      BY <1>b DEF Struct
    <3> QED BY <1>2, <3>1, FS_Subset
  <2> QED BY <1>2, <2>1, <2>2, PlacesBound
<1> DEFINE New(js) == Len(req) + 1 .. Len(req) + Len(js)
           Left(js) == q.remaining \ {js[i] : i \in DOMAIN js}
           Ends(js) == q.running /\ q.array = {} /\ New(js) = {}
           Next2(js) == Filled(q, New(js), Left(js), Ends(js))
<1>5. PICK js \in [1 .. Places(q) -> q.remaining] :
        /\ Request(p, js, {r}, ans)
        /\ pipe' = [pipe EXCEPT ![p] = IF Ends(js) /\ p = "service" THEN NoPipe ELSE Next2(js)]
        /\ IF Ends(js) /\ p = "service"
           THEN /\ cache' = [i \in DOMAIN items |-> items[Len(items) + 1 - i]]
                /\ done' = TRUE
           ELSE cache' = items /\ done' = done
        /\ IF Ends(js) /\ p = "rooms" THEN RoomsEnd(ps)
           ELSE asked' = ps /\ UNCHANGED <<announced, listing, timers, timer>>
  BY <1>g DEF Fill, Filled
<1>6. js \in Seq(q.remaining) /\ Len(js) = Places(q) /\ DOMAIN js = 1 .. Places(q)
  <2>1. js \in Seq(q.remaining)
    BY <1>4, <1>5, SeqDef
  <2>2. DOMAIN js = 1 .. Len(js) /\ Len(js) \in Nat
    BY <2>1, LenProperties
  <2>3. DOMAIN js = 1 .. Places(q)
    BY <1>5
  <2>4. Len(js) = Places(q)
    BY <1>4, <2>2, <2>3
  <2> QED BY <2>1, <2>3, <2>4
<1>7. \A i \in 1 .. Len(js) : js[i] \in Jids(p) /\ js[i] # List
  BY <1>2, <1>5, <1>6, <1>b DEF Struct
<1>8. js \in Seq({List} \cup discoEnv.services \cup discoEnv.rooms)
  <2>1. q.remaining \subseteq {List} \cup discoEnv.services \cup discoEnv.rooms
    BY <1>2, <1>b DEF Struct
  <2> QED BY <1>6, <2>1, SeqMonotonic
<1>9. Grown(p, js, {r}) /\ Len(js) \in Nat
  BY <1>a, <1>1, <1>4, <1>5, <1>6, <1>8, RequestGrows
<1>10. Table'
  <2>1. \A i \in 1 .. Len(js) : p \in Pipelines => js[i] \in {List} \cup Jids(p)
    BY <1>7
  <2> QED BY <1>1, <1>9, <1>e, <1>f, <2>1, TableKept
<1>11. ToldInv' /\ Quiet
  <2>1. \A s \in requests \ {r} : req[s].owner \notin dead'
    BY <1>f, Owners
  <2>2. p \notin dead'
    BY <1>1, <1>2, <1>a, <1>f DEF Pipelines
  <2> QED BY <1>1, <1>9, <1>a, <1>e, <1>f, <2>1, <2>2, ToldKept DEF DiscoInv
<1>12. /\ Infos(p)' = (Infos(p) \ {r}) \cup New(js)
       /\ Lists(p)' = Lists(p) \ {r}
  <2>1. \A i \in 1 .. Len(js) : js[i] # List
    BY <1>7
  <2> QED BY <1>1, <1>9, <1>a, <2>1, OwnQueries
<1>13. ASSUME NEW p2 \in Pipelines, p2 # p PROVE Infos(p2)' = Infos(p2) /\ Lists(p2)' = Lists(p2)
  <2>1. \A s \in {r} \cap requests : req[s].owner # p2
    BY <1>13, <1>a
  <2> QED BY <1>1, <1>9, <1>13, <2>1, OthersUntouched
<1>14. /\ Sound(Next2(js), Jids(p), Infos(p)', Lists(p)', ~relisted)
       /\ Ends(js) => Sound(NoPipe, Jids(p), Infos(p)', Lists(p)', ~relisted)
  <2>1. New(js) = Len(req) + 1 .. Len(req) + Places(q)
    BY <1>6
  <2>2. Left(js) \in SUBSET q.remaining /\ (Places(q) = 0 => Left(js) = q.remaining)
    BY <1>4, <1>6
  <2>3. (~relisted) \in BOOLEAN
    OBVIOUS
  <2>4. Ends(js) = (q.running /\ q.array = {} /\ New(js) = {})
    OBVIOUS
  <2> HIDE DEF New, Left, Ends
  <2>5. /\ Sound(Filled(q, New(js), Left(js), Ends(js)), Jids(p), (Infos(p) \ {r}) \cup New(js), Lists(p) \ {r}, ~relisted)
        /\ Ends(js) => Sound(NoPipe, Jids(p), (Infos(p) \ {r}) \cup New(js), Lists(p) \ {r}, ~relisted)
    <3>1. PICK n, new, left, ends :
             n \in Nat /\ n = Len(req) /\ new = New(js) /\ left = Left(js) /\ ends = Ends(js)
      BY <1>1
    <3>a. PICK jids, infos, lists : jids = Jids(p) /\ infos = Infos(p) \ {r} /\ lists = Lists(p) \ {r}
      OBVIOUS
    <3>b. PICK clean \in BOOLEAN : clean = (~relisted)
      BY <2>3, Zenon
    <3>2. jids = Jids(p) /\ infos = Infos(p) \ {r} /\ lists = Lists(p) \ {r} /\ clean = (~relisted)
      BY <3>a, <3>b
    <3>3. /\ q \in Struct(jids)
          /\ Ready(q, jids, infos, lists, clean) /\ IsFiniteSet(infos) /\ IsFiniteSet(jids)
      BY <1>2, <1>3, <1>b, <1>c, <3>2
    <3>4. /\ new = n + 1 .. n + Places(q) /\ left \in SUBSET q.remaining
          /\ Places(q) = 0 => left = q.remaining
          /\ ends = (q.running /\ q.array = {} /\ new = {})
      BY <2>1, <2>2, <2>4, <3>1
    <3>5. /\ Sound(Filled(q, new, left, ends), jids, infos \cup new, lists, clean)
          /\ ends => Sound(NoPipe, jids, infos \cup new, lists, clean)
      <4>1. Filling(q, jids, infos, lists, clean, n, new, left, ends)
        BY <1>2, <3>1, <3>3, <3>4 DEF Filling
      <4> QED BY <4>1, FillSound
    <3> QED BY <3>1, <3>2, <3>5
  <2> QED BY <1>12, <2>5
<1>15. Next2(js) \in PipeTypes /\ NoPipe \in PipeTypes /\ Next2(js).running = (q.running /\ ~Ends(js))
  <2>1. New(js) \subseteq Nat /\ Left(js) \subseteq discoEnv.services \cup discoEnv.rooms
    BY <1>1, <1>2, <1>9, <1>b DEF Struct
  <2>2. Ends(js) \in BOOLEAN
    OBVIOUS
  <2> HIDE DEF New, Left, Ends
  <2> QED BY <1>b, <1>2, <2>1, <2>2 DEF PipeTypes, Struct, NoPipe, None, Filled
<1>16. pipe \in [Pipelines -> PipeTypes]
  BY DEF DiscoInv, Pipes
<1> HIDE DEF New, Left, Ends, Next2
<1>17. Pipes'
  <2>1. PipeTypes' = PipeTypes
    BY <1>f DEF PipeTypes
  <2>2. pipe' \in [Pipelines -> PipeTypes]
    BY <1>5, <1>15, <1>16
  <2>3. ASSUME NEW p2 \in Pipelines
        PROVE  Sound(pipe'[p2], Jids(p2)', Infos(p2)', Lists(p2)', ~relisted')
    <3>1. Jids(p2)' = Jids(p2)
      BY <1>f DEF Jids
    <3>2. CASE p2 = p
      <4>1. pipe'[p] = IF Ends(js) /\ p = "service" THEN NoPipe ELSE Next2(js)
        BY <1>5, <1>16, <1>a
      <4>2. Sound(pipe'[p], Jids(p), Infos(p)', Lists(p)', ~relisted)
        BY <1>14, <4>1
      <4> QED BY <1>f, <3>1, <3>2, <4>2
    <3>3. CASE p2 # p
      <4>1. pipe'[p2] = pipe[p2]
        BY <1>5, <1>16, <3>3
      <4>2. Sound(pipe[p2], Jids(p2), Infos(p2), Lists(p2), ~relisted)
        BY DEF DiscoInv, Pipes
      <4> QED BY <1>13, <1>f, <3>1, <3>3, <4>1, <4>2
    <3> QED BY <3>2, <3>3
  <2>4. status # "connecting" \/ p # "service"
    <3> SUFFICES ASSUME status = "connecting", p = "service" PROVE FALSE
      OBVIOUS
    <3>1. pipe["service"] = NoPipe
      BY DEF DiscoInv, Pipes
    <3> QED BY <1>c, <3>1 DEF NoPipe
  <2>5. status' = "connecting" => pipe'["service"] = NoPipe
    BY <1>5, <1>16, <1>f, <2>4 DEF DiscoInv, Pipes, Pipelines
  <2> QED BY <2>1, <2>2, <2>3, <2>5 DEF Pipes
<1>18. Channel'
  <2>1. pipe'["rooms"].running = IF p = "rooms" THEN q.running /\ ~Ends(js) ELSE pipe["rooms"].running
    BY <1>5, <1>15, <1>16, <1>a DEF Pipelines
  <2>2. cache' \in Seq(discoEnv.services)
    BY <1>5, <1>d, Reversed
  <2>3. Ends(js) \in BOOLEAN /\ (Ends(js) => q.running)
    BY DEF Ends
  <2> QED BY <1>5, <1>a, <1>b, <1>c, <1>d, <1>f, <2>1, <2>2, <2>3, FilledChannel DEF DiscoInv, ps, Struct
<1> QED BY <1>10, <1>11, <1>17, <1>18 DEF DiscoInv

(* A callback that is given a pipeline which was destroyed: an items request *)
(* of a listing that another one overtook.                                   *)
LEMMA StaleCallback ==
  ASSUME DiscoInv, NEW p \in Pipelines, NEW r \in requests, req[r].owner = p, ~pipe[p].alive,
         NEW ans, Delete({r}, ans), NEW o \in Outcomes, o \notin {"again", "nothing"}, Told({r}, o), crashed' = TRUE,
         UNCHANGED <<discoEnv, relisted, status, dead, pipe, cache, done, channelVars>>
  PROVE  DiscoInv' /\ Quiet
<1>1. Table /\ status \in Statuses /\ dead \subseteq discoEnv.objects
  BY DEF DiscoInv, Table
<1>2. Sound(pipe[p], Jids(p), Infos(p), Lists(p), ~relisted) /\ pipe[p] = NoPipe
  BY DEF DiscoInv, Pipes, Sound
<1>3. Infos(p) = {} /\ r \in Lists(p)
  BY <1>2 DEF Sound, NoPipe, Infos, Lists
<1>4. relisted /\ relisted \in BOOLEAN
  BY <1>2, <1>3 DEF Sound, NoPipe, DiscoInv, Channel
<1>5. Grown(None, <<>>, {r}) /\ req' = req /\ requests' = requests \ {r}
  BY <1>1, DeleteGrows
<1>6. Len(<<>>) = 0 /\ Len(<<>>) \in Nat
  OBVIOUS
<1>7. Table'
  <2>1. \A i \in 1 .. Len(<<>>) : None \in Pipelines => <<>>[i] \in {List} \cup Jids(None)
    BY <1>6
  <2> QED BY <1>1, <1>5, <1>6, <2>1, TableKept
<1>8. ToldInv' /\ Quiet
  <2>1. \A s \in requests \ {r} : req[s].owner \notin dead'
    BY Owners
  <2>2. /\ {r} \subseteq requests /\ \A s \in {r} \ {r} : req[s].owner \in dead'
        /\ dead \subseteq dead' /\ ToldInv
    BY DEF DiscoInv
  <2> QED BY <1>1, <1>5, <1>6, <2>1, <2>2, ToldKept
<1>9. Pipes'
  <2>1. PipeTypes' = PipeTypes
    BY DEF PipeTypes
  <2>2. ASSUME NEW p2 \in Pipelines
        PROVE  Sound(pipe'[p2], Jids(p2)', Infos(p2)', Lists(p2)', ~relisted')
    <3>1. Jids(p2)' = Jids(p2)
      BY DEF Jids
    <3>2. Infos(p2)' = Infos(p2) \ {r} /\ Lists(p2)' = Lists(p2) \ {r}
      BY <1>5 DEF Infos, Lists
    <3>3. Sound(pipe[p2], Jids(p2), Infos(p2), Lists(p2), ~relisted)
      BY DEF DiscoInv, Pipes
    <3>4. r \notin Infos(p2)
      BY <1>3 DEF Infos, Lists
    <3>5. pipe[p2].list # None => pipe[p2].list # r
      <4>1. CASE p2 = p
        BY <1>2, <4>1 DEF NoPipe
      <4>2. CASE p2 # p
        BY <3>3, <4>2 DEF Sound, Lists
      <4> QED BY <4>1, <4>2
    <3>6. Infos(p2) \ {r} = Infos(p2)
      BY <3>4
    <3>7. Sound(pipe[p2], Jids(p2), Infos(p2), Lists(p2) \ {r}, ~relisted)
      BY <1>4, <3>3, <3>5 DEF Sound
    <3> QED BY <3>1, <3>2, <3>6, <3>7
  <2> QED BY <2>1, <2>2 DEF DiscoInv, Pipes
<1>10. Channel'
  BY <1>4 DEF DiscoInv, Channel, channelVars
<1> QED BY <1>7, <1>8, <1>9, <1>10 DEF DiscoInv

LEMMA ItemsKeeps ==
  ASSUME DiscoInv, NEW p \in Pipelines, NEW r \in requests, req[r].owner = p, pipe[p].alive, req[r].jid = List,
         NEW ans, NEW js \in SUBSET Jids(p), ItemsCb(r, ans, js),
         NEW o \in Outcomes, o \notin {"again", "nothing"}, Told({r}, o),
         UNCHANGED <<discoEnv, relisted, status, dead, closed, nlist, crashed>>
  PROVE  DiscoInv' /\ Quiet
<1> DEFINE q == WithItems(pipe[p], js)
<1>1. Sound(pipe[p], Jids(p), Infos(p), Lists(p), ~relisted) /\ pipe[p] \in PipeTypes
  BY DEF DiscoInv, Pipes
<1>2. pipe[p] \in Struct(Jids(p))
  BY <1>1 DEF Sound, PipeTypes, Struct
<1>3. r \in Lists(p) /\ r \notin Infos(p) /\ r # None
  BY Owners DEF Lists, Infos
<1>4. Ready(q, Jids(p), Infos(p) \ {r}, Lists(p) \ {r}, ~relisted)
  <2>1. PICK s, jids, infos, lists : s = pipe[p] /\ jids = Jids(p) /\ infos = Infos(p) /\ lists = Lists(p)
    OBVIOUS
  <2>2. PICK clean \in BOOLEAN : clean = (~relisted)
    <3>1. (~relisted) \in BOOLEAN
      OBVIOUS
    <3> QED BY <3>1, Zenon
  <2>3. s \in Struct(jids) /\ Sound(s, jids, infos, lists, clean) /\ s.alive /\ r \in lists /\ r # None
        /\ r \notin infos /\ js \in SUBSET jids
    BY <1>1, <1>2, <1>3, <2>1, <2>2
  <2>4. Ready(WithItems(s, js), jids, infos \ {r}, lists \ {r}, clean)
    BY <2>3, ItemsReady
  <2> QED BY <2>1, <2>2, <2>4
<1>5. q \in Struct(Jids(p)) /\ q.running = pipe[p].running
  BY <1>2 DEF Struct, None, WithItems
<1>6. Fill(p, q, r, ans, cache, asked) /\ found' = found
  BY DEF ItemsCb, WithItems
<1> HIDE DEF q
<1>7. asked \cup {} = asked /\ found \cup {} = found /\ cache \in Seq(discoEnv.services)
  BY DEF DiscoInv, Channel
<1>8. Fills(p, r, q, ans, cache, {}, o)
  BY <1>4, <1>5, <1>6, <1>7 DEF Fills
<1> QED BY <1>8, FillKeeps

LEMMA Single == ASSUME NEW S, NEW x \in S PROVE <<x>> \in Seq(S)
OBVIOUS

LEMMA InfoKeeps ==
  ASSUME DiscoInv, NEW p \in Pipelines, NEW r \in requests, req[r].owner = p, pipe[p].alive, req[r].jid # List,
         NEW ans, NEW ok \in BOOLEAN, InfoCb(r, ans, ok),
         NEW o \in Outcomes, o \notin {"again", "nothing"}, Told({r}, o),
         UNCHANGED <<discoEnv, relisted, status, dead, closed, nlist, crashed>>
  PROVE  DiscoInv' /\ Quiet
<1> DEFINE q == [pipe[p] EXCEPT !.array = @ \ {r}]
           items == IF ok /\ p = "service" THEN ServicesCb(req[r].jid) ELSE cache
           added == IF ok /\ p = "rooms" THEN {req[r].jid} ELSE {}
<1>1. Sound(pipe[p], Jids(p), Infos(p), Lists(p), ~relisted) /\ pipe[p] \in PipeTypes
  BY DEF DiscoInv, Pipes
<1>2. pipe[p] \in Struct(Jids(p))
  BY <1>1 DEF Sound, PipeTypes, Struct
<1>3. r \in Infos(p) /\ r \notin Lists(p)
  BY DEF Lists, Infos
<1>0. Table /\ Len(req) \in Nat /\ requests \subseteq 1 .. Len(req)
  BY LenProperties DEF DiscoInv, Table
<1>a. PipelineSize \in Nat
  BY DiscoAssumption
<1>b. IsFiniteSet(Infos(p))
  <2>1. IsFiniteSet(1 .. Len(req))
    BY <1>0, FS_Interval
  <2>2. Infos(p) \in SUBSET (1 .. Len(req))
    BY <1>0 DEF Infos
  <2> QED BY <2>1, <2>2, FS_Subset
<1>4. Ready(q, Jids(p), Infos(p) \ {r}, Lists(p) \ {r}, ~relisted)
  <2>1. PICK s, jids, infos, lists : s = pipe[p] /\ jids = Jids(p) /\ infos = Infos(p) /\ lists = Lists(p)
    OBVIOUS
  <2>2. PICK clean \in BOOLEAN : clean = (~relisted)
    <3>1. (~relisted) \in BOOLEAN
      OBVIOUS
    <3> QED BY <3>1, Zenon
  <2>3. s \in Struct(jids) /\ Sound(s, jids, infos, lists, clean) /\ s.alive /\ r \in infos
        /\ r \notin lists /\ IsFiniteSet(infos)
    BY <1>1, <1>2, <1>3, <1>b, <2>1, <2>2
  <2>4. Ready([s EXCEPT !.array = @ \ {r}], jids, infos \ {r}, lists \ {r}, clean)
    BY <1>a, <2>3, InfoReady
  <2> QED BY <2>1, <2>2, <2>4
<1>5. q \in Struct(Jids(p)) /\ q.running = pipe[p].running
  BY <1>2 DEF Struct, None
<1>6. /\ Fill(p, q, r, ans, items, IF ok /\ p = "rooms" THEN RoomInfoCb(req[r].jid) ELSE asked)
      /\ found' = IF ok /\ p = "rooms" THEN found \cup {req[r].jid} ELSE found
  BY DEF InfoCb
<1> HIDE DEF q
<1>7. cache \in Seq(discoEnv.services)
  BY DEF DiscoInv, Channel
<1>8. req[r].jid \in Jids(p)
  BY <1>0 DEF Table
<1>9. items \in Seq(discoEnv.services)
  <2>1. CASE ok /\ p = "service"
    <3>1. req[r].jid \in discoEnv.services
      BY <1>8, <2>1 DEF Jids
    <3>2. <<req[r].jid>> \in Seq(discoEnv.services)
      BY <3>1, Single
    <3> QED BY <1>7, <2>1, <3>2, ConcatProperties DEF ServicesCb
  <2> QED BY <1>7, <2>1
<1>10. added \subseteq discoEnv.rooms /\ (added # {} => listing)
  <2>1. CASE ok /\ p = "rooms"
    <3>1. pipe["rooms"].running
      BY <1>1, <1>3, <2>1 DEF Sound
    <3> QED BY <1>8, <2>1, <3>1 DEF Jids, DiscoInv, Channel
  <2> QED BY <2>1
<1>11. Fill(p, q, r, ans, items, asked \cup added) /\ found' = found \cup added
  <2>1. (IF ok /\ p = "rooms" THEN RoomInfoCb(req[r].jid) ELSE asked) = asked \cup added
    BY DEF RoomInfoCb
  <2> QED BY <1>6, <2>1
<1> HIDE DEF items, added
<1>12. Fills(p, r, q, ans, items, added, o)
  BY <1>4, <1>5, <1>9, <1>10, <1>11 DEF Fills
<1> QED BY <1>12, FillKeeps

LEMMA PipelineCallbackKeeps ==
  ASSUME DiscoInv, NEW r \in requests, req[r].owner \in Pipelines,
         NEW ans, NEW ok \in BOOLEAN, NEW js \in Listed(req[r].owner), PipelineCallback(r, ans, js, ok),
         NEW o \in Outcomes, o \notin {"again", "nothing"}, Told({r}, o),
         UNCHANGED <<discoEnv, relisted, status, dead>>
  PROVE  DiscoInv' /\ Quiet
<1>1. PICK p \in Pipelines : p = req[r].owner
  OBVIOUS
<1>2. js \in SUBSET Jids(p)
  BY <1>1 DEF Listed, Jids
<1>3. CASE pipe[p].alive /\ req[r].jid = List
  <2>1. ItemsCb(r, ans, js) /\ UNCHANGED <<closed, nlist, crashed>>
    BY <1>1, <1>3 DEF PipelineCallback
  <2> QED BY <1>1, <1>2, <1>3, <2>1, ItemsKeeps
<1>4. CASE pipe[p].alive /\ req[r].jid # List
  <2>1. InfoCb(r, ans, ok) /\ UNCHANGED <<closed, nlist, crashed>>
    BY <1>1, <1>4 DEF PipelineCallback
  <2> QED BY <1>1, <1>4, <2>1, InfoKeeps
<1>5. CASE ~pipe[p].alive
  <2>1. crashed' = TRUE /\ Delete({r}, ans) /\ UNCHANGED <<pipe, cache, done, channelVars>>
    BY <1>1, <1>5 DEF PipelineCallback
  <2> QED BY <1>1, <1>5, <2>1, StaleCallback
<1> QED BY <1>3, <1>4, <1>5

-----------------------------------------------------------------------------
(* What completes a request.                                                 *)

(* The request of a live client is taken from the list and told so.          *)
LEMMA ClientToldKeeps ==
  ASSUME DiscoInv, NEW r \in requests, req[r].owner \in discoEnv.objects,
         NEW ans, Delete({r}, ans), NEW o \in Outcomes, o \notin {"again", "nothing"}, Told({r}, o),
         UNCHANGED <<discoEnv, relisted, status, dead, pipe, cache, channelVars, crashed>>
  PROVE  DiscoInv' /\ Quiet
<1>1. status \in Statuses /\ dead \subseteq discoEnv.objects
  BY DEF DiscoInv, Table
<1>2. \A s \in requests \ {r} : req[s].owner \notin dead'
  BY Owners
<1> QED BY <1>1, <1>2, ClientDeletes

LEMMA DiscoReplyKeeps ==
  ASSUME DiscoInv, NEW s \in wire, NEW r \in requests, DiscoReply(s, r)
  PROVE  DiscoInv' /\ Quiet
<1>0. UNCHANGED <<discoEnv, relisted, status, dead>>
  BY DEF DiscoReply
<1>1. PICK ok \in BOOLEAN :
        /\ IF req[r].owner \in discoEnv.objects
           THEN Delete({r}, {s}) /\ UNCHANGED <<pipe, cache, done, channelVars, crashed>>
           ELSE \E js \in (IF ok THEN Listed(req[r].owner) ELSE {{}}) : PipelineCallback(r, {s}, js, ok)
        /\ Told({r}, CASE ~ok -> "error" [] ok /\ r = s -> "reply" [] OTHER -> "wrong")
  BY DEF DiscoReply
<1>2. PICK o \in Outcomes : o \notin {"again", "nothing"} /\ Told({r}, o)
  <2> DEFINE v == CASE ~ok -> "error" [] ok /\ r = s -> "reply" [] OTHER -> "wrong"
  <2>1. v \in Outcomes /\ v \notin {"again", "nothing"}
    BY DEF Outcomes
  <2>2. Told({r}, v)
    BY <1>1
  <2> HIDE DEF v
  <2> QED BY <2>1, <2>2
<1>3. CASE req[r].owner \in discoEnv.objects
  BY <1>0, <1>1, <1>2, <1>3, ClientToldKeeps
<1>4. CASE req[r].owner \notin discoEnv.objects
  <2>1. req[r].owner \in Pipelines
    BY <1>4, Owners
  <2>2. PICK js \in Listed(req[r].owner) : PipelineCallback(r, {s}, js, ok)
    BY <1>1, <1>4 DEF Listed
  <2> QED BY <1>0, <1>2, <2>1, <2>2, PipelineCallbackKeeps
<1> QED BY <1>3, <1>4

(* A timeout whose callback may drop the bound object.                       *)
LEMMA ClientTimesOut ==
  ASSUME DiscoInv, NEW r \in requests, req[r].owner \in discoEnv.objects,
         NEW drops \in BOOLEAN, NEW last \in BOOLEAN,
         dead' = IF drops THEN dead \cup {req[r].owner} ELSE dead,
         status' = IF last THEN "disposing" ELSE status,
         Delete({r} \cup (IF drops THEN StillBound(r) ELSE {}), {}),
         crashed' = (crashed \/ (drops /\ r \in StillBound(r))),
         Told({r}, "timeout"),
         UNCHANGED <<discoEnv, relisted, pipe, cache, channelVars>>
  PROVE  DiscoInv' /\ Quiet
<1>1. PICK del : del = {r} \cup (IF drops THEN StillBound(r) ELSE {})
  OBVIOUS
<1>2. Delete(del, {}) /\ del \subseteq requests /\ \A s \in del : req[s].owner = req[r].owner
  BY <1>1 DEF StillBound, OwnedBy
<1>3. \A s \in del \ {r} : req[s].owner \in dead'
  BY <1>1, <1>2
<1>4. \A s \in requests \ del : req[s].owner \notin dead'
  BY <1>1, Owners DEF StillBound, OwnedBy
<1>5. crashed' = crashed
  BY DEF StillBound, DiscoInv, Channel
<1>6. /\ dead \subseteq dead' /\ dead' \subseteq discoEnv.objects
      /\ status' \in Statuses /\ (status' = "connecting" => status = "connecting")
  BY DEF DiscoInv, Table, Statuses
<1>7. "timeout" \in Outcomes /\ "timeout" \notin {"again", "nothing"} /\ {r} \subseteq del
  BY <1>1 DEF Outcomes
<1> QED BY <1>2, <1>3, <1>4, <1>5, <1>6, <1>7, ClientDeletes

LEMMA TimeoutKeeps ==
  ASSUME DiscoInv, NEW r \in requests, Timeout(r)
  PROVE  DiscoInv' /\ Quiet
<1>0. Told({r}, "timeout") /\ UNCHANGED <<discoEnv, relisted>>
  BY DEF Timeout
<1>1. CASE req[r].owner \in discoEnv.objects
  <2>1. PICK drops \in BOOLEAN, last \in BOOLEAN :
          /\ dead' = IF drops THEN dead \cup {req[r].owner} ELSE dead
          /\ status' = IF last THEN "disposing" ELSE status
          /\ Delete({r} \cup (IF drops THEN StillBound(r) ELSE {}), {})
          /\ crashed' = (crashed \/ (drops /\ r \in StillBound(r)))
          /\ UNCHANGED <<pipe, cache, done, channelVars>>
    BY <1>1 DEF Timeout
  <2> QED BY <1>0, <1>1, <2>1, ClientTimesOut
<1>2. CASE req[r].owner \notin discoEnv.objects
  <2>1. req[r].owner \in Pipelines
    BY <1>2, Owners
  <2>2. PipelineCallback(r, {}, {}, FALSE) /\ UNCHANGED <<status, dead>> /\ {} \in Listed(req[r].owner)
    BY <1>2 DEF Timeout, Listed
  <2>3. "timeout" \in Outcomes /\ "timeout" \notin {"again", "nothing"}
    BY DEF Outcomes
  <2> QED BY <1>0, <2>1, <2>2, <2>3, PipelineCallbackKeeps
<1> QED BY <1>1, <1>2

LEMMA DisposeCancelsKeeps ==
  ASSUME DiscoInv, DisposeCancels
  PROVE  DiscoInv' /\ Quiet
<1>0. UNCHANGED <<discoEnv, relisted, status, dead>>
  BY DEF DisposeCancels
<1>1. PICK r \in requests :
        /\ IF req[r].owner \in discoEnv.objects
           THEN Delete({r}, {}) /\ UNCHANGED <<pipe, cache, done, channelVars, crashed>>
           ELSE PipelineCallback(r, {}, {}, FALSE)
        /\ Told({r}, "cancelled")
  BY DEF DisposeCancels
<1>2. "cancelled" \in Outcomes /\ "cancelled" \notin {"again", "nothing"}
  BY DEF Outcomes
<1>3. CASE req[r].owner \in discoEnv.objects
  BY <1>0, <1>1, <1>2, <1>3, ClientToldKeeps
<1>4. CASE req[r].owner \notin discoEnv.objects
  <2>1. req[r].owner \in Pipelines
    BY <1>4, Owners
  <2>2. PipelineCallback(r, {}, {}, FALSE) /\ {} \in Listed(req[r].owner)
    BY <1>1, <1>4 DEF Listed
  <2> QED BY <1>0, <1>1, <1>2, <2>1, <2>2, PipelineCallbackKeeps
<1> QED BY <1>3, <1>4

-----------------------------------------------------------------------------
(* The connection and the roomlist channel.                                  *)

(* Steps that touch no request.                                              *)
LEMMA NoRequestTouched ==
  ASSUME Table, ToldInv, UNCHANGED <<discoEnv, requestVars, dead>>, status' \in Statuses
  PROVE  Table' /\ ToldInv' /\ Quiet /\ \A p \in Pipelines : Infos(p)' = Infos(p) /\ Lists(p)' = Lists(p)
<1>1. UNCHANGED <<discoEnv, req, requests, freedAt, wire, told, dead>>
  BY DEF requestVars
<1>2. Table'
  BY <1>1 DEF Table, Jobs, Jids
<1>3. ToldInv' /\ Quiet
  BY <1>1 DEF ToldInv, Quiet
<1> QED BY <1>1, <1>2, <1>3 DEF Infos, Lists

LEMMA DisposeStepsKeep ==
  ASSUME DiscoInv, DisposeStarts \/ DisposeEnds
  PROVE  DiscoInv' /\ Quiet
<1>1. /\ UNCHANGED <<discoEnv, relisted, requestVars, dead, pipe, done, channelVars, crashed>>
      /\ status' \in Statuses /\ status' # "connecting" /\ (cache' = cache \/ cache' = <<>>)
  BY DEF DisposeStarts, DisposeEnds, Statuses
<1>2. Table' /\ ToldInv' /\ Quiet /\ \A p \in Pipelines : Infos(p)' = Infos(p) /\ Lists(p)' = Lists(p)
  BY <1>1, NoRequestTouched DEF DiscoInv
<1>3. Pipes'
  BY <1>1, <1>2, PipesKept DEF DiscoInv
<1>4. cache' \in Seq(discoEnv.services)
  BY <1>1, EmptySeq DEF DiscoInv, Channel
<1>5. Channel'
  BY <1>1, <1>4 DEF DiscoInv, Channel, channelVars
<1> QED BY <1>2, <1>3, <1>5 DEF DiscoInv

LEMMA EmitRoomSignalKeeps ==
  ASSUME DiscoInv, NEW t \in timers, EmitRoomSignal(t)
  PROVE  DiscoInv' /\ Quiet
<1>1. UNCHANGED <<discoEnv, relisted, status, requestVars, dead, pipe, cache, done, listing, timer, closed, found, nlist>>
  BY DEF EmitRoomSignal
<1>2. Table' /\ ToldInv' /\ Quiet /\ \A p \in Pipelines : Infos(p)' = Infos(p) /\ Lists(p)' = Lists(p)
  BY <1>1, NoRequestTouched DEF DiscoInv, Table
<1>3. Pipes'
  BY <1>1, <1>2, PipesKept DEF DiscoInv
<1>4. /\ {listing, closed, relisted, crashed} \subseteq BOOLEAN
      /\ ~relisted => timers = IF listing THEN {timer} ELSE {}
      /\ closed => ~listing
      /\ ~relisted => ~crashed
      /\ found = announced \cup asked
      /\ ~listing => asked = {}
      /\ timers \subseteq 1 .. nlist
  BY DEF DiscoInv, Channel
<1>5. crashed' \in BOOLEAN /\ (~relisted => listing /\ ~crashed')
  BY <1>4 DEF EmitRoomSignal
<1>6. /\ found = announced' \cup asked'
      /\ ~listing => asked' = {}
      /\ timers' \subseteq 1 .. nlist /\ (listing => timers' = timers)
  BY <1>4 DEF EmitRoomSignal
<1>7. Channel'
  BY <1>1, <1>4, <1>5, <1>6 DEF DiscoInv, Channel
<1> QED BY <1>2, <1>3, <1>7 DEF DiscoInv

(* gabble_disco_pipeline_run on the struct q.                                *)
Started(q, new) == [q EXCEPT !.alive = TRUE, !.running = TRUE, !.list = new]

LEMMA StartedSound ==
  ASSUME NEW q, NEW jids, NEW infos, NEW lists, NEW was \in BOOLEAN, NEW clean \in BOOLEAN, NEW new,
         q \in Struct(jids), Sound(q, jids, infos, lists, was), new \in Nat, new # None,
         clean => was /\ ~q.running
  PROVE  Sound(Started(q, new), jids, infos, lists \cup {new}, clean)
<1> DEFINE q2 == Started(q, new)
<1>1. q2.alive /\ q2.running /\ q2.list = new /\ q2.array = q.array /\ q2.remaining = q.remaining
  BY DEF Struct, Started
<1>2. ASSUME clean PROVE lists = {} /\ infos = {} /\ q.remaining = {}
  BY <1>2 DEF Sound
<1> HIDE DEF q2
<1>3. Sound(q2, jids, infos, lists \cup {new}, clean)
  BY <1>1, <1>2 DEF Sound
<1> QED BY <1>3 DEF q2

LEMMA StartedTyped ==
  ASSUME NEW jids, NEW q \in Struct(jids), NEW new \in Nat
  PROVE  Started(q, new) \in Struct(jids) /\ Started(q, new).running = TRUE
BY DEF Started, Struct

LEMMA StillSound ==
  ASSUME NEW q, NEW jids, NEW infos, NEW lists, NEW was \in BOOLEAN, NEW clean \in BOOLEAN,
         Sound(q, jids, infos, lists, was), clean => was
  PROVE  Sound(q, jids, infos, lists, clean)
BY DEF Sound

LEMMA RunKeeps ==
  ASSUME DiscoInv, NEW p \in Pipelines, Run(p), UNCHANGED <<discoEnv, dead>>,
         status' \in Statuses, status' # "connecting", relisted' \in BOOLEAN,
         ~relisted' => ~relisted /\ ~pipe[p].running
  PROVE  /\ Table' /\ ToldInv' /\ Quiet /\ Pipes'
         /\ pipe'["rooms"].running = IF p = "rooms" THEN TRUE ELSE pipe["rooms"].running
<1>1. Table /\ ToldInv /\ discoEnv \in DiscoEnvironments /\ dead \subseteq discoEnv.objects /\ Len(req) \in Nat
  BY LenProperties DEF DiscoInv, Table
<1>2. Request(p, <<List>>, {}, {}) /\ Told({}, "nothing")
  BY DEF Run
<1>3. <<List>> \in Seq({List} \cup discoEnv.services \cup discoEnv.rooms) /\ Len(<<List>>) \in Nat
      /\ "nothing" \in Outcomes
  BY DEF Outcomes
<1>4. Grown(p, <<List>>, {})
  BY <1>1, <1>2, <1>3, RequestGrows
<1>5. \A i \in 1 .. Len(<<List>>) : p \in Pipelines => <<List>>[i] \in {List} \cup Jids(p)
  OBVIOUS
<1>6. Table'
  BY <1>1, <1>2, <1>3, <1>4, <1>5, TableKept
<1>7. ToldInv' /\ Quiet
  <2>1. \A s \in requests \ {} : req[s].owner \notin dead'
    BY Owners
  <2>2. p \notin dead'
    BY <1>1, Environments DEF Pipelines
  <2>3. /\ {} \subseteq requests /\ {} \subseteq {} /\ (\A s \in {} \ {} : req[s].owner \in dead')
        /\ dead \subseteq dead'
    OBVIOUS
  <2> QED BY <1>1, <1>2, <1>3, <1>4, <2>1, <2>2, <2>3, ToldKept
<1>8. Infos(p)' = Infos(p) /\ Lists(p)' = Lists(p) \cup {Len(req) + 1}
  BY <1>1, <1>4, OwnList
<1>9. ASSUME NEW p2 \in Pipelines, p2 # p PROVE Infos(p2)' = Infos(p2) /\ Lists(p2)' = Lists(p2)
  BY <1>1, <1>3, <1>4, <1>9, OthersUntouched
<1>10. pipe \in [Pipelines -> PipeTypes] /\ \A p2 \in Pipelines : Sound(pipe[p2], Jids(p2), Infos(p2), Lists(p2), ~relisted)
  BY DEF DiscoInv, Pipes
<1>11. pipe' = [pipe EXCEPT ![p] = Started(pipe[p], Len(req) + 1)]
  <2>1. pipe' = [pipe EXCEPT ![p].alive = TRUE, ![p].running = TRUE, ![p].list = Len(req) + 1]
    BY DEF Run
  <2> QED BY <1>10, <2>1 DEF Started, PipeTypes, Struct
<1>12. Started(pipe[p], Len(req) + 1) \in PipeTypes /\ Started(pipe[p], Len(req) + 1).running = TRUE
  <2>1. pipe[p] \in PipeTypes /\ Len(req) + 1 \in Nat
    BY <1>1, <1>10
  <2> QED BY <2>1, StartedTyped DEF PipeTypes
<1>13. pipe' \in [Pipelines -> PipeTypes]
  BY <1>10, <1>11, <1>12
<1>14. ASSUME NEW p2 \in Pipelines
       PROVE  Sound(pipe'[p2], Jids(p2)', Infos(p2)', Lists(p2)', ~relisted')
  <2>1. Jids(p2)' = Jids(p2)
    BY DEF Jids
  <2>2. (~relisted) \in BOOLEAN /\ (~relisted') \in BOOLEAN
    OBVIOUS
  <2>3. PICK was \in BOOLEAN, clean \in BOOLEAN : was = (~relisted) /\ clean = (~relisted')
    BY <2>2, Zenon
  <2>4. Sound(pipe[p2], Jids(p2), Infos(p2), Lists(p2), was)
    BY <1>10, <2>3
  <2>5. clean => was
    BY <2>3
  <2>6. CASE p2 = p
    <3>1. PICK q, jids, infos, lists, new :
            q = pipe[p] /\ jids = Jids(p) /\ infos = Infos(p) /\ lists = Lists(p) /\ new = Len(req) + 1
      OBVIOUS
    <3>2. q \in Struct(jids)
      BY <1>10, <2>4, <2>6, <3>1 DEF Sound, PipeTypes, Struct
    <3>3. /\ Sound(q, jids, infos, lists, was) /\ new \in Nat /\ new # None
          /\ clean => was /\ ~q.running
      <4>1. Len(req) + 1 \in Nat /\ Len(req) + 1 # 0
        BY <1>1
      <4>2. new \in Nat /\ new # None
        BY <3>1, <4>1 DEF None
      <4>3. Sound(q, jids, infos, lists, was)
        BY <2>4, <2>6, <3>1
      <4>4. clean => was /\ ~q.running
        BY <2>3, <3>1, Zenon
      <4> QED BY <4>2, <4>3, <4>4
    <3>4. Sound(Started(q, new), jids, infos, lists \cup {new}, clean)
      BY <3>2, <3>3, StartedSound
    <3>5. pipe'[p] = Started(pipe[p], Len(req) + 1)
      BY <1>10, <1>11
    <3> QED BY <1>8, <2>1, <2>3, <2>6, <3>1, <3>4, <3>5
  <2>7. CASE p2 # p
    <3>1. pipe'[p2] = pipe[p2]
      BY <1>10, <1>11, <2>7
    <3>2. Sound(pipe[p2], Jids(p2), Infos(p2), Lists(p2), clean)
      BY <2>4, <2>5, StillSound
    <3> QED BY <1>9, <2>1, <2>3, <2>7, <3>1, <3>2
  <2> QED BY <2>6, <2>7
<1>15. PipeTypes' = PipeTypes
  BY DEF PipeTypes
<1>16. Pipes'
  BY <1>13, <1>14, <1>15 DEF Pipes
<1>17. pipe'["rooms"].running = IF p = "rooms" THEN TRUE ELSE pipe["rooms"].running
  BY <1>10, <1>11, <1>12 DEF Pipelines
<1> QED BY <1>6, <1>7, <1>16, <1>17

LEMMA ConnectedKeeps ==
  ASSUME DiscoInv, Connected
  PROVE  DiscoInv' /\ Quiet
<1>1. /\ status = "connecting" /\ status' = "connected" /\ Run("service")
      /\ UNCHANGED <<discoEnv, relisted, dead, cache, done, channelVars, crashed>>
  BY DEF Connected
<1>2. relisted \in BOOLEAN /\ ~pipe["service"].running
  BY <1>1 DEF DiscoInv, Pipes, Channel, NoPipe
<1>3. "service" \in Pipelines /\ status' \in Statuses
  BY <1>1 DEF Pipelines, Statuses
<1>4. /\ Table' /\ ToldInv' /\ Quiet /\ Pipes'
      /\ pipe'["rooms"].running = IF "service" = "rooms" THEN TRUE ELSE pipe["rooms"].running
  BY <1>1, <1>2, <1>3, RunKeeps
<1>5. Channel'
  BY <1>1, <1>4 DEF DiscoInv, Channel, channelVars
<1> QED BY <1>4, <1>5 DEF DiscoInv

LEMMA ListRoomsStep ==
  ASSUME DiscoInv, ListRooms
  PROVE  DiscoInv' /\ Quiet
<1>1. /\ status = "connected" /\ ~closed /\ nlist < discoEnv.listings /\ nlist' = nlist + 1 /\ Run("rooms")
      /\ timer' = nlist' /\ timers' = timers \cup {timer'} /\ relisted' = (relisted \/ listing) /\ listing' = TRUE
      /\ found' = (IF listing THEN found ELSE {}) /\ announced' = (IF listing THEN announced ELSE {})
      /\ UNCHANGED <<discoEnv, status, dead, cache, done, asked, closed, crashed>>
  BY DEF ListRooms
<1>2. /\ {listing, closed, relisted, crashed} \subseteq BOOLEAN /\ pipe["rooms"].running = listing
      /\ ~listing => asked = {}
      /\ found = announced \cup asked /\ found \subseteq discoEnv.rooms
      /\ nlist \in 0 .. discoEnv.listings /\ timer \in 0 .. nlist /\ timers \subseteq 1 .. nlist
      /\ ~relisted => timers = IF listing THEN {timer} ELSE {}
      /\ ~relisted => ~crashed
  BY DEF DiscoInv, Channel
<1>3. "rooms" \in Pipelines /\ status' \in Statuses /\ status' # "connecting" /\ relisted' \in BOOLEAN
      /\ (~relisted' => ~relisted /\ ~pipe["rooms"].running)
  BY <1>1, <1>2 DEF Pipelines, Statuses
<1>4. /\ Table' /\ ToldInv' /\ Quiet /\ Pipes'
      /\ pipe'["rooms"].running = IF "rooms" = "rooms" THEN TRUE ELSE pipe["rooms"].running
  BY <1>1, <1>3, RunKeeps
<1>5. discoEnv.listings \in Nat
  BY Environments DEF DiscoInv, Table
<1>6. nlist' \in 0 .. discoEnv.listings /\ timer' \in 0 .. nlist' /\ timers' \subseteq 1 .. nlist'
  <2>1. nlist \in Nat /\ nlist' = nlist + 1 /\ nlist + 1 <= discoEnv.listings
    BY <1>1, <1>2, <1>5
  <2>2. 1 .. nlist \subseteq 1 .. nlist' /\ nlist' \in 1 .. nlist' /\ nlist' \in 0 .. nlist'
    BY <2>1
  <2>3. timers' \subseteq 1 .. nlist'
    BY <1>1, <1>2, <2>2
  <2> QED BY <1>1, <1>5, <2>1, <2>2, <2>3
<1>7. ~relisted' => timers' = {timer'}
  BY <1>1, <1>2
<1>8. found' = announced' \cup asked' /\ found' \subseteq discoEnv.rooms
  BY <1>1, <1>2
<1>9. Channel'
  BY <1>1, <1>2, <1>3, <1>4, <1>6, <1>7, <1>8 DEF DiscoInv, Channel
<1> QED BY <1>4, <1>9 DEF DiscoInv

(* stop_listing: an items request that another listing overtook may survive. *)
LEMMA StopKeeps ==
  ASSUME DiscoInv, StopListing, closed' \in BOOLEAN,
         status' \in Statuses, status' = "connecting" => status = "connecting",
         UNCHANGED <<discoEnv, relisted, dead, cache, done, found, nlist>>
  PROVE  DiscoInv' /\ Quiet
<1>1. PICK cancelled : cancelled = PipelineRequests(pipe["rooms"])
  OBVIOUS
<1>2. /\ announced' = (IF listing THEN announced \cup asked ELSE announced)
      /\ asked' = (IF listing THEN {} ELSE asked) /\ listing' = FALSE
      /\ Delete(cancelled, {}) /\ Told(cancelled, "cancelled")
      /\ pipe' = [pipe EXCEPT !["rooms"] = NoPipe]
      /\ timers' = timers \ {timer} /\ timer' = None
      /\ crashed' = (crashed \/ asked' # {})
  BY <1>1 DEF StopListing
<1>3. Table /\ ToldInv /\ dead \subseteq discoEnv.objects
  BY DEF DiscoInv, Table
<1>4. pipe \in [Pipelines -> PipeTypes] /\ \A p \in Pipelines : Sound(pipe[p], Jids(p), Infos(p), Lists(p), ~relisted)
  BY DEF DiscoInv, Pipes
<1>5. Sound(pipe["rooms"], Jids("rooms"), Infos("rooms"), Lists("rooms"), ~relisted)
  BY <1>4 DEF Pipelines
<1>6. /\ cancelled \subseteq Infos("rooms") \cup Lists("rooms") /\ Infos("rooms") \subseteq cancelled
      /\ ~relisted => Lists("rooms") \subseteq cancelled
  <2>1. None \notin requests
    BY Owners
  <2> QED BY <1>1, <1>5, <2>1 DEF Sound, PipelineRequests, Infos, Lists
<1>7. cancelled \subseteq requests /\ \A r \in cancelled : req[r].owner = "rooms"
  BY <1>6 DEF Infos, Lists
<1>8. Grown(None, <<>>, cancelled) /\ req' = req /\ requests' = requests \ cancelled
  BY <1>2, <1>3, DeleteGrows
<1>9. Len(<<>>) = 0 /\ Len(<<>>) \in Nat /\ "cancelled" \in Outcomes /\ "cancelled" \notin {"again", "nothing"}
  BY DEF Outcomes
<1>10. Table'
  <2>1. \A i \in 1 .. Len(<<>>) : None \in Pipelines => <<>>[i] \in {List} \cup Jids(None)
    BY <1>9
  <2> QED BY <1>2, <1>3, <1>8, <1>9, <2>1, TableKept
<1>11. ToldInv' /\ Quiet
  <2>1. \A s \in requests \ cancelled : req[s].owner \notin dead'
    BY Owners
  <2>2. /\ cancelled \subseteq cancelled /\ \A s \in cancelled \ cancelled : req[s].owner \in dead'
        /\ dead \subseteq dead'
    OBVIOUS
  <2> QED BY <1>2, <1>3, <1>7, <1>8, <1>9, <2>1, <2>2, ToldKept
<1>12. \A p \in Pipelines : Infos(p)' = Infos(p) \ cancelled /\ Lists(p)' = Lists(p) \ cancelled
  BY <1>8 DEF Infos, Lists
<1>13. ASSUME NEW p \in Pipelines
       PROVE  Sound(pipe'[p], Jids(p)', Infos(p)', Lists(p)', ~relisted')
  <2>1. Jids(p)' = Jids(p)
    BY DEF Jids
  <2>2. CASE p = "rooms"
    <3>1. pipe'[p] = NoPipe /\ Infos(p)' = {}
      BY <1>2, <1>4, <1>6, <1>12, <2>2
    <3>2. ~relisted => Lists(p)' = {}
      BY <1>6, <1>12, <2>2
    <3>3. Cardinality({}) = 0 /\ PipelineSize \in Nat
      BY FS_EmptySet, DiscoAssumption
    <3>4. Cardinality({}) <= PipelineSize
      BY <3>3
    <3>5. NoPipe.array = {} /\ NoPipe.remaining = {} /\ NoPipe.list = None /\ NoPipe.running = FALSE
      BY DEF NoPipe
    <3>6. PICK lists : lists = Lists(p)'
      OBVIOUS
    <3>7. Sound(NoPipe, Jids(p), {}, lists, ~relisted)
      BY <3>2, <3>4, <3>5, <3>6 DEF Sound
    <3> QED BY <2>1, <3>1, <3>6, <3>7
  <2>3. CASE p # "rooms"
    <3>1. pipe'[p] = pipe[p]
      BY <1>2, <1>4, <2>3
    <3>2. Infos(p)' = Infos(p) /\ Lists(p)' = Lists(p)
      BY <1>7, <1>12, <2>3 DEF Infos, Lists
    <3> QED BY <1>4, <2>1, <3>1, <3>2
  <2> QED BY <2>2, <2>3
<1>14. Pipes'
  <2>1. PipeTypes' = PipeTypes
    BY DEF PipeTypes
  <2>2. NoPipe \in PipeTypes
    BY DEF NoPipe, PipeTypes, Struct, None
  <2>3. pipe' \in [Pipelines -> PipeTypes]
    BY <1>2, <1>4, <2>2
  <2>4. status' = "connecting" => pipe'["service"] = NoPipe
    BY <1>2, <1>4 DEF DiscoInv, Pipes, Pipelines
  <2> QED BY <1>13, <2>1, <2>3, <2>4 DEF Pipes
<1>15. Channel'
  <2>1. /\ {listing, relisted, crashed} \subseteq BOOLEAN
        /\ ~listing => asked = {}
        /\ found = announced \cup asked
        /\ nlist \in Nat /\ timers \subseteq 1 .. nlist
        /\ ~relisted => timers = IF listing THEN {timer} ELSE {}
        /\ ~relisted => ~crashed
    <3>1. discoEnv.listings \in Nat
      BY Environments DEF DiscoInv, Table
    <3> QED BY <3>1 DEF DiscoInv, Channel
  <2>2. asked' = {} /\ found' = announced' \cup asked' /\ crashed' = crashed
    BY <1>2, <2>1
  <2>3. timers' \subseteq 1 .. nlist /\ (~relisted => timers' = {})
    BY <1>2, <2>1
  <2>a. timer' \in 0 .. nlist
    <3>1. 0 \in 0 .. nlist
      BY <2>1
    <3> QED BY <1>2, <3>1 DEF None
  <2>4. pipe'["rooms"].running = FALSE /\ listing' = FALSE
    BY <1>2, <1>4 DEF Pipelines, NoPipe
  <2> QED BY <2>1, <2>2, <2>3, <2>a, <2>4 DEF DiscoInv, Channel
<1> QED BY <1>10, <1>11, <1>14, <1>15 DEF DiscoInv

LEMMA StopOrCloseKeeps ==
  ASSUME DiscoInv, StopOrClose \/ Disconnected
  PROVE  DiscoInv' /\ Quiet
<1>1. /\ StopListing /\ closed' \in BOOLEAN /\ status' \in Statuses /\ (status' = "connecting" => status = "connecting")
      /\ UNCHANGED <<discoEnv, relisted, dead, cache, done, found, nlist>>
  BY DEF StopOrClose, Disconnected, Statuses
<1> QED BY <1>1, StopKeeps

-----------------------------------------------------------------------------
(* The theorems.                                                             *)

LEMMA StepKeeps ==
  ASSUME DiscoInv, [DiscoNext]_discoVars
  PROVE  DiscoInv' /\ Quiet
<1>1. CASE Connected
  BY <1>1, ConnectedKeeps
<1>2. CASE ListRooms
  BY <1>2, ListRoomsStep
<1>3. CASE StopOrClose \/ Disconnected
  BY <1>3, StopOrCloseKeeps
<1>4. ASSUME NEW t \in timers, EmitRoomSignal(t) PROVE DiscoInv' /\ Quiet
  BY <1>4, EmitRoomSignalKeeps
<1>5. ASSUME NEW o \in discoEnv.objects, ClientRequest(o) \/ ObjectDies(o) PROVE DiscoInv' /\ Quiet
  BY <1>5, ClientRequestKeeps, ObjectDiesKeeps
<1>6. ASSUME NEW r \in requests, ClientCancel(r) \/ Timeout(r) PROVE DiscoInv' /\ Quiet
  BY <1>6, ClientCancelKeeps, TimeoutKeeps
<1>7. ASSUME NEW s \in wire, LateReply(s) \/ \E r \in requests : DiscoReply(s, r) PROVE DiscoInv' /\ Quiet
  BY <1>7, LateReplyKeeps, DiscoReplyKeeps
<1>8. CASE DisposeStarts \/ DisposeEnds
  BY <1>8, DisposeStepsKeep
<1>9. CASE DisposeCancels
  BY <1>9, DisposeCancelsKeeps
<1>10. CASE UNCHANGED discoVars
  <2>1. UNCHANGED <<discoEnv, status, requestVars, dead, pipe, cache, done, channelVars, relisted, crashed>>
    BY <1>10 DEF discoVars
  <2>2. Table' /\ ToldInv' /\ Quiet /\ \A p \in Pipelines : Infos(p)' = Infos(p) /\ Lists(p)' = Lists(p)
    BY <2>1, NoRequestTouched DEF DiscoInv, Table
  <2>3. Pipes' /\ Channel'
    BY <2>1, <2>2, PipesKept, ChannelKept DEF DiscoInv
  <2> QED BY <2>2, <2>3 DEF DiscoInv
<1> QED BY <1>1, <1>2, <1>3, <1>4, <1>5, <1>6, <1>7, <1>8, <1>9, <1>10 DEF DiscoNext

LEMMA InvariantHolds == DiscoSpec => []DiscoInv
<1>1. DiscoInit => DiscoInv
  <2> SUFFICES ASSUME DiscoInit PROVE DiscoInv
    OBVIOUS
  <2>1. discoEnv \in DiscoEnvironments /\ discoEnv.listings \in Nat /\ PipelineSize \in Nat
    BY DiscoAssumption, Environments DEF DiscoInit
  <2>2. Len(req) = 0 /\ 1 .. Len(req) = {} /\ req \in Seq(Jobs)
    BY EmptySeq DEF DiscoInit
  <2>3. Table /\ ToldInv
    BY <2>1, <2>2 DEF DiscoInit, Table, ToldInv, Statuses
  <2>4. Pipes
    <3>1. NoPipe \in PipeTypes
      BY DEF NoPipe, PipeTypes, Struct, None
    <3>2. ASSUME NEW p \in Pipelines PROVE Sound(NoPipe, Jids(p), Infos(p), Lists(p), ~relisted)
      <4>1. Infos(p) = {} /\ Lists(p) = {}
        BY DEF DiscoInit, Infos, Lists
      <4>2. Cardinality({}) = 0
        BY FS_EmptySet
      <4>3. NoPipe.array = {} /\ NoPipe.remaining = {} /\ NoPipe.list = None /\ NoPipe.running = FALSE
        BY DEF NoPipe
      <4>4. Sound(NoPipe, Jids(p), {}, {}, ~relisted)
        BY <2>1, <4>2, <4>3 DEF Sound
      <4> QED BY <4>1, <4>4
    <3> QED BY <3>1, <3>2 DEF DiscoInit, Pipes, Pipelines
  <2>5. Channel
    <3>1. cache \in Seq(discoEnv.services)
      BY EmptySeq DEF DiscoInit
    <3>2. pipe["rooms"].running = FALSE
      BY DEF DiscoInit, Pipelines, NoPipe
    <3>3. /\ nlist \in 0 .. discoEnv.listings /\ timer \in 0 .. nlist /\ timers \subseteq 1 .. nlist
          /\ listing = FALSE /\ closed = FALSE /\ relisted = FALSE /\ crashed = FALSE /\ timers = {}
      <4>1. 0 \in 0 .. discoEnv.listings /\ 0 \in 0 .. 0
        BY <2>1
      <4> QED BY <4>1 DEF DiscoInit, None
    <3>4. found = {} /\ announced = {} /\ asked = {}
      BY DEF DiscoInit
    <3> QED BY <3>1, <3>2, <3>3, <3>4 DEF Channel
  <2> QED BY <2>3, <2>4, <2>5 DEF DiscoInv
<1>2. DiscoInv /\ [DiscoNext]_discoVars => DiscoInv'
  BY StepKeeps
<1> QED BY <1>1, <1>2, PTL DEF DiscoSpec

(* Whatever completes a request first (a reply, its timeout, a cancellation, *)
(* the death of the object it is bound to or of the GabbleDisco), it is      *)
(* completed once; no callback is given freed memory, a pipeline knows all   *)
(* of its requests and has no more of them than its window, and a room list  *)
(* that says it is over has asked about every item and announced every room  *)
(* it found (disco.c, roomlist-channel.c).  This holds for every window,     *)
(* whatever the servers list and answer, for any number of clients.          *)
THEOREM DiscoIsSound == DiscoSpec => []DiscoSound
BY InvariantHolds, InvariantMeansSound, PTL

(* "The callback will not be called if this object has been unrefed."        *)
THEOREM DeadAreNotCalled == DiscoSpec => SilentAfterDeath
<1>1. DiscoInv /\ [DiscoNext]_discoVars
        => [\A r \in DOMAIN req : req[r].owner \in dead => told'[r] = told[r]]_discoVars
  <2> SUFFICES ASSUME DiscoInv, [DiscoNext]_discoVars, NEW r \in DOMAIN req, req[r].owner \in dead
               PROVE  told'[r] = told[r]
    OBVIOUS
  <2>1. r \in 1 .. Len(req)
    BY LenProperties DEF DiscoInv, Table
  <2>2. r \notin requests
    BY <2>1 DEF DiscoInv, ToldInv
  <2>3. Quiet
    BY StepKeeps
  <2> QED BY <2>1, <2>2, <2>3 DEF Quiet
<1> QED BY <1>1, InvariantHolds, PTL DEF DiscoSpec, SilentAfterDeath
=============================================================================
