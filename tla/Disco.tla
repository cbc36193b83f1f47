-------------------------------- MODULE Disco --------------------------------
(***************************************************************************)
(* GabbleDisco (src/src/disco.c): XEP-0030 requests that a reply, a        *)
(* timeout, a cancellation or the death of the bound object completes, and *)
(* the disco pipeline built on them, which lists a server's items and then *)
(* queries a window of them at a time.  Two pipelines run: the service     *)
(* discovery started on connecting, and the one of a room list channel     *)
(* (src/src/roomlist-channel.c).                                           *)
(*                                                                         *)
(* Every handler runs to completion on the GLib main loop.  The porter     *)
(* exists from before the first request until after the GabbleDisco is     *)
(* disposed of, so sending never fails; when the stream is closed the      *)
(* replies never come and message_send_reply_cb does not call back.        *)
(***************************************************************************)
EXTENDS Integers, FiniteSets, Sequences

CONSTANTS
    PipelineSize,  \* DISCO_PIPELINE_SIZE
    DiscoEnvironments   \* what servers and clients may do: see Environment

Pipelines == {"service", "rooms"}
List == "items"   \* stands for the JID of the server an items request is for
None == 0         \* a NULL list_request, a timer_source_id of 0

(* services, rooms: the JIDs the user's server and the conference server   *)
(* may list.  objects: clients of gabble_disco_request, each a bound       *)
(* object.  Bounds: listings, on the calls of ListRooms, and clients, on   *)
(* the requests of objects.  reuse: the allocator may give the address of  *)
(* a freed request to a new one while the old one's IQ is unanswered.      *)
EnvironmentsAreSets ==
    \A e \in DiscoEnvironments :
        /\ IsFiniteSet(e.services) /\ IsFiniteSet(e.rooms)
        /\ List \notin e.services \cup e.rooms /\ e.objects \cap Pipelines = {}
        /\ e.listings \in Nat /\ e.clients \in Nat /\ e.reuse \in BOOLEAN

ASSUME DiscoAssumption == PipelineSize \in Nat \ {0} /\ EnvironmentsAreSets

\* Requests made so far have the serial numbers 1 .. Len(req).
MaxReqs == {1 + Cardinality(e.services) + e.listings * (1 + Cardinality(e.rooms))
              + e.clients : e \in DiscoEnvironments}

VARIABLES
    discoEnv,       \* the environment of this behaviour
    status,    \* of the connection; "disposing", "disposed": of the GabbleDisco
    req,       \* every GabbleDiscoRequest ever made: its owner and its JID
    requests,  \* priv->requests
    freedAt,   \* [r]: how many requests had been made when r was freed
    wire,      \* requests whose IQ the server may still answer
    told,      \* [r]: what the callback was told, or "nothing"
    dead,      \* bound objects that were finalised
    pipe,      \* [p]: the GabbleDiscoPipeline
    cache,     \* priv->service_cache
    done,      \* the signal "done" was emitted
    listing,   \* roomlist channel: priv->listing
    asked,   \* roomlist channel: priv->pending_room_signals
    timers,    \* roomlist channel: emit_room_signal sources that are attached
    timer,     \* roomlist channel: priv->timer_source_id
    closed,    \* the roomlist channel was disposed of
    found,     \* rooms found by the current listing
    announced, \* rooms of the current listing signalled with GotRooms
    nlist,     \* calls of ListRooms so far
    relisted,  \* ListRooms was called while rooms were being listed
    crashed    \* an assertion failed or freed memory was used

channelVars == <<listing, asked, timers, timer, closed, found, announced, nlist>>
requestVars == <<req, requests, freedAt, wire, told>>
discoVars == <<discoEnv, status, requestVars, dead, pipe, cache, done, channelVars, relisted, crashed>>

NoPipe == [alive |-> FALSE, running |-> FALSE, list |-> None,
           array |-> {}, remaining |-> {}]

DiscoTypeOK ==
    /\ discoEnv \in DiscoEnvironments
    /\ status \in {"connecting", "connected", "disconnected", "disposing", "disposed"}
    /\ req \in Seq([owner : Pipelines \cup discoEnv.objects,
                   jid : {List} \cup discoEnv.services \cup discoEnv.rooms])
    /\ requests \subseteq DOMAIN req
    /\ DOMAIN freedAt = DOMAIN req
    /\ wire \subseteq DOMAIN req
    /\ told \in [DOMAIN req -> {"nothing", "reply", "error", "timeout", "cancelled",
                                "again", "wrong"}]
    /\ dead \subseteq discoEnv.objects
    /\ \A p \in Pipelines :
          /\ pipe[p].list \in DOMAIN req \cup {None}
          /\ pipe[p].array \subseteq DOMAIN req
          /\ pipe[p].remaining \subseteq discoEnv.services \cup discoEnv.rooms
    /\ cache \in Seq(discoEnv.services)
    /\ asked \subseteq discoEnv.rooms
    /\ timers \subseteq 1 .. discoEnv.listings
    /\ timer \in 0 .. discoEnv.listings
    /\ announced \subseteq found
    /\ found \subseteq discoEnv.rooms

DiscoInit ==
    /\ discoEnv \in DiscoEnvironments
    /\ status = "connecting"
    /\ req = <<>>
    /\ requests = {}
    /\ freedAt = <<>>
    /\ wire = {}
    /\ told = <<>>
    /\ dead = {}
    /\ pipe = [p \in Pipelines |-> NoPipe]
    /\ cache = <<>>
    /\ done = FALSE
    /\ listing = FALSE
    /\ asked = {}
    /\ timers = {}
    /\ timer = None
    /\ closed = FALSE
    /\ found = {}
    /\ announced = {}
    /\ nlist = 0
    /\ relisted = FALSE
    /\ crashed = FALSE

-----------------------------------------------------------------------------
(* Requests *)

\* gabble_disco_request_with_timeout, for the JIDs of js one after the other,
\* and then delete_request for the requests in del; the IQs of ans have been
\* answered.  A request's timer runs while the request is in priv->requests.
Request(owner, js, del, ans) ==
    LET new == Len(req) + 1 .. Len(req) + Len(js)
    IN  /\ req' = req \o [i \in DOMAIN js |-> [owner |-> owner, jid |-> js[i]]]
        /\ requests' = (requests \cup new) \ del
        /\ freedAt' = [r \in DOMAIN req' |->
               IF r \in del /\ discoEnv.reuse THEN Len(req')
               ELSE IF r \in new THEN 0 ELSE freedAt[r]]
        /\ wire' = IF status \in {"connecting", "connected"}
                   THEN (wire \ ans) \cup new ELSE {}

\* The callbacks of the requests in rs are called with outcome o.
Told(rs, o) ==
    told' = [r \in DOMAIN req' |->
                CASE r \notin DOMAIN told -> "nothing"
                  [] r \in rs /\ told[r] # "nothing" -> "again"
                  [] r \in rs /\ told[r] = "nothing" -> o
                  [] OTHER -> told[r]]

Delete(del, ans) == Request(None, <<>>, del, ans)

OwnedBy(o) == {r \in requests : req[r].owner = o}

Running == status \in {"connecting", "connected", "disconnected"}

\* A client's gabble_disco_request, bound to the object o.
ClientRequest(o) ==
    /\ status \in {"connecting", "connected"}
    /\ o \notin dead
    /\ Cardinality({r \in DOMAIN req : req[r].owner \in discoEnv.objects}) < discoEnv.clients
    /\ Request(o, <<List>>, {}, {})
    /\ Told({}, "nothing")
    /\ UNCHANGED <<discoEnv, relisted, status, dead, pipe, cache, done, channelVars, crashed>>

\* gabble_disco_cancel_request by the client that made the request.
ClientCancel(r) ==
    /\ Running
    /\ r \in requests
    /\ req[r].owner \in discoEnv.objects
    /\ Delete({r}, {})
    /\ Told({r}, "cancelled")
    /\ UNCHANGED <<discoEnv, relisted, status, dead, pipe, cache, done, channelVars, crashed>>

\* Defect: requests are not bound to the object.
ObjectDiesUnbound(o) ==
    /\ Running
    /\ o \notin dead
    /\ dead' = dead \cup {o}
    /\ UNCHANGED <<discoEnv, relisted, status, requestVars, pipe, cache, done, channelVars, crashed>>

\* The last reference to o is dropped: notify_delete_request deletes the
\* requests bound to it without calling back.
ObjectDies(o) ==
    /\ Running
    /\ o \notin dead
    /\ dead' = dead \cup {o}
    /\ Delete(OwnedBy(o), {})
    /\ Told({}, "nothing")
    /\ UNCHANGED <<discoEnv, relisted, status, pipe, cache, done, channelVars, crashed>>

-----------------------------------------------------------------------------
(* The disco pipeline *)

\* Defect: the rooms found since the last tick of the timer are not signalled.
RoomsEndSilently(ps) ==
    /\ asked' = ps
    /\ listing' = FALSE
    /\ timers' = timers \ {timer}
    /\ timer' = None
    /\ UNCHANGED announced

\* Defect: the timer is left running.
RoomsEndKeepsTimer(ps) ==
    /\ announced' = IF listing THEN announced \cup ps ELSE announced
    /\ asked' = IF listing THEN {} ELSE ps
    /\ listing' = FALSE
    /\ timer' = None
    /\ UNCHANGED timers

\* rooms_end_cb: emit_room_signal announces the rooms in ps, the listing ends
\* and the timer that timer_source_id names is removed.
RoomsEnd(ps) ==
    /\ announced' = IF listing THEN announced \cup ps ELSE announced
    /\ asked' = IF listing THEN {} ELSE ps
    /\ listing' = FALSE
    /\ timers' = timers \ {timer}
    /\ timer' = None

\* Defect: one request more than the window has places for.
PlacesOneTooMany(q) ==
    LET free == PipelineSize + 1 - Cardinality(q.array)
        left == Cardinality(q.remaining)
    IN  IF ~q.running THEN 0 ELSE IF free < left THEN free ELSE left

\* Defect: the last item is never queried.
PlacesNotLast(q) ==
    LET free == PipelineSize - Cardinality(q.array)
        left == Cardinality(q.remaining) - 1
    IN  IF ~q.running \/ q.remaining = {} THEN 0 ELSE IF free < left THEN free ELSE left

\* How many requests gabble_disco_fill_pipeline sends for the pipeline q.
Places(q) ==
    LET free == PipelineSize - Cardinality(q.array)
        left == Cardinality(q.remaining)
    IN  IF ~q.running THEN 0 ELSE IF free < left THEN free ELSE left

\* gabble_disco_fill_pipeline of pipeline p, whose struct is q, inside the
\* callback of request r.  The hash table gives the remaining items in any
\* order.  items and ps are cache and asked with what the callback added.
\* end_cb destroys the service pipeline; rooms_end_cb keeps the channel's.
Fill(p, q, r, ans, items, ps) ==
    \E js \in [1 .. Places(q) -> q.remaining] :
        LET new == Len(req) + 1 .. Len(req) + Len(js)
            left == q.remaining \ {js[i] : i \in DOMAIN js}
            ends == q.running /\ q.array = {} /\ new = {}
        IN  /\ Cardinality(left) = Cardinality(q.remaining) - Len(js)
            /\ Request(p, js, {r}, ans)
            /\ pipe' = [pipe EXCEPT ![p] =
                   IF ends /\ p = "service" THEN NoPipe
                   ELSE [q EXCEPT !.array = @ \cup new, !.remaining = left,
                                  !.running = @ /\ ~ends]]
            /\ IF ends /\ p = "service"
               THEN /\ cache' = [i \in DOMAIN items |-> items[Len(items) + 1 - i]]
                    /\ done' = TRUE
               ELSE /\ cache' = items
                    /\ done' = done
            /\ IF ends /\ p = "rooms"
               THEN RoomsEnd(ps)
               ELSE /\ asked' = ps
                    /\ UNCHANGED <<announced, listing, timers, timer>>

\* Defect: an error makes disco_items_cb return without filling the pipeline.
ItemsCbReturns(r, ans, js) ==
    LET p == req[r].owner
        q == [pipe[p] EXCEPT !.list = None, !.remaining = @ \cup js]
    IN  IF js = {}
        THEN /\ Delete({r}, ans)
             /\ pipe' = [pipe EXCEPT ![p] = q]
             /\ UNCHANGED <<cache, done, found, announced, asked, listing, timers, timer>>
        ELSE Fill(p, q, r, ans, cache, asked) /\ UNCHANGED found

\* disco_items_cb: js are the items of the reply, none after an error.
ItemsCb(r, ans, js) ==
    LET p == req[r].owner
    IN  /\ Fill(p, [pipe[p] EXCEPT !.list = None, !.remaining = @ \cup js],
                r, ans, cache, asked)
        /\ UNCHANGED found

\* room_info_cb: the rooms kept for the next GotRooms, if item is a chat room.
RoomInfoCb(item) == asked \cup {item}

\* services_cb: the service cache with the item in front.
ServicesCb(item) == <<item>> \o cache

\* Defect: the finished request is not taken out of the window.
InfoCbKeeps(r, ans, ok) ==
    LET p == req[r].owner
    IN  /\ Fill(p, pipe[p], r, ans, cache,
                IF ok /\ p = "rooms" THEN RoomInfoCb(req[r].jid) ELSE asked)
        /\ found' = IF ok /\ p = "rooms" THEN found \cup {req[r].jid} ELSE found

\* item_info_cb: ok says that the reply identifies an item of the kind that
\* the pipeline's callback does not ignore.
InfoCb(r, ans, ok) ==
    LET p == req[r].owner
    IN  /\ Fill(p, [pipe[p] EXCEPT !.array = @ \ {r}], r, ans,
                IF ok /\ p = "service" THEN ServicesCb(req[r].jid) ELSE cache,
                IF ok /\ p = "rooms" THEN RoomInfoCb(req[r].jid) ELSE asked)
        /\ found' = IF ok /\ p = "rooms" THEN found \cup {req[r].jid} ELSE found

\* The callback of a request that a pipeline made, and delete_request.  A
\* pipeline that was destroyed is freed memory.
PipelineCallback(r, ans, js, ok) ==
    IF pipe[req[r].owner].alive
    THEN /\ IF req[r].jid = List THEN ItemsCb(r, ans, js) ELSE InfoCb(r, ans, ok)
         /\ UNCHANGED <<closed, nlist, crashed>>
    ELSE /\ crashed' = TRUE
         /\ Delete({r}, ans)
         /\ UNCHANGED <<pipe, cache, done, channelVars>>

\* What the server of pipeline p may list.
Listed(p) == SUBSET (IF p = "service" THEN discoEnv.services ELSE discoEnv.rooms)

-----------------------------------------------------------------------------
(* What completes a request *)

\* The requests in the list that have the address user_data points to when
\* the IQ of s is answered: s itself or, once s was freed, a newer request.
AtAddress(s) ==
    IF s \in requests THEN {s}
    ELSE IF discoEnv.reuse THEN {r \in requests : r > freedAt[s]} ELSE {}

\* request_reply_cb for the IQ of s finds the request r in priv->requests.
\* ok says that the reply has what r asks for; any other reply is an error.
DiscoReply(s, r) ==
    /\ status \in {"connecting", "connected"}
    /\ s \in wire
    /\ r \in AtAddress(s)
    /\ \E ok \in BOOLEAN :
          /\ IF req[r].owner \in discoEnv.objects
             THEN /\ Delete({r}, {s})
                  /\ UNCHANGED <<pipe, cache, done, channelVars, crashed>>
             ELSE \E js \in (IF ok THEN Listed(req[r].owner) ELSE {{}}) :
                     PipelineCallback(r, {s}, js, ok)
          /\ Told({r}, CASE ~ok -> "error" [] ok /\ r = s -> "reply"
                         [] OTHER -> "wrong")
    /\ UNCHANGED <<discoEnv, relisted, status, dead>>

\* Defect: request_reply_cb does not look for the request in the list.
LateReplyUnchecked(s) ==
    /\ status \in {"connecting", "connected"}
    /\ s \in wire \ requests
    /\ Delete({}, {s})
    /\ Told({s}, "reply")
    /\ UNCHANGED <<discoEnv, relisted, status, dead, pipe, cache, done, channelVars, crashed>>

\* request_reply_cb returns early: the request is no longer in the list.
LateReply(s) ==
    /\ status \in {"connecting", "connected"}
    /\ s \in wire \ requests
    /\ Delete({}, {s})
    /\ Told({}, "nothing")
    /\ UNCHANGED <<discoEnv, relisted, status, dead, pipe, cache, done, channelVars, crashed>>

\* Defect: timeout_request leaves the request bound to the object.
StillBoundToo(r) == OwnedBy(req[r].owner)

\* The requests that notify_delete_request deletes if the callback of r, which
\* timed out, drops the bound object: timeout_request has just unbound r.
StillBound(r) == OwnedBy(req[r].owner) \ {r}

\* timeout_request.  A client's callback may drop the bound object, as that of
\* the connection does when its server does not answer; then the GabbleDisco
\* is disposed of once the reference that timeout_request took is dropped.
Timeout(r) ==
    /\ Running
    /\ r \in requests
    /\ IF req[r].owner \in discoEnv.objects
       THEN \E drops \in BOOLEAN, last \in BOOLEAN :
               /\ last => drops /\ status # "connected"
               /\ dead' = IF drops THEN dead \cup {req[r].owner} ELSE dead
               /\ status' = IF last THEN "disposing" ELSE status
               /\ Delete({r} \cup (IF drops THEN StillBound(r) ELSE {}), {})
               /\ crashed' = (crashed \/ (drops /\ r \in StillBound(r)))
               /\ UNCHANGED <<pipe, cache, done, channelVars>>
       ELSE PipelineCallback(r, {}, {}, FALSE) /\ UNCHANGED <<status, dead>>
    /\ Told({r}, "timeout")
    /\ UNCHANGED <<discoEnv, relisted>>

\* One turn of the loop of gabble_disco_dispose: cancel_request for the head
\* of the list, the newest request; its callback may make further requests.
DisposeCancels ==
    /\ status = "disposing"
    /\ \E r \in requests :
          /\ \A y \in requests : y <= r
          /\ IF req[r].owner \in discoEnv.objects
             THEN Delete({r}, {}) /\ UNCHANGED <<pipe, cache, done, channelVars, crashed>>
             ELSE PipelineCallback(r, {}, {}, FALSE)
          /\ Told({r}, "cancelled")
    /\ UNCHANGED <<discoEnv, relisted, status, dead>>

\* The end of gabble_disco_dispose.
DisposeEnds ==
    /\ status = "disposing"
    /\ requests = {}
    /\ status' = "disposed"
    /\ cache' = <<>>
    /\ UNCHANGED <<discoEnv, relisted, requestVars, dead, pipe, done, channelVars, crashed>>

-----------------------------------------------------------------------------
(* The connection and the roomlist channel *)

\* gabble_disco_pipeline_init if there is none, and gabble_disco_pipeline_run.
Run(p) ==
    /\ Request(p, <<List>>, {}, {})
    /\ Told({}, "nothing")
    /\ pipe' = [pipe EXCEPT ![p].alive = TRUE, ![p].running = TRUE,
                            ![p].list = Len(req) + 1]

\* gabble_disco_conn_status_changed_cb, CONNECTED: service discovery.
Connected ==
    /\ status = "connecting"
    /\ status' = "connected"
    /\ Run("service")
    /\ UNCHANGED <<discoEnv, relisted, dead, cache, done, channelVars, crashed>>

\* Defect: the rooms of the listing before are forgotten only in part.
ListRoomsKeeps ==
    /\ status = "connected"
    /\ ~closed
    /\ nlist < discoEnv.listings
    /\ nlist' = nlist + 1
    /\ Run("rooms")
    /\ timer' = nlist'
    /\ timers' = timers \cup {timer'}
    /\ relisted' = (relisted \/ listing)
    /\ listing' = TRUE
    /\ found' = {}
    /\ UNCHANGED <<discoEnv, status, dead, cache, done, asked, announced, closed, crashed>>

\* ListRooms.
ListRooms ==
    /\ status = "connected"
    /\ ~closed
    /\ nlist < discoEnv.listings
    /\ nlist' = nlist + 1
    /\ Run("rooms")
    /\ timer' = nlist'
    /\ timers' = timers \cup {timer'}
    /\ relisted' = (relisted \/ listing)
    /\ listing' = TRUE
    /\ found' = IF listing THEN found ELSE {}
    /\ announced' = IF listing THEN announced ELSE {}
    /\ UNCHANGED <<discoEnv, status, dead, cache, done, asked, closed, crashed>>

\* emit_room_signal on the timer's ticks: the timer t removes itself once the
\* listing is over.
EmitRoomSignal(t) ==
    /\ t \in timers
    /\ IF listing
       THEN /\ announced' = announced \cup asked
            /\ asked' = {}
            /\ UNCHANGED timers
       ELSE /\ timers' = timers \ {t}
            /\ UNCHANGED <<announced, asked>>
    /\ crashed' = (crashed \/ closed)
    /\ UNCHANGED <<discoEnv, relisted, status, requestVars, dead, pipe, cache, done, listing, timer, closed,
                   found, nlist>>

\* The requests that gabble_disco_pipeline_destroy cancels.
PipelineRequests(q) == (q.array \cup {q.list}) \ {None}

\* stop_listing: the rooms found are announced, the pipeline is destroyed with
\* its requests (disco_items_cb and item_info_cb do not refill a pipeline that
\* is not running) and the timer removed; then the assertion is evaluated.
StopListing ==
    LET cancelled == PipelineRequests(pipe["rooms"])
    IN  /\ announced' = IF listing THEN announced \cup asked ELSE announced
        /\ asked' = IF listing THEN {} ELSE asked
        /\ listing' = FALSE
        /\ Delete(cancelled, {})
        /\ Told(cancelled, "cancelled")
        /\ pipe' = [pipe EXCEPT !["rooms"] = NoPipe]
        /\ timers' = timers \ {timer}
        /\ timer' = None
        /\ crashed' = (crashed \/ asked' # {})

\* StopListing over D-Bus, or Close and the dispose that follows it.
StopOrClose ==
    /\ status = "connected"
    /\ ~closed
    /\ StopListing
    /\ closed' \in BOOLEAN
    /\ UNCHANGED <<discoEnv, relisted, status, dead, cache, done, found, nlist>>

\* DISCONNECTED: the roomlist manager drops its channels, whose dispose stops
\* the listing; the IQs in flight will not be answered.
Disconnected ==
    /\ status \in {"connecting", "connected"}
    /\ status' = "disconnected"
    /\ StopListing
    /\ closed' = TRUE
    /\ UNCHANGED <<discoEnv, relisted, dead, cache, done, found, nlist>>

\* gabble_connection_dispose drops the last reference to the GabbleDisco.
DisposeStarts ==
    /\ status = "disconnected"
    /\ status' = "disposing"
    /\ UNCHANGED <<discoEnv, relisted, requestVars, dead, pipe, cache, done, channelVars, crashed>>

DiscoNext ==
    \/ Connected
    \/ ListRooms
    \/ StopOrClose
    \/ \E t \in timers : EmitRoomSignal(t)
    \/ \E o \in discoEnv.objects : ClientRequest(o) \/ ObjectDies(o)
    \/ \E r \in requests : ClientCancel(r) \/ Timeout(r)
    \/ \E s \in wire : LateReply(s) \/ \E r \in requests : DiscoReply(s, r)
    \/ Disconnected
    \/ DisposeStarts
    \/ DisposeCancels
    \/ DisposeEnds

DiscoSpec == DiscoInit /\ [][DiscoNext]_discoVars

\* GLib's timeouts fire, and a dispose that has begun runs to its end.
DiscoFairSpec ==
    /\ DiscoSpec
    /\ \A r \in UNION {1 .. n : n \in MaxReqs} : WF_discoVars(r \in requests /\ Timeout(r))
    /\ WF_discoVars(DisposeCancels)
    /\ WF_discoVars(DisposeEnds)

-----------------------------------------------------------------------------
(* Properties *)

(* ListRooms called again while rooms are being listed overwrites the      *)
(* pipeline's list_request and the channel's timer_source_id.  What        *)
(* follows about the room list holds as long as nobody has done that.      *)

\* No callback is given a pipeline that was destroyed, no assertion of
\* delete_request or stop_listing fails and no timer outlives the channel.
NoCrash == ~relisted => ~crashed

\* A pipeline knows exactly the requests that were made for it: every request
\* whose user_data it is will be cancelled with it, and the loop that cancels
\* them meets no request that is gone already.
PipelineOwnsItsRequests ==
    ~relisted => \A p \in Pipelines : OwnedBy(p) = PipelineRequests(pipe[p])

\* Every client is called back exactly once, except that a request whose bound
\* object died is dropped; whoever is still in the list was told nothing.
ToldOnce ==
    \A r \in DOMAIN req :
        /\ told[r] # "again"
        /\ r \in requests => told[r] = "nothing"
        /\ r \notin requests /\ told[r] = "nothing" => req[r].owner \in dead

\* "The callback will not be called if this object has been unrefed."
SilentAfterDeath ==
    [][\A r \in DOMAIN req : req[r].owner \in dead => told'[r] = told[r]]_discoVars

\* A pipeline never has more than DISCO_PIPELINE_SIZE info requests under way.
WindowBound == \A p \in Pipelines : Cardinality(pipe[p].array) <= PipelineSize

\* Every room that was found has been signalled, or will be by the timer, and
\* when ListingRooms(FALSE) is signalled nothing is left to be signalled.
NoRoomLost ==
    ~relisted => /\ found = announced \cup asked
                 /\ ~listing => asked = {}

\* A listing that was not stopped ends only when every item the server listed
\* has been queried and has answered or failed.
EndMeansComplete ==
    pipe["rooms"].alive /\ ~listing /\ ~relisted =>
        PipelineRequests(pipe["rooms"]) = {} /\ pipe["rooms"].remaining = {}

\* The GotRooms timer runs exactly while rooms are being listed.
TimerMatchesListing == ~relisted => timers = IF listing THEN {timer} ELSE {}

\* A listing ends even if no server ever answers: the timeouts drain it.
ListingEnds == listing ~> ~listing

\* Service discovery that was started comes to its "done" signal.
DiscoveryEnds == pipe["service"].alive ~> done

\* Requests: the state is well formed, no callback runs on freed memory, a request
\* of a pipeline is in its array as long as it is open, and every requester is
\* called at most once (delete_request, request_reply_cb).
RequestsSafe ==
    /\ DiscoTypeOK
    /\ NoCrash
    /\ PipelineOwnsItsRequests
    /\ ToldOnce

\* Room lists: the window of item queries holds, no room that was reported is lost,
\* the end of the listing comes when all items were queried, and the timer of
\* GotRooms runs exactly while rooms are listed (roomlist-channel.c).
ListingComplete ==
    /\ WindowBound
    /\ NoRoomLost
    /\ EndMeansComplete
    /\ TimerMatchesListing

\* The timeouts of all requests there can be are among the fair ones.
TimeoutsCovered == \E n \in MaxReqs : Len(req) <= n

\* Liveness: a listing and the discovery of services end although no server answers.
EverythingEnds ==
    /\ []TimeoutsCovered
    /\ ListingEnds
    /\ DiscoveryEnds

\* Every request is completed once, by whatever comes first, no callback meets freed
\* memory, the window holds, and a listing that says it is over has asked about
\* everything and announced what it found (disco.c, roomlist-channel.c).
DiscoSound == RequestsSafe /\ ListingComplete
=============================================================================
