----------------------------- MODULE OwnPresence -----------------------------
(* The user's own presence (conn-presence.c): what the client asks for, how the *)
(* connection makes the user invisible -- a privacy list, the invisible command, *)
(* Google's shared status or an invisible presence -- and what contacts see.     *)
(* Stanzas to the server and its answers are two queues; results the code        *)
(* completes in an idle callback wait in `idle'.                                  *)
EXTENDS Naturals, Sequences

CONSTANTS PresenceScenes

VARIABLES
  presenceScene, \* features, what the server refuses, what the client asks for
  me,            \* GabbleConnectionPresencePrivate and self_presence
  toHost,        \* stanzas on their way to the server
  fromHost,      \* its answers and pushes
  idle,          \* results to be completed in an idle callback
  host,          \* the server: lists, what is active, what contacts see
  asksLeft, others \* calls of the client, actions of the user's other clients

presenceVars == <<presenceScene, me, toHost, fromHost, idle, host, asksLeft, others>>

Hidden == "hidden"
\* Statuses a client may request (those from HIDDEN on), CHAT left out.
Statuses == {Hidden, "dnd", "away", "available"}
Away(st) == st = "away"
Nobody == [st |-> "none", msg |-> 0]

\* One turn of the connection: its state, what it sends and what it defers.
Turn == [me |-> me, out |-> toHost, idle |-> idle]
Commit(s) == me' = s.me /\ toHost' = s.out /\ idle' = s.idle

Send(s, x) == [s EXCEPT !.out = Append(@, x)]
Iq(s, op, arg, k) ==
  Send(s, [op |-> op, st |-> s.me.st, msg |-> s.me.msg, known |-> s.me.statuses, arg |-> arg, k |-> k])
Defer(s, k, ok) == [s EXCEPT !.idle = Append(@, [k |-> k, ok |-> ok])]

\* emit_presences_changed_for_self, with construct_contact_statuses_cb
Tell(s) == [s EXCEPT !.me.told = [st |-> s.me.st, msg |-> s.me.msg]]

\* conn_presence_signal_own_presence: hidden goes out as plain availability
\* unless the server takes invisible presences.
SignalOwnPresence(s) ==
  Iq(s, IF s.me.st # Hidden THEN "presence"
        ELSE IF s.me.method = "presence" THEN "presence invisible" ELSE "presence plain",
     "none", "none")

-----------------------------------------------------------------------------
\* activate_current_privacy_list: unavailable goes out before the list that hides.
ActivateList(s, k) ==
  LET list == IF s.me.st = Hidden THEN s.me.hidden ELSE "none"
  IN IF s.me.status = "connected" /\ s.me.st = Hidden
     THEN Iq(Iq(s, "unavailable", "none", "none"), "activate", list, k)
     ELSE IF list = "none" /\ s.me.status # "connected"
     THEN Defer(SignalOwnPresence(s), k, TRUE)
     ELSE Iq(s, "activate", list, k)

\* set_xep0186_invisible
SetInvisible(s, k) ==
  IF s.me.st = Hidden \/ s.me.status = "connected"
  THEN Iq(s, IF s.me.st = Hidden THEN "invisible" ELSE "visible", "none", k)
  ELSE IF s.me.loaded THEN ActivateList(s, k)
  ELSE Defer(SignalOwnPresence(s), k, TRUE)

InsertStatusUnbounded(s) ==
  IF s.me.msg = 0 \/ Away(s.me.st) THEN s
  ELSE LET show == IF s.me.st = "dnd" THEN "dnd" ELSE "default"
       IN [s EXCEPT !.me.statuses[show] = <<s.me.msg>> \o @]

\* insert_presence_to_shared_statuses: the newest first, at most `max' of them
InsertStatus(s) ==
  IF s.me.msg = 0 \/ Away(s.me.st) THEN s
  ELSE LET show == IF s.me.st = "dnd" THEN "dnd" ELSE "default"
           old == s.me.statuses[show]
           n == IF old = <<>> \/ s.me.max > Len(old) THEN Len(old) ELSE s.me.max - 1
       IN [s EXCEPT !.me.statuses[show] = <<s.me.msg>> \o SubSeq(old, 1, n)]

\* set_shared_status: away is a plain presence, everything else a shared status.
SetSharedAwayFirst(s, k) ==
  IF Away(s.me.st)
  THEN Defer(LET t == Tell(SignalOwnPresence(s)) IN [t EXCEPT !.me.prev = t.me.st], k, TRUE)
  ELSE Iq(InsertStatus(s), "set shared", "none", k)
SetShared(s, k) ==
  IF ~Away(s.me.st) \/ s.me.prev = Hidden
  THEN LET t == IF s.me.st = Hidden /\ ~s.me.compat THEN [s EXCEPT !.me.st = "dnd"] ELSE s
       IN Iq(InsertStatus(t), "set shared", "none", k)
  ELSE Defer(LET t == Tell(SignalOwnPresence(s)) IN [t EXCEPT !.me.prev = t.me.st], k, TRUE)

\* toggle_presence_visibility_async
ToggleVisibility(s, k) ==
  CASE s.me.method = "shared" -> SetShared(s, k)
    [] s.me.method = "command" -> SetInvisible(s, k)
    [] s.me.method = "privacy" -> ActivateList(s, k)
    [] OTHER ->
        LET t == IF s.me.method = "none" /\ s.me.st = Hidden THEN [s EXCEPT !.me.st = "dnd"] ELSE s
        IN Defer(SignalOwnPresence(t), k, TRUE)

Dnd(s) == SignalOwnPresence([s EXCEPT !.me.st = "dnd"])

\* toggle_presence_visibility_cb: a change that failed shows the user as busy.
VisibilityToggledQuiet(s, ok) == Tell(IF ok THEN s ELSE [s EXCEPT !.me.st = "dnd"])
VisibilityToggled(s, ok) == Tell(IF ok THEN s ELSE Dnd(s))

\* toggle_initial_presence_visibility_cb; its result is the set-up of the list, the
\* initial presence, or nobody's when another client changed the list.
InitialToggled(s, k, ok) ==
  LET t == IF ok THEN s ELSE Dnd(s)
  IN IF k = "push" THEN t ELSE Defer(t, IF k = "setup" THEN "register" ELSE "connected", TRUE)

\* shared_status_toggle_initial_presence_visibility_cb
SharedInitialToggled(s, ok) ==
  Defer(IF ok /\ ~Away(s.me.st) THEN SignalOwnPresence(s) ELSE s, "connected", ok)

\* initial_presence_setup_cb: changes of the list are heard from now on.
ListSetUp(s) ==
  Defer(IF s.me.method = "privacy" THEN [s EXCEPT !.me.listens = TRUE] ELSE s, "connected", TRUE)

\* connection_initial_presence_cb, and connection_status_changed_cb
InitialPresenceSet(s, ok) ==
  IF ok THEN Tell([s EXCEPT !.me.status = "connected"]) ELSE [s EXCEPT !.me.status = "gone"]

\* A result is complete: its callback runs.
Complete(s, k, ok) ==
  CASE k \in {"initial", "setup", "push"} -> InitialToggled(s, k, ok)
    [] k = "shared initial" -> SharedInitialToggled(s, ok)
    [] k = "set" -> VisibilityToggled(s, ok)
    [] k = "shared set" -> Tell(s)
    [] k = "register" -> ListSetUp(s)
    [] k = "connected" -> InitialPresenceSet(s, ok)
    [] OTHER -> s

-----------------------------------------------------------------------------
\* disable_invisible_privacy_list
DisableList(s) ==
  [s EXCEPT !.me.method = IF @ # "privacy" THEN @
                          ELSE IF "presence" \in presenceScene.features THEN "presence" ELSE "none"]

\* setup_invisible_privacy_list_async
SetUpList(s, k) ==
  LET name == IF s.me.name = "none" THEN "invisible" ELSE s.me.name
  IN Iq([s EXCEPT !.me.name = name], "get list", name, k)

\* create_invisible_privacy_list_async
CreateList(s, k) == Iq(s, "create", s.me.name, k)

\* create_invisible_privacy_list_cb
ListCreated(s, k, ok) ==
  LET t == IF ok THEN s ELSE DisableList(s)
  IN ToggleVisibility([t EXCEPT !.me.hidden = t.me.name], k)

\* is_valid_invisible_list: the top item denies presence-out to everybody.
ValidList(list) == list = "good"

\* verify_invisible_privacy_list_cb: a list of the user's own is left alone.
ListVerified(s, k, list) ==
  CASE list = "refused" -> ToggleVisibility(DisableList(s), k)
    [] list = "absent" -> CreateList(s, k)
    [] ValidList(list) -> ToggleVisibility([s EXCEPT !.me.hidden = s.me.name], k)
    [] OTHER -> CreateList([s EXCEPT !.me.name = "invisible-gabble"], k)

\* get_existing_privacy_lists_cb
ExistingLists(s, ok) ==
  IF ~ok THEN s
  ELSE [s EXCEPT !.me.loaded = TRUE, !.me.name = s.me.hidden, !.me.method = IF @ = "none" THEN "privacy" ELSE @]

\* privacy_lists_loaded_cb
ListsLoaded(s, ok) ==
  LET t == ExistingLists(s, ok)
  IN IF t.me.method = "privacy" THEN SetUpList(t, "setup") ELSE ToggleVisibility(t, "initial")

\* The status that a shared status makes of ours.
SharedChoice(s, x) ==
  IF x.inv THEN IF x.compat THEN Hidden ELSE "dnd"
  ELSE IF x.show = "dnd" THEN "dnd"
  ELSE IF s.me.st \in {"dnd", Hidden} THEN "available" ELSE s.me.st

StoreSharedAway(s, x) ==
  LET t == [s EXCEPT !.me.statuses = x.known, !.me.compat = x.compat]
  IN IF s.me.status # "connected" THEN t ELSE [t EXCEPT !.me.st = SharedChoice(s, x), !.me.msg = x.msg]

\* store_shared_statuses: the lists and what the other clients understand are replaced
\* at every push; the status they chose becomes the user's, unless away.
StoreShared(s, x) ==
  LET t == [s EXCEPT !.me.statuses = x.known, !.me.compat = x.compat]
  IN IF s.me.status # "connected" \/ Away(s.me.st) THEN t
     ELSE [t EXCEPT !.me.st = SharedChoice(s, x), !.me.msg = x.msg]

\* iq_shared_status_changed_cb: told before CONNECTED and whenever ours has changed.
SharedPushed(s, x) ==
  LET t == StoreShared(s, x)
      tells == s.me.status # "connected" \/ <<t.me.st, t.me.msg>> # <<s.me.st, s.me.msg>>
  IN IF ~s.me.listens THEN s ELSE IF tells THEN Tell(t) ELSE t

\* iq_privacy_list_push_cb
ListPushed(s, name) == IF s.me.listens /\ name = s.me.name THEN SetUpList(s, "push") ELSE s

\* get_shared_status_cb
SharedStatus(s, ok, x) ==
  IF ok THEN [StoreShared(s, x) EXCEPT !.me.method = "shared", !.me.shared = TRUE, !.me.listens = TRUE] ELSE s

\* shared_status_setup_cb
SharedLoaded(s, ok, x) == ToggleVisibility(SharedStatus(s, ok, x), "shared initial")

\* set_shared_status_cb
SharedSet(s, k, ok) ==
  LET signals == Away(s.me.prev) \/ (s.me.prev = Hidden /\ Away(s.me.st))
      t == IF signals THEN SignalOwnPresence(s) ELSE s
      u == IF ~Away(s.me.prev) /\ signals THEN Tell(t) ELSE t
  IN Complete(IF ok THEN [u EXCEPT !.me.prev = u.me.st] ELSE s, k, ok)

\* activate_current_privacy_list_cb
ListActivated(s, k, ok) == Complete(IF ok THEN Tell(SignalOwnPresence(s)) ELSE s, k, ok)

\* set_xep0186_invisible_cb
InvisibleSet(s, k, ok) == Complete(IF ok THEN SignalOwnPresence(s) ELSE s, k, ok)

\* conn_presence_set_initial_presence_async
StartPresence(s) ==
  LET t == IF "command" \in presenceScene.features THEN [s EXCEPT !.me.method = "command"] ELSE s
  IN IF "shared" \in presenceScene.features THEN Iq(t, "get shared", "none", "none")
     ELSE Iq(t, "lists", "none", "none")

\* conn_presence_init
PresenceInit ==
  /\ presenceScene \in PresenceScenes
  /\ LET s == StartPresence(
                [me |-> [st |-> presenceScene.st, msg |-> 0, told |-> Nobody, status |-> "connecting",
                         method |-> "none", loaded |-> FALSE, hidden |-> "none", name |-> "invisible", listens |-> FALSE,
                         shared |-> FALSE, compat |-> FALSE, prev |-> "unknown",
                         statuses |-> [x \in {"dnd", "default"} |-> <<>>], max |-> presenceScene.max],
                 out |-> <<>>, idle |-> <<>>])
     IN me = s.me /\ toHost = s.out /\ idle = s.idle
  /\ fromHost = <<>>
  /\ host = [lists |-> presenceScene.lists, active |-> "none", cmd |-> FALSE, seen |-> Nobody,
             pres |-> Nobody, google |-> FALSE, show |-> "default", inv |-> FALSE, msg |-> 0,
             compat |-> presenceScene.compat, known |-> presenceScene.known, by |-> "us", crossed |-> FALSE]
  /\ asksLeft = presenceScene.asks /\ others = presenceScene.others

-----------------------------------------------------------------------------
\* Nothing is under way.
Settled == me.status = "connected" /\ toHost = <<>> /\ fromHost = <<>> /\ idle = <<>>

\* status_available_cb
StatusAvailable(st) ==
  me.status = "connected" /\ st = Hidden => me.method # "none"

\* The server has yet to say how the user can be hidden: what is asked for until
\* then is what the initial presence will be.
Undecided ==
  LET early == {"lists", "get list", "create", "get shared"}
  IN me.status = "connecting" /\
     ((toHost # <<>> /\ Head(toHost).op \in early) \/ (fromHost # <<>> /\ Head(fromHost).op \in early))

\* set_own_status_cb: only entering or leaving invisibility takes the long way.
SetOwnStatus ==
  \E st \in presenceScene.wants, msg \in 0..1 :
    LET s == [Turn EXCEPT !.me.st = st, !.me.msg = msg]
    IN /\ asksLeft > 0 /\ (Undecided \/ me.status = "connected")
       /\ presenceScene.patient => Undecided \/ Settled
       /\ StatusAvailable(st) /\ <<st, msg>> # <<me.st, me.msg>>
       /\ asksLeft' = asksLeft - 1
       /\ Commit(IF me.status # "connected" THEN s
                 ELSE IF st # me.st /\ Hidden \in {st, me.st} THEN ToggleVisibility(s, "set")
                 ELSE IF me.loaded THEN ActivateList(s, "silent")
                 ELSE IF me.shared THEN SetShared(s, "shared set")
                 ELSE Tell(SignalOwnPresence(s)))
       /\ UNCHANGED <<presenceScene, fromHost, host, others>>

\* A result completes in an idle callback.
RunIdle ==
  /\ idle # <<>>
  /\ Commit(Complete([Turn EXCEPT !.idle = Tail(@)], Head(idle).k, Head(idle).ok))
  /\ UNCHANGED <<presenceScene, fromHost, host, asksLeft, others>>

\* An answer or a push of the server.
Answer ==
  LET x == Head(fromHost)
      s == Turn
  IN /\ fromHost # <<>>
     /\ fromHost' = Tail(fromHost)
     /\ Commit(CASE x.op = "lists" -> ListsLoaded([s EXCEPT !.me.hidden = "none"], x.ok)
                 [] x.op = "get list" -> ListVerified(s, x.k, x.list)
                 [] x.op = "create" -> ListCreated(s, x.k, x.ok)
                 [] x.op = "activate" -> ListActivated(s, x.k, x.ok)
                 [] x.op \in {"invisible", "visible"} -> InvisibleSet(s, x.k, x.ok)
                 [] x.op = "get shared" -> SharedLoaded(s, x.ok, x.shared)
                 [] x.op = "set shared" -> SharedSet(s, x.k, x.ok)
                 [] x.op = "list push" -> ListPushed(s, x.k)
                 [] OTHER -> SharedPushed(s, x.shared))
     /\ UNCHANGED <<presenceScene, host, asksLeft, others>>

-----------------------------------------------------------------------------
\* The server: what contacts see follows from what is broadcast to them.
Blocks(h) == h.active # "none" /\ h.lists[h.active] = "good"

\* Google's server shows the shared status, or the session's own when it is away.
SharedView(h) ==
  IF h.inv \/ h.pres = Nobody THEN Nobody
  ELSE IF Away(h.pres.st) THEN h.pres
  ELSE [st |-> IF h.show = "dnd" THEN "dnd" ELSE "available", msg |-> h.msg]

Broadcast(h, p) ==
  LET g == [h EXCEPT !.pres = p]
  IN IF h.google THEN [g EXCEPT !.seen = SharedView(g)]
     ELSE IF Blocks(g) \/ g.cmd THEN g ELSE [g EXCEPT !.seen = p]

HostDoes(h, x) ==
  CASE x.op = "presence" -> Broadcast(h, [st |-> x.st, msg |-> x.msg])
    [] x.op = "presence plain" -> Broadcast(h, [st |-> "available", msg |-> x.msg])
    [] x.op \in {"presence invisible", "unavailable"} -> Broadcast(h, Nobody)
    [] x.op = "create" -> [h EXCEPT !.lists[x.arg] = "good"]
    [] x.op = "activate" -> [h EXCEPT !.active = x.arg]
    [] x.op = "invisible" -> [h EXCEPT !.cmd = TRUE, !.seen = Nobody]
    [] x.op = "visible" -> [h EXCEPT !.cmd = FALSE]
    [] x.op = "get shared" -> [h EXCEPT !.google = TRUE]
    [] x.op = "set shared" ->
         LET g == [h EXCEPT !.inv = x.st = Hidden, !.show = IF x.st = "dnd" THEN "dnd" ELSE "default", !.msg = x.msg,
                              !.known = x.known, !.by = "us"]
         IN [g EXCEPT !.seen = SharedView(g)]
    [] OTHER -> h

\* What the server says of the shared status, in its answer and in its pushes.
SharedNow(h) == [inv |-> h.inv, show |-> h.show, msg |-> h.msg, compat |-> h.compat, known |-> h.known]

IsIq(op) == op \notin {"presence", "presence plain", "presence invisible", "unavailable"}

HostTakes ==
  LET x == Head(toHost)
      ok == x.op \notin presenceScene.refuses \/ (x.op = "activate" /\ x.arg = "none")
      list == IF ~ok THEN "refused" ELSE IF x.op = "get list" THEN host.lists[x.arg] ELSE "good"
  IN /\ toHost # <<>>
     /\ toHost' = Tail(toHost)
     /\ host' = IF ok THEN HostDoes(host, x) ELSE host
     /\ fromHost' = IF ~IsIq(x.op) THEN fromHost
                    ELSE Append(fromHost, [op |-> x.op, k |-> x.k, ok |-> ok, list |-> list, shared |-> SharedNow(host)])
     /\ UNCHANGED <<presenceScene, me, idle, asksLeft, others>>

\* Another client of the user edits the list of invisibility.
OtherEditsList ==
  /\ others > 0 /\ me.status = "connected" /\ "list" \in presenceScene.meddles
  /\ others' = others - 1
  /\ host' = [host EXCEPT !.lists["invisible"] = "bad"]
  /\ fromHost' = Append(fromHost, [op |-> "list push", k |-> "invisible", ok |-> TRUE, list |-> "none", shared |-> SharedNow(host)])
  /\ UNCHANGED <<presenceScene, me, toHost, idle, asksLeft>>

\* Another client of the user sets the shared status, the one of an older version
\* among them; when we are setting it too, the two cross.
OtherSetsShared ==
  \E show \in {"dnd", "default"}, inv \in BOOLEAN, compat \in presenceScene.compats, known \in presenceScene.knowns :
    LET h == [host EXCEPT !.inv = inv, !.show = show, !.msg = 0, !.compat = compat, !.known = known,
                          !.by = "other", !.crossed = @ \/ ~Settled]
    IN /\ others > 0 /\ host.google /\ me.status # "gone" /\ "shared" \in presenceScene.meddles
       /\ others' = others - 1
       /\ host' = [h EXCEPT !.seen = SharedView(h)]
       /\ fromHost' = Append(fromHost, [op |-> "shared push", k |-> "none", ok |-> TRUE, list |-> "none",
                                        shared |-> SharedNow(h)])
       /\ UNCHANGED <<presenceScene, me, toHost, idle, asksLeft>>

PresenceNext == SetOwnStatus \/ RunIdle \/ Answer \/ HostTakes \/ OtherEditsList \/ OtherSetsShared

-----------------------------------------------------------------------------
\* Another client hid the user while we were away, which is ours alone, or meant to
\* go away before we heard how we had been hidden; or not every client can be hidden,
\* and ours calls it busy (conn-presence.c:424, 860, 880).
HiddenElsewhere ==
  host.by = "other" /\ host.inv /\ (Away(me.told.st) \/ (me.told.st = "dnd" /\ ~me.compat))

\* When nothing is under way, contacts see what the client was told the user shows:
\* nothing when hidden, and otherwise that very status; what other clients choose
\* is followed, unless it crossed a choice of ours (conn-presence.c).
PresenceAsTold ==
  Settled /\ ~host.crossed =>
    \/ host.seen = IF me.told.st = Hidden THEN Nobody ELSE me.told
    \/ HiddenElsewhere

\* The lists of remembered statuses keep to the server's limit (conn-presence.c:379).
StatusesBounded == \A show \in {"dnd", "default"} : Len(me.statuses[show]) <= me.max

\* A client that asked for invisibility before connecting is at no moment seen,
\* unless the connection gave it up for busy or another client shows it
\* (conn-presence.c:1352).
HiddenFromTheStart ==
  me.status = "connecting" /\ me.st = Hidden /\ ~host.crossed => host.seen = Nobody
=============================================================================
