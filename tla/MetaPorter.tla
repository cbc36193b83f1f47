----------------------------- MODULE MetaPorter -----------------------------
(* The meta-porter (wocky-meta-porter.c): one porter per contact, opened when it *)
(* is needed or when the contact connects, kept while somebody holds it, closed    *)
(* five seconds after nobody does; handlers belong to all porters they match.       *)
(* The porters themselves are module C2SPorter; here they open, close and fail.     *)
EXTENDS Naturals, Sequences, FiniteSets

CONSTANTS MetaScenes, Peers, MetaCalls, Handlers, MaxPorters   \* "self" is one of Peers

VARIABLES
  metaScene, \* what is called, what happens to connections
  mp,        \* PorterData of each contact, the handlers, the loopback and CloseAll
  porter,    \* every porter made: whose it is, its state and the handlers it has
  mcall,     \* the calls of send_async, send_iq_async and open_async
  knocking   \* contacts whose connection to us shakes hands

metaVars == <<metaScene, mp, porter, mcall, knocking>>

NoData == [there |-> FALSE, port |-> 0, refs |-> 0, timer |-> FALSE]
Unmade == [who |-> "none", state |-> "unused", why |-> "none", has |-> {}]

MetaInit ==
  /\ metaScene \in MetaScenes
  /\ mp = [data |-> [c \in Peers |-> NoData], on |-> [h \in Handlers |-> "none"],
           loop |-> IF metaScene.jid THEN "opening" ELSE "no jid", made |-> 0,
           closing |-> "no", failed |-> FALSE]
  /\ porter = [p \in 1..MaxPorters |-> Unmade]
  /\ mcall = [k \in MetaCalls |-> [kind |-> "none", who |-> "none", state |-> "idle", port |-> 0, ok |-> FALSE]]
  /\ knocking = {}

-----------------------------------------------------------------------------
\* wocky_meta_porter_hold: whoever holds a contact stops its timer.
HoldKeepsTimer(d) == [d EXCEPT !.there = TRUE, !.refs = @ + 1]
Hold(d) == [d EXCEPT !.there = TRUE, !.refs = @ + 1, !.timer = FALSE]

\* maybe_start_timeout
MaybeStartTimeout(d) == [d EXCEPT !.timer = @ \/ d.refs = 0]

\* wocky_meta_porter_unhold
Unhold(d) == IF d.there THEN MaybeStartTimeout([d EXCEPT !.refs = @ - 1]) ELSE d

\* register_porter_handlers
HandlersForAnyone(m, c) == {h \in Handlers : m.on[h] = "anyone"}
HandlersFor(m, c) == {h \in Handlers : m.on[h] \in {"anyone", c}}

\* create_porter: a contact that has one keeps it, and the new connection is closed.
CreatePorterAnew(m, c) ==
  LET p == m.made + 1
  IN [m EXCEPT !.made = p, !.data[c] = MaybeStartTimeout([@ EXCEPT !.there = TRUE, !.port = p])]
CreatePorter(m, c) ==
  IF m.data[c].port # 0 THEN m
  ELSE LET p == m.made + 1
       IN [m EXCEPT !.made = p, !.data[c] = MaybeStartTimeout([@ EXCEPT !.there = TRUE, !.port = p])]
MadeFor(m, c) ==
  IF m.made = mp.made THEN porter
  ELSE [porter EXCEPT ![m.made] = [who |-> c, state |-> "open", why |-> "none", has |-> HandlersFor(m, c)]]
RoomForOne == mp.made < MaxPorters

\* porter_closing_cb: the contact's data stays, without a porter.
LetGoNothing(m, p) == m
LetGo(m, p) == [m EXCEPT !.data = [c \in Peers |-> IF @[c].port = p THEN [@[c] EXCEPT !.port = 0] ELSE @[c]]]

-----------------------------------------------------------------------------
\* meta_porter_send_got_porter_cb, meta_porter_send_iq_got_porter_cb and
\* meta_porter_open_got_porter_cb: a call that opened a connection keeps its hold.
SendGotPorter(x, port) == [x EXCEPT !.state = "sending", !.port = port]
SendIqGotPorter(x, port) == [x EXCEPT !.state = "waiting", !.port = port]
OpenGotPorter(x, port) == [x EXCEPT !.state = "granted", !.port = port, !.ok = TRUE]
GotPorter(x, port) ==
  CASE x.kind = "send" -> SendGotPorter(x, port)
    [] x.kind = "iq" -> SendIqGotPorter(x, port)
    [] x.kind = "open" -> OpenGotPorter(x, port)
NoPorterStillHeld(m, k) == m
NoPorter(m, k) == IF mcall[k].kind = "send" THEN m ELSE [m EXCEPT !.data[mcall[k].who] = Unhold(@)]
Failed(k) == [mcall EXCEPT ![k].state = "answered", ![k].ok = FALSE]

\* open_porter_if_necessary
OpenPorterIfNecessary(m, k, kind, c) ==
  LET fresh == [kind |-> kind, who |-> c, state |-> "making", port |-> 0, ok |-> FALSE]
      port == m.data[c].port
  IN [mcall EXCEPT ![k] = IF port = 0 THEN fresh ELSE GotPorter(fresh, port)]

\* wocky_meta_porter_send_async holds nobody.
SendAsync(k, c) ==
  /\ mcall[k].state = "idle" /\ "send" \in metaScene.calls
  /\ mcall' = OpenPorterIfNecessary(mp, k, "send", c)
  /\ UNCHANGED <<metaScene, mp, porter, knocking>>

\* wocky_meta_porter_send_iq_async
SendIqAsync(k, c) ==
  /\ mcall[k].state = "idle" /\ "iq" \in metaScene.calls
  /\ mp' = [mp EXCEPT !.data[c] = Hold(@)]
  /\ mcall' = OpenPorterIfNecessary(mp', k, "iq", c)
  /\ UNCHANGED <<metaScene, porter, knocking>>

\* wocky_meta_porter_open_async
OpenAsync(k, c) ==
  /\ mcall[k].state = "idle" /\ "open" \in metaScene.calls
  /\ mp' = [mp EXCEPT !.data[c] = Hold(@)]
  /\ mcall' = OpenPorterIfNecessary(mp', k, "open", c)
  /\ UNCHANGED <<metaScene, porter, knocking>>

\* make_connection_cb: the stream's opening follows the connection.
ConnectionMade(k, ok) ==
  /\ mcall[k].state = "making"
  /\ mcall' = IF ok THEN [mcall EXCEPT ![k].state = "connecting"] ELSE Failed(k)
  /\ mp' = IF ok THEN mp ELSE NoPorter(mp, k)
  /\ UNCHANGED <<metaScene, porter, knocking>>

\* made_connection_connect_cb
MadeConnectionConnected(k, ok) ==
  LET c == mcall[k].who
      m == CreatePorter(mp, c)
  IN /\ mcall[k].state = "connecting" /\ (ok => RoomForOne)
     /\ mp' = IF ok THEN m ELSE NoPorter(mp, k)
     /\ porter' = IF ok THEN MadeFor(m, c) ELSE porter
     /\ mcall' = IF ok THEN [mcall EXCEPT ![k] = GotPorter(@, m.data[c].port)] ELSE Failed(k)
     /\ UNCHANGED <<metaScene, knocking>>

\* _new_connection, new_connection_connect_cb: the contact is known by the stream's
\* from, or by the address it comes from, or not at all.
NewConnection(c) ==
  /\ "incoming" \in metaScene.happens /\ c \notin knocking /\ RoomForOne
  /\ knocking' = knocking \cup {c}
  /\ UNCHANGED <<metaScene, mp, porter, mcall>>
NewConnectionConnected(c, known) ==
  LET m == CreatePorter(mp, c)
  IN /\ c \in knocking /\ (known => RoomForOne)
     /\ knocking' = knocking \ {c}
     /\ mp' = IF known THEN m ELSE mp
     /\ porter' = IF known THEN MadeFor(m, c) ELSE porter
     /\ UNCHANGED <<metaScene, mcall>>

\* wocky_meta_porter_set_jid; create_loopback_porter, loopback_sent_open_cb and
\* loopback_recv_open_cb: the porter to ourselves is held for good.
SetJid ==
  /\ mp.loop = "no jid"
  /\ mp' = [mp EXCEPT !.loop = "opening"]
  /\ UNCHANGED <<metaScene, porter, mcall, knocking>>
LoopbackOpened(ok) ==
  LET m == CreatePorter(mp, "self")
  IN /\ mp.loop = "opening" /\ (ok => RoomForOne)
     /\ mp' = IF ok THEN [m EXCEPT !.data["self"] = Hold(@), !.loop = "held"] ELSE [mp EXCEPT !.loop = "failed"]
     /\ porter' = IF ok THEN MadeFor(m, "self") ELSE porter
     /\ UNCHANGED <<metaScene, mcall, knocking>>

-----------------------------------------------------------------------------
\* meta_porter_send_cb: a porter told to close sends first what was given to it.
Flushed(p) == \A k \in MetaCalls : ~(mcall[k].state = "sending" /\ mcall[k].port = p)
MessageSent(k, ok) ==
  /\ mcall[k].state = "sending"
  /\ ~ok => porter[mcall[k].port].state # "open" /\ porter[mcall[k].port].why # "timer"
  /\ ok => porter[mcall[k].port].state # "gone"
  /\ mcall' = [mcall EXCEPT ![k].state = "answered", ![k].ok = ok]
  /\ UNCHANGED <<metaScene, mp, porter, knocking>>

\* meta_porter_send_iq_cb: the answer, or the end of the porter, ends the hold.
IqAnswered(k, ok) ==
  /\ mcall[k].state = "waiting"
  /\ ok => porter[mcall[k].port].state # "gone"
  /\ ~ok => porter[mcall[k].port].state # "open"
  /\ mp' = [mp EXCEPT !.data[mcall[k].who] = Unhold(@)]
  /\ mcall' = [mcall EXCEPT ![k].state = "answered", ![k].ok = ok]
  /\ UNCHANGED <<metaScene, porter, knocking>>

\* the caller of open_async no longer needs the contact
Release(k) ==
  /\ mcall[k].state = "granted"
  /\ mp' = [mp EXCEPT !.data[mcall[k].who] = Unhold(@)]
  /\ mcall' = [mcall EXCEPT ![k].state = "answered"]
  /\ UNCHANGED <<metaScene, porter, knocking>>

\* porter_timeout_cb: the data leaves the table, then its porter closes.
PorterTimeout(c) ==
  LET p == mp.data[c].port
  IN /\ mp.data[c].timer
     /\ mp' = [mp EXCEPT !.data[c] = NoData]
     /\ porter' = IF p = 0 THEN porter ELSE [porter EXCEPT ![p].state = "closing", ![p].why = "timer"]
     /\ UNCHANGED <<metaScene, mcall, knocking>>

\* porter_remote_closed_cb, porter_remote_error_cb
RemoteCloses(p, how) ==
  /\ how \in metaScene.happens /\ porter[p].state = "open"
  /\ mp' = LetGo(mp, p)
  /\ porter' = IF how = "remote closed" THEN [porter EXCEPT ![p].state = "gone", ![p].why = how]
               ELSE [porter EXCEPT ![p].state = "closing", ![p].why = how]
  /\ UNCHANGED <<metaScene, mcall, knocking>>

\* close_all_porters, of wocky_meta_porter_close_async and _force_close_async: only
\* porters that are there are closed and counted.
Closable(m) == {m.data[c].port : c \in Peers} \ {0}
CloseAll ==
  /\ "close" \in metaScene.happens /\ mp.closing = "no"
  /\ LET ps == Closable(mp)
     IN /\ mp' = [mp EXCEPT !.data = [c \in Peers |-> [@[c] EXCEPT !.port = 0]],
                            !.closing = IF ps = {} THEN "closed" ELSE "closing"]
        /\ porter' = [p \in 1..MaxPorters |-> IF p \in ps THEN [porter[p] EXCEPT !.state = "closing", !.why = "all"] ELSE porter[p]]
  /\ UNCHANGED <<metaScene, mcall, knocking>>

\* porter_closed_cb, porter_close_cb: the call is answered after the last of them.
LastClosedEarly(p) == TRUE
LastClosed(p) == \A q \in 1..MaxPorters : porter[q].why = "all" /\ porter[q].state = "closing" => q = p
PorterClosed(p, ok) ==
  /\ porter[p].state = "closing" /\ (porter[p].why = "timer" => Flushed(p))
  /\ porter' = [porter EXCEPT ![p].state = "gone"]
  /\ mp' = IF porter[p].why # "all" THEN mp
           ELSE [mp EXCEPT !.failed = @ \/ ~ok, !.closing = IF LastClosed(p) THEN "closed" ELSE @]
  /\ UNCHANGED <<metaScene, mcall, knocking>>

-----------------------------------------------------------------------------
\* wocky_meta_porter_register_handler_from_by_stanza, _from_anyone_by_stanza: at the
\* porters there are; create_porter sees to the ones to come.
RegisterAt(h, c) ==
  [p \in 1..MaxPorters |->
     IF p \in Closable(mp) /\ c \in {"anyone", porter[p].who} THEN [porter[p] EXCEPT !.has = @ \cup {h}] ELSE porter[p]]
RegisterHandler(h, c) ==
  /\ "handlers" \in metaScene.happens /\ mp.on[h] = "none"
  /\ mp' = [mp EXCEPT !.on[h] = c]
  /\ porter' = RegisterAt(h, c)
  /\ UNCHANGED <<metaScene, mcall, knocking>>

\* wocky_meta_porter_unregister_handler, free_handler
FreeHandlerHere(h) == [p \in 1..MaxPorters |-> IF p \in Closable(mp) THEN [porter[p] EXCEPT !.has = @ \ {h}] ELSE porter[p]]
FreeHandler(h) == [p \in 1..MaxPorters |-> [porter[p] EXCEPT !.has = @ \ {h}]]
UnregisterHandler(h) ==
  /\ mp.on[h] # "none"
  /\ mp' = [mp EXCEPT !.on[h] = "none"]
  /\ porter' = FreeHandler(h)
  /\ UNCHANGED <<metaScene, mcall, knocking>>

MetaNext ==
  \/ \E k \in MetaCalls :
       \/ \E c \in metaScene.peers : SendAsync(k, c) \/ SendIqAsync(k, c) \/ OpenAsync(k, c)
       \/ \E ok \in BOOLEAN : ConnectionMade(k, ok) \/ MadeConnectionConnected(k, ok) \/ MessageSent(k, ok) \/ IqAnswered(k, ok)
       \/ Release(k)
  \/ \E c \in metaScene.peers :
       NewConnection(c) \/ PorterTimeout(c) \/ (\E known \in BOOLEAN : NewConnectionConnected(c, known))
  \/ SetJid
  \/ \E ok \in BOOLEAN : LoopbackOpened(ok)
  \/ \E p \in 1..MaxPorters :
       \/ \E how \in {"remote closed", "remote error"} : RemoteCloses(p, how)
       \/ \E ok \in BOOLEAN : PorterClosed(p, ok)
  \/ CloseAll
  \/ \E h \in Handlers : UnregisterHandler(h) \/ (\E c \in metaScene.peers \cup {"anyone"} : RegisterHandler(h, c))

-----------------------------------------------------------------------------
\* A contact is held as often as somebody needs it: calls under way, connections that
\* were asked for, the loopback.  Held, its timer is stopped; not held, it runs, so
\* that no connection stays for good (wocky_meta_porter_hold, maybe_start_timeout).
Holders(c) ==
  {k \in MetaCalls : mcall[k].who = c /\ mcall[k].kind # "send"
                     /\ mcall[k].state \in {"making", "connecting", "waiting", "granted"}}
HoldsCounted ==
  \A c \in Peers :
    LET d == mp.data[c]
    IN /\ d.refs = Cardinality(Holders(c)) + (IF c = "self" /\ mp.loop = "held" THEN 1 ELSE 0)
       /\ d.refs > 0 => d.there /\ ~d.timer
       /\ d.there /\ d.refs = 0 => d.timer

\* The idle timer never closes a porter that an IQ still waits on (porter_timeout_cb).
UsedPortersStay ==
  \A k \in MetaCalls : mcall[k].state = "waiting" => porter[mcall[k].port].why # "timer"

\* An open porter is its contact's, and a contact has only one: none is forgotten open
\* (create_porter, porter_closing_cb).
PortersListed ==
  /\ \A p \in 1..MaxPorters : porter[p].state = "open" => mp.data[porter[p].who].port = p
  /\ \A c \in Peers : mp.data[c].port # 0 => porter[mp.data[c].port].state = "open" /\ porter[mp.data[c].port].who = c

\* Whoever registered a handler hears every porter it matches, whichever came first,
\* and hears none once it is unregistered (register_porter_handler, free_handler).
HandlersEverywhere ==
  \A p \in 1..MaxPorters, h \in Handlers :
    /\ porter[p].state = "open" => (h \in porter[p].has <=> mp.on[h] \in {"anyone", porter[p].who})
    /\ mp.on[h] = "none" => h \notin porter[p].has

\* Closing is answered exactly when every porter it closed has closed
\* (close_all_porters, porter_close_cb).
CloseAnswered ==
  mp.closing = "closing" <=> \E p \in 1..MaxPorters : porter[p].why = "all" /\ porter[p].state = "closing"

MetaSound == HoldsCounted /\ UsedPortersStay /\ PortersListed /\ HandlersEverywhere /\ CloseAnswered
=============================================================================
