---------------------------- MODULE SiBytestream ----------------------------
(* A bytestream negotiated with stream initiation, between an initiator "a"  *)
(* and a target "b" that both run this code: the factory's SI handlers       *)
(* (bytestream-factory.c), a SOCKS5 bytestream (bytestream-socks5.c), and    *)
(* the one that falls back to the next method (bytestream-multiple.c).  In   *)
(* band there is only the opening: the rest is in module BytestreamIBB.      *)
(* Sockets keep the order of what is written; a proxy is external.  At the   *)
(* end, on its own: the factory's pool of proxies.                           *)
EXTENDS Naturals, Sequences, SequencesExt

CONSTANTS
  SiWorlds,        \* what a behaviour may meet: see siWorld
  MaxChunks        \* bound: chunks that the user of an end may send

VARIABLES
  e,               \* [x]: the bytestream at end x, see NoEnd
  post,            \* [x]: stanzas on their way to x
  wire,            \* [h]: what is on its way on the connection over streamhost h
  siWorld          \* a member of SiWorlds: it never changes

siVars == <<e, post, wire, siWorld>>

Ends == {"a", "b"}
Other(x) == IF x = "a" THEN "b" ELSE "a"
Hosts == 1 .. 3

\* top: the state the user sees; left: fallback_stream_methods; bs: the state of
\* the bytestream of a method; s5, timer, hosts: the SOCKS5 state, whether the
\* timer runs, the streamhosts to try; ask: msg_for_acknowledge_connection; conn:
\* the streamhost of the transport; buf: read_buffer; blocked: the transport does
\* not read; out: what it has not written; got: what the user was given.
NoEnd ==
  [top |-> "NONE", multi |-> FALSE, left |-> <<>>, active |-> "none",
   bs |-> [k \in {"socks5", "ibb"} |-> "NONE"], s5 |-> "INVALID", timer |-> FALSE, hosts |-> <<>>,
   ask |-> FALSE, conn |-> 0, buf |-> FALSE, listening |-> FALSE, blocked |-> FALSE, readBlocked |-> FALSE,
   proxy |-> 0, out |-> <<>>, wblocked |-> FALSE, sent |-> 0, got |-> <<>>, early |-> FALSE, crashed |-> FALSE]

SiInit ==
  /\ siWorld \in SiWorlds
  /\ e = [x \in Ends |-> [NoEnd EXCEPT !.multi = siWorld.multi]]
  /\ post = [x \in Ends |-> IF x = "b" THEN <<[t |-> "si"]>> ELSE <<>>]
  /\ wire = [h \in Hosts |-> [to |-> [x \in Ends |-> <<>>], up |-> {}, held |-> <<>>, activated |-> FALSE]]

\* What an end does: its new state, what it sends, and what it does to sockets.
Doing(n) == [n |-> n, say |-> <<>>, net |-> <<>>]
Saying(d, s) == [d EXCEPT !.say = Append(@, s)]
Netting(d, s) == [d EXCEPT !.net = Append(@, s)]

-----------------------------------------------------------------------------
(* State of the bytestreams.                                                 *)

\* socks5_close_transport.
CloseTransport(d) ==
  IF d.n.conn = 0 THEN [d EXCEPT !.n.buf = FALSE]
  ELSE [Netting(d, [op |-> "close", h |-> d.n.conn]) EXCEPT
          !.n.conn = 0, !.n.buf = FALSE, !.n.blocked = FALSE, !.n.out = <<>>]

\* The state of a bytestream is that of the whole while it is the active one.  The
\* factory and the user drop one that is closed, and it is disposed of.
SetBytestream(d, k, state) ==
  LET n == [d.n EXCEPT !.bs[k] = state, !.top = IF ~d.n.multi \/ d.n.active = k THEN state ELSE @]
  IN  IF state = "CLOSED" /\ k = "socks5"
      THEN [CloseTransport([d EXCEPT !.n = n]) EXCEPT !.n.timer = FALSE, !.n.listening = FALSE, !.n.s5 = "INVALID"]
      ELSE [d EXCEPT !.n = n]

\* gabble_bytestream_factory_create_from_method.
Create(d, k, state) == SetBytestream([d EXCEPT !.n.active = k], k, state)

\* gabble_bytestream_socks5_initiate, send_streamhosts, gabble_bytestream_ibb_initiate.
Initiate(d) ==
  IF d.n.active = "ibb" THEN Saying(d, [t |-> "open"])
  ELSE Saying([d EXCEPT !.n.s5 = "OFFER_SENT", !.n.listening = siWorld.listens], [t |-> "hosts"])

\* Defect: the next method is tried by the other end only.
ConnectionErrorWaits(d) ==
  IF ~d.n.multi \/ d.n.left = <<>> THEN [d EXCEPT !.n.active = IF d.n.multi THEN "none" ELSE @]
  ELSE Create([d EXCEPT !.n.left = Tail(@), !.n.active = "none"], Head(d.n.left), d.n.top)

\* "connection-error": bytestream_connection_error_cb of a bytestream with
\* fallbacks, bytestream_activate_next.  Nobody else listens.
ConnectionError(d) ==
  IF ~d.n.multi THEN d
  ELSE IF d.n.left = <<>> THEN [d EXCEPT !.n.active = "none"]
  ELSE LET y == Create([d EXCEPT !.n.left = Tail(@), !.n.active = "none"], Head(d.n.left), d.n.top)
       IN  IF d.n.top = "INITIATING" THEN Initiate(y) ELSE y

\* gabble_bytestream_socks5_close.
Socks5Close(d) ==
  CASE d.n.bs["socks5"] = "CLOSED" -> d
    [] d.n.bs["socks5"] = "LOCAL_PENDING" -> SetBytestream(Saying(d, [t |-> "declined"]), "socks5", "CLOSED")
    [] d.n.conn # 0 /\ d.n.out # <<>> -> SetBytestream(d, "socks5", "CLOSING")
    [] OTHER -> SetBytestream(d, "socks5", "CLOSED")

-----------------------------------------------------------------------------
(* SOCKS5.                                                                   *)

\* set_transport: it asserts that there was none before.
SetTransport(d, h) ==
  IF d.n.buf THEN [d EXCEPT !.n.crashed = TRUE]
  ELSE [d EXCEPT !.n.conn = h, !.n.buf = TRUE, !.n.blocked = FALSE]

\* socks5_connect, to the first streamhost that is left.
Connect(d) ==
  LET y == SetTransport([d EXCEPT !.n.s5 = "TARGET_TRYING_CONNECT"], Head(d.n.hosts))
  IN  Netting([y EXCEPT !.n.timer = TRUE], [op |-> "connect", h |-> Head(d.n.hosts)])

Targets == {"TARGET_TRYING_CONNECT", "TARGET_AUTH_REQUEST_SENT", "TARGET_CONNECT_REQUESTED"}

\* Defect: the transport of the streamhost that failed is kept.
Socks5ErrorKeeps(d) ==
  LET y == [d EXCEPT !.n.timer = FALSE, !.n.s5 = "ERROR"]
      rest == IF d.n.hosts = <<>> THEN <<>> ELSE Tail(d.n.hosts)
      z == [y EXCEPT !.n.hosts = rest]
  IN  IF d.n.s5 \in Targets
      THEN IF rest # <<>> THEN Connect(z)
           ELSE Saying([ConnectionError(z) EXCEPT !.n.ask = FALSE], [t |-> "no host"])
      ELSE IF d.n.s5 \in {"AWAITING_AUTH_REQUEST", "AWAITING_COMMAND"} THEN y
      ELSE Socks5Close(y)

\* socks5_error: the target tries the next streamhost, and the initiator waits.
Socks5Error(d) ==
  LET y == [d EXCEPT !.n.timer = FALSE, !.n.s5 = "ERROR"]
      rest == IF d.n.hosts = <<>> THEN <<>> ELSE Tail(d.n.hosts)
      z == [CloseTransport(y) EXCEPT !.n.hosts = rest]
  IN  IF d.n.s5 \in Targets
      THEN IF rest # <<>> THEN Connect(z)
           ELSE Saying([ConnectionError(z) EXCEPT !.n.ask = FALSE], [t |-> "no host"])
      ELSE IF d.n.s5 \in {"AWAITING_AUTH_REQUEST", "AWAITING_COMMAND"} THEN y
      ELSE Socks5Close(y)

\* The initiator's offer failed: connection-error, then CLOSED.  The next method
\* is tried before.
OfferFailed(d) == SetBytestream(ConnectionError(d), "socks5", "CLOSED")

\* target_got_connect_reply.
TargetConnected(d) ==
  LET y == SetBytestream([d EXCEPT !.n.s5 = "CONNECTED"], "socks5", "OPEN")
  IN  Saying([y EXCEPT !.n.ask = FALSE, !.n.blocked = @ \/ d.n.readBlocked], [t |-> "used", h |-> d.n.conn])

\* initiator_got_connect_reply: the proxy is asked to activate the bytestream.
InitiatorConnected(d) ==
  Netting([d EXCEPT !.n.s5 = "ACTIVATION_SENT", !.n.blocked = TRUE], [op |-> "activate", h |-> d.n.conn])

\* Defect: the initiator reads before it knows that it was chosen.
AcceptCommandOpen(d) ==
  Netting([d EXCEPT !.n.s5 = "CONNECTED", !.n.listening = FALSE], [op |-> "write", h |-> d.n.conn, data |-> "connect ok"])

\* SOCKS5_STATE_INITIATOR_AWAITING_COMMAND.
AcceptCommand(d) ==
  Netting([d EXCEPT !.n.s5 = "CONNECTED", !.n.blocked = TRUE, !.n.listening = FALSE],
          [op |-> "write", h |-> d.n.conn, data |-> "connect ok"])

\* socks5_handle_received_data, of one message.
HandleData(d, data) ==
  LET write(s) == [op |-> "write", h |-> d.n.conn, data |-> s]
      target == d.n.s5 \in Targets
  IN  CASE d.n.s5 \in {"TARGET_AUTH_REQUEST_SENT", "AUTH_REQUEST_SENT"} ->
             IF data # "auth ok" THEN Socks5Error(d)
             ELSE Netting([d EXCEPT !.n.timer = TRUE,
                                    !.n.s5 = IF target THEN "TARGET_CONNECT_REQUESTED" ELSE "CONNECT_REQUESTED"],
                          write("connect"))
        [] d.n.s5 \in {"TARGET_CONNECT_REQUESTED", "CONNECT_REQUESTED"} ->
             IF data # "connect ok" THEN Socks5Error(d)
             ELSE LET y == [d EXCEPT !.n.timer = FALSE]
                  IN  IF target THEN TargetConnected(y) ELSE InitiatorConnected(y)
        [] d.n.s5 = "AWAITING_AUTH_REQUEST" ->
             IF data # "auth" THEN Socks5Error(d)
             ELSE Netting([d EXCEPT !.n.s5 = "AWAITING_COMMAND"], write("auth ok"))
        [] d.n.s5 = "AWAITING_COMMAND" -> IF data # "connect" THEN Socks5Error(d) ELSE AcceptCommand(d)
        [] d.n.s5 = "CONNECTED" ->
             [d EXCEPT !.n.got = Append(@, data), !.n.early = @ \/ d.n.top \notin {"OPEN", "CLOSING"}]
        [] OTHER -> d

-----------------------------------------------------------------------------
(* What happens to an end takes effect.                                      *)

\* What a proxy is sent, and what it answers; what the target sends to it it
\* holds until the bytestream is activated.
ForHost == [auth |-> "host: auth", connect |-> "host: connect"]
Answers == [auth |-> "auth ok", connect |-> "connect ok"]

\* Sockets: closing one tells the other end, if it is connected; writing to one
\* that it is not connected to is for the proxy.
NetStep(w, x, op) ==
  LET h == op.h
      linked == x \in w[h].up /\ Other(x) \in w[h].up /\ (siWorld.hosts[h].kind = "self" \/ w[h].activated)
  IN  CASE op.op = "close" ->
             [w EXCEPT ![h].up = @ \ {x}, ![h].to[x] = <<>>, ![h].to[Other(x)] = IF linked THEN Append(@, "eof") ELSE @]
        [] op.op = "connect" -> [w EXCEPT ![h].to[x] = <<"syn">>]
        [] op.op = "activate" -> [w EXCEPT ![h].to[x] = Append(@, "activate")]
        [] OTHER -> IF linked THEN [w EXCEPT ![h].to[Other(x)] = Append(@, op.data)]
                    ELSE IF siWorld.hosts[h].kind = "self" \/ w[h].activated THEN w
                    ELSE IF op.data \in {"1", "2"} THEN [w EXCEPT ![h].held = Append(@, op.data)]
                    ELSE [w EXCEPT ![h].to[x] = Append(@, ForHost[op.data])]

RECURSIVE NetSteps(_, _, _)
NetSteps(w, x, ops) == IF ops = <<>> THEN w ELSE NetSteps(NetStep(w, x, Head(ops)), x, Tail(ops))

Effect(x, p, w, d) ==
  /\ ~e["a"].crashed
  /\ e' = [e EXCEPT ![x] = d.n]
  /\ post' = [p EXCEPT ![Other(x)] = @ \o d.say]
  /\ wire' = NetSteps(w, x, d.net)
  /\ UNCHANGED siWorld

React(x, d) == Effect(x, post, wire, d)
Hear(x, t) == post[x] # <<>> /\ Head(post[x]).t = t
Heard(x, d) == Effect(x, [post EXCEPT ![x] = Tail(@)], wire, d)

-----------------------------------------------------------------------------
(* Stream initiation.                                                        *)

\* bytestream_factory_iq_si_cb, streaminit_parse_request.
StreamInitiation ==
  /\ Hear("b", "si")
  /\ LET d == Doing(e["b"])
         m == SelectSeq(siWorld.methods, LAMBDA k : k \in {"socks5", "ibb"})
     IN  Heard("b", IF m = <<>>
                    THEN Saying([d EXCEPT !.n.top = "CLOSED"], [t |-> "declined"])
                    ELSE Create([d EXCEPT !.n.left = IF siWorld.multi THEN Tail(m) ELSE <<>>], Head(m), "LOCAL_PENDING"))

\* gabble_bytestream_multiple_accept, gabble_bytestream_socks5_accept.
AcceptOffer ==
  /\ e["b"].top = "LOCAL_PENDING"
  /\ LET d == Doing(e["b"])
     IN  React("b", SetBytestream(Saying(d, [t |-> "accepted", methods |-> <<d.n.active>> \o d.n.left]), d.n.active, "ACCEPTED"))

\* streaminit_reply_cb, streaminit_get_multiple_bytestream, streaminit_get_bytestream.
Accepted ==
  /\ Hear("a", "accepted")
  /\ LET m == Head(post["a"]).methods
     IN  Heard("a", Initiate(Create([Doing(e["a"]) EXCEPT !.n.left = Tail(m)], Head(m), "INITIATING")))

Declined == Hear("a", "declined") /\ Heard("a", [Doing(e["a"]) EXCEPT !.n.top = "CLOSED"])

-----------------------------------------------------------------------------
(* Offers of streamhosts.                                                    *)

\* gabble_bytestream_socks5_add_streamhost: in a room only the peer's own.
Useful(h) ==
  LET s == siWorld.hosts[h]
  IN  s.kind # "bad" /\ (siWorld.muc => s.kind = "self") /\ (s.kind = "self" => siWorld.listens)

\* handle_socks5_query_iq, gabble_bytestream_socks5_connect_to_streamhost.
StreamhostsOffered ==
  /\ Hear("b", "hosts")
  /\ LET d == Doing(e["b"])
         hosts == SelectSeq(<<1, 2, 3>>, LAMBDA h : h \in DOMAIN siWorld.hosts /\ Useful(h))
         y == [d EXCEPT !.n.ask = TRUE, !.n.hosts = hosts]
     IN  Heard("b", IF d.n.bs["socks5"] \in {"NONE", "CLOSED"} THEN Saying(d, [t |-> "no host"])
                    ELSE IF hosts = <<>> THEN Socks5Error([y EXCEPT !.n.s5 = "TARGET_TRYING_CONNECT"])
                    ELSE Connect(y))

\* initiator_connected_to_proxy.
ConnectToProxy(d, h) ==
  IF ~siWorld.hosts[h].known THEN OfferFailed(d)
  ELSE Netting(SetTransport([d EXCEPT !.n.s5 = "TRYING_CONNECT", !.n.proxy = h], h), [op |-> "connect", h |-> h])

\* Defect: who was chosen is not compared with who is connected.
UsedUnchecked(d, h) ==
  IF siWorld.hosts[h].kind # "self" THEN ConnectToProxy(d, h)
  ELSE [SetBytestream(d, "socks5", "OPEN") EXCEPT !.n.blocked = FALSE]

\* socks5_init_reply_cb, of an answer that names a streamhost.
Used(d, h) ==
  IF siWorld.hosts[h].kind # "self"
  THEN IF d.n.s5 # "OFFER_SENT" THEN OfferFailed(d) ELSE ConnectToProxy(d, h)
  ELSE IF d.n.s5 # "CONNECTED" THEN OfferFailed(d)
  ELSE [SetBytestream(d, "socks5", "OPEN") EXCEPT !.n.blocked = FALSE]

\* Nobody hears the answer when the bytestream was disposed of.
OfferAnswered ==
  LET d == Doing(e["a"])
      gone == e["a"].bs["socks5"] \in {"NONE", "CLOSED"}
  IN  \/ Hear("a", "used") /\ Heard("a", IF gone THEN d ELSE Used(d, Head(post["a"]).h))
      \/ Hear("a", "no host") /\ Heard("a", IF gone THEN d ELSE OfferFailed(d))

\* socks5_activation_reply_cb.
ActivationAnswered(ok) ==
  LET d == Doing(e["a"])
      h == e["a"].conn
  IN  /\ h # 0 /\ wire[h].to["a"] # <<>> /\ Head(wire[h].to["a"]) = "activate"
      /\ ok = (siWorld.hosts[h].activates /\ "b" \in wire[h].up)
      /\ Effect("a", post, [wire EXCEPT ![h].to["a"] = IF ok THEN wire[h].held ELSE <<>>, ![h].activated = ok],
                IF ok /\ d.n.s5 = "ACTIVATION_SENT"
                THEN [SetBytestream([d EXCEPT !.n.s5 = "CONNECTED"], "socks5", "OPEN") EXCEPT !.n.blocked = FALSE]
                ELSE OfferFailed(d))

-----------------------------------------------------------------------------
(* Sockets.                                                                  *)

At(x, data) == e[x].conn # 0 /\ wire[e[x].conn].to[x] # <<>> /\ Head(wire[e[x].conn].to[x]) = data
Consumed(x) == [wire EXCEPT ![e[x].conn].to[x] = Tail(@)]

\* transport_connected_cb, transport_disconnected_cb, and new_connection_cb of
\* the initiator's listener.
TransportConnected(x) ==
  LET h == e[x].conn
      d == [Doing(e[x]) EXCEPT !.n.timer = FALSE]
      y == Netting([d EXCEPT !.n.s5 = IF x = "b" THEN "TARGET_AUTH_REQUEST_SENT" ELSE "AUTH_REQUEST_SENT"],
                   [op |-> "write", h |-> h, data |-> "auth"])
      w == [Consumed(x) EXCEPT ![h].up = @ \cup {x}]
  IN  /\ At(x, "syn") /\ siWorld.hosts[h].kind # "self" /\ siWorld.hosts[h].works # "refuses"
      /\ Effect(x, post, w, y)

NewConnection ==
  LET h == e["b"].conn
      b == [Doing(e["b"]) EXCEPT !.n.timer = FALSE, !.n.s5 = "TARGET_AUTH_REQUEST_SENT"]
      a == SetTransport([Doing(e["a"]) EXCEPT !.n.s5 = "AWAITING_AUTH_REQUEST"], h)
  IN  /\ At("b", "syn") /\ siWorld.hosts[h].kind = "self" /\ e["a"].listening /\ siWorld.hosts[h].works # "refuses"
      /\ ~e["a"].crashed
      /\ e' = [e EXCEPT !["a"] = a.n, !["b"] = b.n]
      /\ wire' = [wire EXCEPT ![h].up = Ends, ![h].to = [x \in Ends |-> IF x = "a" THEN <<"auth">> ELSE <<>>]]
      /\ UNCHANGED <<post, siWorld>>

ConnectionRefused(x) ==
  LET h == e[x].conn
  IN  /\ At(x, "syn")
      /\ siWorld.hosts[h].works = "refuses" \/ (siWorld.hosts[h].kind = "self" /\ ~e["a"].listening)
      /\ Effect(x, post, Consumed(x), Socks5Error(Doing(e[x])))

TransportDisconnected(x) == At(x, "eof") /\ Effect(x, post, Consumed(x), Socks5Error(Doing(e[x])))

\* socks5_timer_cb.
Timeout(x) == e[x].timer /\ React(x, Socks5Error([Doing(e[x]) EXCEPT !.n.timer = FALSE]))

\* What the proxy answers.
HostAnswers(x) ==
  \E s \in {"auth", "connect"} :
    LET works == siWorld.hosts[e[x].conn].works
    IN  /\ At(x, ForHost[s]) /\ works # "mute"
        /\ Effect(x, post, Consumed(x), HandleData(Doing(e[x]), IF works = "yes" THEN Answers[s] ELSE "error"))

\* The proxy drops an end whose bytestream was not activated.
HostDrops(x) ==
  LET h == e[x].conn
  IN  /\ h # 0 /\ siWorld.hosts[h].kind = "proxy" /\ x \in wire[h].up /\ ~wire[h].activated /\ siWorld.drops
      /\ Effect(x, post, wire, Socks5Error(Doing(e[x])))

\* transport_handler.
DataArrives(x) ==
  /\ ~e[x].blocked
  /\ \E s \in {"auth", "auth ok", "connect", "connect ok", "1", "2"} :
       At(x, s) /\ Effect(x, post, Consumed(x), HandleData(Doing(e[x]), s))

-----------------------------------------------------------------------------
(* In-band fallback, and the user.                                           *)

\* handle_ibb_open_iq, ibb_init_reply_cb.
IbbOpenArrives ==
  /\ Hear("b", "open")
  /\ LET d == Doing(e["b"])
     IN  Heard("b", IF d.n.bs["ibb"] = "ACCEPTED" THEN Saying(SetBytestream(d, "ibb", "OPEN"), [t |-> "open ok"])
                    ELSE Saying(d, [t |-> "open refused"]))

OpenAnswered ==
  \/ Hear("a", "open ok") /\ Heard("a", SetBytestream(Doing(e["a"]), "ibb", "OPEN"))
  \/ Hear("a", "open refused") /\ Heard("a", SetBytestream(Doing(e["a"]), "ibb", "CLOSED"))

\* gabble_bytestream_socks5_send, transport_buffer_empty_cb.
Send(x) ==
  LET n == e[x]
      chunk == <<"1", "2">>[n.sent + 1]
      d == Doing([n EXCEPT !.sent = @ + 1])
  IN  /\ n.top = "OPEN" /\ n.active = "socks5" /\ n.sent < MaxChunks
      /\ \/ n.out = <<>> /\ React(x, Netting(d, [op |-> "write", h |-> n.conn, data |-> chunk]))
         \/ React(x, [d EXCEPT !.n.out = Append(@, chunk), !.n.wblocked = TRUE])

\* Defect: a bytestream that is closing stays.
DrainedUnblocks(d) == [d EXCEPT !.n.wblocked = FALSE]

TransportDrained(d) ==
  IF d.n.bs["socks5"] = "CLOSING" THEN SetBytestream(d, "socks5", "CLOSED")
  ELSE [d EXCEPT !.n.wblocked = FALSE]

Flush(x) ==
  /\ e[x].out # <<>>
  /\ LET w == NetSteps(wire, x, [i \in DOMAIN e[x].out |-> [op |-> "write", h |-> e[x].conn, data |-> e[x].out[i]]])
     IN  Effect(x, post, w, TransportDrained([Doing(e[x]) EXCEPT !.n.out = <<>>]))

\* gabble_bytestream_multiple_close; in band it is in module BytestreamIBB.
UserCloses(x) ==
  LET d == Doing(e[x])
  IN  /\ siWorld.closer = x /\ e[x].top \notin {"NONE", "CLOSED", "CLOSING"} /\ e[x].active # "ibb"
      /\ React(x, IF e[x].active = "none" THEN [d EXCEPT !.n.top = "CLOSED"] ELSE Socks5Close(d))

\* gabble_bytestream_multiple_block_reading, gabble_bytestream_socks5_block_reading.
BlockTransport ==
  LET d == [Doing(e["b"]) EXCEPT !.n.readBlocked = ~@]
  IN  /\ siWorld.blocks /\ e["b"].active = "socks5" /\ e["b"].top \in {"ACCEPTED", "OPEN"}
      /\ React("b", IF e["b"].conn = 0 THEN d ELSE [d EXCEPT !.n.blocked = d.n.readBlocked])

-----------------------------------------------------------------------------
SiOfEnd(x) ==
  \/ TransportConnected(x) \/ ConnectionRefused(x) \/ TransportDisconnected(x) \/ Timeout(x)
  \/ HostAnswers(x) \/ HostDrops(x) \/ DataArrives(x) \/ Send(x) \/ Flush(x) \/ UserCloses(x)

SiNext ==
  \/ StreamInitiation \/ AcceptOffer \/ Accepted \/ Declined \/ StreamhostsOffered \/ OfferAnswered
  \/ \E ok \in BOOLEAN : ActivationAnswered(ok)
  \/ NewConnection \/ IbbOpenArrives \/ OpenAnswered \/ BlockTransport
  \/ \E x \in Ends : SiOfEnd(x)

SiSpec == SiInit /\ [][SiNext]_siVars

-----------------------------------------------------------------------------
(* Properties.                                                               *)

\* Two ends that both say OPEN use the same method, and in SOCKS5 the same
\* streamhost; each user is given what the other sent, in order and only once its
\* end is open, although the target opens and may send before the initiator hears
\* of it (socks5_init_reply_cb).
SiEndsAgree ==
  /\ e["a"].top = "OPEN" /\ e["b"].top = "OPEN" =>
       e["a"].active = e["b"].active /\ (e["a"].active = "socks5" => e["a"].conn = e["b"].conn)
  /\ \A x \in Ends :
       /\ e[x].got = SubSeq(<<"1", "2">>, 1, Len(e[x].got)) /\ Len(e[x].got) <= e[Other(x)].sent
       /\ ~e[x].early

\* Nothing is on its way and no timer runs.
SiQuiet ==
  /\ \A x \in Ends : post[x] = <<>> /\ ~e[x].timer /\ e[x].out = <<>>
  /\ \A h \in Hosts, x \in Ends : e[x].conn = h => wire[h].to[x] = <<>>

\* When nothing is on its way both ends are open or closed.  The exceptions are
\* those of the code: a target that runs out of streamhosts and has no other method
\* is not closed, nor is whoever runs out of methods; a target that is closed while
\* it connects leaves the initiator's question unanswered; a host that takes the
\* connection and says nothing is waited for without a timer; and a target that
\* chose a proxy the initiator cannot use stays open until the proxy drops it.
SiSettles ==
  ~e["a"].crashed /\ SiQuiet /\ e["a"].top # "NONE" =>
    /\ e["b"].top \notin {"OPEN", "CLOSED", "LOCAL_PENDING"} =>
         \/ e["b"].s5 = "ERROR" /\ e["b"].hosts = <<>> /\ e["b"].left = <<>>
         \/ e["b"].active = "ibb" /\ e["a"].top = "CLOSED"
    /\ e["a"].top \notin {"OPEN", "CLOSED"} =>
         (e["a"].active = "none" /\ e["a"].left = <<>>) \/ (e["b"].top = "CLOSED" /\ e["b"].ask)
    /\ e["b"].top = "OPEN" /\ e["a"].top # "OPEN" =>
         siWorld.hosts[e["b"].conn].kind = "proxy" /\ ~wire[e["b"].conn].activated

\* The initiator's listener takes a second connection only while the first is
\* there: set_transport finds no buffer of an earlier one, unless the target went
\* on to another of our addresses (socks5_error: "the target can still try other
\* streamhosts").
OneTransport ==
  /\ ~e["b"].crashed
  /\ e["a"].crashed => \E h \in Hosts : h < e["b"].conn /\ siWorld.hosts[h].kind = "self"

-----------------------------------------------------------------------------
(* The SOCKS5 proxies of the factory: the list of potential ones, asked in   *)
(* turn, and the two lists of those that answered, which are offered as      *)
(* streamhosts.                                                              *)
CONSTANTS
  ProxyLists,      \* lists of proxies that an account or the service names
  MinProxies,      \* NB_MIN_SOCKS5_PROXIES
  CacheSize,       \* FALLBACK_PROXY_CACHE_SIZE
  MaxAsked         \* bound: queries that may be unanswered

VARIABLES
  potential,       \* socks5_potential_proxies
  next,            \* next_query: a proxy of potential, "end" for NULL, "freed"
  usable,          \* [fallback]: socks5_fallback_proxies, socks5_proxies
  asked,           \* queries that were not answered: <<proxy, fallback>>, oldest first
  listing,         \* whether the list of proxies was asked for
  tried            \* whether one of potential was ever asked

poolVars == <<potential, next, usable, asked, listing, tried>>

PoolInit ==
  /\ potential = <<>> /\ next = "end" /\ asked = <<>> /\ listing = FALSE /\ tried = FALSE
  /\ usable = [f \in BOOLEAN |-> <<>>]

After(list, p) ==
  LET i == CHOOSE i \in DOMAIN list : list[i] = p IN IF i = Len(list) THEN "end" ELSE list[i + 1]

\* query_proxies: n of them, in turn, from next.
RECURSIVE QueryProxies(_, _, _, _)
QueryProxies(list, from, n, queries) ==
  LET p == IF from = "end" THEN Head(list) ELSE from
  IN  IF n = 0 \/ list = <<>> \/ from = "freed" THEN [next |-> from, queries |-> queries]
      ELSE QueryProxies(list, After(list, p), n - 1, Append(queries, <<p, TRUE>>))

Query(list, from, n, queries) ==
  LET q == QueryProxies(list, from, IF n < Len(list) THEN n ELSE Len(list), queries)
  IN  next' = q.next /\ asked' = q.queries /\ tried' = (tried \/ list # <<>>)

\* gabble_bytestream_factory_query_socks5_proxies, of a list that is not empty: as
\* many as are missing, but at least one.
Needed(u) == LET found == Len(u[TRUE]) + Len(u[FALSE]) IN IF found >= MinProxies THEN 1 ELSE MinProxies - found

\* conn_status_changed_cb: the proxies that the account names.
Connected(list) ==
  /\ potential = <<>> /\ ~tried /\ asked = <<>> /\ ~listing
  /\ potential' = list
  /\ next' = IF list = <<>> THEN "end" ELSE Head(list)
  /\ UNCHANGED <<usable, asked, listing, tried>>

\* gabble_bytestream_factory_query_socks5_proxies, when a file or a tube is offered.
QuerySocks5Proxies(stale) ==
  /\ Len(asked) <= MaxAsked - MinProxies
  /\ listing' = (potential = <<>> \/ stale \/ listing)
  /\ IF potential = <<>> THEN UNCHANGED <<next, asked, tried>> ELSE Query(potential, next, Needed(usable), asked)
  /\ UNCHANGED <<potential, usable>>

\* proxies_disco_cb: a new list, which is asked at once.
ProxiesListed(list) ==
  /\ listing /\ Len(asked) <= MaxAsked - MinProxies
  /\ listing' = FALSE
  /\ IF list = <<>> THEN UNCHANGED <<potential, next, asked, tried>>
     ELSE potential' = list /\ Query(list, Head(list), Needed(usable), asked)
  /\ UNCHANGED usable

\* disco_item_found_cb: a proxy of our own server.
ItemFound(p) ==
  /\ Len(asked) < MaxAsked
  /\ asked' = Append(asked, <<p, FALSE>>)
  /\ UNCHANGED <<potential, next, usable, listing, tried>>

\* Defect: a proxy that answers again is listed again.
AddProxyAgain(list, p, fallback) ==
  LET rest == IF fallback /\ Len(list) >= CacheSize THEN Front(list) ELSE list IN <<p>> \o rest

\* add_proxy_to_list: the newest first, each once, and the oldest goes.
AddProxy(list, p, fallback) ==
  LET others == SelectSeq(list, LAMBDA q : q # p)
      rest == IF others = list /\ fallback /\ Len(list) >= CacheSize THEN Front(list) ELSE others
  IN  <<p>> \o rest

\* socks5_proxy_query_reply_cb.
ProxyAnswers(i) ==
  LET p == asked[i][1]
      fallback == asked[i][2]
  IN  /\ usable' = [usable EXCEPT ![fallback] = AddProxy(@, p, fallback)]
      /\ asked' = RemoveAt(asked, i)
      /\ UNCHANGED <<potential, next, listing, tried>>

\* Defect: nobody is asked instead of a proxy that fails.
AskNobody(list, from, queries) == next' = from /\ asked' = queries /\ UNCHANGED tried

AskAnother(list, from, queries) == Query(list, from, 1, queries)

\* A proxy that fails is not asked again, and another one is.  Its link in the list
\* is freed: next_query may be that link, and then it is not one of the list.
ProxyFails(i, named) ==
  LET p == asked[i][1]
      drop == asked[i][2] /\ named
      list == IF drop THEN SelectSeq(potential, LAMBDA q : q # p) ELSE potential
      from == IF drop /\ next = p THEN "freed" ELSE next
  IN  /\ potential' = list
      /\ AskAnother(list, from, RemoveAt(asked, i))
      /\ UNCHANGED <<usable, listing>>

PoolNext ==
  /\ next # "freed"
  /\ \/ \E list \in ProxyLists : Connected(list) \/ ProxiesListed(list)
     \/ \E stale \in BOOLEAN : QuerySocks5Proxies(stale)
     \/ ItemFound("server")
     \/ \E i \in DOMAIN asked : ProxyAnswers(i) \/ \E named \in BOOLEAN : ProxyFails(i, named)

PoolSpec == PoolInit /\ [][PoolNext]_poolVars

-----------------------------------------------------------------------------
\* The proxies that are offered are each offered once by each list, and the
\* fallback ones are as many as the cache holds; and once proxies were asked, one
\* answers or is still asked or none is left to ask: a failure asks the next
\* (socks5_proxy_query_reply_cb), until it frees the link that was to be next.
PoolSound ==
  /\ \A f \in BOOLEAN : IsInjective(usable[f])
  /\ Len(usable[TRUE]) <= CacheSize
  /\ tried /\ asked = <<>> => usable # [f \in BOOLEAN |-> <<>>] \/ potential = <<>> \/ next = "freed"
=============================================================================
