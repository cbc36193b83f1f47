------------------------------ MODULE StreamTube ------------------------------
(* A stream tube between a client "o" that offers a service and a contact "c" *)
(* who uses it, both with this code: tube-stream.c and, of the tubes between  *)
(* two contacts, private-tubes-factory.c.  For each connection to the socket  *)
(* of c a bytestream is negotiated, and o connects to the service.  What is   *)
(* on a bytestream keeps its order (modules SiBytestream and BytestreamIBB).  *)
EXTENDS Naturals, Sequences

CONSTANTS
  TubeScenes,      \* what a behaviour may meet: see tubeScene
  Connections      \* the connections that may be made to the socket

VARIABLES
  tube,            \* [x]: the state of the tube at end x, "none", "closed" or "crashed"
  conn,            \* [x][k]: connection k at end x, see NoConnection
  mail,            \* [x]: stanzas on their way to x
  flow,            \* [x][k]: what is on its way to x on bytestream k
  tubeScene        \* a member of TubeScenes: it never changes; writes, uses: bounds on
                   \* the units a client writes and on the connections

tubeVars == <<tube, conn, mail, flow, tubeScene>>

TubeEnds == {"o", "c"}
FarEnd(x) == IF x = "o" THEN "c" ELSE "o"
Eof == 0         \* the end of a bytestream, after its units 1, 2, ...

\* sock: the transport; mapped: it has its bytestream in the tables; heeded: its
\* signals are connected (add_transport); id: it is in transport_to_id; told and
\* gone: how often its coming and its end were signalled; bs: its bytestream, held:
\* it is not read; blocked: the transport is not read; buf: what is not written to
\* it; got, wrote: what the client read and wrote; left: the client is gone; early
\* (history): the transport ended when its signals were not connected yet.
NoConnection ==
  [sock |-> "none", mapped |-> FALSE, heeded |-> FALSE, id |-> FALSE, told |-> 0, gone |-> 0, bs |-> "NONE",
   held |-> FALSE, blocked |-> TRUE, buf |-> <<>>, got |-> <<>>, wrote |-> 0, left |-> FALSE, early |-> FALSE]

TubeInit ==
  /\ tubeScene \in TubeScenes
  /\ tube = [x \in TubeEnds |-> "none"]
  /\ conn = [x \in TubeEnds |-> [k \in Connections |-> NoConnection]]
  /\ mail = [x \in TubeEnds |-> <<>>]
  /\ flow = [x \in TubeEnds |-> [k \in Connections |-> <<>>]]

-----------------------------------------------------------------------------
(* What happens to a connection: its record, and what goes on its bytestream. *)

At0(x, k) == [c |-> conn[x][k], out |-> <<>>]

\* Defect: the end is told although the connection is not one of the tube.
FireClosedAlways(a) == [a EXCEPT !.c.id = FALSE, !.c.gone = @ + 1]

\* fire_connection_closed.
FireClosed(a) == IF a.c.id THEN [a EXCEPT !.c.id = FALSE, !.c.gone = @ + 1] ELSE a

\* remove_transport.
RemoveTransport(a) ==
  [FireClosed(a) EXCEPT !.c.sock = "down", !.c.mapped = FALSE, !.c.heeded = FALSE, !.c.id = FALSE, !.c.buf = <<>>]

\* Defect: what the client has not read yet is thrown away.
BytestreamClosedAtOnce(a) ==
  LET y == [a EXCEPT !.c.bs = "CLOSED"] IN IF a.c.mapped THEN RemoveTransport(y) ELSE y

\* extra_bytestream_state_changed_cb, CLOSED: the rest is written first.
BytestreamClosed(a) ==
  LET y == [a EXCEPT !.c.bs = "CLOSED"] IN IF a.c.mapped /\ a.c.buf = <<>> THEN RemoveTransport(y) ELSE y

\* gabble_bytestream_iface_close of a bytestream that the tube still hears.
EndStream(a) ==
  IF a.c.bs \in {"NONE", "CLOSED"} THEN a ELSE BytestreamClosed([a EXCEPT !.out = Append(@, Eof)])

\* extra_bytestream_state_changed_cb, OPEN: add_transport.
AddTransport(a) == [a EXCEPT !.c.bs = "OPEN", !.c.heeded = TRUE, !.c.blocked = FALSE]

\* Defect: what the client has not read holds the connection up.
TransportGoneKeepsBuffer(a) ==
  LET y == [a EXCEPT !.c.sock = "down", !.c.early = ~a.c.heeded]
  IN  IF ~a.c.heeded THEN y ELSE IF a.c.mapped THEN EndStream(FireClosed(y)) ELSE FireClosed(y)

\* _do_disconnect, which drops what the client has not read, and transport_disconnected_cb,
\* which is called only if the signals of the transport are connected.
TransportGone(a) ==
  LET y == [a EXCEPT !.c.sock = "down", !.c.buf = <<>>, !.c.early = ~a.c.heeded]
  IN  IF ~a.c.heeded THEN y ELSE IF a.c.mapped THEN EndStream(FireClosed(y)) ELSE FireClosed(y)

\* Defect: the bytestream is read before the service is connected.
NewConnectionToSocketUnheld(a) == [a EXCEPT !.c.sock = "connecting", !.c.id = TRUE, !.c.mapped = TRUE]

\* new_connection_to_socket.
NewConnectionToSocket(a) == [a EXCEPT !.c.sock = "connecting", !.c.id = TRUE, !.c.held = TRUE, !.c.mapped = TRUE]

\* fire_new_remote_connection, and the bytestream is read; a transport that cannot
\* say who we are (send_credentials, getsockname) is disconnected and not told of.
RemoteConnected(a, ok) ==
  LET y == [a EXCEPT !.c.sock = "up", !.c.held = FALSE]
  IN  IF ok THEN [y EXCEPT !.c.told = @ + 1] ELSE TransportGone(y)

\* close_each_extra_bytestream: nothing is heard of it any more.
CloseEach(a) ==
  IF ~a.c.mapped THEN a
  ELSE LET y == [a EXCEPT !.out = IF a.c.bs = "CLOSED" THEN @ ELSE Append(@, Eof), !.c.bs = "CLOSED"]
       IN  RemoveTransport(y)

\* transport_buffer_empty_cb.
Drained(a) ==
  LET y == [a EXCEPT !.c.got = @ \o a.c.buf, !.c.buf = <<>>]
  IN  IF a.c.bs = "CLOSED" THEN RemoveTransport(y) ELSE [y EXCEPT !.c.held = FALSE]

-----------------------------------------------------------------------------
(* What happens takes effect.                                                *)

Happens(x, k, a) ==
  /\ conn' = [conn EXCEPT ![x][k] = a.c]
  /\ flow' = [flow EXCEPT ![FarEnd(x)][k] = @ \o a.out]

Posts(x, s) == mail' = [mail EXCEPT ![FarEnd(x)] = @ \o s]
Reads(x, t) == mail[x] # <<>> /\ Head(mail[x]).t = t
HasRead(x, s) == mail' = [mail EXCEPT ![x] = Tail(@), ![FarEnd(x)] = @ \o s]
Stanza_(t, k) == <<[t |-> t, k |-> k]>>

-----------------------------------------------------------------------------
(* The tube.                                                                 *)

\* gabble_tube_stream_check_params: what the client asks for exists and is supported.
CheckParams(x) == tubeScene.asks[x] # "nonsense"

\* tube_stream_open: there is a socket to listen on, unless we offer the tube.
TubeStreamOpen(x) == x = "o" \/ tubeScene.asks["c"] # "taken"

\* send_tube_offer: a contact who is not there or knows no tubes is offered none.
SendTubeOffer == IF tubeScene.caps THEN Stanza_("tube", 0) ELSE <<>>

\* new_channel_from_stanza: a tube, or the answer to an offer that makes no sense.
NewChannelFromStanza == [new |-> tubeScene.valid, answer |-> IF tubeScene.valid THEN <<>> ELSE Stanza_("close", 0)]

\* The end of the tube at end x: with it go its connections.
TubeEndsAt(x) ==
  /\ tube' = [tube EXCEPT ![x] = "closed"]
  /\ conn' = [conn EXCEPT ![x] = [k \in Connections |-> CloseEach(At0(x, k)).c]]
  /\ flow' = [flow EXCEPT ![FarEnd(x)] = [k \in Connections |-> @[k] \o CloseEach(At0(x, k)).out]]

\* gabble_private_tubes_factory_requestotron.
RequestTube ==
  /\ tube["o"] = "none"
  /\ tube' = [tube EXCEPT !["o"] = "NOT_OFFERED"]
  /\ UNCHANGED <<conn, mail, flow, tubeScene>>

\* gabble_tube_stream_offer_async, gabble_tube_stream_offer: a tube that cannot be
\* offered is closed, but one with parameters that make no sense is not.
OfferTube ==
  /\ tube["o"] = "NOT_OFFERED" /\ CheckParams("o")
  /\ tube' = [tube EXCEPT !["o"] = IF tubeScene.caps THEN "REMOTE_PENDING" ELSE "closed"]
  /\ Posts("o", SendTubeOffer)
  /\ UNCHANGED <<conn, flow, tubeScene>>

\* private_tubes_factory_msg_tube_cb.
TubeOffered ==
  /\ Reads("c", "tube")
  /\ tube' = [tube EXCEPT !["c"] = IF NewChannelFromStanza.new THEN "LOCAL_PENDING" ELSE @]
  /\ HasRead("c", NewChannelFromStanza.answer)
  /\ UNCHANGED <<conn, flow, tubeScene>>

\* gabble_tube_stream_accept_async, gabble_tube_stream_accept: parameters that make no
\* sense are refused and change nothing; without a socket the tube is closed.
AcceptTube ==
  /\ tube["c"] = "LOCAL_PENDING" /\ CheckParams("c")
  /\ tube' = [tube EXCEPT !["c"] = IF TubeStreamOpen("c") THEN "OPEN" ELSE "closed"]
  /\ UNCHANGED <<conn, mail, flow, tubeScene>>

\* gabble_tube_iface_stream_close: its user closes the tube, and the contact is told.
CloseTube(x) ==
  /\ x \in tubeScene.closers /\ tube[x] \notin {"none", "closed"}
  /\ TubeEndsAt(x)
  /\ Posts(x, Stanza_("close", 0))
  /\ UNCHANGED tubeScene

\* gabble_private_tubes_factory_close_all: the connection is lost.
CloseAllTubes(x) ==
  /\ x \in tubeScene.drops /\ tube[x] \notin {"none", "closed"}
  /\ TubeEndsAt(x)
  /\ UNCHANGED <<mail, tubeScene>>

\* private_tubes_factory_tube_close_cb: tube_msg_checks looks for an attribute that
\* the sender of the message does not set, and so it is nobody's message.
CloseHeard(x) ==
  /\ Reads(x, "close") /\ HasRead(x, <<>>)
  /\ UNCHANGED <<tube, conn, flow, tubeScene>>

-----------------------------------------------------------------------------
(* Connections.                                                              *)

\* check_incoming_connection: the credentials of the client, or its address, are
\* those that were set.  start_stream_initiation: the initiator is there.
CheckIncoming(why) == why # "stranger"
StartStreamInitiation(why, k) == IF why = "fine" THEN Stanza_("stream", k) ELSE <<>>

\* local_new_connection_cb, fire_new_local_connection.
ClientConnected(k, why) ==
  LET ok == CheckIncoming(why) /\ StartStreamInitiation(why, k) # <<>>
  IN  /\ tube["c"] = "OPEN" /\ conn["c"][k].sock = "none" /\ k \in tubeScene.uses
      /\ why # "fine" => tubeScene.checks
      /\ Happens("c", k, [At0("c", k) EXCEPT !.c.sock = IF ok THEN "up" ELSE "down", !.c.id = ok, !.c.told = IF ok THEN 1 ELSE 0])
      /\ Posts("c", StartStreamInitiation(why, k))
      /\ UNCHANGED <<tube, tubeScene>>

\* gabble_tube_stream_add_bytestream: the socket of the service is connected at once,
\* or later; the first connection says that the tube was accepted.
AddBytestream(k, now, ok) ==
  LET y == [NewConnectionToSocket(At0("o", k)) EXCEPT !.c.bs = "ACCEPTED"]
  IN  /\ tube' = [tube EXCEPT !["o"] = IF @ = "REMOTE_PENDING" THEN "OPEN" ELSE @]
      /\ Happens("o", k, IF now THEN RemoteConnected(y, ok) ELSE y)
      /\ HasRead("o", Stanza_("accepted", k))

\* gabble_private_tubes_factory_handle_si_stream_request.
StreamRequested(now, ok) ==
  /\ Reads("o", "stream") /\ (ok \/ (now /\ tubeScene.refuses))
  /\ IF tube["o"] \in {"none", "closed"}
     THEN ~now /\ HasRead("o", Stanza_("refused", Head(mail["o"]).k)) /\ UNCHANGED <<tube, conn, flow>>
     ELSE AddBytestream(Head(mail["o"]).k, now, ok)
  /\ UNCHANGED tubeScene

\* transport_connected_cb.
ServiceConnected(k, ok) ==
  /\ conn["o"][k].sock = "connecting" /\ (ok \/ tubeScene.refuses)
  /\ Happens("o", k, RemoteConnected(At0("o", k), ok))
  /\ UNCHANGED <<tube, mail, tubeScene>>

\* The service refuses the connection.  Until the bytestream is open nobody hears it.
ServiceRefused(k) ==
  /\ conn["o"][k].sock = "connecting" /\ tubeScene.refuses
  /\ Happens("o", k, TransportGone(At0("o", k)))
  /\ UNCHANGED <<tube, mail, tubeScene>>

\* streaminit_reply_cb, extra_bytestream_negotiate_cb: a tube that is closed does not
\* hear the answer, and then there is no bytestream; one whose client is gone asserts.
StreamAnswered ==
  /\ Reads("c", "accepted") \/ Reads("c", "refused")
  /\ LET k == Head(mail["c"]).k
         yes == Head(mail["c"]).t = "accepted"
         a == At0("c", k)
         dead == yes /\ tube["c"] # "closed" /\ a.c.sock # "up"
     IN  /\ Happens("c", k, IF tube["c"] = "closed" \/ dead THEN a
                            ELSE IF yes THEN [a EXCEPT !.c.mapped = TRUE, !.c.bs = "INITIATING"]
                            ELSE [FireClosed(a) EXCEPT !.c.sock = "down"])
         /\ tube' = IF dead THEN [tube EXCEPT !["c"] = "crashed"] ELSE tube
  /\ HasRead("c", <<>>)
  /\ UNCHANGED tubeScene

\* The bytestream opens, first at the end that accepted it; or it fails.
StreamOpens(x, k) ==
  /\ conn[x][k].bs = IF x = "o" THEN "ACCEPTED" ELSE "INITIATING"
  /\ IF x = "o" THEN conn["c"][k].bs = "INITIATING" ELSE conn["o"][k].bs \in {"OPEN", "CLOSED"}
  /\ Happens(x, k, AddTransport(At0(x, k)))
  /\ UNCHANGED <<tube, mail, tubeScene>>

StreamFails(x, k) ==
  /\ tubeScene.fails /\ conn[x][k].bs \in {"ACCEPTED", "INITIATING", "OPEN"}
  /\ Happens(x, k, EndStream(At0(x, k)))
  /\ UNCHANGED <<tube, mail, tubeScene>>

-----------------------------------------------------------------------------
(* Data.                                                                     *)

\* transport_handler; bytestream_write_blocked_cb when the bytestream takes no more.
ClientWritesTube(x, k, full) ==
  LET c == conn[x][k]
  IN  /\ c.sock = "up" /\ c.mapped /\ c.heeded /\ ~c.blocked /\ ~c.left /\ c.wrote < tubeScene.writes
      /\ Happens(x, k, [c |-> [c EXCEPT !.wrote = @ + 1, !.blocked = full],
                        out |-> IF c.bs = "OPEN" THEN <<c.wrote + 1>> ELSE <<>>])
      /\ UNCHANGED <<tube, mail, tubeScene>>

\* bytestream_write_blocked_cb.
StreamTakesMore(x, k) ==
  /\ conn[x][k].bs = "OPEN" /\ conn[x][k].heeded /\ conn[x][k].blocked
  /\ Happens(x, k, [At0(x, k) EXCEPT !.c.blocked = FALSE])
  /\ UNCHANGED <<tube, mail, tubeScene>>

\* Defect: a client that does not read is sent more.
ReceivedUnheld(a, u, full) ==
  IF full THEN [a EXCEPT !.c.buf = <<u>>] ELSE [a EXCEPT !.c.got = Append(@, u)]

\* data_received_cb: the transport takes the data, or keeps it.
Received(a, u, full) ==
  IF full THEN [a EXCEPT !.c.buf = Append(@, u), !.c.held = TRUE]
  ELSE [a EXCEPT !.c.got = Append(@, u)]

\* A unit comes on the bytestream, or its end, which waits for nobody.
\* gibber_transport_send asserts that the transport is connected.
StreamBrings(x, k, full) ==
  LET c == conn[x][k]
      u == Head(flow[x][k])
      a == At0(x, k)
  IN  /\ flow[x][k] # <<>> /\ c.bs \in {"ACCEPTED", "INITIATING", "OPEN", "CLOSED"}
      /\ u # Eof => c.bs = "CLOSED" \/ (c.bs = "OPEN" /\ ~c.held)
      /\ full => u # Eof /\ c.bs = "OPEN" /\ c.sock = "up"
      /\ c.buf # <<>> /\ u # Eof /\ c.bs = "OPEN" => full
      /\ LET dead == c.bs = "OPEN" /\ u # Eof /\ c.sock # "up"
             z == IF c.bs = "CLOSED" \/ dead THEN a ELSE IF u = Eof THEN BytestreamClosed(a) ELSE Received(a, u, full)
         IN  /\ conn' = [conn EXCEPT ![x][k] = z.c]
             /\ flow' = [flow EXCEPT ![x][k] = Tail(@)]
             /\ tube' = IF dead THEN [tube EXCEPT ![x] = "crashed"] ELSE tube
      /\ UNCHANGED <<mail, tubeScene>>

ClientReadsTube(x, k) ==
  /\ conn[x][k].buf # <<>> /\ conn[x][k].sock = "up"
  /\ Happens(x, k, Drained(At0(x, k)))
  /\ UNCHANGED <<tube, mail, tubeScene>>

\* The client closes its socket; that is seen when the transport is read, or as an
\* error of the socket, which is looked for even if the transport is not read.
ClientLeaves(x, k) ==
  /\ x \in tubeScene.leavers /\ conn[x][k].sock = "up" /\ ~conn[x][k].left
  /\ Happens(x, k, [At0(x, k) EXCEPT !.c.left = TRUE])
  /\ UNCHANGED <<tube, mail, tubeScene>>

LeavingSeen(x, k) ==
  /\ conn[x][k].left /\ conn[x][k].sock = "up" /\ (~conn[x][k].blocked \/ tubeScene.resets)
  /\ Happens(x, k, TransportGone(At0(x, k)))
  /\ UNCHANGED <<tube, mail, tubeScene>>

-----------------------------------------------------------------------------
TubeOfConnection(x, k) ==
  \/ StreamOpens(x, k) \/ StreamFails(x, k) \/ StreamTakesMore(x, k) \/ ClientReadsTube(x, k)
  \/ ClientLeaves(x, k) \/ LeavingSeen(x, k)
  \/ \E full \in BOOLEAN : ClientWritesTube(x, k, full) \/ StreamBrings(x, k, full)

TubeSteps ==
  \/ RequestTube \/ OfferTube \/ TubeOffered \/ AcceptTube \/ StreamAnswered
  \/ \E now, ok \in BOOLEAN : StreamRequested(now, ok)
  \/ \E x \in TubeEnds : CloseHeard(x) \/ CloseTube(x) \/ CloseAllTubes(x)
  \/ \E k \in Connections : (\E ok \in BOOLEAN : ServiceConnected(k, ok)) \/ ServiceRefused(k) \/ \E why \in {"fine", "stranger", "absent"} : ClientConnected(k, why)
  \/ \E x \in TubeEnds, k \in Connections : TubeOfConnection(x, k)

\* An assertion that fails ends the program, and the behaviour.
TubeNext == (\A x \in TubeEnds : tube[x] # "crashed") /\ TubeSteps

TubeSpec == TubeInit /\ [][TubeNext]_tubeVars

-----------------------------------------------------------------------------
(* Properties.                                                               *)

\* What a client reads from a connection is what the client at the other end wrote
\* to it, in order and without a gap (data_received_cb).
TubeDataWhole ==
  \A x \in TubeEnds, k \in Connections :
    LET had == conn[x][k].got \o conn[x][k].buf
    IN  had = [i \in 1 .. Len(had) |-> i] /\ Len(had) <= conn[FarEnd(x)][k].wrote

\* The coming of a connection and its end are each signalled once; what ended had
\* come, but for a service that never answered; and what is over is not left as
\* known (fire_connection_closed), unless it was over before anybody listened.
ConnectionsTold ==
  \A x \in TubeEnds, k \in Connections :
    LET c == conn[x][k]
    IN  /\ c.told <= 1 /\ c.gone <= 1
        /\ c.gone > c.told => x = "o"
        /\ c.told = 1 => c.gone = (IF c.id THEN 0 ELSE 1)
        /\ c.sock = "down" /\ c.heeded /\ c.told = 1 => c.gone = 1 \/ c.early

\* No assertion of tube-stream.c or gibber-transport.c fails, but for a client or a
\* service that was gone before the bytestream was open: the signals of its transport
\* are connected only then (extra_bytestream_negotiate_cb, data_received_cb).
TubeCrashesExplained ==
  \A x \in TubeEnds : tube[x] = "crashed" => \E k \in Connections : conn[x][k].early /\ conn[x][k].sock = "down"

\* Nothing is on its way and nobody has anything to do.
TubeQuiet ==
  \A x \in TubeEnds :
    /\ tube[x] # "crashed"
    /\ mail[x] = <<>>
    /\ \A k \in Connections :
         /\ flow[x][k] = <<>> /\ conn[x][k].buf = <<>> /\ conn[x][k].sock # "connecting"
         /\ ~(conn[x][k].left /\ conn[x][k].sock = "up" /\ conn[x][k].heeded)
         /\ conn["c"][k].bs # "INITIATING"

\* A client that stays is given all that the other wrote, also what it wrote just
\* before it left (extra_bytestream_state_changed_cb, transport_buffer_empty_cb).
TubeDataArrives ==
  TubeQuiet /\ ~tubeScene.fails /\ ~tubeScene.refuses /\ tubeScene.closers \cup tubeScene.drops = {} =>
    \A x \in TubeEnds, k \in Connections : ~conn[x][k].left => Len(conn[x][k].got) = conn[FarEnd(x)][k].wrote

\* A connection whose bytestream is not closed.
BytestreamUp(c) == c.mapped /\ c.bs # "CLOSED"

\* When nothing is left to do, a connection that one end has ended is over at the
\* other: its clients are not left with a dead socket.  The exceptions are those of
\* the code: a tube that is closed while a stream is negotiated does not hear the
\* answer, and a client or service that goes before the stream is open is not heard.
ConnectionsEndTogether ==
  TubeQuiet =>
    \A k \in Connections :
      LET o == conn["o"][k]
          c == conn["c"][k]
      IN  /\ BytestreamUp(c) => BytestreamUp(o)
          /\ BytestreamUp(o) \/ c.id => BytestreamUp(c) \/ tube["c"] = "closed"
          /\ \A e \in {o, c} : /\ BytestreamUp(e) /\ e.sock = "down" => e.early
                             /\ e.mapped /\ ~BytestreamUp(e) => e.sock = "down"

\* docs/tubes.xml, of the message that a closing end sends: "Juliet SHOULD close all
\* streams when this message is received".
TubesClosedTogether == TubeQuiet /\ tube["o"] = "closed" => tube["c"] # "OPEN"
=============================================================================
