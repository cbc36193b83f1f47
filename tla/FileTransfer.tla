----------------------------- MODULE FileTransfer -----------------------------
(* File transfers: the channels and their manager (ft-channel.c,             *)
(* ft-manager.c), offered over a bytestream or as a Google share             *)
(* (gtalk-file-collection.c, jingle-share.c).  Of the two ends "s" sends and *)
(* "r" receives; each runs this code or, for a share, is a Google client.    *)
(* The bytestream and the Jingle session are in modules of their own: here   *)
(* they open, fail, end, and keep the order of what they carry.              *)
EXTENDS Naturals, Sequences, SequencesExt

CONSTANTS
  FileWorlds,      \* what a behaviour may meet: see ftWorld
  FileSize         \* units of data in a file

VARIABLES
  ft,              \* [x]: the client at end x, see NewFtEnd
  sig,             \* [x]: stanzas on their way to x
  pipe,            \* [x]: what is on its way to x on the stream of data
  ftWorld          \* a member of FileWorlds: it never changes, but for gets

ftVars == <<ft, sig, pipe, ftWorld>>

FtEnds == {"s", "r"}
FtPeer(x) == IF x = "s" THEN "r" ELSE "s"
Files == DOMAIN ftWorld.names
Final == {"COMPLETED", "CANCELLED"}

\* A channel.  bs, col: it holds the bytestream, the collection; addr: it has a
\* socket_address; tr: its socket to the client, tblock: not read, tbuf: what is
\* not written to it; moved: transferred_bytes; told: the last that was signalled;
\* reg: the manager has it; back: it left COMPLETED or CANCELLED.
NewChannel ==
  [state |-> "NONE", bs |-> FALSE, col |-> FALSE, addr |-> FALSE, listener |-> FALSE, tr |-> "none", tblock |-> FALSE,
   tbuf |-> <<>>, got |-> <<>>, moved |-> 0, offset |-> 0, opened |-> FALSE, timer |-> FALSE, told |-> 0,
   reg |-> FALSE, back |-> FALSE]

\* The channels; the bytestream and whether it is not read or written; the
\* collection: its list of channels, channels_reading and channels_usable, the
\* current channel, the state of HTTP and of the session, the ICE agent.
NewFtEnd ==
  [ch |-> [f \in 1 .. 2 |-> NewChannel], asked |-> FALSE, bs |-> "NONE", bread |-> FALSE,
   status |-> "PENDING", list |-> <<>>, reading |-> {}, usable |-> {}, cur |-> 0, http |-> "IDLE", left |-> 0,
   attached |-> FALSE, rbuf |-> <<>>, wbuf |-> <<>>, ses |-> "none", ice |-> "none", cands |-> FALSE, used |-> FALSE,
   freed |-> FALSE, heard |-> FALSE, crashed |-> "no"]

FtInit ==
  /\ ftWorld \in FileWorlds
  /\ ft = [x \in FtEnds |-> NewFtEnd]
  /\ sig = [x \in FtEnds |-> <<>>] /\ pipe = [x \in FtEnds |-> <<>>]

\* What happens at end x: its new state, and what it sends.
FtDoing(x) == [x |-> x, n |-> ft[x], sig |-> <<>>, dat |-> <<>>]
Tell(d, m) == [d EXCEPT !.sig = Append(@, m)]
Put(d, u) == [d EXCEPT !.dat = Append(@, u)]
Sends(d) == d.x = "s"
Crash(d, why) == [d EXCEPT !.n.crashed = IF @ = "no" THEN why ELSE @]

-----------------------------------------------------------------------------
(* The state of a channel, and of a collection.                              *)

\* gabble_file_transfer_channel_set_state.
SetFtState(d, f, s) ==
  IF d.n.ch[f].state = s THEN d
  ELSE [d EXCEPT !.n.ch[f].state = s, !.n.ch[f].back = @ \/ d.n.ch[f].state \in Final]

Cancel(d, f) == IF d.n.ch[f].state \in Final THEN d ELSE SetFtState(d, f, "CANCELLED")

\* channel_open.
ChannelOpen(d, f) ==
  LET y == [d EXCEPT !.n.ch[f].opened = TRUE]
  IN  IF d.n.ch[f].addr THEN [SetFtState(y, f, "OPEN") EXCEPT !.n.ch[f].tblock = FALSE]
      ELSE SetFtState(y, f, "ACCEPTED")

\* gabble_bytestream_iface_close, and bytestream_closed.
CloseBytestream(d, f) ==
  LET y == [Cancel(d, f) EXCEPT !.n.bs = "CLOSED"]
  IN  CASE d.n.bs = "CLOSED" -> d
        [] d.n.bs = "LOCAL_PENDING" -> Tell(y, [t |-> "declined"])
        [] OTHER -> Put(y, "eof")

\* del_channel.
DelChannel(d, f) ==
  [d EXCEPT !.n.list = Remove(@, f), !.n.usable = @ \ {f}, !.n.reading = @ \ {f}, !.n.cur = IF @ = f THEN 0 ELSE @]

\* gtalk_file_collection_block_reading.
CollectionBlock(d, f, block) ==
  IF ~Contains(d.n.list, f) THEN Crash(d, "unknown channel")
  ELSE [d EXCEPT !.n.reading = IF block THEN @ \ {f} ELSE @ \cup {f},
                 !.n.attached = IF f = d.n.cur /\ d.n.ice # "none" THEN ~block ELSE @]

\* The channel after f in the list.
Following(list, f) ==
  LET i == IndexFirstSubSeq(<<f>>, list) IN IF f = 0 \/ i = 0 \/ i >= Len(list) THEN 0 ELSE list[i + 1]

\* Defect: only the channel that ends is told.
TerminateAlone(d) == [d EXCEPT !.n.status = "TERMINATED", !.n.ses = "ended"]

RECURSIVE StateChanged(_, _, _)
RECURSIVE CloseSession(_, _)
RECURSIVE Terminate(_, _)
RECURSIVE SessionEnds(_)
RECURSIVE ForChannels(_, _, _)
RECURSIVE ForNext(_, _, _)
RECURSIVE DisconnectTransport(_, _)

\* The loops over channels keep the next link over the call for this one.
ForNext(d, f, s) ==
  IF f # 0 /\ ~Contains(d.n.list, f) THEN Crash(d, "freed link") ELSE ForChannels(d, f, s)
ForChannels(d, f, s) ==
  IF f = 0 THEN d ELSE ForNext(StateChanged(d, f, s), Following(d.n.list, f), s)

\* jingle_session_terminated_cb.
SessionEnds(d) ==
  IF d.n.ses = "ended" \/ d.n.freed THEN [d EXCEPT !.n.ses = "ended"]
  ELSE ForChannels([d EXCEPT !.n.status = "TERMINATED", !.n.ses = "ended"],
                   IF d.n.list = <<>> THEN 0 ELSE Head(d.n.list), "TERMINATED")

\* wocky_jingle_session_terminate.
TerminateSession(d) ==
  IF d.n.ses = "ended" THEN d ELSE SessionEnds(Tell(d, [t |-> "terminate"]))

\* gtalk_file_collection_terminate.
Terminate(d, f) ==
  CASE ~Contains(d.n.list, f) -> d
    [] Contains(d.n.list, f) /\ d.n.cur # f -> StateChanged(DelChannel(d, f), f, "TERMINATED")
    [] Contains(d.n.list, f) /\ d.n.cur = f /\ d.n.status = "TRANSFERRING" ->
         TerminateSession([DelChannel(d, f) EXCEPT !.n.status = "TERMINATED"])
    [] OTHER -> DelChannel(d, f)

\* gtalk_file_collection_dispose: nobody holds it.
DropCollection(d) ==
  IF d.n.freed \/ \E f \in 1 .. 2 : d.n.ch[f].col THEN d
  ELSE [TerminateSession([d EXCEPT !.n.list = <<>>]) EXCEPT !.n.freed = TRUE, !.n.cur = 0, !.n.attached = FALSE]

\* close_session_and_transport: the collection, the bytestream and the sockets go.
LeaveCollection(d, f) == IF d.n.ch[f].col THEN Terminate(d, f) ELSE d
DropOwn(d, f) == IF d.n.ch[f].col THEN DropCollection([d EXCEPT !.n.ch[f].col = FALSE]) ELSE d
LeaveBytestream(d, f) == IF d.n.ch[f].bs THEN [CloseBytestream(d, f) EXCEPT !.n.ch[f].bs = FALSE] ELSE d
CloseSession(d, f) ==
  [LeaveBytestream(DropOwn(LeaveCollection(d, f), f), f) EXCEPT
     !.n.ch[f].listener = FALSE, !.n.ch[f].tr = IF @ = "up" THEN "none" ELSE @, !.n.ch[f].tbuf = <<>>]

\* transport_disconnected_cb.
Disconnected(d, f) ==
  IF IF Sends(d) THEN d.n.ch[f].moved + d.n.ch[f].offset < FileSize ELSE d.n.ch[f].state # "COMPLETED"
  THEN CloseSession(SetFtState(d, f, "CANCELLED"), f)
  ELSE d

\* gibber_transport_disconnect.
DisconnectTransport(d, f) ==
  IF d.n.ch[f].tr # "up" THEN d ELSE Disconnected([d EXCEPT !.n.ch[f].tr = "closed", !.n.ch[f].tbuf = <<>>], f)

\* gabble_file_transfer_channel_gtalk_file_collection_state_changed.
StateChanged(d, f, s) ==
  CASE s = "PENDING" -> SetFtState(d, f, "PENDING")
    [] s = "ACCEPTED" -> IF d.n.ch[f].state = "PENDING" THEN SetFtState(d, f, "ACCEPTED") ELSE d
    [] s = "OPEN" -> ChannelOpen(d, f)
    [] s \in {"TERMINATED", "ERROR"} ->
         CloseSession(IF s = "ERROR" THEN SetFtState(d, f, "CANCELLED") ELSE Cancel(d, f), f)
    [] s = "COMPLETED" /\ d.n.ch[f].tbuf = <<>> -> DisconnectTransport(SetFtState(d, f, "COMPLETED"), f)
    [] OTHER -> SetFtState(d, f, "COMPLETED")

ForAll(d, s) == ForChannels(d, IF d.n.list = <<>> THEN 0 ELSE Head(d.n.list), s)

\* set_current_channel.
SetCurrent(d, f) ==
  IF f = 0 THEN [d EXCEPT !.n.cur = 0]
  ELSE CollectionBlock(StateChanged([d EXCEPT !.n.cur = f], f, "OPEN"), f, f \notin d.n.reading)

-----------------------------------------------------------------------------
(* What happens takes effect.                                                *)

Gabble(x) == ftWorld[x] = "gabble"

FtEffect(d, s, p) ==
  /\ ft[d.x].crashed = "no"
  /\ ft' = [ft EXCEPT ![d.x] = d.n]
  /\ sig' = [s EXCEPT ![FtPeer(d.x)] = @ \o d.sig]
  /\ pipe' = [p EXCEPT ![FtPeer(d.x)] = @ \o d.dat]
  /\ UNCHANGED ftWorld

FtReact(d) == FtEffect(d, sig, pipe)
FtHears(x, t) == Gabble(x) /\ sig[x] # <<>> /\ Head(sig[x]).t = t
FtHeard(d) == FtEffect(d, [sig EXCEPT ![d.x] = Tail(@)], pipe)

-----------------------------------------------------------------------------
(* Offers.                                                                   *)

\* gabble_file_transfer_channel_offer_file: how the file is offered, or "no".
OfferedVia ==
  CASE ~ftWorld.online \/ (ftWorld.metadata /\ ~ftWorld.metadataCap) -> "no"
    [] ftWorld.si /\ (~ftWorld.share \/ ~ftWorld.token) -> "si"
    [] ftWorld.share -> "share"
    [] OTHER -> "no"

\* gabble_ft_manager_handle_request, offer_bytestream, offer_gtalk_file_transfer,
\* gtalk_file_collection_new and gtalk_file_collection_initiate.
Request ==
  LET d == [FtDoing("s") EXCEPT !.n.asked = TRUE]
      y == [d EXCEPT !.n.ch[1].state = "PENDING", !.n.ch[1].reg = TRUE]
  IN  /\ Gabble("s") /\ ~ft["s"].asked
      /\ FtReact(CASE OfferedVia = "no" -> d
                   [] OfferedVia = "si" -> Tell(y, [t |-> "si"])
                   [] OTHER -> Tell([y EXCEPT !.n.ch[1].col = TRUE, !.n.list = <<1>>, !.n.reading = {1}, !.n.usable = {1},
                                              !.n.status = "INITIATED", !.n.ses = "sent"], [t |-> "initiate"]))

\* hyvaa_vappua, gabble_ft_manager_handle_si_request.
SiRequest ==
  /\ FtHears("r", "si")
  /\ LET d == [FtDoing("r") EXCEPT !.n.asked = TRUE]
     IN  FtHeard(IF ~ftWorld.valid THEN Tell([d EXCEPT !.n.bs = "CLOSED"], [t |-> "declined"])
                 ELSE [d EXCEPT !.n.bs = "LOCAL_PENDING", !.n.ch[1].state = "PENDING", !.n.ch[1].bs = TRUE,
                                !.n.ch[1].reg = TRUE])

\* The files of the peer's offer in the order of the manifest (parse_description
\* of jingle-share.c prepends each).
Manifest(x) == IF x = "s" THEN <<1>> ELSE Reverse([f \in Files |-> f])

\* new_jingle_session_cb, gtalk_file_collection_new_from_session.
NewJingleSession ==
  /\ FtHears("r", "initiate")
  /\ FtHeard([FtDoing("r") EXCEPT
       !.n.asked = TRUE, !.n.list = Manifest("r"), !.n.ses = "initiated",
       !.n.ch = [f \in 1 .. 2 |-> IF f \in Files THEN [@[f] EXCEPT !.state = "PENDING", !.col = TRUE, !.reg = TRUE] ELSE @[f]]])

\* gabble_file_transfer_channel_accept_file, gtalk_file_collection_accept.
AcceptCollection(d, f) ==
  LET y == [d EXCEPT !.n.usable = @ \cup {f}, !.n.reading = @ \ {f}]
  IN  IF y.n.status # "PENDING" THEN y
      ELSE Tell([y EXCEPT !.n.status = "ACCEPTED", !.n.ses = "active", !.n.http = "IDLE", !.n.ice = "relay", !.n.attached = TRUE],
                [t |-> "accepted"])

\* get_next_manifest_entry, where each file is asked for by its name: its channel
\* is the first of that name.
ByName(d, name) ==
  LET of == SelectSeq(d.n.list, LAMBDA g : ftWorld.names[g] = name) IN IF of = <<>> THEN 0 ELSE Head(of)

\* The next file that can be asked for, if there is one.
AskFor(d, entries) ==
  IF entries = <<>> THEN [d EXCEPT !.n.status = "WAITING"]
  ELSE LET name == ftWorld.names[Head(entries)]
       IN  SetCurrent(Put([d EXCEPT !.n.status = "TRANSFERRING", !.n.http = "RECEIVE"], name), ByName(d, name))
AskNext(d, had) ==
  IF had /\ d.n.freed THEN Crash(d, "freed collection")
  ELSE AskFor(d, SelectSeq(Manifest(d.x), LAMBDA f : ByName(d, ftWorld.names[f]) \in d.n.usable))

\* The current file is done with.
CurrentOver(d, error) ==
  [StateChanged(d, d.n.cur, IF error THEN "ERROR" ELSE "COMPLETED") EXCEPT !.n.cur = 0]

\* Defect: a file that is complete can be asked for again.
NextKeepsUsable(d, error) == AskNext(IF d.n.cur = 0 THEN d ELSE CurrentOver(d, error), d.n.cur # 0)

NextEntry(d, error) ==
  LET c == IF Len(d.n.list) = 1 THEN Tell(d, [t |-> "complete"]) ELSE d
  IN  AskNext(IF d.n.cur = 0 THEN d ELSE CurrentOver([c EXCEPT !.n.usable = @ \ {d.n.cur}], error), d.n.cur # 0)

\* A collection that waits for a channel to be accepted goes on.
Accepting(d) == IF d.n.status = "WAITING" THEN NextEntry(d, FALSE) ELSE d

\* Defect: what arrives before the client connects is not held back.
AcceptUnblocked(d, f) ==
  LET y == SetFtState([d EXCEPT !.n.ch[f].addr = TRUE, !.n.ch[f].listener = TRUE], f, "ACCEPTED")
  IN  IF d.n.ch[f].bs THEN Tell([y EXCEPT !.n.bs = "ACCEPTED"], [t |-> "accepted"]) ELSE Accepting(AcceptCollection(y, f))

AcceptChannel(d, f) ==
  LET y == SetFtState([d EXCEPT !.n.ch[f].addr = TRUE, !.n.ch[f].listener = TRUE,
                                !.n.ch[f].offset = IF d.n.ch[f].bs THEN ftWorld.offset ELSE 0], f, "ACCEPTED")
  IN  IF d.n.ch[f].bs THEN Tell([y EXCEPT !.n.bs = "ACCEPTED", !.n.bread = TRUE], [t |-> "accepted"])
      ELSE Accepting(AcceptCollection(y, f))

AcceptFile(f) ==
  /\ Gabble("r") /\ ft["r"].ch[f].reg /\ ft["r"].ch[f].state = "PENDING"
  /\ FtReact(AcceptChannel(FtDoing("r"), f))

\* gabble_file_transfer_channel_provide_file.
ProvideChannel(d) ==
  LET y == [d EXCEPT !.n.ch[1].addr = TRUE, !.n.ch[1].listener = TRUE]
  IN  IF d.n.ch[1].opened THEN SetFtState(y, 1, "OPEN") ELSE y

ProvideFile ==
  /\ Gabble("s") /\ ft["s"].ch[1].reg /\ ft["s"].ch[1].state \in {"PENDING", "ACCEPTED"} /\ ~ft["s"].ch[1].addr
  /\ FtReact(ProvideChannel(FtDoing("s")))

\* bytestream_negotiate_cb.
Negotiated ==
  LET d == FtDoing("s")
  IN  \/ FtHears("s", "declined") /\ FtHeard(IF d.n.ch[1].reg THEN SetFtState(d, 1, "CANCELLED") ELSE d)
      \/ /\ FtHears("s", "accepted") /\ OfferedVia = "si"
         /\ FtHeard(IF ~d.n.ch[1].reg THEN Put([d EXCEPT !.n.bs = "CLOSED"], "eof")
                    ELSE [d EXCEPT !.n.ch[1].bs = TRUE, !.n.ch[1].offset = ftWorld.offset, !.n.bs = "INITIATING"])

\* bytestream_state_changed_cb: the target is open first.
BytestreamOpens(x) ==
  /\ Gabble(x) /\ ft[x].bs = IF x = "r" THEN "ACCEPTED" ELSE "INITIATING"
  /\ x = "r" => ft["s"].bs = "INITIATING"
  /\ x = "s" => ft["r"].bs \in {"OPEN", "CLOSED"}
  /\ LET d == [FtDoing(x) EXCEPT !.n.bs = "OPEN"] IN FtReact(IF d.n.ch[1].bs THEN ChannelOpen(d, 1) ELSE d)

BytestreamFails(x) ==
  /\ Gabble(x) /\ ftWorld.fails /\ ft[x].bs \in {"ACCEPTED", "INITIATING"}
  /\ FtReact(CloseBytestream(FtDoing(x), 1))

-----------------------------------------------------------------------------
(* The session and the ICE agent of a share.                                 *)

\* jingle_session_state_changed_cb: the initiate was acknowledged, or accepted;
\* content_new_share_channel_cb.
Initiated ==
  /\ Gabble("s") /\ ft["s"].ses = "sent"
  /\ FtReact(ForAll([FtDoing("s") EXCEPT !.n.ses = "initiated"], "PENDING"))

SessionAccepted ==
  /\ FtHears("s", "accepted") /\ OfferedVia = "share" /\ ft["s"].ses # "sent"
  /\ LET d == FtDoing("s")
         y == [d EXCEPT !.n.ses = "active", !.n.status = IF @ = "INITIATED" THEN "ACCEPTED" ELSE @,
                        !.n.http = "SERVER_IDLE", !.n.ice = "relay", !.n.attached = TRUE]
     IN  FtHeard(IF d.n.ses # "initiated" THEN d ELSE ForAll(y, "ACCEPTED"))

SessionTerminated(x) == FtHears(x, "terminate") /\ FtHeard(SessionEnds(FtDoing(x)))

\* content_completed.
ContentCompleted ==
  /\ FtHears("s", "complete")
  /\ LET d == [FtDoing("s") EXCEPT !.n.heard = TRUE] IN FtHeard(IF d.n.freed \/ d.n.ses = "ended" THEN d ELSE ForAll(d, "COMPLETED"))

\* google_relay_session_cb.
RelaySession(x) ==
  /\ Gabble(x) /\ ft[x].ice = "relay"
  /\ FtReact([FtDoing(x) EXCEPT !.n.ice = IF ft[x].freed THEN "none" ELSE "gathering"])

\* Defect: the candidates that came before are forgotten.
GatheredForgets(d) == Tell([d EXCEPT !.n.ice = "gathered"], [t |-> "candidates"])

\* nice_candidate_gathering_done: those that the peer sent before are used now.
Gathered(d) == Tell([d EXCEPT !.n.ice = "gathered", !.n.used = d.n.cands], [t |-> "candidates"])
GatheringDone(x) ==
  Gabble(x) /\ ft[x].ice = "gathering" /\ ~ft[x].freed /\ ft[x].ses = "active" /\ FtReact(Gathered(FtDoing(x)))

\* content_new_remote_candidates_cb.
RemoteCandidates(x) ==
  /\ FtHears(x, "candidates")
  /\ FtHeard([FtDoing(x) EXCEPT !.n.cands = TRUE, !.n.used = @ \/ ft[x].ice = "gathered"])

\* nice_component_state_changed: the peer's agent has our candidates too.
ComponentFails(x) ==
  /\ Gabble(x) /\ ftWorld.fails /\ ft[x].ice \in {"gathering", "gathered", "up"} /\ ~ft[x].freed
  /\ FtReact(ForAll([FtDoing(x) EXCEPT !.n.ice = "failed"], "ERROR"))

PeerUses(x) == ~Gabble(FtPeer(x)) \/ ft[FtPeer(x)].used

\* nice_component_writable: the client asks for the first file; the server goes on.
ComponentWritable(x) ==
  LET d == [FtDoing(x) EXCEPT !.n.ice = "up"]
      y == [d EXCEPT !.n.ch[d.n.cur].tblock = FALSE, !.n.wbuf = <<>>]
  IN  /\ Gabble(x) /\ ft[x].ice \in {"gathered", "up"} /\ ~ft[x].freed /\ ft[x].used /\ PeerUses(x)
      /\ ft[x].ice = "gathered" \/ ft[x].wbuf # <<>>
      /\ FtReact(CASE d.n.http = "IDLE" -> NextEntry(d, FALSE)
                   [] d.n.http = "SERVER_SEND" /\ d.n.cur = 0 -> ForAll(d, "ERROR")
                   [] d.n.http = "SERVER_SEND" /\ d.n.wbuf # <<>> -> Put(y, Head(d.n.wbuf))
                   [] OTHER -> d)

-----------------------------------------------------------------------------
(* Data.                                                                     *)

\* emit_progress_update, transferred_chunk: at once at the end, or with a timer.
Chunk(d, f) ==
  LET y == [d EXCEPT !.n.ch[f].moved = @ + 1]
  IN  IF y.n.ch[f].moved + y.n.ch[f].offset >= FileSize
      THEN [y EXCEPT !.n.ch[f].told = y.n.ch[f].moved, !.n.ch[f].timer = FALSE]
      ELSE [y EXCEPT !.n.ch[f].timer = TRUE]

ProgressTimer(x, f) ==
  /\ ft[x].ch[f].timer
  /\ FtReact([FtDoing(x) EXCEPT !.n.ch[f].timer = FALSE, !.n.ch[f].told = ft[x].ch[f].moved])

\* transport_buffer_empty_cb: everything was written to the client.
BufferEmpty(d, f) ==
  LET y == IF d.n.ch[f].bs THEN [d EXCEPT !.n.bread = FALSE]
           ELSE IF d.n.ch[f].col THEN CollectionBlock(d, f, FALSE) ELSE d
  IN  IF d.n.ch[f].state \in Final THEN DisconnectTransport(y, f) ELSE y

\* The end of data_received_cb: the unit is counted; after the last the socket is
\* closed, once it is empty, and a full socket stops the reading.
Stopped(d, f) ==
  IF d.n.ch[f].bs THEN [d EXCEPT !.n.bread = TRUE]
  ELSE IF d.n.ch[f].col THEN CollectionBlock(d, f, TRUE) ELSE d
Completed(d, f, full) ==
  CASE d.n.ch[f].bs /\ d.n.ch[f].moved + d.n.ch[f].offset >= FileSize ->
         IF full THEN SetFtState(d, f, "COMPLETED") ELSE DisconnectTransport(SetFtState(d, f, "COMPLETED"), f)
    [] full /\ ~(d.n.ch[f].bs /\ d.n.ch[f].moved + d.n.ch[f].offset >= FileSize) -> Stopped(d, f)
    [] OTHER -> d
Counted(d, f, full) ==
  IF d.n.ch[f].tr = "none" THEN Crash(d, "no transport") ELSE Completed(Chunk(d, f), f, full)

\* data_received_cb.  The socket takes the data, and is empty, or is full.
DataReceived(d, f, u, full) ==
  CASE d.n.ch[f].tr = "none" -> Crash(d, "no transport")
    [] d.n.ch[f].tr = "closed" -> SetFtState(d, f, "CANCELLED")
    [] d.n.ch[f].tr = "up" /\ full -> Counted([d EXCEPT !.n.ch[f].tbuf = Append(@, u)], f, TRUE)
    [] OTHER -> Counted(BufferEmpty([d EXCEPT !.n.ch[f].got = Append(@, u)], f), f, FALSE)

\* What the bytestream brings: bytestream_data_received_cb, bytestream_closed.
BytestreamData(x, full) ==
  LET d == FtDoing(x)
      y == [d EXCEPT !.n.bs = "CLOSED"]
  IN  /\ Gabble(x) /\ ft[x].bs \notin {"NONE", "LOCAL_PENDING"} /\ pipe[x] # <<>>
      /\ ~ft[x].bread \/ ft[x].bs = "CLOSED"
      /\ full => ft[x].bs = "OPEN" /\ pipe[x][1] # "eof" /\ ft[x].ch[1].tr = "up"
      /\ ft[x].ch[1].tbuf # <<>> /\ pipe[x][1] # "eof" => full
      /\ FtEffect(CASE d.n.bs = "CLOSED" -> d
                    [] pipe[x][1] = "eof" -> IF d.n.ch[1].bs THEN Cancel(y, 1) ELSE y
                    [] d.n.ch[1].bs -> DataReceived(d, 1, pipe[x][1][2], full)
                    [] OTHER -> d,
                  sig, [pipe EXCEPT ![x] = Tail(@)])

\* http_data_received of the client.
IfNoneLeft(d) == IF d.n.left = 0 THEN NextEntry(d, FALSE) ELSE d
HttpClient(d, m, full) ==
  LET left == d.n.left - 1
  IN  CASE m[1] = "200" -> IfNoneLeft([d EXCEPT !.n.left = m[2], !.n.http = "BODY"])
        [] m[1] = "404" -> NextEntry([d EXCEPT !.n.left = 0], TRUE)
        [] m[1] = "500" -> ForAll([d EXCEPT !.n.left = 1], "ERROR")
        [] d.n.http = "BODY" /\ d.n.cur = 0 -> IF left = 0 THEN ForAll(d, "ERROR") ELSE Crash(d, "no channel")
        [] d.n.http = "BODY" /\ d.n.cur # 0 -> IfNoneLeft(DataReceived([d EXCEPT !.n.left = left], d.n.cur, m[2], full))
        [] OTHER -> d

\* http_data_received of the server: a new request says that the last is complete.
Serve(d, f) ==
  SetCurrent(Put([d EXCEPT !.n.status = "TRANSFERRING", !.n.http = IF f = 0 THEN "SERVER_IDLE" ELSE "SERVER_SEND"],
                 IF f = 0 THEN <<"404", 0>> ELSE <<"200", FileSize>>), f)
ServeNamed(d, name) == Serve(d, ByName(d, name))
HttpServer(d, name) ==
  ServeNamed(IF d.n.cur = 0 THEN d ELSE CurrentOver([d EXCEPT !.n.heard = TRUE], FALSE), name)

\* nice_data_received_cb: what comes while a file is sent is kept.
ShareData(x, full) ==
  LET d == FtDoing(x)
      m == pipe[x][1]
      all == d.n.rbuf \o <<m>>
  IN  /\ Gabble(x) /\ ft[x].attached /\ ft[x].ice = "up" /\ ~ft[x].freed /\ pipe[x] # <<>>
      /\ full => x = "r" /\ m[1] = "u" /\ ft[x].cur # 0 /\ ft[x].ch[ft[x].cur].tr = "up"
      /\ x = "r" /\ m[1] = "u" /\ ft[x].cur # 0 => (ft[x].ch[ft[x].cur].tbuf # <<>> => full)
      /\ FtEffect(IF x = "r" THEN HttpClient(d, m, full)
                  ELSE IF d.n.http = "SERVER_SEND" THEN [d EXCEPT !.n.rbuf = all]
                  ELSE HttpServer([d EXCEPT !.n.rbuf = Tail(all)], Head(all)),
                  sig, [pipe EXCEPT ![x] = Tail(@)])

-----------------------------------------------------------------------------
(* The client's socket, and the client.                                      *)

\* new_connection_cb, file_transfer_send, file_transfer_receive.
NewConnection_(d, f) ==
  LET y == [d EXCEPT !.n.ch[f].tr = "up", !.n.ch[f].listener = FALSE, !.n.ch[f].tblock = d.n.ch[f].state # "OPEN"]
  IN  IF Sends(d) THEN y
      ELSE IF d.n.ch[f].bs THEN [y EXCEPT !.n.bread = FALSE]
      ELSE IF d.n.ch[f].col THEN CollectionBlock(y, f, FALSE) ELSE y

ClientConnects(x, f) == Gabble(x) /\ ft[x].ch[f].listener /\ FtReact(NewConnection_(FtDoing(x), f))

\* Defect: the bytestream stays open when everything was sent.
SentStays(d) == SetFtState(d, 1, "COMPLETED")

\* The end of transport_handler; gtalk_file_collection_completed.
Sent(d) ==
  IF d.n.ch[1].bs THEN CloseBytestream(SetFtState(d, 1, "COMPLETED"), 1)
  ELSE IF d.n.ch[1].col /\ d.n.cur = 1 THEN [d EXCEPT !.n.http = "SERVER_IDLE", !.n.status = "WAITING"]
  ELSE d

\* transport_handler: the client writes the next unit; gtalk_file_collection_send_data
\* and the bytestream may not take more (bytestream_write_blocked_cb).
ClientWrites(blocked) ==
  LET d == FtDoing("s")
      c == d.n.ch[1]
      u == <<"u", c.offset + c.moved + 1>>
      ok == IF c.bs THEN d.n.bs = "OPEN" ELSE d.n.cur = 1
      y == IF c.col /\ blocked THEN [d EXCEPT !.n.wbuf = <<u>>, !.n.ch[1].tblock = TRUE]
           ELSE Put([d EXCEPT !.n.ch[1].tblock = blocked], u)
      z == Chunk(y, 1)
  IN  /\ Gabble("s") /\ c.tr = "up" /\ ~c.tblock /\ c.offset + c.moved < FileSize
      /\ c.bs \/ c.col
      /\ FtReact(IF ~ok THEN CloseSession(d, 1)
                 ELSE IF z.n.ch[1].moved + c.offset >= FileSize THEN Sent(z) ELSE z)

\* bytestream_write_blocked_cb.
WriteUnblocked ==
  /\ Gabble("s") /\ ft["s"].bs = "OPEN" /\ ft["s"].ch[1].tblock /\ ft["s"].ch[1].bs
  /\ FtReact([FtDoing("s") EXCEPT !.n.ch[1].tblock = FALSE])

\* The client has read everything.
ClientReads(f) ==
  LET d == FtDoing("r")
      c == d.n.ch[f]
  IN  /\ Gabble("r") /\ c.tr = "up" /\ c.tbuf # <<>>
      /\ FtReact(BufferEmpty([d EXCEPT !.n.ch[f].tbuf = <<>>, !.n.ch[f].got = @ \o c.tbuf], f))

\* The socket fails, or the client closes it (transport_disconnected_cb).
ClientDisconnects(x, f) ==
  /\ Gabble(x) /\ ft[x].ch[f].tr = "up" /\ x \in ftWorld.leaves
  /\ FtReact(DisconnectTransport(FtDoing(x), f))

\* gabble_file_transfer_channel_close and dispose, file_channel_closed_cb.
CloseChannel(d, f) ==
  LET y == CloseSession(Cancel(d, f), f)
  IN  [y EXCEPT !.n.ch[f].reg = FALSE, !.n.ch[f].timer = FALSE]

CloseTransfer(x, f) ==
  /\ ft[x].ch[f].reg /\ (x \in ftWorld.closers \/ ft[x].ch[f].state \in Final)
  /\ FtReact(CloseChannel(FtDoing(x), f))

\* connection_status_changed_cb: ft_manager_close_all.
FtDisconnects(x) ==
  LET one == IF ft[x].ch[1].reg THEN CloseChannel(FtDoing(x), 1) ELSE FtDoing(x)
  IN  /\ Gabble(x) /\ ftWorld.disconnects = x /\ \E f \in Files : ft[x].ch[f].reg
      /\ FtReact(IF one.n.ch[2].reg THEN CloseChannel(one, 2) ELSE one)

\* connection_presences_updated_cb.
PeerOffline(x) ==
  LET d == FtDoing(x)
      one == IF d.n.ch[1].reg THEN Cancel(d, 1) ELSE d
  IN  /\ Gabble(x) /\ ftWorld.offline = x /\ \E f \in Files : ft[x].ch[f].reg /\ ft[x].ch[f].state \notin Final
      /\ FtReact(IF one.n.ch[2].reg THEN Cancel(one, 2) ELSE one)

-----------------------------------------------------------------------------
(* A Google client at the other end (external).                              *)

GoogleOffers ==
  /\ ~Gabble("s") /\ ~ft["s"].asked
  /\ ft' = [ft EXCEPT !["s"].asked = TRUE]
  /\ sig' = [sig EXCEPT !["r"] = Append(@, [t |-> "initiate"])]
  /\ UNCHANGED <<pipe, ftWorld>>

\* It answers signals, and requests: with the file, or that it has none, or an error.
GoogleHears(x) ==
  /\ ~Gabble(x) /\ sig[x] # <<>>
  /\ LET m == Head(sig[x]).t
         y == [sig EXCEPT ![x] = Tail(@)]
         back == IF x = "r" /\ m = "initiate" THEN <<[t |-> "accepted"]>>
                 ELSE IF m = "candidates" THEN <<[t |-> "candidates"]>> ELSE <<>>
     IN  sig' = [y EXCEPT ![FtPeer(x)] = @ \o back]
  /\ UNCHANGED <<ft, pipe, ftWorld>>

GoogleServes ==
  /\ ~Gabble("s") /\ pipe["s"] # <<>>
  /\ \E a \in ftWorld.answers :
       pipe' = [r |-> pipe["r"] \o IF a = "200" THEN <<<<"200", FileSize>>>> \o [i \in 1 .. FileSize |-> <<"u", i>>]
                                   ELSE <<<<a, 0>>>>,
                s |-> Tail(pipe["s"])]
  /\ UNCHANGED <<ft, sig, ftWorld>>

GoogleAsks ==
  /\ ~Gabble("r") /\ ftWorld.gets # <<>> /\ ft["s"].ice = "up"
  /\ pipe' = [pipe EXCEPT !["s"] = Append(@, Head(ftWorld.gets)), !["r"] = <<>>]
  /\ ftWorld' = [ftWorld EXCEPT !.gets = Tail(@)]
  /\ UNCHANGED <<ft, sig>>

GoogleEnds(x, t) ==
  /\ ~Gabble(x) /\ t \in ftWorld.ends /\ ft[FtPeer(x)].ses = "active"
  /\ sig' = [sig EXCEPT ![FtPeer(x)] = Append(@, [t |-> t])]
  /\ ftWorld' = [ftWorld EXCEPT !.ends = @ \ {t}]
  /\ UNCHANGED <<ft, pipe>>

-----------------------------------------------------------------------------
FtOfChannel(x, f) ==
  ProgressTimer(x, f) \/ ClientConnects(x, f) \/ ClientDisconnects(x, f) \/ CloseTransfer(x, f)

FtOfEnd(x) ==
  \/ BytestreamOpens(x) \/ BytestreamFails(x) \/ SessionTerminated(x) \/ RelaySession(x) \/ GatheringDone(x)
  \/ RemoteCandidates(x) \/ ComponentFails(x) \/ ComponentWritable(x) \/ FtDisconnects(x) \/ PeerOffline(x)
  \/ \E full \in BOOLEAN : BytestreamData(x, full) \/ ShareData(x, full)
  \/ GoogleHears(x) \/ \E t \in {"complete", "terminate"} : GoogleEnds(x, t)
  \/ \E f \in Files : FtOfChannel(x, f)

FtNext ==
  \/ Request \/ SiRequest \/ NewJingleSession \/ ProvideFile \/ Negotiated \/ Initiated \/ SessionAccepted
  \/ ContentCompleted \/ WriteUnblocked \/ GoogleOffers \/ GoogleServes \/ GoogleAsks
  \/ \E f \in Files : AcceptFile(f) \/ ClientReads(f)
  \/ \E blocked \in BOOLEAN : ClientWrites(blocked)
  \/ \E x \in FtEnds : FtOfEnd(x)

FtSpec == FtInit /\ [][FtNext]_ftVars

-----------------------------------------------------------------------------
(* Properties.                                                               *)

\* Whoever receives is given the units of the file from the offset on, each once
\* and in order, although data comes before the client connects or faster than it
\* reads (data_received_cb); a channel says COMPLETED only when all of it came.
FilesWhole ==
  \A f \in Files :
    LET c == ft["r"].ch[f]
        had == c.got \o c.tbuf
    IN  /\ had = [i \in 1 .. Len(had) |-> c.offset + i]
        /\ c.state = "COMPLETED" => c.moved + c.offset = FileSize
        /\ c.state = "COMPLETED" /\ c.tr = "closed" /\ "r" \notin ftWorld.leaves => Len(c.got) = c.moved

\* Over a bytestream the receiver says COMPLETED after the sender did; over a share
\* the sender says it only after it heard that the receiver is complete
\* (gtalk_file_collection_completed).
CompleteInOrder ==
  LET s == ft["s"].ch[1]
      r == ft["r"].ch[1]
  IN  Gabble("s") =>
        /\ OfferedVia = "si" /\ r.state = "COMPLETED" => s.state = "COMPLETED" \/ s.back
        /\ OfferedVia = "share" /\ s.state = "COMPLETED" => ft["s"].heard /\ (Gabble("r") => r.moved = FileSize)

\* A transfer that is over stays so, but for one that was cancelled because the
\* contact went offline, whose stream goes on, or because the client's socket failed
\* before the contact answered, and for a share that is asked for twice or whose
\* agent fails when it is complete.
OverStaysOver ==
  \A x \in FtEnds, f \in Files :
    ft[x].ch[f].back => \/ ftWorld.offline = x \/ ~Gabble(FtPeer(x)) \/ ft[x].ice = "failed"
                        \/ x = "s" /\ "s" \in ftWorld.leaves /\ OfferedVia = "si"

\* No handler finds the collection or a link of its list gone, but for those that
\* tell an error to the channel that is current: its end ends the session.
CollectionKept ==
  \A x \in FtEnds :
    \/ ft[x].crashed = "no"
    \/ ft[x].crashed \in {"freed collection", "freed link"} /\ OfferedVia = "share"
    \/ ft[x].crashed = "no transport" /\ ftWorld.offline = x

\* Nothing is on its way, and no client, agent or bytestream has anything to do.
FtQuiet ==
  \A x \in FtEnds :
    /\ sig[x] = <<>> /\ pipe[x] = <<>> /\ ft[x].crashed = "no" /\ ft[x].asked /\ ft[x].bs \notin {"ACCEPTED", "INITIATING"}
    /\ ft[x].ice \notin {"relay", "gathering"} /\ (ft[x].ice = "gathered" => ~ft[x].used \/ ~PeerUses(x)) /\ ft[x].ses # "sent" /\ ft[x].wbuf = <<>>
    /\ \A f \in Files : /\ ~ft[x].ch[f].listener /\ ft[x].ch[f].tbuf = <<>> /\ ft[x].ch[f].state # "PENDING"
                        /\ Gabble(x) => ft[x].ch[f].addr \/ ft[x].ch[f].state \in Final
    /\ x = "s" /\ Gabble(x) /\ ft[x].ch[1].tr = "up" =>
         ft[x].ch[1].moved + ft[x].ch[1].offset >= FileSize \/ (ft[x].ch[1].tblock /\ ~ft[x].ch[1].bs)

\* When nothing is left to do the transfer is over at both ends.  The exceptions are
\* those of the code: a transfer resumed at the very end waits for a unit that does
\* not come, and one that went on after it was over.  A Google client decides itself
\* what it asks for.
TransfersEnd ==
  FtQuiet /\ (\A x \in FtEnds : ~ft[x].ch[1].back) /\ ftWorld.offset < FileSize /\ ftWorld.offline = "none" =>
    \A x \in FtEnds, f \in Files : Gabble(x) /\ Gabble("s") /\ Gabble("r") => ft[x].ch[f].state \in Final
=============================================================================
