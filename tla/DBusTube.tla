------------------------------- MODULE DBusTube -------------------------------
(* A D-Bus tube (tube-dbus.c): between two contacts, an offerer "o" and a      *)
(* contact "c" with this code, over a bytestream that cuts what it carries     *)
(* anywhere; or in a room, where we ("c") hear the other members through the   *)
(* room's bytestream in fragments (bytestream-muc.c) and know their bus names  *)
(* from their presence (muc-channel.c).  libdbus and the room are external.    *)
EXTENDS Naturals, Sequences, SequencesExt, FiniteSets

CONSTANTS
  BusScenes,       \* what a behaviour may meet: see busScene
  HeaderSize,      \* the units of a header: a message is at least that long
  MaxQueue,        \* MAX_QUEUE_SIZE, in units
  MaxMessage,      \* DBUS_MAXIMUM_MESSAGE_LENGTH, in units
  Members          \* the other members of the room

VARIABLES
  bus,             \* [x]: the tube at end x, see NewBus
  letters,         \* [x]: stanzas on their way to x
  bytes,           \* the units on their way to c, on the bytestream
  room,            \* what the room has for us: presences and fragments
  member,          \* [m]: what member m of the room does, see NewMember
  busScene         \* a member of BusScenes: it never changes

busVars == <<bus, letters, bytes, room, member, busScene>>

BusEnds == {"o", "c"}
BusPeer(x) == IF x = "o" THEN "c" ELSE "o"

\* chan: the channel; offered, bs: the tube and its bytestream; srv: the socket is
\* served; client: dbus_conn; queue: dbus_msg_queue, oldest last; buf, need:
\* reassembly_buffer and reassembly_bytes_needed; got: what the clients were sent;
\* lost: a message did not fit the queue; names: dbus_names; parts: the fragments;
\* bad: what came was no D-Bus message, and the tube is to be closed.
NoName == <<"", "">>

NewBus ==
  [chan |-> "none", offered |-> FALSE, bs |-> "NONE", srv |-> FALSE, client |-> FALSE, queue |-> <<>>, buf |-> <<>>,
   need |-> 0, got |-> <<>>, lost |-> FALSE, bad |-> FALSE, wrote |-> 0, names |-> [m \in Members |-> NoName],
   parts |-> [m \in Members |-> <<>>], heard |-> [m \in Members |-> <<>>]]

\* What a member still sends: messages as their numbers of fragments; its name; and
\* how many messages and fragments it has sent.
NewMember == [in |-> FALSE, msg |-> 0, frag |-> 0]

BusInit ==
  /\ busScene \in BusScenes
  /\ bus = [x \in BusEnds |-> NewBus]
  /\ letters = [x \in BusEnds |-> <<>>]
  /\ bytes = <<>> /\ room = <<>>
  /\ member = [m \in Members |-> NewMember]

-----------------------------------------------------------------------------
(* Messages for the client.                                                  *)

\* Messages are numbered in the order they are sent; SizeOf gives their units.
SizeOf(i) == busScene.sizes[i]
QueueSize(q) == FoldSeq(LAMBDA i, n : SizeOf(i) + n, 0, q)

\* Defect: the queue is sent newest first.
FlushReversed(b) == [b EXCEPT !.client = TRUE, !.got = @ \o b.queue, !.queue = <<>>]

\* new_connection_cb: one client at a time, which is sent what was kept for it.
FlushQueue(b) == [b EXCEPT !.client = TRUE, !.got = @ \o Reverse(b.queue), !.queue = <<>>]

\* message_received: one that cannot be demarshalled is dropped.
HandOver(b, i) ==
  IF busScene.marks[i] = "corrupt" THEN b
  ELSE IF b.client THEN [b EXCEPT !.got = Append(@, i)]
  ELSE IF QueueSize(b.queue) + SizeOf(i) > MaxQueue THEN [b EXCEPT !.lost = TRUE]
  ELSE [b EXCEPT !.queue = <<i>> \o @]

\* The length that a header gives: collect_be32 puts the third byte of a length in
\* the place of the first, so that a long big-endian message seems far longer, or
\* too long, as one may be that some other program sends.
Stated(i) ==
  IF busScene.marks[i] = "misread" THEN MaxMessage
  ELSE IF busScene.marks[i] = "long" THEN MaxMessage + 1 ELSE SizeOf(i)

\* Defect: the next header is looked for in what is left of this message.
RECURSIVE ReassembleKeeps(_)
ReassembleKeeps(b) ==
  IF Len(b.buf) < HeaderSize THEN b
  ELSE IF b.need # 0 THEN IF Len(b.buf) < b.need THEN b
                          ELSE ReassembleKeeps([HandOver(b, b.buf[1][1]) EXCEPT !.buf = SubSeq(@, b.need, Len(@)), !.need = 0])
  ELSE IF busScene.marks[b.buf[1][1]] = "endian" \/ Stated(b.buf[1][1]) > MaxMessage THEN [b EXCEPT !.bad = TRUE]
  ELSE ReassembleKeeps([b EXCEPT !.need = Stated(b.buf[1][1])])

\* data_received_cb, the loop over reassembly_buffer; a header of neither endianness
\* or that gives too long a message ends it, and the tube.
RECURSIVE Reassemble(_)
Reassemble(b) ==
  IF Len(b.buf) < HeaderSize THEN b
  ELSE IF b.need # 0
  THEN IF Len(b.buf) < b.need THEN b
       ELSE Reassemble([HandOver(b, b.buf[1][1]) EXCEPT !.buf = SubSeq(@, b.need + 1, Len(@)), !.need = 0])
  ELSE IF busScene.marks[b.buf[1][1]] = "endian" \/ Stated(b.buf[1][1]) > MaxMessage THEN [b EXCEPT !.bad = TRUE]
  ELSE Reassemble([b EXCEPT !.need = Stated(b.buf[1][1])])

-----------------------------------------------------------------------------
(* The tube of two contacts.                                                 *)

LetterFor(x, t) == letters[x] # <<>> /\ Head(letters[x]) = t
Answered_(x, s) == letters' = [letters EXCEPT ![x] = Tail(@), ![BusPeer(x)] = @ \o s]

\* bytestream_state_changed_cb, CLOSED: the factory drops the tube and with that it
\* is disposed of (gabble_tube_dbus_dispose).
Disposed(b) == [b EXCEPT !.chan = "closed", !.bs = "CLOSED", !.srv = FALSE, !.client = FALSE, !.queue = <<>>]

\* gabble_tube_dbus_close, of a tube with or without bytestream; the peer sees the
\* end of a bytestream that is open, or the refusal of one that was offered.
CloseBus(x, b) ==
  /\ bus' = [bus EXCEPT ![x] = Disposed(b)]
  /\ letters' = [letters EXCEPT ![BusPeer(x)] = IF b.bs \in {"NONE", "CLOSED"} THEN @ ELSE Append(@, "end")]

\* gabble_private_tubes_factory_requestotron, gabble_tube_dbus_constructed.
RequestBus ==
  /\ ~busScene.muc /\ bus["o"].chan = "none"
  /\ bus' = [bus EXCEPT !["o"].chan = "open"]
  /\ UNCHANGED <<letters, bytes, room, member, busScene>>

\* gabble_tube_dbus_offer_async, gabble_tube_dbus_offer: without caps the tube stays.
OfferBus ==
  /\ bus["o"].chan = "open" /\ ~bus["o"].offered /\ busScene.caps
  /\ bus' = [bus EXCEPT !["o"].offered = TRUE]
  /\ letters' = [letters EXCEPT !["c"] = Append(@, "si")]
  /\ UNCHANGED <<bytes, room, member, busScene>>

\* gabble_private_tubes_factory_handle_si_tube_request.
BusOffered ==
  /\ LetterFor("c", "si")
  /\ bus' = [bus EXCEPT !["c"] = IF busScene.valid THEN [@ EXCEPT !.chan = "open", !.offered = TRUE, !.bs = "LOCAL_PENDING"] ELSE @]
  /\ Answered_("c", IF busScene.valid THEN <<>> ELSE <<"refused">>)
  /\ UNCHANGED <<bytes, room, member, busScene>>

\* gabble_tube_dbus_accept_async, gabble_tube_dbus_accept.
AcceptBus ==
  /\ ~busScene.muc /\ bus["c"].bs = "LOCAL_PENDING"
  /\ bus' = [bus EXCEPT !["c"].bs = "ACCEPTED"]
  /\ letters' = [letters EXCEPT !["o"] = Append(@, "accepted")]
  /\ UNCHANGED <<bytes, room, member, busScene>>

\* bytestream_negotiate_cb; a tube that is gone does not hear the answer.
BusNegotiated ==
  /\ LetterFor("o", "accepted") \/ LetterFor("o", "refused")
  /\ bus' = [bus EXCEPT !["o"] = IF @.chan = "closed" THEN @
                                  ELSE IF Head(letters["o"]) = "refused" THEN Disposed(@) ELSE [@ EXCEPT !.bs = "INITIATING"]]
  /\ Answered_("o", <<>>)
  /\ UNCHANGED <<bytes, room, member, busScene>>

\* bytestream_state_changed_cb, OPEN: tube_dbus_open serves the socket.
BusOpens(x) ==
  /\ bus[x].bs = IF x = "c" THEN "ACCEPTED" ELSE "INITIATING"
  /\ IF x = "c" THEN bus["o"].bs = "INITIATING" ELSE bus["c"].bs \in {"OPEN", "CLOSED"}
  /\ bus' = [bus EXCEPT ![x].bs = "OPEN", ![x].srv = TRUE]
  /\ UNCHANGED <<letters, bytes, room, member, busScene>>

\* The bytestream is closed by the other end, after what is on its way.
BusEnds_(x) ==
  /\ LetterFor(x, "end") /\ (x = "c" => bytes = <<>>)
  /\ bus' = [bus EXCEPT ![x] = IF @.bs = "NONE" /\ x = "o" /\ @.offered THEN Disposed(@)
                               ELSE IF @.bs \in {"NONE", "CLOSED"} THEN @ ELSE Disposed(@)]
  /\ Answered_(x, <<>>)
  /\ UNCHANGED <<bytes, room, member, busScene>>

UserClosesBus(x) ==
  /\ x \in busScene.closers /\ bus[x].chan = "open"
  /\ CloseBus(x, bus[x])
  /\ UNCHANGED <<bytes, room, member, busScene>>

\* new_connection_cb; the filter hears when the client goes.
BusClientConnects(x) ==
  /\ bus[x].srv /\ ~bus[x].client
  /\ bus' = [bus EXCEPT ![x] = FlushQueue(@)]
  /\ UNCHANGED <<letters, bytes, room, member, busScene>>

BusClientLeaves(x) ==
  /\ bus[x].client /\ busScene.leaves
  /\ bus' = [bus EXCEPT ![x].client = FALSE]
  /\ UNCHANGED <<letters, bytes, room, member, busScene>>

\* filter_cb: a message of the client of o is marshalled and sent.
BusClientSends ==
  LET i == bus["o"].wrote + 1
  IN  /\ ~busScene.muc /\ bus["o"].client /\ bus["o"].bs = "OPEN" /\ i <= Len(busScene.sizes)
      /\ bus' = [bus EXCEPT !["o"].wrote = i]
      /\ bytes' = bytes \o [u \in 1 .. SizeOf(i) |-> <<i, u>>]
      /\ UNCHANGED <<letters, room, member, busScene>>

\* data_received_cb, of the next n units.
BusData(n) ==
  /\ n <= Len(bytes) /\ bus["c"].bs \in {"OPEN", "CLOSED"}
  /\ LET b == Reassemble([bus["c"] EXCEPT !.buf = @ \o SubSeq(bytes, 1, n)])
     IN  IF bus["c"].bs = "CLOSED" THEN UNCHANGED <<bus, letters>>
         ELSE IF b.bad THEN CloseBus("c", b)
         ELSE bus' = [bus EXCEPT !["c"] = b] /\ UNCHANGED letters
  /\ bytes' = SubSeq(bytes, n + 1, Len(bytes))
  /\ UNCHANGED <<room, member, busScene>>

-----------------------------------------------------------------------------
(* The tube of a room.                                                       *)

\* The name that a member should have: _gabble_generate_dbus_unique_name.
UniqueName(m) == <<":2.", m>>

\* What a member calls itself in its presence; a message says who sent it.  Some give
\* names of another kind, which are not made of the nick.
Claimed(m) ==
  IF m \in busScene.liars THEN UniqueName(busScene.claim)
  ELSE IF m \in busScene.others THEN <<":1.", busScene.claim>> ELSE UniqueName(m)

\* tubes_presence_update of a room's first news of the tube; then AcceptBus opens it.
TubeInRoom ==
  /\ busScene.muc /\ bus["c"].chan = "none" /\ \E m \in Members : member[m].in
  /\ bus' = [bus EXCEPT !["c"].chan = "open", !["c"].offered = TRUE, !["c"].bs = "LOCAL_PENDING"]
  /\ UNCHANGED <<letters, bytes, room, member, busScene>>

\* gabble_tube_dbus_accept, tube_dbus_open.
AcceptInRoom ==
  /\ busScene.muc /\ bus["c"].bs = "LOCAL_PENDING"
  /\ bus' = [bus EXCEPT !["c"].bs = "OPEN", !["c"].srv = TRUE]
  /\ UNCHANGED <<letters, bytes, room, member, busScene>>

\* A member joins or leaves the tube, and says so in its presence.
MemberMoves(m) ==
  /\ busScene.muc /\ member[m].frag = 0 /\ Len(room) < busScene.backlog
  /\ member[m].in => m \in busScene.movers
  /\ member' = [member EXCEPT ![m].in = ~@]
  /\ room' = Append(room, [from |-> m, kind |-> IF member[m].in THEN "leaves" ELSE "joins"])
  /\ UNCHANGED <<bus, letters, bytes, busScene>>

\* send_data_to of a member: a message of several fragments, one after the other,
\* between those of the other members.
Frag(n, i) == IF n = 1 THEN "complete" ELSE IF i = 1 THEN "first" ELSE IF i = n THEN "last" ELSE "middle"
MemberSends(m) ==
  LET i == member[m].msg + 1
      n == busScene.frags[i]
      f == member[m].frag + 1
  IN  /\ busScene.muc /\ member[m].in /\ i <= Len(busScene.frags) /\ Len(room) < busScene.backlog
      /\ member' = [member EXCEPT ![m].frag = IF f = n THEN 0 ELSE f, ![m].msg = IF f = n THEN i ELSE @]
      /\ room' = Append(room, [from |-> m, kind |-> Frag(n, f), msg |-> i, part |-> f, as |-> Claimed(m)])
      /\ UNCHANGED <<bus, letters, bytes, busScene>>

\* Defect: several may have a name.
AddNameUnchecked(b, m, name) ==
  IF b.names[m] # NoName \/ (name[1] = ":2." /\ name # UniqueName(m)) THEN b ELSE [b EXCEPT !.names[m] = name]

\* Defect: a name may be any member's.
AddNameOfAnybody(b, m, name) ==
  IF b.names[m] # NoName \/ (\E o \in Members : b.names[o] = name) THEN b ELSE [b EXCEPT !.names[m] = name]

\* gabble_tube_dbus_add_name: a member has one name, which nobody else has and, if it
\* has the prefix ":2.", is made of its nick.
AddName(b, m, name) ==
  IF b.names[m] # NoName \/ (\E o \in Members : b.names[o] = name) \/ (name[1] = ":2." /\ name # UniqueName(m)) THEN b
  ELSE [b EXCEPT !.names[m] = name]

\* tubes_presence_update, gabble_tube_dbus_remove_name.
PresenceInRoom ==
  LET s == Head(room)
      b == bus["c"]
  IN  /\ room # <<>> /\ s.kind \in {"joins", "leaves"}
      /\ bus' = [bus EXCEPT !["c"] = IF b.chan # "open" THEN b
                                     ELSE IF s.kind = "joins" THEN AddName(b, s.from, Claimed(s.from))
                                     ELSE [b EXCEPT !.names[s.from] = NoName]]
      /\ room' = Tail(room)
      /\ UNCHANGED <<letters, bytes, member, busScene>>

\* Defect: the fragments of all members go into one buffer.
CollectShared(b, s) ==
  LET whole(p) == [b EXCEPT !.parts = [m \in Members |-> <<>>], !.heard[s.from] = Append(@, p)]
      kept == b.parts[s.from]
  IN  CASE s.kind = "complete" -> whole(<<<<s.msg, s.part>>>>)
        [] s.kind = "first" -> [b EXCEPT !.parts = [m \in Members |-> <<<<s.msg, s.part>>>>]]
        [] kept = <<>> -> b
        [] s.kind = "middle" -> [b EXCEPT !.parts = [m \in Members |-> Append(kept, <<s.msg, s.part>>)]]
        [] OTHER -> whole(Append(kept, <<s.msg, s.part>>))

\* message_received: a message that is corrupt, meant for somebody else or whose
\* sender is not known by the name that it gives is dropped.
ForUs(b, s) == /\ busScene.marks[s.msg] # "corrupt"
               /\ s.msg # busScene.elsewhere
               /\ b.names[s.from] = s.as

\* gabble_bytestream_muc_receive, and what becomes of the whole.
Collect(b, s) ==
  LET whole(p) == [b EXCEPT !.parts[s.from] = <<>>, !.heard[s.from] = IF ForUs(b, s) THEN Append(@, p) ELSE @]
      kept == b.parts[s.from]
  IN  CASE s.kind = "complete" -> whole(<<<<s.msg, s.part>>>>)
        [] s.kind = "first" -> [b EXCEPT !.parts[s.from] = <<<<s.msg, s.part>>>>]
        [] kept = <<>> -> b
        [] s.kind = "middle" -> [b EXCEPT !.parts[s.from] = Append(@, <<s.msg, s.part>>)]
        [] OTHER -> whole(Append(kept, <<s.msg, s.part>>))

FragmentInRoom ==
  LET s == Head(room)
      b == bus["c"]
  IN  /\ room # <<>> /\ s.kind \notin {"joins", "leaves"}
      /\ bus' = [bus EXCEPT !["c"] = IF b.bs # "OPEN" THEN b ELSE Collect(b, s)]
      /\ room' = Tail(room)
      /\ UNCHANGED <<letters, bytes, member, busScene>>

-----------------------------------------------------------------------------
BusNext ==
  \/ RequestBus \/ OfferBus \/ BusOffered \/ AcceptBus \/ BusNegotiated \/ BusClientSends
  \/ TubeInRoom \/ AcceptInRoom \/ PresenceInRoom \/ FragmentInRoom
  \/ \E x \in BusEnds : BusOpens(x) \/ BusEnds_(x) \/ UserClosesBus(x) \/ BusClientConnects(x) \/ BusClientLeaves(x)
  \/ \E n \in 1 .. busScene.cut : BusData(n)
  \/ \E m \in Members : MemberMoves(m) \/ MemberSends(m)

BusSpec == BusInit /\ [][BusNext]_busVars

-----------------------------------------------------------------------------
(* Properties.                                                               *)

\* However the bytestream cuts the messages and whenever the client comes and goes,
\* it is sent whole messages, each once and in order, and none is missing unless the
\* queue was full or it was corrupt; none comes from behind a header that is none
\* (data_received_cb, message_received).
BusMessagesInOrder ==
  LET b == bus["c"]
      had == b.got \o Reverse(b.queue)
  IN  /\ \A i \in 1 .. Len(had) - 1 : had[i] < had[i + 1]
      /\ ~b.lost /\ ~busScene.leaves =>
           \A i \in DOMAIN had : \A j \in 1 .. had[i] : busScene.marks[j] = "corrupt" \/ \E h \in DOMAIN had : had[h] = j
      /\ \A i \in DOMAIN had : \A j \in 1 .. had[i] : busScene.marks[j] \in {"fine", "corrupt"}
      /\ \A u \in DOMAIN b.buf : u > 1 => b.buf[u] = IF b.buf[u - 1][2] = SizeOf(b.buf[u - 1][1]) THEN <<b.buf[u - 1][1] + 1, 1>>
                                                     ELSE <<b.buf[u - 1][1], b.buf[u - 1][2] + 1>>
      /\ b.buf # <<>> => b.buf[1][2] = 1

\* All that came is with the client, in the queue or is less than a message, but for
\* a long big-endian one, whose length collect_be32 gets wrong; and an open tube has
\* no header that is none.
BusNothingHeldBack ==
  LET b == bus["c"]
  IN  b.bs = "OPEN" /\ b.buf # <<>> /\ busScene.marks[b.buf[1][1]] # "misread" =>
        /\ b.buf[Len(b.buf)][1] = b.buf[1][1] /\ Len(b.buf) < SizeOf(b.buf[1][1])
        /\ busScene.marks[b.buf[1][1]] \in {"endian", "long"} => Len(b.buf) < HeaderSize

\* In a room a message is taken whole and from one member, and nobody passes for
\* another: a name made of a nick is its member's, and no two have the same
\* (gabble_bytestream_muc_receive, gabble_tube_dbus_add_name).
RoomMessagesWhole ==
  \A m \in Members :
    LET b == bus["c"]
    IN  /\ b.names[m][1] = ":2." => b.names[m] = UniqueName(m)
        /\ b.names[m] # NoName => \A o \in Members \ {m} : b.names[o] # b.names[m]
        /\ \A i \in DOMAIN b.heard[m] :
             LET p == b.heard[m][i]
             IN  p = [f \in 1 .. busScene.frags[p[1][1]] |-> <<p[1][1], f>>] /\ m \notin busScene.liars
        /\ \A i \in 1 .. Len(b.heard[m]) - 1 : b.heard[m][i][1][1] < b.heard[m][i + 1][1][1]

\* A tube that one end closed is closed at the other when nothing is on its way, but
\* for an offer that was given up before it was answered.
BusClosedTogether ==
  letters = [x \in BusEnds |-> <<>>] /\ bytes = <<>> /\ ~busScene.muc =>
    /\ bus["c"].chan = "closed" => bus["o"].chan = "closed"
    /\ bus["o"].chan = "closed" /\ bus["c"].chan = "open" => bus["c"].bs \in {"LOCAL_PENDING", "ACCEPTED"}
=============================================================================
