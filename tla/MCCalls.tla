------------------------------- MODULE MCCalls -------------------------------
(* Calls and tubes for TLC: a Jingle session of two clients, a streamed-media *)
(* channel, a call channel, a stream tube and a D-Bus tube.  In each behaviour *)
(* one of them moves, as `part' says.                                          *)
EXTENDS Jingle, MediaChannel, CallChannel, StreamTube, DBusTube

VARIABLES part

Each(i, r) == [p \in Peers |-> IF p = "I" THEN i ELSE r]

Setup == {"add", "accept", "describe", "candidates"}

\* A call with one content.
Plain ==
  [dialect |-> "v032", transport |-> "ice", old |-> FALSE, kinds |-> {"rtp"}, max |-> 1,
   start |-> {}, calls |-> Each(5, 4), modifiers |-> {}, ops |-> Each(Setup, Setup)]

\* A call under way.
Under ==
  [Plain EXCEPT !.start = {<<"I", 0>>, <<"I", 2>>}, !.max = 3, !.calls = Each(3, 3)]

CallWorlds ==
  {[Plain EXCEPT !.ops = Each(Setup \cup {"terminate", "hold"}, Setup \cup {"terminate", "hold"})],
   [Plain EXCEPT !.transport = "raw", !.calls = Each(6, 5)],
   [Plain EXCEPT !.dialect = "v015", !.ops = Each(Setup \cup {"hold"}, Setup)],
   [Plain EXCEPT !.dialect = "gtalk4", !.calls = Each(5, 4)],
   [Plain EXCEPT !.dialect = "gtalk4", !.old = TRUE, !.calls = Each(6, 4)],
   \* contents that the peer may not know
   [Plain EXCEPT !.kinds = {"rtp", "odd"}, !.max = 2, !.calls = Each(7, 2)],
   \* the responder adds a content
   [Plain EXCEPT !.max = 2, !.calls = Each(4, 7)],
   \* senders change and contents go while the session is set up
   [Plain EXCEPT !.ops = Each(Setup \cup {"senders"}, Setup), !.modifiers = {"I"}, !.calls = Each(6, 3)],
   [Plain EXCEPT !.max = 2, !.ops = Each(Setup \cup {"remove"}, Setup \cup {"remove", "reject"}),
                 !.calls = Each(8, 3)],
   \* calls under way: contents come and go, senders change, offers cross
   [Under EXCEPT !.max = 2, !.ops = Each({"remove", "add", "describe", "candidates"}, {"remove"}),
                 !.calls = Each(4, 2)],
   [Under EXCEPT !.max = 2, !.start = {<<"I", 0>>}, !.calls = Each(4, 4),
                 !.ops = Each({"add", "describe", "candidates"}, {"describe", "candidates", "reject"})],
   [Under EXCEPT !.start = {<<"I", 0>>}, !.calls = Each(3, 3),
                 !.ops = Each({"add", "describe", "candidates", "transport"}, {"add", "describe", "candidates"})],
   [Under EXCEPT !.start = {<<"I", 0>>}, !.modifiers = Peers, !.calls = Each(3, 2),
                 !.ops = Each({"senders", "hold", "terminate"}, {"hold", "senders"})],
   [Under EXCEPT !.start = {<<"I", 0>>}, !.modifiers = {"R"}, !.calls = Each(1, 2),
                 !.ops = Each({"remove", "terminate"}, {"senders"})],
   [Under EXCEPT !.kinds = {"rtp", "odd"}, !.start = {<<"I", 0>>}, !.max = 2, !.calls = Each(4, 1),
                 !.ops = Each({"add", "describe", "candidates"}, {"describe", "terminate"})]}

\* A media channel with the peer's contents or ours.
Outgoing ==
  [incoming |-> FALSE, how |-> "create", initial |-> <<"audio">>, more |-> {<<"video">>}, caps |-> "capable",
   decloak |-> FALSE, ensure |-> FALSE, disconnects |-> FALSE, relays |-> FALSE, senders |-> {"us", "peer"},
   offered |-> 0, ops |-> {}, calls |-> 3, busy |-> FALSE, whims |-> FALSE, peer |-> {}, max |-> 2]
Incoming == [Outgoing EXCEPT !.incoming = TRUE, !.offered = 1]

MediaSettings ==
  {[Outgoing EXCEPT !.ops = {"request", "remove", "direction", "error"}, !.peer = {"add", "remove", "modify"}],
   [Outgoing EXCEPT !.initial = <<"audio", "video">>, !.relays = TRUE, !.ops = {"remove", "request"},
                !.peer = {"remove"}, !.max = 3],
   [Incoming EXCEPT !.ops = {"accept", "request", "direction", "remove"}, !.peer = {"modify", "hold", "add"}],
   [Incoming EXCEPT !.offered = 2, !.ops = {"accept", "hang up", "close", "tones", "error", "remove"},
                  !.peer = {"remove"}],
   \* capabilities that come late
   [Outgoing EXCEPT !.caps = "unsure", !.decloak = TRUE, !.ensure = TRUE, !.disconnects = TRUE,
                !.ops = {"request", "hang up", "close"}],
   [Outgoing EXCEPT !.how = "anonymous", !.initial = <<>>, !.more = {<<"audio">>, <<"audio", "video">>},
                !.caps = "unsure", !.ops = {"add", "request", "close"}],
   \* holds
   [Outgoing EXCEPT !.ops = {"hold"}, !.peer = {"add", "remove"}],
   [Outgoing EXCEPT !.ops = {"hold"}, !.initial = <<"audio", "video">>, !.calls = 2, !.busy = TRUE],
   [Incoming EXCEPT !.ops = {"hold", "whim", "accept"}, !.whims = TRUE, !.peer = {"hold"}]}

\* A call channel.
Asked ==
  [incoming |-> FALSE, initial |-> {"audio", "video"}, supported |-> {"audio", "video"}, caps |-> "capable",
   ensure |-> FALSE, disconnects |-> FALSE, senders |-> {"us", "peer"}, offered |-> 1,
   ops |-> {"accept"}, uses |-> 3, peer |-> {}]
Called == [Asked EXCEPT !.incoming = TRUE]

CallScenes ==
  {[Asked EXCEPT !.caps = "unsure", !.ensure = TRUE, !.disconnects = TRUE],
   [Asked EXCEPT !.supported = {}, !.caps = "unsure", !.ensure = TRUE],
   [Asked EXCEPT !.ops = {"accept", "remove", "hangup", "close"}, !.peer = {"remove"}],
   [Asked EXCEPT !.initial = {"audio"}, !.ops = {"accept", "remove", "add", "receiving"},
                 !.peer = {"add", "modify"}],
   [Called EXCEPT !.offered = 2, !.ops = {"accept", "remove", "hangup", "close"}, !.peer = {"remove"}],
   [Called EXCEPT !.ops = {"accept", "sending", "receiving"}, !.peer = {"modify", "add"}],
   [Called EXCEPT !.senders = {"peer"}, !.ops = {"accept", "hold", "sending"}, !.peer = {"inform"}]}

\* A stream tube with one connection, two units each way.
Stream ==
  [caps |-> TRUE, valid |-> TRUE, asks |-> [x \in TubeEnds |-> "sense"], checks |-> FALSE, refuses |-> FALSE, fails |-> FALSE,
   closers |-> {}, drops |-> {}, leavers |-> {}, resets |-> FALSE, writes |-> 2, uses |-> {1}]

StreamScenes ==
  {[Stream EXCEPT !.caps = FALSE], [Stream EXCEPT !.valid = FALSE, !.closers = {"o"}],
   [Stream EXCEPT !.asks["c"] = "taken"],
   [Stream EXCEPT !.asks["o"] = "nonsense"], [Stream EXCEPT !.asks["c"] = "nonsense"], [Stream EXCEPT !.checks = TRUE, !.leavers = {"c"}],
   [Stream EXCEPT !.refuses = TRUE], [Stream EXCEPT !.fails = TRUE], [Stream EXCEPT !.closers = {"o"}],
   [Stream EXCEPT !.closers = {"c"}, !.drops = {"c"}], [Stream EXCEPT !.leavers = {"o", "c"}],
   [Stream EXCEPT !.leavers = {"o", "c"}, !.resets = TRUE, !.writes = 1],
   \* two connections
   [Stream EXCEPT !.uses = {1, 2}, !.writes = 0, !.closers = {"o", "c"}]}

\* A D-Bus tube of two contacts with three messages, and one in a room.
Private ==
  [muc |-> FALSE, caps |-> TRUE, valid |-> TRUE, closers |-> {}, leaves |-> FALSE, sizes |-> <<2, 3, 4>>,
   marks |-> <<"fine", "fine", "fine">>, elsewhere |-> 0, cut |-> 5, liars |-> {}, others |-> {}, claim |-> "m1", movers |-> {}, frags |-> <<>>, backlog |-> 0]
InRoom == [Private EXCEPT !.muc = TRUE, !.frags = <<3, 1, 2>>, !.backlog = 3]

DBusScenes ==
  {Private, [Private EXCEPT !.caps = FALSE], [Private EXCEPT !.valid = FALSE],
   [Private EXCEPT !.closers = {"o", "c"}, !.cut = 3], [Private EXCEPT !.leaves = TRUE],
   [Private EXCEPT !.marks[2] = "misread"], [Private EXCEPT !.marks[2] = "endian"], [Private EXCEPT !.marks[3] = "long"],
   [Private EXCEPT !.marks[2] = "corrupt"], InRoom, [InRoom EXCEPT !.movers = {"m1"}, !.frags = <<2, 3>>],
   [InRoom EXCEPT !.liars = {"m2"}], [InRoom EXCEPT !.others = {"m1", "m2"}, !.movers = {"m1"}, !.frags = <<2, 1>>],
   [InRoom EXCEPT !.marks[1] = "corrupt", !.elsewhere = 2]}

-----------------------------------------------------------------------------
\* The parts that do not move have one initial state.
MCInit ==
  /\ part \in {"session", "media", "call", "tube", "bus"}
  /\ Init /\ MediaInit /\ CallInit /\ TubeInit /\ BusInit
  /\ part # "session" => world = CHOOSE w \in Worlds : TRUE
  /\ part # "media" => setting = CHOOSE s \in Settings : TRUE
  /\ part # "call" => scene = CHOOSE s \in CallSettings : TRUE
  /\ part # "tube" => tubeScene = CHOOSE s \in TubeScenes : TRUE
  /\ part # "bus" => busScene = CHOOSE s \in BusScenes : TRUE

MCNext ==
  \/ part = "session" /\ Next /\ UNCHANGED <<part, mediaVars, callVars, tubeVars, busVars>>
  \/ part = "media" /\ MediaNext /\ UNCHANGED <<part, vars, callVars, tubeVars, busVars>>
  \/ part = "call" /\ CallNext /\ UNCHANGED <<part, vars, mediaVars, tubeVars, busVars>>
  \/ part = "tube" /\ TubeNext /\ UNCHANGED <<part, vars, mediaVars, callVars, busVars>>
  \/ part = "bus" /\ BusNext /\ UNCHANGED <<part, vars, mediaVars, callVars, tubeVars>>

MCSpec == MCInit /\ [][MCNext]_<<part, vars, mediaVars, callVars, tubeVars, busVars>>

\* Only the stream tube.
TubesOnly == MCInit /\ part = "tube" /\ [][MCNext]_<<part, vars, mediaVars, callVars, tubeVars, busVars>>

-----------------------------------------------------------------------------
\* When nothing is on its way, the two ends of a session agree on its state, its
\* contents and who holds; what an end offers is complete, and what it has it tells:
\* candidates, descriptions and contents (wocky-jingle-session.c, wocky-jingle-content.c).
SessionsAgree == StatesAgree /\ ContentsAgree /\ HoldsAgree /\ OffersComplete /\ NothingUnsaid

\* The user's media is sent, in a media channel and in a call channel, only where
\* the user agreed and both ends accept it; a hold settles as it was asked for
\* (media-stream.c, media-channel-hold.c, call-stream.c).
MediaAsAgreed == MediaConsented /\ HoldSettles /\ SendingAgreed

\* The objects of a content come and go together, and every request for a call
\* or for streams is answered (media-channel.c, call-channel.c, media-factory.c).
ChannelsTracked == RequestsTracked /\ StreamsMatch /\ ContentsTogether /\ CallRequestsAnswered

\* What a tube carries arrives whole and in order, every connection is told of and
\* ends at both ends, and nobody passes for another (tube-stream.c, tube-dbus.c,
\* bytestream-muc.c).
TubesSound ==
  /\ TubeDataWhole /\ TubeDataArrives /\ ConnectionsTold /\ ConnectionsEndTogether /\ TubeCrashesExplained
  /\ BusMessagesInOrder /\ BusNothingHeldBack /\ RoomMessagesWhole /\ BusClosedTogether
=============================================================================
