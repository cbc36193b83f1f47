---------------------------- MODULE MediaChannel ----------------------------
(* A streamed-media channel: GabbleMediaChannel with its hold state          *)
(* (media-channel.c, media-channel-hold.c), its GabbleMediaStreams and the   *)
(* requests of GabbleMediaFactory, as the user, the streaming client, the    *)
(* peer and the presence cache use them.  The Jingle session under it is the *)
(* one of module Jingle, seen from one end: its stanzas are left out, the    *)
(* peer's are taken as they come.                                            *)
EXTENDS Naturals, FiniteSets, Sequences

CONSTANTS
  MaxContents,     \* contents of a session, over its life
  Settings         \* what a behaviour may do: see setting

VARIABLES
  m,               \* the state of the channel, see NoChannel
  mediaCalls,           \* calls of the user and the streaming client so far
  setting            \* a member of Settings: it never changes

mediaVars == <<m, mediaCalls, setting>>

Contents == 1 .. MaxContents
Requests == 1 .. 2   \* 1: of the initial streams, 2: RequestStreams

\* WockyJingleState and WockyJingleContentState.
STATE_NONE == 0
STATE_CREATED == 1
STATE_INITIATE_SENT == 2
STATE_INITIATED == 3
STATE_ACCEPT_SENT == 4
STATE_ACTIVE == 5
States == {"absent", "empty", "new", "sent", "acknowledged", "removing", "gone"}

NoContent ==
  [state |-> "absent", ours |-> FALSE, kind |-> "audio", senders |-> {"us", "peer"},
   described |-> FALSE, media |-> FALSE, cand |-> FALSE]

\* there: in priv->streams; dir and pending are the combined direction; told
\* is what the streaming client was told: playing, sending, and the holds that
\* it has not answered.  fresh: its idle callback is to come; heard: the peer's
\* description and candidates came to it.  late: the peer held us when it was made; agreed: the
\* user lets it send.
NoStream ==
  [there |-> FALSE, fresh |-> FALSE, heard |-> FALSE, ready |-> FALSE, playing |-> FALSE, sending |-> FALSE, onHold |-> FALSE,
   late |-> FALSE, localHold |-> FALSE, codecs |-> FALSE, awaiting |-> FALSE, dir |-> {}, pending |-> FALSE,
   agreed |-> FALSE,
   told |-> [heard |-> FALSE, playing |-> FALSE, sending |-> FALSE, holds |-> <<>>]]

\* made: the factory made it; announced: NewChannels; ensured: given to a
\* client by EnsureChannel without that; self and peer: their place in the
\* group; confused: a hold was asked for before the client was ready for it
\* or had answered the one before.
NoChannel ==
  [made |-> FALSE, closed |-> FALSE, announced |-> FALSE, ensured |-> FALSE, incoming |-> FALSE,
   self |-> "out", peer |-> "out", ready |-> FALSE, hold |-> "UNHELD", tones |-> FALSE, audio |-> FALSE,
   tried |-> FALSE, confused |-> FALSE, dangling |-> FALSE,
   state |-> STATE_NONE, accepted |-> FALSE, localHold |-> FALSE, remoteHold |-> FALSE,
   caps |-> "unsure", creating |-> {},
   cs |-> [k \in Contents |-> NoContent],
   st |-> [k \in Contents |-> NoStream],
   rq |-> [r \in Requests |-> [state |-> "none", kinds |-> <<>>, contents |-> {}, satisfied |-> {}]]]

MediaInit ==
  /\ setting \in Settings
  /\ m = [NoChannel EXCEPT !.caps = setting.caps]
  /\ mediaCalls = 0

-----------------------------------------------------------------------------
(* The streaming client hears of a stream when the channel is ready, and of  *)
(* what it is to do when the stream is.                                      *)

Streams(x) == {k \in Contents : x.st[k].there}
Live(x) == {k \in Contents : x.cs[k].state \notin {"absent", "gone"}}

\* push_remote_media_description, push_remote_candidates.
PushRemote(x, k) ==
  IF x.st[k].ready THEN [x EXCEPT !.st[k].told.heard = x.st[k].heard] ELSE x

\* Defect: what comes is passed on as it is.
RemoteDescriptionAtOnce(x, k) == IF x.st[k].ready THEN PushRemote([x EXCEPT !.st[k].heard = TRUE], k) ELSE x

\* new_remote_media_description_cb, new_remote_candidates_cb.
RemoteDescription(x, k) == PushRemote([x EXCEPT !.st[k].heard = TRUE], k)

PushPlaying(x, k) ==
  IF x.st[k].ready THEN [x EXCEPT !.st[k].told.playing = x.st[k].playing] ELSE x

\* push_sending: not while the peer holds us.
PushSending(x, k) ==
  IF x.st[k].ready THEN [x EXCEPT !.st[k].told.sending = x.st[k].sending /\ ~x.st[k].onHold] ELSE x

\* Defect: sending starts when the direction says so.
UpdateSendingAtOnce(x, k, start) ==
  LET new == "us" \in x.st[k].dir
  IN  IF x.st[k].sending = new THEN x ELSE PushSending([x EXCEPT !.st[k].sending = new], k)

\* update_sending: it starts when the content is accepted, and stops at once.
UpdateSending(x, k, start) ==
  LET new == "us" \in x.st[k].dir
  IN  IF x.st[k].sending = new \/ (new /\ ~start) THEN x
      ELSE PushSending([x EXCEPT !.st[k].sending = new], k)

\* Defect: what the peer asks for is granted.
UpdateDirectionGranted(x, k) ==
  LET wanted == x.cs[k].senders
  IN  IF x.st[k].dir = wanted THEN x ELSE UpdateSending([x EXCEPT !.st[k].dir = wanted], k, FALSE)

\* update_direction: that we send is for the user to decide.
UpdateDirection(x, k) ==
  LET wanted == x.cs[k].senders
      asks == "us" \in wanted /\ "us" \notin x.st[k].dir
      y == [x EXCEPT !.st[k].dir = IF asks THEN wanted \ {"us"} ELSE wanted,
                     !.st[k].pending = @ \/ asks]
  IN  IF y = x THEN x ELSE UpdateSending(y, k, FALSE)

\* content_state_changed_cb.
ContentState(x, k, state) ==
  LET y == [x EXCEPT !.cs[k].state = state, !.cs[k].described = @ \/ state = "acknowledged"]
      acknowledged == RemoteDescription([y EXCEPT !.st[k].playing = TRUE], k)
      removing == [y EXCEPT !.st[k].playing = FALSE, !.st[k].sending = FALSE]
  IN  IF ~x.st[k].there THEN y
      ELSE IF state = "acknowledged"
      THEN PushSending(PushPlaying(UpdateSending(acknowledged, k, TRUE), k), k)
      ELSE IF state = "removing" THEN PushPlaying(removing, k)
      ELSE y

-----------------------------------------------------------------------------
(* Hold.                                                                     *)

\* SetStreamHeld: who has not heard of the stream does not hear it, and who is
\* not ready with it will be told again what it was before.
Hold(x, k, held) ==
  [x EXCEPT !.st[k].told.holds = IF x.ready THEN Append(@, held) ELSE @,
            !.confused = @ \/ ~x.st[k].ready \/ x.st[k].told.holds # <<>>]

RECURSIVE HoldAll(_, _, _)
HoldAll(x, ks, held) ==
  IF ks = {} THEN x
  ELSE LET k == CHOOSE k \in ks : TRUE IN HoldAll(Hold(x, k, held), ks \ {k}, held)

\* wocky_jingle_session_set_local_hold, if there is a session.
SetSessionHold(x, held) == IF x.state = STATE_NONE THEN x ELSE [x EXCEPT !.localHold = held]

Unheld(x) == SetSessionHold([x EXCEPT !.hold = "UNHELD"], FALSE)

\* Defect: the first stream that is held or not decides.
HoldStateChangedByAny(x) ==
  LET held == {k \in Streams(x) : x.st[k].localHold}
  IN  CASE held # {} -> [x EXCEPT !.hold = IF @ = "PENDING_UNHOLD" THEN @ ELSE "HELD"]
        [] OTHER -> IF x.hold \in {"UNHELD", "PENDING_HOLD"} THEN x ELSE Unheld(x)

\* stream_hold_state_changed.
HoldStateChanged(x) ==
  LET held == {k \in Streams(x) : x.st[k].localHold}
  IN  CASE Streams(x) = {} ->
             IF x.hold = "PENDING_HOLD" THEN [x EXCEPT !.hold = "HELD"]
             ELSE IF x.hold = "PENDING_UNHOLD" THEN Unheld(x) ELSE x
        [] Streams(x) # {} /\ held = Streams(x) ->
             IF x.hold = "PENDING_UNHOLD" THEN x ELSE [x EXCEPT !.hold = "HELD"]
        [] held # {} /\ held # Streams(x) ->
             IF x.hold = "UNHELD" THEN [x EXCEPT !.hold = "PENDING_UNHOLD"]
             ELSE IF x.hold = "HELD" THEN [x EXCEPT !.hold = "PENDING_HOLD"] ELSE x
        [] OTHER -> IF x.hold \in {"UNHELD", "PENDING_HOLD"} THEN x ELSE Unheld(x)

\* stream_unhold_failed: everything is held again.
UnholdFailed(x) ==
  LET y == HoldStateChanged([x EXCEPT !.hold = "PENDING_HOLD"])
  IN  IF y.hold = "HELD" THEN y ELSE HoldAll(y, Streams(y), TRUE)

-----------------------------------------------------------------------------
(* Requests for streams.                                                     *)

Answer(x, r, how) == [x EXCEPT !.rq[r].state = how]

FailPending(x, rs) ==
  [x EXCEPT !.rq = [r \in Requests |-> IF r \in rs THEN [@[r] EXCEPT !.state = "failed"] ELSE @[r]]]

Pending(x, state) == {r \in Requests : x.rq[r].state = state}

\* pending_stream_request_maybe_satisfy.  The channel of the initial request is
\* announced.  A stream that was closed meanwhile is looked at all the same.
MaybeSatisfy(x, k) ==
  LET rs == {r \in Pending(x, "pending") : k \in x.rq[r].contents}
      r == CHOOSE r \in rs : TRUE
      y == [x EXCEPT !.rq[r].satisfied = @ \cup {k}]
  IN  IF rs = {} THEN x
      ELSE IF y.rq[r].satisfied # y.rq[r].contents THEN y
      ELSE [Answer(y, r, "ok") EXCEPT !.announced = @ \/ r = 1,
                                      !.dangling = @ \/ ~(y.rq[r].contents \subseteq Streams(y))]

\* stream_close_cb, after gabble_media_stream_close.
CloseStream(x, k) ==
  LET y == HoldStateChanged([x EXCEPT !.st[k] = NoStream])
      audio == \E j \in Streams(y) : y.cs[j].kind = "audio"
  IN  [y EXCEPT !.tones = @ /\ ~(y.audio /\ ~audio), !.audio = audio]

RECURSIVE CloseStreams(_, _)
CloseStreams(x, ks) ==
  IF ks = {} THEN x ELSE LET k == CHOOSE k \in ks : \A j \in ks : k <= j IN CloseStreams(CloseStream(x, k), ks \ {k})

\* gabble_media_channel_dispose, when nobody needs a closed channel any more:
\* a request of the factory keeps it.
MaybeDispose(x) ==
  IF ~x.closed \/ x.rq[1].state = "delayed" THEN x ELSE FailPending(x, Pending(x, "delayed"))

\* Defect: requests for streams are not answered.
SessionTerminatedQuietly(x) ==
  LET y == CloseStreams([x EXCEPT !.self = "out", !.peer = "out"], Streams(x))
  IN  MaybeDispose([y EXCEPT !.state = STATE_NONE, !.closed = TRUE,
                             !.cs = [k \in Contents |->
                                IF @[k].state = "absent" THEN @[k] ELSE [@[k] EXCEPT !.state = "gone"]]])

\* session_terminated_cb, which ends in gabble_media_channel_close.
SessionTerminated(x) ==
  LET y == CloseStreams(FailPending([x EXCEPT !.self = "out", !.peer = "out", !.creating = {}],
                                    Pending(x, "pending")), Streams(x))
  IN  MaybeDispose([y EXCEPT !.state = STATE_NONE, !.closed = TRUE,
                             !.cs = [k \in Contents |->
                                IF @[k].state = "absent" THEN @[k] ELSE [@[k] EXCEPT !.state = "gone"]]])

Close(x) ==
  IF x.closed THEN x
  ELSE IF x.state # STATE_NONE THEN SessionTerminated([x EXCEPT !.closed = TRUE])
  ELSE MaybeDispose([x EXCEPT !.closed = TRUE])

-----------------------------------------------------------------------------
(* The session.                                                              *)

\* session_state_changed_cb.
SessionState(x, state) ==
  LET y == [x EXCEPT !.state = state]
  IN  IF state < STATE_ACTIVE /\ x.peer # "in" THEN [y EXCEPT !.peer = "remote"]
      ELSE IF state = STATE_ACTIVE /\ ~x.incoming THEN [y EXCEPT !.peer = "in"]
      ELSE y

IsReadyOf(x, k) ==
  LET c == x.cs[k]
  IN  c.media /\ IF c.ours THEN c.state = "empty" /\ c.cand ELSE c.state = "new"

RECURSIVE FillContentsOf(_, _)
FillContentsOf(x, ks) ==
  IF ks = {} THEN x
  ELSE LET k == CHOOSE k \in ks : TRUE
       IN  FillContentsOf(ContentState(x, k, IF x.cs[k].ours THEN "sent" ELSE "acknowledged"), ks \ {k})

TrySessionOf(x) ==
  IF /\ x.accepted
     /\ x.state = (IF x.incoming THEN STATE_INITIATED ELSE STATE_CREATED)
     /\ \A k \in Live(x) : IsReadyOf(x, k)
  THEN SessionState(FillContentsOf(x, Live(x)), IF x.incoming THEN STATE_ACCEPT_SENT ELSE STATE_INITIATE_SENT)
  ELSE x

MaybeReadyOf(x, k) ==
  IF ~IsReadyOf(x, k) THEN x
  ELSE IF x.state < STATE_ACCEPT_SENT THEN TrySessionOf(x)
  ELSE ContentState(x, k, IF x.cs[k].ours THEN "sent" ELSE "acknowledged")

\* content_removed_cb of the session, then of the request that waits for the
\* stream of the content, then of its stream.
ContentRemovedOf(x, k) ==
  LET y == [x EXCEPT !.cs[k].state = "gone"]
      active == {j \in Live(y) : y.cs[j].state \in {"new", "sent", "acknowledged"}}
      z == IF active = {} THEN SessionTerminated(y) ELSE TrySessionOf(y)
      failed == {r \in Pending(z, "pending") : k \in z.rq[r].contents}
      w == IF k \in z.creating THEN FailPending([z EXCEPT !.creating = @ \ {k}], failed) ELSE z
  IN  IF w.st[k].there THEN CloseStream(w, k) ELSE w

\* wocky_jingle_session_remove_content: the peer is asked if it knows it and it
\* is not the last one.
RemoveContentOf(x, k) ==
  LET active == {j \in Live(x) : x.cs[j].state \in {"new", "sent", "acknowledged"}}
  IN  IF Cardinality(active) <= 1 \/ x.cs[k].state = "empty" THEN ContentRemovedOf(x, k)
      ELSE IF x.cs[k].state = "removing" THEN x
      ELSE ContentState(x, k, "removing")

\* create_stream_from_content: the stream is made later.
NewContent(x, k, ours, kind) ==
  [x EXCEPT !.cs[k] = [NoContent EXCEPT !.state = IF ours THEN "empty" ELSE "new", !.ours = ours,
                                        !.described = ~ours, !.kind = kind, !.senders = IF ours THEN {"us", "peer"} ELSE setting.senders],
            !.creating = @ \cup {k}]

NextContent(x) == Cardinality({k \in Contents : x.cs[k].state # "absent"}) + 1

\* gabble_media_stream_change_direction.
ChangeStreamDirection(x, k, dir) ==
  LET y == [x EXCEPT !.st[k].dir = dir, !.st[k].pending = FALSE, !.st[k].agreed = ("us" \in dir)]
      z == IF y = x THEN x ELSE UpdateSending(y, k, x.cs[k].state = "acknowledged")
      now == IF x.st[k].pending THEN x.st[k].dir \cup {"us"} ELSE x.st[k].dir
  IN  IF now = dir THEN z ELSE [z EXCEPT !.cs[k].senders = dir]

AcceptPendingLocalSend(x, k) ==
  IF x.st[k].pending THEN ChangeStreamDirection(x, k, x.st[k].dir \cup {"us"}) ELSE x

\* construct_stream.  Initial streams of a call that was taken already send.
ConstructStream(x, k, initial) ==
  LET ours == x.cs[k].ours
      made == [NoStream EXCEPT !.there = TRUE, !.fresh = TRUE, !.awaiting = ~ours, !.late = x.remoteHold, !.agreed = ours,
                               !.localHold = (x.hold \in {"HELD", "PENDING_HOLD"})]
      y == UpdateDirection([x EXCEPT !.st[k] = made, !.audio = @ \/ x.cs[k].kind = "audio",
                                     !.creating = @ \ {k}], k)
      z == MaybeSatisfy(IF ours THEN [y EXCEPT !.st[k].dir = {"us", "peer"}, !.st[k].pending = FALSE] ELSE y, k)
  IN  HoldStateChanged(IF initial /\ x.self = "in" THEN AcceptPendingLocalSend(z, k) ELSE z)

RECURSIVE ConstructAll(_, _)
ConstructAll(x, ks) ==
  IF ks = {} THEN x
  ELSE LET k == CHOOSE k \in ks : \A j \in ks : k <= j
       IN  ConstructAll(ConstructStream(x, k, x.incoming /\ k <= setting.offered), ks \ {k})

-----------------------------------------------------------------------------
(* media_channel_request_streams.                                            *)

\* contact_is_media_capable: it may have to be waited for, once for an answer
\* to our own presence.
Capable(x) ==
  CASE x.caps = "capable" -> [x |-> x, how |-> "yes"]
    [] x.caps = "unsure" -> [x |-> x, how |-> "wait"]
    [] setting.decloak /\ ~x.tried -> [x |-> [x EXCEPT !.tried = TRUE, !.caps = "unsure"], how |-> "wait"]
    [] OTHER -> [x |-> x, how |-> "no"]

RECURSIVE AddContentsOf(_, _, _)
AddContentsOf(x, r, kinds) ==
  IF kinds = <<>> THEN x
  ELSE LET k == NextContent(x)
       IN  AddContentsOf([NewContent(x, k, TRUE, Head(kinds)) EXCEPT !.rq[r].contents = @ \cup {k}], r, Tail(kinds))

\* _gabble_media_channel_request_contents: a session is made for the first.
RequestContents(x, r) ==
  IF x.state = STATE_NONE
  THEN AddContentsOf([x EXCEPT !.state = STATE_CREATED, !.localHold = (x.hold # "UNHELD")], r, x.rq[r].kinds)
  ELSE AddContentsOf(x, r, x.rq[r].kinds)

RequestStreams(x, r) ==
  LET c == Capable(x)
      y == RequestContents(Answer(c.x, r, "pending"), r)
  IN  IF x.rq[r].kinds = <<>> THEN [Answer(x, r, "ok") EXCEPT !.announced = @ \/ r = 1]
      ELSE IF c.how = "wait" THEN Answer(c.x, r, "delayed")
      ELSE IF c.how = "no" THEN Answer(c.x, r, "failed")
      ELSE TrySessionOf([y EXCEPT !.accepted = TRUE])

\* repeat_request of every request that waits.
RECURSIVE RepeatAll(_, _)
RepeatAll(x, rs) ==
  IF rs = {} THEN x
  ELSE LET r == CHOOSE r \in rs : \A q \in rs : r <= q
       IN  RepeatAll(IF x.rq[r].state = "delayed" THEN MaybeDispose(RequestStreams(x, r)) ELSE x, rs \ {r})

-----------------------------------------------------------------------------
(* The factory.                                                              *)

Do(x) == m' = x /\ UNCHANGED <<mediaCalls, setting>>

\* gabble_media_factory_requestotron: an anonymous channel or one for the peer,
\* with the initial streams that the request asked for.
RequestChannel ==
  /\ ~m.made /\ ~setting.incoming
  /\ LET x == [m EXCEPT !.made = TRUE, !.self = "in", !.peer = IF setting.how = "request" THEN "remote" ELSE "out",
                        !.rq[1].kinds = setting.initial]
     IN  Do(RequestStreams(x, 1))

\* new_jingle_session_cb: we are asked.
NewJingleSession ==
  /\ ~m.made /\ setting.incoming
  /\ LET x == [m EXCEPT !.made = TRUE, !.announced = TRUE, !.incoming = TRUE, !.self = "local",
                        !.peer = "in", !.state = STATE_INITIATED, !.caps = "capable"]
         y == NewContent(x, 1, FALSE, "audio")
     IN  Do(IF setting.offered = 2 THEN NewContent(y, 2, FALSE, "video") ELSE y)

\* METHOD_ENSURE finds a channel for the peer, announced or not.
EnsureChannel ==
  /\ m.made /\ ~m.closed /\ setting.how # "anonymous" /\ ~m.ensured /\ setting.ensure
  /\ Do([m EXCEPT !.ensured = TRUE])

\* gabble_media_factory_close_all.
Disconnected ==
  /\ m.made /\ ~m.closed /\ setting.disconnects
  /\ Do(Close(m))

\* capabilities_discovered_cb, and the end of the unsure period.
CapsDiscovered ==
  /\ m.caps = "unsure"
  /\ \E caps \in {"capable", "incapable"} : Do(RepeatAll([m EXCEPT !.caps = caps], Pending(m, "delayed")))

\* The contact's capabilities may change later.
CapsChange ==
  /\ m.caps = "incapable"
  /\ Do([m EXCEPT !.caps = "capable"])

\* construct_stream_later_cb, for the contents in the order of their idle
\* callbacks, and google_relay_session_cb, for one of them.
StreamsMade ==
  /\ m.creating # {}
  /\ IF setting.relays
     THEN \E k \in m.creating : Do(ConstructStream(m, k, m.incoming /\ k <= setting.offered))
     ELSE Do(ConstructAll(m, m.creating))

-----------------------------------------------------------------------------
(* The user.                                                                 *)

Usable == m.made /\ ~m.closed /\ (m.announced \/ m.ensured)

UserCalls(op, x) ==
  /\ op \in setting.ops
  /\ mediaCalls < setting.calls
  /\ mediaCalls' = mediaCalls + 1
  /\ m' = x
  /\ UNCHANGED setting

\* gabble_media_channel_request_streams, for the peer.
UserRequestsStreams ==
  /\ Usable /\ m.rq[2].state = "none"
  /\ \E kinds \in setting.more :
       /\ NextContent(m) + Len(kinds) <= setting.max + 1
       /\ UserCalls("request", RequestStreams([m EXCEPT !.rq[2].kinds = kinds], 2))

\* gabble_media_channel_add_member: the peer, or ourselves to take the call.
AddPeer ==
  LET c == Capable(m)
  IN  /\ Usable /\ ~m.incoming /\ m.peer = "out"
      /\ UserCalls("add", IF c.how = "no" THEN c.x ELSE [c.x EXCEPT !.peer = "remote"])

RECURSIVE AcceptSends(_, _)
AcceptSends(x, ks) ==
  IF ks = {} THEN x
  ELSE LET k == CHOOSE k \in ks : TRUE IN AcceptSends(AcceptPendingLocalSend(x, k), ks \ {k})

AcceptCall ==
  /\ Usable /\ m.state # STATE_NONE /\ m.self = "local" /\ m.hold = "UNHELD"
  /\ UserCalls("accept", TrySessionOf([AcceptSends([m EXCEPT !.self = "in"], Streams(m)) EXCEPT !.accepted = TRUE]))

\* gabble_media_channel_remove_member, of ourselves.
RemoveSelf ==
  /\ Usable
  /\ UserCalls("hang up", IF m.state = STATE_NONE THEN Close(m) ELSE SessionTerminated(m))

CloseChannel == Usable /\ UserCalls("close", Close(m))

\* gabble_media_channel_remove_streams, and the direction NONE.
RemoveStream(k) ==
  /\ Usable /\ m.st[k].there
  /\ UserCalls("remove", RemoveContentOf(m, k))

RequestStreamDirection(k) ==
  /\ Usable /\ m.st[k].there
  /\ \E dir \in SUBSET {"us", "peer"} \ {{}} : UserCalls("direction", ChangeStreamDirection(m, k, dir))

\* gabble_media_channel_request_hold.
RequestHold(held) ==
  LET x == IF held /\ m.hold = "UNHELD" THEN SetSessionHold(m, TRUE) ELSE m
      y == [x EXCEPT !.hold = IF held THEN "PENDING_HOLD" ELSE "PENDING_UNHOLD"]
  IN  /\ Usable
      /\ m.hold # IF held THEN "HELD" ELSE "UNHELD"
      /\ UserCalls("hold", IF Streams(m) = {} THEN HoldStateChanged(y) ELSE HoldAll(y, Streams(y), held))

\* Tones need an audio stream.
StartTone == Usable /\ m.audio /\ ~m.tones /\ UserCalls("tones", [m EXCEPT !.tones = TRUE])
StopTone == Usable /\ m.tones /\ UserCalls("tones", [m EXCEPT !.tones = FALSE])

-----------------------------------------------------------------------------
(* The streaming client.                                                     *)

\* gabble_media_channel_ready.
SessionReady == Usable /\ m.state # STATE_NONE /\ ~m.ready /\ Do([m EXCEPT !.ready = TRUE])

\* _get_initial_codecs_and_candidates, in idle.
StreamIdle(k) ==
  LET x == [m EXCEPT !.st[k].fresh = FALSE]
  IN  /\ m.st[k].there /\ m.st[k].fresh
      /\ Do(IF m.cs[k].described THEN RemoteDescription(x, k) ELSE x)

\* pass_local_codecs: the content has a description of ours.
PassLocalCodecs(x, k) == MaybeReadyOf([x EXCEPT !.cs[k].media = TRUE], k)

\* gabble_media_stream_ready: what was kept is said, then the codecs are set.
StreamReady(k) ==
  LET y == PushSending(PushPlaying(PushRemote([m EXCEPT !.st[k].ready = TRUE], k), k), k)
      z == IF y.st[k].localHold THEN Hold(y, k, TRUE) ELSE y
      w == [z EXCEPT !.st[k].codecs = TRUE]
  IN  /\ m.ready /\ m.st[k].there /\ ~m.st[k].ready
      /\ Do(IF m.cs[k].ours THEN PassLocalCodecs(w, k) ELSE w)

\* gabble_media_stream_supported_codecs.
SupportedCodecs(k) ==
  /\ m.st[k].ready /\ m.st[k].awaiting
  /\ Do(PassLocalCodecs([m EXCEPT !.st[k].awaiting = FALSE], k))

\* gabble_media_stream_new_native_candidate.
NewNativeCandidate(k) ==
  /\ m.st[k].ready /\ ~m.cs[k].cand
  /\ Do(MaybeReadyOf([m EXCEPT !.cs[k].cand = TRUE], k))

\* HoldState and UnholdFailure, in the order in which holds were asked for.
HoldAnswered(k) ==
  LET held == Head(m.st[k].told.holds)
      x == [m EXCEPT !.st[k].told.holds = Tail(@)]
  IN  /\ m.st[k].there /\ m.st[k].told.holds # <<>>
      /\ \/ Do(HoldStateChanged([x EXCEPT !.st[k].localHold = held]))
         \/ /\ ~held /\ setting.busy
            /\ Do(HoldStateChanged(UnholdFailed([x EXCEPT !.st[k].localHold = TRUE])))

\* A client that holds by itself.
HoldStateByItself(k) ==
  /\ setting.whims /\ m.st[k].ready
  /\ \E held \in BOOLEAN :
       /\ held # m.st[k].localHold
       /\ UserCalls("whim", HoldStateChanged([m EXCEPT !.st[k].localHold = held]))

\* stream_error_cb: a stream, or the whole call if it is the last.
StreamError(x, k) ==
  IF ~x.st[k].there THEN x
  ELSE IF Cardinality(Live(x)) > 1 THEN RemoveContentOf(x, k) ELSE SessionTerminated(x)

ErrorOfStream(k) ==
  /\ m.st[k].ready
  /\ UserCalls("error", StreamError(m, k))

\* gabble_media_channel_error, of all streams, once the peer knows of the call.
RECURSIVE ErrorAll(_, _)
ErrorAll(x, ks) ==
  IF ks = {} THEN x
  ELSE LET k == CHOOSE k \in ks : \A j \in ks : k <= j IN ErrorAll(StreamError(x, k), ks \ {k})

ErrorOfSession ==
  /\ m.ready /\ m.state > STATE_CREATED
  /\ UserCalls("error", ErrorAll(m, Streams(m)))

-----------------------------------------------------------------------------
(* The peer.                                                                 *)

\* The answers to our offer and to our acceptance.
OfferHeard ==
  \/ m.state = STATE_INITIATE_SENT /\ Do(SessionState(m, STATE_INITIATED))
  \/ m.state = STATE_ACCEPT_SENT /\ Do(SessionState(m, STATE_ACTIVE))
  \/ m.state \in {STATE_INITIATE_SENT, STATE_ACCEPT_SENT} /\ Do(SessionTerminated(m))

RECURSIVE Acknowledge(_, _)
Acknowledge(x, ks) ==
  IF ks = {} THEN x
  ELSE LET k == CHOOSE k \in ks : TRUE IN Acknowledge(ContentState(x, k, "acknowledged"), ks \ {k})

PeerAccepts ==
  /\ ~m.incoming /\ m.state = STATE_INITIATED
  /\ Do(SessionState(Acknowledge(m, {k \in Live(m) : m.cs[k].state = "sent"}), STATE_ACTIVE))

PeerAcceptsContent(k) ==
  /\ m.state = STATE_ACTIVE /\ m.cs[k].state = "sent"
  /\ Do(ContentState(m, k, "acknowledged"))

PeerTerminates == m.state > STATE_CREATED /\ Do(SessionTerminated(m))

PeerAddsContent ==
  /\ m.state = STATE_ACTIVE /\ NextContent(m) <= setting.max /\ "add" \in setting.peer
  /\ Do(NewContent(m, NextContent(m), FALSE, "video"))

PeerRemovesContent(k) ==
  /\ m.state \in {STATE_INITIATED, STATE_ACTIVE} /\ k \in Live(m) /\ m.cs[k].state # "empty" /\ "remove" \in setting.peer
  /\ Do(ContentRemovedOf(m, k))

\* _on_remove_reply.
RemovalHeard(k) == m.cs[k].state = "removing" /\ Do(ContentRemovedOf(m, k))

PeerModifies(k) ==
  /\ m.state \in {STATE_INITIATED, STATE_ACTIVE} /\ m.cs[k].state \in {"new", "sent", "acknowledged"}
  /\ "modify" \in setting.peer
  /\ \E senders \in {{"us"}, {"peer"}, {"us", "peer"}} :
       /\ senders # m.cs[k].senders
       /\ LET x == [m EXCEPT !.cs[k].senders = senders] IN Do(IF m.st[k].there THEN UpdateDirection(x, k) ELSE x)

\* remote_state_changed_cb, of the streams there are.
PeerHolds ==
  /\ m.state > STATE_INITIATE_SENT /\ "hold" \in setting.peer
  /\ LET held == ~m.remoteHold
         stream(k) == IF m.st[k].there
                      THEN PushSending([m EXCEPT !.st[k].onHold = held, !.st[k].late = FALSE], k).st[k] ELSE m.st[k]
     IN  Do([m EXCEPT !.remoteHold = held, !.st = [k \in Contents |-> stream(k)]])

-----------------------------------------------------------------------------
OnStream(k) ==
  \/ RemoveStream(k) \/ RequestStreamDirection(k) \/ StreamIdle(k) \/ StreamReady(k) \/ SupportedCodecs(k)
  \/ NewNativeCandidate(k) \/ HoldAnswered(k) \/ HoldStateByItself(k) \/ ErrorOfStream(k)
  \/ PeerAcceptsContent(k) \/ PeerRemovesContent(k) \/ RemovalHeard(k) \/ PeerModifies(k)

MediaNext ==
  \/ RequestChannel \/ NewJingleSession \/ EnsureChannel \/ Disconnected
  \/ CapsDiscovered \/ CapsChange \/ StreamsMade
  \/ UserRequestsStreams \/ AddPeer \/ AcceptCall \/ RemoveSelf \/ CloseChannel
  \/ \E held \in BOOLEAN : RequestHold(held)
  \/ StartTone \/ StopTone \/ SessionReady \/ ErrorOfSession
  \/ OfferHeard \/ PeerAccepts \/ PeerTerminates \/ PeerAddsContent \/ PeerHolds
  \/ \E k \in Contents : OnStream(k)

MediaSpec == MediaInit /\ [][MediaNext]_mediaVars

-----------------------------------------------------------------------------
(* Properties.                                                               *)

\* A client sends media only if the user wants to: they made the call, took it
\* or asked for streams in it, and agreed to send in this stream, both sides accepted the content, and
\* the peer does not hold us, unless it did when the stream was made
\* (push_sending).
MediaConsented ==
  \A k \in Streams(m) :
    LET s == m.st[k]
    IN  s.told.sending /\ m.cs[k].state # "removing" =>
          /\ m.self = "in" \/ m.rq[2].state # "none"
          /\ s.agreed /\ "us" \in s.dir
          /\ m.cs[k].state = "acknowledged"
          /\ m.remoteHold => s.late

\* When the streaming client has answered, a channel that says it is held or not
\* has all its streams so.  It says one of the two, and the session says the same
\* to the peer, unless the client was asked before it was ready or had answered,
\* it holds by itself, or an unhold fails while those of other streams are not
\* answered (stream_hold_state_changed).
HoldSettles ==
  (m.made /\ ~m.closed /\ \A k \in Streams(m) :
     m.st[k].told.holds = <<>> /\ (m.st[k].localHold => m.st[k].ready)) =>
    /\ m.hold = "HELD" => \A k \in Streams(m) : m.st[k].localHold
    /\ m.hold = "UNHELD" => \A k \in Streams(m) : ~m.st[k].localHold
    /\ ~m.confused /\ ~setting.whims /\ ~setting.busy =>
         /\ m.hold \in {"HELD", "UNHELD"}
         /\ m.state # STATE_NONE => m.localHold = (m.hold = "HELD")

\* A request for streams is waiting for capabilities that are still to come, or
\* for streams of its contents that are being made; and nothing of a channel is
\* left when it is closed, unless its request was still waiting.
RequestsTracked ==
  /\ \A r \in Pending(m, "delayed") : m.caps = "unsure" \/ m.caps = "capable"
  /\ \A r \in Pending(m, "pending") : m.rq[r].contents \ m.rq[r].satisfied \subseteq m.creating
  /\ m.closed /\ ~m.ensured /\ ~setting.disconnects =>
       m.state = STATE_NONE /\ Streams(m) = {} /\ m.creating = {} /\ m.rq[1].state \in {"none", "ok", "failed"}
  /\ m.closed /\ m.state = STATE_NONE /\ m.rq[1].state # "delayed" => m.rq[2].state \in {"none", "ok", "failed"}
  /\ m.dangling => setting.relays

\* Every content has its stream, or it is being made, and the client that said it
\* is ready is told what the peer described, whichever came first; tones are played only
\* while there is an audio stream to play them in (stream_close_cb).
StreamsMatch ==
  /\ m.state # STATE_NONE => Live(m) = Streams(m) \cup m.creating /\ Streams(m) \cap m.creating = {}
  /\ \A k \in Streams(m) :
       m.st[k].ready /\ m.cs[k].described => m.st[k].told.heard \/ m.st[k].fresh
  /\ m.tones => \E k \in Streams(m) : m.cs[k].kind = "audio"
=============================================================================
