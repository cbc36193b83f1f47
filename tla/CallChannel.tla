----------------------------- MODULE CallChannel -----------------------------
(* A call channel: GabbleCallChannel on GabbleBaseCallChannel, its one        *)
(* GabbleCallMember, and the objects that one Jingle content has in it: a     *)
(* GabbleCallMemberContent of the member, a GabbleCallContent of the channel, *)
(* a GabbleCallStream of that.  Each of the three can be told first that the  *)
(* content goes.  The session is the one of module Jingle seen from one end;  *)
(* the base classes of telepathy-glib are external.                           *)
EXTENDS Naturals, FiniteSets

CONSTANTS
  CallContents,    \* contents of a session, over its life: 1 .. n
  CallSettings     \* what a behaviour may do: see scene

VARIABLES
  c,               \* the state of the call, see NoCall
  uses,            \* calls of the user so far
  scene            \* a member of CallSettings: it never changes

callVars == <<c, uses, scene>>

CallRequests == 1 .. 2
\* WockyJingleState.
Created == 1
InitiateSent == 2
Initiated == 3
AcceptSent == 4
Active == 5
Over == 6

\* j: the Jingle content; mc: in the member's contents; removed: the flag of the
\* member content; cc: in the channel's contents; linked: in the contents of the
\* call content; local, remote: the sending states; agreed: the user lets it send.
NoPart ==
  [j |-> "absent", ours |-> FALSE, senders |-> {}, ready |-> FALSE, mc |-> FALSE, removed |-> FALSE,
   cc |-> FALSE, linked |-> FALSE, stream |-> FALSE, sending |-> FALSE, local |-> "NONE",
   remote |-> "NONE", offers |-> 0, agreed |-> FALSE]

\* phase: of the channel's initialisation, then of the channel; watching: the
\* initialisation hears of capabilities; twice: it was completed a second time.
NoCall ==
  [phase |-> "none", watching |-> FALSE, twice |-> FALSE, requested |-> FALSE, registered |-> FALSE, state |-> "PENDING_INITIATOR",
   session |-> 0, accepted |-> FALSE, flags |-> {}, ringing |-> FALSE, held |-> FALSE, localHold |-> FALSE,
   hold |-> "UNHELD", caps |-> "unsure", rq |-> [r \in CallRequests |-> "none"],
   part |-> [k \in CallContents |-> NoPart]]

CallInit ==
  /\ scene \in CallSettings
  /\ c = [NoCall EXCEPT !.caps = scene.caps]
  /\ uses = 0

Parts(x) == {k \in CallContents : x.part[k].j \in {"empty", "new", "sent", "acknowledged", "removing"}}
ActiveParts(x) == {k \in CallContents : x.part[k].j \in {"new", "sent", "acknowledged"}}
NextPart(x) == Cardinality({k \in CallContents : x.part[k].j # "absent"}) + 1

-----------------------------------------------------------------------------
(* Streams.                                                                  *)

\* Defect: whoever may send does.
UpdateMemberStatesAtOnce(x, k) ==
  [x EXCEPT !.part[k].local = IF "us" \in x.part[k].senders THEN "SENDING" ELSE "NONE",
            !.part[k].remote = IF "peer" \in x.part[k].senders THEN "SENDING" ELSE "NONE"]

\* gabble_call_stream_update_member_states.
UpdateMemberStates(x, k) ==
  LET p == x.part[k]
      local == IF "us" \in p.senders
               THEN IF p.sending THEN "SENDING" ELSE "PENDING_SEND"
               ELSE IF p.sending THEN "PENDING_STOP_SENDING" ELSE "NONE"
  IN  IF p.j = "removing" \/ ~p.stream THEN x
      ELSE [x EXCEPT !.part[k].local = local,
                     !.part[k].remote = IF "peer" \in p.senders THEN "SENDING" ELSE "NONE"]

\* call_content_setup_jingle and gabble_call_stream_constructed: what we made
\* sends at once.
SetupStream(x, k) ==
  LET p == x.part[k]
  IN  UpdateMemberStates([x EXCEPT !.part[k].stream = TRUE,
                                   !.part[k].sending = p.ours /\ "us" \in p.senders,
                                   !.part[k].agreed = p.ours], k)

\* gabble_base_call_channel_add_content, gabble_call_content_add_member_content.
AddCallContent(x, k) ==
  LET y == SetupStream([x EXCEPT !.part[k].cc = TRUE, !.part[k].linked = TRUE], k)
  IN  [y EXCEPT !.part[k].offers = @ + 1]

-----------------------------------------------------------------------------
(* The session.                                                              *)

\* call_session_terminated_cb, call_session_state_changed_cb.  The contents of a
\* session that is over stay until the channel is closed.
SessionOver(x) == [x EXCEPT !.session = Over, !.state = "ENDED"]

SetSession(x, state) ==
  [x EXCEPT !.session = state,
            !.state = IF state = Active /\ x.requested /\ @ # "ENDED" THEN "ACTIVE" ELSE @]

TryCall(x) ==
  IF /\ x.accepted
     /\ x.session = (IF x.requested THEN Created ELSE Initiated)
     /\ \A k \in Parts(x) : x.part[k].ready /\ x.part[k].j \in {"empty", "new"}
  THEN LET y == [x EXCEPT !.part = [k \in CallContents |->
                   IF @[k].j = "empty" THEN [@[k] EXCEPT !.j = "sent"]
                   ELSE IF @[k].j = "new" THEN [@[k] EXCEPT !.j = "acknowledged"] ELSE @[k]]]
       IN  SetSession(y, IF x.requested THEN InitiateSent ELSE AcceptSent)
  ELSE x

PartReady(x, k) ==
  IF ~x.part[k].ready \/ x.part[k].j \notin {"empty", "new"} THEN x
  ELSE IF x.session < AcceptSent THEN TryCall(x)
  ELSE [x EXCEPT !.part[k].j = IF @ = "empty" THEN "sent" ELSE "acknowledged"]

\* content_removed_cb of the session.
Forget(x, k) ==
  LET y == [x EXCEPT !.part[k].j = "gone"]
  IN  IF x.session = Over THEN y
      ELSE IF ActiveParts(y) = {} THEN SessionOver(y) ELSE TryCall(y)

-----------------------------------------------------------------------------
(* A content goes.                                                           *)

\* tp_base_call_content_remove_stream, and what the base class deinit does.
DropStream(x, k) == [x EXCEPT !.part[k].stream = FALSE, !.part[k].local = "NONE", !.part[k].remote = "NONE"]

\* wocky_jingle_session_remove_content, for a member content that says so itself.
RemoveFromSession(x, k) ==
  IF Cardinality(ActiveParts(x)) <= 1 \/ x.part[k].j = "empty" THEN Forget(x, k)
  ELSE IF x.part[k].j = "gone" THEN x
  ELSE [x EXCEPT !.part[k].j = "removing"]

\* "removed": member_content_removed_cb of the member, then
\* call_member_content_removed_cb of the channel, which removes the call content
\* that is linked to it, then member_content_removed_cb of the call content.
MemberContentRemoved(x, k) ==
  LET y == [x EXCEPT !.part[k].mc = FALSE]
      z == IF y.part[k].linked THEN [y EXCEPT !.part[k].cc = FALSE] ELSE y
  IN  DropStream([z EXCEPT !.part[k].linked = FALSE], k)

\* gabble_call_member_content_remove.
MemberContentRemove(x, k) ==
  IF x.part[k].removed THEN x
  ELSE MemberContentRemoved(RemoveFromSession([x EXCEPT !.part[k].removed = TRUE], k), k)

\* call_member_content_jingle_removed_cb: the session forgets it last or first.
JingleRemoved(x, k) ==
  LET y == Forget(x, k)
  IN  IF y.part[k].removed THEN y
      ELSE MemberContentRemoved([y EXCEPT !.part[k].removed = TRUE], k)

\* Defect: the member content stays.
DeinitLinked(x, k) == DropStream([x EXCEPT !.part[k].cc = FALSE, !.part[k].linked = FALSE], k)

\* call_content_deinit, when the user removes the content.
Deinit(x, k) ==
  DropStream(MemberContentRemove([x EXCEPT !.part[k].cc = FALSE, !.part[k].linked = FALSE], k), k)

\* gabble_call_member_shutdown: it goes on until no content is left.
RECURSIVE RemoveAll(_, _)
RemoveAll(x, ks) ==
  IF ks = {} THEN x
  ELSE LET k == CHOOSE k \in ks : \A i \in ks : k >= i IN RemoveAll(MemberContentRemove(x, k), ks \ {k})

Shutdown(x) ==
  LET y == IF x.session \in {0, Over} THEN x ELSE SessionOver(x)
  IN  RemoveAll(y, {k \in CallContents : y.part[k].mc})

\* gabble_base_call_channel_close, call_channel_closed_cb.
CloseCall(x) == [Shutdown(x) EXCEPT !.phase = "closed", !.state = "ENDED"]

-----------------------------------------------------------------------------
(* The factory and the initialisation of a channel.                          *)

Act(x) == c' = x /\ UNCHANGED <<uses, scene>>

\* gabble_call_member_create_content.
CreateContent(x, kind, senders) ==
  LET k == NextPart(x)
  IN  IF kind \notin scene.supported THEN x
      ELSE [x EXCEPT !.part[k] = [NoPart EXCEPT !.j = "empty", !.ours = TRUE, !.senders = senders, !.mc = TRUE]]

RECURSIVE AddCallContents(_, _)
AddCallContents(x, ks) ==
  IF ks = {} THEN x ELSE LET k == CHOOSE k \in ks : TRUE IN AddCallContents(AddCallContent(x, k), ks \ {k})

\* call_channel_continue_init, gabble_call_member_start_session: the result is
\* given in idle.
ContinueInit(x) ==
  LET audio == IF "audio" \in scene.initial THEN CreateContent(x, "audio", {"us", "peer"}) ELSE x
      y == IF "video" \in scene.initial THEN CreateContent(audio, "video", {"us", "peer"}) ELSE audio
  IN  IF scene.supported = {} THEN [x EXCEPT !.phase = "bad"]
      ELSE [AddCallContents([y EXCEPT !.session = Created], Parts(y)) EXCEPT !.registered = TRUE, !.phase = "done"]

\* contact_is_media_capable.
InitAsync(x) ==
  CASE x.caps = "capable" -> ContinueInit(x)
    [] x.caps = "unsure" -> [x EXCEPT !.phase = "caps", !.watching = TRUE]
    [] OTHER -> [x EXCEPT !.phase = "bad"]

\* gabble_media_factory_create_call, then METHOD_ENSURE for the same contact.
CreateCall ==
  /\ c.phase = "none" /\ ~scene.incoming
  /\ Act(InitAsync([c EXCEPT !.requested = TRUE, !.rq[1] = "waiting"]))

EnsureCall ==
  /\ c.rq[2] = "none" /\ scene.ensure
  /\ \/ c.phase = "live" /\ Act([c EXCEPT !.rq[2] = "satisfied"])
     \/ c.phase \in {"caps", "done", "bad"} /\ ~scene.incoming /\ Act([c EXCEPT !.rq[2] = "waiting"])

\* new_jingle_session_cb: the contents come with the session.
IncomingCall ==
  /\ c.phase = "none" /\ scene.incoming
  /\ LET offered == [NoPart EXCEPT !.j = "new", !.senders = scene.senders, !.mc = TRUE]
         y == [c EXCEPT !.part[1] = offered, !.part[2] = IF scene.offered = 2 THEN offered ELSE @]
     IN  Act([AddCallContents(y, Parts(y)) EXCEPT !.session = Initiated, !.state = "INITIALISED",
                                                !.registered = TRUE, !.phase = "done"])

\* call_channel_capabilities_discovered_cb.  An initialisation that has failed hears
\* of capabilities until its idle callback; it is then completed again, and the
\* channel may even be registered, with the error that it was given.
CallCapsDiscovered ==
  \E caps \in {"unsure", "capable", "incapable"} :
    LET y == InitAsync([c EXCEPT !.caps = caps])
    IN  \/ c.phase = "caps" /\ Act(y)
        \/ /\ c.phase = "bad" /\ c.watching /\ ~c.registered /\ caps # "unsure"
           /\ Act([y EXCEPT !.phase = "bad", !.twice = TRUE])

\* Defect: only the first request is answered.
AnswerOne(x, how) == [x EXCEPT !.rq[1] = IF @ = "waiting" THEN how ELSE @]

\* call_channel_initialized: every request that waits is answered.
AnswerWaiting(x, how) ==
  [x EXCEPT !.rq = [r \in CallRequests |-> IF @[r] = "waiting" THEN how ELSE @[r]]]

\* The idle callback; the result of one that was completed twice is freed by the
\* first, and what the second does is undefined.
Initialized ==
  \/ c.phase = "done" /\ Act([AnswerWaiting(c, "satisfied") EXCEPT !.phase = "live"])
  \/ c.phase = "bad" /\ Act([AnswerWaiting(c, "failed") EXCEPT !.phase = IF c.twice THEN "crashed" ELSE "failed"])

\* gabble_media_factory_close_all: a channel that is being initialised stays.
FactoryClosesAll ==
  /\ c.phase = "live" /\ scene.disconnects
  /\ Act(CloseCall(c))

-----------------------------------------------------------------------------
(* The user.                                                                 *)

Use(op, x) ==
  /\ c.phase = "live"
  /\ op \in scene.ops
  /\ uses < scene.uses
  /\ uses' = uses + 1
  /\ c' = x
  /\ UNCHANGED scene

\* Accept: the initial contents that wait for us send (external), then
\* call_channel_accept.
UserAccepts ==
  LET agree(p) == IF p.stream /\ p.local = "PENDING_SEND" THEN [p EXCEPT !.sending = TRUE, !.agreed = TRUE, !.local = "SENDING"] ELSE p
      y == IF c.requested THEN [c EXCEPT !.state = "INITIALISING"]
           ELSE [c EXCEPT !.state = "ACCEPTED", !.part = [k \in CallContents |-> agree(@[k])]]
  IN  /\ ~c.accepted /\ c.state # "ENDED"
      /\ Use("accept", TryCall([y EXCEPT !.accepted = TRUE]))

\* Hangup: the members are shut down, and the base class ends the call.
UserHangsUp == c.state # "ENDED" /\ Use("hangup", [Shutdown(c) EXCEPT !.state = "ENDED"])

UserCloses == Use("close", CloseCall(c))

\* call_channel_add_content.
UserAddsContent ==
  LET k == NextPart(c)
  IN  /\ c.state # "ENDED" /\ k \in CallContents
      /\ \E kind \in {"audio", "video"}, senders \in {{"us"}, {"peer"}, {"us", "peer"}} :
           LET y == CreateContent(c, kind, senders)
           IN  Use("add", IF y = c THEN c ELSE AddCallContent(y, k))

UserRemovesContent(k) == c.part[k].cc /\ Use("remove", Deinit(c, k))

\* wocky_jingle_content_change_direction, or nobody sends and it goes.
ChangeSenders(x, k, senders) ==
  IF senders = {}
  THEN IF x.part[k].j = "empty" THEN JingleRemoved(x, k)
       ELSE IF x.part[k].j = "removing" THEN x ELSE [x EXCEPT !.part[k].j = "removing"]
  ELSE UpdateMemberStates([x EXCEPT !.part[k].senders = senders], k)

\* gabble_call_stream_set_sending, gabble_call_stream_request_receiving.  The base
\* class takes note that the user stops.
UserSetsSending(k) ==
  /\ c.part[k].stream /\ c.part[k].j # "gone"
  /\ \E sending \in BOOLEAN :
       LET p == c.part[k]
           y == IF sending THEN [c EXCEPT !.part[k].sending = TRUE, !.part[k].agreed = TRUE]
                ELSE [c EXCEPT !.part[k].sending = FALSE, !.part[k].agreed = FALSE]
           senders == IF sending THEN p.senders \cup {"us"} ELSE p.senders \ {"us"}
       IN  Use("sending", IF sending = ("us" \in p.senders)
                          THEN UpdateMemberStates(y, k)
                          ELSE ChangeSenders(y, k, senders))

UserRequestsReceiving(k) ==
  /\ c.part[k].stream /\ c.part[k].j # "gone"
  /\ \E receive \in BOOLEAN :
       LET p == c.part[k]
           senders == IF receive THEN p.senders \cup {"peer"} ELSE p.senders \ {"peer"}
       IN  Use("receiving", IF receive = ("peer" \in p.senders) THEN c ELSE ChangeSenders(c, k, senders))

\* call_channel_hold_state_changed, from the base class.
UserHolds ==
  \E hold \in {"HELD", "PENDING_HOLD", "UNHELD", "PENDING_UNHOLD"} :
    LET y == [c EXCEPT !.hold = hold]
    IN  /\ c.state # "ENDED" /\ hold # c.hold
        /\ Use("hold", CASE hold \in {"HELD", "PENDING_HOLD"} -> [y EXCEPT !.localHold = TRUE]
                         [] hold = "UNHELD" -> [y EXCEPT !.localHold = FALSE]
                         [] OTHER -> y)

-----------------------------------------------------------------------------
(* The streaming client and the peer.                                        *)

\* call_content_local_media_description_updated, gabble_call_stream_add_candidates.
ClientReady(k) ==
  /\ c.phase \in {"done", "live"} /\ c.part[k].stream /\ ~c.part[k].ready /\ c.session # Over
  /\ Act(PartReady([c EXCEPT !.part[k].ready = TRUE], k))

\* The client stopped sending (external).
ClientStops(k) ==
  /\ c.part[k].stream /\ c.part[k].local = "PENDING_STOP_SENDING"
  /\ Act([c EXCEPT !.part[k].sending = FALSE, !.part[k].local = "NONE"])

CallHeard ==
  \/ c.session = InitiateSent /\ Act(SetSession(c, Initiated))
  \/ c.session = AcceptSent /\ Act(SetSession(c, Active))
  \/ c.session \in {InitiateSent, AcceptSent} /\ Act(SessionOver(c))

AcceptParts(x) ==
  [x EXCEPT !.part = [k \in CallContents |-> IF @[k].j = "sent" THEN [@[k] EXCEPT !.j = "acknowledged"] ELSE @[k]]]

CallPeerAccepts == c.requested /\ c.session = Initiated /\ Act(SetSession(AcceptParts(c), Active))
CallPeerAcceptsContent == c.session = Active /\ Act(AcceptParts(c))
CallPeerTerminates == c.session \in Created + 1 .. Active /\ Act(SessionOver(c))

\* new_content_cb, call_member_content_added_cb.
CallPeerAdds ==
  LET k == NextPart(c)
  IN  /\ c.session = Active /\ "add" \in scene.peer /\ k \in CallContents
      /\ Act(AddCallContent([c EXCEPT !.part[k] =
               [NoPart EXCEPT !.j = "new", !.senders = scene.senders, !.mc = TRUE]], k))

\* A content that the peer removes, or whose removal it answered.
CallPeerRemoves(k) ==
  /\ c.session \in {Initiated, Active} /\ k \in Parts(c) /\ c.part[k].j # "empty"
  /\ c.part[k].j = "removing" \/ "remove" \in scene.peer
  /\ Act(JingleRemoved(c, k))

\* content_remote_members_changed_cb.
CallPeerModifies(k) ==
  /\ c.session \in {Initiated, Active} /\ k \in ActiveParts(c) /\ "modify" \in scene.peer
  /\ \E senders \in {{"us"}, {"peer"}, {"us", "peer"}} :
       senders # c.part[k].senders /\ Act(UpdateMemberStates([c EXCEPT !.part[k].senders = senders], k))

\* remote_state_changed_cb; a new description is offered to the client.
CallPeerInforms ==
  /\ c.session \in {Initiated, Active} /\ "inform" \in scene.peer
  /\ \E ringing, held \in BOOLEAN :
       Act([c EXCEPT !.ringing = ringing, !.held = held,
                     !.flags = {f \in {"RINGING", "HELD"} : (f = "RINGING" /\ ringing) \/ (f = "HELD" /\ held)}])

CallPeerDescribes(k) ==
  /\ c.session = Active /\ c.part[k].cc /\ c.part[k].offers < 2 /\ "inform" \in scene.peer
  /\ Act([c EXCEPT !.part[k].offers = @ + 1])

-----------------------------------------------------------------------------
OnPart(k) ==
  \/ UserRemovesContent(k) \/ UserSetsSending(k) \/ UserRequestsReceiving(k) \/ ClientReady(k)
  \/ ClientStops(k) \/ CallPeerRemoves(k) \/ CallPeerModifies(k) \/ CallPeerDescribes(k)

CallNext ==
  \/ CreateCall \/ EnsureCall \/ IncomingCall \/ CallCapsDiscovered \/ Initialized \/ FactoryClosesAll
  \/ UserAccepts \/ UserHangsUp \/ UserCloses \/ UserAddsContent \/ UserHolds
  \/ CallHeard \/ CallPeerAccepts \/ CallPeerAcceptsContent \/ CallPeerTerminates \/ CallPeerAdds \/ CallPeerInforms
  \/ \E k \in CallContents : OnPart(k)

CallSpec == CallInit /\ [][CallNext]_callVars

-----------------------------------------------------------------------------
(* Properties.                                                               *)

\* The objects of a content come and go together, whoever removes it, so that
\* gabble_call_member_shutdown ends and gabble_call_content_dispose finds no
\* member content; a closed channel has none left.
ContentsTogether ==
  /\ \A k \in CallContents :
       LET p == c.part[k]
       IN  /\ p.mc = p.cc /\ p.cc = p.linked /\ p.linked = p.stream
           /\ p.mc => ~p.removed
           /\ p.j \in {"empty", "new", "sent", "acknowledged"} => p.mc
           /\ p.j = "gone" => ~p.mc
  /\ c.phase = "closed" => \A k \in CallContents : ~c.part[k].mc
  /\ c.session = Over => c.state = "ENDED"

\* We send in a stream that the user agreed to, and only while both ends say so;
\* and the states shown are those of the content (update_member_states).
SendingAgreed ==
  \A k \in CallContents :
    LET p == c.part[k]
    IN  p.stream /\ p.j # "removing" =>
          /\ p.local = "SENDING" => p.agreed
          /\ (p.local \in {"SENDING", "PENDING_SEND"}) = ("us" \in p.senders)
          /\ (p.remote = "SENDING") = ("peer" \in p.senders)

\* A request for a call waits while the channel is initialised, and every one of
\* them is answered with it (call_channel_initialized).  A request that failed has no
\* channel that others can see, unless the initialisation was completed twice.
CallRequestsAnswered ==
  /\ \A r \in CallRequests : c.rq[r] = "waiting" => c.phase \in {"caps", "done", "bad"}
  /\ c.registered => c.phase \notin {"caps", "bad", "failed"} \/ c.twice
=============================================================================
