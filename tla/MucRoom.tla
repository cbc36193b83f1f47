------------------------------ MODULE MucRoom ------------------------------
(* A chat room: the GabbleMucChannel (src/muc-channel.c) with its WockyMuc,  *)
(* the requests that GabbleMucFactory (src/muc-factory.c) keeps until the    *)
(* room is ready, the tubes and the call that live in the room, and the      *)
(* conference service they talk to.                                          *)
(*                                                                           *)
(* The client and the service each handle one stanza at a time; stanzas      *)
(* travel in order in both directions.  Nicknames are numbers: k is our      *)
(* nickname with k underscores appended.                                     *)
EXTENDS Naturals, Sequences, SequencesExt

CONSTANTS
  MAX_NICK_RETRIES,
  Requests,        \* the tokens of the channel requests made of the factory
  Environments     \* what the service and the others do; its fields calls and
                   \* happenings bound the user's calls and the others' acts

\* The nicknames of others: the one the service gives us, our inviter's JID
\* (which is not one of an occupant) and somebody who comes and goes.
Forced == 90
Inviter == 98
Bob == 99
NoNick == 100

VARIABLES
  muc,             \* the channel and the factory's records of it, see NoChannel
  down,            \* the stanzas on their way to the client
  room,            \* the service: its occupants and us
  online,          \* is the connection up?
  user, events,    \* the calls and the happenings so far
  past,            \* what has happened that the properties except
  env              \* the environment: it never changes

vars == <<muc, down, room, online, user, events, past, env>>

\* No channel is in priv->text_channels.  Requests are waited for in queued
\* (by the text channel), tubeq (by a tube), callq (by a call); those in
\* orphans have the key of a channel that is gone, those in lost are recorded
\* nowhere.  ans counts the answers each got.
NoChannel ==
  [alive |-> FALSE, registered |-> FALSE, ready |-> FALSE, autoclose |-> FALSE,
   closing |-> FALSE, state |-> "created", self |-> "none", canAdd |-> FALSE,
   nick |-> 0, retries |-> 0, must |-> FALSE, password |-> FALSE, subject |-> FALSE,
   members |-> {}, wstate |-> "created", wmembers |-> {}, wnick |-> 0,
   joinTimer |-> FALSE, leaveTimers |-> 0, tubes |-> {}, call |-> "none",
   queued |-> {}, tubeq |-> {}, callq |-> {}, orphans |-> {}, lost |-> {},
   ans |-> [r \in Requests |-> 0], up |-> <<>>]

Init ==
  /\ env \in Environments
  /\ muc = NoChannel
  /\ down = <<>>
  /\ room = [occ |-> env.taken, me |-> NoNick]
  /\ online = TRUE
  /\ user = 0
  /\ events = 0
  /\ past = {}

Sent(m, s) == [m EXCEPT !.up = Append(@, s)]
Answered(m, rs) == [m EXCEPT !.ans = [r \in Requests |-> IF r \in rs THEN @[r] + 1 ELSE @[r]]]

-----------------------------------------------------------------------------
(* Joining.                                                                  *)

JoinRequest(m) == [t |-> "join", nick |-> m.wnick, password |-> m.password]

SendJoinRequest(m) == Sent([m EXCEPT !.wstate = "initiated"], JoinRequest(m))

\* Adding ourselves: the inviter, or whoever is first, leaves the members.
AddSelf(m, first) ==
  [SendJoinRequest(m) EXCEPT !.self = "remote", !.members = @ \ first,
     !.state = "initiated", !.joinTimer = (m.state # "initiated" \/ @), !.canAdd = FALSE]

\* The factory's new_muc_channel for somebody who was not invited.
NewMucChannel(m, registered) ==
  AddSelf([m EXCEPT !.alive = TRUE, !.registered = registered, !.autoclose = ~registered], {})

\* Defect: requests are not taken from the queue.
MucReadyKeepsQueue(m) ==
  LET announced == m.tubeq \cup (IF m.registered THEN m.queued ELSE {})
      called == IF m.call = "creating" THEN m.callq ELSE {}
  IN  [Answered(m, announced \cup called) EXCEPT !.ready = TRUE, !.tubeq = {},
         !.callq = @ \ called, !.call = IF @ = "creating" THEN "open" ELSE @]

\* The READY signal: the factory announces the text channel, if it is on the
\* bus, and the tubes; a call that waited for the room is now created.
MucReady(m) ==
  LET announced == m.tubeq \cup (IF m.registered THEN m.queued ELSE {})
      called == IF m.call = "creating" THEN m.callq ELSE {}
  IN  [Answered(m, announced \cup called) EXCEPT !.ready = TRUE,
         !.lost = @ \cup (IF m.registered THEN {} ELSE m.queued),
         !.queued = {}, !.tubeq = {}, !.callq = @ \ called,
         !.call = IF @ = "creating" THEN "open" ELSE @]

EnterState(m, s) ==
  LET n == [m EXCEPT !.state = s] IN
  IF m.state = s THEN m
  ELSE CASE s = "joined" ->
              LET j == [n EXCEPT !.password = FALSE, !.must = FALSE, !.joinTimer = FALSE]
              IN  IF j.ready THEN j ELSE MucReady(j)
         [] s = "auth" -> IF n.ready THEN n ELSE MucReady(n)
         [] OTHER -> n

-----------------------------------------------------------------------------
(* Closing.                                                                  *)

\* tp_base_channel_destroyed: the factory forgets the channel, whose requests
\* keep its key; a call still being created will not answer anybody.
Destroyed(m) ==
  [NoChannel EXCEPT !.orphans = m.orphans \cup m.queued \cup m.tubeq,
     !.lost = m.lost \cup m.callq, !.ans = m.ans, !.up = m.up]

CanBeClosed(m) == m.tubes = {} /\ m.call = "none"

\* Defect: a service that does not answer keeps us.
SendLeaveMessageUntimed(m) == Sent(m, [t |-> "leave"])

SendLeaveMessage(m) ==
  [Sent(m, [t |-> "leave"]) EXCEPT !.leaveTimers = @ + 1]

InTheMuc(m) == m.state \in {"initiated", "joined", "ended"}

\* close_channel with inform_muc: Close(), RemoveMembers(self) and the last
\* tube or call of a room nobody asked for.
CloseInform(m) ==
  LET bare == [m EXCEPT !.self = "none", !.subject = FALSE, !.state = "ended"] IN
  IF ~CanBeClosed(m) THEN [m EXCEPT !.autoclose = TRUE, !.registered = FALSE]
  ELSE IF InTheMuc(m) THEN [SendLeaveMessage(bare) EXCEPT !.closing = TRUE]
  ELSE Destroyed(bare)

\* close_channel without: abandoning the tubes and calls of a room that closes
\* with them closes the room a first time, and tells it.
CloseNow(m) ==
  IF m.closing THEN Destroyed(m)
  ELSE LET told == m.autoclose /\ ~CanBeClosed(m) /\ m.call # "creating" /\ InTheMuc(m)
           failed == Answered([m EXCEPT !.callq = {}], m.callq)
       IN  Destroyed(IF told THEN Sent(failed, [t |-> "leave"]) ELSE failed)

\* muc_join_error_cb, then close_channel.
JoinError(m) ==
  CloseNow([Answered(m, m.queued \cup m.tubeq) EXCEPT !.queued = {}, !.tubeq = {}])

-----------------------------------------------------------------------------
(* The channel requests.                                                     *)

Asked == {r \in Requests : muc.ans[r] > 0} \cup muc.queued \cup muc.tubeq \cup muc.callq
           \cup muc.orphans \cup muc.lost

Request(r) ==
  /\ online
  /\ r \in env.requests \ Asked
  /\ UNCHANGED <<down, room, online, user, events, past, env>>

\* handle_text_channel_request, for EnsureChannel and CreateChannel alike.
RequestText ==
  \E r \in Requests :
    /\ Request(r)
    /\ r \in {"text", "text2"}
    /\ LET m == IF muc.alive THEN [muc EXCEPT !.autoclose = FALSE] ELSE NewMucChannel(muc, TRUE)
       IN  muc' = IF m.ready THEN [Answered(m, {r}) EXCEPT !.registered = TRUE]
                             ELSE [m EXCEPT !.queued = @ \cup {r}]

RequestTube ==
  /\ Request("tube")
  /\ LET m == IF muc.alive THEN muc ELSE NewMucChannel(muc, FALSE)
         n == [m EXCEPT !.tubes = @ \cup {"tube"}]
     IN  muc' = IF m.ready THEN Answered(n, {"tube"}) ELSE [n EXCEPT !.tubeq = @ \cup {"tube"}]

\* A call that exists already satisfies the request, or makes it fail.
RequestCall ==
  /\ Request("call")
  /\ LET m == IF muc.alive THEN muc ELSE NewMucChannel(muc, FALSE)
     IN  muc' = IF m.call = "open" THEN Answered(m, {"call"})
                ELSE [m EXCEPT !.call = "creating", !.callq = @ \cup {"call"}]

\* The channel of a ready room is made in an idle callback.
CallCreated ==
  /\ muc.alive
  /\ muc.ready
  /\ muc.call = "creating"
  /\ muc' = [Answered(muc, muc.callq) EXCEPT !.call = "open", !.callq = {}]
  /\ UNCHANGED <<down, room, online, user, events, past, env>>

\* do_invite: somebody asks us into a room we have no channel for.
Invited ==
  /\ online
  /\ env.invited
  /\ events < env.happenings
  /\ events' = events + 1
  /\ muc' = IF muc.alive THEN muc
            ELSE [muc EXCEPT !.alive = TRUE, !.registered = TRUE, !.ready = TRUE,
                    !.self = "local", !.members = {Inviter}, !.canAdd = TRUE]
  /\ UNCHANGED <<down, room, online, user, past, env>>

-----------------------------------------------------------------------------
(* The user's calls.                                                         *)

UserActs ==
  /\ online
  /\ muc.alive
  /\ user < env.calls
  /\ user' = user + 1
  /\ UNCHANGED <<down, room, online, events, env>>

\* Accepting an invitation, or changing one's mind while leaving.
AddMembersSelf ==
  /\ UserActs
  /\ muc.registered
  /\ muc.canAdd
  /\ muc.self \in {"none", "local"}
  /\ \/ muc.members = {} /\ muc' = AddSelf(muc, {})
     \/ \E x \in muc.members : muc' = AddSelf(muc, {x})
  /\ past' = IF muc.closing THEN past \cup {"rejoined"} ELSE past

Close ==
  /\ UserActs
  /\ muc.registered
  /\ muc' = CloseInform(muc)
  /\ past' = past \cup (IF muc.closing THEN {"closed twice"} ELSE {})
                  \cup (IF muc.state = "auth" /\ muc.password THEN {"password abandoned"} ELSE {})

ProvidePassword ==
  /\ UserActs
  /\ muc.must
  /\ ~muc.password
  /\ muc' = [SendJoinRequest([muc EXCEPT !.password = TRUE]) EXCEPT !.wstate = "initiated"]
  /\ UNCHANGED past

SetSubject ==
  /\ UserActs
  /\ muc.state = "joined"
  /\ ~muc.closing
  /\ ~muc.subject
  /\ muc' = Sent([muc EXCEPT !.subject = TRUE], [t |-> "subject"])
  /\ UNCHANGED past

\* The client closes a tube, or the call; the room may go with the last one.
SubChannelClosed(m) == IF CanBeClosed(m) /\ m.autoclose THEN CloseInform(m) ELSE m

CloseTube ==
  /\ UserActs
  /\ \E t \in muc.tubes \ muc.tubeq : muc' = SubChannelClosed([muc EXCEPT !.tubes = @ \ {t}])
  /\ past' = past \cup (IF muc.closing /\ muc.autoclose THEN {"closed twice"} ELSE {})

CloseCall ==
  /\ UserActs
  /\ muc.call = "open"
  /\ muc' = SubChannelClosed([muc EXCEPT !.call = "none"])
  /\ past' = past \cup (IF muc.closing /\ muc.autoclose THEN {"closed twice"} ELSE {})

-----------------------------------------------------------------------------
(* Timers, and the end of the connection.                                    *)

TimeoutJoin ==
  /\ muc.alive
  /\ muc.joinTimer
  /\ muc' = CloseNow([muc EXCEPT !.password = FALSE])
  /\ past' = past \cup {"timeout"}
  /\ UNCHANGED <<down, room, online, user, events, env>>

TimeoutLeave ==
  /\ muc.alive
  /\ muc.leaveTimers > 0
  /\ muc' = Destroyed(muc)
  /\ past' = past \cup {"timeout"}
  /\ UNCHANGED <<down, room, online, user, events, env>>

\* gabble_muc_factory_close_all: queued requests are cancelled, the channel is
\* torn down.  The service sees our stream end.
Disconnected ==
  /\ online
  /\ env.disconnects
  /\ online' = FALSE
  /\ LET m == [Answered(muc, muc.queued \cup muc.tubeq \cup muc.orphans)
                 EXCEPT !.queued = {}, !.tubeq = {}, !.orphans = {}]
     IN  muc' = [(IF m.alive THEN CloseNow(m) ELSE m) EXCEPT !.up = <<>>]
  /\ down' = <<>>
  /\ room' = [room EXCEPT !.me = NoNick]
  /\ UNCHANGED <<user, events, past, env>>

-----------------------------------------------------------------------------
(* Stanzas from the room.                                                    *)

Receive(t) ==
  /\ online
  /\ down # <<>>
  /\ Head(down).t = t
  /\ down' = Tail(down)
  /\ UNCHANGED <<room, online, user, events, past, env>>

\* WockyMuc's handlers are there from the first join to the channel's end.
Listening == muc.alive /\ muc.wstate # "created"

\* Nobody is left to handle the stanza.
Unheard ==
  /\ ~Listening
  /\ \E t \in {"here", "gone", "conflict", "refused", "subject", "message"} : Receive(t)
  /\ UNCHANGED muc

\* Defect: the room's idea of our nickname is ignored.
OwnPresenceKeepsNick(m, n) ==
  LET p == [m EXCEPT !.canAdd = TRUE] IN
  IF p.wstate = "joined" THEN p
  ELSE EnterState([p EXCEPT !.wstate = "joined", !.self = "member", !.members = @ \cup p.wmembers],
                  "joined")

\* handle_self_presence and handle_join: our role is news when we come in, and
\* so may be our nickname.
OwnPresence(m, n) ==
  LET p == [m EXCEPT !.wnick = n, !.canAdd = TRUE] IN
  IF p.wstate = "joined" THEN p
  ELSE EnterState([p EXCEPT !.wstate = "joined", !.self = "member", !.members = @ \cup p.wmembers],
                  "joined")

\* Somebody else's presence: before we are in only WockyMuc takes note.  It
\* may announce a tube, or a call that we then make a channel for.
UserPresence(m, n, with) ==
  LET p == [m EXCEPT !.wmembers = @ \cup {n}] IN
  IF p.wstate # "joined" THEN p
  ELSE [p EXCEPT !.members = @ \cup {n},
          !.tubes = IF with = "tube" THEN @ \cup {"remote"} ELSE @,
          !.call = IF with = "muji" /\ @ = "none" THEN "creating" ELSE @]

Here ==
  /\ Listening
  /\ Receive("here")
  /\ LET s == Head(down)
     IN  muc' = IF s.self THEN OwnPresence(muc, s.nick) ELSE UserPresence(muc, s.nick, s.with)

\* handle_parted and handle_left.
Gone ==
  /\ Listening
  /\ Receive("gone")
  /\ LET s == Head(down)
     IN  muc' = IF s.self THEN CloseNow([muc EXCEPT !.wstate = "ended"])
                ELSE IF s.nick \in muc.wmembers
                THEN [muc EXCEPT !.wmembers = @ \ {s.nick}, !.members = @ \ {s.nick}]
                ELSE muc

\* Errors mean nothing to somebody who is in the room or has left it.
ErrorHeeded == muc.state \notin {"joined", "ended"}

\* Defect: an error that is not about the nickname we ask for counts.
NickConflictAny(m, n) ==
  IF m.retries >= MAX_NICK_RETRIES THEN JoinError(m)
  ELSE SendJoinRequest([m EXCEPT !.nick = @ + 1, !.wnick = m.nick + 1, !.retries = @ + 1])

\* handle_nick_conflict: some services say it twice.
HandleNickConflict(m, n) ==
  IF n # m.nick THEN m
  ELSE IF m.retries >= MAX_NICK_RETRIES THEN JoinError(m)
  ELSE SendJoinRequest([m EXCEPT !.nick = @ + 1, !.wnick = m.nick + 1, !.retries = @ + 1])

Conflict ==
  /\ Listening
  /\ Receive("conflict")
  /\ muc' = IF ErrorHeeded THEN HandleNickConflict(muc, Head(down).nick) ELSE muc

\* Defect: the room that wants a password is given three minutes.
NotAuthorizedTimed(m) ==
  IF m.state = "auth" THEN [m EXCEPT !.password = FALSE]
  ELSE EnterState([m EXCEPT !.must = TRUE], "auth")

NotAuthorized(m) ==
  LET n == [m EXCEPT !.joinTimer = FALSE] IN
  IF n.state = "auth" THEN [n EXCEPT !.password = FALSE]
  ELSE EnterState([n EXCEPT !.must = TRUE], "auth")

Refused ==
  /\ Listening
  /\ Receive("refused")
  /\ muc' = IF ~ErrorHeeded THEN muc
            ELSE IF Head(down).why = "password" THEN NotAuthorized(muc) ELSE JoinError(muc)

\* Whoever changed the subject, and whether or not it was allowed: what we
\* asked for is answered.
SubjectHandled ==
  /\ Listening
  /\ Receive("subject")
  /\ muc' = [muc EXCEPT !.subject = FALSE]

\* A message makes a room reappear.
MessageReceived ==
  /\ Listening
  /\ Receive("message")
  /\ muc' = [muc EXCEPT !.registered = TRUE, !.autoclose = FALSE]

-----------------------------------------------------------------------------
(* The conference service.                                                   *)

Presence(n, self, with) == [t |-> "here", nick |-> n, self |-> self, with |-> with]

Presences(S) == LET q == SetToSeq(S) IN [i \in DOMAIN q |-> Presence(q[i], FALSE, "")]

\* The service's answer to one join request, with the occupant it makes of us.
JoinOutcome(s, good) ==
  IF env.silent THEN [says |-> <<>>, me |-> room.me]
  ELSE IF env.lock = "banned" THEN [says |-> <<[t |-> "refused", why |-> "banned"]>>, me |-> room.me]
  ELSE IF env.lock = "password" /\ room.me = NoNick /\ ~(s.password /\ good)
  THEN [says |-> <<[t |-> "refused", why |-> "password"]>>, me |-> room.me]
  ELSE IF s.nick \in room.occ
  THEN LET e == [t |-> "conflict", nick |-> s.nick]
       IN  [says |-> IF env.twice THEN <<e, e>> ELSE <<e>>, me |-> room.me]
  ELSE LET n == IF env.forced THEN Forced ELSE s.nick
       IN  [says |-> (IF room.me = NoNick THEN Presences(room.occ) ELSE <<>>)
                       \o <<Presence(n, TRUE, "")>>, me |-> n]

Service ==
  /\ online
  /\ muc.up # <<>>
  /\ muc' = [muc EXCEPT !.up = Tail(@)]
  /\ LET s == Head(muc.up) IN
       CASE s.t = "join" ->
              \E good \in BOOLEAN :
                /\ down' = down \o JoinOutcome(s, good).says
                /\ room' = [room EXCEPT !.me = JoinOutcome(s, good).me]
         [] s.t = "leave" ->
              /\ down' = IF room.me = NoNick THEN down
                         ELSE Append(down, [t |-> "gone", nick |-> room.me, self |-> TRUE])
              /\ room' = [room EXCEPT !.me = NoNick]
         [] s.t = "subject" ->
              /\ down' = Append(down, [t |-> "subject"])
              /\ UNCHANGED room
  /\ UNCHANGED <<online, user, events, past, env>>

\* What the other occupants do is told to us while we are in.
Happens(occ, me, s) ==
  /\ online
  /\ events < env.happenings
  /\ events' = events + 1
  /\ room' = [occ |-> occ, me |-> me]
  /\ down' = IF room.me = NoNick THEN down ELSE Append(down, s)
  /\ UNCHANGED <<muc, online, user, past, env>>

BobComes ==
  \E with \in env.bob : Happens(room.occ \cup {Bob}, room.me, Presence(Bob, FALSE, with))

BobGoes ==
  /\ Bob \in room.occ
  /\ Happens(room.occ \ {Bob}, room.me, [t |-> "gone", nick |-> Bob, self |-> FALSE])

BobSpeaks ==
  /\ Bob \in room.occ
  /\ \E t \in {"message", "subject"} : Happens(room.occ, room.me, [t |-> t])

Kicked ==
  /\ room.me # NoNick
  /\ Happens(room.occ, NoNick, [t |-> "gone", nick |-> room.me, self |-> TRUE])

-----------------------------------------------------------------------------
Handle == Unheard \/ Here \/ Gone \/ Conflict \/ Refused \/ SubjectHandled \/ MessageReceived

Progress == Handle \/ Service \/ CallCreated

Next ==
  \/ RequestText \/ RequestTube \/ RequestCall \/ Invited
  \/ AddMembersSelf \/ Close \/ ProvidePassword \/ SetSubject \/ CloseTube \/ CloseCall
  \/ TimeoutJoin \/ TimeoutLeave \/ Disconnected
  \/ Progress
  \/ BobComes \/ BobGoes \/ BobSpeaks \/ Kicked

\* GLib's main loop runs the timers and what arrives, and the service answers.
Fairness == WF_vars(Progress) /\ WF_vars(TimeoutJoin) /\ WF_vars(TimeoutLeave)

Spec == Init /\ [][Next]_vars /\ Fairness

-----------------------------------------------------------------------------
(* Properties.                                                               *)

\* A request of the factory (muc_ready_cb, muc_join_error_cb and close_all) is
\* answered at most once and is waited for until then; nothing waits on a room
\* that is ready, and after disconnecting nothing waits that the factory still
\* knows of.  Only rooms that a tube or call brought about lose requests.
RequestsAnswered ==
  /\ \A r \in Requests : muc.ans[r] <= 1
  /\ \A r \in muc.queued \cup muc.tubeq \cup muc.callq \cup muc.orphans \cup muc.lost : muc.ans[r] = 0
  /\ muc.queued \cup muc.tubeq # {} => muc.alive /\ ~muc.ready
  /\ muc.callq # {} => muc.alive /\ muc.call = "creating"
  /\ ~online => muc.queued \cup muc.tubeq \cup muc.callq \cup muc.orphans = {}
  /\ muc.lost # {} => env.requests \cap {"tube", "call"} # {}

Quiet == muc.up = <<>> /\ down = <<>>

\* Once everything has arrived a joined channel has the members and the
\* nickname that the service has, whatever conflicts, renamings, arrivals and
\* departures there were; and a room that was left, or could not be joined, no
\* longer counts us among its occupants.  Excepted are rooms given up on by a
\* timer, with a password on its way, or re-entered while leaving.
OccupancyAgrees ==
  Quiet /\ online /\ past \subseteq {"closed twice"} =>
    /\ muc.alive /\ muc.state = "joined" =>
         /\ muc.wnick = room.me
         /\ muc.members = room.occ
         /\ muc.self = "member"
    /\ ~muc.alive => room.me = NoNick

\* Waiting to get in and waiting to get out are both timed, sitting at a
\* password prompt or in the room is not; and nobody waits for a subject to be
\* set in a room that is gone or being left (channel_state_changed,
\* send_leave_message and close_channel).
TimersGuard ==
  /\ muc.alive /\ muc.state = "initiated" => muc.joinTimer
  /\ muc.closing => muc.leaveTimers > 0
  /\ muc.leaveTimers > 1 => "closed twice" \in past
  /\ muc.state \in {"auth", "joined"} => ~muc.joinTimer
  /\ muc.subject => muc.state = "joined"

\* Joining and leaving come to an end even if the service is silent, and if it
\* is not the user who sets a subject or gives a password gets an answer, or
\* sees the channel closed.
\* (timeout_join, timeout_leave, return_from_set_subject.)
RoomSettles ==
  /\ muc.state = "initiated" ~> muc.state # "initiated"
  /\ muc.closing ~> ~muc.closing
  /\ muc.subject /\ ~env.silent ~> ~muc.subject
  /\ muc.password /\ ~env.silent ~> ~muc.password
============================================================================
