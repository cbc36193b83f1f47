-------------------------------- MODULE Muji --------------------------------
(* A conference call in a chat room: GabbleCallMucChannel                    *)
(* (src/call-muc-channel.c).  Who joins the call, or changes what it sends,  *)
(* first announces that it is preparing; the room puts these announcements   *)
(* in order, and everybody publishes new contents when those who announced   *)
(* before them have.  Newcomers open Jingle sessions to those in the call.   *)
(*                                                                           *)
(* Every participant runs Gabble and is in the room throughout; the room     *)
(* sends each presence to everyone, its sender included, in one order.       *)
EXTENDS Naturals, Sequences, SequencesExt

CONSTANTS
  Participants,
  Environments     \* who takes part, what contents they ask for, whether they
                   \* hang up, and whether codecs are known at once

None == [kind |-> "none", contents |-> {}]

VARIABLES
  me,              \* the call channel of each participant, see NoCall
  down,            \* the presences on their way to each participant
  vis,             \* what each one's presence in the room says of the call
  turn,            \* who has a preparation the room knows of, in its order
  sessions,        \* <<p, q>>: p has opened a session to q
  left,            \* has somebody left the call?
  env

vars == <<me, down, vis, turn, sessions, left, env>>

\* seen is WockyMuc's record of the members' last presences, the rest is the
\* GabbleCallMucChannelPrivate.  codecless are the contents whose local codecs
\* are not known yet; out are the presences we have sent.
NoCall ==
  [exists |-> FALSE, state |-> "not joined", before |-> {}, after |-> {}, members |-> {},
   toOpen |-> <<>>, opened |-> FALSE, muji |-> None, contents |-> {}, codecless |-> {},
   crashed |-> "", seen |-> [q \in Participants |-> None], out |-> <<>>]

Init ==
  /\ env \in Environments
  /\ me = [p \in Participants |-> NoCall]
  /\ down = [p \in Participants |-> <<>>]
  /\ vis = [p \in Participants |-> None]
  /\ turn = <<>>
  /\ sessions = {}
  /\ left = FALSE

SendPresence(s) == [s EXCEPT !.out = Append(@, s.muji)]

AddContents(s, cs) ==
  [s EXCEPT !.contents = @ \cup cs,
     !.codecless = IF env.quick THEN {} ELSE @ \cup (cs \ s.contents)]

\* call_muc_channel_send_new_state: it is our turn.  It reads the codecs of
\* every content, those of a content that came in meanwhile too.
SendNewState(s) ==
  IF s.codecless # {} THEN [s EXCEPT !.crashed = "no codecs"]
  ELSE SendPresence([s EXCEPT !.before = s.after, !.after = s.before, !.state = "stable",
                       !.muji = [kind |-> "contents", contents |-> s.contents]])

\* call_muc_do_update: only the first announcement waits for codecs.
DoUpdate(s) ==
  LET prepared == [s EXCEPT !.muji.kind = "preparing", !.state = "preparing sent"] IN
  IF s.state = "stable" \/ (s.state = "preparing" /\ s.codecless = {})
  THEN SendPresence(prepared) ELSE s

\* Defect: those who announce while we wait go before us too.
QueueBefore(s, q) ==
  IF q \in s.before \cup s.after THEN s ELSE [s EXCEPT !.before = @ \cup {q}]

Queue(s, q) ==
  IF q \in s.before \cup s.after THEN s
  ELSE IF s.state = "wait for turn" THEN [s EXCEPT !.after = @ \cup {q}]
  ELSE [s EXCEPT !.before = @ \cup {q}]

\* Defect: somebody who has published lets us go ahead of the others.
DoneFirst(s, q) ==
  LET n == [s EXCEPT !.before = @ \ {q}, !.after = @ \ {q}] IN
  IF n.state = "wait for turn" THEN SendNewState(n) ELSE n

Done(s, q) ==
  LET n == [s EXCEPT !.before = @ \ {q}, !.after = @ \ {q}] IN
  IF n.state = "wait for turn" /\ n.before = {} THEN SendNewState(n) ELSE n

\* call_muc_channel_remove_member.
RemoveMember(s, q) ==
  [s EXCEPT !.members = @ \ {q}, !.before = @ \ {q}, !.after = @ \ {q},
     !.toOpen = RemoveFirst(@, q)]

\* Defect: only those who have published are called.
AddMemberPublished(s, q, m) ==
  LET call == ~s.opened /\ s.state \in {"not joined", "preparing", "preparing sent"}
                /\ m.kind = "contents"
  IN  AddContents([s EXCEPT !.members = @ \cup {q},
                     !.toOpen = IF call THEN Append(@, q) ELSE @], m.contents)

\* Whoever is in the call before our announcement is in the room is called by
\* us.  Every presence of theirs puts them into the queue.
AddMember(s, q, m) ==
  LET call == ~s.opened /\ s.state \in {"not joined", "preparing", "preparing sent"}
  IN  AddContents([s EXCEPT !.members = @ \cup {q},
                     !.toOpen = IF call THEN Append(@, q) ELSE @], m.contents)

\* call_muc_channel_got_participant_presence.
GotParticipantPresence(s, q, m) ==
  IF m.kind = "none" THEN IF q \in s.members THEN RemoveMember(s, q) ELSE s
  ELSE LET n == AddMember(s, q, m)
       IN  IF m.kind = "preparing" THEN Queue(n, q) ELSE Done(n, q)

\* call_muc_channel_ready: what WockyMuc knows of the members.
Ready(s) ==
  FoldLeft(LAMBDA t, q : GotParticipantPresence(t, q, s.seen[q]), [s EXCEPT !.exists = TRUE],
           SetToSeq({q \in Participants : s.seen[q].kind # "none"}))

-----------------------------------------------------------------------------
Alive(p) == me[p].exists /\ me[p].crashed = ""

Unmoved == UNCHANGED <<down, vis, turn, sessions, left, env>>

\* The user asks for a call, with one content.
RequestCall(p) ==
  /\ ~me[p].exists
  /\ \E c \in env.asked : me' = [me EXCEPT ![p] = Ready(AddContents(@, {c}))]
  /\ Unmoved

Accept(p) ==
  /\ Alive(p)
  /\ me[p].state = "not joined"
  /\ me' = [me EXCEPT ![p] = DoUpdate([@ EXCEPT !.state = "preparing"])]
  /\ Unmoved

\* The streaming implementation knows its codecs for a content.
LocalCodecs(p) ==
  /\ Alive(p)
  /\ \E c \in me[p].codecless : me' = [me EXCEPT ![p] = DoUpdate([@ EXCEPT !.codecless = @ \ {c}])]
  /\ Unmoved

AddContent(p) ==
  /\ Alive(p)
  /\ \E c \in env.added \ me[p].contents : me' = [me EXCEPT ![p] = AddContents(@, {c})]
  /\ Unmoved

\* Hanging up and closing.
Leave(p) ==
  /\ Alive(p)
  /\ env.leaves
  /\ me[p].state # "left"
  /\ me' = [me EXCEPT ![p] = SendPresence([@ EXCEPT !.state = "left", !.muji = None])]
  /\ left' = TRUE
  /\ UNCHANGED <<down, vis, turn, sessions, env>>

\* The room: a presence of p reaches everybody.
Room(p) ==
  /\ me[p].out # <<>>
  /\ LET m == Head(me[p].out) IN
       /\ me' = [me EXCEPT ![p].out = Tail(@)]
       /\ vis' = [vis EXCEPT ![p] = m]
       /\ down' = [q \in Participants |->
                     IF q \in env.people THEN Append(down[q], [from |-> p, muji |-> m]) ELSE down[q]]
       /\ turn' = IF m.kind = "preparing" THEN Append(turn, p) ELSE RemoveFirst(turn, p)
  /\ UNCHANGED <<sessions, left, env>>

\* call_muc_channel_open_new_streams.  A member that has a session already
\* must not get another (gabble_call_member_set_session).
OpenNewStreams(p) ==
  LET s == me[p]
      twice == \E i \in DOMAIN s.toOpen : \/ <<s.toOpen[i], p>> \in sessions
                                          \/ \E j \in 1 .. (i - 1) : s.toOpen[j] = s.toOpen[i]
  IN  /\ me' = [me EXCEPT ![p] = [s EXCEPT !.opened = TRUE, !.toOpen = <<>>,
                                    !.crashed = IF twice THEN "second session" ELSE @]]
      /\ sessions' = sessions \cup {<<p, s.toOpen[i]>> : i \in DOMAIN s.toOpen}

\* call_muc_channel_own_presence_cb: an older version of our own presence means
\* nothing.
OwnPresence(p, m) ==
  LET s == me[p] IN
  IF m.kind = "none" \/ m # s.muji THEN UNCHANGED <<me, sessions>>
  ELSE IF s.state = "preparing sent"
  THEN LET w == [s EXCEPT !.state = "wait for turn"]
       IN  me' = [me EXCEPT ![p] = IF w.before = {} THEN SendNewState(w) ELSE w]
           /\ UNCHANGED sessions
  ELSE IF s.state = "stable" THEN OpenNewStreams(p)
  ELSE UNCHANGED <<me, sessions>>

\* Somebody's contents make a call channel, if there is none (handle_presence
\* of the text channel).
MemberPresence(p, q, m) ==
  LET s == [me[p] EXCEPT !.seen[q] = m] IN
  me' = [me EXCEPT ![p] = IF s.crashed # "" THEN s
                          ELSE IF s.exists THEN GotParticipantPresence(s, q, m)
                          ELSE IF m.contents # {} THEN Ready(s) ELSE s]

Receive(p) ==
  /\ down[p] # <<>>
  /\ me[p].crashed = ""
  /\ down' = [down EXCEPT ![p] = Tail(@)]
  /\ LET d == Head(down[p]) IN
       IF d.from # p THEN MemberPresence(p, d.from, d.muji) /\ UNCHANGED sessions
       ELSE IF me[p].exists THEN OwnPresence(p, d.muji)
       ELSE UNCHANGED <<me, sessions>>
  /\ UNCHANGED <<vis, turn, left, env>>

Next ==
  \E p \in env.people :
    \/ RequestCall(p) \/ Accept(p) \/ LocalCodecs(p) \/ AddContent(p) \/ Leave(p) \/ Room(p) \/ Receive(p)

\* The room and the main loops deliver, and streaming implementations answer.
Fairness == \A p \in Participants :
              WF_vars(Room(p)) /\ WF_vars(Receive(p)) /\ WF_vars(LocalCodecs(p))

Spec == Init /\ [][Next]_vars /\ Fairness

-----------------------------------------------------------------------------
(* Properties.                                                               *)

Joined(p) == Alive(p) /\ me[p].opened /\ me[p].state # "left"

\* Contents are published one participant at a time: new contents of p are on
\* their way to the room only when nobody's announcement is ahead of p's, and
\* by then p knows every content published before (send_new_state).
TurnsTaken ==
  \A p \in Participants :
    (\E i \in DOMAIN me[p].out : me[p].out[i].kind = "contents") /\ me[p].state # "left" =>
       /\ turn # <<>> /\ Head(turn) = p
       /\ \A q \in Participants \ {p} :
            me[q].crashed = "" => vis[q].contents \subseteq me[p].contents

\* Of two participants who are in the call one has called the other and only
\* one has: whoever announced itself later (sessions_to_open).
SessionsMatched ==
  \A p, q \in Participants :
    p # q /\ Joined(p) /\ Joined(q) => (<<p, q>> \in sessions <=> <<q, p>> \notin sessions)

\* gabble_call_member_set_session asserts that the member has no session yet,
\* yet sessions_to_open gets a member once for each presence of theirs.
OneSessionEach == \A p \in Participants : me[p].crashed # "second session"

\* As long as everybody stays, whoever waits for its turn gets it.
TurnComes ==
  \A p \in Participants :
    me[p].state = "wait for turn" /\ ~left ~>
       \/ me[p].state # "wait for turn"
       \/ left
       \/ \E q \in Participants : me[q].crashed # ""
=============================================================================
