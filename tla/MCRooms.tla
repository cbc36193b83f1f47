------------------------------ MODULE MCRooms ------------------------------
(* Chat rooms for TLC: in each behaviour either one room (MucRoom) or one     *)
(* conference call (Muji) moves, as `part' says; the two share nothing.       *)
EXTENDS Naturals

CONSTANTS Participants

VARIABLES part
VARIABLES muc, roomDown, room, online, user, events, past, roomEnv
VARIABLES me, callDown, vis, turn, sessions, left, callEnv

Bob == 99
Plain == [taken |-> {}, lock |-> "open", forced |-> FALSE, twice |-> FALSE, silent |-> FALSE,
          invited |-> FALSE, disconnects |-> FALSE, bob |-> {""}, requests |-> {"text"},
          calls |-> 2, happenings |-> 1]

RoomWorlds ==
  {Plain,
   [Plain EXCEPT !.taken = {0, Bob}, !.twice = TRUE],
   [Plain EXCEPT !.taken = {0, 1}, !.forced = TRUE],
   [Plain EXCEPT !.taken = {0}, !.forced = TRUE, !.happenings = 2],
   [Plain EXCEPT !.lock = "password", !.requests = {"text", "text2"}],
   [Plain EXCEPT !.lock = "banned", !.requests = {"text", "tube"}],
   [Plain EXCEPT !.silent = TRUE, !.requests = {"text", "call"}, !.disconnects = TRUE],
   [Plain EXCEPT !.taken = {Bob}, !.invited = TRUE, !.requests = {}, !.happenings = 2, !.calls = 3],
   [Plain EXCEPT !.requests = {"text", "tube", "call"}, !.bob = {"tube", "muji"}],
   [Plain EXCEPT !.requests = {"text", "text2", "tube"}, !.disconnects = TRUE, !.happenings = 0]}

Two == [people |-> {"p", "q"}, asked |-> {"audio"}, added |-> {}, leaves |-> FALSE, quick |-> FALSE]

Leaving == [Two EXCEPT !.leaves = TRUE]

CallWorlds ==
  {Leaving,
   [Two EXCEPT !.asked = {"audio", "video"}],
   [Two EXCEPT !.added = {"video"}],
   [Two EXCEPT !.added = {"video"}, !.quick = TRUE],
   [Two EXCEPT !.people = {"p", "q", "r"}, !.quick = TRUE]}

R == INSTANCE MucRoom WITH
  MAX_NICK_RETRIES <- 1, Requests <- {"text", "text2", "tube", "call"},
  Environments <- RoomWorlds, down <- roomDown, env <- roomEnv
C == INSTANCE Muji WITH
  Environments <- CallWorlds, down <- callDown, env <- callEnv

roomVars == <<muc, roomDown, room, online, user, events, past, roomEnv>>
callVars == <<me, callDown, vis, turn, sessions, left, callEnv>>
vars == <<part, roomVars, callVars>>

Init ==
  /\ part \in {"room", "call"}
  /\ R!Init /\ (part = "room" \/ roomEnv = Plain)
  /\ C!Init /\ (part = "call" \/ callEnv = Leaving)

Next ==
  \/ part = "room" /\ R!Next /\ UNCHANGED <<part, callVars>>
  \/ part = "call" /\ C!Next /\ UNCHANGED <<part, roomVars>>

Spec == Init /\ [][Next]_vars /\ R!Fairness /\ C!Fairness

\* One participant's process in a conference call.
CallSpec == Init /\ part = "call" /\ [][Next]_vars

-----------------------------------------------------------------------------
\* Requests for rooms, tubes and calls are answered once and waited for until
\* then (muc_ready_cb, muc_join_error_cb, gabble_muc_factory_close_all).
RequestsAnswered == R!RequestsAnswered

\* The channel's members, nickname and presence in the room agree with the
\* service when nothing is on its way, and timers guard joining and leaving
\* (handle_nick_conflict, handle_join, handle_parted, close_channel).
MembershipSafe == R!OccupancyAgrees /\ R!TimersGuard

\* Contents of a conference are published in turns and every two participants
\* share one session (call_muc_channel_send_new_state, sessions_to_open).
CallsSafe == C!TurnsTaken /\ C!SessionsMatched

\* Joining, leaving, subjects and passwords end, and turns come (timeout_join,
\* timeout_leave, call_muc_channel_got_participant_presence).
RoomsSettle == R!RoomSettles /\ C!TurnComes

\* The assertion of gabble_call_member_set_session: no member gets a second
\* session.
OneSessionEach == C!OneSessionEach

============================================================================
