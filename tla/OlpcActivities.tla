--------------------------- MODULE OlpcActivities ---------------------------
(* Shared activities of the OLPC interfaces (conn-olpc.c): which activities the *)
(* user and the buddies announce by PEP or by invitation, the counted references *)
(* to them, what is published and whom the user invited.                          *)
(* PEP is a queue of requests and a queue of answers and notifications.           *)
EXTENDS Naturals, Sequences, FiniteSets, FiniteSetsExt

CONSTANTS OlpcScenes, Activities, Buddies

VARIABLES
  olpcScene, \* which operations happen
  ol,        \* the tables of the connection
  toPep,     \* requests on their way to the PEP service
  fromPep,   \* its answers
  pub,       \* what the service has of ours
  inbox,     \* the invitations to our activities that each buddy holds
  stepsLeft

olpcVars == <<olpcScene, ol, toPep, fromPep, pub, inbox, stepsLeft>>

Us == "us"
NoAct == [refs |-> 0, id |-> FALSE, props |-> "none"]
Chan == [conns |-> 0, joined |-> FALSE, invitees |-> {}]

\* gabble_olpc_activity_is_visible: complete, and said not to be private
Visible(o, r) == o.act[r].id /\ o.act[r].props = "public"
Known(o, r) == o.act[r].refs > 0

\* add_activity_info, and g_object_ref of one that is known
Ref(o, r) == [o EXCEPT !.act[r].refs = @ + 1]
\* g_object_unref, and activity_disposed_cb
Unref(o, r) == IF o.act[r].refs = 1 THEN [o EXCEPT !.act[r] = NoAct] ELSE [o EXCEPT !.act[r].refs = @ - 1]
RefEach(o, rs) == FoldSet(LAMBDA r, x : Ref(x, r), o, rs)
\* decrement_contacts_activities_set_foreach
UnrefEach(o, rs) == FoldSet(LAMBDA r, x : Unref(x, r), o, rs)
SetIds(o, rs) == [o EXCEPT !.act = [r \in Activities |-> IF r \in rs THEN [@[r] EXCEPT !.id = TRUE] ELSE @[r]]]

\* get_buddy_activities, and the ActivitiesChanged or the reply that carries them
BuddyActivities(o, c) == {r \in o.pep[c] \cup o.inv[c] : o.act[r].id}
TellActivities(o, c) == [o EXCEPT !.told[c] = BuddyActivities(o, c), !.untold[c] = {}]

-----------------------------------------------------------------------------
\* extract_activities: the new set is referenced before the old one is let go.
ExtractActivitiesTwice(o, c, rs) == [SetIds(RefEach(o, rs), rs) EXCEPT !.pep[c] = rs]
ExtractActivities(o, c, rs) ==
  LET fresh == SetIds(RefEach(o, rs), rs)
  IN [UnrefEach(fresh, o.pep[c]) EXCEPT !.pep[c] = rs]

\* add_activity_info_in_set
AddInSet(o, c, r) == [Ref(o, r) EXCEPT !.pep[c] = @ \cup {r}]

\* extract_current_activity: the table holds a reference of its own, and keeps it
\* when the buddy names no activity any more.
ExtractCurrent(o, c, r) ==
  IF r = "none" THEN o ELSE
  LET known == IF Known(o, r) THEN o ELSE AddInSet(o, c, r)
      held == Ref(SetIds(known, {r}), r)
      old == o.cur[c]
  IN [(IF old = "none" THEN held ELSE Unref(held, old)) EXCEPT !.cur[c] = r]

\* update_activity_properties: as published, unless there are none
UpdateProperties(o, c, r, p) ==
  LET known == IF Known(o, r) THEN o ELSE AddInSet(o, c, r)
  IN IF p = "none" THEN known ELSE [known EXCEPT !.act[r].props = p]

\* The activities of ours that a buddy's announcement made visible or invisible,
\* which does not change what we publish.
Overheard(o, n) ==
  [n EXCEPT !.stale = @ \cup {r \in o.pep[Us] : Visible(o, r) # Visible(n, r)}]

\* forget_activity_invites, remove_invite_foreach
ForgetInvitesQuietly(o, r) ==
  LET who == {c \in Buddies : r \in o.inv[c]}
  IN FoldSet(LAMBDA c, x : Unref([x EXCEPT !.inv[c] = @ \ {r}], r), o, who)
ForgetInvites(o, r) ==
  LET who == {c \in Buddies : r \in o.inv[c]}
  IN FoldSet(LAMBDA c, x : Unref(TellActivities([x EXCEPT !.inv[c] = @ \ {r}], c), r), o, who)

\* connection_presence_do_update: a buddy went away.
ForgetBuddy(o, c) ==
  LET gone == UnrefEach(UnrefEach(o, o.pep[c]), o.inv[c])
  IN [gone EXCEPT !.pep[c] = {}, !.inv[c] = {}, !.told[c] = {}, !.untold[c] = {}]

-----------------------------------------------------------------------------
\* Requests to PEP: what is published, for whom, and whether a call waits.
Request(t, v, ctx) == [t |-> t, v |-> v, ctx |-> ctx, changed |-> FALSE, room |-> "none"]

\* upload_activities_pep
UploadedPrivate(o) == o.pep[Us]
Uploaded(o) == {r \in o.pep[Us] : Visible(o, r)}
UploadActivities(o, ctx) == <<Request("acts", Uploaded(o), ctx)>>
\* upload_activity_properties_pep, activity_info_contribute_properties
UploadProperties(o, ctx) == <<Request("props", Uploaded(o), ctx)>>

OlpcInit ==
  /\ olpcScene \in OlpcScenes
  /\ ol = [act |-> [r \in Activities |-> NoAct], chan |-> [r \in Activities |-> Chan],
           pep |-> [c \in Buddies \cup {Us} |-> {}], inv |-> [c \in Buddies |-> {}],
           cur |-> [c \in Buddies |-> "none"], told |-> [c \in Buddies |-> {}],
           waiting |-> 0, up |-> FALSE, preload |-> 0, buddy |-> 0, ownCur |-> "none",
           leaks |-> [r \in Activities |-> 0], untold |-> [c \in Buddies |-> {}], stale |-> {}, wrecked |-> FALSE]
  /\ toPep = <<>> /\ fromPep = <<>>
  /\ pub = [acts |-> {}, props |-> {}, buddy |-> 0, current |-> "none"]
  /\ inbox = [c \in Buddies |-> {}]
  /\ stepsLeft = olpcScene.steps

Does(op) == op \in olpcScene.ops /\ stepsLeft > 0 /\ stepsLeft' = stepsLeft - 1
Asks(o, reqs) == ol' = [o EXCEPT !.waiting = @ + 1] /\ toPep' = toPep \o reqs

-----------------------------------------------------------------------------
\* connection_status_changed_cb, gabble_connection_connected_olpc
OlpcConnected ==
  /\ ~ol.up
  /\ ol' = [ol EXCEPT !.up = TRUE, !.preload = 0]
  /\ toPep' = UploadActivities(ol, FALSE) \o UploadProperties(ol, FALSE)
              \o (IF ol.preload = 0 THEN <<>> ELSE <<Request("buddy", ol.preload, FALSE)>>)
  /\ UNCHANGED <<olpcScene, fromPep, pub, inbox, stepsLeft>>

\* olpc_buddy_info_set_properties, transmit_properties
SetBuddyProperties ==
  \E v \in 1..2 :
    /\ Does("buddy")
    /\ LET o == [ol EXCEPT !.buddy = v]
       IN IF ol.up THEN Asks(o, <<Request("buddy", v, TRUE)>>)
          ELSE ol' = [o EXCEPT !.preload = v] /\ UNCHANGED toPep
    /\ UNCHANGED <<olpcScene, fromPep, pub, inbox>>

\* olpc_buddy_info_set_activities
SetActivitiesTo(rs) ==
  LET o == [UnrefEach(SetIds(RefEach(ol, rs), rs), ol.pep[Us]) EXCEPT !.pep[Us] = rs]
  IN Asks(o, UploadActivities(o, TRUE))
SetActivities ==
  \E rs \in SUBSET Activities :
    ol.up /\ Does("set") /\ SetActivitiesTo(rs) /\ UNCHANGED <<olpcScene, fromPep, pub, inbox>>

\* The call names an invalid room, or one that it named before, and fails: what it
\* referenced is let go again, and the activity named twice is freed under everybody
\* (g_free of an object), after which the program does as it likes.
SetActivitiesFails ==
  \E rs \in SUBSET Activities, twice \in BOOLEAN :
    /\ ol.up /\ Does("bad set") /\ (twice => rs # {})
    /\ ol' = [UnrefEach(SetIds(RefEach(ol, rs), rs), rs) EXCEPT !.wrecked = twice]
    /\ UNCHANGED <<olpcScene, toPep, fromPep, pub, inbox>>

\* add_activity: one that was unknown is referenced twice.
AddActivityRef(o, r) ==
  IF Known(o, r) THEN Ref(o, r) ELSE [Ref(Ref(o, r), r) EXCEPT !.leaks[r] = @ + 1]

\* olpc_buddy_info_add_activity
AddActivity ==
  \E r \in Activities \ ol.pep[Us] :
    LET o == [SetIds(AddActivityRef(ol, r), {r}) EXCEPT !.pep[Us] = @ \cup {r}]
    IN /\ ol.up /\ Does("add") /\ Asks(o, UploadActivities(o, TRUE))
       /\ UNCHANGED <<olpcScene, fromPep, pub, inbox>>

\* refresh_invitations: everybody invited who has not come gets the properties.
RefreshInvitations(o, r) ==
  [c \in Buddies |-> IF c \in o.chan[r].invitees /\ o.act[r].id THEN inbox[c] \cup {r} ELSE inbox[c]]

\* olpc_activity_properties_set_properties: one publication, then perhaps another.
SetActivityProperties ==
  \E r \in ol.pep[Us], p \in {"public", "private"} :
    LET o == [ol EXCEPT !.act[r].props = p]
        req == [Request("props", Uploaded(o), TRUE) EXCEPT !.room = r, !.changed = Visible(ol, r) # Visible(o, r)]
    IN /\ ol.up /\ ol.chan[r].joined /\ Does("props")
       /\ IF Visible(ol, r) \/ Visible(o, r) THEN Asks(o, <<req>>) ELSE ol' = o /\ UNCHANGED toPep
       /\ inbox' = RefreshInvitations(o, r)
       /\ UNCHANGED <<olpcScene, fromPep, pub>>

\* olpc_buddy_info_set_current_activity, activity_in_own_set: of the announced ones, or none
SetCurrentActivity ==
  \E r \in ol.pep[Us] \cup {"none"} :
    /\ ol.up /\ Does("current")
    /\ Asks([ol EXCEPT !.ownCur = r], <<Request("current", r, TRUE)>>)
    /\ UNCHANGED <<olpcScene, fromPep, pub, inbox>>

\* olpc_buddy_info_get_activities and olpc_buddy_info_get_current_activity, of
\* which the latter may know the answer.
GetActivities ==
  \E c \in Buddies :
    /\ ol.up /\ Does("get") /\ Asks(ol, <<Request("get acts", c, TRUE)>>)
    /\ UNCHANGED <<olpcScene, fromPep, pub, inbox>>
GetCurrentActivity ==
  \E c \in Buddies :
    /\ ol.up /\ Does("get") /\ ol.cur[c] = "none" /\ Asks(ol, <<Request("get current", c, TRUE)>>)
    /\ UNCHANGED <<olpcScene, fromPep, pub, inbox>>

-----------------------------------------------------------------------------
\* muc_factory_new_channel_cb, and again when the channel respawns
ChannelAnnounced ==
  \E r \in Activities :
    /\ ol.up /\ ol.chan[r].conns < 2 /\ (ol.chan[r].conns = 0 \/ "respawn" \in olpcScene.ops) /\ Does("room")
    /\ ol' = [Ref(ol, r) EXCEPT !.chan[r].conns = @ + 1]
    /\ UNCHANGED <<olpcScene, toPep, fromPep, pub, inbox>>

\* muc_channel_contact_join_cb with ourselves, and with a buddy we may have invited
WeJoin ==
  \E r \in Activities :
    /\ ol.chan[r].conns > 0 /\ ~ol.chan[r].joined
    /\ ol' = [ForgetInvites(ol, r) EXCEPT !.chan[r].joined = TRUE]
    /\ UNCHANGED <<olpcScene, toPep, fromPep, pub, inbox, stepsLeft>>
BuddyJoins ==
  \E r \in Activities, c \in Buddies :
    /\ ol.chan[r].joined /\ r \in inbox[c] /\ Does("join")
    /\ ol' = [ol EXCEPT !.chan[r].invitees = @ \ {c}]
    /\ inbox' = [inbox EXCEPT ![c] = @ \ {r}]
    /\ UNCHANGED <<olpcScene, toPep, fromPep, pub>>

\* muc_channel_pre_invite_cb
Invite ==
  \E r \in Activities, c \in Buddies :
    LET o == [ol EXCEPT !.chan[r].invitees = @ \cup {c}]
    IN /\ ol.chan[r].joined /\ c \notin ol.chan[r].invitees /\ Does("invite")
       /\ ol' = o
       /\ inbox' = IF ol.act[r].id /\ ol.act[r].props # "none" THEN [inbox EXCEPT ![c] = @ \cup {r}] ELSE inbox
       /\ UNCHANGED <<olpcScene, toPep, fromPep, pub>>

\* revoke_invitations
RevokeNone(r, who) == inbox
RevokeInvitations(r, who) ==
  [c \in Buddies |-> IF c \in who /\ ol.act[r].id THEN inbox[c] \ {r} ELSE inbox[c]]

\* muc_channel_closed_cb, once for every connection of the signal
Closed(o, r) == UnrefEach(FoldSet(LAMBDA n, x : Unref(x, r), o, 1..o.chan[r].conns), o.pep[Us] \cap {r})
ChannelCloses ==
  \E r \in Activities :
    LET o == [Closed(ol, r) EXCEPT !.chan[r] = Chan, !.pep[Us] = @ \ {r}]
    IN /\ ol.chan[r].conns > 0 /\ Does("close")
       /\ \A i \in 1..Len(toPep) : toPep[i].room # r
       /\ \A i \in 1..Len(fromPep) : fromPep[i].room # r
       /\ inbox' = RevokeInvitations(r, ol.chan[r].invitees)
       /\ ol' = o
       /\ toPep' = IF r \in ol.pep[Us] /\ Visible(ol, r)
                   THEN toPep \o UploadActivities(o, FALSE) \o UploadProperties(o, FALSE) ELSE toPep
       /\ UNCHANGED <<olpcScene, fromPep, pub>>

-----------------------------------------------------------------------------
\* conn_olpc_process_activity_properties_message from a buddy: an invitation.
InvitationHeard ==
  \E c \in Buddies, r \in Activities, p \in {"public", "private"} :
    LET held == IF r \in ol.inv[c] THEN ol ELSE [Ref(ol, r) EXCEPT !.inv[c] = @ \cup {r}]
        o == [SetIds(held, {r}) EXCEPT !.act[r].props = p]
        ours == r \in ol.pep[Us]
    IN /\ ol.up /\ ~ol.chan[r].joined /\ Does("invited")
       /\ ol' = IF r \in ol.inv[c] THEN o ELSE TellActivities(o, c)
       /\ toPep' = toPep \o (IF ours /\ (Visible(ol, r) # Visible(o, r) \/ (Visible(o, r) /\ ol.act[r].props # p))
                             THEN UploadProperties(o, FALSE) ELSE <<>>)
                         \o (IF ours /\ Visible(ol, r) # Visible(o, r) THEN UploadActivities(o, FALSE) ELSE <<>>)
       /\ UNCHANGED <<olpcScene, fromPep, pub, inbox>>

\* The same from a member of the room: its properties changed.
RoomSaysNothingPublished(r, p) ==
  /\ ol' = [SetIds(ol, {r}) EXCEPT !.act[r].props = p]
  /\ UNCHANGED toPep
RoomSays(r, p) ==
  LET o == [SetIds(ol, {r}) EXCEPT !.act[r].props = p]
      ours == r \in ol.pep[Us]
      flips == Visible(ol, r) # Visible(o, r)
  IN /\ ol' = o
     /\ toPep' = toPep \o (IF ours /\ flips THEN UploadProperties(o, FALSE) \o UploadActivities(o, FALSE) ELSE <<>>)
RoomPropertiesHeard ==
  \E r \in Activities, p \in {"public", "private"} :
    /\ ol.chan[r].joined /\ p # ol.act[r].props /\ Does("heard")
    /\ RoomSays(r, p)
    /\ inbox' = RefreshInvitations([SetIds(ol, {r}) EXCEPT !.act[r].props = p], r)
    /\ UNCHANGED <<olpcScene, fromPep, pub>>

\* conn_olpc_process_activity_uninvite_message: with another id the invitation goes
\* too, but neither its reference, nor is anybody told.
Uninvited ==
  \E c \in Buddies, same \in BOOLEAN :
    \E r \in ol.inv[c] :
      LET o == [ol EXCEPT !.inv[c] = @ \ {r}]
      IN /\ Does("invited")
         /\ ol' = IF same THEN TellActivities(Unref(o, r), c)
                  ELSE [o EXCEPT !.leaks[r] = @ + 1, !.untold[c] = @ \cup {r}]
         /\ UNCHANGED <<olpcScene, toPep, fromPep, pub, inbox>>

\* olpc_activities_pep_node_changed, olpc_current_act_pep_node_changed and
\* olpc_act_props_pep_node_changed of a buddy
BuddyPublishes ==
  \E c \in Buddies :
    /\ ol.up
    /\ \/ Does("their acts") /\ \E rs \in SUBSET Activities : ol' = TellActivities(ExtractActivities(ol, c, rs), c)
       \/ Does("their current") /\ \E r \in Activities \cup {"none"} : ol' = ExtractCurrent(ol, c, r)
       \/ Does("their props") /\ \E r \in Activities, p \in {"none", "public", "private"} :
                                 ol' = Overheard(ol, UpdateProperties(ol, c, r, p))
    /\ UNCHANGED <<olpcScene, toPep, fromPep, pub, inbox>>

\* connection_presences_updated_cb
BuddyLeaves ==
  \E c \in Buddies :
    /\ ol.up /\ Does("offline") /\ ol' = ForgetBuddy(ol, c)
    /\ UNCHANGED <<olpcScene, toPep, fromPep, pub, inbox>>

-----------------------------------------------------------------------------
\* The PEP service takes a request, or refuses it.
PepTakes ==
  LET x == Head(toPep)
  IN /\ toPep # <<>>
     /\ toPep' = Tail(toPep)
     /\ \E ok \in {TRUE} \cup (IF x.ctx THEN {"refuse" \notin olpcScene.ops} ELSE {}) :
          /\ pub' = IF ~ok THEN pub
                    ELSE CASE x.t = "acts" -> [pub EXCEPT !.acts = x.v]
                           [] x.t = "props" -> [pub EXCEPT !.props = x.v]
                           [] x.t = "current" -> [pub EXCEPT !.current = x.v]
                           [] x.t = "buddy" -> [pub EXCEPT !.buddy = x.v]
                           [] OTHER -> pub
          /\ fromPep' = Append(fromPep, [t |-> x.t, v |-> x.v, ctx |-> x.ctx, changed |-> x.changed, room |-> x.room, ok |-> ok])
     /\ UNCHANGED <<olpcScene, ol, inbox, stepsLeft>>

\* check_publish_reply_msg, and the replies of the calls; the properties of an
\* activity whose visibility changed are followed by the list of activities.
PepReplies ==
  LET x == Head(fromPep)
      more == x.t = "props" /\ x.ctx /\ x.ok /\ x.changed
      answered == [ol EXCEPT !.waiting = IF x.ctx /\ ~more THEN @ - 1 ELSE @]
  IN /\ fromPep # <<>>
     /\ fromPep' = Tail(fromPep)
     /\ toPep' = IF more THEN toPep \o <<[UploadActivities(ol, TRUE)[1] EXCEPT !.room = x.room]>> ELSE toPep
     /\ \/ x.t = "get acts" /\ x.ok /\ \E rs \in SUBSET Activities : ol' = TellActivities(ExtractActivities(answered, x.v, rs), x.v)
        \/ x.t = "get current" /\ x.ok /\ \E r \in Activities \cup {"none"} : ol' = ExtractCurrent(answered, x.v, r)
        \/ (~x.ok \/ x.t \notin {"get acts", "get current"}) /\ ol' = answered
     /\ UNCHANGED <<olpcScene, pub, inbox, stepsLeft>>

OlpcSteps ==
  \/ OlpcConnected \/ SetBuddyProperties \/ SetActivities \/ SetActivitiesFails \/ AddActivity \/ SetActivityProperties \/ SetCurrentActivity
  \/ GetActivities \/ GetCurrentActivity \/ ChannelAnnounced \/ WeJoin \/ BuddyJoins \/ Invite
  \/ ChannelCloses \/ InvitationHeard \/ RoomPropertiesHeard \/ Uninvited \/ BuddyPublishes
  \/ BuddyLeaves \/ PepTakes \/ PepReplies
OlpcNext == ~ol.wrecked /\ OlpcSteps

-----------------------------------------------------------------------------
\* The references to an activity are those of the sets, of the table of current
\* activities and of the room's channel, so that no lookup of a named activity fails
\* and it is freed with the last of them: unless AddActivity created it or an
\* uninvite named it wrongly, one reference each that nobody has (conn-olpc.c:622,
\* 948, 1025, 2598).  A call that names an activity twice ends all of this.
ActivitiesCounted ==
  ~ol.wrecked => \A r \in Activities :
    ol.act[r].refs = Cardinality({c \in Buddies \cup {Us} : r \in ol.pep[c]}) + Cardinality({c \in Buddies : r \in ol.inv[c]})
                     + Cardinality({c \in Buddies : ol.cur[c] = r}) + ol.chan[r].conns + ol.leaks[r]

\* No buddy is said to be in an activity that neither an announcement nor an
\* invitation of theirs names, but for one whose uninvite named another id and
\* was not told (conn-olpc.c:2600, 2760, 2900).
BuddiesAsTold == \A c \in Buddies : ol.told[c] \subseteq ol.pep[c] \cup ol.inv[c] \cup ol.untold[c]

\* What the service publishes of ours is what is announced and not private, once it
\* has taken what was sent, but for what a buddy's announcement made of it
\* (conn-olpc.c:917, 2117).
PublishedAsVisible ==
  ol.up /\ toPep = <<>> /\ "refuse" \notin olpcScene.ops /\ (\A i \in 1..Len(fromPep) : ~fromPep[i].changed) =>
    /\ \A r \in Activities \ ol.stale : r \in pub.acts <=> r \in Uploaded(ol)
    /\ \A r \in (pub.props \cap ol.pep[Us]) \ ol.stale : r \in Uploaded(ol)
    /\ pub.buddy = ol.buddy /\ pub.current = ol.ownCur

\* A buddy keeps an invitation of ours only while we are in the room
\* (conn-olpc.c:2477).
InvitationsRevoked == \A c \in Buddies : \A r \in inbox[c] : c \in ol.chan[r].invitees

\* Every call on the service that awaits an answer is under way.
OlpcCallsAnswered ==
  ol.waiting = Cardinality({i \in 1..Len(toPep) : toPep[i].ctx}) + Cardinality({i \in 1..Len(fromPep) : fromPep[i].ctx})
=============================================================================
