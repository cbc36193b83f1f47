------------------------------- MODULE Roster -------------------------------
(* The contact list of a connection: src/roster.c.                           *)
(*                                                                           *)
(* Every contact has an item that mirrors the server's roster and a batch of *)
(* edits that are not yet sent: one edit IQ is in flight per contact, what   *)
(* is asked for meanwhile is merged into the batch.  Roster pushes, answers  *)
(* to edits and presences come back in one ordered stream.  Contacts that    *)
(* ask for our presence live in transient items that the server knows        *)
(* nothing of.  The clients of the contact list are told of changes by       *)
(* ContactsChanged and have their requests answered once all the edits these *)
(* were put into have been answered.                                         *)
(*                                                                           *)
(* The server and the contacts are external and follow RFC 6121.  A handler  *)
(* is an action.  Left out: publish_request, alias_for, avatars and the      *)
(* presence cache, disconnection, and names of groups that are not valid.    *)
EXTENDS Naturals, FiniteSets, Sequences, SequencesExt

CONSTANTS
  Contacts, Names,
  Groups,          \* names the handle repository knows
  NoName,          \* item->name = NULL
  AliasOf,         \* the alias cached for a contact from elsewhere, or NoName
  Environments     \* what users, server and contacts may do: see Environment

(* google: the server has Google's roster extensions.  pushFirst: the server *)
(* pushes an edited item before it answers the edit.  refuses: it may refuse *)
(* edits.  subs: the subscriptions contacts may have at first, "remove" for  *)
(* none on the roster.  Bounds: users ask for what is in ops, maxOps times;  *)
(* contacts and other resources do what is in events, maxEvents times.       *)
UserOps == {"store", "subscribe", "remove", "name", "unname", "join", "leave", "groups",
            "members", "dissolve", "authorize", "unsubscribe", "unpublish", "block", "unblock"}
Presences == {"subscribe", "subscribed", "unsubscribe", "unsubscribed", "available"}
Events == Presences \cup {"edit", "delete", "hide", "flicker", "reply again"}

Environment ==
  [google : BOOLEAN, pushFirst : BOOLEAN, refuses : BOOLEAN, contacts : SUBSET Contacts,
   subs : SUBSET {"none", "from", "to", "both", "remove"}, ops : SUBSET UserOps, maxOps : Nat, events : SUBSET Events, maxEvents : Nat]

ASSUME ConstantsAssumption ==
  /\ IsFiniteSet(Contacts)
  /\ NoName \notin Names
  /\ AliasOf \in [Contacts -> Names \cup {NoName}]
  /\ Environments \subseteq Environment

VARIABLES
  env,        \* the environment of this behaviour
  item,       \* priv->items
  received,   \* priv->received
  groups,     \* priv->groups
  preAuth,    \* priv->pre_authorized
  req,        \* the asynchronous requests of clients, in the order of their calls
  told,       \* the states clients were last told of, by contact
  server,     \* the roster on the server, with the requests it has for us
  toServer,   \* stanzas on their way to the server
  toClient,   \* stanzas on their way to us
  answered,   \* the server has answered our roster request
  ops, events,\* how many user requests and events there were
  crashed,    \* an assertion failed
  want,       \* history: what users last asked of each contact
  spoilt      \* history: contacts whose edits were refused, overtaken or dropped

vars == <<env, item, received, groups, preAuth, req, told, server, toServer, toClient,
          answered, ops, events, crashed, want, spoilt>>

-----------------------------------------------------------------------------
(* Items and edits *)

Subscriptions == {"none", "from", "to", "both", "remove", "invalid"}
States == {"no", "ask", "yes", "removed"}      \* "removed" is REMOVED_REMOTELY
Types == {"normal", "blocked", "hidden"}

\* GabbleRosterItemEdit: "same" and "invalid" mean "don't edit", NoName remove_name.
NoEdit == [there |-> FALSE, create |-> FALSE, sub |-> "invalid", type |-> "invalid",
           name |-> "same", add |-> {}, drop |-> {}, only |-> FALSE, results |-> {}]

\* What _gabble_roster_item_free leaves.
NoItem == [there |-> FALSE, sub |-> "remove", ask |-> FALSE, type |-> "normal",
           name |-> NoName, groups |-> {}, inFlight |-> FALSE, edit |-> NoEdit,
           subscribe |-> "no", publish |-> "no", stored |-> FALSE, blocked |-> FALSE,
           flicker |-> FALSE]

\* _gabble_roster_item_ensure: a transient item until the server has it.
Ensure(c) ==
  IF item[c].there THEN item[c]
  ELSE [NoItem EXCEPT !.there = TRUE, !.name = AliasOf[c]]

\* Defect: an item that is being edited is removed all the same.
ForgettableInFlight(it) == it.sub = "remove" /\ it.publish = "no" /\ it.subscribe = "no"

\* _gabble_roster_item_maybe_remove: what it does not look at is unsent_edits.
Forgettable(it) ==
  /\ it.sub = "remove"
  /\ ~it.inFlight
  /\ it.publish = "no"
  /\ it.subscribe = "no"
MaybeRemove(it) == IF Forgettable(it) THEN NoItem ELSE it

\* The requests item_edit_free completes when the item goes, with its edits.
FreedWith(it) == IF Forgettable(it) THEN it.edit.results ELSE {}

\* The subscriptions a blocked contact has are cancelled instead of its item.
CancelSubscriptions(c, it) ==
  (IF it.sub \in {"from", "both"} THEN <<[kind |-> "presence", c |-> c, type |-> "unsubscribed"]>>
   ELSE <<>>)
  \o (IF it.sub \in {"to", "both"} THEN <<[kind |-> "presence", c |-> c, type |-> "unsubscribe"]>>
      ELSE <<>>)

\* Defect: an edit that only creates the item counts as no change.
NotCreating(it, e, edited) == edited # [f \in DOMAIN edited |-> it[f]]

\* Does a batch change the item?  remove_name does, whatever the name is.
Altered(it, e, edited) ==
  \/ e.create
  \/ e.name = NoName
  \/ edited # [f \in DOMAIN edited |-> it[f]]

\* The item as a batch leaves it, before it is created as a side effect.
Edited(it, e) ==
  LET type == IF e.type = "invalid" THEN it.type ELSE e.type
      keeps == e.sub = "invalid" \/ (e.sub = "remove" /\ type = "blocked")
  IN  [sub    |-> IF keeps THEN it.sub ELSE e.sub,
       type   |-> type,
       name   |-> IF e.name = "same" THEN it.name ELSE e.name,
       groups |-> ((IF e.only THEN {} ELSE it.groups) \cup e.add) \ e.drop]

\* Defect: edits are sent although some are in flight.
HeldBackNever(ready, it) == ~ready \/ ~it.edit.there

\* roster_item_apply_edits returns at once.
HeldBack(ready, it) == ~ready \/ it.inFlight \/ ~it.edit.there

(* roster_item_apply_edits: the item, what is sent, which requests are       *)
(* through because nothing had to be changed, and whether the conversion of  *)
(* the subscription to a string fails its assertion.                         *)
Apply(ready, c, it) ==
  LET e == it.edit
      edited == Edited(it, e)
      creates == e.sub # "remove" /\ edited.sub = "remove"
      data == IF creates THEN [edited EXCEPT !.sub = "none"] ELSE edited
      cancels == IF e.sub = "remove" /\ it.sub # "remove" /\ edited.type = "blocked"
                 THEN CancelSubscriptions(c, it) ELSE <<>>
      idle == [it EXCEPT !.edit = NoEdit]
  IN  IF HeldBack(ready, it)
      THEN [it |-> it, sent |-> <<>>, freed |-> {}, fails |-> FALSE]
      ELSE IF ~Altered(it, e, edited)
      THEN [it |-> idle, sent |-> cancels, freed |-> e.results, fails |-> FALSE]
      ELSE [it |-> [idle EXCEPT !.inFlight = TRUE],
            sent |-> cancels \o <<[kind |-> "set", c |-> c, data |-> data,
                                   edit |-> IF creates THEN [e EXCEPT !.sub = "none"] ELSE e]>>,
            freed |-> {}, fails |-> data.sub = "invalid"]

-----------------------------------------------------------------------------
(* Requests and signals *)

\* Defect: the last edit of a request does not complete it.
CountdownOff(rs, freed) ==
  [r \in DOMAIN rs |->
    LET n == rs[r].todo - Cardinality({c \in Contacts : r \in freed[c]})
    IN  [rs[r] EXCEPT !.todo = n]]

\* gabble_simple_async_countdown_dec for the requests freed[c] of every contact c.
\* The request completes in an idle callback: see Complete.
Countdown(rs, freed) ==
  [r \in DOMAIN rs |->
    LET n == rs[r].todo - Cardinality({c \in Contacts : r \in freed[c]})
    IN  [rs[r] EXCEPT !.todo = n,
                      !.state = IF n = 0 /\ @ = "waiting" THEN "idle" ELSE @]]

None == [c \in Contacts |-> {}]
For(c, s) == [None EXCEPT ![c] = s]

\* gabble_roster_dup_states
Shown(it) == [subscribe |-> it.subscribe, publish |-> it.publish]
Absent == [subscribe |-> "no", publish |-> "no"]

\* tp_base_contact_list_contacts_changed, which says nothing before the list is there.
Tell(items, changed, removed) ==
  told' = [c \in Contacts |->
            IF ~received THEN told[c]
            ELSE IF c \in removed THEN Absent
            ELSE IF c \in changed THEN Shown(items[c]) ELSE told[c]]

Presence(c, type) == [kind |-> "presence", c |-> c, type |-> type]

(* A request of a client: todo counts the edits that hold it and one more    *)
(* until the call returns.                                                   *)
Request(kind, cs, g) == [kind |-> kind, contacts |-> cs, group |-> g, todo |-> 0,
                         state |-> "waiting"]

(* What is sent contact by contact, in an order that only the table of items *)
(* or a set of handles knows: sent[c] stays together.                        *)
SentInTurn(sent) ==
  {s \in SetToSeqs(UNION {Range(sent[c]) : c \in DOMAIN sent}) :
     \A c \in DOMAIN sent : \E i \in 0 .. (Len(s) - Len(sent[c])) :
       \A k \in 1 .. Len(sent[c]) : s[i + k] = sent[c][k]}

(* The items of edited have got an edit, for the request in new if there is  *)
(* one; it is queued and, where that is possible, applied.                   *)
EditItems(edited, new) ==
  LET cs == DOMAIN edited
      rs == req \o new
      r == Len(rs)
      queued == [c \in cs |->
                  [edited[c] EXCEPT !.edit.there = TRUE,
                                  !.edit.results = IF new = <<>> THEN @ ELSE @ \cup {r}]]
      done == [c \in cs |-> Apply(received, c, queued[c])]
      counted == [q \in DOMAIN rs |->
                   IF new # <<>> /\ q = r THEN [rs[q] EXCEPT !.todo = Cardinality(cs)] ELSE rs[q]]
  IN  /\ item' = [c \in Contacts |-> IF c \in cs THEN done[c].it ELSE item[c]]
      /\ \E s \in SentInTurn([c \in cs |-> done[c].sent]) : toServer' = toServer \o s
      /\ req' = Countdown(counted, [c \in Contacts |-> IF c \in cs THEN done[c].freed ELSE {}])
      /\ crashed' = (crashed \/ \E c \in cs : done[c].fails)

-----------------------------------------------------------------------------
(* What users ask for *)

\* What is wanted of a contact that was removed; "any" where nobody said.  asks: the
\* contact has asked for our presence and nobody has declined; "lost" when the
\* acknowledgement of an earlier "unsubscribe" has cancelled it on the server.
Unwanted == [there |-> "no", name |-> "any", groups |-> [g \in Groups |-> "any"], asks |-> "no"]

\* Other edits only make an item as a side effect.
Revived(there) == IF there = "no" THEN "any" ELSE there

\* A removal of c that is queued or in flight.
InFlight(c) ==
  {m.edit : m \in {x \in Range(toServer) : x.kind = "set" /\ x.c = c}
                  \cup {x \in Range(toClient) : x.kind = "answer" /\ x.c = c}}
Removing(c) == item[c].edit.sub = "remove" \/ \E e \in InFlight(c) : e.sub = "remove"

\* Nothing about c is under way.
Quiet(c) ==
  /\ received
  /\ \A m \in Range(toServer) : m.c # c
  /\ \A m \in Range(toClient) : m.kind # "roster" /\ m.c # c
  /\ ~item[c].flicker

\* A removal finds no item, a blocked one or one that is being removed, while the
\* server's may have changed: it is lost if the server has a new one.
Unseen(c) ==
  /\ ~Quiet(c)
  /\ \/ item[c].sub = "remove" /\ ~item[c].inFlight
     \/ item[c].type = "blocked" /\ ~item[c].inFlight
     \/ Removing(c)

\* Edits that are merged into a queued removal are lost with the item.
Overtakes(cs) == spoilt' = spoilt \cup {c \in cs : item[c].edit.sub = "remove"}

Asks(op) ==
  /\ ~crashed
  /\ op \in env.ops
  /\ ops < env.maxOps
  /\ ops' = ops + 1
  /\ UNCHANGED <<env, received, server, toClient, answered, events>>

\* Defect: a contact whose item is only transient is not stored.
AddableIfAbsent(c) == ~item[c].there

\* gabble_roster_handle_add has something to do.
Addable(c) == ~item[c].there \/ item[c].type = "hidden" \/ item[c].sub = "remove"

(* gabble_roster_store_contacts_async and, with the presence that Complete   *)
(* sends, gabble_roster_request_subscription_async.                          *)
Store(op, c) ==
  /\ op \in {"store", "subscribe"}
  /\ Asks(op)
  /\ EditItems([x \in IF Addable(c) THEN {c} ELSE {} |->
                [Ensure(x) EXCEPT !.edit.create = TRUE, !.edit.type = "normal"]],
               <<Request(op, {c}, "")>>)
  /\ want' = [want EXCEPT ![c].there = "yes"]
  \* a contact that is being removed is still there
  /\ spoilt' = IF Removing(c) THEN spoilt \cup {c} ELSE spoilt
  /\ UNCHANGED <<groups, preAuth, told>>

\* gabble_roster_handle_set_name
SetName(c, n) ==
  /\ Asks(IF n = NoName THEN "unname" ELSE "name")
  /\ EditItems([x \in {c} |-> [Ensure(x) EXCEPT !.edit.name = n]], <<>>)
  /\ want' = [want EXCEPT ![c].there = Revived(@), ![c].name = n]
  /\ Overtakes({c})
  /\ UNCHANGED <<groups, preAuth, told>>

\* Defect: a request that is not stored is forgotten without telling anybody.
RemoveSilently(c) ==
  LET it == [item[c] EXCEPT !.publish = "no", !.subscribe = "no"] IN
  /\ Asks("remove")
  /\ item[c].there
  /\ item[c].sub = "remove" /\ Forgettable(it)
  /\ item' = [item EXCEPT ![c] = NoItem]
  /\ req' = Countdown(Append(req, Request("remove", {c}, "")), For(c, it.edit.results))
  /\ want' = [want EXCEPT ![c] = Unwanted]
  /\ UNCHANGED <<groups, preAuth, told, toServer, crashed, spoilt>>

\* gabble_roster_remove_contacts_async of a contact that is not on the server
RemoveTransient(c) ==
  LET it == [item[c] EXCEPT !.publish = "no", !.subscribe = "no"] IN
  /\ Asks("remove")
  /\ item[c].there
  /\ item[c].sub = "remove" /\ Forgettable(it)
  /\ item' = [item EXCEPT ![c] = NoItem]
  /\ req' = Countdown(Append(req, Request("remove", {c}, "")), For(c, it.edit.results))
  /\ Tell(item', {}, {c})
  /\ want' = [want EXCEPT ![c] = Unwanted]
  /\ spoilt' = IF Unseen(c) THEN spoilt \cup {c} ELSE spoilt
  /\ UNCHANGED <<groups, preAuth, toServer, crashed>>

(* gabble_roster_remove_contacts_async: the item is edited away.  The states *)
(* of a transient item that is being edited are cleared and nobody is told;  *)
(* before the roster is there, a contact that is on it is not found.         *)
RemoveContact(c) ==
  LET transient == item[c].sub = "remove"
      cleared == [item[c] EXCEPT !.publish = IF transient THEN "no" ELSE @,
                                 !.subscribe = IF transient THEN "no" ELSE @]
  IN
  /\ Asks("remove")
  /\ item[c].there => ~(transient /\ Forgettable(cleared))
  /\ EditItems([x \in IF item[c].there THEN {c} ELSE {} |->
                [cleared EXCEPT !.edit.sub = "remove"]],
               <<Request("remove", {c}, "")>>)
  /\ want' = [want EXCEPT ![c] = Unwanted]
  /\ spoilt' = IF Unseen(c) \/ (transient /\ Shown(item[c]) # Absent) THEN spoilt \cup {c} ELSE spoilt
  /\ UNCHANGED <<groups, preAuth, told>>

\* Defect: a removal from a group that is queued stays queued.
AddToKeeps(it, g) == [it EXCEPT !.edit.add = @ \cup {g}]

\* Queued changes of groups: the last word on a group counts.
AddTo(it, g) == [it EXCEPT !.edit.add = @ \cup {g}, !.edit.drop = @ \ {g}]
RemoveFrom(it, g) == [it EXCEPT !.edit.drop = @ \cup {g}, !.edit.add = @ \ {g}]

\* gabble_roster_add_to_group_async
AddToGroup(c, g) ==
  /\ Asks("join")
  /\ groups' = groups \cup {g}
  /\ EditItems([x \in {c} |-> AddTo(Ensure(x), g)], <<Request("join", {c}, g)>>)
  /\ want' = [want EXCEPT ![c].there = Revived(@), ![c].groups[g] = "in"]
  /\ Overtakes({c})
  /\ UNCHANGED <<preAuth, told>>

\* gabble_roster_remove_from_group_async
RemoveFromGroup(c, g) ==
  /\ Asks("leave")
  /\ EditItems([x \in {c} |-> RemoveFrom(Ensure(x), g)], <<Request("leave", {c}, g)>>)
  /\ want' = [want EXCEPT ![c].groups[g] = "out"]
  /\ Overtakes({c})
  /\ UNCHANGED <<groups, preAuth, told>>

\* gabble_roster_set_contact_groups_async
SetContactGroups(c, gs) ==
  /\ Asks("groups")
  /\ groups' = groups \cup gs
  /\ EditItems([x \in {c} |->
                [Ensure(x) EXCEPT !.edit.add = gs, !.edit.drop = {}, !.edit.only = TRUE]],
               <<Request("groups", {c}, "")>>)
  /\ want' = [want EXCEPT ![c].there = Revived(@),
                          ![c].groups = [g \in Groups |-> IF g \in gs THEN "in" ELSE "out"]]
  /\ Overtakes({c})
  /\ UNCHANGED <<preAuth, told>>

\* gabble_roster_set_group_members_async: of the contacts that have items.
SetGroupMembers(g, cs) ==
  LET there == {c \in Contacts : item[c].there} IN
  /\ Asks("members")
  /\ groups' = groups \cup {g}
  /\ EditItems([x \in there |->
                IF x \in cs THEN AddTo(item[x], g) ELSE RemoveFrom(item[x], g)],
               <<Request("members", cs, g)>>)
  /\ want' = [c \in Contacts |-> IF c \notin there THEN want[c]
                                 ELSE IF c \in cs THEN [want[c] EXCEPT !.there = Revived(@), !.groups[g] = "in"]
                                 ELSE [want[c] EXCEPT !.groups[g] = "out"]]
  /\ Overtakes(there)
  /\ UNCHANGED <<preAuth, told>>

\* gabble_roster_remove_group_async: the members leave, Complete does the rest.
RemoveGroup(g) ==
  LET members == IF g \in groups THEN {c \in Contacts : g \in item[c].groups} ELSE {} IN
  /\ Asks("dissolve")
  /\ EditItems([x \in members |->
                RemoveFrom(item[x], g)],
               <<Request("dissolve", members, g)>>)
  /\ want' = [c \in Contacts |-> IF c \in members THEN [want[c] EXCEPT !.groups[g] = "out"] ELSE want[c]]
  /\ Overtakes(members)
  /\ UNCHANGED <<groups, preAuth, told>>

\* gabble_roster_handle_set_blocked, for a server with Google's extensions
SetBlocked(op, c) ==
  /\ op \in {"block", "unblock"}
  /\ env.google
  /\ Asks(op)
  /\ EditItems([x \in {c} |->
                [Ensure(x) EXCEPT !.edit.type = IF op = "block" THEN "blocked" ELSE "normal"]],
               <<Request(op, {c}, "")>>)
  /\ want' = [want EXCEPT ![c].there = "any"]
  /\ Overtakes({c})
  /\ UNCHANGED <<groups, preAuth, told>>
\* gabble_roster_authorize_publication_async
Authorize(c) ==
  /\ Asks("authorize")
  /\ preAuth' = IF item[c].publish \in {"no", "removed"} THEN preAuth \cup {c} ELSE preAuth
  /\ toServer' = IF item[c].publish = "ask" THEN Append(toServer, Presence(c, "subscribed")) ELSE toServer
  /\ UNCHANGED <<item, groups, req, told, crashed, want, spoilt>>

\* Defect: nobody is told.
ClearSilently(c, it) ==
  /\ item' = [item EXCEPT ![c] = MaybeRemove(it)]
  /\ req' = Countdown(req, For(c, FreedWith(it)))
  /\ spoilt' = IF Forgettable(it) /\ it.edit.there THEN spoilt \cup {c} ELSE spoilt
  /\ UNCHANGED told

\* A state of a transient item is cleared, and with it maybe the item.
Clear(c, it) ==
  /\ item' = [item EXCEPT ![c] = MaybeRemove(it)]
  /\ req' = Countdown(req, For(c, FreedWith(it)))
  /\ Tell(item', {c}, IF Forgettable(it) THEN {c} ELSE {})
  /\ spoilt' = IF Forgettable(it) /\ it.edit.there THEN spoilt \cup {c} ELSE spoilt

\* gabble_roster_unsubscribe_async
Unsubscribe(c) ==
  /\ Asks("unsubscribe")
  /\ IF item[c].subscribe = "removed"
     THEN Clear(c, [item[c] EXCEPT !.subscribe = "no"]) /\ UNCHANGED toServer
     ELSE /\ toServer' = IF item[c].subscribe = "no" THEN toServer
                         ELSE Append(toServer, Presence(c, "unsubscribe"))
          /\ UNCHANGED <<item, req, told, spoilt>>
  /\ UNCHANGED <<groups, preAuth, crashed, want>>

(* gabble_roster_unpublish_async.  When the item was freed, item->publish is *)
(* read from freed memory: whether "unsubscribed" is sent is anybody's guess.*)
Unpublish(c) ==
  LET it == [item[c] EXCEPT !.publish = "no"] IN
  /\ Asks("unpublish")
  /\ IF item[c].publish \in {"ask", "removed"}
     THEN /\ Clear(c, it)
          /\ \/ UNCHANGED toServer
             \/ Forgettable(it) /\ toServer' = Append(toServer, Presence(c, "unsubscribed"))
          /\ want' = [want EXCEPT ![c].asks = IF item[c].publish = "ask" /\ @ = "yes" THEN "no" ELSE @]
     ELSE /\ toServer' = IF item[c].publish = "no" THEN toServer
                         ELSE Append(toServer, Presence(c, "unsubscribed"))
          /\ UNCHANGED <<item, req, told, want, spoilt>>
  /\ UNCHANGED <<groups, preAuth, crashed>>

(* A request completes in an idle callback.  The one for a subscription now  *)
(* sends the presence, unless the contact has said yes; the one that removes *)
(* a group (gabble_roster_remove_group_removed_cb) removes it, unless it has *)
(* members that were not asked to leave; members that left and came back are *)
(* believed to be out: "spoilt".                                             *)
Complete(r) ==
  LET q == req[r]
      members == {c \in Contacts : q.group \in item[c].groups}
      dissolves == q.kind = "dissolve" /\ members \subseteq q.contacts
      subscribes == {c \in q.contacts : q.kind = "subscribe" /\ item[c].sub \notin {"to", "both"}}
  IN
  /\ ~crashed
  /\ q.state = "idle"
  /\ req' = [req EXCEPT ![r].state = "done"]
  /\ toServer' = toServer \o [i \in 1 .. Cardinality(subscribes) |->
                               Presence(SetToSeq(subscribes)[i], "subscribe")]
  /\ groups' = IF dissolves THEN groups \ {q.group} ELSE groups
  /\ item' = [c \in Contacts |-> IF dissolves THEN [item[c] EXCEPT !.groups = @ \ {q.group}] ELSE item[c]]
  /\ spoilt' = IF dissolves THEN spoilt \cup members ELSE spoilt
  /\ UNCHANGED <<env, received, preAuth, told, server, toClient, answered, ops, events, crashed, want>>

-----------------------------------------------------------------------------
(* What comes from the server *)

Take ==
  /\ ~crashed
  /\ toClient # <<>>
  /\ toClient' = Tail(toClient)
  /\ UNCHANGED <<env, preAuth, server, answered, ops, events, want>>

\* _google_roster_item_should_keep
ShouldKeep(it) == it.type # "hidden" /\ (it.ask \/ it.sub \notin {"none", "remove"})

\* _gabble_roster_item_update: the item takes over what the server says.
Update(c, d) ==
  [Ensure(c) EXCEPT !.sub = d.sub, !.ask = d.ask, !.type = IF env.google THEN d.type ELSE @,
                    !.name = IF d.sub = "remove" THEN NoName ELSE d.name, !.groups = d.groups]

\* Defect: a request of the contact is forgotten when a push says "none".
PublishForgets(it, hide) == IF it.sub \in {"from", "both"} /\ ~hide THEN "yes" ELSE "no"

\* process_roster: the publish state after a push
Publish(it, hide) ==
  CASE it.sub \in {"from", "both"} -> IF hide THEN "no" ELSE "yes"
    [] it.publish = "yes"          -> "no"
    [] OTHER                       -> it.publish

\* process_roster: the subscribe state after a push
Subscribe(it, hide) ==
  CASE it.sub \in {"to", "both"}                         -> IF hide THEN "no" ELSE "yes"
    [] it.sub \in {"none", "from"} /\ it.ask             -> IF it.subscribe = "yes" THEN "yes" ELSE "ask"
    [] it.sub \in {"none", "from"} /\ ~it.ask /\ it.flicker -> it.subscribe
    [] OTHER                                             -> "no"

\* process_roster: an ask starts the timer or, if it came back, stops it.
Flicker(it) ==
  CASE it.sub \in {"to", "both"}                                     -> FALSE
    [] it.sub \in {"none", "from"} /\ it.ask /\ it.subscribe # "yes" -> ~it.flicker
    [] OTHER                                                         -> it.flicker

(* process_roster for one item: the item and whether clients are told that   *)
(* it changed or was removed.                                                *)
Processed(c, d) ==
  LET it == Update(c, d)
      hide == env.google /\ ~ShouldKeep(it)
      publish == Publish(it, hide)
      subscribe == Subscribe(it, hide)
      stored == it.sub # "remove" /\ (hide => "ask" \in {publish, subscribe})
      new == [it EXCEPT !.publish = publish, !.subscribe = subscribe, !.flicker = Flicker(it),
                        !.stored = stored,
                        !.blocked = IF env.google THEN it.sub # "remove" /\ it.type = "blocked" ELSE @]
      \* a removal is reported of what was stored, a hidden item every time
      removed == IF it.sub = "remove" THEN it.stored ELSE ~stored
      changed == stored /\ (Shown(new) # Shown(it) \/ ~it.stored)
  IN  [it |-> new, removed |-> removed, changed |-> changed]

(* got_roster_iq for a push.  A contact that is removed from the roster      *)
(* while its request for our presence is open is reported as removed and     *)
(* stays: "spoilt".                                                          *)
RosterPush ==
  LET m == Head(toClient)
      p == Processed(m.c, m.data)
      c == m.c
  IN
  /\ Take
  /\ m.kind = "push"
  /\ item' = [item EXCEPT ![c] = MaybeRemove(p.it)]
  /\ groups' = groups \cup m.data.groups
  /\ req' = Countdown(req, For(c, FreedWith(p.it)))
  /\ Tell([item EXCEPT ![c] = p.it], IF p.changed THEN {c} ELSE {}, IF p.removed THEN {c} ELSE {})
  /\ spoilt' = IF (p.removed /\ Shown(p.it) # Absent) \/ (Forgettable(p.it) /\ p.it.edit.there)
               THEN spoilt \cup {c} ELSE spoilt
  /\ UNCHANGED <<received, toServer, crashed>>

(* got_roster_iq for the roster we asked for; a second answer is ignored.    *)
(* Clients are told of the whole list and edits that waited for it are sent. *)
RosterReceived ==
  LET m == Head(toClient)
      new == [c \in Contacts |-> IF c \in DOMAIN m.items THEN MaybeRemove(Processed(c, m.items[c]).it)
                                 ELSE item[c]]
      done == [c \in Contacts |-> Apply(TRUE, c, new[c])]
  IN
  /\ Take
  /\ m.kind = "roster"
  /\ IF received THEN UNCHANGED <<item, received, groups, req, told, toServer, crashed>>
     ELSE /\ item' = [c \in Contacts |-> done[c].it]
          /\ received' = TRUE
          /\ groups' = groups \cup UNION {m.items[c].groups : c \in DOMAIN m.items}
          /\ told' = [c \in Contacts |-> Shown(new[c])]
          /\ req' = Countdown(req, [c \in Contacts |-> done[c].freed])
          /\ \E s \in SentInTurn([c \in Contacts |-> done[c].sent]) : toServer' = toServer \o s
          /\ crashed' = (crashed \/ \E c \in Contacts : done[c].fails)
  /\ UNCHANGED spoilt
\* Defect: edits queued meanwhile are not looked at.
EditAnsweredAlone ==
  LET m == Head(toClient)
      c == m.c
      it == [item[c] EXCEPT !.inFlight = FALSE, !.sub = IF @ = "remove" THEN m.edit.sub ELSE @]
  IN
  /\ Take
  /\ m.kind = "answer"
  /\ item' = [item EXCEPT ![c] = MaybeRemove(it)]
  /\ req' = Countdown(req, For(c, m.edit.results))
  /\ UNCHANGED <<received, groups, told, toServer, crashed, spoilt>>

(* roster_edited_cb: the next batch is applied before the item is believed   *)
(* to exist, which it is however the edit ended.                             *)
EditAnswered ==
  LET m == Head(toClient)
      c == m.c
      next == Apply(received, c, [item[c] EXCEPT !.inFlight = FALSE])
      believes == next.it.sub = "remove" /\ m.edit.sub # "remove"
      it == [next.it EXCEPT !.sub = IF believes THEN m.edit.sub ELSE @]
  IN
  /\ Take
  /\ m.kind = "answer"
  /\ item' = [item EXCEPT ![c] = MaybeRemove(it)]
  /\ toServer' = toServer \o next.sent
  /\ req' = Countdown(Countdown(req, For(c, m.edit.results)), For(c, next.freed \cup FreedWith(it)))
  /\ crashed' = (crashed \/ next.fails)
  /\ UNCHANGED <<received, groups, told, spoilt>>

\* Defect: the contact's request stays as it was when it takes it back.
HearsNoRetreat(it, t) ==
  CASE t = "subscribe"    -> [it EXCEPT !.publish = "ask"]
    [] t = "subscribed"   -> [it EXCEPT !.subscribe = "yes"]
    [] t = "unsubscribe"  -> [it EXCEPT !.publish = IF @ = "yes" THEN "removed" ELSE @]
    [] t = "unsubscribed" -> [it EXCEPT !.subscribe = IF @ \in {"yes", "ask"} THEN "removed" ELSE @]
    [] OTHER              -> it

\* What a presence makes of an item.
Hears(it, t) ==
  CASE t = "subscribe"    -> [it EXCEPT !.publish = "ask"]
    [] t = "subscribed"   -> [it EXCEPT !.subscribe = "yes"]
    [] t = "unsubscribe"  -> [it EXCEPT !.publish = IF @ \in {"yes", "ask"} THEN "removed" ELSE @]
    [] t = "unsubscribed" -> [it EXCEPT !.subscribe = IF @ \in {"yes", "ask"} THEN "removed" ELSE @]
    [] OTHER              -> it

\* _gabble_roster_send_presence_ack
Ack(t) ==
  CASE t = "unsubscribe"  -> "unsubscribed"
    [] t = "subscribed"   -> "subscribe"
    [] t = "unsubscribed" -> "unsubscribe"

(* gabble_roster_presence_cb, which makes an item for every sender.  Changes *)
(* are acknowledged, a request that was authorised in advance is granted.    *)
PresenceReceived ==
  LET m == Head(toClient)
      c == m.c
      it == Ensure(c)
      new == Hears(it, m.type)
  IN
  /\ Take
  /\ m.kind = "presence"
  /\ item' = [item EXCEPT ![c] = new]
  /\ toServer' = IF m.type = "subscribe"
                 THEN IF c \in preAuth THEN Append(toServer, Presence(c, "subscribed")) ELSE toServer
                 ELSE IF new # it THEN Append(toServer, Presence(c, Ack(m.type))) ELSE toServer
  /\ Tell(item', IF new # it \/ m.type = "subscribe" THEN {c} ELSE {}, {})
  /\ UNCHANGED <<received, groups, req, crashed, spoilt>>

\* Defect: the timeout does not look at the item again.
FlickerTimeoutBlind(c) ==
  /\ ~crashed /\ item[c].there /\ item[c].flicker
  /\ item' = [item EXCEPT ![c].flicker = FALSE, ![c].subscribe = "no"]
  /\ Tell(item', {c}, {})
  /\ UNCHANGED <<env, received, groups, preAuth, req, server, toServer, toClient, answered, ops,
                 events, crashed, want, spoilt>>

(* flicker_prevention_timeout.  It leaves a contact with subscription "from" *)
(* whose ask was taken back in the state "ask": "spoilt".                    *)
FlickerTimeout(c) ==
  LET over == item[c].sub \in {"none", "remove"} /\ ~item[c].ask IN
  /\ ~crashed /\ item[c].there /\ item[c].flicker
  /\ item' = [item EXCEPT ![c].flicker = FALSE, ![c].subscribe = IF over THEN "no" ELSE @]
  /\ Tell(item', IF over THEN {c} ELSE {}, {})
  /\ spoilt' = IF item[c].sub = "from" /\ ~item[c].ask THEN spoilt \cup {c} ELSE spoilt
  /\ UNCHANGED <<env, received, groups, preAuth, req, server, toServer, toClient, answered, ops,
                 events, crashed, want>>

-----------------------------------------------------------------------------
(* The server and the contacts, external *)

NoEntry == [there |-> FALSE, sub |-> "none", ask |-> FALSE, type |-> "normal",
            name |-> NoName, groups |-> {}, pending |-> FALSE]

Content(e) == [sub |-> IF e.there THEN e.sub ELSE "remove", ask |-> e.ask, type |-> e.type,
               name |-> e.name, groups |-> e.groups]

\* Pushes go to resources that have asked for the roster.
Push(c, e) == IF answered THEN <<[kind |-> "push", c |-> c, data |-> Content(e)]>> ELSE <<>>

Granted(sub, to) == CASE to /\ sub \in {"from", "both"} -> "both"
                      [] to                              -> "to"
                      [] sub \in {"to", "both"}          -> "both"
                      [] OTHER                           -> "from"
Revoked(sub, to) == CASE to /\ sub \in {"from", "both"} -> "from"
                      [] ~to /\ sub \in {"to", "both"}  -> "to"
                      [] OTHER                          -> "none"

\* What a presence of ours makes of the entry: we ask, grant, give up or deny.
Outbound(e, t) ==
  CASE t = "subscribe"    -> IF e.sub \in {"to", "both"} THEN e
                             ELSE [e EXCEPT !.there = TRUE, !.ask = TRUE]
    [] t = "unsubscribe"  -> [e EXCEPT !.ask = FALSE, !.sub = Revoked(@, TRUE)]
    [] t = "subscribed"   -> IF e.pending THEN [e EXCEPT !.there = TRUE, !.pending = FALSE,
                                                         !.sub = Granted(@, FALSE)] ELSE e
    [] t = "unsubscribed" -> [e EXCEPT !.pending = FALSE, !.sub = Revoked(@, FALSE)]

\* What a presence of the contact makes of it; a repeated one is not delivered.
Inbound(e, t) ==
  CASE t = "subscribe"    -> IF e.sub \in {"from", "both"} THEN e ELSE [e EXCEPT !.pending = TRUE]
    [] t = "unsubscribe"  -> [e EXCEPT !.pending = FALSE, !.sub = Revoked(@, FALSE)]
    [] t = "subscribed"   -> IF e.ask THEN [e EXCEPT !.ask = FALSE, !.sub = Granted(@, TRUE)] ELSE e
    [] t = "unsubscribed" -> [e EXCEPT !.ask = FALSE, !.sub = Revoked(@, TRUE)]
    [] OTHER              -> e

ServerTakes ==
  /\ ~crashed
  /\ toServer # <<>>
  /\ toServer' = Tail(toServer)
  /\ UNCHANGED <<env, item, received, groups, preAuth, req, told, answered, ops, events, crashed>>

\* An edit: the server keeps its own idea of the subscription.
ServerEdits(ok) ==
  LET m == Head(toServer)
      e == server[m.c]
      new == IF m.data.sub = "remove" THEN [NoEntry EXCEPT !.pending = e.pending]
             ELSE [e EXCEPT !.there = TRUE, !.name = m.data.name, !.groups = m.data.groups,
                            !.type = IF env.google THEN m.data.type ELSE @]
      answer == <<[kind |-> "answer", c |-> m.c, edit |-> m.edit]>>
      \* there is nothing to remove
      missing == m.data.sub = "remove" /\ ~e.there
  IN
  /\ ServerTakes
  /\ m.kind = "set"
  /\ IF ok /\ ~missing
     THEN /\ server' = [server EXCEPT ![m.c] = new]
          /\ \/ toClient' = toClient \o Push(m.c, new) \o answer
             \/ ~env.pushFirst /\ toClient' = toClient \o answer \o Push(m.c, new)
          /\ UNCHANGED spoilt
     ELSE /\ missing \/ env.refuses
          /\ toClient' = toClient \o answer
          /\ spoilt' = spoilt \cup {m.c}
          /\ UNCHANGED server
  /\ UNCHANGED want

ServerHearsPresence ==
  LET m == Head(toServer)
      e == server[m.c]
      new == Outbound(e, m.type)
  IN
  /\ ServerTakes
  /\ m.kind = "presence"
  /\ server' = [server EXCEPT ![m.c] = new]
  /\ toClient' = IF Content(new) # Content(e) THEN toClient \o Push(m.c, new) ELSE toClient
  \* a subscription that was asked for before the removal and is sent after it
  /\ want' = IF m.type \in {"subscribe", "subscribed"} /\ new # e
             THEN [want EXCEPT ![m.c].there = Revived(@)]
             ELSE IF m.type = "unsubscribed" /\ e.pending THEN [want EXCEPT ![m.c].asks = "lost"]
             ELSE want
  /\ UNCHANGED spoilt

ServerAnswersRoster ==
  /\ ~crashed /\ ~answered
  /\ answered' = TRUE
  /\ toClient' = Append(toClient,
       [kind |-> "roster", items |-> [c \in {x \in Contacts : server[x].there} |-> Content(server[c])]])
  /\ UNCHANGED <<env, item, received, groups, preAuth, req, told, server, toServer, ops, events,
                 crashed, want, spoilt>>

Happens(event) ==
  /\ ~crashed
  /\ event \in env.events
  /\ events < env.maxEvents
  /\ events' = events + 1
  /\ UNCHANGED <<env, item, received, groups, preAuth, req, told, toServer, answered, ops, crashed>>

\* A contact sends a presence; the push it causes comes before it or after it.
ContactSends(c, t) ==
  LET e == server[c]
      new == Inbound(e, t)
      push == IF Content(new) # Content(e) THEN Push(c, new) ELSE <<>>
      presence == <<Presence(c, t)>>
  IN
  /\ t \in Presences
  /\ Happens(t)
  /\ new # e \/ t = "available"
  /\ server' = [server EXCEPT ![c] = new]
  /\ \/ toClient' = toClient \o presence \o push
     \/ push # <<>> /\ toClient' = toClient \o push \o presence
  /\ want' = [want EXCEPT ![c].asks = CASE t = "subscribe" -> "yes" [] t = "unsubscribe" -> "no" [] OTHER -> @]
  /\ UNCHANGED spoilt

\* Another resource of ours renames, hides or deletes the contact.
OtherResource(c, what) ==
  LET e == server[c]
      new == CASE what = "edit" -> [e EXCEPT !.there = TRUE, !.name = NoName]
               [] what = "hide" -> [e EXCEPT !.there = TRUE, !.type = "hidden"]
               [] what = "delete" -> [NoEntry EXCEPT !.pending = e.pending]
  IN
  /\ what \in {"edit", "hide", "delete"}
  /\ Happens(what)
  /\ what = "hide" => env.google
  /\ Content(new) # Content(e)
  /\ server' = [server EXCEPT ![c] = new]
  /\ toClient' = toClient \o Push(c, new)
  /\ spoilt' = IF item[c].inFlight \/ item[c].edit.there \/ ~received THEN spoilt \cup {c} ELSE spoilt
  /\ want' = [want EXCEPT ![c] = [Unwanted EXCEPT !.there = "any", !.asks = want[c].asks]]

\* Google's server takes our ask away and gives it back (test-google-roster.py).
ServerFlickers(c) ==
  /\ Happens("flicker")
  /\ env.google /\ server[c].there /\ server[c].ask
  /\ toClient' = toClient \o Push(c, [server[c] EXCEPT !.ask = FALSE]) \o Push(c, server[c])
  /\ UNCHANGED <<server, want, spoilt>>

\* A server that answers our roster request twice.
ServerAnswersAgain ==
  /\ Happens("reply again")
  /\ answered
  /\ toClient' = Append(toClient,
       [kind |-> "roster", items |-> [c \in {x \in Contacts : server[x].there} |-> Content(server[c])]])
  /\ UNCHANGED <<server, want, spoilt>>
-----------------------------------------------------------------------------
Entry(sub) == [NoEntry EXCEPT !.there = sub # "remove", !.sub = IF sub = "remove" THEN "none" ELSE sub]

\* gabble_roster_constructed, then connected: the roster has been asked for.
Init ==
  /\ env \in Environments
  /\ item = [c \in Contacts |-> NoItem]
  /\ received = FALSE
  /\ groups = {}
  /\ preAuth = {}
  /\ req = <<>>
  /\ told = [c \in Contacts |-> Absent]
  /\ server \in [Contacts -> {Entry(sub) : sub \in env.subs} \cup {NoEntry}]
  /\ \A c \in Contacts : server[c] \in (IF c \in env.contacts THEN {Entry(sub) : sub \in env.subs}
                                        ELSE {NoEntry})
  /\ toServer = <<>>
  /\ toClient = <<>>
  /\ answered = FALSE
  /\ ops = 0
  /\ events = 0
  /\ crashed = FALSE
  /\ want = [c \in Contacts |-> [Unwanted EXCEPT !.there = "any"]]
  /\ spoilt = {}

UserActs ==
  \/ \E c \in env.contacts :
       \/ \E op \in UserOps : Store(op, c) \/ SetBlocked(op, c)
       \/ \E n \in Names \cup {NoName} : SetName(c, n)
       \/ RemoveTransient(c) \/ RemoveContact(c)
       \/ \E g \in Groups : AddToGroup(c, g) \/ RemoveFromGroup(c, g)
       \/ \E gs \in SUBSET Groups : SetContactGroups(c, gs)
       \/ Authorize(c) \/ Unsubscribe(c) \/ Unpublish(c)
  \/ \E g \in Groups : RemoveGroup(g) \/ \E cs \in SUBSET env.contacts : SetGroupMembers(g, cs)

Others ==
  \/ \E c \in env.contacts :
       \/ \E t \in Presences : ContactSends(c, t)
       \/ \E what \in {"edit", "hide", "delete"} : OtherResource(c, what)
       \/ ServerFlickers(c)
  \/ ServerAnswersAgain

\* What happens of itself: stanzas are delivered and handled, the main loop runs.
Progress ==
  \/ RosterPush \/ RosterReceived \/ EditAnswered \/ PresenceReceived
  \/ \E ok \in BOOLEAN : ServerEdits(ok)
  \/ ServerHearsPresence \/ ServerAnswersRoster
  \/ \E r \in DOMAIN req : Complete(r)
  \/ \E c \in Contacts : FlickerTimeout(c)

Next == UserActs \/ Others \/ Progress

Spec == Init /\ [][Next]_vars

(* Weak fairness of Progress, with what enables it written out: Pending is   *)
(* ENABLED <<Progress>>_vars.                                                *)
Pending ==
  /\ ~crashed
  /\ \/ toServer # <<>> \/ toClient # <<>> \/ ~answered
     \/ \E r \in DOMAIN req : req[r].state = "idle"
     \/ \E c \in Contacts : item[c].there /\ item[c].flicker
FairSpec == Spec /\ ([]<>(~Pending) \/ []<><<Progress>>_vars)

-----------------------------------------------------------------------------
(* Properties *)

TypeOK ==
  /\ item \in [Contacts ->
       [there : BOOLEAN, sub : Subscriptions, ask : BOOLEAN, type : Types,
        name : Names \cup {NoName}, groups : SUBSET Groups, inFlight : BOOLEAN,
        edit : [there : BOOLEAN, create : BOOLEAN, sub : {"none", "remove", "invalid"},
                type : Types \cup {"invalid"}, name : Names \cup {NoName, "same"},
                add : SUBSET Groups, drop : SUBSET Groups, only : BOOLEAN,
                results : SUBSET DOMAIN req],
        subscribe : States, publish : States, stored : BOOLEAN, blocked : BOOLEAN,
        flicker : BOOLEAN]]
  /\ received \in BOOLEAN
  /\ preAuth \subseteq Contacts
  /\ \A r \in DOMAIN req : req[r].todo \in Nat /\ req[r].state \in {"waiting", "idle", "done"}

\* An edit is in flight exactly when the item says so, and there is only one.
OneInFlight ==
  \A c \in Contacts :
    Cardinality({i \in DOMAIN toServer : toServer[i].kind = "set" /\ toServer[i].c = c})
      + Cardinality({i \in DOMAIN toClient : toClient[i].kind = "answer" /\ toClient[i].c = c})
    = IF item[c].inFlight THEN 1 ELSE 0

\* A batch of edits waits only for the roster or for the edits before it.
NobodyWaitsForNothing ==
  \A c \in Contacts : item[c].edit.there => item[c].inFlight \/ ~received

\* A client's request waits for as many edits as carry it.
CountdownExact ==
  \A r \in DOMAIN req :
    LET holders == {c \in Contacts : \/ r \in item[c].edit.results
                                     \/ \E e \in InFlight(c) : r \in e.results}
    IN  /\ req[r].todo = Cardinality(holders)
        /\ req[r].state = "waiting" <=> holders # {}

\* A group that has members is in the list of groups.
GroupsKnown == \A c \in Contacts : item[c].groups \subseteq groups

\* No assertion fails when nobody else removes contacts and pushes come first.
NoCrash == env.pushFirst /\ "delete" \notin env.events => ~crashed

\* Edits and the requests of clients that wait for them are accounted for: one
\* batch in flight, the others held back for it, each request counting the batches
\* that carry it, and no assertion of roster_item_apply_edits fails.
EditsTracked ==
  TypeOK /\ OneInFlight /\ NobodyWaitsForNothing /\ CountdownExact /\ GroupsKnown /\ NoCrash

\* What clients were told of a contact's states is what they would be told now.
StatesAsTold ==
  received => \A c \in Contacts \ spoilt : told[c] = Shown(item[c])

\* Once everything has arrived, an item is what the server has.
MirrorsServer ==
  \A c \in Contacts \ spoilt :
    Quiet(c) =>
      LET it == item[c]
          e == server[c]
          hidden == env.google /\ e.type = "hidden"
      IN  /\ it.sub = Content(e).sub
          /\ e.there => it.name = e.name /\ it.groups = e.groups /\ it.ask = e.ask
          /\ it.subscribe = "yes" <=> e.sub \in {"to", "both"} /\ ~hidden
          /\ it.subscribe = "ask" <=> e.ask /\ e.sub \notin {"to", "both"}
          /\ it.publish = "yes" <=> e.sub \in {"from", "both"} /\ ~hidden
          /\ it.publish = "ask" => e.pending \/ want[c].asks = "lost"
          /\ e.pending /\ want[c].asks = "yes" => it.publish = "ask"
          /\ it.blocked <=> env.google /\ e.there /\ e.type = "blocked"

\* Once everything has arrived, the server has what users last asked for.
WishesGranted ==
  \A c \in Contacts \ spoilt :
    Quiet(c) /\ env.pushFirst =>
      LET e == server[c]
          w == want[c]
      IN  /\ w.there = "yes" => e.there
          \* a blocked contact only loses its subscriptions
          /\ w.there = "no" => ~e.there \/ e.type = "blocked"
          /\ w.name # "any" => e.name = w.name
          /\ \A g \in Groups : /\ w.groups[g] = "in" => g \in e.groups
                               /\ w.groups[g] = "out" => g \notin e.groups

\* Pushes, answers and edits that were queued meanwhile leave us and the server
\* with the same item, and with the one users asked for.
ServerAgrees == MirrorsServer /\ WishesGranted

\* What the comment in roster_edited_cb takes for granted: an item that is believed
\* to be on the server's roster is there, once everything has arrived.
BelievedItemsExist ==
  \A c \in Contacts : Quiet(c) /\ item[c].sub # "remove" => server[c].there

\* Every request of a client is answered.
EveryRequestAnswered ==
  []<>(crashed \/ \A r \in DOMAIN req : req[r].state = "done")
=============================================================================
