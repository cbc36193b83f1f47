------------------------------ MODULE MCRoster ------------------------------
(* Instances of Roster for TLC. *)
EXTENDS Roster

\* b is known by an alias before it is on the roster.
Aliases == [c \in Contacts |-> IF c = "b" THEN "n" ELSE NoName]

Env(google, cs, subs, os, n, es, m) ==
  [google |-> google, pushFirst |-> TRUE, refuses |-> FALSE, contacts |-> cs, subs |-> subs,
   ops |-> os, maxOps |-> n, events |-> es, maxEvents |-> m]

\* Batches of edits, of one contact and of two.
Editing == Env(FALSE, {"a"}, {"remove", "none"},
               {"store", "remove", "name", "unname", "join", "leave", "groups"}, 3, {}, 0)
Grouping == Env(FALSE, {"a", "b"}, {"none"}, {"join", "members", "dissolve", "remove"}, 3, {}, 0)

\* Subscriptions: contacts ask, grant, give up and deny while we do.
Strangers == Env(FALSE, {"a"}, {"remove", "both"},
                 {"subscribe", "authorize", "unsubscribe", "unpublish", "remove"}, 2, Presences, 2)
Friends == Env(FALSE, {"a"}, {"from", "none"},
               {"subscribe", "unsubscribe", "authorize", "unpublish"}, 3, Presences \ {"available"}, 2)

\* Google's server: asks that flicker, contacts that are blocked and hidden.
Flickering == Env(TRUE, {"a"}, {"both", "none"},
                  {"subscribe", "block", "unblock", "remove", "unsubscribe"}, 3,
                  {"flicker", "subscribed", "subscribe"}, 2)
Hiding == Env(TRUE, {"a"}, {"both", "remove"}, {"store", "block", "unblock", "remove"}, 3,
              {"hide", "edit", "reply again"}, 1)

\* A server that refuses edits and answers them before it pushes the item.
Refusing == [Env(FALSE, {"a"}, {"remove", "none"}, {"store", "name", "join", "remove"}, 3,
                 {"delete", "subscribe"}, 1) EXCEPT !.pushFirst = FALSE, !.refuses = TRUE]

All == {Editing, Grouping, Strangers, Friends, Flickering, Hiding, Refusing}
OnlyRefusing == {Refusing}

-----------------------------------------------------------------------------
\* Clients are told every change of a contact, and when nothing is on its way our list
\* is the server's and the server has what users asked for (roster.c, conn-contact-list).
RosterAgrees == StatesAsTold /\ ServerAgrees
=============================================================================
