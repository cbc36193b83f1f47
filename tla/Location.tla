------------------------------ MODULE Location ------------------------------
(* Locations (conn-location.c) published and followed over PEP                    *)
(* (wocky-pep-service.c): what we set is converted to a geoloc node, what contacts *)
(* publish is converted back, told to clients and cached.  Numbers are in units of *)
(* a tenth of the smallest step that the conversion keeps.                          *)
EXTENDS Integers, Sequences, FiniteSets

CONSTANTS LocationScenes, Places, LocationCalls   \* Places: contacts, "me" among them

VARIABLES
  locationScene, \* what is set, published and asked
  loc,           \* the cache, what clients were told, and whether we ask for events
  geo,           \* the server: the item of each contact, and the stanzas on their way
  locationCall   \* calls of RequestLocation and SetLocation

locationVars == <<locationScene, loc, geo, locationCall>>

\* LocationMapping, mappings: one field of each type, and the others by their types
Mapping == [lat |-> "double", timestamp |-> "int64", text |-> "string"]
Value(t, v) == [type |-> t, v |-> v]
NoLocation == [k \in {} |-> Value("none", 0)]
NoItem == [there |-> FALSE, lang |-> 0, nodes |-> <<>>]
Child(name, kind, v) == [name |-> name, kind |-> kind, v |-> v]

LocationInit ==
  /\ locationScene \in LocationScenes
  /\ loc = [at |-> [c \in Places |-> NoLocation], told |-> [c \in Places |-> NoLocation], notify |-> FALSE]
  /\ geo = [item |-> [c \in Places |-> NoItem], wire |-> <<>>, changes |-> 0, set |-> NoLocation]
  /\ locationCall = [k \in LocationCalls |-> [state |-> "idle", who |-> "none", answer |-> NoLocation]]

-----------------------------------------------------------------------------
\* add_to_geoloc_node: fields nobody knows are left out, a wrong type refuses all of
\* them, numbers are printed with six digits, times before 1970 become 1970.
RefusedNever(l) == FALSE
Refused(l) ==
  \E k \in DOMAIN l : \/ k = "language" /\ l[k].type # "string"
                      \/ k \in DOMAIN Mapping /\ l[k].type # Mapping[k]
AddToGeolocTruncated(k, x) ==
  CASE x.type = "double" -> Child(k, "number", x.v - (x.v % 10))
    [] x.type = "int64" -> Child(k, "date", IF x.v < 0 THEN 0 ELSE x.v)
    [] OTHER -> Child(k, "words", x.v)
AddToGeoloc(k, x) ==
  CASE x.type = "double" -> Child(k, "number", ((x.v + 5) \div 10) * 10)
    [] x.type = "int64" -> Child(k, "date", IF x.v < 0 THEN 0 ELSE x.v)
    [] OTHER -> Child(k, "words", x.v)
RECURSIVE GeolocNodes(_, _)
GeolocNodes(l, ks) ==
  IF ks = {} THEN <<>>
  ELSE LET k == CHOOSE k \in ks : TRUE IN <<AddToGeoloc(k, l[k])>> \o GeolocNodes(l, ks \ {k})
GeolocNodeUnnamed(l) == [there |-> TRUE, lang |-> 0, nodes |-> GeolocNodes(l, DOMAIN l \cap DOMAIN Mapping)]
GeolocNode(l) ==
  [there |-> TRUE, lang |-> IF "language" \in DOMAIN l THEN l["language"].v ELSE 0,
   nodes |-> GeolocNodes(l, DOMAIN l \cap DOMAIN Mapping)]

\* update_location_from_item: a child that is not known, or not of its type, is left out.
Parsable(n) ==
  /\ n.name \in DOMAIN Mapping
  /\ Mapping[n.name] = "double" => n.kind = "number"
  /\ Mapping[n.name] = "int64" => n.kind = "date"
LocationOfItem(item) ==
  LET nodes == {item.nodes[i] : i \in {j \in DOMAIN item.nodes : Parsable(item.nodes[j])}}
      keys == {n.name : n \in nodes} \cup (IF item.lang = 0 THEN {} ELSE {"language"})
  IN [k \in keys |-> IF k = "language" THEN Value("string", item.lang)
                     ELSE Value(Mapping[k], (CHOOSE n \in nodes : n.name = k).v)]
UpdateLocationOnce(l, c, item) ==
  IF ~item.there \/ l.at[c] # NoLocation THEN l
  ELSE [l EXCEPT !.at[c] = LocationOfItem(item), !.told[c] = LocationOfItem(item)]
UpdateLocation(l, c, item) ==
  IF ~item.there THEN l ELSE [l EXCEPT !.at[c] = LocationOfItem(item), !.told[c] = LocationOfItem(item)]

-----------------------------------------------------------------------------
\* wocky_pep_service_get_async, send_query_cb: the answers of the server and its
\* events come in the order they were sent.
Push(w, x) == Append(w, x)
Event(c, item) == [kind |-> "event", who |-> c, item |-> item, call |-> "none", ok |-> TRUE]
PepAnswer(k, c, item, ok) == [kind |-> "answer", who |-> c, item |-> item, call |-> k, ok |-> ok]

\* gabble_connection_ensure_capabilities: the first time, the server sends the last
\* items of everybody.
RECURSIVE EventsOf(_)
EventsOf(cs) ==
  IF cs = {} THEN <<>>
  ELSE LET c == CHOOSE c \in cs : TRUE IN <<Event(c, geo.item[c])>> \o EventsOf(cs \ {c})
EnsureNotify(g) ==
  IF loc.notify THEN g ELSE [g EXCEPT !.wire = @ \o EventsOf({c \in Places : g.item[c].there})]

\* location_get_locations, conn_location_fill_contact_attributes
GetLocations ==
  /\ "get" \in locationScene.calls /\ ~loc.notify
  /\ loc' = [loc EXCEPT !.notify = TRUE]
  /\ geo' = EnsureNotify(geo)
  /\ UNCHANGED <<locationScene, locationCall>>

\* location_request_location
RequestLocation(k, c, ok) ==
  /\ "request" \in locationScene.calls /\ locationCall[k].state = "idle"
  /\ locationCall' = [locationCall EXCEPT ![k].state = "asking", ![k].who = c]
  /\ geo' = [geo EXCEPT !.wire = Push(@, PepAnswer(k, c, geo.item[c], ok))]
  /\ UNCHANGED <<locationScene, loc>>

\* request_location_reply_cb
LocationReplied(x) ==
  /\ x.kind = "answer" /\ locationCall[x.call].state = "asking"
  /\ loc' = IF x.ok THEN UpdateLocation(loc, x.who, x.item) ELSE loc
  /\ locationCall' = [locationCall EXCEPT ![x.call].state = IF x.ok THEN "answered" ELSE "failed",
                        ![x.call].answer = IF x.ok /\ x.item.there THEN loc'.at[x.who] ELSE NoLocation]

\* location_set_location: all of it or nothing.
SetLocation(k, l, ok) ==
  /\ l \in locationScene.sets /\ locationCall[k].state = "idle"
  /\ IF ~locationScene.pep
     THEN locationCall' = [locationCall EXCEPT ![k].state = "failed"] /\ UNCHANGED <<loc, geo>>
     ELSE /\ loc' = [loc EXCEPT !.notify = TRUE]
          /\ LET g == EnsureNotify(geo)
             IN geo' = IF Refused(l) THEN g
                       ELSE [g EXCEPT !.wire = Push(IF ok THEN Push(@, Event("me", GeolocNode(l))) ELSE @, PepAnswer(k, "me", NoItem, ok)),
                                      !.item["me"] = IF ok THEN GeolocNode(l) ELSE @, !.set = IF ok THEN l ELSE @]
          /\ locationCall' = [locationCall EXCEPT ![k].state = IF Refused(l) THEN "failed" ELSE "setting", ![k].who = "me"]
  /\ UNCHANGED locationScene

\* set_location_sent_cb
LocationStored(x) ==
  /\ x.kind = "answer" /\ locationCall[x.call].state = "setting"
  /\ locationCall' = [locationCall EXCEPT ![x.call].state = IF x.ok THEN "answered" ELSE "failed"]
  /\ UNCHANGED loc

\* msg_event_cb, location_pep_node_changed: our own events are not listened to.
LocationHeard(x) ==
  /\ x.kind = "event"
  /\ loc' = IF x.who = "me" THEN loc ELSE UpdateLocation(loc, x.who, x.item)
  /\ UNCHANGED locationCall

StanzaArrives ==
  /\ geo.wire # <<>>
  /\ LET x == Head(geo.wire) IN LocationReplied(x) \/ LocationStored(x) \/ LocationHeard(x)
  /\ geo' = [geo EXCEPT !.wire = Tail(@)]
  /\ UNCHANGED locationScene

\* A contact publishes, and the server tells us if we asked for events.
ContactMoves(c, item) ==
  /\ c # "me" /\ geo.changes < locationScene.changes
  /\ geo' = [geo EXCEPT !.item[c] = item, !.changes = @ + 1, !.wire = IF loc.notify THEN Push(@, Event(c, item)) ELSE @]
  /\ UNCHANGED <<locationScene, loc, locationCall>>

LocationNext ==
  \/ GetLocations \/ StanzaArrives
  \/ \E k \in LocationCalls, ok \in BOOLEAN :
       \/ \E c \in Places : RequestLocation(k, c, ok)
       \/ \E l \in locationScene.sets : SetLocation(k, l, ok)
  \/ \E c \in Places, item \in locationScene.items : ContactMoves(c, item)

-----------------------------------------------------------------------------
\* What clients were told and what GetLocations returns are the same, and when nothing
\* is on its way, both are what the contact publishes (update_location_from_item).
LocationsFollowed ==
  /\ loc.told = loc.at
  /\ loc.notify /\ geo.wire = <<>> =>
       \A c \in Places \ {"me"} : geo.item[c].there => loc.at[c] = LocationOfItem(geo.item[c])

\* What contacts read of us is what was set: every field that is known, as near as six
\* digits come, in the types they have; a location that is refused changes nothing
\* (add_to_geoloc_node, location_set_location).
Near(a, b) ==
  /\ a.type = b.type
  /\ CASE a.type = "double" -> a.v - b.v \in -5..5
       [] a.type = "int64" -> a.v = b.v \/ (a.v < 0 /\ b.v = 0)
       [] OTHER -> a.v = b.v
PublishedAsSet ==
  geo.item["me"].there =>
    LET read == LocationOfItem(geo.item["me"])
    IN /\ DOMAIN read = DOMAIN geo.set \cap (DOMAIN Mapping \cup {"language"})
       /\ \A k \in DOMAIN read : Near(geo.set[k], read[k])

LocationSound == LocationsFollowed /\ PublishedAsSet
=============================================================================
