---------------------------- MODULE ContactInfo ----------------------------
(* Contact information (conn-contact-info.c): vCards read as lists of fields, own   *)
(* fields written as edits of our vCard, and calls that wait for a vCard.            *)
EXTENDS Naturals, Sequences, FiniteSets, SequencesExt

CONSTANTS InfoScenes, InfoCalls, MaxRefresh   \* MaxRefresh bounds a history

VARIABLES
  infoScene, \* the fields the server allows, our alias from PEP, the contact list or the
             \* account, what is set, what may fail
  info,      \* vcard_requests, cached vCards and what clients were told
  book,      \* the server's vCards: sequences of nodes
  icall      \* the client's calls

infoVars == <<infoScene, info, book, icall>>
People == {"me", "pal"}

\* known_fields: one field of each behaviour, and the names in both worlds
Field(vname) ==
  CASE vname = "fn" -> [xmpp |-> "FN", how |-> "SIMPLE_ONCE", types |-> {}, elements |-> <<>>]
    [] vname = "url" -> [xmpp |-> "URL", how |-> "SIMPLE", types |-> {}, elements |-> <<>>]
    [] vname = "nickname" -> [xmpp |-> "NICKNAME", how |-> "SIMPLE", types |-> {}, elements |-> <<>>]
    [] vname = "n" -> [xmpp |-> "N", how |-> "STRUCTURED_ONCE", types |-> {}, elements |-> <<"FAMILY", "GIVEN">>]
    [] vname = "tel" -> [xmpp |-> "TEL", how |-> "STRUCTURED", types |-> {"home", "work"}, elements |-> <<"NUMBER">>]
    [] vname = "org" -> [xmpp |-> "ORG", how |-> "ORG", types |-> {}, elements |-> <<>>]
    [] vname = "label" -> [xmpp |-> "LABEL", how |-> "LABEL", types |-> {"home", "work"}, elements |-> <<>>]
KnownFields == {"fn", "url", "nickname", "n", "tel", "org", "label"}
NameOf(xmpp) == CHOOSE v \in KnownFields : Field(v).xmpp = xmpp
IsKnown(xmpp) == \E v \in KnownFields : Field(v).xmpp = xmpp

Node(name, content, kids) == [name |-> name, content |-> content, kids |-> kids]
Kid(name, content) == [name |-> name, content |-> content]
Entry(name, params, values) == [name |-> name, params |-> params, values |-> values]
KidsNamed(node, name) == SelectSeq(node.kids, LAMBDA k : k.name = name)

-----------------------------------------------------------------------------
\* _create_contact_field_extended: every type and every element has its place.
StructuredEntry(v, node) ==
  Entry(v, {t \in Field(v).types : KidsNamed(node, t) # <<>>},
        [i \in 1..Len(Field(v).elements) |->
           LET ks == KidsNamed(node, Field(v).elements[i]) IN IF ks = <<>> THEN "" ELSE ks[1].content])

\* _parse_vcard, FIELD_ORG: the name, then the units; nothing without a name.
OrgEntryUnitsFirst(node) ==
  Entry("org", {}, [i \in 1..Len(KidsNamed(node, "ORGUNIT")) |-> KidsNamed(node, "ORGUNIT")[i].content]
                     \o <<KidsNamed(node, "ORGNAME")[1].content>>)
OrgEntry(node) ==
  Entry("org", {}, <<KidsNamed(node, "ORGNAME")[1].content>>
                     \o [i \in 1..Len(KidsNamed(node, "ORGUNIT")) |-> KidsNamed(node, "ORGUNIT")[i].content])

\* FIELD_LABEL: one value of several lines; the types of a label are not read.
LabelEntry(node) == Entry("label", {}, [i \in 1..Len(KidsNamed(node, "LINE")) |-> KidsNamed(node, "LINE")[i].content])

\* _parse_vcard: the photo, unknown nodes and an organisation without a name are left out.
Readable(node) == IsKnown(node.name) /\ (node.name = "ORG" => KidsNamed(node, "ORGNAME") # <<>>)
ParseNode(node) ==
  LET v == NameOf(node.name) how == Field(v).how
  IN CASE how \in {"SIMPLE", "SIMPLE_ONCE"} -> Entry(v, {}, <<node.content>>)
       [] how \in {"STRUCTURED", "STRUCTURED_ONCE"} -> StructuredEntry(v, node)
       [] how = "ORG" -> OrgEntry(node)
       [] how = "LABEL" -> LabelEntry(node)
Parse(vcard) == LET nodes == SelectSeq(vcard, Readable) IN [i \in 1..Len(nodes) |-> ParseNode(nodes[i])]

-----------------------------------------------------------------------------
\* conn_contact_info_build_supported_fields: the known fields the server allows
SupportedFields == KnownFields \cap infoScene.allowed

\* conn_contact_info_new_edit and the counts of gabble_connection_set_contact_info.
Acceptable(e) ==
  /\ e.name \in SupportedFields
  /\ e.params \subseteq Field(e.name).types
  /\ CASE Field(e.name).how \in {"SIMPLE", "SIMPLE_ONCE"} -> Len(e.values) = 1
       [] Field(e.name).how \in {"STRUCTURED", "STRUCTURED_ONCE"} -> Len(e.values) = Len(Field(e.name).elements)
       [] Field(e.name).how = "ORG" -> Len(e.values) > 0
       [] OTHER -> TRUE

\* gabble_connection_set_contact_info: the node an entry becomes.
NodeOf(e) ==
  LET f == Field(e.name)
      types == [i \in 1..Cardinality(e.params) |-> Kid(SetToSeq(e.params)[i], "")]
  IN CASE f.how \in {"SIMPLE", "SIMPLE_ONCE"} -> Node(f.xmpp, e.values[1], <<>>)
       [] f.how \in {"STRUCTURED", "STRUCTURED_ONCE"} ->
            Node(f.xmpp, "", types \o [i \in 1..Len(f.elements) |-> Kid(f.elements[i], e.values[i])])
       [] f.how = "ORG" -> Node(f.xmpp, "", <<Kid("ORGNAME", e.values[1])>>
                                 \o [i \in 1..(Len(e.values) - 1) |-> Kid("ORGUNIT", e.values[i + 1])])
       [] f.how = "LABEL" -> Node(f.xmpp, "", types \o [i \in 1..Len(e.values) |-> Kid("LINE", e.values[i])])

\* GABBLE_VCARD_EDIT_REPLACE for a field that may be there once, which leaves an equal
\* one where it is, and GABBLE_VCARD_EDIT_APPEND otherwise.
Once(v) == Field(v).how \in {"SIMPLE_ONCE", "STRUCTURED_ONCE"}
AppliedAppend(vcard, e) == Append(vcard, NodeOf(e))
Applied(vcard, e) ==
  LET same == SelectSeq(vcard, LAMBDA x : x.name = NodeOf(e).name)
      others == SelectSeq(vcard, LAMBDA x : x.name # NodeOf(e).name)
  IN IF ~Once(e.name) THEN Append(vcard, NodeOf(e))
     ELSE IF same = <<NodeOf(e)>> THEN vcard ELSE Append(others, NodeOf(e))

\* GABBLE_VCARD_EDIT_CLEAR keeps the photo.
Cleared(vcard) == SelectSeq(vcard, LAMBDA x : x.name = "PHOTO")

\* GABBLE_VCARD_EDIT_SET_ALIAS: where the user set no nickname our alias is written;
\* a server that takes no nicknames gets it as the full name.
AliasField == IF "nickname" \in infoScene.allowed THEN "nickname" ELSE "fn"
SetAliasAnyway(vcard, alias) ==
  IF alias = "none" THEN vcard
  ELSE Append(SelectSeq(vcard, LAMBDA x : x.name # Field(AliasField).xmpp), Node(Field(AliasField).xmpp, alias, <<>>))
SetAlias(vcard, alias) ==
  IF alias = "none" \/ \E i \in 1..Len(vcard) : vcard[i].name = Field(AliasField).xmpp THEN vcard
  ELSE Append(vcard, Node(Field(AliasField).xmpp, alias, <<>>))

\* the edits of one SetContactInfo
Patch(vcard, entries, alias) == SetAlias(FoldLeft(Applied, Cleared(vcard), entries), alias)

\* extract_nickname, observe_vcard: the alias a vCard holds
AliasIn(vcard) ==
  LET of(name) == SelectSeq(vcard, LAMBDA x : x.name = name /\ x.content # "")
      found == of("NICKNAME") \o of("FN")
  IN IF found = <<>> THEN "none" ELSE found[1].content
\* _gabble_connection_get_cached_alias, as far as it is worth writing to the vCard
OwnAlias(i) == IF infoScene.alias # "none" THEN infoScene.alias ELSE i.nick

-----------------------------------------------------------------------------
InfoInit ==
  /\ infoScene \in InfoScenes
  /\ book = [p \in People |-> infoScene.books[p]]
  /\ info = [cache |-> [p \in People |-> "none"], told |-> [p \in People |-> "none"], refreshing |-> {}, waiting |-> [p \in People |-> {}],
             held |-> [p \in People |-> <<>>], heard |-> [p \in People |-> <<>>], times |-> 0, set |-> <<>>, alias |-> "none", wasSet |-> FALSE,
             nick |-> "none", others |-> 0]
  /\ icall = [k \in InfoCalls |-> [kind |-> "none", who |-> "me", state |-> "idle", got |-> <<>>, entries |-> <<>>]]

\* _vcard_updated, _emit_contact_info_changed: what is cached is told.
Observed(i, p, vcard) ==
  [i EXCEPT !.cache[p] = "known", !.held[p] = vcard, !.told[p] = "told", !.heard[p] = Parse(vcard),
            !.nick = IF p = "me" THEN AliasIn(vcard) ELSE @]

\* gabble_connection_request_contact_info
RequestInfo(k, p) ==
  /\ icall[k].state = "idle" /\ "request" \in infoScene.calls
  /\ LET c == [icall[k] EXCEPT !.kind = "request", !.who = p]
     IN IF info.cache[p] = "known"
        THEN icall' = [icall EXCEPT ![k] = [c EXCEPT !.state = "answered", !.got = Parse(info.held[p])]] /\ UNCHANGED info
        ELSE /\ icall' = [icall EXCEPT ![k] = [c EXCEPT !.state = "waiting"]]
             /\ info' = [info EXCEPT !.waiting[p] = @ \cup {k}]
  /\ UNCHANGED <<infoScene, book>>

\* gabble_connection_refresh_contact_info: the cached one goes, and one request is made.
RefreshUncached(p) == info' = [info EXCEPT !.refreshing = @ \cup {p}, !.times = @ + 1]
RefreshOne(p) == info' = [info EXCEPT !.cache[p] = "none", !.refreshing = @ \cup {p}, !.times = @ + 1]
RefreshInfo(p) ==
  /\ info.times < MaxRefresh /\ p \notin info.refreshing
  /\ RefreshOne(p)
  /\ UNCHANGED <<infoScene, book, icall>>

\* gabble_connection_get_contact_info, conn_contact_info_fill_contact_attributes: only what is cached
GetInfo(k, p) ==
  /\ icall[k].state = "idle" /\ "get" \in infoScene.calls
  /\ icall' = [icall EXCEPT ![k] = [@ EXCEPT !.kind = "get", !.who = p, !.state = "answered",
                                    !.got = IF info.cache[p] = "known" THEN Parse(info.held[p]) ELSE <<>>]]
  /\ UNCHANGED <<infoScene, info, book>>

\* the vCard manager answers all that wait: _request_vcard_cb,
\* _return_from_request_contact_info and _request_vcards_cb
CardReplied(p) ==
  \E ok \in {TRUE, ~infoScene.fails} :
    /\ info.waiting[p] # {} \/ p \in info.refreshing
    /\ info' = [IF ok THEN Observed(info, p, book[p]) ELSE info EXCEPT !.waiting[p] = {}, !.refreshing = @ \ {p}]
    /\ icall' = [k \in InfoCalls |-> IF k \in info.waiting[p]
                   THEN [icall[k] EXCEPT !.state = IF ok THEN "answered" ELSE "error", !.got = IF ok THEN Parse(book[p]) ELSE <<>>]
                   ELSE icall[k]]
    /\ UNCHANGED <<infoScene, book>>

\* gabble_connection_set_contact_info: one bad field refuses all of them.
SetInfo(k) ==
  \E entries \in infoScene.sets :
    /\ icall[k].state = "idle"
    /\ LET c == [icall[k] EXCEPT !.kind = "set", !.entries = entries]
       IN IF \A i \in 1..Len(entries) : Acceptable(entries[i])
          THEN /\ icall' = [icall EXCEPT ![k] = [c EXCEPT !.state = "editing"]]
               /\ info' = [info EXCEPT !.cache["me"] = "none"]
          ELSE icall' = [icall EXCEPT ![k] = [c EXCEPT !.state = "error"]] /\ UNCHANGED info
    /\ UNCHANGED <<infoScene, book>>

\* _set_contact_info_cb: the vCard manager has read, patched and stored our vCard. One
\* that does not change is not stored, and its call waits for the next that is. An error
\* answers every call.
InfoStored(k) ==
  LET old == book["me"]
      alias == OwnAlias(info)
      new == Patch(old, icall[k].entries, alias)
      read == [Observed(info, "me", old) EXCEPT !.set = icall[k].entries, !.alias = alias, !.wasSet = TRUE]
      failed == [j \in InfoCalls |-> IF icall[j].state \in {"editing", "skipped"} THEN [icall[j] EXCEPT !.state = "error"] ELSE icall[j]]
  IN /\ icall[k].state = "editing"
     /\ \/ /\ new = old
           /\ icall' = [icall EXCEPT ![k].state = "skipped"]
           /\ info' = read /\ UNCHANGED book
        \/ /\ new # old
           /\ icall' = [j \in InfoCalls |-> IF j = k \/ icall[j].state = "skipped" THEN [icall[j] EXCEPT !.state = "answered"] ELSE icall[j]]
           /\ book' = [book EXCEPT !["me"] = new]
           /\ info' = Observed(read, "me", new)
        \/ /\ infoScene.fails
           /\ icall' = failed /\ UNCHANGED book
           /\ \/ UNCHANGED info
              \/ new # old /\ info' = Observed(info, "me", old)
     /\ UNCHANGED infoScene

\* somebody edits a vCard elsewhere
CardEdited(p) ==
  /\ info.others = 0 /\ p \in infoScene.edited
  /\ book' = [book EXCEPT ![p] = infoScene.books2[p]]
  /\ info' = [info EXCEPT !.others = 1, !.wasSet = IF p = "me" THEN FALSE ELSE @]
  /\ UNCHANGED <<infoScene, icall>>

InfoNext ==
  \/ \E k \in InfoCalls, p \in People : RequestInfo(k, p) \/ GetInfo(k, p)
  \/ \E p \in People : RefreshInfo(p) \/ CardReplied(p) \/ CardEdited(p)
  \/ \E k \in InfoCalls : SetInfo(k) \/ InfoStored(k)

-----------------------------------------------------------------------------
\* fields that come back as they were written: of those that may be there once the
\* last value, where it first stood, and labels without their types
WrittenBack(entries) ==
  LET settled(i) == \A j \in i..Len(entries) : entries[j].name = entries[i].name => entries[j] = entries[i]
      kept(i) == ~Once(entries[i].name) \/ (settled(i) /\ ~\E j \in 1..(i - 1) : entries[j].name = entries[i].name /\ settled(j))
      order == SelectSeq([i \in 1..Len(entries) |-> i], kept)
      plain(e) == IF e.name = "label" THEN [e EXCEPT !.params = {}] ELSE e
  IN [i \in 1..Len(order) |-> plain(entries[order[i]])]

\* After SetContactInfo the fields read back are the fields written and the photo is
\* still there. Nothing else is, except our alias where the user gave no nickname: that
\* one never goes (set_contact_info and apply_set_alias against _parse_vcard).
InfoAsSet ==
  info.wasSet =>
    LET written == WrittenBack(info.set)
        fields == Parse(book["me"])
        given == \E i \in 1..Len(written) : written[i].name = AliasField
    IN /\ fields = written \/ fields = written \o <<Entry(AliasField, {}, <<info.alias>>)>>
       /\ Len(fields) > Len(written) <=> ~given /\ info.alias # "none"
       /\ Cleared(book["me"]) = Cleared(infoScene.books["me"])

\* A client is answered or told what the vCard says, not an older one it had asked to
\* refresh (refresh_contact_info; our own may be stored meanwhile), and every call that waits has a vCard on its way.
InfoFresh ==
  /\ \A p \in People : info.cache[p] = "known" => info.heard[p] = Parse(info.held[p])
  /\ "pal" \in info.refreshing => info.cache["pal"] = "none"
  /\ \A k \in InfoCalls : icall[k].state = "waiting" <=> \E p \in People : k \in info.waiting[p]

\* A vCard with a field that cannot be stored changes nothing, not even the fields
\* before it (gabble_connection_set_contact_info).
RefusedWhole ==
  \A k \in InfoCalls : icall[k].kind = "set" /\ icall[k].state = "answered" =>
    \A i \in 1..Len(icall[k].entries) : Acceptable(icall[k].entries[i])

InfoSound == InfoAsSet /\ InfoFresh /\ RefusedWhole
=============================================================================
