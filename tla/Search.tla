------------------------------- MODULE Search -------------------------------
(* Contact search (search-manager.c, search-channel.c): requests that wait for  *)
(* the directory to be discovered, channels that wait for its form, one search   *)
(* per channel, and its end by a reply, by Stop or by closing.                    *)
EXTENDS Integers, Sequences, FiniteSets, FiniteSetTheorems, TLAPS

CONSTANTS SearchScenes, Searches   \* a search is named by its request

\* A form is a list of field names.
ASSUME FormsAreLists == \A x \in SearchScenes : x.form \in Seq(STRING)

VARIABLES
  searchScene, \* the directory's form and how it answers, what the client does
  dir,         \* GabbleSearchManagerPrivate and the connection
  sch          \* per request: its answer, its channel and the search

searchVars == <<searchScene, dir, sch>>

\* The fields of a form: a name of XEP-0055 or of a data form, or one of neither; the
\* one big search box of Openfire is the term with the empty name.
SearchKey(f) ==
  IF f \in {"first", "given"} THEN "x-n-given"
  ELSE IF f \in {"nick", "nickname"} THEN "nickname"
  ELSE IF f = "search" THEN "" ELSE "none"
Unextended == {"first", "nick"}

Broken == {<<"broken", "broken">>}

\* parse_unextended_field_response: one unknown field refuses the form.
UnextendedKeys(form) ==
  IF \E i \in 1..Len(form) : form[i] \notin Unextended THEN Broken
  ELSE {<<SearchKey(form[i]), form[i]>> : i \in 1..Len(form)}

\* parse_data_form, boolean_keys: boxes to tick are no keys but remembered.
BooleanKeys(form) ==
  IF searchScene.xforms THEN {form[i] : i \in 1..Len(form)} \cap searchScene.boxes ELSE {}

\* parse_data_form, name_in_array: of the other fields, the first of a key is used.
HasKey(f) == f \notin searchScene.boxes /\ SearchKey(f) # "none"
DataFormKeysAll(form) ==
  {<<SearchKey(form[i]), form[i]>> : i \in {j \in 1..Len(form) : HasKey(form[j])}}
DataFormKeys(form) ==
  {<<SearchKey(form[i]), form[i]>> :
     i \in {j \in 1..Len(form) : HasKey(form[j]) /\ ~\E k \in 1..(j - 1) : HasKey(form[k]) /\ SearchKey(form[k]) = SearchKey(form[j])}}

\* parse_search_field_response
SearchKeys(form) == IF searchScene.xforms THEN DataFormKeys(form) ELSE UnextendedKeys(form)

\* add_search_result, parse_result_item and parse_extended_result_item: an item
\* without a valid JID is dropped, and the last of a JID stays.
Results(items) == {items[i] : i \in {j \in 1..Len(items) : items[j].valid}}
Gathered(items) ==
  [j \in {x.jid : x \in Results(items)} |->
     LET last == CHOOSE i \in 1..Len(items) : items[i].valid /\ items[i].jid = j /\
                    \A k \in (i + 1)..Len(items) : ~(items[k].valid /\ items[k].jid = j)
     IN items[last].info]

-----------------------------------------------------------------------------
NoSearch == [req |-> "none", chan |-> "none", state |-> "NOT_STARTED", keys |-> {},
             log |-> <<>>, got |-> <<>>, query |-> "none", asked |-> {}]

SearchInit ==
  /\ searchScene \in SearchScenes
  /\ dir = [jud |-> "none", done |-> FALSE, waiting |-> <<>>, up |-> TRUE]
  /\ sch = [s \in Searches |-> NoSearch]

\* new_search_channel, request_search_fields: its constructor asks for the form.
NewSearchChannel(q) == [q EXCEPT !.chan = "asking", !.query = "form"]
FailRequest(q) == [q EXCEPT !.req = "failed", !.chan = "none", !.query = "none"]

\* gabble_search_manager_create_channel
CreateSearch(s) ==
  \E server \in {"given", "default", "invalid"} \cap searchScene.servers :
    /\ dir.up /\ sch[s].req = "none"
    /\ LET q == [sch[s] EXCEPT !.req = "pending"]
       IN IF server = "invalid" \/ (server = "default" /\ dir.jud = "none" /\ dir.done)
          THEN sch' = [sch EXCEPT ![s] = FailRequest(q)] /\ UNCHANGED dir
          ELSE IF server = "default" /\ dir.jud = "none"
          THEN sch' = [sch EXCEPT ![s] = q] /\ dir' = [dir EXCEPT !.waiting = Append(@, s)]
          ELSE sch' = [sch EXCEPT ![s] = NewSearchChannel(q)] /\ UNCHANGED dir
    /\ UNCHANGED searchScene

\* disco_item_found_cb
DirectoryFound ==
  /\ dir.up /\ ~dir.done /\ dir.jud = "none" /\ searchScene.directory
  /\ dir' = [dir EXCEPT !.jud = "found"]
  /\ UNCHANGED <<searchScene, sch>>

\* disco_done_cb: those that waited get their channel or their refusal.
ServeWaitingFirst ==
  sch' = [s \in Searches |-> IF dir.waiting # <<>> /\ s = Head(dir.waiting)
            THEN IF dir.jud # "none" THEN NewSearchChannel(sch[s]) ELSE FailRequest(sch[s]) ELSE sch[s]]
ServeWaiting ==
  sch' = [s \in Searches |-> IF \E i \in 1..Len(dir.waiting) : dir.waiting[i] = s
            THEN IF dir.jud # "none" THEN NewSearchChannel(sch[s]) ELSE FailRequest(sch[s]) ELSE sch[s]]
DiscoveryDone ==
  /\ dir.up /\ ~dir.done
  /\ ServeWaiting
  /\ dir' = [dir EXCEPT !.done = TRUE, !.waiting = <<>>]
  /\ UNCHANGED searchScene

\* query_reply_cb, search_channel_ready_or_not_cb: the channel is announced, or the
\* request fails and the channel goes.
FormArrives(s) ==
  \E ok \in {TRUE, ~searchScene.errors} :
    LET keys == SearchKeys(searchScene.form)
    IN /\ dir.up /\ sch[s].query = "form" /\ sch[s].chan = "asking"
       /\ sch' = [sch EXCEPT ![s] = IF ~ok \/ keys = Broken THEN FailRequest(@)
                                    ELSE [@ EXCEPT !.req = "opened", !.chan = "ready", !.query = "none", !.keys = keys]]
       /\ UNCHANGED <<searchScene, dir>>

-----------------------------------------------------------------------------
\* change_search_state
ChangeState(q, state) == [q EXCEPT !.state = state, !.log = Append(@, state)]

\* validate_terms, build_unextended_query, build_extended_query: the search box
\* comes with all the boxes ticked.
FieldsWithoutBoxes(q, terms) == {p[2] : p \in {x \in q.keys : x[1] \in terms}}
FieldsOf(q, terms) ==
  {p[2] : p \in {x \in q.keys : x[1] \in terms}} \cup (IF "" \in terms THEN BooleanKeys(searchScene.form) ELSE {})
ValidTerms(q, terms) == \A t \in terms : \E p \in q.keys : p[1] = t

\* gabble_search_channel_search, do_search: a channel searches once.
SearchAgain(q, terms) ==
  IF ~ValidTerms(q, terms) THEN q
  ELSE [ChangeState(q, "IN_PROGRESS") EXCEPT !.query = "search", !.asked = FieldsOf(q, terms)]
DoSearch(q, terms) ==
  IF q.state # "NOT_STARTED" \/ ~ValidTerms(q, terms) THEN q
  ELSE [ChangeState(q, "IN_PROGRESS") EXCEPT !.query = "search", !.asked = FieldsOf(q, terms)]
StartSearch(s) ==
  \E terms \in SUBSET {"x-n-given", "nickname", ""} :
    /\ dir.up /\ sch[s].chan = "ready" /\ Len(sch[s].log) < 4
    /\ DoSearch(sch[s], terms) # sch[s]
    /\ sch' = [sch EXCEPT ![s] = DoSearch(@, terms)]
    /\ UNCHANGED <<searchScene, dir>>

\* search_reply_cb: a reply that comes after Stop is dropped.
TakeLateReply(q, ok) ==
  IF ok THEN [ChangeState(q, "COMPLETED") EXCEPT !.got = Append(@, Gathered(searchScene.items))] ELSE ChangeState(q, "FAILED")
TakeReply(q, ok) ==
  IF q.state # "IN_PROGRESS" THEN q
  ELSE IF ok THEN [ChangeState(q, "COMPLETED") EXCEPT !.got = Append(@, Gathered(searchScene.items))]
  ELSE ChangeState(q, "FAILED")
SearchReply(s) ==
  \E ok \in {TRUE, ~searchScene.errors} :
    /\ dir.up /\ sch[s].query = "search" /\ sch[s].chan = "ready"
    /\ sch' = [sch EXCEPT ![s] = [TakeReply(@, ok) EXCEPT !.query = "none"]]
    /\ UNCHANGED <<searchScene, dir>>

\* gabble_search_channel_stop
StopSearch(s) ==
  /\ dir.up /\ sch[s].chan = "ready" /\ sch[s].state = "IN_PROGRESS"
  /\ sch' = [sch EXCEPT ![s] = ChangeState(@, "FAILED")]
  /\ UNCHANGED <<searchScene, dir>>

\* search_channel_closed_cb, remove_search_channel: the reply is no longer awaited.
CloseSearch(s) ==
  /\ dir.up /\ sch[s].chan = "ready"
  /\ sch' = [sch EXCEPT ![s].chan = "closed", ![s].query = "none"]
  /\ UNCHANGED <<searchScene, dir>>

\* connection_status_changed_cb, gabble_search_manager_close_all; what is still
\* pending the connection itself fails (telepathy-glib).
SearchDisconnected ==
  /\ dir.up /\ searchScene.disconnects
  /\ dir' = [dir EXCEPT !.up = FALSE, !.waiting = <<>>]
  /\ sch' = [s \in Searches |->
       [sch[s] EXCEPT !.query = "none", !.chan = IF @ = "none" THEN @ ELSE "closed",
                      !.req = IF @ = "pending" THEN "failed" ELSE @]]
  /\ UNCHANGED searchScene

SearchNext ==
  \/ DirectoryFound \/ DiscoveryDone \/ SearchDisconnected
  \/ \E s \in Searches : CreateSearch(s) \/ FormArrives(s) \/ StartSearch(s) \/ SearchReply(s) \/ StopSearch(s) \/ CloseSearch(s)

-----------------------------------------------------------------------------
\* A request that has no answer waits for the discovery, which is not over, or its
\* channel waits for the directory's form (search-manager.c:130, 390).
SearchRequestsAnswered ==
  \A s \in Searches :
    sch[s].req = "pending" <=> \/ ~dir.done /\ \E i \in 1..Len(dir.waiting) : dir.waiting[i] = s
                               \/ sch[s].chan = "asking" /\ sch[s].query = "form"

\* A search starts once and ends once, its results come once and only when it
\* completed, one for every person (search-channel.c:460, 767).
SearchEndsOnce ==
  \A s \in Searches :
    /\ sch[s].log \in {<<>>, <<"IN_PROGRESS">>, <<"IN_PROGRESS", "COMPLETED">>, <<"IN_PROGRESS", "FAILED">>}
    /\ Len(sch[s].got) = Cardinality({i \in 1..Len(sch[s].log) : sch[s].log[i] = "COMPLETED"})

\* A term is sent as one field, and that field is one of the directory's form; its
\* boxes are ticked, all of them, with the term of the search box and with no other
\* (search-channel.c:319, 853, 874, 909).
TermsSentOnce ==
  \A s \in Searches :
    LET boxes == BooleanKeys(searchScene.form)
        fields == sch[s].asked \ boxes
    IN /\ sch[s].asked \subseteq {searchScene.form[i] : i \in 1..Len(searchScene.form)}
       /\ \A f, g \in fields : SearchKey(f) = SearchKey(g) => f = g
       /\ sch[s].asked \cap boxes = IF \E f \in fields : SearchKey(f) = "" THEN boxes ELSE {}

\* A search is answered, runs once, ends once and asks what it was given
\* (search-manager.c, search-channel.c).
SearchesSound == SearchRequestsAnswered /\ SearchEndsOnce /\ TermsSentOnce

SearchSpec == SearchInit /\ [][SearchNext]_searchVars

-----------------------------------------------------------------------------
(* What every step keeps, and why SearchesSound follows from it.                *)

\* A request, its channel and its search, whose keys and terms are fields of the form.
FormFields == {searchScene.form[i] : i \in 1..Len(searchScene.form)}
SearchKeyNames == {"x-n-given", "nickname", "", "none"}
SearchRecord ==
  [req : {"none", "pending", "opened", "failed"}, chan : {"none", "asking", "ready", "closed"},
   state : {"NOT_STARTED", "IN_PROGRESS", "COMPLETED", "FAILED"}, keys : SUBSET (SearchKeyNames \X FormFields),
   log : Seq({"IN_PROGRESS", "COMPLETED", "FAILED"}), got : Seq({Gathered(searchScene.items)}),
   query : {"none", "form", "search"}, asked : SUBSET FormFields]

\* The log of a search tells its state, and results came when it says COMPLETED.
LogOf(state) ==
  IF state = "NOT_STARTED" THEN <<>>
  ELSE IF state = "IN_PROGRESS" THEN <<"IN_PROGRESS">> ELSE <<"IN_PROGRESS", state>>
LogTellsState(q) ==
  /\ q.log = LogOf(q.state)
  /\ Len(q.got) = IF q.state = "COMPLETED" THEN 1 ELSE 0

\* At most one field of the form for each key of a search, none of them a box; a query
\* ticks the boxes with the search box.
OnePerKey(fields) == \A f, g \in fields : SearchKey(f) = SearchKey(g) => f = g
Boxes == BooleanKeys(searchScene.form)
TermsAndBoxes(asked) ==
  /\ OnePerKey(asked \ Boxes)
  /\ asked \cap Boxes = IF \E f \in asked \ Boxes : SearchKey(f) = "" THEN Boxes ELSE {}
KeysFromForm(keys) ==
  /\ \A p \in keys : p[1] = SearchKey(p[2]) /\ p[2] \notin Boxes
  /\ OnePerKey({p[2] : p \in keys})

\* Where a request stands is told by its channel and its place among the waiting.
Waiting == {dir.waiting[i] : i \in 1..Len(dir.waiting)}
RequestPlaced(s, q, waiting) ==
  /\ q.req = "pending" <=> s \in waiting \/ q.chan = "asking"
  /\ s \in waiting => q.chan = "none"
  /\ q.chan = "asking" <=> q.query = "form"
  /\ q.chan = "ready" => q.req = "opened"
  /\ q.req = "none" => q.chan = "none"
RequestSound(s, q, waiting) ==
  /\ q \in SearchRecord
  /\ RequestPlaced(s, q, waiting)
  /\ LogTellsState(q)
  /\ KeysFromForm(q.keys)
  /\ TermsAndBoxes(q.asked)

\* The inductive invariant of searches: besides the above, nothing waits for a
\* discovery that is over.
DirectoryRecord == [jud : {"none", "found"}, done : BOOLEAN, waiting : Seq(Searches), up : BOOLEAN]
SearchInv ==
  /\ searchScene \in SearchScenes
  /\ dir \in DirectoryRecord
  /\ dir.done => dir.waiting = <<>>
  /\ sch = [s \in Searches |-> sch[s]]
  /\ \A s \in Searches : RequestSound(s, sch[s], Waiting)

\* What the reply with the form leaves in a channel is one field of the form for
\* each key (parse_search_field_response).
LEMMA KeysOfTheForm ==
  ASSUME searchScene \in SearchScenes, SearchKeys(searchScene.form) # Broken
  PROVE  KeysFromForm(SearchKeys(searchScene.form)) /\ SearchKeys(searchScene.form) \in SUBSET (SearchKeyNames \X FormFields)
<1> DEFINE form == searchScene.form
           N == 1..Len(form)
<1>1. form \in Seq(STRING) /\ Len(form) \in Nat /\ \A i \in N : form[i] \in STRING
  BY FormsAreLists
<1>2. \A i \in N : SearchKey(form[i]) \in SearchKeyNames /\ form[i] \in FormFields
  BY DEF SearchKey, SearchKeyNames, FormFields
<1>3. CASE searchScene.xforms
  <2> DEFINE Firsts == {j \in N : HasKey(form[j]) /\ ~\E k \in 1..(j - 1) : HasKey(form[k]) /\ SearchKey(form[k]) = SearchKey(form[j])}
  <2>1. SearchKeys(form) = {<<SearchKey(form[i]), form[i]>> : i \in Firsts}
    BY <1>3 DEF SearchKeys, DataFormKeys
  <2>2. ASSUME NEW i \in Firsts, NEW j \in Firsts, SearchKey(form[i]) = SearchKey(form[j])
        PROVE  i = j
    <3>1. ~(i < j) /\ ~(j < i)
      BY <2>2, <1>1
    <3> QED BY <3>1, <1>1
  <2> HIDE DEF form
  <2>3. \A p \in SearchKeys(form) : \E i \in Firsts : p[1] = SearchKey(form[i]) /\ p[2] = form[i]
    BY <2>1
  <2>7. \A p \in SearchKeys(form) : p[2] \notin Boxes
    BY <2>3 DEF Boxes, BooleanKeys, HasKey
  <2>4. SearchKeys(form) \in SUBSET (SearchKeyNames \X FormFields)
    BY <2>1, <1>1, <1>2
  <2>5. {p[2] : p \in SearchKeys(form)} \subseteq {form[i] : i \in N}
    BY <2>3
  <2>6. OnePerKey({p[2] : p \in SearchKeys(form)})
    BY <2>3, <2>2 DEF OnePerKey
  <2> QED BY <2>3, <2>4, <2>5, <2>6, <2>7 DEF KeysFromForm, FormFields, form
<1>4. CASE ~searchScene.xforms
  <2>1. \A i \in N : form[i] \in Unextended
    BY <1>4 DEF SearchKeys, UnextendedKeys
  <2>2. SearchKeys(form) = {<<SearchKey(form[i]), form[i]>> : i \in N}
    BY <2>1, <1>4 DEF SearchKeys, UnextendedKeys
  <2> HIDE DEF form
  <2>3. \A p \in SearchKeys(form) : \E i \in N : p[1] = SearchKey(form[i]) /\ p[2] = form[i]
    BY <2>2
  <2>4. SearchKeys(form) \in SUBSET (SearchKeyNames \X FormFields)
    BY <2>2, <1>1, <1>2
  <2>5. {p[2] : p \in SearchKeys(form)} \subseteq {form[i] : i \in N}
    BY <2>3
  <2>6. \A f, g \in Unextended : SearchKey(f) = SearchKey(g) => f = g
    BY DEF Unextended, SearchKey
  <2>7. OnePerKey({p[2] : p \in SearchKeys(form)})
    BY <2>3, <2>1, <2>6 DEF OnePerKey
  <2>8. Boxes = {}
    BY <1>4 DEF Boxes, BooleanKeys
  <2> QED BY <2>3, <2>4, <2>5, <2>7, <2>8 DEF KeysFromForm, FormFields, form
<1> QED BY <1>3, <1>4

\* The fields a query asks for are fields of the form, one for each term, and with
\* the search box the boxes (build_unextended_query, build_extended_query).
LEMMA FieldsOfKeys ==
  ASSUME NEW q \in SearchRecord, NEW terms, KeysFromForm(q.keys), ValidTerms(q, terms)
  PROVE  FieldsOf(q, terms) \subseteq FormFields /\ TermsAndBoxes(FieldsOf(q, terms))
<1> DEFINE sent == {p[2] : p \in {x \in q.keys : x[1] \in terms}}
           asked == FieldsOf(q, terms)
<1>1. asked = sent \cup (IF "" \in terms THEN Boxes ELSE {})
  BY DEF FieldsOf, Boxes
<1>2. q.keys \in SUBSET (SearchKeyNames \X FormFields) /\ Boxes \subseteq FormFields
  BY DEF SearchRecord, Boxes, BooleanKeys, FormFields
<1>3. sent \subseteq {p[2] : p \in q.keys} /\ sent \subseteq FormFields /\ sent \cap Boxes = {}
  BY <1>2 DEF KeysFromForm
<1>4. OnePerKey(sent)
  BY <1>3 DEF KeysFromForm, OnePerKey
<1>5. (\E f \in sent : SearchKey(f) = "") <=> "" \in terms
  <2>1. \A f \in sent : \E p \in q.keys : p[1] \in terms /\ f = p[2] /\ p[1] = SearchKey(f)
    BY DEF KeysFromForm
  <2>2. \A p \in q.keys : p[1] \in terms => p[2] \in sent /\ SearchKey(p[2]) = p[1]
    BY DEF KeysFromForm
  <2> HIDE DEF sent
  <2>3. "" \in terms => \E f \in sent : SearchKey(f) = ""
    BY <2>2 DEF ValidTerms
  <2> QED BY <2>1, <2>3
<1> HIDE DEF sent, asked
<1>6. asked \ Boxes = sent /\ asked \cap Boxes = IF "" \in terms THEN Boxes ELSE {}
  BY <1>1, <1>3
<1>7. asked \subseteq FormFields
  BY <1>1, <1>2, <1>3
<1>8. TermsAndBoxes(asked)
  BY <1>4, <1>5, <1>6 DEF TermsAndBoxes
<1> QED BY <1>7, <1>8 DEF asked

\* Whether a request is sound depends on the scene alone, which no step changes.
LEMMA SoundInTheScene ==
  ASSUME UNCHANGED searchScene, NEW s, NEW q, NEW W
  PROVE  RequestSound(s, q, W)' <=> RequestSound(s, q, W)
BY DEF RequestSound, SearchRecord, FormFields, RequestPlaced, LogTellsState, KeysFromForm, TermsAndBoxes, Boxes, BooleanKeys

\* A step keeps the invariant when it leaves the manager's record and every request
\* sound.
LEMMA EveryRequestSound ==
  ASSUME SearchInv, NEW f, UNCHANGED searchScene,
         dir' \in DirectoryRecord, dir'.done => dir'.waiting = <<>>,
         sch' = [t \in Searches |-> f[t]],
         \A t \in Searches : RequestSound(t, f[t], Waiting')
  PROVE  SearchInv'
<1>1. \A t \in Searches : sch'[t] = f[t]
  OBVIOUS
<1>2. sch' = [t \in Searches |-> sch'[t]]
  BY <1>1
<1>3. ASSUME NEW t \in Searches PROVE RequestSound(t, sch[t], Waiting)'
  <2>1. RequestSound(t, sch'[t], Waiting')
    BY <1>1
  <2>2. \A q, W : RequestSound(t, q, W)' <=> RequestSound(t, q, W)
    BY SoundInTheScene
  <2> QED BY <2>1, <2>2
<1> QED BY <1>2, <1>3 DEF SearchInv, DirectoryRecord

\* A step that moves one request keeps the invariant when it leaves that request
\* sound.
LEMMA OneRequestMoves ==
  ASSUME SearchInv, NEW s \in Searches, NEW q,
         UNCHANGED <<searchScene, dir>>, sch' = [sch EXCEPT ![s] = q], RequestSound(s, q, Waiting)
  PROVE  SearchInv'
<1> DEFINE f == [t \in Searches |-> IF t = s THEN q ELSE sch[t]]
<1>1. sch' = [t \in Searches |-> f[t]]
  BY DEF SearchInv
<1>2. Waiting' = Waiting
  BY DEF Waiting
<1>3. \A t \in Searches : RequestSound(t, f[t], Waiting')
  BY <1>2 DEF SearchInv
<1> HIDE DEF f
<1> QED BY <1>1, <1>3, EveryRequestSound DEF SearchInv

\* A request that waits no more, when it gets a channel or its refusal, is sound
\* (new_search_channel, and the refusals of create_channel and disco_done_cb).
LEMMA OpenedOrRefused ==
  ASSUME NEW s, NEW q, NEW W, NEW V, RequestSound(s, q, W), q.req = "pending", s \notin V
  PROVE  /\ q.chan = "none" => RequestSound(s, NewSearchChannel(q), V)
         /\ RequestSound(s, FailRequest(q), V)
<1>1. q.chan = "none" => NewSearchChannel(q) \in SearchRecord
  BY DEF RequestSound, SearchRecord, NewSearchChannel
<1>2. FailRequest(q) \in SearchRecord
  BY DEF RequestSound, SearchRecord, FailRequest
<1>3. /\ NewSearchChannel(q).req = q.req /\ NewSearchChannel(q).chan = "asking" /\ NewSearchChannel(q).query = "form"
      /\ NewSearchChannel(q).state = q.state /\ NewSearchChannel(q).log = q.log /\ NewSearchChannel(q).got = q.got
      /\ NewSearchChannel(q).keys = q.keys /\ NewSearchChannel(q).asked = q.asked
  BY DEF RequestSound, SearchRecord, NewSearchChannel
<1>4. /\ FailRequest(q).req = "failed" /\ FailRequest(q).chan = "none" /\ FailRequest(q).query = "none"
      /\ FailRequest(q).state = q.state /\ FailRequest(q).log = q.log /\ FailRequest(q).got = q.got
      /\ FailRequest(q).keys = q.keys /\ FailRequest(q).asked = q.asked
  BY DEF RequestSound, SearchRecord, FailRequest
<1>5. q.chan = "none" => RequestSound(s, NewSearchChannel(q), V)
  BY <1>1, <1>3 DEF RequestSound, RequestPlaced, LogTellsState
<1>6. RequestSound(s, FailRequest(q), V)
  BY <1>2, <1>4 DEF RequestSound, RequestPlaced, LogTellsState
<1> QED BY <1>5, <1>6

\* A new request is refused, waits, or has its channel.
LEMMA CreateSearchKeeps ==
  ASSUME SearchInv, NEW s \in Searches, CreateSearch(s)
  PROVE  SearchInv'
<1> DEFINE q == [sch[s] EXCEPT !.req = "pending"]
<1>1. /\ sch[s].req = "none" /\ sch[s].chan = "none" /\ sch[s].query # "form" /\ s \notin Waiting
      /\ RequestSound(s, sch[s], Waiting)
  BY DEF CreateSearch, SearchInv, RequestSound, RequestPlaced
<1>2. /\ q \in SearchRecord /\ q.req = "pending" /\ q.chan = "none" /\ q.query = sch[s].query
      /\ q.state = sch[s].state /\ q.log = sch[s].log /\ q.got = sch[s].got
      /\ q.keys = sch[s].keys /\ q.asked = sch[s].asked
  BY <1>1 DEF RequestSound, SearchRecord
<1> HIDE DEF q
<1>3. \A W : s \in W => RequestSound(s, q, W)
  BY <1>1, <1>2 DEF RequestSound, RequestPlaced, LogTellsState
<1>4. RequestSound(s, NewSearchChannel(q), Waiting) /\ RequestSound(s, FailRequest(q), Waiting)
  <2>1. RequestSound(s, q, {s})
    BY <1>3
  <2> QED BY <1>1, <1>2, <2>1, OpenedOrRefused
<1>5. \/ sch' = [sch EXCEPT ![s] = FailRequest(q)] /\ UNCHANGED <<searchScene, dir>>
      \/ sch' = [sch EXCEPT ![s] = NewSearchChannel(q)] /\ UNCHANGED <<searchScene, dir>>
      \/ /\ sch' = [sch EXCEPT ![s] = q] /\ dir' = [dir EXCEPT !.waiting = Append(dir.waiting, s)]
         /\ ~dir.done /\ UNCHANGED searchScene
  BY DEF CreateSearch, q, SearchInv, DirectoryRecord
<1>6. CASE sch' = [sch EXCEPT ![s] = FailRequest(q)] /\ UNCHANGED <<searchScene, dir>>
  BY <1>4, <1>6, OneRequestMoves
<1>7. CASE sch' = [sch EXCEPT ![s] = NewSearchChannel(q)] /\ UNCHANGED <<searchScene, dir>>
  BY <1>4, <1>7, OneRequestMoves
<1>8. CASE /\ sch' = [sch EXCEPT ![s] = q] /\ dir' = [dir EXCEPT !.waiting = Append(dir.waiting, s)]
           /\ ~dir.done /\ UNCHANGED searchScene
  <2> DEFINE f == [t \in Searches |-> IF t = s THEN q ELSE sch[t]]
  <2>1. dir.waiting \in Seq(Searches) /\ Append(dir.waiting, s) \in Seq(Searches)
    BY DEF SearchInv, DirectoryRecord
  <2>2. dir' \in DirectoryRecord /\ ~dir'.done /\ dir'.waiting = Append(dir.waiting, s)
    BY <1>8, <2>1 DEF SearchInv, DirectoryRecord
  <2>3. \A t : t \in Waiting' <=> t \in Waiting \/ t = s
    <3>1. Len(dir'.waiting) = Len(dir.waiting) + 1 /\ Len(dir.waiting) \in Nat
          /\ dir'.waiting[Len(dir.waiting) + 1] = s
          /\ \A i \in 1..Len(dir.waiting) : dir'.waiting[i] = dir.waiting[i]
      BY <2>1, <2>2
    <3>2. 1..Len(dir'.waiting) = 1..Len(dir.waiting) \cup {Len(dir.waiting) + 1}
      BY <3>1
    <3> QED BY <3>1, <3>2 DEF Waiting
  <2>4. sch' = [t \in Searches |-> f[t]]
    BY <1>8 DEF SearchInv
  <2>5. ASSUME NEW t \in Searches PROVE RequestSound(t, f[t], Waiting')
    <3>1. CASE t = s
      BY <3>1, <2>3, <1>3
    <3>2. CASE t # s
      <4>1. RequestSound(t, sch[t], Waiting)
        BY DEF SearchInv
      <4> QED BY <3>2, <4>1, <2>3 DEF RequestSound, RequestPlaced
    <3> QED BY <3>1, <3>2
  <2> HIDE DEF f
  <2> QED BY <1>8, <2>2, <2>4, <2>5, EveryRequestSound
<1> QED BY <1>5, <1>6, <1>7, <1>8

\* The directory is known; nobody is served before the discovery is over.
LEMMA DirectoryFoundKeeps ==
  ASSUME SearchInv, DirectoryFound
  PROVE  SearchInv'
<1>1. dir' \in DirectoryRecord /\ dir'.done = dir.done /\ dir'.waiting = dir.waiting
  BY DEF DirectoryFound, SearchInv, DirectoryRecord
<1>2. Waiting' = Waiting
  BY <1>1 DEF Waiting
<1>3. UNCHANGED searchScene /\ sch' = [t \in Searches |-> sch[t]]
  BY DEF DirectoryFound, SearchInv
<1>4. \A t \in Searches : RequestSound(t, sch[t], Waiting')
  BY <1>2 DEF SearchInv
<1>5. dir'.done => dir'.waiting = <<>>
  BY <1>1 DEF SearchInv
<1> QED BY <1>1, <1>3, <1>4, <1>5, EveryRequestSound

\* Everyone who waited is served at once, and nobody waits any more.
LEMMA DiscoveryDoneKeeps ==
  ASSUME SearchInv, DiscoveryDone
  PROVE  SearchInv'
<1> DEFINE f == [t \in Searches |-> IF t \in Waiting
                   THEN IF dir.jud # "none" THEN NewSearchChannel(sch[t]) ELSE FailRequest(sch[t]) ELSE sch[t]]
<1>1. dir' = [dir EXCEPT !.done = TRUE, !.waiting = <<>>] /\ UNCHANGED searchScene
  BY DEF DiscoveryDone
<1>2. dir' \in DirectoryRecord /\ dir'.waiting = <<>>
  <2>1. <<>> \in Seq(Searches)
    OBVIOUS
  <2>2. dir'.jud = dir.jud /\ dir'.done /\ dir'.waiting = <<>> /\ dir'.up = dir.up
    BY <1>1 DEF SearchInv, DirectoryRecord
  <2>3. dir \in DirectoryRecord
    BY DEF SearchInv
  <2> HIDE DEF f
  <2>4. dir' \in DirectoryRecord
    BY <1>1, <2>1, <2>3 DEF DirectoryRecord
  <2> QED BY <2>2, <2>4
<1>3. Waiting' = {}
  BY <1>2 DEF Waiting
<1>4. \A t : t \in Waiting <=> \E i \in 1..Len(dir.waiting) : dir.waiting[i] = t
  BY DEF Waiting
<1>5. sch' = [t \in Searches |-> f[t]]
  BY <1>4 DEF DiscoveryDone, ServeWaiting
<1>6. ASSUME NEW t \in Searches PROVE RequestSound(t, f[t], Waiting')
  <2>1. RequestSound(t, sch[t], Waiting)
    BY DEF SearchInv
  <2>2. t \in Waiting => sch[t].req = "pending" /\ sch[t].chan = "none"
    BY <2>1 DEF RequestSound, RequestPlaced
  <2>3. CASE t \in Waiting
    BY <1>3, <2>1, <2>2, <2>3, OpenedOrRefused
  <2>4. CASE t \notin Waiting
    BY <1>3, <2>1, <2>4 DEF RequestSound, RequestPlaced
  <2> QED BY <2>3, <2>4
<1> HIDE DEF f
<1> QED BY <1>1, <1>2, <1>5, <1>6, EveryRequestSound

\* The form opens the channel, or fails the request.
LEMMA FormArrivesKeeps ==
  ASSUME SearchInv, NEW s \in Searches, FormArrives(s)
  PROVE  SearchInv'
<1> DEFINE keys == SearchKeys(searchScene.form)
           q == [sch[s] EXCEPT !.req = "opened", !.chan = "ready", !.query = "none", !.keys = keys]
<1>1. /\ RequestSound(s, sch[s], Waiting) /\ s \notin Waiting /\ sch[s].req = "pending"
      /\ searchScene \in SearchScenes
  BY DEF FormArrives, SearchInv, RequestSound, RequestPlaced
<1>2. \/ sch' = [sch EXCEPT ![s] = FailRequest(sch[s])]
      \/ keys # Broken /\ sch' = [sch EXCEPT ![s] = q]
  BY <1>1 DEF FormArrives
<1>3. UNCHANGED <<searchScene, dir>>
  BY DEF FormArrives
<1>4. RequestSound(s, FailRequest(sch[s]), Waiting)
  BY <1>1, OpenedOrRefused
<1>5. ASSUME keys # Broken PROVE RequestSound(s, q, Waiting)
  <2>1. KeysFromForm(keys) /\ keys \in SUBSET (SearchKeyNames \X FormFields)
    BY <1>1, <1>5, KeysOfTheForm
  <2> HIDE DEF keys
  <2>2. /\ q \in SearchRecord /\ q.req = "opened" /\ q.chan = "ready" /\ q.query = "none"
        /\ q.state = sch[s].state /\ q.log = sch[s].log /\ q.got = sch[s].got
        /\ q.keys = keys /\ q.asked = sch[s].asked
    BY <1>1, <2>1 DEF RequestSound, SearchRecord
  <2> QED BY <1>1, <2>1, <2>2 DEF RequestSound, RequestPlaced, LogTellsState
<1> HIDE DEF keys, q
<1>6. CASE sch' = [sch EXCEPT ![s] = FailRequest(sch[s])]
  BY <1>3, <1>4, <1>6, OneRequestMoves
<1>7. CASE keys # Broken /\ sch' = [sch EXCEPT ![s] = q]
  BY <1>3, <1>5, <1>7, OneRequestMoves
<1> QED BY <1>2, <1>6, <1>7

\* Within an open channel a step changes the search and not the request: what is to
\* be shown of it (do_search, search_reply_cb, gabble_search_channel_stop).
LEMMA SearchMoves ==
  ASSUME SearchInv, NEW s \in Searches, NEW q \in SearchRecord,
         sch[s].chan = "ready", q.req = sch[s].req, q.chan = "ready", q.query # "form", q.keys = sch[s].keys,
         LogTellsState(q), TermsAndBoxes(q.asked),
         UNCHANGED <<searchScene, dir>>, sch' = [sch EXCEPT ![s] = q]
  PROVE  SearchInv'
<1>1. RequestSound(s, sch[s], Waiting)
  BY DEF SearchInv
<1>2. RequestSound(s, q, Waiting)
  BY <1>1 DEF RequestSound, RequestPlaced
<1> QED BY <1>2, OneRequestMoves

\* A search starts only from NOT_STARTED, with fields of the form.
LEMMA StartSearchKeeps ==
  ASSUME SearchInv, NEW s \in Searches, StartSearch(s)
  PROVE  SearchInv'
<1>1. PICK terms : /\ sch[s].chan = "ready" /\ DoSearch(sch[s], terms) # sch[s] /\ UNCHANGED <<searchScene, dir>>
                   /\ sch' = [sch EXCEPT ![s] = DoSearch(sch[s], terms)]
  BY DEF StartSearch, SearchInv
<1> DEFINE asked == FieldsOf(sch[s], terms)
           log == Append(sch[s].log, "IN_PROGRESS")
           q == [[sch[s] EXCEPT !.state = "IN_PROGRESS", !.log = log] EXCEPT !.query = "search", !.asked = asked]
<1>2. sch[s].state = "NOT_STARTED" /\ DoSearch(sch[s], terms) = q /\ ValidTerms(sch[s], terms)
  BY <1>1 DEF DoSearch, ChangeState
<1>3. sch[s] \in SearchRecord /\ LogTellsState(sch[s]) /\ KeysFromForm(sch[s].keys)
  BY DEF SearchInv, RequestSound
<1>4. asked \subseteq FormFields /\ TermsAndBoxes(asked)
  BY <1>2, <1>3, FieldsOfKeys
<1>5. log = <<"IN_PROGRESS">> /\ Len(sch[s].got) = 0
  BY <1>2, <1>3 DEF LogTellsState, LogOf
<1> HIDE DEF asked, log
<1>6. log \in Seq({"IN_PROGRESS", "COMPLETED", "FAILED"})
  BY <1>5
<1>7. /\ q \in SearchRecord /\ q.req = sch[s].req /\ q.chan = sch[s].chan /\ q.query = "search"
      /\ q.state = "IN_PROGRESS" /\ q.log = log /\ q.got = sch[s].got
      /\ q.keys = sch[s].keys /\ q.asked = asked
  BY <1>3, <1>4, <1>6 DEF SearchRecord
<1> HIDE DEF q
<1>8. LogTellsState(q)
  BY <1>5, <1>7 DEF LogTellsState, LogOf
<1> QED BY <1>1, <1>2, <1>4, <1>7, <1>8, SearchMoves

\* Two entries make the log of a search that is over.
LEMMA AppendToOne ==
  ASSUME NEW S, NEW a \in S, NEW b \in S
  PROVE  Append(<<a>>, b) = <<a, b>>
<1>1. \A i \in 1..2 : Append(<<a>>, b)[i] = <<a, b>>[i]
  OBVIOUS
<1>2. Append(<<a>>, b) = [i \in 1..2 |-> Append(<<a>>, b)[i]] /\ <<a, b>> = [i \in 1..2 |-> <<a, b>>[i]]
  OBVIOUS
<1> QED BY <1>1, <1>2

\* A search in progress that ends, with its results when it completed, has a log that
\* says so (change_search_state, emit_search_result).
LEMMA EndedSearch ==
  ASSUME NEW q \in SearchRecord, LogTellsState(q), q.state = "IN_PROGRESS"
  PROVE  /\ ChangeState(q, "FAILED") \in SearchRecord /\ LogTellsState(ChangeState(q, "FAILED"))
         /\ TakeReply(q, TRUE) \in SearchRecord /\ LogTellsState(TakeReply(q, TRUE))
         /\ TakeReply(q, FALSE) = ChangeState(q, "FAILED")
         /\ \A r \in {ChangeState(q, "FAILED"), TakeReply(q, TRUE)} :
              r.req = q.req /\ r.chan = q.chan /\ r.query = q.query /\ r.keys = q.keys /\ r.asked = q.asked
<1> DEFINE got == Append(q.got, Gathered(searchScene.items))
           failed == Append(q.log, "FAILED")
           completed == Append(q.log, "COMPLETED")
<1>1. failed = <<"IN_PROGRESS", "FAILED">> /\ completed = <<"IN_PROGRESS", "COMPLETED">>
  <2>1. q.log = <<"IN_PROGRESS">>
    BY DEF LogTellsState, LogOf
  <2> DEFINE S == {"IN_PROGRESS", "COMPLETED", "FAILED"}
  <2>2. "IN_PROGRESS" \in S /\ "COMPLETED" \in S /\ "FAILED" \in S
    OBVIOUS
  <2> HIDE DEF S
  <2>3. \A x \in S : Append(<<"IN_PROGRESS">>, x) = <<"IN_PROGRESS", x>>
    BY <2>2, AppendToOne
  <2> QED BY <2>1, <2>2, <2>3
<1>2. failed \in Seq({"IN_PROGRESS", "COMPLETED", "FAILED"}) /\ completed \in Seq({"IN_PROGRESS", "COMPLETED", "FAILED"})
  BY DEF SearchRecord
<1>3. got \in Seq({Gathered(searchScene.items)}) /\ Len(got) = 1 /\ Len(q.got) = 0
  BY DEF LogTellsState, SearchRecord
<1> DEFINE f == [q EXCEPT !.state = "FAILED", !.log = failed]
           c == [[q EXCEPT !.state = "COMPLETED", !.log = completed] EXCEPT !.got = got]
<1>4. ChangeState(q, "FAILED") = f /\ TakeReply(q, TRUE) = c /\ TakeReply(q, FALSE) = f
  <2>1. [q EXCEPT !.state = "COMPLETED", !.log = completed].got = q.got
    BY DEF SearchRecord
  <2> QED BY <2>1 DEF TakeReply, ChangeState
<1> HIDE DEF got, failed, completed
<1>5. f \in SearchRecord /\ f.state = "FAILED" /\ f.log = failed /\ f.got = q.got
      /\ f.req = q.req /\ f.chan = q.chan /\ f.query = q.query /\ f.keys = q.keys /\ f.asked = q.asked
  BY <1>2 DEF SearchRecord
<1>6. c \in SearchRecord /\ c.state = "COMPLETED" /\ c.log = completed /\ c.got = got
      /\ c.req = q.req /\ c.chan = q.chan /\ c.query = q.query /\ c.keys = q.keys /\ c.asked = q.asked
  BY <1>2, <1>3 DEF SearchRecord
<1> HIDE DEF f, c
<1>7. LogTellsState(f)
  BY <1>1, <1>3, <1>5 DEF LogTellsState, LogOf
<1>8. LogTellsState(c)
  BY <1>1, <1>3, <1>6 DEF LogTellsState, LogOf
<1> QED BY <1>4, <1>5, <1>6, <1>7, <1>8

\* The reply ends a search in progress; after Stop it changes nothing.
LEMMA SearchReplyKeeps ==
  ASSUME SearchInv, NEW s \in Searches, SearchReply(s)
  PROVE  SearchInv'
<1>1. PICK ok \in {TRUE, ~searchScene.errors} :
        /\ sch[s].chan = "ready" /\ sch[s].query = "search" /\ UNCHANGED <<searchScene, dir>>
        /\ sch' = [sch EXCEPT ![s] = [TakeReply(sch[s], ok) EXCEPT !.query = "none"]]
  BY DEF SearchReply, SearchInv
<1> DEFINE r == TakeReply(sch[s], ok)
           q == [r EXCEPT !.query = "none"]
<1>2. /\ sch[s] \in SearchRecord /\ LogTellsState(sch[s])
      /\ TermsAndBoxes(sch[s].asked)
  BY DEF SearchInv, RequestSound
<1>3. /\ r \in SearchRecord /\ LogTellsState(r)
      /\ r.req = sch[s].req /\ r.chan = sch[s].chan /\ r.keys = sch[s].keys /\ r.asked = sch[s].asked
  <2>1. CASE sch[s].state # "IN_PROGRESS"
    BY <1>2, <2>1 DEF TakeReply
  <2>2. CASE sch[s].state = "IN_PROGRESS"
    <3>1. r = TakeReply(sch[s], TRUE) \/ r = TakeReply(sch[s], FALSE)
      BY DEF TakeReply
    <3>2. r = TakeReply(sch[s], TRUE) \/ r = ChangeState(sch[s], "FAILED")
      BY <1>2, <2>2, <3>1, EndedSearch
    <3> HIDE DEF r
    <3>3. r \in {ChangeState(sch[s], "FAILED"), TakeReply(sch[s], TRUE)}
      BY <3>2
    <3>4. /\ r.req = sch[s].req /\ r.chan = sch[s].chan /\ r.keys = sch[s].keys /\ r.asked = sch[s].asked
      BY <1>2, <2>2, <3>3, EndedSearch
    <3>5. r \in SearchRecord /\ LogTellsState(r)
      BY <1>2, <2>2, <3>2, EndedSearch
    <3> QED BY <3>4, <3>5
  <2> QED BY <2>1, <2>2
<1> HIDE DEF r
<1>4. /\ q \in SearchRecord /\ q.req = r.req /\ q.chan = r.chan /\ q.query = "none"
      /\ q.state = r.state /\ q.log = r.log /\ q.got = r.got /\ q.keys = r.keys /\ q.asked = r.asked
  BY <1>3 DEF SearchRecord
<1>5. sch' = [sch EXCEPT ![s] = q]
  BY <1>1 DEF r
<1> HIDE DEF q
<1>6. LogTellsState(q)
  BY <1>3, <1>4 DEF LogTellsState
<1> QED BY <1>1, <1>2, <1>3, <1>4, <1>5, <1>6, SearchMoves

\* Stop ends a search in progress; its reply is still to come.
LEMMA StopSearchKeeps ==
  ASSUME SearchInv, NEW s \in Searches, StopSearch(s)
  PROVE  SearchInv'
<1> DEFINE q == ChangeState(sch[s], "FAILED")
<1>1. /\ sch[s].chan = "ready" /\ sch[s].state = "IN_PROGRESS" /\ UNCHANGED <<searchScene, dir>>
      /\ sch' = [sch EXCEPT ![s] = q]
  BY DEF StopSearch, SearchInv
<1>2. /\ sch[s] \in SearchRecord /\ LogTellsState(sch[s]) /\ sch[s].query # "form"
      /\ TermsAndBoxes(sch[s].asked)
  BY <1>1 DEF SearchInv, RequestSound, RequestPlaced
<1>3. /\ q \in SearchRecord /\ LogTellsState(q) /\ q.req = sch[s].req /\ q.chan = sch[s].chan
      /\ q.query = sch[s].query /\ q.keys = sch[s].keys /\ q.asked = sch[s].asked
  BY <1>1, <1>2, EndedSearch
<1> HIDE DEF q
<1> QED BY <1>1, <1>2, <1>3, SearchMoves

\* A channel that goes, by itself or with the connection, takes its query along.
LEMMA ClosedRequest ==
  ASSUME NEW s, NEW q, NEW W, RequestSound(s, q, W), NEW V, s \notin V, NEW r \in SearchRecord,
         r.query = "none", r.chan \in {"none", "closed"}, r.chan = "none" <=> q.chan = "none",
         r.req = IF q.req = "pending" THEN "failed" ELSE q.req,
         r.state = q.state, r.log = q.log, r.got = q.got, r.keys = q.keys, r.asked = q.asked
  PROVE  RequestSound(s, r, V)
BY DEF RequestSound, RequestPlaced, LogTellsState

\* Closing drops the channel and its query, the request was answered.
LEMMA CloseSearchKeeps ==
  ASSUME SearchInv, NEW s \in Searches, CloseSearch(s)
  PROVE  SearchInv'
<1> DEFINE q == [sch[s] EXCEPT !.chan = "closed", !.query = "none"]
<1>1. /\ RequestSound(s, sch[s], Waiting) /\ s \notin Waiting /\ sch[s].chan = "ready" /\ sch[s].req = "opened"
      /\ sch[s] \in SearchRecord
  BY DEF CloseSearch, SearchInv, RequestSound, RequestPlaced
<1>2. sch' = [sch EXCEPT ![s] = q] /\ UNCHANGED <<searchScene, dir>>
  BY DEF CloseSearch, SearchInv
<1>3. /\ q \in SearchRecord /\ q.req = sch[s].req /\ q.chan = "closed" /\ q.query = "none"
      /\ q.state = sch[s].state /\ q.log = sch[s].log /\ q.got = sch[s].got
      /\ q.keys = sch[s].keys /\ q.asked = sch[s].asked
  BY <1>1 DEF SearchRecord
<1> HIDE DEF q
<1>4. RequestSound(s, q, Waiting)
  BY <1>1, <1>3, ClosedRequest
<1> QED BY <1>2, <1>4, OneRequestMoves

\* Disconnecting closes every channel and fails what was pending.
LEMMA SearchDisconnectedKeeps ==
  ASSUME SearchInv, SearchDisconnected
  PROVE  SearchInv'
<1> DEFINE r(t) == [sch[t] EXCEPT !.query = "none", !.chan = IF sch[t].chan = "none" THEN sch[t].chan ELSE "closed",
                                  !.req = IF sch[t].req = "pending" THEN "failed" ELSE sch[t].req]
           f == [t \in Searches |-> r(t)]
<1>1. dir' = [dir EXCEPT !.up = FALSE, !.waiting = <<>>] /\ UNCHANGED searchScene /\ sch' = f
  BY DEF SearchDisconnected
<1>2. dir' \in DirectoryRecord /\ dir'.waiting = <<>>
  <2>1. <<>> \in Seq(Searches) /\ dir \in DirectoryRecord
    BY DEF SearchInv
  <2>2. dir'.waiting = <<>>
    BY <1>1, <2>1 DEF DirectoryRecord
  <2>3. dir' \in DirectoryRecord
    BY <1>1, <2>1 DEF DirectoryRecord
  <2> QED BY <2>2, <2>3
<1>3. Waiting' = {}
  BY <1>2 DEF Waiting
<1>4. ASSUME NEW t \in Searches PROVE RequestSound(t, r(t), Waiting')
  <2>1. RequestSound(t, sch[t], Waiting) /\ sch[t] \in SearchRecord
    BY DEF SearchInv, RequestSound
  <2> DEFINE q == sch[t]
             x == r(t)
  <2> HIDE DEF q
  <2>2. /\ x \in SearchRecord /\ x.query = "none" /\ x.chan = IF q.chan = "none" THEN "none" ELSE "closed"
        /\ x.req = IF q.req = "pending" THEN "failed" ELSE q.req
        /\ x.state = q.state /\ x.log = q.log /\ x.got = q.got /\ x.keys = q.keys /\ x.asked = q.asked
    BY <2>1 DEF SearchRecord, q
  <2> HIDE DEF x
  <2>3. RequestSound(t, x, Waiting')
    BY <1>3, <2>1, <2>2, ClosedRequest DEF q
  <2> QED BY <2>3 DEF x
<1>5. \A t \in Searches : f[t] = r(t)
  OBVIOUS
<1>6. sch' = [t \in Searches |-> f[t]]
  BY <1>1
<1> HIDE DEF f, r
<1>7. \A t \in Searches : RequestSound(t, f[t], Waiting')
  BY <1>4, <1>5
<1> QED BY <1>1, <1>2, <1>6, <1>7, EveryRequestSound

-----------------------------------------------------------------------------
\* Every step of the manager and of its channels keeps the invariant.
LEMMA SearchStepKeeps ==
  ASSUME SearchInv, [SearchNext]_searchVars
  PROVE  SearchInv'
<1>1. CASE UNCHANGED searchVars
  <2>1. UNCHANGED searchScene /\ UNCHANGED dir /\ UNCHANGED sch
    BY <1>1 DEF searchVars
  <2>2. Waiting' = Waiting
    BY <2>1 DEF Waiting
  <2>3. sch' = [t \in Searches |-> sch[t]] /\ \A t \in Searches : RequestSound(t, sch[t], Waiting')
    BY <2>1, <2>2 DEF SearchInv
  <2>4. dir' \in DirectoryRecord /\ (dir'.done => dir'.waiting = <<>>)
    BY <2>1 DEF SearchInv
  <2> QED BY <2>1, <2>3, <2>4, EveryRequestSound
<1>2. CASE DirectoryFound
  BY <1>2, DirectoryFoundKeeps
<1>3. CASE DiscoveryDone
  BY <1>3, DiscoveryDoneKeeps
<1>4. CASE SearchDisconnected
  BY <1>4, SearchDisconnectedKeeps
<1>5. ASSUME NEW s \in Searches, CreateSearch(s) PROVE SearchInv'
  BY <1>5, CreateSearchKeeps
<1>6. ASSUME NEW s \in Searches, FormArrives(s) PROVE SearchInv'
  BY <1>6, FormArrivesKeeps
<1>7. ASSUME NEW s \in Searches, StartSearch(s) PROVE SearchInv'
  BY <1>7, StartSearchKeeps
<1>8. ASSUME NEW s \in Searches, SearchReply(s) PROVE SearchInv'
  BY <1>8, SearchReplyKeeps
<1>9. ASSUME NEW s \in Searches, StopSearch(s) PROVE SearchInv'
  BY <1>9, StopSearchKeeps
<1>10. ASSUME NEW s \in Searches, CloseSearch(s) PROVE SearchInv'
  BY <1>10, CloseSearchKeeps
<1> QED BY <1>1, <1>2, <1>3, <1>4, <1>5, <1>6, <1>7, <1>8, <1>9, <1>10 DEF SearchNext

\* At first nobody has asked and nobody waits.
LEMMA SearchInvInitially ==
  SearchInit => SearchInv
<1> SUFFICES ASSUME SearchInit PROVE SearchInv
  OBVIOUS
<1>1. dir \in DirectoryRecord /\ dir.waiting = <<>>
  BY DEF SearchInit, DirectoryRecord
<1>2. Waiting = {}
  BY <1>1 DEF Waiting
<1>3. NoSearch \in SearchRecord
  BY DEF NoSearch, SearchRecord
<1>4. KeysFromForm({})
  BY DEF KeysFromForm, OnePerKey
<1>5. \A s : RequestSound(s, NoSearch, {})
  BY <1>3, <1>4 DEF RequestSound, RequestPlaced, LogTellsState, LogOf, NoSearch, OnePerKey, TermsAndBoxes
<1>6. sch = [s \in Searches |-> sch[s]] /\ \A s \in Searches : sch[s] = NoSearch
  BY DEF SearchInit
<1> QED BY <1>1, <1>2, <1>5, <1>6 DEF SearchInv, SearchInit

\* The invariant says what is promised of a search.
LEMMA SearchInvImplies ==
  SearchInv => SearchesSound
<1> SUFFICES ASSUME SearchInv PROVE SearchesSound
  OBVIOUS
<1>1. ASSUME NEW s \in Searches PROVE RequestSound(s, sch[s], Waiting)
  BY DEF SearchInv
<1>2. SearchRequestsAnswered
  <2> SUFFICES ASSUME NEW s \in Searches
               PROVE  sch[s].req = "pending" <=> \/ ~dir.done /\ \E i \in 1..Len(dir.waiting) : dir.waiting[i] = s
                                                 \/ sch[s].chan = "asking" /\ sch[s].query = "form"
    BY DEF SearchRequestsAnswered
  <2>1. s \in Waiting <=> \E i \in 1..Len(dir.waiting) : dir.waiting[i] = s
    BY DEF Waiting
  <2>2. dir.done => s \notin Waiting
    BY DEF SearchInv, Waiting
  <2> QED BY <1>1, <2>1, <2>2 DEF RequestSound, RequestPlaced
<1>3. SearchEndsOnce
  <2> SUFFICES ASSUME NEW s \in Searches
               PROVE  /\ sch[s].log \in {<<>>, <<"IN_PROGRESS">>, <<"IN_PROGRESS", "COMPLETED">>, <<"IN_PROGRESS", "FAILED">>}
                      /\ Len(sch[s].got) = Cardinality({i \in 1..Len(sch[s].log) : sch[s].log[i] = "COMPLETED"})
    BY DEF SearchEndsOnce
  <2> DEFINE Ends(log) == {i \in 1..Len(log) : log[i] = "COMPLETED"}
  <2>1. sch[s].log = LogOf(sch[s].state) /\ Len(sch[s].got) = (IF sch[s].state = "COMPLETED" THEN 1 ELSE 0)
        /\ sch[s].state \in {"NOT_STARTED", "IN_PROGRESS", "COMPLETED", "FAILED"}
    BY <1>1 DEF RequestSound, LogTellsState, SearchRecord
  <2>2. CASE sch[s].state = "COMPLETED"
    <3>1. sch[s].log = <<"IN_PROGRESS", "COMPLETED">>
      BY <2>1, <2>2 DEF LogOf
    <3>2. Ends(sch[s].log) = {2}
      BY <3>1
    <3> HIDE DEF Ends
    <3>3. Cardinality(Ends(sch[s].log)) = 1
      BY <3>2, FS_Singleton
    <3> QED BY <2>1, <2>2, <3>1, <3>3 DEF Ends
  <2>3. CASE sch[s].state # "COMPLETED"
    <3>1. sch[s].log \in {<<>>, <<"IN_PROGRESS">>, <<"IN_PROGRESS", "FAILED">>}
      BY <2>1, <2>3 DEF LogOf
    <3>2. Ends(sch[s].log) = {}
      <4>1. CASE sch[s].log = <<>>
        BY <4>1
      <4>2. CASE sch[s].log = <<"IN_PROGRESS">>
        BY <4>2
      <4>3. CASE sch[s].log = <<"IN_PROGRESS", "FAILED">>
        BY <4>3
      <4> QED BY <3>1, <4>1, <4>2, <4>3
    <3> HIDE DEF Ends
    <3>3. Cardinality(Ends(sch[s].log)) = 0
      BY <3>2, FS_EmptySet
    <3> QED BY <2>1, <2>3, <3>1, <3>3 DEF Ends
  <2> QED BY <2>2, <2>3
<1>4. TermsSentOnce
  BY <1>1 DEF TermsSentOnce, RequestSound, SearchRecord, FormFields, OnePerKey, TermsAndBoxes, Boxes
<1> QED BY <1>2, <1>3, <1>4 DEF SearchesSound

\* The inductive invariant holds throughout: a request is told by its channel and its
\* place among the waiting, a search by its log.
THEOREM SearchesStayPlaced == SearchSpec => []SearchInv
<1>1. SearchInv /\ [SearchNext]_searchVars => SearchInv'
  BY SearchStepKeeps
<1> QED BY <1>1, SearchInvInitially, PTL DEF SearchSpec

\* For any number of requests, any directory, form and results: a request is answered
\* or waits for something that is still to come, a search runs and ends once, with
\* results when it completed, and a term goes out as one field of the form,
\* with all of its boxes ticked if it is the search box and with none otherwise
\* (search-manager.c:130, 390; search-channel.c:319, 460, 767, 853, 874, 909).
THEOREM SearchesStaySound == SearchSpec => []SearchesSound
BY SearchesStayPlaced, SearchInvImplies, PTL
=============================================================================
