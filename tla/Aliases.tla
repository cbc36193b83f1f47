------------------------------ MODULE Aliases ------------------------------
(* Aliases of contacts (conn-aliasing.c): where an alias may come from and which  *)
(* source wins, calls that wait for PEP and then for a vCard, nicknames that       *)
(* arrive meanwhile, and names written to the contact list.                         *)
EXTENDS Naturals, Sequences, FiniteSets

CONSTANTS AliasScenes, Pals, Calls   \* "me" may be one of Pals; a call of RequestAliases

VARIABLES
  aliasScene, \* what the server offers, the names taken, whom things happen to, what is asked
  al,         \* the caches: PEP, presence and vCard nicknames, names of the contact list;
              \* histories: what clients know, nicknames that crossed an edit or went silently
  ask,        \* per call of RequestAliases: AliasesRequest and its answer
  wait,       \* PEP and vCard requests on their way
  edits,      \* per contact: the roster edit in flight and the one queued behind it
  palsLeft    \* nicknames that others may still take

aliasVars == <<aliasScene, al, ask, wait, edits, palsLeft>>

\* GabbleConnectionAliasSource
Rank(source) ==
  CASE source = "NONE" -> 0 [] source = "JID" -> 1 [] source = "VCARD" -> 2 [] source = "MUC_RESOURCE" -> 3
    [] source = "CONNMGR" -> 4 [] source = "PRESENCE" -> 5 [] source = "ROSTER" -> 6

NoName == {"unknown", "none", "absent", "jid"}
Named(x) == x \notin NoName

\* get_cached_remote_alias
RemoteAlias(a, c) ==
  CASE Named(a.pep[c]) -> [source |-> "PRESENCE", alias |-> a.pep[c]]
    [] ~Named(a.pep[c]) /\ Named(a.pres[c]) -> [source |-> "PRESENCE", alias |-> a.pres[c]]
    [] ~Named(a.pep[c]) /\ ~Named(a.pres[c]) /\ c = "me" /\ aliasScene.cmAlias -> [source |-> "CONNMGR", alias |-> "cm"]
    [] ~Named(a.pep[c]) /\ ~Named(a.pres[c]) /\ ~(c = "me" /\ aliasScene.cmAlias) /\ c \in aliasScene.roomPals ->
         [source |-> "MUC_RESOURCE", alias |-> "nick in room"]
    [] OTHER -> IF Named(a.vcard[c]) THEN [source |-> "VCARD", alias |-> a.vcard[c]] ELSE [source |-> "NONE", alias |-> "jid"]

\* _gabble_connection_get_cached_alias: a name that is the JID is as good as none.
CachedRosterLast(a, c) ==
  LET remote == RemoteAlias(a, c)
  IN IF remote.source # "NONE" THEN remote
     ELSE IF Named(a.roster[c]) THEN [source |-> "ROSTER", alias |-> a.roster[c]]
     ELSE [source |-> IF a.roster[c] = "jid" THEN "ROSTER" ELSE "JID", alias |-> "jid"]
Cached(a, c) ==
  LET remote == RemoteAlias(a, c)
  IN IF Named(a.roster[c]) THEN [source |-> "ROSTER", alias |-> a.roster[c]]
     ELSE IF remote.source # "NONE" THEN remote
     ELSE [source |-> IF a.roster[c] = "jid" THEN "ROSTER" ELSE "JID", alias |-> "jid"]

\* gabble_vcard_manager_has_cached_alias
VCardTried(a, c) == a.vcard[c] # "unknown"

Untold == [c \in Pals |-> "untold"]
AliasInit ==
  /\ aliasScene \in AliasScenes
  /\ al = [up |-> TRUE, pep |-> [c \in Pals |-> "unknown"], pres |-> [c \in Pals |-> "none"],
           vcard |-> [c \in Pals |-> "unknown"], roster |-> aliasScene.roster, told |-> Untold,
           user |-> [c \in Pals |-> "none"], crossed |-> {}, silenced |-> {}]
  /\ ask = [q \in Calls |-> [state |-> "idle", contacts |-> <<>>, got |-> <<>>, truth |-> <<>>]]
  /\ wait = [pep |-> {}, vcard |-> {}]
  /\ edits = [c \in Pals |-> <<>>]
  /\ palsLeft = aliasScene.changes

\* gabble_roster_handle_set_name, roster_item_apply_edits: one edit is in flight, and
\* the newest of the others waits behind it.
SetNameOldest(ee, c, name) == [ee EXCEPT ![c] = IF @ = <<>> THEN <<name>> ELSE @]
SetName(ee, c, name) ==
  [ee EXCEPT ![c] = IF @ = <<>> THEN <<name>> ELSE <<@[1], name>>]

-----------------------------------------------------------------------------
\* Histories: the alias of c changed with nobody told; the name of c on the contact list
\* is its JID, which counts as the list's.
Silenced(a, b, c) == IF Cached(b, c).alias = Cached(a, c).alias THEN b ELSE [b EXCEPT !.silenced = @ \cup {c}]
JidListed(a, c) == Cached(a, c) = [source |-> "ROSTER", alias |-> "jid"]

\* gabble_conn_aliasing_nicknames_updated: an alias that is not the one in use is not
\* told; one found for a contact of the list is kept there as its name.
ToldIfHigher(a, c, source) == Rank(source) > Rank(Cached(a, c).source)
ToldIfItWins(a, c, source) == Rank(source) >= Rank(Cached(a, c).source)
NicknamesUpdated(a, c, source) ==
  LET now == Cached(a, c)
  IN IF ~ToldIfItWins(a, c, source) THEN al' = (IF JidListed(a, c) THEN Silenced(al, a, c) ELSE a) /\ UNCHANGED edits
     ELSE /\ al' = [a EXCEPT !.told[c] = now.alias, !.silenced = @ \ {c},
                             !.crossed = IF edits[c] # <<>> /\ source # "ROSTER" THEN @ \cup {c} ELSE @]
          /\ edits' = IF source # "ROSTER" /\ a.roster[c] # "absent" THEN SetName(edits, c, now.alias) ELSE edits

\* what a position of an answer may say: every alias in use since the call
Witness == ask' = [q \in Calls |->
  IF ask[q].state = "waiting"
  THEN [ask[q] EXCEPT !.truth = [i \in 1..Len(ask[q].contacts) |-> @[i] \cup {Cached(al', ask[q].contacts[i]).alias}]]
  ELSE ask[q]]

\* _cache_negatively: nobody is told that the nickname went
CacheNegatively(a, c) == Silenced(a, [a EXCEPT !.pep[c] = "none"], c)

\* _grab_nickname: another nickname is told, and an empty one unless PEP was never
\* heard of; an item without a nickname is not.
GrabNickname(c, nick) ==
  \/ nick = "missing" /\ al' = CacheNegatively(al, c) /\ UNCHANGED edits
  \/ /\ nick = al.pep[c] \/ (nick = "empty" /\ al.pep[c] = "unknown")
     /\ UNCHANGED <<al, edits>>
  \/ nick = "empty" /\ al.pep[c] # "unknown" /\ NicknamesUpdated([al EXCEPT !.pep[c] = "none"], c, "PRESENCE")
  \/ nick \notin {"missing", "empty", al.pep[c]} /\ NicknamesUpdated([al EXCEPT !.pep[c] = nick], c, "PRESENCE")

\* what an item may hold
Items(c) == {"missing"} \cup IF aliasScene.published[c] THEN aliasScene.nicks \cup {"empty"} ELSE {}

\* pep_nick_node_changed
PepNickChanged(c) ==
  \E nick \in Items(c) :
    /\ al.up /\ aliasScene.pep /\ palsLeft > 0 /\ aliasScene.published[c]
    /\ GrabNickname(c, nick)
    /\ palsLeft' = palsLeft - 1
    /\ Witness
    /\ UNCHANGED <<aliasScene, wait>>

\* the presence cache heard a nickname in a presence or in a message
PresenceNickHeard(c) ==
  \E nick \in aliasScene.spoken :
    /\ al.up /\ c # "me" /\ palsLeft > 0 /\ al.pres[c] # nick
    /\ NicknamesUpdated([al EXCEPT !.pres[c] = nick], c, "PRESENCE")
    /\ palsLeft' = palsLeft - 1
    /\ Witness
    /\ UNCHANGED <<aliasScene, wait>>

\* the contact list pushed a name: our edit's, or one another client of ours gave
PushNamed(c, name, rest) ==
  /\ IF al.roster[c] = name THEN al' = al /\ edits' = [edits EXCEPT ![c] = rest]
     ELSE /\ al' = [al EXCEPT !.roster[c] = name, !.told[c] = Cached([al EXCEPT !.roster[c] = name], c).alias,
                             !.silenced = @ \ {c}]
          /\ edits' = [edits EXCEPT ![c] = rest]
  /\ Witness
  /\ UNCHANGED <<aliasScene, wait, palsLeft>>
EditPushed(c) == al.up /\ edits[c] # <<>> /\ PushNamed(c, edits[c][1], Tail(edits[c]))

-----------------------------------------------------------------------------
\* gabble_do_pep_request: the nickname of each is asked for on its own.
PepRequest(w, xs) == [w EXCEPT !.pep = @ \cup xs]
Ask(w, xs) == IF aliasScene.pep THEN PepRequest(w, xs) ELSE [w EXCEPT !.vcard = @ \cup xs]

\* maybe_request_vcard: contacts nobody knows a name of are looked up, first by PEP
\* where the server has it.
Lookup(w, c) ==
  IF ~(Rank(Cached(al, c).source) < Rank("VCARD") /\ al.up /\ ~VCardTried(al, c)) THEN w
  ELSE Ask(w, {[pal |-> c, call |-> "none", pos |-> 0]})

\* gabble_connection_get_aliases, conn_aliasing_fill_contact_attributes
GetAliases(c) ==
  /\ al.up
  /\ al' = [al EXCEPT !.told[c] = Cached(al, c).alias, !.silenced = @ \ {c}]
  /\ wait' = Lookup(wait, c)
  /\ UNCHANGED <<aliasScene, ask, edits, palsLeft>>

\* aliases_request_try_return
Return(r, w, q) ==
  IF r.state = "waiting" /\ ~\E x \in w.pep \cup w.vcard : x.call = q THEN [r EXCEPT !.state = "answered"] ELSE r

\* aliases_request_new
NewAliasesRequest(contacts, known) ==
  [state |-> "waiting", contacts |-> contacts,
   got |-> [i \in 1..Len(contacts) |-> IF i \in known THEN Cached(al, contacts[i]).alias ELSE "null"],
   truth |-> [i \in 1..Len(contacts) |-> {Cached(al, contacts[i]).alias}]]

\* gabble_connection_request_aliases
RequestAliases(q) ==
  \E contacts \in aliasScene.asks :
    LET known == {i \in 1..Len(contacts) : \/ Rank(Cached(al, contacts[i]).source) >= Rank("VCARD")
                                            \/ VCardTried(al, contacts[i])}
        asked == {[pal |-> contacts[i], call |-> q, pos |-> i] : i \in (1..Len(contacts)) \ known}
        w == Ask(wait, asked)
        r == NewAliasesRequest(contacts, known)
    IN /\ al.up /\ ask[q].state = "idle"
       /\ wait' = w
       /\ ask' = [ask EXCEPT ![q] = Return(r, w, q)]
       /\ UNCHANGED <<aliasScene, al, edits, palsLeft>>

\* aliases_request_pep_cb: a vCard is asked for when PEP knew no name.
AfterPepNoCard(a, x, w, qq) ==
  LET gone == [w EXCEPT !.pep = @ \ {x}]
  IN wait' = gone /\ ask' = IF x.call = "none" THEN qq ELSE [qq EXCEPT ![x.call] = Return(@, gone, x.call)]
AfterPep(a, x, w, qq) ==
  LET c == Cached(a, x.pal)
      gone == [w EXCEPT !.pep = @ \ {x}]
      enough == Rank(c.source) >= Rank("VCARD") \/ VCardTried(a, x.pal)
      more == IF enough \/ ~a.up THEN gone ELSE [gone EXCEPT !.vcard = @ \cup {x}]
  IN /\ wait' = more
     /\ ask' = IF x.call = "none" THEN qq
               ELSE [qq EXCEPT ![x.call] = Return([@ EXCEPT !.got[x.pos] = IF enough THEN c.alias ELSE @], more, x.call)]

\* aliases_request_cache_pep, gabble_conn_aliasing_pep_nick_reply_handler and, for a
\* look-up without a caller, aliases_request_basic_pep_cb.
Seen(qq) == [q \in Calls |-> IF qq[q].state = "waiting"
  THEN [qq[q] EXCEPT !.truth = [i \in 1..Len(qq[q].contacts) |-> @[i] \cup {Cached(al', qq[q].contacts[i]).alias}]] ELSE qq[q]]
PepReplied(x) ==
  /\ al.up /\ x \in wait.pep
  /\ \E nick \in Items(x.pal) : GrabNickname(x.pal, nick)
  /\ AfterPep(al', x, wait, Seen(ask))
  /\ UNCHANGED <<aliasScene, palsLeft>>
PepFailed(x) ==
  /\ x \in wait.pep
  /\ al' = CacheNegatively(al, x.pal)
  /\ AfterPep(al', x, wait, Seen(ask))
  /\ UNCHANGED <<aliasScene, edits, palsLeft>>

\* aliases_request_vcard_cb: one vCard answers all that wait for it.
VCardCallback(a, c, qq) ==
  LET done == {x \in wait.vcard : x.pal = c}
      w == [wait EXCEPT !.vcard = @ \ done]
  IN /\ wait' = w
     /\ ask' = [q \in Calls |->
          LET mine == {x \in done : x.call = q}
          IN IF mine = {} THEN qq[q]
             ELSE Return([qq[q] EXCEPT !.got = [i \in 1..Len(qq[q].contacts) |->
                            IF \E x \in mine : x.pos = i THEN Cached(a, c).alias ELSE @[i]]], w, q)]
\* observe_vcard and its signal come before the callbacks.
VCardReplied(c) ==
  \E nick \in aliasScene.nicks \cup {"none"} :
    /\ al.up /\ \E x \in wait.vcard : x.pal = c
    /\ IF (~Named(nick) /\ ~Named(al.vcard[c])) \/ al.vcard[c] = nick
       THEN al' = [al EXCEPT !.vcard[c] = nick] /\ UNCHANGED edits
       ELSE NicknamesUpdated([al EXCEPT !.vcard[c] = nick], c, "VCARD")
    /\ VCardCallback(al', c, Seen(ask))
    /\ UNCHANGED <<aliasScene, palsLeft>>
VCardFailed(c) ==
  /\ \E x \in wait.vcard : x.pal = c
  /\ VCardCallback(al, c, ask)
  /\ UNCHANGED <<aliasScene, al, edits, palsLeft>>

-----------------------------------------------------------------------------
\* set_one_alias: clearing our name for a contact brings back its own.
SetOneAlias(c, alias) ==
  LET name == IF alias # "none" THEN alias ELSE RemoteAlias(al, c).alias
      source == IF alias # "none" THEN "ROSTER" ELSE RemoteAlias(al, c).source
      listed == IF name = "jid" THEN "none" ELSE name   \* no name at all
  IN /\ edits' = IF c = "me" /\ al.roster[c] = "absent" THEN edits
                 ELSE SetName(edits, c, IF c = "me" THEN alias ELSE listed)
     /\ wait' = IF c # "me" /\ Rank(source) < Rank("VCARD") THEN Lookup(wait, c) ELSE wait

\* gabble_connection_set_aliases
SetAliases(c) ==
  \E alias \in {"chosen", "none"} :
    /\ al.up /\ al.user[c] # alias /\ Len(edits[c]) < 2
    /\ SetOneAlias(c, alias)
    /\ al' = [al EXCEPT !.user[c] = alias, !.crossed = @ \ {c}]
    /\ UNCHANGED <<aliasScene, ask, palsLeft>>

\* the connection goes: the pipeline and the vCard manager fail what waits
AliasDisconnected ==
  /\ al.up /\ aliasScene.disconnects
  /\ al' = [al EXCEPT !.up = FALSE]
  /\ UNCHANGED <<aliasScene, ask, wait, edits, palsLeft>>

AliasNext ==
  \/ \E c \in aliasScene.active :
       \/ PepNickChanged(c) \/ PresenceNickHeard(c) \/ EditPushed(c) \/ GetAliases(c)
       \/ VCardReplied(c) \/ VCardFailed(c) \/ SetAliases(c)
  \/ \E q \in Calls : RequestAliases(q)
  \/ \E x \in wait.pep : PepReplied(x) \/ PepFailed(x)
  \/ AliasDisconnected

-----------------------------------------------------------------------------
\* A client that listens to AliasesChanged knows the alias in use, or the one on its way
\* to the contact list, which then is, whatever source it came from and in whatever order the sources spoke (nicknames_updated), except where
\* a look-up that fails or finds no nickname takes a known one away (_cache_negatively),
\* or a nickname goes whose contact is listed by its JID (nicknames_updated).
AliasesAsTold ==
  al.up => \A c \in Pals \ al.silenced : 
    al.told[c] \in {"untold", Cached(al, c).alias} \cup {edits[c][i] : i \in 1..Len(edits[c])}

\* A call is answered once nothing it asked for is on its way, every position of the
\* answer is an alias that was in use between call and answer, and none is missing
\* while the connection lasts (aliases_request_pep_cb, aliases_request_vcard_cb).
AliasCallsAnswered ==
  \A q \in Calls :
    /\ ask[q].state = "waiting" <=> \E x \in wait.pep \cup wait.vcard : x.call = q
    /\ ask[q].state = "answered" =>
         \A i \in 1..Len(ask[q].contacts) : ask[q].got[i] \in ask[q].truth[i] \/ (~al.up /\ ask[q].got[i] = "null")

\* Nobody's nickname replaces the name the user gave, unless it arrived while that name
\* was on its way to the server (set_one_alias, nicknames_updated).
UserNameKept ==
  \A c \in Pals \ {"me"} : al.user[c] = "chosen" /\ edits[c] = <<>> /\ c \notin al.crossed => al.roster[c] = "chosen"

AliasesSound == AliasesAsTold /\ AliasCallsAnswered /\ UserNameKept
=============================================================================
