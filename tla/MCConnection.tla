--------------------------- MODULE MCConnection ---------------------------
(* The connection for TLC: in each behaviour either the life cycle of a       *)
(* GabbleConnection (Connection), one login (Login) or the vCard manager       *)
(* (VCardManager) moves, as `part' says; Connection has the connector as one   *)
(* operation, which Login looks into.                                          *)
EXTENDS Connection, VCardManager

CONSTANTS
    Names,      \* names of vCard nodes
    Values,     \* their contents
    MaxNodes,   \* bound: length of the vCard that is edited
    MaxList     \* bound: length of the edit list

VARIABLES part
VARIABLES con, sasl, tls, server, user, env

\* An account with a password and a server of today.
Usual ==
  [op |-> "connect", srv |-> FALSE, oldSsl |-> FALSE, tlsRequired |-> TRUE, insecureOk |-> FALSE,
   plainOk |-> TRUE, legacy |-> FALSE, password |-> TRUE, interactive |-> FALSE, ignore |-> FALSE,
   goodCert |-> TRUE, version |-> 1, offersTls |-> TRUE, mechs |-> {"SCRAM", "PLAIN"},
   jabberAuth |-> FALSE, bind |-> TRUE, session |-> TRUE,
   fields |-> {"JABBER-DIGEST", "JABBER-PASSWORD"}, saysRegistered |-> FALSE, moves |-> FALSE,
   breaks |-> TRUE, silent |-> FALSE, disconnects |-> TRUE, calls |-> 0]

\* The client authenticates, and judges the certificate.
Asking == [Usual EXCEPT !.password = FALSE, !.interactive = TRUE, !.calls = 4]

LoginWorlds ==
  {Usual, Asking,
   [Usual EXCEPT !.offersTls = FALSE],
   [Usual EXCEPT !.srv = TRUE, !.goodCert = FALSE, !.interactive = TRUE, !.calls = 3],
   [Usual EXCEPT !.oldSsl = TRUE, !.moves = TRUE, !.session = FALSE],
   [Usual EXCEPT !.tlsRequired = FALSE, !.offersTls = FALSE, !.mechs = {"PLAIN"}, !.srv = TRUE],
   [Usual EXCEPT !.tlsRequired = FALSE, !.offersTls = FALSE, !.mechs = {"PLAIN"}, !.insecureOk = TRUE,
                 !.bind = FALSE],
   [Usual EXCEPT !.tlsRequired = FALSE, !.mechs = {"PLAIN"}, !.op = "register", !.moves = TRUE],
   [Usual EXCEPT !.tlsRequired = FALSE, !.version = 0, !.legacy = TRUE],
   [Usual EXCEPT !.version = 0, !.oldSsl = TRUE, !.legacy = TRUE, !.fields = {"JABBER-PASSWORD"}],
   [Usual EXCEPT !.version = 0, !.oldSsl = TRUE, !.legacy = TRUE, !.fields = {}],
   [Usual EXCEPT !.mechs = {}, !.jabberAuth = TRUE, !.ignore = TRUE, !.goodCert = FALSE],
   [Usual EXCEPT !.op = "register", !.tlsRequired = FALSE, !.offersTls = FALSE],
   [Usual EXCEPT !.op = "register", !.saysRegistered = TRUE],
   [Usual EXCEPT !.op = "unregister", !.saysRegistered = TRUE],
   [Usual EXCEPT !.op = "unregister", !.session = FALSE],
   [Asking EXCEPT !.interactive = FALSE, !.moves = TRUE, !.breaks = FALSE],
   [Asking EXCEPT !.interactive = FALSE, !.mechs = {"SCRAM"}, !.calls = 6],
   [Asking EXCEPT !.silent = TRUE, !.breaks = FALSE],
   [Asking EXCEPT !.tlsRequired = FALSE, !.version = 0, !.legacy = TRUE, !.insecureOk = TRUE]}

L == INSTANCE Login WITH
  MAX_SEE_OTHER_HOST <- 2, MaxRounds <- 2, Environments <- LoginWorlds

loginVars == <<con, sasl, tls, server, user, env>>
\* An edit request appends a node of its own, or sets the alias that our vCard
\* may have already: then nothing changes.
AppendsAndAliases ==
    [e \in EditRequests |-> {<<AppendNode("TEL", e)>>, <<SetAlias(CachedAlias)>>}]

(* Edits race with requests for our own vCard; two handles share the cache *)
(* and GETs fail; or callers cancel their requests, or die.                *)
EditsAndCache == {
    [requests |-> 2, edits |-> 2, waits |-> 1, asks |-> {Self}, deletes |-> FALSE],
    [requests |-> 3, edits |-> 0, waits |-> 1, asks |-> Handles, deletes |-> FALSE],
    [requests |-> 3, edits |-> 1, waits |-> 1, asks |-> {Self}, deletes |-> TRUE] }

allVars == <<part, vars, loginVars, vcardVars>>

MCInit ==
  /\ part \in {"connection", "login", "vcard"}
  /\ Init
  /\ L!Init /\ (part = "login" \/ env = Usual)
  /\ VCardInit
  /\ part # "vcard" => vcardEnv = CHOOSE e \in VCardEnvironments : TRUE

MCNext ==
  \/ part = "connection" /\ Next /\ UNCHANGED <<part, loginVars, vcardVars>>
  \/ part = "login" /\ L!Next /\ UNCHANGED <<part, vars, vcardVars>>
  \/ part = "vcard" /\ VCardNext /\ UNCHANGED <<part, vars, loginVars>>

MCSpec == MCInit /\ [][MCNext]_allVars /\ Fairness /\ L!Fairness /\ VCardFairness

-----------------------------------------------------------------------------
\* Whoever is told that they are connected is, as securely as they asked for
\* (complete_operation), and secrets leave only on streams the account allows
\* them on (sasl_request_auth, xep77_begin).
LoginSound == L!ConnectedSoundly /\ L!SecretsGuarded

\* Whatever the authentication waits for is asked of the client or on its way,
\* and assertions fail only where a second authentication begins or the client
\* accepts too early (gabble_server_sasl_channel_close, start_auth_async).
AuthenticationAttended == L!NobodyForgotten /\ L!CrashesExplained

\* Once the connector has returned nothing but the initial presence's IQs holds a
\* connection attempt up, and a shutdown finishes (StagesEnd); logging in ends once it
\* is given up or need not wait for the client, unless the server is silent.
AttemptsEnd == StagesEnd /\ L!LoginEnds

------------------------------------------------------------------------------
(* manager_patch_vcard's loop on every vCard of at most MaxNodes nodes and *)
(* every list of at most MaxList edits, on a server with all fields and on *)
(* one with a few.                                                         *)
PlainEdit == INSTANCE VCardEdit WITH Limited <- FALSE, CachedAlias <- "b"
GoogleEdit == INSTANCE VCardEdit WITH Limited <- TRUE, CachedAlias <- "b"

VCards == SeqOf({Node(n, x) : n \in Names, x \in Values}, MaxNodes)

EditListsOf ==
    SeqOf({Replace(n, x) : n \in Names, x \in Values}
            \cup {AppendNode(n, x) : n \in Names, x \in Values}
            \cup {Delete(n) : n \in Names}
            \cup {Clear}
            \cup {SetAlias(x) : x \in Values \cup {NoAlias}}, MaxList)

\* The laws are of constants: they are looked at before anything happens.
AtStart == part = "vcard" /\ vcardStatus = "connecting"

\* The name of the node an edit is about; a CLEAR is about all but the photo.
About(e, n) ==
    \/ e.type = "clear" /\ n # "PHOTO"
    \/ e.type = "set_alias" /\ n = "NICKNAME"
    \/ e.type \in {"replace", "append", "delete"} /\ e.name = n

(* When manager_patch_vcard finds that "nothing really changed" and skips  *)
(* the SET, the vCard it would have sent is the one the server has.        *)
SkippedSetIsNoOp ==
    AtStart =>
        \A v \in VCards, l \in EditListsOf :
            LET new == PlainEdit!Patch(l, v) IN ~new.changed => new.vcard = v

(* The nodes no edit is about are kept, all of them and in their order;    *)
(* in particular SetContactInfo's CLEAR leaves the photo alone.            *)
OthersUntouched ==
    AtStart =>
        \A v \in VCards, l \in EditListsOf : \A n \in Names :
            (\A k \in DOMAIN l : ~About(l[k], n)) =>
                Named(PlainEdit!Patch(l, v).vcard, n) = Named(v, n)

(* A REPLACE that no later edit is about decides its field: the patched    *)
(* vCard has the field once, with that content, however many copies there  *)
(* were and whatever edits came before.                                    *)
LastReplaceWins ==
    AtStart =>
        \A v \in VCards, l \in EditListsOf : \A k \in DOMAIN l :
            l[k].type = "replace" /\ (\A j \in k + 1 .. Len(l) : ~About(l[j], l[k].name))
                => Named(PlainEdit!Patch(l, v).vcard, l[k].name)
                     = <<Node(l[k].name, l[k].value)>>

(* After SetContactInfo's edits (a CLEAR first, a SET_ALIAS without alias  *)
(* last) the field that holds our alias on a server with limited fields is *)
(* there.                                                                  *)
AliasSurvivesContactInfo ==
    AtStart =>
        \A v \in VCards, l \in EditListsOf :
            l # <<>> /\ Last(l) = SetAlias(NoAlias)
                => Named(GoogleEdit!Patch(l, v).vcard, "FN") # <<>>

\* The cache of vCards: the manager's state is well formed; requests that wait have
\* a GET or a suspension that ends; callbacks find their entry; only idle entries
\* expire, a timer sees to it, and a cached vCard comes with a cached alias.
CacheSound ==
    /\ VCardTypeOK
    /\ RequestsAreServed
    /\ UserDataAlive
    /\ CrashesAreDeletions
    /\ ExpiringEntriesIdle
    /\ CacheTimerRuns
    /\ AliasWithVCard

\* Edits of our own vCard: none is stranded, one SET is under way at a time, what
\* was sent is answered, what was confirmed is on the server, and the cache shows
\* only what the server had (manager_patch_vcard, replace_reply_cb).  And a patch
\* that is skipped would change nothing, fields that no edit names stay, the last
\* replacement wins, and setting contact info keeps the alias
\* (gabble_vcard_manager_edit_info_apply).
EditsSafe ==
    /\ NoOrphanedEdits
    /\ OneSet
    /\ SentEditsAnswered
    /\ ConfirmedEditsKept
    /\ CacheNotAhead
    /\ SkippedSetIsNoOp
    /\ OthersUntouched
    /\ LastReplaceWins
    /\ AliasSurvivesContactInfo

\* The vCard manager: its cache and its edits.
VCardsSound == CacheSound /\ EditsSafe

\* Liveness: every request for a vCard and every edit is answered, however GETs,
\* SETs and their retries end.
EveryoneAnswered ==
    /\ EveryRequestAnswered
    /\ EveryEditAnswered
=============================================================================
