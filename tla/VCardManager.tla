---------------------------- MODULE VCardManager -----------------------------
(***************************************************************************)
(* GabbleVCardManager (src/src/vcard-manager.c): fetches contacts' vCards  *)
(* into a cache whose entries expire, and edits the user's own vCard by    *)
(* fetching it, patching it and sending it back.                           *)
(*                                                                         *)
(* Every handler runs to completion on the GLib main loop.  The request    *)
(* pipeline (module RequestPipeline) is used as its promise: an IQ's       *)
(* callback is called once, with the reply or with an error, and the IQs   *)
(* are sent in the order in which they were enqueued.  The server handles  *)
(* the IQs about one vCard, and answers them, in the order of sending.     *)
(***************************************************************************)
EXTENDS Integers, FiniteSets, VCardEdit

CONSTANTS
    Contacts,     \* the other contacts
    Self,         \* the self handle
    NoVCard,      \* a NULL vcard_node, patched_vcard or stanza body
    EditLists,    \* the edit lists the e-th edit request may have
    VCardEnvironments  \* what clients and server may do: see Environment

ASSUME HandlesAssumption == Self \notin Contacts

Handles == Contacts \cup {Self}

(* Bounds on the GabbleVCardManagerRequests, on the edit requests and on   *)
(* the errors of type "wait", whose vCards clients ask for besides the     *)
(* requests the manager makes itself, and whether callers cancel requests  *)
(* or die while they are bound to one.                                     *)
Environment ==
    [requests : Nat, edits : Nat, waits : Nat, asks : SUBSET Handles, deletes : BOOLEAN]

ASSUME EnvironmentsAssumption == VCardEnvironments \subseteq Environment

Requests == UNION {1 .. e.requests : e \in VCardEnvironments}
EditRequests == UNION {1 .. e.edits : e \in VCardEnvironments}
None == 0     \* a NULL pipeline_item, a suspended_timer_id of 0

VARIABLES
    vcardEnv,        \* the environment of this behaviour
    vcardStatus,     \* of the connection; "disposed" when the manager is, and
                     \* "crashed" when an assertion failed or freed memory was used
    nreq,       \* GabbleVCardManagerRequests created so far
    reqs,       \* [h]: entry->pending_requests
    get,        \* [h]: entry->pipeline_item, as the request that sent the GET
    susp,       \* [h]: the request waiting for entry->suspended_timer_id
    node,       \* [h]: entry->vcard_node
    timed,      \* priv->timed_cache: handles in the order of expiry
    cacheTimer, \* priv->cache_timer
    aliased,    \* handles with a cached alias (observe_vcard)
    edits,      \* priv->edits
    nedit,      \* GabbleVCardManagerEditRequests created so far
    unsent,     \* edit requests whose set_in_pipeline is FALSE
    sent,       \* edit requests whose set_in_pipeline is TRUE
    setItem,    \* priv->edit_pipeline_item is not NULL
    patched,    \* priv->patched_vcard
    answered,   \* requests whose callback was called
    outcome,    \* [e]: what edit request e was told, or "pending"
    vcardIqs,       \* [h]: IQs about h's vCard, sent and not answered
    serverVCard,     \* [h]: h's vCard on the server
    history,    \* vCards of Self the server has had
    content,    \* [e]: the edit list of edit request e
    waits,      \* errors of type "wait" so far
    torn,       \* a GET of our own vCard failed while a SET was in flight and
                \* edits were waiting: the manager has forgotten the SET
    skipped,    \* edit requests that were marked set_in_pipeline by a patch that
                \* changed nothing
    callers,    \* requests made by others than the manager itself
    freed,      \* requests deleted while the pipeline or a timer held them
    dropped     \* requests deleted with the object they were bound to

cacheVars == <<nreq, reqs, get, susp, node, timed, cacheTimer, aliased, answered>>
editVars == <<edits, nedit, unsent, sent, setItem, patched, outcome, content, torn, skipped>>
serverVars == <<serverVCard, history, waits>>
deleteVars == <<callers, freed, dropped>>
vcardVars == <<vcardEnv, vcardStatus, cacheVars, editVars, vcardIqs, serverVars, deleteVars>>

Iq(type, r, body) ==
    [type |-> type, req |-> r, body |-> body, live |-> TRUE, answer |-> "none"]

VCardTypeOK ==
    /\ vcardStatus \in {"connecting", "connected", "disconnected", "disposed", "crashed"}
    /\ vcardEnv \in VCardEnvironments
    /\ nreq \in 0 .. vcardEnv.requests
    /\ reqs \in [Handles -> SUBSET Requests]
    /\ get \in [Handles -> Requests \cup {None}]
    /\ susp \in [Handles -> Requests \cup {None}]
    /\ DOMAIN node = Handles
    /\ timed \in Seq(Handles)
    /\ cacheTimer \in BOOLEAN
    /\ aliased \in SUBSET Handles
    /\ nedit \in 0 .. vcardEnv.edits
    /\ unsent \in SUBSET EditRequests
    /\ sent \in SUBSET EditRequests
    /\ setItem \in BOOLEAN
    /\ answered \in SUBSET Requests
    /\ outcome \in [EditRequests -> {"pending", "ok", "error", "dropped"}]
    /\ waits \in 0 .. vcardEnv.waits
    /\ torn \in BOOLEAN
    /\ skipped \in SUBSET EditRequests
    /\ callers \in SUBSET Requests
    /\ freed \in SUBSET callers
    /\ dropped \in SUBSET callers

VCardInit ==
    /\ vcardEnv \in VCardEnvironments
    /\ vcardStatus = "connecting"
    /\ nreq = 0
    /\ reqs = [h \in Handles |-> {}]
    /\ get = [h \in Handles |-> None]
    /\ susp = [h \in Handles |-> None]
    /\ node = [h \in Handles |-> NoVCard]
    /\ timed = <<>>
    /\ cacheTimer = FALSE
    /\ aliased = {}
    /\ edits = <<>>
    /\ nedit = 0
    /\ unsent = {}
    /\ sent = {}
    /\ setItem = FALSE
    /\ patched = NoVCard
    /\ answered = {}
    /\ outcome = [e \in EditRequests |-> "pending"]
    /\ vcardIqs = [h \in Handles |-> <<>>]
    /\ serverVCard = [h \in Handles |-> <<>>]
    /\ history = {<<>>}
    /\ content = [e \in EditRequests |-> <<>>]
    /\ waits = 0
    /\ torn = FALSE
    /\ skipped = {}
    /\ callers = {}
    /\ freed = {}
    /\ dropped = {}

------------------------------------------------------------------------------
\* Defect: a second GET is sent although one is waiting to be retried.
RequestSendIgnoresSuspension(h, r) ==
    IF get[h] # None
    THEN UNCHANGED <<get, vcardIqs>>
    ELSE /\ get' = [get EXCEPT ![h] = r]
         /\ vcardIqs' = [vcardIqs EXCEPT ![h] = Append(@, Iq("get", r, NoVCard))]

(* request_send: the first request for an entry sends the GET, the others  *)
(* share it, also while it waits to be retried.                            *)
RequestSend(h, r) ==
    IF get[h] # None \/ susp[h] # None
    THEN UNCHANGED <<get, vcardIqs>>
    ELSE /\ get' = [get EXCEPT ![h] = r]
         /\ vcardIqs' = [vcardIqs EXCEPT ![h] = Append(@, Iq("get", r, NoVCard))]

\* Defect: the request that is recorded is not the one that was created.
NewRequestMisnumbered(h) ==
    /\ nreq < vcardEnv.requests
    /\ nreq' = nreq + 1
    /\ reqs' = [reqs EXCEPT ![h] = @ \cup {nreq + 2}]
    /\ RequestSend(h, nreq + 1)

\* gabble_vcard_manager_request
NewRequest(h) ==
    /\ nreq < vcardEnv.requests
    /\ nreq' = nreq + 1
    /\ reqs' = [reqs EXCEPT ![h] = @ \cup {nreq + 1}]
    /\ RequestSend(h, nreq + 1)

\* Defect: the entry stays in timed_cache.
InvalidateKeepsTimed(H) ==
    /\ node' = [h \in Handles |-> IF h \in H THEN NoVCard ELSE node[h]]
    /\ UNCHANGED timed

\* gabble_vcard_manager_invalidate_cache for the handles of H.
Invalidate(H) ==
    /\ node' = [h \in Handles |-> IF h \in H THEN NoVCard ELSE node[h]]
    /\ timed' = SelectSeq(timed, LAMBDA h : h \notin H)

\* cache_entry_complete_requests
CompleteRequests(h) ==
    /\ answered' = answered \cup reqs[h]
    /\ reqs' = [reqs EXCEPT ![h] = {}]

\* Defect: a SET is sent although another one is in the pipeline.
PatchVCardAgain(old, w, set, un, se) ==
    IF edits = <<>>
    THEN /\ setItem' = set
         /\ vcardIqs' = w
         /\ sent' = se
         /\ unsent' = un
         /\ patched' = IF set THEN patched ELSE NoVCard
         /\ UNCHANGED <<edits, skipped>>
    ELSE LET new == Patch(edits, old)
         IN  /\ IF new.changed
                THEN /\ patched' = new.vcard
                     /\ setItem' = TRUE
                     /\ vcardIqs' = [w EXCEPT ![Self] =
                                   Append(@, Iq("set", None, new.vcard))]
                     /\ UNCHANGED skipped
                ELSE /\ setItem' = FALSE
                     /\ vcardIqs' = w
                     /\ patched' = NoVCard
                     /\ skipped' = skipped \cup se \cup un
             /\ edits' = <<>>
             /\ sent' = se \cup un
             /\ unsent' = {}

(* manager_patch_vcard, called while the pipeline holds w, there is a SET  *)
(* in progress iff set, and un and se are the edit requests: without a SET *)
(* in progress the edits are applied to `old' and the result is sent.      *)
(* When "nothing really changed" no SET is sent, but the edits are         *)
(* forgotten and their requests marked set_in_pipeline all the same.       *)
PatchVCard(old, w, set, un, se) ==
    IF edits = <<>> \/ set
    THEN /\ setItem' = set
         /\ vcardIqs' = w
         /\ sent' = se
         /\ unsent' = un
         /\ patched' = IF set THEN patched ELSE NoVCard
         /\ UNCHANGED <<edits, skipped>>
    ELSE LET new == Patch(edits, old)
         IN  /\ IF new.changed
                THEN /\ patched' = new.vcard
                     /\ setItem' = TRUE
                     /\ vcardIqs' = [w EXCEPT ![Self] =
                                   Append(@, Iq("set", None, new.vcard))]
                     /\ UNCHANGED skipped
                ELSE /\ setItem' = FALSE
                     /\ vcardIqs' = w
                     /\ patched' = NoVCard
                     /\ skipped' = skipped \cup se \cup un
             /\ edits' = <<>>
             /\ sent' = se \cup un
             /\ unsent' = {}

\* Edit requests are told what became of them, and removed.
Tell(S, what) ==
    outcome' = [e \in EditRequests |-> IF e \in S THEN what ELSE outcome[e]]

\* Defect: the requests that were in the SET are not told.
ReplaceFailsTellsUnsent ==
    /\ setItem' = FALSE
    /\ patched' = NoVCard
    /\ Tell(unsent, "error")
    /\ unsent' = {}
    /\ edits' = <<>>
    /\ UNCHANGED sent

(* replace_reply_cb with an error: all edits and all edit requests go,     *)
(* whether they are in the SET or not.                                     *)
ReplaceFails ==
    /\ setItem' = FALSE
    /\ patched' = NoVCard
    /\ Tell(sent \cup unsent, "error")
    /\ sent' = {}
    /\ unsent' = {}
    /\ edits' = <<>>

------------------------------------------------------------------------------
(* status_changed_cb: an alias better than the vCard's is to be patched    *)
(* into our vCard, which is requested.                                     *)
Connected ==
    /\ vcardStatus = "connecting"
    /\ vcardStatus' = "connected"
    /\ edits' = IF CachedAlias # NoAlias THEN Append(edits, SetAlias(CachedAlias))
                                         ELSE edits
    /\ NewRequest(Self)
    /\ UNCHANGED <<vcardEnv, susp, node, timed, cacheTimer, aliased, answered, nedit,
                   unsent, sent, setItem, patched, outcome, content, torn, skipped, serverVars,
                   deleteVars>>

(* A client found nothing with gabble_vcard_manager_get_cached, or no      *)
(* alias with gabble_vcard_manager_has_cached_alias, and requests it.      *)
ClientRequest(h) ==
    /\ vcardStatus = "connected"
    /\ h \in vcardEnv.asks
    /\ node[h] = NoVCard \/ h \notin aliased
    /\ NewRequest(h)
    /\ callers' = callers \cup {nreq'}
    /\ UNCHANGED <<vcardEnv, vcardStatus, susp, node, timed, cacheTimer, aliased, answered,
                   editVars, serverVars, freed, dropped>>

(* RefreshContactInfo and self_avatar_resolve_conflict: the cache is       *)
(* invalidated before the request.                                         *)
Refresh(h) ==
    /\ vcardStatus = "connected"
    /\ h \in vcardEnv.asks
    /\ Invalidate({h})
    /\ NewRequest(h)
    /\ callers' = callers \cup {nreq'}
    /\ UNCHANGED <<vcardEnv, vcardStatus, susp, cacheTimer, aliased, answered, editVars, serverVars,
                   freed, dropped>>

\* A presence with another avatar hash: the cached vCard is out of date.
AvatarChanged(h) ==
    /\ vcardStatus = "connected"
    /\ node[h] # NoVCard
    /\ Invalidate({h})
    /\ UNCHANGED <<vcardEnv, vcardStatus, nreq, reqs, get, susp, cacheTimer, aliased, answered,
                   editVars, vcardIqs, serverVars, deleteVars>>

\* Defect: the cached vCard is not invalidated, and no GET is sent for it.
EditUsesCache ==
    /\ vcardStatus = "connected"
    /\ nedit < vcardEnv.edits
    /\ IF setItem \/ reqs[Self] # {} \/ node[Self] # NoVCard
       THEN UNCHANGED <<nreq, reqs, get, vcardIqs>>
       ELSE NewRequest(Self)
    /\ \E l \in EditLists[nedit + 1] :
          /\ edits' = edits \o l
          /\ content' = [content EXCEPT ![nedit + 1] = l]
    /\ nedit' = nedit + 1
    /\ unsent' = unsent \cup {nedit + 1}
    /\ UNCHANGED <<vcardEnv, vcardStatus, susp, node, timed, cacheTimer, aliased, answered, sent,
                   setItem, patched, outcome, torn, skipped, serverVars, deleteVars>>

(* gabble_vcard_manager_edit: our cached vCard is dropped and, unless a    *)
(* SET or a GET of it is coming back anyway, requested.                    *)
Edit ==
    /\ vcardStatus = "connected"
    /\ nedit < vcardEnv.edits
    /\ Invalidate({Self})
    /\ IF setItem \/ reqs[Self] # {}
       THEN UNCHANGED <<nreq, reqs, get, vcardIqs>>
       ELSE NewRequest(Self)
    /\ \E l \in EditLists[nedit + 1] :
          /\ edits' = edits \o l
          /\ content' = [content EXCEPT ![nedit + 1] = l]
    /\ nedit' = nedit + 1
    /\ unsent' = unsent \cup {nedit + 1}
    /\ UNCHANGED <<vcardEnv, vcardStatus, susp, cacheTimer, aliased, answered, sent, setItem,
                   patched, outcome, torn, skipped, serverVars, deleteVars>>

------------------------------------------------------------------------------
\* Defect: the vCard is not observed as it goes past.
GetSucceedsUnobserved(h, vcard, w) ==
    /\ get' = [get EXCEPT ![h] = None]
    /\ node' = [node EXCEPT ![h] = vcard]
    /\ timed' = Append(timed, h)
    /\ cacheTimer' = TRUE
    /\ IF h = Self
       THEN PatchVCard(vcard, w, setItem, unsent, sent)
       ELSE vcardIqs' = w /\ UNCHANGED <<edits, unsent, sent, setItem, patched, skipped>>
    /\ CompleteRequests(h)
    /\ UNCHANGED <<nreq, susp, aliased, nedit, outcome, content, torn>>

(* pipeline_reply_cb with a vCard, the pipeline holding w afterwards.      *)
GetSucceeds(h, vcard, w) ==
    /\ get' = [get EXCEPT ![h] = None]
    /\ node' = [node EXCEPT ![h] = vcard]
    /\ timed' = Append(timed, h)
    /\ cacheTimer' = TRUE
    /\ IF h = Self
       THEN PatchVCard(vcard, w, setItem, unsent, sent)
       ELSE vcardIqs' = w /\ UNCHANGED <<edits, unsent, sent, setItem, patched, skipped>>
    /\ aliased' = aliased \cup {h}
    /\ CompleteRequests(h)
    /\ UNCHANGED <<nreq, susp, nedit, outcome, content, torn>>

\* Defect: the pending requests are not completed.
GetFailsForgets(h, w) ==
    /\ get' = [get EXCEPT ![h] = None]
    /\ IF h = Self /\ edits # <<>>
       THEN ReplaceFails
       ELSE UNCHANGED <<edits, unsent, sent, setItem, patched, outcome>>
    /\ vcardIqs' = w
    /\ UNCHANGED <<nreq, reqs, susp, node, timed, cacheTimer, aliased, answered,
                   nedit, content, torn, skipped>>

(* pipeline_reply_cb with an error other than "wait": our edits cannot be  *)
(* made, so they and their requests go too.                                *)
GetFails(h, w) ==
    /\ get' = [get EXCEPT ![h] = None]
    /\ IF h = Self /\ edits # <<>>
       THEN ReplaceFails
       ELSE UNCHANGED <<edits, unsent, sent, setItem, patched, outcome>>
    /\ torn' = (torn \/ (h = Self /\ edits # <<>> /\ setItem))
    /\ CompleteRequests(h)
    /\ vcardIqs' = w
    /\ UNCHANGED <<nreq, susp, node, timed, cacheTimer, aliased, nedit, content, skipped>>

\* pipeline_reply_cb with an error of type "wait": try again later.
GetSuspended(h, w) ==
    /\ susp' = [susp EXCEPT ![h] = get[h]]
    /\ get' = [get EXCEPT ![h] = None]
    /\ vcardIqs' = w
    /\ UNCHANGED <<nreq, reqs, node, timed, cacheTimer, aliased, answered, editVars>>

\* Defect: every edit request is told of the success, not only those sent.
SetSucceedsTellsAll(w) ==
    /\ node' = [node EXCEPT ![Self] = patched]
    /\ aliased' = aliased \cup {Self}
    /\ Tell(sent \cup unsent, "ok")
    /\ PatchVCard(patched, w, FALSE, {}, {})
    /\ UNCHANGED <<nreq, reqs, get, susp, timed, cacheTimer, answered, nedit,
                   content, torn>>

(* replace_reply_cb without an error: the patched vCard becomes the cached *)
(* one, the requests that were in the SET are told, and if there are more  *)
(* edits the next SET is sent.  The first conjunct is the code's assertion *)
(* "We must have patched vcard by now".                                    *)
SetSucceeds(w) ==
    /\ patched # NoVCard
    /\ node' = [node EXCEPT ![Self] = patched]
    /\ aliased' = aliased \cup {Self}
    /\ Tell(sent, "ok")
    /\ PatchVCard(patched, w, FALSE, unsent, {})
    /\ UNCHANGED <<nreq, reqs, get, susp, timed, cacheTimer, answered, nedit,
                   content, torn>>

\* Defect: the patched vCard is cached although the server refused it.
SetFailsCaches(w) ==
    /\ ReplaceFails
    /\ vcardIqs' = w
    /\ node' = [node EXCEPT ![Self] = patched]
    /\ UNCHANGED <<nreq, reqs, get, susp, timed, cacheTimer, aliased, answered,
                   nedit, content, torn, skipped>>

\* replace_reply_cb with an error, as the pipeline's callback.
SetFails(w) ==
    /\ ReplaceFails
    /\ vcardIqs' = w
    /\ UNCHANGED <<cacheVars, nedit, content, torn, skipped>>

(* The pipeline delivers the answer to the oldest IQ about h.  An IQ that  *)
(* the pipeline has given up is not in flight: nobody is told.             *)
Reply(h) ==
    /\ vcardStatus = "connected"
    /\ vcardIqs[h] # <<>>
    /\ LET iq == Head(vcardIqs[h])
           w  == [vcardIqs EXCEPT ![h] = Tail(@)]
       IN  /\ iq.answer # "none"
           /\ iq.live => iq.req \notin freed
           /\ \/ ~iq.live /\ vcardIqs' = w /\ UNCHANGED <<cacheVars, editVars>>
              \/ iq.live /\ iq.type = "get" /\ iq.answer = "ok"
                   /\ GetSucceeds(h, iq.body, w)
              \/ iq.live /\ iq.type = "get" /\ iq.answer = "error" /\ GetFails(h, w)
              \/ iq.live /\ iq.type = "get" /\ iq.answer = "wait" /\ GetSuspended(h, w)
              \/ iq.live /\ iq.type = "set" /\ iq.answer = "ok" /\ SetSucceeds(w)
              \/ iq.live /\ iq.type = "set" /\ iq.answer = "error" /\ SetFails(w)
    /\ UNCHANGED <<vcardEnv, vcardStatus, serverVars, deleteVars>>

(* The pipeline gives up an IQ: its own timeout, timeout_request (which    *)
(* cancels the pipeline's item), or no porter.  The server may still have  *)
(* it.                                                                     *)
GiveUp(h) ==
    /\ vcardStatus \in {"connected", "disconnected"}
    /\ \E k \in DOMAIN vcardIqs[h] :
          /\ vcardIqs[h][k].live /\ vcardIqs[h][k].req \notin freed
          /\ LET w == [vcardIqs EXCEPT ![h][k].live = FALSE]
             IN  \/ /\ vcardIqs[h][k].type = "get"
                    /\ GetFails(h, w)
                 \/ vcardIqs[h][k].type = "set" /\ SetFails(w)
    /\ UNCHANGED <<vcardEnv, vcardStatus, serverVars, deleteVars>>

\* suspended_request_timeout_cb
Retry(h) ==
    /\ vcardStatus \in {"connected", "disconnected"}
    /\ susp[h] # None /\ susp[h] \notin freed
    /\ susp' = [susp EXCEPT ![h] = None]
    /\ get' = [get EXCEPT ![h] = susp[h]]
    /\ vcardIqs' = [vcardIqs EXCEPT ![h] = Append(@, Iq("get", susp[h], NoVCard))]
    /\ UNCHANGED <<vcardEnv, vcardStatus, nreq, reqs, node, timed, cacheTimer, aliased, answered,
                   editVars, serverVars, deleteVars>>

\* Defect: the timer is not restarted for the entries that remain.
CacheTimeoutOnce ==
    /\ vcardStatus \in {"connected", "disconnected"}
    /\ cacheTimer
    /\ \E n \in 0 .. Len(timed) :
          /\ Invalidate({timed[k] : k \in 1 .. n})
          /\ cacheTimer' = FALSE
    /\ UNCHANGED <<vcardEnv, vcardStatus, nreq, reqs, get, susp, aliased, answered, editVars, vcardIqs,
                   serverVars, deleteVars>>

(* cache_entry_timeout: the entries that have expired, the first n, are    *)
(* dropped and the timer is started again for the first of the others.     *)
CacheTimeout ==
    /\ vcardStatus \in {"connected", "disconnected"}
    /\ cacheTimer
    /\ \E n \in 0 .. Len(timed) :
          /\ Invalidate({timed[k] : k \in 1 .. n})
          /\ cacheTimer' = (n < Len(timed))
    /\ UNCHANGED <<vcardEnv, vcardStatus, nreq, reqs, get, susp, aliased, answered, editVars, vcardIqs,
                   serverVars, deleteVars>>

------------------------------------------------------------------------------
(* The server answers the oldest IQ about h that it has not yet answered.  *)
ServerAnswers(h) ==
    /\ vcardStatus = "connected"
    /\ \E k \in DOMAIN vcardIqs[h] :
          LET iq == vcardIqs[h][k] IN
          /\ iq.answer = "none"
          /\ \A l \in 1 .. k - 1 : vcardIqs[h][l].answer # "none"
          /\ \/ /\ iq.type = "get"
                /\ vcardIqs' = [vcardIqs EXCEPT ![h][k].answer = "ok",
                                        ![h][k].body = serverVCard[h]]
                /\ UNCHANGED serverVars
             \/ /\ iq.type = "get"
                /\ vcardIqs' = [vcardIqs EXCEPT ![h][k].answer = "error"]
                /\ UNCHANGED serverVars
             \/ /\ iq.type = "get"
                /\ waits < vcardEnv.waits
                /\ waits' = waits + 1
                /\ vcardIqs' = [vcardIqs EXCEPT ![h][k].answer = "wait"]
                /\ UNCHANGED <<serverVCard, history>>
             \/ /\ iq.type = "set"
                /\ vcardIqs' = [vcardIqs EXCEPT ![h][k].answer = "ok"]
                /\ serverVCard' = [serverVCard EXCEPT ![h] = iq.body]
                /\ history' = history \cup {iq.body}
                /\ UNCHANGED waits
             \/ /\ iq.type = "set"
                /\ vcardIqs' = [vcardIqs EXCEPT ![h][k].answer = "error"]
                /\ UNCHANGED serverVars
    /\ UNCHANGED <<vcardEnv, vcardStatus, cacheVars, editVars, deleteVars>>

\* The connection is lost or closed; there will be no more answers.
DisconnectManager ==
    /\ vcardStatus = "connected"
    /\ vcardStatus' = "disconnected"
    /\ UNCHANGED <<vcardEnv, cacheVars, editVars, vcardIqs, serverVars, deleteVars>>

(* gabble_connection_dispose drops the pipeline, which calls back with an  *)
(* error for every IQ it holds, and then the manager, whose dispose tells  *)
(* whoever is left.                                                        *)
DisposeManager ==
    /\ vcardStatus = "disconnected"
    /\ \A h \in Handles : get[h] \notin freed
    /\ vcardStatus' = "disposed"
    /\ answered' = answered \cup UNION {reqs[h] : h \in Handles}
    /\ reqs' = [h \in Handles |-> {}]
    /\ get' = [h \in Handles |-> None]
    /\ susp' = [h \in Handles |-> None]
    /\ node' = [h \in Handles |-> NoVCard]
    /\ timed' = <<>>
    /\ cacheTimer' = FALSE
    /\ ReplaceFails
    /\ vcardIqs' = [h \in Handles |-> <<>>]
    /\ UNCHANGED <<vcardEnv, nreq, aliased, nedit, content, torn, skipped, serverVars, deleteVars>>

------------------------------------------------------------------------------
(* The assertions of cache_entry_attempt_to_free fail for an entry without *)
(* vCard, GET and requests if its timer still runs, or if edits of our own *)
(* vCard wait for nothing.                                                 *)
FreeAsserts(h, pending) ==
    /\ node[h] = NoVCard /\ get[h] = None /\ pending = {}
    /\ susp[h] # None \/ (h = Self /\ ~setItem /\ edits # <<>>)

(* delete_request, of a request that is not over.  The pipeline or the     *)
(* timer that holds it as user_data is not told.                           *)
DeleteRequest(h, r) ==
    /\ vcardEnv.deletes
    /\ vcardStatus \in {"connected", "disconnected"}
    /\ r \in reqs[h] \cap callers
    /\ reqs' = [reqs EXCEPT ![h] = @ \ {r}]
    /\ freed' = freed \cup ({r} \cap {get[h], susp[h]})
    /\ vcardStatus' = IF FreeAsserts(h, reqs[h] \ {r}) THEN "crashed" ELSE vcardStatus
    /\ UNCHANGED <<vcardEnv, nreq, get, susp, node, timed, cacheTimer, aliased, editVars, vcardIqs,
                   serverVars, callers>>

\* gabble_vcard_manager_cancel_request: the callback gets the error CANCELLED.
CancelRequest(h, r) ==
    /\ DeleteRequest(h, r)
    /\ answered' = answered \cup {r}
    /\ UNCHANGED dropped

\* notify_delete_request: the bound object dies and the callback is not called.
RequestOwnerDies(h, r) ==
    /\ DeleteRequest(h, r)
    /\ dropped' = dropped \cup {r}
    /\ UNCHANGED answered

\* notify_delete_edit_request: the request goes, what it asked for does not.
EditOwnerDies(e) ==
    /\ vcardEnv.deletes
    /\ vcardStatus \in {"connected", "disconnected"}
    /\ e \in sent \cup unsent
    /\ Tell({e}, "dropped")
    /\ sent' = sent \ {e}
    /\ unsent' = unsent \ {e}
    /\ UNCHANGED <<vcardEnv, vcardStatus, cacheVars, edits, nedit, setItem, patched, content, torn,
                   skipped, vcardIqs, serverVars, deleteVars>>

(* pipeline_reply_cb or suspended_request_timeout_cb is called with a      *)
(* request that was freed: what happens then is undefined, and the model   *)
(* says nothing more.                                                      *)
FreedRequestUsed ==
    /\ vcardStatus \in {"connected", "disconnected"}
    /\ \E h \in Handles : {get[h], susp[h]} \cap freed # {}
    /\ vcardStatus' = "crashed"
    /\ UNCHANGED <<vcardEnv, cacheVars, editVars, vcardIqs, serverVars, deleteVars>>

VCardNext ==
    \/ Connected
    \/ Edit
    \/ CacheTimeout
    \/ DisconnectManager
    \/ DisposeManager
    \/ \E h \in Handles :
          \/ ClientRequest(h)
          \/ Refresh(h)
          \/ Reply(h)
          \/ GiveUp(h)
          \/ Retry(h)
          \/ ServerAnswers(h)
    \/ \E h \in Contacts : AvatarChanged(h)
    \/ \E h \in Handles : \E r \in reqs[h] : CancelRequest(h, r) \/ RequestOwnerDies(h, r)
    \/ \E e \in EditRequests : EditOwnerDies(e)
    \/ FreedRequestUsed

(* GLib runs expired timers: a GET or SET that is not answered is given    *)
(* up, a suspended GET is retried.  A connection that has gone is          *)
(* disposed of.  The server need not answer.                               *)
VCardFairness ==
    /\ WF_vcardVars(DisposeManager)
    /\ WF_vcardVars(FreedRequestUsed)
    /\ \A h \in Handles : WF_vcardVars(GiveUp(h))
    /\ \A h \in Handles : WF_vcardVars(Retry(h))

VCardSpec == VCardInit /\ [][VCardNext]_vcardVars

VCardFairSpec == VCardSpec /\ VCardFairness

------------------------------------------------------------------------------
LiveIqs(h, type) ==
    {k \in DOMAIN vcardIqs[h] : vcardIqs[h][k].live /\ vcardIqs[h][k].type = type}

(* Nobody waits for nothing: a pending request has a GET in the pipeline   *)
(* or a timer that will send one, however requests, retries, errors and    *)
(* invalidations of the same entry interleave.                             *)
RequestsAreServed ==
    \A h \in Handles : reqs[h] # {} => get[h] # None \/ susp[h] # None

(* The GabbleVCardManagerRequest that pipeline_reply_cb and                *)
(* suspended_request_timeout_cb get as user_data is still pending, unless  *)
(* its owner deleted it meanwhile (no caller in the tree does), an entry   *)
(* has one GET or one timer, not both, and the GET in the pipeline is the  *)
(* entry's (the assertions of cache_entry_attempt_to_free and              *)
(* pipeline_reply_cb).                                                     *)
UserDataAlive ==
    \A h \in Handles :
        /\ get[h] # None => get[h] \in reqs[h] \cup freed /\ susp[h] = None
        /\ susp[h] # None => susp[h] \in reqs[h] \cup freed
        /\ \A k \in LiveIqs(h, "get") : vcardIqs[h][k].req = get[h]
        /\ Cardinality(LiveIqs(h, "get")) = IF get[h] = None THEN 0 ELSE 1

(* Only the deletion of the request that the pipeline or a timer holds can *)
(* bring the manager down: deleting one that shares another's GET, or the  *)
(* owner of an edit, is safe at any moment.                                *)
CrashesAreDeletions == vcardStatus = "crashed" => freed # {}

(* An entry that is waiting to expire is there once, holds a vCard and has *)
(* no GET in progress: cache_entry_timeout "shouldn't have in-flight       *)
(* request" and asserts so.                                                *)
ExpiringEntriesIdle ==
    \A k \in DOMAIN timed :
        /\ get[timed[k]] = None /\ node[timed[k]] # NoVCard
        /\ \A l \in DOMAIN timed : timed[l] = timed[k] => l = k

\* An entry in timed_cache has a timer that will look at it.
CacheTimerRuns == timed # <<>> => cacheTimer

(* A cached vCard implies a cached alias.  Callers that look only for the  *)
(* alias rely on it: gabble_vcard_manager_request asserts that there is no *)
(* cached vCard.                                                           *)
AliasWithVCard == \A h \in Handles : node[h] # NoVCard => h \in aliased

(* "if we do have some pending edits, we should also have some pipeline    *)
(* items or pending requests": whoever brings the vCard they apply to.     *)
(* (Nothing is said once the timer's request was deleted.)                 *)
NoOrphanedEdits ==
    edits # <<>> /\ freed = {} => setItem \/ get[Self] # None \/ susp[Self] # None

(* "At most one SET request can be in pipeline at any given time", and     *)
(* while it is, the vCard it carries is at hand for the cache.             *)
OneSet ==
    ~torn => /\ Cardinality(LiveIqs(Self, "set")) = IF setItem THEN 1 ELSE 0
             /\ setItem <=> patched # NoVCard

(* An edit request that is marked set_in_pipeline has a SET in the         *)
(* pipeline that will answer it, unless it was marked by a patch that      *)
(* changed nothing and sent none ("nothing really changed, not updating    *)
(* vCard"): those wait for another edit's SET.                             *)
SentEditsAnswered == sent \ skipped # {} => setItem

(* No lost update: what an edit request appended and was told is there     *)
(* stays in the vCard on the server, although other edits are made from    *)
(* GETs and SETs that were in flight at the same time.                     *)
ConfirmedEditsKept ==
    \A e \in EditRequests :
        outcome[e] = "ok" =>
            \A k \in DOMAIN content[e] :
                content[e][k].type = "append" =>
                    Node(content[e][k].name, content[e][k].value)
                        \in ToSet(serverVCard[Self])

(* The cache never runs ahead of the server: our cached vCard is one the   *)
(* server has had ("leave the original vcard in the cache until that       *)
(* happens").                                                              *)
CacheNotAhead == node[Self] # NoVCard => node[Self] \in history

(* Every GET request is eventually answered, also by a silent server,      *)
(* unless its owner dies first: again and again nobody waits, and an       *)
(* answer is never taken back.                                             *)
EveryRequestAnswered ==
    []<>(vcardStatus # "crashed" => 1 .. nreq \subseteq answered \cup dropped)

(* Every edit request is eventually answered ("When it finishes, call the  *)
(* given callback"), unless its owner dies or nothing had to be changed.   *)
(* Such a request is answered only by the next SET, even if that fails, or *)
(* when the connection is disposed of.                                     *)
EveryEditAnswered ==
    /\ []<>(vcardStatus # "crashed" =>
               \A e \in 1 .. nedit : outcome[e] # "pending" \/ e \in skipped)
    /\ \A e \in EditRequests :
          e \in skipped /\ (setItem \/ vcardStatus = "disconnected") ~>
              outcome[e] # "pending" \/ vcardStatus = "crashed"
==============================================================================
