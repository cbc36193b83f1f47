---------------------------- MODULE PresenceCaps ----------------------------
(* The capability discovery of the presence cache (src/presence-cache.c,     *)
(* with the resources of src/presence.c) and the stream requests of          *)
(* src/media-channel.c that wait for it.                                     *)
(*                                                                           *)
(* A client (a full JID) advertises nodes in its presence.  What a node      *)
(* means is asked of one client at a time when the node is the hash of its   *)
(* own answer, and of up to EnoughTrust clients at once when it is not; an   *)
(* answer that is verified by its hash, or that EnoughTrust contacts agree   *)
(* on, is trusted and serves everybody who waits for the node.  One GLib     *)
(* main loop runs every handler to its end, so a handler is an action; the   *)
(* disco requests of module Disco are seen here through their callbacks.     *)
EXTENDS Naturals, FiniteSets, Sequences, SequencesExt

CONSTANTS
  Contacts,        \* bare JIDs (handles)
  Clients,         \* full JIDs, each with a resource
  Owner,           \* [Clients -> Contacts]
  Self,            \* our own handle, not one of Contacts
  Nodes,           \* capability URIs, node#fragment
  Features,        \* what a capability set is made of
  AV,              \* the features an audio or video call needs one of
  Means,           \* [Nodes -> SUBSET Features]: the set a node is the hash of
  Replies,         \* the capability sets clients may answer with
  Bundles,         \* the nodes trusted from the start
  GoogleExts,      \* the ext fragments get_google_cap knows
  EnoughTrust,     \* CAPABILITY_BUNDLE_ENOUGH_TRUST
  Environments     \* what clients and callers may do: see Environment

(* clients: who sends presences.  adverts: the <c/> elements they may send.  *)
(* own: the nodes of our own capability sets.  callees: the contacts streams *)
(* are requested to, one channel each.  presences, a bound: how many         *)
(* available presences arrive.                                               *)
Environment ==
  [clients : SUBSET Clients, adverts : SUBSET [uris : Seq(Nodes), hashed : BOOLEAN],
   own : SUBSET Nodes, callees : SUBSET Contacts, presences : Nat]

ASSUME ConstantsAssumption ==
  /\ Owner \in [Clients -> Contacts]
  /\ Self \notin Contacts
  /\ Means \in [Nodes -> SUBSET Features]
  /\ Replies \subseteq SUBSET Features
  /\ Environments \subseteq Environment
  /\ \A e \in Environments : \A a \in e.adverts : a.hashed => Len(a.uris) <= 1
  /\ Bundles \cup GoogleExts \subseteq Nodes
  /\ EnoughTrust \in Nat \ {0}

VARIABLES
  env,         \* the environment of this behaviour
  res,         \* the Resource of each client: is there one, its caps, their serial
  serial,      \* priv->caps_serial
  info,        \* priv->capabilities: what each node is believed to mean, thanks to whom
  complete,    \* the nodes whose info is marked complete (our own)
  pending,     \* priv->disco_pending: who waits for the meaning of each node
  inFlight,    \* how many disco requests for a node to a client are unanswered
  cached,      \* the shared WockyCapsCache
  unsure,      \* priv->unsure_id # 0
  decloak,     \* the contacts of priv->decloak_requests
  call,        \* the stream request to each contact
  tried,       \* the calls whose channel has tried_decloaking
  last,        \* history: the last <c/> of each client since it came online
  adverts,     \* history: every <c/> received
  said,        \* history: what contacts answered
  gaveUp,      \* history: the clients whose last <c/> was given up
  failed,      \* history: the nodes about which a disco request has failed
  overtaken    \* history: the nodes that became our own while a waiter that was
               \* given no hash was pending on them (fd.o bug #24619)

cacheVars == <<res, serial, info, complete, pending, inFlight, cached>>
callVars == <<call, tried>>
history == <<last, adverts, said, gaveUp, failed, overtaken>>
vars == <<env, cacheVars, unsure, decloak, callVars, history>>

NoResource == [online |-> FALSE, caps |-> {}, serial |-> 0]
NoAdvert == [serial |-> 0, uris |-> <<>>]

Init ==
  /\ env \in Environments
  /\ res = [c \in Clients |-> NoResource]
  /\ serial = 1
  /\ info = [n \in Nodes |->
               IF n \in Bundles
               THEN [caps |-> {Means[n]}, guys |-> {}, trust |-> EnoughTrust]
               ELSE [caps |-> {}, guys |-> {}, trust |-> 0]]
  /\ complete = {}
  /\ pending = [n \in Nodes |-> <<>>]
  /\ inFlight = [c \in Clients |-> [n \in Nodes |-> 0]]
  /\ cached = [n \in Nodes |-> {}]
  /\ unsure = TRUE
  /\ decloak = {}
  /\ call = [ct \in Contacts |-> "idle"]
  /\ tried = {}
  /\ last = [c \in Clients |-> NoAdvert]
  /\ adverts = {}
  /\ said = {}
  /\ gaveUp = {}
  /\ failed = {}
  /\ overtaken = {}

-----------------------------------------------------------------------------
(* Waiters, and whom to ask.                                                 *)

Waiter == [client : Clients, serial : Nat, asked : BOOLEAN, hashed : BOOLEAN]

WaitersOf(list) == {list[i] : i \in DOMAIN list}

MatchingWaiters(list, c) == {w \in WaitersOf(list) : w.client = c}

Weight(w) == IF ~w.asked THEN 0 ELSE IF w.hashed THEN EnoughTrust ELSE 1

RequestCount(list) == FoldLeft(LAMBDA sum, w : sum + Weight(w), 0, list)

\* Asks the i-th waiter of the list.
Ask(list, i) == [list EXCEPT ![i].asked = TRUE]

\* Defect: nobody else is asked when an answer was not enough.
AskNobody(list, trust) == list

\* Asks the waiters in order for as long as the answers expected do not add
\* up to enough trust.
AskForEnough(list, trust) ==
  FoldLeft(LAMBDA l, i : IF trust + RequestCount(l) >= EnoughTrust THEN l
                                                                  ELSE Ask(l, i),
           list, [i \in DOMAIN list |-> i])

FirstUnasked(list) ==
  {i \in DOMAIN list : ~list[i].asked /\ \A j \in 1..(i - 1) : list[j].asked}

\* The clients asked in list and not in before: the same list with more asked.
NewlyAsked(before, list) ==
  {list[i].client : i \in {j \in DOMAIN list : list[j].asked /\ ~before[j].asked}}

Sent(flight, cs, n) ==
  [c \in Clients |-> IF c \in cs THEN [flight[c] EXCEPT ![n] = @ + 1] ELSE flight[c]]

Received(c, n) == [inFlight EXCEPT ![c][n] = @ - 1]

-----------------------------------------------------------------------------
(* Capabilities of a resource.                                               *)

\* Defect: capabilities of an older presence are added to those of a newer one.
SetCapabilitiesMixed(r, caps, s) ==
  IF r.online THEN [r EXCEPT !.caps = @ \cup caps, !.serial = IF s > @ THEN s ELSE @]
  ELSE r

SetCapabilities(r, caps, s) ==
  IF ~r.online \/ s < r.serial THEN r
  ELSE [r EXCEPT !.caps = IF s > r.serial THEN caps ELSE @ \cup caps,
                 !.serial = s]

\* gabble_presence_peek_caps: the union over the contact's resources.
Online(rs, ct) == \E c \in Clients : Owner[c] = ct /\ rs[c].online
Capable(rs, ct) == \E c \in Clients : Owner[c] = ct /\ rs[c].caps \cap AV # {}

-----------------------------------------------------------------------------
(* Stream requests of a media channel that wait to be sure of the contact.   *)
(* At most one channel per contact asks: that is enough to see who is told.  *)

CapsPending(pend, ct) ==
  \E n \in Nodes : \E w \in WaitersOf(pend[n]) : Owner[w.client] = ct

IsUnsure(rs, pend, uns, dec, ct) ==
  \/ uns /\ ~Online(rs, ct)
  \/ CapsPending(pend, ct)
  \/ ct \in dec

\* media_channel_request_streams, for the contacts of who: the call is made,
\* waits, asks the contact to decloak and waits for that, or fails.
RequestStreamsFor(who, rs, pend, uns, dec) ==
  LET sure == {ct \in who : ~Capable(rs, ct) /\ ~IsUnsure(rs, pend, uns, dec, ct)}
      asking == {ct \in sure : ct \notin tried /\ ~Online(rs, ct)}
  IN  /\ call' = [ct \in Contacts |->
                    IF ct \notin who THEN call[ct]
                    ELSE IF Capable(rs, ct) THEN "accepted"
                    ELSE IF ct \in sure \ asking THEN "failed"
                    ELSE "waiting"]
      /\ decloak' = dec \cup asking
      /\ tried' = tried \cup asking

\* Defect: the waiting calls are looked at before the waiters are taken away.
CapabilitiesDiscoveredEarly(cts, rs, pend) ==
  RequestStreamsFor({ct \in cts : call[ct] = "waiting"
                                  /\ ~IsUnsure(rs, pending, unsure, decloak, ct)},
                    rs, pend, unsure, decloak)

\* emit_capabilities_discovered and capabilities_discovered_cb.
CapabilitiesDiscovered(cts, rs, pend) ==
  RequestStreamsFor({ct \in cts : call[ct] = "waiting"
                                  /\ ~IsUnsure(rs, pend, unsure, decloak, ct)},
                    rs, pend, unsure, decloak)

RequestStreams(ct) ==
  /\ call[ct] = "idle"
  /\ RequestStreamsFor({ct}, res, pending, unsure, decloak)
  /\ UNCHANGED <<env, cacheVars, unsure, history>>

\* Defect: the calls that wait for the initial presences are not looked at.
EndUnsurePeriodSilent ==
  /\ unsure
  /\ unsure' = FALSE
  /\ UNCHANGED <<env, cacheVars, decloak, callVars, history>>

EndUnsurePeriod ==
  /\ unsure
  /\ unsure' = FALSE
  /\ RequestStreamsFor({ct \in Contacts : call[ct] = "waiting"},
                       res, pending, FALSE, decloak)
  /\ UNCHANGED <<env, cacheVars, history>>

DecloakTimeout(ct) ==
  /\ ct \in decloak
  /\ LET dec == decloak \ {ct}
     IN  RequestStreamsFor({x \in {ct} : call[x] = "waiting"
                                         /\ ~IsUnsure(res, pending, unsure, dec, x)},
                           res, pending, unsure, dec)
  /\ UNCHANGED <<env, cacheVars, unsure, history>>

-----------------------------------------------------------------------------
(* Presence.                                                                 *)

\* What one URI of a <c/> does to s, the resource, waiters and requests so far.
Known(c, n) ==
  \/ cached[n] # {}
  \/ info[n].trust >= EnoughTrust
  \/ Owner[c] \in info[n].guys

KnownCaps(n) ==
  CHOOSE r \in Replies \cup {Means[n]} :
    r \in (IF cached[n] # {} THEN cached[n] ELSE info[n].caps)

\* Defect: a client that waits already keeps the serial of its older presence.
ProcessKeepsSerial(c, hashed, s, n) ==
  IF Known(c, n) THEN [s EXCEPT !.r = SetCapabilities(@, KnownCaps(n), serial)]
  ELSE IF ~hashed /\ n \in GoogleExts
  THEN [s EXCEPT !.r = SetCapabilities(@, Means[n], serial)]
  ELSE IF MatchingWaiters(s.pend[n], c) # {} THEN s
  ELSE LET w == [client |-> c, serial |-> serial, asked |-> FALSE, hashed |-> hashed]
           new == <<w>> \o s.pend[n]
           ask == info[n].trust + RequestCount(new) < EnoughTrust
       IN  [s EXCEPT !.pend[n] = IF ask THEN Ask(new, 1) ELSE new,
                     !.flight = IF ask THEN Sent(@, {c}, n) ELSE @]

ProcessCapsUri(c, hashed, s, n) ==
  IF Known(c, n) THEN [s EXCEPT !.r = SetCapabilities(@, KnownCaps(n), serial)]
  ELSE IF ~hashed /\ n \in GoogleExts
  THEN [s EXCEPT !.r = SetCapabilities(@, Means[n], serial)]
  ELSE IF MatchingWaiters(s.pend[n], c) # {}
  THEN [s EXCEPT !.pend[n] = [i \in DOMAIN @ |->
          IF @[i].client = c THEN [@[i] EXCEPT !.serial = serial] ELSE @[i]]]
  ELSE LET w == [client |-> c, serial |-> serial, asked |-> FALSE, hashed |-> hashed]
           new == <<w>> \o s.pend[n]
           ask == info[n].trust + RequestCount(new) < EnoughTrust
       IN  [s EXCEPT !.pend[n] = IF ask THEN Ask(new, 1) ELSE new,
                     !.flight = IF ask THEN Sent(@, {c}, n) ELSE @]

\* An available presence; the server may have left the <c/> out (no URIs).
Available(c, ad) ==
  /\ serial <= env.presences
  /\ LET s == FoldLeft(LAMBDA x, n : ProcessCapsUri(c, ad.hashed, x, n),
                       [r |-> [res[c] EXCEPT !.online = TRUE],
                        pend |-> pending, flight |-> inFlight],
                       ad.uris)
     IN  /\ res' = [res EXCEPT ![c] = s.r]
         /\ pending' = s.pend
         /\ inFlight' = s.flight
  /\ serial' = serial + 1
  /\ decloak' = decloak \ {Owner[c]}
  /\ IF ad.uris = <<>> THEN UNCHANGED <<last, adverts, gaveUp>>
     ELSE /\ last' = [last EXCEPT ![c] = [serial |-> serial, uris |-> ad.uris]]
          /\ adverts' = adverts \cup {[client |-> c, serial |-> serial, uris |-> ad.uris]}
          /\ gaveUp' = gaveUp \ {c}
  /\ UNCHANGED <<env, info, complete, cached, unsure, callVars, said, failed, overtaken>>

\* Defect: the resource goes away but its capabilities stay.
UnavailableKeepsCaps(c) ==
  /\ res[c].online \/ Owner[c] \in decloak
  /\ res' = [res EXCEPT ![c].online = FALSE]
  /\ decloak' = decloak \ {Owner[c]}
  /\ last' = [last EXCEPT ![c] = NoAdvert]
  /\ UNCHANGED <<env, serial, info, complete, pending, inFlight, cached, unsure, callVars,
                 adverts, said, gaveUp, failed, overtaken>>

Unavailable(c) ==
  /\ res[c].online \/ Owner[c] \in decloak
  /\ res' = [res EXCEPT ![c] = NoResource]
  /\ decloak' = decloak \ {Owner[c]}
  /\ last' = [last EXCEPT ![c] = NoAdvert]
  /\ UNCHANGED <<env, serial, info, complete, pending, inFlight, cached, unsure, callVars,
                 adverts, said, gaveUp, failed, overtaken>>

-----------------------------------------------------------------------------
(* Answers to disco requests.                                                *)

\* Defect: every answer counts, also a second one of the same contact.
InfoRecvdCountsTwice(i, ct, r, inc) ==
  IF i.caps = {r} THEN [i EXCEPT !.guys = @ \cup {ct}, !.trust = @ + inc]
  ELSE [caps |-> {r}, guys |-> {ct}, trust |-> inc]

InfoRecvd(i, ct, r, inc) ==
  LET old == IF i.caps = {r} THEN i ELSE [caps |-> {r}, guys |-> {}, trust |-> 0]
  IN  IF ct \in old.guys THEN old
      ELSE [old EXCEPT !.guys = @ \cup {ct}, !.trust = @ + inc]

\* Defect: the hash of an answer is not compared with the one announced.
GoodHashUnchecked(w, n, r) == TRUE

GoodHash(w, n, r) == w.hashed => r = Means[n]

ReplyIgnored(c, n, r) ==
  /\ inFlight[c][n] > 0
  /\ MatchingWaiters(pending[n], c) = {}
  /\ inFlight' = Received(c, n)
  /\ UNCHANGED <<env, res, serial, info, complete, pending, cached, unsure, decloak,
                 callVars, history>>

\* Defect: the waiters stay in disco_pending once they have been served.
TrustedKeepsWaiters(n, r) ==
  /\ cached' = [cached EXCEPT ![n] = {r}]
  /\ res' = [c \in Clients |->
               IF \E w \in WaitersOf(pending[n]) : w.client = c
               THEN SetCapabilities(res[c], r, (CHOOSE w \in WaitersOf(pending[n]) :
                                                  w.client = c).serial)
               ELSE res[c]]
  /\ pending' = pending
  /\ CapabilitiesDiscovered({Owner[w.client] : w \in WaitersOf(pending[n])}, res', pending')

\* The node is trusted: everybody who waits for it is served.
Trusted(n, r) ==
  /\ cached' = [cached EXCEPT ![n] = {r}]
  /\ res' = [c \in Clients |->
               IF \E w \in WaitersOf(pending[n]) : w.client = c
               THEN SetCapabilities(res[c], r, (CHOOSE w \in WaitersOf(pending[n]) :
                                                  w.client = c).serial)
               ELSE res[c]]
  /\ pending' = [pending EXCEPT ![n] = <<>>]
  /\ CapabilitiesDiscovered({Owner[w.client] : w \in WaitersOf(pending[n])}, res', pending')

\* Defect: the list of waiters is not put back once it has been stolen.
NotYetTrustedLosesList(c, w, n, r, trust) ==
  /\ res' = IF GoodHash(w, n, r)
            THEN [res EXCEPT ![c] = SetCapabilities(@, r, w.serial)] ELSE res
  /\ pending' = [pending EXCEPT ![n] = <<>>]
  /\ inFlight' = Received(c, n)
  /\ CapabilitiesDiscovered({Owner[c]}, res', pending')

\* The node is not trusted yet: the client that answered is served, unless its
\* hash was wrong, and others may be asked.
NotYetTrusted(c, w, n, r, trust) ==
  LET rest == SelectSeq(pending[n], LAMBDA x : x # w)
      list == AskForEnough(rest, trust)
  IN  /\ res' = IF GoodHash(w, n, r)
                THEN [res EXCEPT ![c] = SetCapabilities(@, r, w.serial)] ELSE res
      /\ pending' = [pending EXCEPT ![n] = list]
      /\ inFlight' = Sent(Received(c, n), NewlyAsked(rest, list), n)
      /\ CapabilitiesDiscovered({Owner[c]}, res', pending')

Reply(c, n, r) ==
  /\ inFlight[c][n] > 0
  /\ \E w \in MatchingWaiters(pending[n], c) :
       LET i == IF ~GoodHash(w, n, r) THEN info[n]
                ELSE InfoRecvd(info[n], Owner[c], r, IF w.hashed THEN EnoughTrust ELSE 1)
           trust == IF GoodHash(w, n, r) THEN i.trust ELSE 0
       IN  /\ info' = [info EXCEPT ![n] = i]
           /\ \/ /\ trust >= EnoughTrust
                 /\ Trusted(n, r)
                 /\ inFlight' = Received(c, n)
              \/ /\ trust < EnoughTrust
                 /\ NotYetTrusted(c, w, n, r, trust)
                 /\ UNCHANGED cached
           /\ gaveUp' = IF GoodHash(w, n, r) THEN gaveUp ELSE gaveUp \cup {c}
  /\ said' = said \cup {<<Owner[c], n, r>>}
  /\ UNCHANGED <<env, serial, complete, unsure, last, adverts, failed, overtaken>>

\* disco_failed: ask the next waiter, or give the node up for all of them.
Failed(c, n) ==
  /\ inFlight[c][n] > 0
  /\ \/ \E i \in FirstUnasked(pending[n]) :
          /\ pending' = [pending EXCEPT ![n] = Ask(@, i)]
          /\ inFlight' = Sent(Received(c, n), {pending[n][i].client}, n)
          /\ UNCHANGED gaveUp
     \/ /\ FirstUnasked(pending[n]) = {}
        /\ pending' = [pending EXCEPT ![n] = <<>>]
        /\ inFlight' = Received(c, n)
        /\ gaveUp' = gaveUp \cup {w.client : w \in WaitersOf(pending[n])}
  /\ failed' = failed \cup {n}
  /\ UNCHANGED <<env, res, serial, info, complete, cached, unsure, decloak, callVars,
                 last, adverts, said, overtaken>>

\* Defect: our own node is no more trusted than before.
AddOwnCapsUntrusted(n) ==
  /\ n \in env.own \ complete
  /\ complete' = complete \cup {n}
  /\ info' = [info EXCEPT ![n].caps = {Means[n]}, ![n].guys = @ \cup {Self}]
  /\ overtaken' = overtaken \cup
       {x \in {n} : \E w \in WaitersOf(pending[x]) : ~w.hashed}
  /\ UNCHANGED <<env, res, serial, pending, inFlight, cached, unsure, decloak, callVars,
                 last, adverts, said, gaveUp, failed>>

\* Our own capabilities change to the set named n.  The waiters for n are not
\* served, and an answer to one of them is taken as if n were not ours: one
\* that was given no hash may bring another meaning (InfoRecvd).
AddOwnCaps(n) ==
  /\ n \in env.own \ complete
  /\ complete' = complete \cup {n}
  /\ info' = [info EXCEPT ![n] = [caps |-> {Means[n]}, guys |-> @.guys \cup {Self},
                                  trust |-> EnoughTrust]]
  /\ overtaken' = overtaken \cup
       {x \in {n} : \E w \in WaitersOf(pending[x]) : ~w.hashed}
  /\ UNCHANGED <<env, res, serial, pending, inFlight, cached, unsure, decloak, callVars,
                 last, adverts, said, gaveUp, failed>>

-----------------------------------------------------------------------------
Answer(c, n) == \/ \E r \in Replies : ReplyIgnored(c, n, r) \/ Reply(c, n, r)
                \/ Failed(c, n)

Next ==
  \/ \E c \in env.clients : \E ad \in env.adverts : Available(c, ad)
  \/ \E c \in env.clients : Unavailable(c)
  \/ \E c \in env.clients, n \in Nodes : Answer(c, n)
  \/ \E n \in Nodes : AddOwnCaps(n)
  \/ \E ct \in env.callees : RequestStreams(ct) \/ DecloakTimeout(ct)
  \/ EndUnsurePeriod

Spec == Init /\ [][Next]_vars

(* The disco module answers every request, at the latest when it times out,  *)
(* and GLib runs the timers that have run out.  Only finitely many requests  *)
(* are made, so it is enough that some request is answered while there is    *)
(* one.                                                                      *)
Fairness ==
  /\ WF_vars(\E c \in env.clients, n \in Nodes : Answer(c, n))
  /\ WF_vars(\E ct \in env.callees : DecloakTimeout(ct))
  /\ WF_vars(EndUnsurePeriod)

FairSpec == Spec /\ Fairness

-----------------------------------------------------------------------------
(* The variables keep to their types.  A waiter is listed once per node and  *)
(* client, and the guys of a node have its capabilities.                     *)
TypeOK ==
  /\ \A c \in Clients : /\ res[c] \in [online : BOOLEAN, caps : SUBSET Features, serial : Nat]
                        /\ ~res[c].online => res[c] = NoResource
  /\ serial \in 1..(env.presences + 1)
  /\ \A n \in Nodes :
       /\ info[n].caps \subseteq Replies \cup {Means[n]}
       /\ Cardinality(info[n].caps) <= 1
       /\ info[n].caps = {} => info[n].guys = {} /\ info[n].trust = 0
       /\ info[n].guys \subseteq Contacts \cup {Self}
       /\ pending[n] \in Seq(Waiter)
       /\ \A i, j \in DOMAIN pending[n] :
            pending[n][i].client = pending[n][j].client => i = j
       /\ cached[n] \subseteq Replies
  /\ complete \subseteq env.own
  /\ inFlight \in [Clients -> [Nodes -> Nat]]
  /\ unsure \in BOOLEAN
  /\ decloak \subseteq Contacts
  /\ call \in [Contacts -> {"idle", "waiting", "accepted", "failed"}]
  /\ tried \subseteq Contacts

(* A node is trusted only for the set it is the hash of (or that was built   *)
(* in, or is our own), or because EnoughTrust different contacts answered    *)
(* exactly the set it is trusted for; two resources of one contact, or two   *)
(* answers of it, never count twice.  The same goes for the shared cache.    *)
TrustIsEarned ==
  \A n \in Nodes :
    \A r \in (IF info[n].trust >= EnoughTrust THEN info[n].caps ELSE {}) \cup cached[n] :
      \/ r = Means[n]
      \/ Cardinality({ct \in Contacts : <<ct, n, r>> \in said}) >= EnoughTrust

(* The capabilities of a resource come from one presence of that client,     *)
(* whatever order the answers arrived in, and each of them was told by the   *)
(* contact itself, or by as many as make the node trusted, or is known from  *)
(* the node's name: nobody else's word is enough to change them.             *)
CapsAreJustified ==
  \A c \in Clients : \A f \in res[c].caps :
    \E a \in adverts : \E n \in {a.uris[i] : i \in DOMAIN a.uris} :
      /\ a.client = c
      /\ a.serial = res[c].serial
      /\ \/ f \in Means[n]
         \/ \E r \in Replies :
              /\ f \in r
              /\ \/ <<Owner[c], n, r>> \in said
                 \/ Cardinality({ct \in Contacts : <<ct, n, r>> \in said}) >= EnoughTrust

(* The last <c/> of an online client is never forgotten: its meaning has     *)
(* been applied, or the client is waiting for it under that presence's       *)
(* serial, or the discovery has failed.                                      *)
LastPresenceCounts ==
  \A c \in Clients :
    last[c].uris # <<>> =>
      \/ res[c].serial = last[c].serial
      \/ \E n \in Nodes : \E w \in MatchingWaiters(pending[n], c) :
           w.serial = last[c].serial
      \/ c \in gaveUp

(* What is trusted stays trusted: no later answer, of a client asked before  *)
(* the node was trusted or of one that comes later, changes its meaning      *)
(* (capability_info_recvd).  Only our own word replaces what two contacts    *)
(* had agreed on, when the node becomes ours (add_own_caps).  Nodes that     *)
(* became ours while a waiter without a hash was pending are left out: its   *)
(* answer does change them (OwnCapsUntouched).                               *)
TrustIsKept ==
  [][\A n \in Nodes \ overtaken : info[n].trust >= EnoughTrust =>
       /\ info'[n].trust >= EnoughTrust
       /\ info'[n].caps = (IF n \in complete' \ complete THEN {Means[n]}
                                                        ELSE info[n].caps)]_vars

(* What we tell others that one of our own nodes means is what it means:     *)
(* gabble_presence_cache_peek_own_caps returns a set "if we know exactly     *)
(* what @ver means".  The code keeps this unless a waiter without a hash was *)
(* pending when the node became ours (overtaken); even then only an answer   *)
(* that a contact listed for the node really gave takes our set's place.     *)
OwnCapsUntouched ==
  \A n \in complete :
    info[n].caps # {Means[n]} =>
      /\ n \in overtaken
      /\ \E ct \in info[n].guys : \A r \in info[n].caps : <<ct, n, r>> \in said

(* As long as somebody waits for a node and has not been asked, enough       *)
(* requests are unanswered to make the node trusted, or the next answer will *)
(* have others asked ("Ensure that we have enough pending requests").  This  *)
(* and what follows are said of nodes about which no request has failed:     *)
(* disco_failed keeps a failed waiter as if it were still asked.             *)
NobodyStarves ==
  \A n \in Nodes \ failed :
    FirstUnasked(pending[n]) # {} => \E c \in Clients : inFlight[c][n] > 0

(* An unanswered request to an online client about a node of its last <c/>   *)
(* has the client's waiter waiting for the answer, unless its capabilities   *)
(* have come from somewhere else: no answer we asked for is thrown away.     *)
AnswersAreAwaited ==
  \A c \in Clients, n \in Nodes \ failed :
    /\ inFlight[c][n] > 0
    /\ \E i \in DOMAIN last[c].uris : last[c].uris[i] = n
    => \/ MatchingWaiters(pending[n], c) # {}
       \/ res[c].serial = last[c].serial

(* A stream request waits only while there is something to wait for that     *)
(* ends with a signal to it: the unsure period, or capabilities being        *)
(* discovered.  (A presence takes away the de-cloak request that a channel   *)
(* waits for without a signal: channels that have tried to decloak the       *)
(* contact are left out.)                                                    *)
CallsAreWoken ==
  failed = {} =>
    \A ct \in Contacts \ tried :
      call[ct] = "waiting" => unsure \/ IsUnsure(res, pending, unsure, decloak, ct)

(* Whoever waits for the meaning of a node is served or given up in the end: *)
(* again and again nobody waits.                                             *)
EveryWaiterServed == []<>(\A n \in Nodes \ failed : pending[n] = <<>>)

(* A stream request that did not need decloaking is answered in the end.     *)
EveryCallDecided ==
  []<>(failed = {} => \A ct \in Contacts \ tried : call[ct] # "waiting")

\* Capabilities: the state is well formed, a node is trusted because of its hash, our
\* own caps or enough contacts, a resource has only capabilities so justified, of
\* its own last presence, and our own nodes mean our own caps unless they were
\* overtaken (_caps_disco_cb, _process_caps_uri, add_own_caps).
CapsSound ==
    /\ TypeOK
    /\ TrustIsEarned
    /\ CapsAreJustified
    /\ LastPresenceCounts
    /\ OwnCapsUntouched

\* Waiting: whoever waits for a node's meaning has somebody asked, an answer finds
\* its waiter, and a call that waits for capabilities is decided once they are
\* known (disco_pending, media-channel.c).
WaitersTracked ==
    /\ NobodyStarves
    /\ AnswersAreAwaited
    /\ CallsAreWoken

\* Liveness: every waiter for capabilities and every waiting call is served.
EveryoneServed ==
    /\ EveryWaiterServed
    /\ EveryCallDecided
=============================================================================
