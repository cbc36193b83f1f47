------------------------------ MODULE Avatars ------------------------------
(* Avatars (conn-avatars.c; the hashes in presences: presence-cache.c): tokens of  *)
(* our own avatar and of a contact's, avatars fetched by vCard, our own changed by  *)
(* SetAvatar or by another resource of ours, and the conflict that follows.          *)
EXTENDS Naturals, Sequences, FiniteSets

CONSTANTS AvatarScenes, AvatarCalls   \* AvatarCalls names the D-Bus calls a client makes

VARIABLES
  avatarScene, \* what may change, what the client calls, what fails
  av,          \* avatar_sha1 of each, what was told, broadcast and is under way
  cards,       \* the vCard manager: cached photos and the callbacks that wait for one
  photoOf,     \* the server's vCards
  up2srv,      \* requests on their way to the server, oldest first
  srv2us,      \* presences and replies on their way to us, oldest first
  acall        \* the client's calls

avatarVars == <<avatarScene, av, cards, photoOf, up2srv, srv2us, acall>>

Who == {"me", "pal"}
\* a hash stands for its photo: "null" is not known, "" is no photo
NoPhoto == ""

AvatarInit ==
  /\ avatarScene \in AvatarScenes
  /\ av = [hash |-> [c \in Who |-> "null"], told |-> [c \in Who |-> "null"], sent |-> "null",
           haveSelf |-> FALSE, resetting |-> FALSE, fetching |-> {}, left |-> avatarScene.changes, mismatch |-> FALSE,
           raced |-> FALSE, failed |-> FALSE]
  /\ photoOf = [c \in Who |-> IF c = "me" THEN avatarScene.first ELSE "p0"]
  /\ cards = [cache |-> [c \in Who |-> "null"], waiting |-> [c \in Who |-> IF c = "me" THEN <<"initial">> ELSE <<>>]]
  /\ up2srv = <<[kind |-> "get", who |-> "me", photo |-> "null", call |-> "none"]>>
  /\ srv2us = <<>>
  /\ acall = [k \in AvatarCalls |-> [kind |-> "none", who |-> "me", pal |-> "null", state |-> "idle", got |-> "null"]]

AvIq(kind, who, photo, call) == [kind |-> kind, who |-> who, photo |-> photo, call |-> call]

\* gabble_vcard_manager_request: one request per contact is on its way.
AskCard(cc, out, c, why) ==
  /\ cards' = [cc EXCEPT !.waiting[c] = Append(@, why)]
  /\ up2srv' = IF cc.waiting[c] = <<>> THEN Append(out, AvIq("get", c, "null", "none")) ELSE out

-----------------------------------------------------------------------------
\* update_own_avatar_sha1: the new token is told and goes out with our presence.
UpdateOwnQuietly(a, sha1) == IF a.hash["me"] = sha1 THEN a ELSE [a EXCEPT !.told["me"] = sha1, !.hash["me"] = sha1]
UpdateOwn(a, sha1) ==
  IF a.hash["me"] = sha1 THEN a ELSE [a EXCEPT !.told["me"] = sha1, !.hash["me"] = sha1, !.sent = sha1]

\* connection_avatar_update_cb
AvatarUpdated(a, c, sha1) == IF c = "me" THEN UpdateOwn(a, sha1) ELSE [a EXCEPT !.told[c] = sha1]

\* self_avatar_resolve_conflict: another resource changed the avatar; our presence says
\* nothing of it until our own vCard has been read again.
ResolveConflict ==
  IF av.resetting THEN av' = [av EXCEPT !.raced = TRUE] /\ UNCHANGED <<cards, up2srv>>
  ELSE /\ av' = [av EXCEPT !.resetting = TRUE, !.hash["me"] = "null", !.sent = "null"]
       /\ AskCard([cards EXCEPT !.cache["me"] = "null"], up2srv, "me", "conflict")

\* _grab_avatar_sha1
HashStale(c, sha1) == av' = [av EXCEPT !.hash[c] = sha1, !.told[c] = sha1] /\ UNCHANGED cards
HashChanged(c, sha1) ==
  /\ av' = AvatarUpdated([av EXCEPT !.hash[c] = sha1], c, sha1)
  /\ cards' = [cards EXCEPT !.cache[c] = "null"]
PresenceHeard ==
  /\ srv2us # <<>> /\ Head(srv2us).kind = "presence"
  /\ srv2us' = Tail(srv2us)
  /\ LET m == Head(srv2us)
     IN IF av.hash[m.who] = m.photo THEN UNCHANGED <<av, cards, up2srv>>
        ELSE IF m.who = "me" THEN ResolveConflict
        ELSE HashChanged(m.who, m.photo) /\ UNCHANGED up2srv
  /\ UNCHANGED <<avatarScene, photoOf, acall>>

-----------------------------------------------------------------------------
\* parse_avatar: a vCard without a photo, or none at all, has no avatar to hand over.
ParseAvatar(photo) == photo # "failed" /\ photo # NoPhoto

\* _request_avatar_cb: a photo whose hash the presence does not give is not handed over;
\* the token is corrected instead.
AnswerAvatar(a, c, photo) ==
  IF ~ParseAvatar(photo) THEN [av |-> a, answer |-> "error"]
  ELSE IF a.hash[c] # photo /\ (c = "me" \/ a.told[c] # "null")
  THEN [av |-> IF c = "me" THEN UpdateOwn(a, photo) ELSE [a EXCEPT !.hash[c] = photo, !.told[c] = photo], answer |-> "error"]
  ELSE [av |-> a, answer |-> photo]
Reply(cl, k, answer) == [cl EXCEPT ![k].state = "answered", ![k].got = answer]

\* _got_self_avatar_for_get_avatar_tokens, _got_self_avatar_for_get_known_avatar_tokens
TokensKnown(cl, sha1) ==
  [k \in AvatarCalls |-> IF cl[k].state = "self" THEN [cl[k] EXCEPT !.state = "answered", !.got = sha1] ELSE cl[k]]

\* initial_request_cb
InitialCard(s, photo) ==
  IF photo = "failed" THEN [s EXCEPT !.av.failed = TRUE]
  ELSE [av |-> UpdateOwn([s.av EXCEPT !.haveSelf = TRUE], photo), calls |-> TokensKnown(s.calls, photo)]

\* self_vcard_request_cb
ConflictCard(s, photo) ==
  IF photo = "failed" THEN [s EXCEPT !.av.resetting = FALSE, !.av.failed = TRUE]
  ELSE [s EXCEPT !.av = UpdateOwn([@ EXCEPT !.resetting = FALSE], photo)]

\* request_avatars_cb
FetchedCard(s, c) == [s EXCEPT !.av.fetching = @ \ {c}]

AvatarCard(s, k, c, photo) ==
  LET r == AnswerAvatar(s.av, c, photo)
  IN [av |-> [r.av EXCEPT !.mismatch = @ \/ (r.answer # "error" /\ c = "pal" /\ r.av.told[c] \notin {"null", r.answer})],
      calls |-> Reply(s.calls, k, r.answer)]

Callback(s, why, c, photo) ==
  CASE why = "initial" -> InitialCard(s, photo)
    [] why = "conflict" -> ConflictCard(s, photo)
    [] why = "fetch" -> FetchedCard(s, c)
    [] OTHER -> AvatarCard(s, why, c, photo)

\* pipeline_reply_cb, cache_entry_complete_requests: the vCard is cached, then the
\* callbacks run in order.
RunAll(s, whys, c, photo) ==
  LET one == Callback(s, whys[1], c, photo)
      two == IF Len(whys) > 1 THEN Callback(one, whys[2], c, photo) ELSE one
  IN IF Len(whys) > 2 THEN Callback(two, whys[3], c, photo) ELSE two
CardArrives ==
  /\ srv2us # <<>> /\ Head(srv2us).kind = "card"
  /\ LET m == Head(srv2us)
         done == RunAll([av |-> av, calls |-> acall], cards.waiting[m.who], m.who, m.photo)
     IN /\ av' = done.av
        /\ acall' = done.calls
        /\ cards' = [cards EXCEPT !.cache[m.who] = IF m.photo = "failed" THEN "null" ELSE m.photo, !.waiting[m.who] = <<>>]
  /\ srv2us' = Tail(srv2us)
  /\ UNCHANGED <<avatarScene, photoOf, up2srv>>

-----------------------------------------------------------------------------
Free(k) == acall[k].state = "idle"

\* what a token that is not known is shown as
Shown(sha1) == IF sha1 = "null" THEN NoPhoto ELSE sha1

\* gabble_connection_get_avatar_tokens, for us and for the contact; our own is waited for.
GetTokens(k) ==
  /\ "tokens" \in avatarScene.calls /\ Free(k)
  /\ acall' = [acall EXCEPT ![k] = [kind |-> "tokens", who |-> "me", pal |-> Shown(av.hash["pal"]),
                                    got |-> IF av.haveSelf THEN Shown(av.hash["me"]) ELSE "null",
                                    state |-> IF av.haveSelf THEN "answered" ELSE "self"]]
  /\ UNCHANGED <<avatarScene, av, cards, photoOf, up2srv, srv2us>>

\* gabble_connection_get_known_avatar_tokens: the same, but a contact whose presence is
\* not known is left out of the answer.
GetKnownTokens(k) ==
  /\ "known" \in avatarScene.calls /\ Free(k)
  /\ acall' = [acall EXCEPT ![k] = [kind |-> "known", who |-> "me", pal |-> av.hash["pal"],
                                    got |-> IF av.haveSelf THEN Shown(av.hash["me"]) ELSE "null",
                                    state |-> IF av.haveSelf THEN "answered" ELSE "self"]]
  /\ UNCHANGED <<avatarScene, av, cards, photoOf, up2srv, srv2us>>

\* gabble_connection_request_avatar
RequestAvatar(k, c) ==
  /\ "avatar" \in avatarScene.calls /\ Free(k) /\ Len(cards.waiting[c]) < 3
  /\ IF cards.cache[c] # "null"
     THEN LET r == AnswerAvatar(av, c, cards.cache[c])
          IN /\ av' = r.av
             /\ acall' = [acall EXCEPT ![k] = [kind |-> "avatar", who |-> c, pal |-> "null", state |-> "answered", got |-> r.answer]]
             /\ UNCHANGED <<cards, up2srv>>
     ELSE /\ acall' = [acall EXCEPT ![k] = [kind |-> "avatar", who |-> c, pal |-> "null", state |-> "card", got |-> "null"]]
          /\ AskCard(cards, up2srv, c, k)
          /\ UNCHANGED av
  /\ UNCHANGED <<avatarScene, photoOf, srv2us>>

\* gabble_connection_request_avatars: one fetch per contact is under way.
FetchAgain(c) == TRUE
FetchNow(c) == c \notin av.fetching
RequestAvatars(c) ==
  /\ "fetch" \in avatarScene.calls /\ cards.cache[c] = "null" /\ Len(cards.waiting[c]) < 3 /\ FetchNow(c)
  /\ av' = [av EXCEPT !.fetching = @ \cup {c}]
  /\ AskCard(cards, up2srv, c, "fetch")
  /\ UNCHANGED <<avatarScene, photoOf, srv2us, acall>>

\* gabble_connection_set_avatar, gabble_connection_clear_avatar: an edit of our vCard.
SetAvatar(k) ==
  \E photo \in {"p2", NoPhoto} :
    /\ "set" \in avatarScene.calls /\ Free(k)
    /\ acall' = [acall EXCEPT ![k] = [kind |-> "set", who |-> "me", pal |-> "null", state |-> "edit", got |-> photo]]
    /\ up2srv' = Append(up2srv, AvIq("set", "me", photo, k))
    /\ cards' = [cards EXCEPT !.cache["me"] = "null"]
    /\ UNCHANGED <<avatarScene, av, photoOf, srv2us>>

\* _set_avatar_cb2: the token becomes the photo's and our presence says so.
Patched(a, photo) ==
  [a EXCEPT !.hash["me"] = IF photo = NoPhoto THEN "null" ELSE photo, !.sent = IF photo = NoPhoto THEN "null" ELSE photo,
            !.told["me"] = IF photo = NoPhoto THEN "null" ELSE photo]
EditArrives ==
  /\ srv2us # <<>> /\ Head(srv2us).kind = "edited"
  /\ LET m == Head(srv2us)
     IN IF m.photo = "failed" THEN acall' = Reply(acall, m.call, "error") /\ UNCHANGED <<av, cards>>
        ELSE /\ av' = Patched(av, m.photo)
             /\ acall' = Reply(acall, m.call, m.photo)
             /\ cards' = [cards EXCEPT !.cache["me"] = m.photo]
  /\ srv2us' = Tail(srv2us)
  /\ UNCHANGED <<avatarScene, photoOf, up2srv>>

-----------------------------------------------------------------------------
\* The server answers in order; a refusal leaves the vCard as it was.
ServerAnswers ==
  \E ok \in {TRUE, ~avatarScene.fails} :
    /\ up2srv # <<>>
    /\ LET m == Head(up2srv)
       IN IF m.kind = "get"
          THEN srv2us' = Append(srv2us, AvIq("card", m.who, IF ok THEN photoOf[m.who] ELSE "failed", "none")) /\ UNCHANGED photoOf
          ELSE /\ photoOf' = IF ok THEN [photoOf EXCEPT !["me"] = m.photo] ELSE photoOf
               /\ srv2us' = Append(srv2us, AvIq("edited", "me", IF ok THEN m.photo ELSE "failed", m.call))
    /\ up2srv' = Tail(up2srv)
    /\ UNCHANGED <<avatarScene, av, cards, acall>>

\* The contact, or another resource of ours, takes a photo and says so in its presence.
ElsewhereChanged(c) ==
  \E photo \in avatarScene.photos :
    /\ c \in avatarScene.changing /\ av.left > 0 /\ photoOf[c] # photo
    /\ av' = [av EXCEPT !.left = @ - 1]
    /\ photoOf' = [photoOf EXCEPT ![c] = photo]
    /\ srv2us' = Append(srv2us, AvIq("presence", c, photo, "none"))
    /\ UNCHANGED <<avatarScene, cards, up2srv, acall>>

AvatarNext ==
  \/ PresenceHeard \/ CardArrives \/ EditArrives \/ ServerAnswers
  \/ \E c \in Who : RequestAvatars(c) \/ ElsewhereChanged(c)
  \/ \E k \in AvatarCalls : GetTokens(k) \/ GetKnownTokens(k) \/ SetAvatar(k) \/ (\E c \in Who : RequestAvatar(k, c))

-----------------------------------------------------------------------------
Quiet == up2srv = <<>> /\ srv2us = <<>>

\* Our presence carries the token we tell, also while another resource's change is
\* being resolved, when both are withheld or still the old one
\* (update_own_avatar_sha1, self_avatar_resolve_conflict, _set_avatar_cb2).
OwnTokenBroadcast == av.sent = av.hash["me"] /\ (av.resetting \/ av.failed \/ av.told["me"] = av.hash["me"])

\* Once nothing is under way our token is that of our vCard, whoever changed it last;
\* changes of another resource that came while one was being resolved are excepted, as
\* the comment above avatar_reset_pending says.
OwnTokenSettles ==
  Quiet /\ ~av.raced /\ ~av.failed /\ ~av.resetting =>
    av.hash["me"] = photoOf["me"] \/ (av.hash["me"] = "null" /\ photoOf["me"] = NoPhoto)

\* A contact's avatar is never handed over under another token, and once nothing is
\* under way the token told is that of its photo (_request_avatar_cb, _grab_avatar_sha1).
AvatarMatchesToken == ~av.mismatch /\ (Quiet /\ av.told["pal"] # "null" => av.told["pal"] = photoOf["pal"])

\* A fetch is remembered exactly while its vCard is asked for, and every call that
\* waits has its callback (request_avatars_cb, _request_avatar_cb).
FetchesTracked ==
  /\ \A c \in Who : c \in av.fetching <=> \E i \in 1..Len(cards.waiting[c]) : cards.waiting[c][i] = "fetch"
  /\ \A c \in Who : Cardinality({i \in 1..Len(cards.waiting[c]) : cards.waiting[c][i] = "fetch"}) <= 1
  /\ \A k \in AvatarCalls : acall[k].state = "card" <=>
       \E c \in Who : \E i \in 1..Len(cards.waiting[c]) : cards.waiting[c][i] = k
  /\ \A c \in Who : cards.waiting[c] # <<>> => ~Quiet
  /\ \A k \in AvatarCalls : acall[k].state = "self" => ~av.haveSelf
  /\ \A k \in AvatarCalls : acall[k].kind \in {"tokens", "known"} /\ acall[k].state = "answered" => acall[k].got # "null"

AvatarsSound == OwnTokenBroadcast /\ OwnTokenSettles /\ AvatarMatchesToken /\ FetchesTracked
=============================================================================
