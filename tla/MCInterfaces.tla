---------------------------- MODULE MCInterfaces ----------------------------
(* The interfaces of a connection for TLC: own presence, OLPC activities, contact *)
(* search, one-to-one text, aliases, avatars, contact information, mail            *)
(* notification, locations and the link-local meta-porter.  In each behaviour one  *)
(* of them moves, as `part' says.                                                   *)
EXTENDS OwnPresence, OlpcActivities, Search, ImChannel, Aliases, Avatars, ContactInfo, MetaPorter, MailNotif, Location

VARIABLES part

\* Own presence: the server's way to be invisible, what it refuses, other clients.
Lists(i, g) == [x \in {"invisible", "invisible-gabble"} |-> IF x = "invisible" THEN i ELSE g]
Remembered(dnd, default) == [x \in {"dnd", "default"} |-> IF x = "dnd" THEN dnd ELSE default]
Available ==
  [features |-> {}, st |-> "available", lists |-> Lists("absent", "absent"), compat |-> TRUE, max |-> 2,
   asks |-> 3, others |-> 0, meddles |-> {}, refuses |-> {}, wants |-> Statuses, patient |-> FALSE,
   known |-> Remembered(<<>>, <<>>), knowns |-> {Remembered(<<>>, <<1>>)}, compats |-> {}]
MCPresenceScenes ==
  {[Available EXCEPT !.st = x, !.lists = Lists(l, "absent"), !.refuses = r] :
     x \in {"hidden", "available"}, l \in {"absent", "good", "bad"},
     r \in {{}, {"get list"}, {"create"}, {"lists"}, {"activate"}}}
  \cup {[Available EXCEPT !.st = x, !.features = f, !.refuses = r] :
          x \in {"hidden", "away"}, f \in {{"command"}, {"presence"}}, r \in {{}, {"lists"}, {"invisible"}}}
  \cup {[Available EXCEPT !.st = x, !.features = {"shared"}, !.compat = c, !.refuses = r, !.meddles = {"shared"},
                          !.others = n, !.asks = 3 - n, !.patient = TRUE, !.max = 1, !.compats = BOOLEAN] :
          x \in {"hidden", "away"}, c \in BOOLEAN, n \in 1..2, r \in {{}, {"get shared"}}}
  \cup {[Available EXCEPT !.st = x, !.lists = Lists("good", "absent"), !.meddles = {"list"}, !.others = 1, !.asks = 2] :
          x \in {"hidden", "available"}}

\* OLPC: which operations meet, and how many.
MCOlpcScenes ==
  {[steps |-> n[1], ops |-> n[2]] : n \in {
    <<4, {"set", "add", "props", "room", "heard"}>>,
    <<4, {"props", "add", "room", "respawn", "close", "set", "refuse"}>>,
    <<5, {"add", "room", "props", "invite", "join", "close", "heard"}>>,
    <<4, {"invited", "room", "offline", "their acts", "their current"}>>,
    <<3, {"invited", "set", "add", "bad set"}>>,
    <<4, {"add", "room", "props", "their props"}>>,
    <<3, {"get", "their acts", "offline", "their props", "their current"}>>,
    <<4, {"buddy", "current", "add"}>>}}

\* Searches: plain and extended forms, with fields nobody knows, Openfire's with its
\* search box and boxes to tick, or no directory.
Found(j, v, i) == [jid |-> j, valid |-> v, info |-> i]
Extended ==
  [xforms |-> TRUE, form |-> <<"nick", "given", "nickname", "odd">>, boxes |-> {}, servers |-> {"default", "given", "invalid"},
   directory |-> TRUE, errors |-> TRUE, disconnects |-> TRUE,
   items |-> <<Found("a", TRUE, 1), Found("b", FALSE, 2), Found("a", TRUE, 3)>>]
MCSearchScenes ==
  {Extended, [Extended EXCEPT !.directory = FALSE],
   [Extended EXCEPT !.form = <<"Username", "search", "nick", "nickname">>, !.boxes = {"Username", "nick"}, !.servers = {"given"}],
   [Extended EXCEPT !.xforms = FALSE, !.form = <<"first", "nick">>], [Extended EXCEPT !.xforms = FALSE]}

\* Text: what the contact sends, who sees us, what the presence cache knows.
Chat ==
  [visibleTo |-> {}, sendsUs |-> {}, hidden |-> FALSE, wantsReceipts |-> TRUE, refuses |-> FALSE,
   disconnects |-> TRUE, stanzas |-> {"body"}, presences |-> {"none"}]
MCImScenes ==
  {[Chat EXCEPT !.refuses = TRUE],
   [Chat EXCEPT !.visibleTo = {"a"}, !.presences = {"none", "receipts"}, !.stanzas = {"body", "error", "mute_error"}],
   [Chat EXCEPT !.presences = {"offline"}, !.stanzas = {"body", "state", "receipt"}],
   [Chat EXCEPT !.presences = {"states"}, !.stanzas = {"stated", "error"}, !.disconnects = FALSE],
   [Chat EXCEPT !.visibleTo = {"a"}, !.hidden = TRUE, !.presences = {"receipts"}, !.stanzas = {"body", "own"}]}

\* Aliases: with and without PEP, contacts of the list, of a room, and ourselves.
Everyone(x) == [c \in Pals |-> x]
Nicks ==
  [active |-> {"pal"}, cmAlias |-> TRUE, roomPals |-> {}, pep |-> TRUE, nicks |-> {"n1"}, spoken |-> {}, changes |-> 2,
   published |-> Everyone(TRUE), roster |-> Everyone("none"), asks |-> {<<"pal", "me">>, <<"pal">>}, disconnects |-> TRUE]
MCAliasScenes ==
  {[Nicks EXCEPT !.changes = 1, !.asks = {<<"pal", "me">>}], [Nicks EXCEPT !.nicks = {"n1", "n2"}, !.disconnects = FALSE, !.asks = {}],
   [Nicks EXCEPT !.spoken = {"n3"}, !.disconnects = FALSE, !.asks = {}],
   [Nicks EXCEPT !.published = Everyone(FALSE), !.spoken = {"n1", "n2"}, !.nicks = {"n1", "n2"}, !.disconnects = FALSE],
   [Nicks EXCEPT !.pep = FALSE, !.published = Everyone(FALSE), !.spoken = {"n1"}, !.roster = Everyone("absent")],
   [Nicks EXCEPT !.roomPals = {"pal"}, !.roster = Everyone("absent"), !.cmAlias = FALSE, !.active = {"me", "pal"},
                 !.changes = 1, !.asks = {<<"pal", "me">>}],
   [Nicks EXCEPT !.roster = Everyone("jid"), !.active = {"me"}, !.asks = {}]}

\* Avatars: ours changed here and elsewhere, a contact's.
Photos ==
  [changes |-> 2, first |-> "p0", calls |-> {"tokens", "avatar", "set"}, fails |-> FALSE, photos |-> {"p1", "p3"},
   changing |-> {"me"}]
MCAvatarScenes ==
  {Photos, [Photos EXCEPT !.first = "", !.photos = {"p1", ""}], [Photos EXCEPT !.fails = TRUE, !.changes = 1],
   [Photos EXCEPT !.changing = {"pal"}, !.calls = {"avatar", "fetch", "known"}]}

\* Contact information: fields of every behaviour, some that are refused.
Fn(x) == Entry("fn", {}, <<x>>)
Tel(t) == Entry("tel", {t}, <<"1">>)
Url(x) == Entry("url", {}, <<x>>)
Ninja(x) == Entry("nickname", {}, <<x>>)
Full ==
  <<Fn("a"), Entry("n", {}, <<"f", "g">>), Tel("work"), Entry("org", {}, <<"o", "u", "v">>),
    Entry("label", {"home"}, <<"l1", "l2">>), Url("x"), Fn("b"), Url("y"), Fn("b")>>
Photo == Node("PHOTO", "p", <<>>)
Old ==
  <<Photo, Node("ORG", "", <<Kid("ORGUNIT", "u"), Kid("ORGNAME", "o"), Kid("ORGUNIT", "w")>>),
    Node("ORG", "", <<Kid("ORGUNIT", "u")>>), Node("ODD", "?", <<>>)>>
Fields ==
  [allowed |-> KnownFields, alias |-> "none", books |-> [p \in People |-> Old], books2 |-> [p \in People |-> <<Node("FN", "z", <<>>), Photo>>],
   calls |-> {"request", "get"}, fails |-> TRUE, edited |-> {"me", "pal"},
   sets |-> {Full, <<>>, <<Tel("work")>>, <<Fn("a"), Tel("fax")>>, <<Fn("a"), Entry("n", {}, <<"f">>)>>}]
MCInfoScenes ==
  {Fields, [Fields EXCEPT !.alias = "me", !.sets = {<<Ninja("i"), Tel("work"), Ninja("j")>>, <<Tel("work")>>}],
   [Fields EXCEPT !.sets = {<<Ninja("i"), Ninja("j")>>, <<>>}, !.edited = {"me"}, !.calls = {"request"}],
   [Fields EXCEPT !.allowed = {"fn", "n", "url"}, !.calls = {"request"}, !.alias = "me",
                  !.sets = {<<Tel("work")>>, <<Url("x")>>, <<Fn("a"), Url("x")>>, <<>>}]}

\* The meta-porter: contacts that connect and leave, handlers, the end of it all.
Meta == [calls |-> {"send", "iq"}, happens |-> {"incoming", "remote closed"}, peers |-> {"a"}, jid |-> TRUE]
MCMetaScenes ==
  {Meta, [Meta EXCEPT !.happens = {"incoming", "handlers"}, !.calls = {"iq"}],
   [Meta EXCEPT !.happens = {"close", "remote error"}, !.peers = {"a", "self"}, !.jid = FALSE, !.calls = {"iq", "open"}]}

\* Mail: a mailbox that changes during the silence, one that fails, one that is not there.
From(w, u) == [who |-> w, unread |-> u]
Thread(x, s) == [subject |-> x, senders |-> s]
Gmail ==
  [supported |-> TRUE, setting |-> TRUE, url |-> "u", fails |-> FALSE, disconnects |-> FALSE, changes |-> 3, toggles |-> 1, begun |-> FALSE,
   boxes |-> {[t \in Threads |-> Thread("x", <<From("a", TRUE)>>)],
              [t \in Threads |-> IF t = "t1" THEN Thread("x", <<From("b", TRUE), From("a", FALSE)>>) ELSE NoThread],
              [t \in Threads |-> IF t = "t1" THEN NoThread ELSE Thread("x", <<From("a", TRUE), From("b", TRUE)>>)]}]
MCMailScenes ==
  {Gmail, [Gmail EXCEPT !.setting = FALSE, !.changes = 2, !.begun = TRUE], [Gmail EXCEPT !.supported = FALSE, !.changes = 1],
   [Gmail EXCEPT !.setting = FALSE, !.url = "", !.fails = TRUE, !.disconnects = TRUE, !.changes = 1, !.toggles = 2]}

\* Locations: values to be rounded, clamped, refused and ignored, in both directions.
Here ==
  [lat |-> Value("double", 17), timestamp |-> Value("int64", -3), text |-> Value("string", 4),
   language |-> Value("string", 1), odd |-> Value("string", 2)]
Item(l, n) == [there |-> TRUE, lang |-> l, nodes |-> n]
Moves ==
  [pep |-> TRUE, calls |-> {"get", "request"}, changes |-> 2,
   sets |-> {Here, [lat |-> Value("string", 1), text |-> Value("string", 4)], [text |-> Value("string", 5)]},
   items |-> {NoItem, Item(0, <<Child("lat", "number", 20)>>),
              Item(2, <<Child("lat", "words", 3), Child("street", "words", 4), Child("timestamp", "date", 7)>>)}]
MCLocationScenes == {Moves, [Moves EXCEPT !.pep = FALSE, !.calls = {"get"}]}

-----------------------------------------------------------------------------
MCInit ==
  /\ part \in {"presence", "olpc", "search", "text", "aliases", "avatars", "info", "meta", "mail", "location"}
  /\ IF part = "presence" THEN presenceScene \in PresenceScenes ELSE presenceScene = CHOOSE x \in PresenceScenes : TRUE
  /\ IF part = "olpc" THEN olpcScene \in OlpcScenes ELSE olpcScene = CHOOSE x \in OlpcScenes : TRUE
  /\ IF part = "search" THEN searchScene \in SearchScenes ELSE searchScene = CHOOSE x \in SearchScenes : TRUE
  /\ IF part = "text" THEN imScene \in ImScenes ELSE imScene = [Chat EXCEPT !.refuses = TRUE]
  /\ IF part = "aliases" THEN aliasScene \in AliasScenes ELSE aliasScene = CHOOSE x \in AliasScenes : TRUE
  /\ IF part = "avatars" THEN avatarScene \in AvatarScenes ELSE avatarScene = CHOOSE x \in AvatarScenes : TRUE
  /\ IF part = "info" THEN infoScene \in InfoScenes ELSE infoScene = CHOOSE x \in InfoScenes : TRUE
  /\ IF part = "meta" THEN metaScene \in MetaScenes ELSE metaScene = CHOOSE x \in MetaScenes : TRUE
  /\ IF part = "mail" THEN mailScene \in MailScenes ELSE mailScene = CHOOSE x \in MailScenes : TRUE
  /\ IF part = "location" THEN locationScene \in LocationScenes ELSE locationScene = CHOOSE x \in LocationScenes : TRUE
  /\ PresenceInit /\ OlpcInit /\ SearchInit /\ ImInit /\ AliasInit /\ AvatarInit /\ InfoInit
  /\ MetaInit /\ MailInit /\ LocationInit

MCNext ==
  \/ part = "presence" /\ PresenceNext
     /\ UNCHANGED <<part, olpcVars, searchVars, imVars, aliasVars, avatarVars, infoVars, metaVars, mailVars, locationVars>>
  \/ part = "olpc" /\ OlpcNext
     /\ UNCHANGED <<part, presenceVars, searchVars, imVars, aliasVars, avatarVars, infoVars, metaVars, mailVars, locationVars>>
  \/ part = "search" /\ SearchNext
     /\ UNCHANGED <<part, presenceVars, olpcVars, imVars, aliasVars, avatarVars, infoVars, metaVars, mailVars, locationVars>>
  \/ part = "text" /\ ImNext
     /\ UNCHANGED <<part, presenceVars, olpcVars, searchVars, aliasVars, avatarVars, infoVars, metaVars, mailVars, locationVars>>
  \/ part = "aliases" /\ AliasNext
     /\ UNCHANGED <<part, presenceVars, olpcVars, searchVars, imVars, avatarVars, infoVars, metaVars, mailVars, locationVars>>
  \/ part = "avatars" /\ AvatarNext
     /\ UNCHANGED <<part, presenceVars, olpcVars, searchVars, imVars, aliasVars, infoVars, metaVars, mailVars, locationVars>>
  \/ part = "info" /\ InfoNext
     /\ UNCHANGED <<part, presenceVars, olpcVars, searchVars, imVars, aliasVars, avatarVars, metaVars, mailVars, locationVars>>
  \/ part = "meta" /\ MetaNext
     /\ UNCHANGED <<part, presenceVars, olpcVars, searchVars, imVars, aliasVars, avatarVars, infoVars, mailVars, locationVars>>
  \/ part = "mail" /\ MailNext
     /\ UNCHANGED <<part, presenceVars, olpcVars, searchVars, imVars, aliasVars, avatarVars, infoVars, metaVars, locationVars>>
  \/ part = "location" /\ LocationNext
     /\ UNCHANGED <<part, presenceVars, olpcVars, searchVars, imVars, aliasVars, avatarVars, infoVars, metaVars, mailVars>>

mcVars == <<part, presenceVars, olpcVars, searchVars, imVars, aliasVars, avatarVars, infoVars, metaVars, mailVars, locationVars>>
MCSpec == MCInit /\ [][MCNext]_mcVars

-----------------------------------------------------------------------------
\* What clients and contacts know of our presence is what we set, the list of known
\* statuses keeps its limit, and someone who signs in hidden is never seen before
\* (conn-presence.c).
OwnPresenceSound == PresenceAsTold /\ StatusesBounded /\ HiddenFromTheStart

\* Activities are referenced as often as they are listed, told as they are published,
\* published only when visible, and invitations end with their room (conn-olpc.c).
ActivitiesSound ==
  ActivitiesCounted /\ BuddiesAsTold /\ PublishedAsVisible /\ InvitationsRevoked /\ OlpcCallsAnswered

\* What is known of contacts: aliases, avatars and information agree with what was
\* told and asked (conn-aliasing.c, conn-avatars.c, conn-contact-info.c).
ContactsSound == AliasesSound /\ AvatarsSound /\ InfoSound

\* What the server pushes and what is asked of it agree: mails during its silence,
\* locations, and the connections of the meta-porter, held as long as they are used
\* (conn-mail-notif.c, conn-location.c, wocky-meta-porter.c).
ServicesSound == MetaSound /\ MailSound /\ LocationSound
=============================================================================
