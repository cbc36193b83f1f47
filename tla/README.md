# Telepathy Gabble in TLA+

Telepathy Gabble is the XMPP connection manager of the Telepathy framework: a
D-Bus service that turns XMPP sessions into Telepathy connections, contacts and
channels. This directory holds TLA+ models of its core logic, the TLC
configurations that check them on small instances, and proofs checked by TLAPS.
Paths below are relative to the root of the repository (`src/roster.c`), with
the XMPP library Wocky, which is kept in the tree, under `lib/ext/wocky/wocky/`.

`PROJECT.json` is the machine-readable side of this file: every component,
every run, every property with a defect ("mutant") that breaks it, the source
lines every definition stands for, the hazards and the findings.

## 1. The system

Gabble is one process with one thread and one GLib main loop. There are no
locks and no preemption: **a handler (a D-Bus method, a stanza, a timeout, an
idle source, a callback of an asynchronous operation) runs to its end**, so it
is one action of a model. What is hard is everything between handlers:

* replies that come after the request was cancelled, timed out or freed;
* callbacks that call back into the component that is calling them;
* state that is spread over two components and kept together by signals;
* timeouts racing late answers, retries racing new requests;
* disconnection and disposal in the middle of all that.

### Components, their state and their interactions

| Component | State it keeps | Operations and events | Talks to |
|---|---|---|---|
| Connection (`connection.c`) | status, connector, porter, closing flag, disconnect timer, counter of what CONNECTED waits for | Connect, Disconnect, connector/porter/disco/presence callbacks, remote close, errors | everything below; telepathy-glib's `TpBaseConnection` |
| Porter (`wocky-c2s-porter.c`) | sending queue, ping flag, IQ reply handlers, close and force-close results | send, send IQ, cancel, close, force close, stanzas received | the XMPP connection, all users of stanzas |
| Request pipeline (`request-pipeline.c`) | pending items, items in flight, "zombie" items, timers | enqueue, run, reply, timeout, cancel, dispose | porter; vCard manager, PEP nicknames |
| vCard manager (`vcard-manager.c`) | cache entries with pending requests, expiry heap, edits, the SET in flight | request, edit, invalidate, replies, retries, expiry | request pipeline; aliases, avatars, contact info |
| Disco (`disco.c`), room list (`roomlist-channel.c`) | requests with timers and bound objects; pipelines of item queries; cache of services | request, cancel, reply, timeout, death of the bound object; ListRooms, StopListing, Close | porter; presence cache, MUC factory, proxies |
| Presence cache (`presence-cache.c`, `presence.c`) | presence and resources per contact, capability infos with trust, disco waiters, unsure period, decloak requests | presence stanzas, disco replies, own caps, timeouts | disco; media and call channels |
| Login: connector (`wocky-connector.c`), SASL (`wocky-sasl-auth.c`, `auth-manager.c`, `server-sasl-channel.c`), TLS (`server-tls-manager.c`, `server-tls-channel.c`) | what is connected, encrypted and authenticated; the channel a client authenticates on and the one it judges a certificate on | connect, register, unregister; the server's features and challenges; the client's StartMechanism, Respond, Accept, Abort, Close | the XMPP connection, clients on D-Bus |
| Contact list (`roster.c`) | items that mirror the server's roster, unsent edits, edits in flight, groups, flicker timers, pre-authorised contacts | store, remove, rename, group, block, subscribe, authorise; pushes, answers, presences | porter; telepathy-glib's `TpBaseContactList`, aliases, presence cache |
| Rooms (`muc-channel.c`, `muc-factory.c`, `wocky-muc.c`) and conference calls (`call-muc-channel.c`) | state of the join, nickname, members, timers, queued requests, tubes and calls of a room; turns and sessions of a call | requests, invitations, join, password, nick conflict, subject, close; presences of others | porter, tubes, Jingle |
| Jingle (`wocky-jingle-session.c`, `-content.c`, transports) | session state, contents with their candidates, descriptions and directions, hold | initiate, accept, add, remove, modify, terminate, and the peer's | media, calls, file transfers |
| Media (`media-channel.c`, `media-stream.c`, `media-factory.c`, `media-channel-hold.c`) and call channels (`call-channel.c`, `call-member*.c`, `call-content.c`, `call-stream.c`) | members, streams, what the streaming client was told, pending requests, hold | RequestStreams, accept, direction, hold, remove, close; streaming client and peer | Jingle, presence cache |
| Bytestreams (`bytestream-ibb.c`, `-socks5.c`, `-multiple.c`, `-muc.c`, `bytestream-factory.c`) | state, windows and buffers, streamhosts, methods left, proxies | initiate, accept, send, receive, block, close; sockets and timers | porter, gibber; tubes and file transfers |
| File transfer (`ft-channel.c`, `ft-manager.c`, `gtalk-file-collection.c`) | state, bytes, socket and stream; the channels of a share | offer, accept, provide, progress, close | bytestreams, Jingle |
| Tubes (`tube-stream.c`, `tube-dbus.c`, `private-tubes-factory.c`) | state, one bytestream per connection; bus names, reassembly buffers | offer, accept, connect, send, close | bytestreams, rooms |
| Own presence (`conn-presence.c`) | what was set and told, how to be invisible, privacy lists | SetPresence, replies, pushes of other clients | porter |
| OLPC (`conn-olpc.c`), search, text (`im-channel.c`), aliases, avatars, contact information, mail, locations, meta-porter | caches, calls that wait, what clients were told | D-Bus calls, PEP and presence events, replies | PEP, vCard manager, roster, porter |
| Sidecars, plugins, capabilities' hashes, protocol object | see section 6 | | |

### What makes each of them correct

* *Connection*: it comes up only when everything it waits for has answered, it
  goes down exactly once, it always gets down, and no callback arrives at a
  connection that has said goodbye.
* *Porter*: every operation calls back exactly once; stanzas leave in the order
  they were queued; the queue never stalls; a close and a forced close end.
* *Request pipeline*: one callback per request; never a pointer to a freed item;
  the window respected; no lost wake-up.
* *vCard manager*: no edit lost, stranded or applied twice; one SET at a time;
  the cache never shows what the server never had; everybody is answered.
* *Disco*: one answer per request, none after the requester's death, and the
  answer is the one to *this* request; a listing is complete when it says so.
* *Presence cache*: a contact has the capabilities of its own last presence,
  justified by a hash, by our own or by enough contacts; every waiter is served.
* *Contact list*: one edit per contact in flight and none forgotten; in the end
  the server has what users asked for and clients were told what the items say.
* *Bytestreams*: what is received is a prefix of what was sent; buffers and
  windows keep their bounds; nothing stalls; closing ends; both ends agree on the
  transport, and on whether there is one.
* *Login*: no credential leaves on a stream that is not encrypted or judged as the
  account demands; what was established on one stream does not count on the next;
  nobody waits for a channel that is gone; every attempt ends.
* *Rooms*: members, nickname and presence agree with the service; every request
  is answered once; joining and leaving end. Conference calls: turns are taken
  one at a time and come; any two participants share one session.
* *Jingle, media, calls*: the ends agree on contents, directions and holds when
  nothing is on its way; no media without consent; the objects that stand for a
  content come and go together; every request is answered.
* *File transfers, tubes*: complete means whole; over stays over; what is carried
  arrives in order and belongs to who is named; connections end at both ends.
* *Own presence*: contacts see what clients were told, and nobody who signs in
  hidden is seen first. *Interfaces*: what clients were told is what is known, and
  every call is answered.

## 2. Modules

One module per component; the `MC` modules put the components of one subject
together for TLC; `...Proofs` for theorems.

| Module | Code | Run |
|---|---|---|
| `RequestPipeline`, `RequestPipelineProofs` | `src/request-pipeline.c` | `pipeline` |
| `C2SPorter`, `C2SPorterProofs` | `wocky-c2s-porter.c` | `pipeline` |
| `Connection`, `ConnectionProofs` | `src/connection.c` | `connection`, `connection_dispose` |
| `Login` | `wocky-connector.c`, `wocky-tls-connector.c`, `wocky-sasl-auth.c`, `wocky-jabber-auth.c`, `wocky-auth-registry.c`, `src/auth-manager.c`, `src/server-sasl-channel.c`, `src/server-tls-*.c`, `src/tls-certificate.c` | `connection` |
| `VCardManager` (extends `VCardEdit`, the edit functions) | `src/vcard-manager.c` | `connection` |
| `Disco`, `DiscoProofs` | `src/disco.c`, `src/roomlist-channel.c` | `discovery` |
| `PresenceCaps` | capability discovery of `src/presence-cache.c`, resources of `src/presence.c` | `discovery` |
| `Roster`, `RosterProofs` | `src/roster.c`, the countdowns of `src/util.c` | `roster`, `roster_refused` |
| `MucRoom` | `src/muc-channel.c`, `src/muc-factory.c`, `wocky-muc.c` | `rooms` |
| `Muji` | `src/call-muc-channel.c`, `src/call-member.c` | `rooms`, `rooms_session` |
| `Jingle` | `wocky-jingle-session.c`, `-content.c`, `-media-rtp.c`, `-factory.c`, `-transport-*.c` | `calls` |
| `MediaChannel` | `src/media-channel.c`, `src/media-channel-hold.c`, `src/media-stream.c`, `src/media-factory.c` | `calls` |
| `CallChannel` | `src/base-call-channel.c`, `src/call-*.c` | `calls` |
| `StreamTube`, `DBusTube` | `src/tube-stream.c`, `src/tube-dbus.c`, `src/private-tubes-factory.c`, `src/bytestream-muc.c`, tubes of `src/muc-channel.c` | `calls`, `tube_close` |
| `Bytestream` | `src/bytestream-iface.h`, `src/bytestream-iface.c`: what a bytestream promises | `bytestreams` |
| `BytestreamIBB`, `BytestreamIBBProofs` | `src/bytestream-ibb.c` | `bytestreams` |
| `SiBytestream` | `src/bytestream-socks5.c`, `src/bytestream-multiple.c`, `src/bytestream-factory.c` | `bytestreams` |
| `FileTransfer` | `src/ft-channel.c`, `src/ft-manager.c`, `src/gtalk-file-collection.c`, `src/jingle-share.c` | `bytestreams` |
| `OwnPresence`, `OlpcActivities`, `Search`, `ImChannel`, `ImChannelProofs`, `Aliases`, `Avatars`, `ContactInfo`, `MetaPorter`, `MailNotif`, `Location` | `src/conn-presence.c`, `src/conn-olpc.c`, `src/search-*.c`, `src/im-*.c`, `src/conn-aliasing.c`, `src/conn-avatars.c`, `src/conn-contact-info.c`, `wocky-meta-porter.c`, `src/conn-mail-notif.c`, `src/conn-location.c` | `interfaces` |

### How a run holds several components

The components of one `MC` module run in the same process but share nothing that
these models keep: where one uses another it uses it through the promise that the
other's module states (VCardManager takes the pipeline's "one callback per
request", Connection takes the connector's callbacks that Login looks into,
MediaChannel takes one end of the session of Jingle). `MCInit` therefore chooses
one component, `part`, and only that one moves; the others stay in one initial
state. The state space is the sum of the components', not their product.

### The runs

| Run | Properties | Shown |
|---|---|---|
| `pipeline` | `RepliesSafe`, `WindowKept`, `PorterSafe`, `EveryRequestCompletes`, `ForceEndsAll` | requests and IQs complete once, in order and always |
| `connection` | `ShutdownSafe`, `ConnectedMeansReady`, `NoComeback`, `AttemptsEnd`; `LoginSound`, `AuthenticationAttended`; `VCardsSound`, `EveryoneAnswered` | a connection's life; logins to twenty kinds of server; the vCard cache and edits of our vCard |
| `discovery` | `DiscoSound`, `SilentAfterDeath`, `QuestionsEnd`; `CapsTracked`, `TrustIsKept` | disco requests and listings; capabilities of contacts |
| `roster` | `EditsTracked`, `RosterAgrees`, `EveryRequestAnswered` | the contact list in seven environments |
| `rooms` | `RequestsAnswered`, `MembershipSafe`, `CallsSafe`, `RoomsSettle` | one room with ten kinds of service; conference calls of two and three |
| `calls` | `SessionsAgree`, `MediaAsAgreed`, `ChannelsTracked`, `TubesSound` | a Jingle session in fifteen worlds, the two kinds of channel over one end of it, tubes |
| `bytestreams` | `StreamSound`, `InBandEnds`, `BytestreamsAgree`, `TransfersTracked`, `AreBytestreams` | in-band and negotiated bytestreams, proxies, file transfers |
| `interfaces` | `OwnPresenceSound`, `ActivitiesSound`, `SearchesSound`, `ImSound`, `ContactsSound`, `ServicesSound` | ten interfaces of a connection |
| `connection_dispose`, `roster_refused`, `rooms_session`, `tube_close` | one each | findings, section 5 |

Conventions, in every module:

* A data value is a model value, a short string or a small number wherever the
  properties cannot tell more apart: a vCard is a sequence of (field, value)
  pairs, an IQ the identity of the request it belongs to, a payload of a
  bytestream the numbers of its bytes.
* Bounds are named, in comments that say "bound", and appear only in guards of
  the environment's actions (how many requests are made, how many presences
  arrive), never in those of the code.
* A run has one configuration. Where different questions need different
  surroundings, the variable `env` (or a `scene`, `setting` or `world`) holds what clients, contacts and servers may
  do in a behaviour; it is chosen once, in `Init`, from the set `Environments` of
  the `MC` module, and never changes. One run so covers, say, a room list that
  overflows the window and clients whose objects die, without multiplying them.
* A property of a run is a theme, a conjunction of named parts that are each
  defined and explained where they stand (`RepliesSafe` is `NoDanglingReply`,
  `NotifiedOnce` and `TimersGuardInFlight`). Each theme has at least one defect
  of the code that breaks it, most have several.
* Where the code is known to go wrong after some sequence of events (section 5),
  a history variable records that it happened (`torn`, `relisted`, `refused`,
  `failed`, `spoilt`, `raced`, `missed`, `overtaken`, `freed`, `skipped`, `crossed`, `leaks`,
  `stale`, `untold`, `silenced`) and the property is about all other behaviours. The
  sequence itself stays in the model.
* The `map` of `PROJECT.json` names, for each function of the code, the definitions
  that stand for it. Helpers that lie within the lines of a listed definition and
  actions of the environment have no entry of their own.

### RequestPipeline

Items are numbered in the order of `gabble_request_pipeline_enqueue`. The state
is that of the C structure: `pending` (`pending_items`), `inFlight`
(`items_in_flight`), `crypt` (`crypt_items`: cancelled or timed-out items kept
until their reply comes), `timers`, `idles` (scheduled `delayed_run_pipeline`
calls), and `awaiting`, the items whose address the porter still holds. A
client's callback may enqueue again, so the loop of
`gabble_request_pipeline_go` is taken one iteration at a time under the flag
`going`; nothing else runs in between except such re-entrant calls.

The run has five requests and a window of two, which is enough for two in
flight, one pending, one zombie and one enqueued from a callback at the same
time. `RepliesSafe` and `WindowKept` are the safety side;
`EveryRequestCompletes` holds although the server may stay silent.

### VCardEdit and VCardManager

`VCardEdit` has the five edit operations as functions on a vCard, and
`manager_patch_vcard`'s loop over a list of them. `EditsSafe` has four laws of it, checked
over every vCard of up to two nodes and every list of up to two edits, for a
server that keeps all fields and one that keeps a few (`Limited`, Google's): a
patch that is skipped would have changed nothing, fields no edit names stay,
the last replacement wins, setting contact info keeps the alias.

`VCardManager` has the cache entries (pending requests, the GET in the pipeline,
the suspension after a "wait" error, the node, expiry), the edit requests with
`set_in_pipeline`, the SET and the patched vCard, and a server that keeps the
vCards. The request pipeline is used as the promise proved of it: an IQ's
callback is called once and IQs are sent in order. The server handles the IQs
about one vCard in the order of sending (RFC 6120, section 10.1).

Three environments, each with one "wait" error: two edit requests that race with
two requests for our own vCard (as RefreshContactInfo and avatar conflicts make
them), two handles that share the cache, and callers that cancel their requests or
die, with the requests and the edit bound to them. An edit request appends a node of
its own or sets the alias, which our vCard may have already, so that edits which change
nothing happen too. `VCardsSound` joins `EditsSafe`,
about edits, and `CacheSound`, about the cache; `EveryoneAnswered` is about answers. `torn` records a
GET of our own vCard that failed while a SET was in flight: the manager then
forgets its SET and may send a second, so `OneSet` is stated for the others. `freed`
are the requests that `delete_request` freed while the pipeline or a timer held them as
user data; using one ends the behaviour ("crashed"), and `CrashesAreDeletions` says that nothing
else does. `skipped` are the edits of a patch that changed nothing: for them
`EveryEditAnswered` claims an answer only once there is another SET or the connection goes.

### Disco

Requests have serial numbers and are kept for ever in the history `req`, so that
a late reply can be attributed; `requests` is `priv->requests`. In the third
environment the allocator may give a freed request's address to a new one while
the old IQ is unanswered, which is what `request_reply_cb` cannot distinguish.
`relisted` records a ListRooms while rooms are being listed. The porter exists
for as long as requests can be made, so sending cannot fail; when the stream
closes, a reply never comes.

The environments: a room list with two rooms through a window of one (so that
the window blocks) beside the discovery of a service; one room listed twice;
clients with two bound objects that die. The window's size is 1 where the code
has 10; nothing but the comparison is made of it.

### BytestreamIBB

Two instances of the same code, "a" and "b", and the ordered stanza stream
between them, so that the properties are about both ends. `Budget` bounds the
bytes each user sends; six bytes in blocks of two through a window of two fill
window and write buffer, and a read buffer of three bytes overflows. A closed
bytestream is finalised by its users, with its buffers. `refused` records the
sides that were refused a data stanza while they were open.

### PresenceCaps

Clients (full JIDs, `Owner` gives the contact) advertise nodes in presences;
`Means` is the set a node is the hash of (the hash is taken as collision-free).
The model has the waiters of `disco_pending`, trust, serials, our own nodes, the
shared `WockyCapsCache` (which never evicts), the unsure period after connecting,
decloaking, and the stream requests of media channels that wait for a contact's
capabilities. `EnoughTrust` is 2 where the code has 5: the comparison is all
that is made of it, and two contacts with three clients show both "two clients
of one contact" and "two contacts". Every client has a resource; an offline
presence carries no status message.

The five environments are about trust, about serials with our own and hashed
nodes and with built-in ones, about calls, and about our own node advertised
with its hash and without. `overtaken` are the nodes that became our own while somebody
who advertised them without a hash was still being asked (section 5): for these alone an
answer may replace our capabilities and the trust in them. Once a disco request has failed (`failed`) the
code may strand other waiters, so waiting is stated for behaviours without a
failure; trust and justification are stated for all.

### Connection

The stages of `connection.c` with the callbacks that connector, porter, disco
and presence may make. `Fallbacks` is the number of fallback servers.
`TpBaseConnection` is external: changing the status to DISCONNECTED calls
`connection_shut_down`, and disposal follows `finish_shutdown`. The order of two
callbacks that are both due follows from the main loop: the aborted close
completes in an idle source, the forced close of the stream at high priority, so
the latter may come first; without an end of the remote stream it may not.

### C2SPorter

The sending queue, whitespace pings, IQs with their handlers, cancellation, the
close handshake and the forced close. The XMPP connection below writes one
thing at a time and refuses a second; its writes may fail, hang or be cancelled.
The user is that of module `Connection`: it closes once and forces the close
once, and sends nothing from inside a send's callback. Errors that are only
reported from an idle handler are reported at once, except the aborted close,
whose delay matters. Dispatch of received stanzas and power saving are not modelled.

Three operations (a message, two IQs) are enough for one being written, one
queued behind it and one cancelled.

### Roster

An item per contact (`NoItem` when there is none), its batch of unsent edits
(`item[c].edit`, `unsent_edits`) and the edit that is in flight, which travels
with the IQ and its answer as the C structure does. `Apply` is
`roster_item_apply_edits`, `Processed` the body of `process_roster` for one item,
and every method of the contact list interfaces is an action. `req` are the
requests of clients with the countdown of `util.c`; they complete in an idle
callback (`Complete`), which is where RequestSubscription sends its presence and
RemoveGroup removes the group. `told` is what ContactsChanged last said.

The server follows RFC 6121: it keeps its own idea of subscriptions, pushes what
changed, and usually pushes an edited item before it answers the edit
(`pushFirst`). Contacts ask, grant, give up and deny; other resources rename,
hide and delete; Google's server hides, blocks and lets our request flicker.
`RosterAgrees` joins `StatesAsTold` and `ServerAgrees`. `MirrorsServer` and
`WishesGranted` (together `ServerAgrees`) look at a contact
when nothing about it is under way: the item is what the server has, and the
server has what users last asked for (`want`). `StatesAsTold` holds at every
step. `EditsTracked` is the bookkeeping: one edit in flight, no batch waiting for
nothing, exact countdowns. `spoilt` records the contacts for which the code is
known to drop something (section 5). Edits may be asked for before the roster
has arrived; then they wait.

Seven environments of one or two contacts, two or three requests of users and up
to two events: enough for one edit in flight, one queued and one merged into it,
with a push or a presence in between. `Spec` restricted to a refusing server is
`roster_refused`, a finding.


### Login

The connector has one operation under way (`con.at`): the address lookup, the
stream's header, its features, STARTTLS, the certificate's verdict, the
authentication, binding, the session, or a registration. The server answers what
`server` and `env` let it; clients authenticate and judge certificates on their
channels, or do nothing, or close them. `MAX_SEE_OTHER_HOST` is 2 where the code
has 5, and a server challenges at most twice. `LoginSound` says that a password
is sent only where the account's settings allow it, that a judged certificate and
an encrypted stream are those of the *present* stream, and that a success is
reported only for what the server confirmed; `AuthenticationAttended` that the
connector never waits for a channel that is gone. A server that moves us after
authentication ends the process by an assertion; the model has that as a
state of its own (`Crashed`), and so are the other assertions of section 5.

### MucRoom and Muji

`MucRoom` is one `GabbleMucChannel` with the requests that the factory queues, the
room's service and one other occupant. Nicknames are numbers: *k* is ours with *k*
underscores. The service may have taken names, force one on us, want a password,
ban us, repeat an error or stay silent; `past` remembers what was told to whom.
`OccupancyAgrees` compares channel and service when nothing is on its way.
`MAX_NICK_RETRIES` is 1 (3 in the code), so that the last retry is reached.

`Muji` has two or three participants who each run the code, and the room that
puts their presences in order. `TurnsTaken`: at most one publishes new contents at
a time. `SessionsMatched`: when nothing is on its way, two participants in the
call have a session with each other. `TurnComes` is the liveness side; the case of
a member who leaves while it is ahead of us in the queue is excepted (section 5).

### Jingle, MediaChannel, CallChannel

`Jingle` has both ends of one session, "I" and "R", with ordered stanzas and the
answers to them. A world fixes dialect (`v032`, `v015`, `gtalk3`, `gtalk4`), transport,
what clients do and how often. Sessions are compared when nothing is on its way
(`StatesAgree`, `ContentsAgree`, `HoldsAgree`); `OffersComplete` and `NothingUnsaid` are
about what an end may not say yet and must have said. Descriptions are versions
and candidates are counted.

`MediaChannel` and `CallChannel` are each one channel over one end of a session;
the peer's moves are those the session of `Jingle` can make. The streaming client
becomes ready, answers, holds and fails as it likes. `MediaConsented` and
`SendingAgreed` say that media leave only with the user's and the peer's consent;
`HoldSettles` that a hold ends in the state last asked for when everybody has
answered; `StreamsMatch` and `ContentsTogether` tie the objects of a content
together; `RequestsTracked` and `CallRequestsAnswered` are about answers. Two
channels are never open at once in a model; the factory's table is one entry.

### SiBytestream, FileTransfer

`SiBytestream` has initiator "a" and target "b", the streamhosts with what happens
to connections to them (works, refuses, breaks off, unknown), the proxies, the
fallback to the next method. `OneTransport` says that both ends use the same
connection, `SiSettles` that nobody is left waiting except where the code has no
timer (section 5), `SiEndsAgree` that when nothing is on its way both are open or
neither is. Its last section is the pool of proxies with the query loop; its `next` may point to
a freed link (section 5), which `PoolSound` excepts by name.

`Bytestream` is what the interface in `bytestream-iface.h` promises: two ends that
open (the offering one last), carry and close, and a queue each way whose output is
a prefix of its input. `AreBytestreams` shows that the in-band bytestream (a byte is
a unit) and the negotiated one (a chunk is a unit; the state is that of the outer,
`bytestream-multiple.c`, object where there is one) implement it. The states before
OPEN are one phase there; CLOSING is its own, because data still arrive then.

`FileTransfer` has the channel at both ends over a stream that opens, fails, keeps
order and ends, or over a Google share with a Google client at one end. A file
has two units. `FilesWhole` (complete means that every byte is there), `OverStaysOver`,
`CompleteInOrder`, `CollectionKept` (no channel of a share is forgotten or told
twice) and `TransfersEnd`.

### StreamTube and DBusTube

`StreamTube` has a tube at both ends, two connections to its socket and the
bytestream of each; `DBusTube` the reassembly of messages from arbitrary cuts, the
queue before the client connects, and the room's fragments from two members who
come, go and use each other's names. Headers are two units and messages
at least that long; the queue's limit is six units. A header may be bad (its mark or
its length), which closes the stream; a client may be gone before the stream it asked
for is open, and an offerer may fail to reach the socket or to name the client. The first
of these meets an assertion, where the model ends.

### The interfaces

One module each, with the server or the contacts that answer, and a history of
what clients were told. Scenes choose what the server offers and refuses and
which calls meet; every scene has between one and five calls.

* `OwnPresence`: four ways to be invisible; the server's privacy lists and what
  contacts see. Another client of ours may set Google's shared status, also to
  invisible, with other lists of remembered messages, and be an old one (`compats`).
  `PresenceAsTold`, `StatusesBounded`, `HiddenFromTheStart`.
* `OlpcActivities`: reference counts of activities listed by us, by buddies and by
  invitations (`ActivitiesCounted`: the references are those of the lists and the ones
  counted in `leaks`), what is published (`PublishedAsVisible`), what clients know of buddies
  (`BuddiesAsTold`). A call of SetActivities that fails half-way ends in a state
  of its own (`wrecked`).
* `Search`: requests that wait for the directory, one search per channel. Openfire's
  form, one box to type in and boxes to tick, is among the scenes: a term for it goes out
  with every box ticked.
* `ImChannel`: the resource a channel writes to, messages kept over a close.
* `Aliases`, `Avatars`, `ContactInfo`: sources in their order, the conflict between
  our own resources, both conversions between vCards and contact information. PEP may
  answer or announce a nickname, an empty one or none, and a look-up may fail at any time;
  `silenced` are the contacts whose alias changed that way with nobody told. `InfoAsSet` has the
  alias that every SetContactInfo adds where the user gave no nickname.
* `MetaPorter`: one porter per contact with holders and an idle timer.
* `MailNotif`: polls during the server's silence; time is counted in `POLL_DELAY`s,
  and two of them (twelve in the code) make a silence.
* `Location`: both conversions and the cache; the last digits that a conversion
  drops are dropped (numbers are tenths of the smallest step).

## 3. Fairness

Only what the code's scheduling guarantees is assumed fair:

* timeouts and idle sources fire (GLib main loop): `Timeout`, `DelayedRun`,
  `Retry`, `DecloakTimeout`, `EndUnsurePeriod`, `DisconnectTimeout`;
* a loop that has started goes on (`SendNext`, `DisposeCancels`);
* an asynchronous operation on a socket that was closed calls back
  (`StreamClosed`, `ReceiveCancelled`, `CloseAborted`, the failing writes of a dead
  socket);
* operations that carry a timeout of their own return: disco requests and IQs in
  the request pipeline;
* the timers of joining and leaving a room (`TimeoutJoin`, `TimeoutLeave`).

The connector has no timer, nor have the IQs of the initial presence: both may hang
for as long as the server is silent, and `AttemptsEnd` claims the end of the stages after the
connector and of a shutdown, not of these two.

No server, peer or user is assumed to answer, with exceptions that are named
where they are made: stanzas between two in-band bytestreams arrive while the
stream is up and a user who blocks reading unblocks it; a contact's client
answers or is given up by the disco timeout; a server handles the roster edits
it is sent (the stream's death, which ends the IQs otherwise, is not modelled
there); a room delivers the presences it is sent (a service that never answers
a join is one of its environments) and streaming implementations answer
(`Muji`); the network delivers what a login waits for or breaks (a server that is
silent on an intact connection is an environment of its own, of which nothing
more is claimed than the code can end).

Where a module has no fairness (calls, transfers, the interfaces), what must come
in the end is stated as an invariant of quiescent states: when nothing is on its
way, no idle callback is due and no timer runs, nobody may be waiting.
 `Roster` writes weak fairness with the condition that
enables progress spelled out (`Pending`), which TLC evaluates far faster than
ENABLED; the two are the same.

`CHECK_DEADLOCK FALSE` is set because every one of these systems may stop: a
bounded number of requests is served, a connection is disposed of.

## 4. Proofs

Eight modules prove the safety properties of their components for every value of
the constants: `PipelineSize` and `MaxItems`, `Fallbacks`, the sets `Ops` and `Iqs` of
operations, `WindowSize`, `BlockSize`, `ReadBufferMax` and `Budget`, the `DiscoEnvironments`,
the `Friends` and `ImScenes` with their bounds, and the `Contacts`, `Groups`, `Names` and
`Environments` of the contact list, the `Searches` and `SearchScenes`. The only
assumptions are the `ASSUME`s of the modules, which say that these are natural numbers,
that windows, blocks and buffers are not empty, that IQs are operations with names
of their own, that a server lists finitely many JIDs, none of them its own (the
model tells an items request from an info request by its JID), that what a
contact sends is one of the seven kinds of stanzas the parser tells apart, that
a contact list has finitely many contacts, and that a search form is a list of fields.

*RequestPipeline.* `RepliesStaySafe` and `WindowStaysKept` are the two themes of the
run. None of their six parts is inductive alone. `IInv`
joins them with the type invariant and with what ties the item lists together:
queue, items in flight and zombies are disjoint and made of enqueued items; the
queue is strictly increasing and every item in it is newer than every item that
was sent (`Fits`); a timer runs exactly for the items in flight; an item the
porter knows is in flight or a zombie. The window bound needs the arithmetic of
cardinalities (`ItemSets`), the order needs the lemmas on `Append`, `Tail` and
removal from a queue (`AppendFits`, `TailFits`, ...). One lemma per action follows,
and the theorems are consequences of `Invariance`.

*Connection.* `ShutdownStaysSafe`, `ReadyWhenConnected` and `DisconnectedForGood`.
"Somebody will finish the shutdown" is inductive only together with
the shape of a connection that goes down (`Goal`: which operation may run beside
which, and when the timer runs), and "CONNECTED means ready" only with the meaning
of the counter `waiting_connected` while answers come in (`Setup`). That callbacks
never take a connection out of DISCONNECTED is an action property proved from the
same invariant.

*C2SPorter.* `PorterIsSafe`. `PorterInv` adds to the parts of `PorterSafe` what each
of them rests on. That the queue never stalls needs `Turns`: whose turn it is to be
written, and that an error which will empty the queue is counted in `refused`. That
a close goes on needs `CloseOnce` and `Closes`: `</stream>` is written once at most, and a
close is under way, about to call back or over, and only one of the three. Order
on the wire needs `Ordered`: what is written, being written and queued was accepted in
this order. What a user was told and what the handler of his stanza knows are
tied together in `Told`. The lemmas on removing from, appending to and taking the
head of a sequence that is embedded in another (`Embeds`) are proved once.

*BytestreamIBB.* `StreamIsSound`, and `IBBIsABytestream`: the detailed specification
implements `Bytestream`. The invariant `IBBInv` follows the bytes. A stanza's number
gives the last byte it carries (`upto`), these rise, and the write buffer is the run of
byte numbers that begins after the last of them (`Sender`). Data stanzas on
their way are consecutive, and the first continues what the receiver has given
to its user or holds for him (`Inbound`, `Continues`); what it holds is a run too, and the
stanzas it has yet to acknowledge end within it. Acknowledgements on their way are
true (`Answers`) and no stanza in flight is without an answer to come (`Accounted`).
None of this survives the opening of the stream without `Handshake`:
no data are sent to an end that has not accepted, and those that the
other end sends while the initiator waits stand behind the answer to its open.
Cutting a write into blocks is arithmetic on products (`Pieces`, `Cut`), proved
for every block size. For the refinement each action is shown to give, take, open
or close in the abstract specification, or to leave it alone.

*Disco.* `DiscoIsSound`, and `DeadAreNotCalled`: the action property `SilentAfterDeath`. The
invariant `DiscoInv` has four parts. `Table` types the requests. `ToldInv` says that a
request in the list was told nothing and its owner is alive, and that one which is
not in the list was told something or its owner is dead; both once-only callbacks
and silence after death rest on it. `Pipes` says of each pipeline (`Sound`) that its array
is the set of its info requests in the list, that these are within the window, that
only a running pipeline has any, and, unless rooms were listed twice at a
time, that its items request is the one it points to and that nothing remains when it
stops. `Channel` ties the room list to its pipeline: it is listing exactly while the
pipeline runs, so `rooms_end_cb` and `stop_listing` are the only ways to end it. What
`gabble_disco_fill_pipeline` does in a callback is proved once (`FillSound`, `FillKeeps`) for the
items and the info callback, with the count of free places (`PlacesBound`). The proof
follows the double listing too: then a callback may meet a pipeline that was destroyed
(`StaleCallback`), and everything that does not mention the list request still holds.

*ImChannel.* `ImIsSound`. `ImInv` has a part for each promise. `Channels` says of every contact
(`Fine`) that its channel is open exactly when one more was opened than closed, that
it writes to the contact's bare address or where it last spoke, and that it believes in
chat states only if the contact can have shown them. `Kept` accounts for every message
heard: let go, or unread in one channel. `Ledger` accounts for every message sent: its
number is among the answers or with the porter, once, and what the porter has
is newer than what it answered; refusals, which do not pass through it, are the
exception and the reason why order is claimed of the others only. `Nicks` counts the
nickname of a channel that has yet to tell it, without which "at most once a
channel" is not inductive. `Discreet` and `Reports` are about who is told what. A step
concerns one contact: `EffectKeeps` proves once that such a step keeps `ImInv`, and the
lemma of each action shows what its effect is; a close with unread messages, which
opens the channel again, is one close and one opening.

*Roster.* `EditsStayTracked`. The invariant `RosterInv` is `Sound(F)`, where `F[c]` are the edits
of the contact `c` that are in flight; the lemmas of the actions show which `F` holds
afterwards, and `Together` that it is again what the stanzas under way say. `Flies` says
where an edit is: nowhere, in one stanza on its way to the server, or in one answer on its
way back, as the item's `inFlight` says. `Kept` is what makes an item fit for the next
step: a batch waits only for the roster or for the edit in flight, and the
requests that the batch carries are not those of the edit in flight; without the latter a
request would be counted down twice for one contact. `Exact` ties the countdown of each
request to the cardinality of its holders (`HeldBy`), and `Batch` moves both when edits of several
contacts are applied at once and sent in an order that only the table of items knows (`InTurn`).
That no assertion fails needs an argument about time: where pushes come first and
nobody else removes contacts, the server reports an item as gone only before it
answers the edit that removed it (`Warned`), so that an edit which says nothing of the
subscription is never in flight for an item that is gone (`Peaceful`), and
`roster_edited_cb` never believes in the subscription "invalid".

*Search.* `SearchesStaySound`, in the module itself. `SearchInv` says of each request
(`RequestSound`) that it is pending exactly while it waits for the discovery or its
channel asks for the form, and never both (`RequestPlaced`): so a discovery that is
over serves each of those that waited once. A search's log is a function of its
state (`LogTellsState`), which makes a reply after Stop harmless, and the keys of an open
channel name one field of the form each (`KeysFromForm`), whichever of the two kinds
of form the directory sent (`KeysOfTheForm`). What is sent has one field for each term and, with
a term for Openfire's search box, every box of the form ticked once (`TermsAndBoxes`, `Boxes`).

What is only model-checked: every liveness property (fairness is out of the
prover's reach), and the safety properties of the other modules, for the bounds
in their configurations.

## 5. Findings

Four runs end in a violation: they check what a comment, an assertion or a
document of the repository says of the code, and TLC finds a behaviour of the code
that disagrees.

| Run | What the code does |
|---|---|
| `connection_dispose` | the porter's callback for an aborted close may come after the connection was disposed of |
| `roster_refused` | `roster_edited_cb` believes that an item was created although the server refused to; storing the contact again then does nothing |
| `rooms_session` | a conference participant whose presence changes before our announcement is echoed is queued twice in `sessions_to_open`, and the second session meets `g_assert (priv->session == NULL)` |
| `tube_close` | the closing end of a tube sends `<close tube=…/>`, the receiving one reads the attribute `id`: the tube stays open there |

Other places where code and comments, or code and expectation, part were met
while modelling. The models have them, and the properties except them by the
history variables of section 2, unless the list says that a model leaves one out.

* *Request pipeline*: the branch of `response_cb` that frees zombies is not
  reached, so they stay until dispose.
* *vCard manager*: a failing GET of our own vCard makes the manager forget the
  SET in flight and send a second; the vCard cached after a SET never expires;
  an edit that changes nothing is not answered until some later SET or the end of the
  connection (vcard-manager.c:1192, `skipped`); a request that is cancelled, or whose owner
  dies, while its IQ or its retry timer is pending is freed while they hold it
  (vcard-manager.c:750, `freed`), or leaves an entry whose disposal fails an assertion.
* *Disco*: ListRooms twice, then StopListing: the first items request outlives
  its pipeline. A request is recognised by its address, which may belong to a
  newer request.
* *IBB*: a bytestream with unsent data stays CLOSING for ever if the last stanza in
  flight is refused; the side that is closed acknowledges the close and sends a
  close IQ as well.
* *Presence cache*: a failed disco request counts as one that will answer, or
  discards the waiters of other clients; a stream request that waits for a
  de-cloaking contact is not woken by the presence that answers it; where a contact that
  advertised our own node without a hash is being asked when `add_own_caps` trusts
  that node (a FIXME at presence-cache.c:2280), its answer replaces our capabilities and
  resets the trust (presence-cache.c:278, `overtaken`).
* *Porter*: an error is set on the NULL result of a close that was already
  completed.
* *Contact list*: a server that answers an edit before it pushes the item makes
  the next batch start from the old item, which undoes the first, and drops a
  queued removal although the comment in `gabble_roster_handle_remove` says it
  "will delete it again"; `_gabble_roster_item_maybe_remove` does not look at unsent
  edits, although the comment in `_gabble_roster_item_ensure` says that a
  transient item is kept "for as long as it has edits pending"; adding a contact
  whose removal is queued or in flight is lost with the item, and so is a
  removal before the item has been seen; `gabble_roster_unpublish_async` reads an
  item it may have freed, and declining a request sends nothing, so that the
  server goes on holding it; the flicker timeout overlooks subscription "from";
  a group's removal forgets members that left and came back; a contact that is
  removed while its request is open is reported as removed and stays; clearing
  the states of a transient item that is being edited is not reported; a batch
  applied after an edit that is believed without a push may carry no
  subscription and fail the assertion of `_subscription_to_string`.
* *Login*: a see-other-host after authentication, or a server that answers
  `<registered/>` to a client that unregisters, starts a second authentication with
  the same registry, which asserts that there is no handler
  (wocky-auth-registry.c:333, auth-manager.c:316), although a comment says "Reset to
  initial state"; AbortSASL after the last response sets Client_Failed and a
  success that follows overwrites it; AcceptSASL on a challenge that is not the last
  meets `g_assert_not_reached`; a reply without authentication fields is answered
  with nothing; waits after a SASL response and the connection to a host cannot be
  cancelled.
* *Rooms*: a text request made while a tube's or a call's room is joined is taken
  from the queue in `muc_ready_cb` and never announced (muc-factory.c:280, 309); a
  join that times out or is closed strands queued requests until the connection
  ends; ProvidePassword is not answered when the channel closes or the join fails
  otherwise; a join with a password has no timer; a second Close() sends a second
  leave and forgets the first timer; a call requested while leaving is lost;
  anybody's subject completes our SetSubject.
* *Conference calls*: `send_new_state` reads the codecs of a content that was
  added meanwhile and has none; a member who leaves ahead of us never gives us our
  turn; two participants may call each other because `sessions_opened` is set only
  by our own echo.
* *Jingle*: removals that cross and a new content of the same name: the late
  answer removes the new one at one end; a content that becomes ready while the
  initiate is unanswered is never signalled; a responder that adds a content
  before it accepts is refused and ends silently; modifications that cross each
  other or the accept leave the ends different (a FIXME says so); content-replace
  fails after it has removed; a hold set before the accept is taken back by the
  answer to the accept; `media_description_simplify` compares an element with
  itself.
* *Media channel*: a failed first request leaves a channel that was never
  announced, which EnsureChannel then returns; a delayed request may outlive
  Close; `pending_stream_request` may point to closed streams while Google's relays
  are asked for; RequestStreams on an incoming call accepts it; several orders of
  hold and unhold end in PENDING_HOLD or tell the peer the opposite.
* *Call channel*: contents that are removed after the session ended are still
  signalled; capabilities that arrive between a failed start and its idle callback
  complete it twice (call-channel.c:555, `twice`); pending channels are not closed at disconnection (a
  FIXME says so).
* *Bytestreams*: after an error of a socket the initiator waits for another
  streamhost (the comment at bytestream-socks5.c:667 says the target can try one),
  but a second connection meets `g_assert (read_buffer == NULL)` and a proxy's answer is
  refused; there is no timer before the handshake is over; a target with no
  streamhost left stays ACCEPTED and a fallback with no method left never closes; an
  initiator whose proxy does not activate falls back while the target is open;
  the link that `next_query` points to may be freed (bytestream-factory.c:356).
* *File transfer*: a contact who goes offline only sets CANCELLED, and the stream
  may take the channel back to OPEN or COMPLETED; an offset equal to the size never
  completes; a 404 or a failing agent frees the collection inside its own loop
  (gtalk-file-collection.c:670, 710); "complete" is sent only when one channel is
  listed; two files of one name are one.
* *Tubes*: the length of a big-endian D-Bus message is read with a shift of 24
  where 8 is meant (tube-dbus.c:1211); `extra_bytestream_negotiate_cb` asserts that a
  client is connected that may have gone (tube-stream.c:431, a state in which the
  model ends); a tube that closes while a stream is
  negotiated leaves the offerer's stream ACCEPTED.
* *Own presence*: a SetPresence between the initial presence and CONNECTED is told
  and never sent (conn-presence.c:1804); status changes faster than Google's answers
  leave the server invisible (a comment says so), so those scenes are patient;
  a shared status that is refused is told as set; another client that hides the user
  while we are away, or before we go away, leaves us told as away although contacts see
  nobody, since away is ours alone and `previous_shared_status` is not updated
  (conn-presence.c:424, 901), and where not every client can be hidden we are told as dnd
  (conn-presence.c:860; both `HiddenElsewhere`); pushes that cross our own set leave what was told and
  what the server has apart (`crossed`).
* *OLPC*: AddActivity of an unknown room takes two references and gives back one
  (conn-olpc.c:1025, `leaks`); an uninvitation with another id keeps its reference and tells
  nobody (conn-olpc.c:2598, `leaks`, `untold`); a duplicate in SetActivities frees
  a live object with `g_free` (conn-olpc.c:1127), where the model ends (`wrecked`); properties that a buddy
  publishes may change the visibility of an activity of ours, which is not
  published again (conn-olpc.c:2117, `stale`); an empty current activity keeps the cached one. A channel
  closed before the reply of PEP leaves a freed activity in the reply's context
  (conn-olpc.c:1707): the model leaves this out and closes after the reply.
* *Text, search*: a closed channel with unread messages comes back by design; a
  field without `var` in a search form is compared with `strcmp` (the model's forms name
  all their fields).
* *Aliases, avatars, contact information*: a nickname that arrives while the
  user's SetAliases is under way overwrites it; a look-up of PEP that fails or finds an item
  without a nickname takes a known nickname away and tells nobody
  (conn-aliasing.c:201, 662), and so does a contact who withdraws its nickname while the list has its JID for a
  name (conn-aliasing.c:842; both `silenced`); at disconnection a RequestAliases is
  answered with an array cut at the first unknown alias (conn-aliasing.c:296); tokens of
  our own avatar are never answered when our first vCard fails; the race that
  presence-cache.c:803 documents is excepted by `raced`; JABBERID and DESC can be
  read but not set, and are not among the model's fields; SetContactInfo that changes nothing is
  not answered, as above.
* *Mail*: a second `<new-mail>` while the poll timer runs resets its count and not its
  phase, so that the last poll may come before the server's silence ends (excepted
  by `aligned` and `missed`); a change between the first answer and the settings'
  effect is missed; RequestInboxURL without interest waits for the next query;
  senders are compared by their number.
* *Locations*: an item without a location is told as empty and leaves the old one
  in the cache; what a contact published is never forgotten.
* *Meta-porter*: two ends that connect to each other at once may each close the
  other's connection; opens that are pending when all is closed still make
  porters, and keep no reference to the meta-porter.

## 6. Not modelled

Parsing and building of stanzas, D-Bus glue, property getters, logging and the
parameter handling of the protocol object have no state of their own. gibber
(sockets) and the TLS libraries are input and output. Within modelled components:

* the contact list: disconnection (`gabble_roster_close_all`), `publish_request`;
* the porter: dispatch of received stanzas by pattern and priority, the check of
  senders, power saving;
* rooms: their configuration, kicking others, wording of messages;
* the presence cache: choosing the best resource, client types;
* Jingle: what candidates and codecs say;
* tubes: the table of several tubes, stream tubes in rooms (they differ in the sender), and
  that an Accept which is refused resets the access control of an open tube;
* OLPC: a current activity without an id.

Sidecars (one request per plugin, answered by the plugin), the capabilities' hashes
(taken as collision-free) and the plugins are left out. The rest of Wocky is not
used by Gabble, or is a parser or a binding.

## 7. Plan

1. Proofs: `RosterAgrees` of `Roster`, the waiters of `PresenceCaps` without
   failing clients, `HiddenFromTheStart` of `OwnPresence`.
2. Refinements: an abstract "request served once" specification for the request
   pipeline (the promise `VCardManager` uses) and for the porter (the callbacks
   `Connection` uses); the room bytestream of `DBusTube` as a `Bytestream`.
3. The parts of modelled components listed in section 6.

Bounds follow the present ones: two or three actors, one more request than any
window or limit, and both sides of every timeout.
