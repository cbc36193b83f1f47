------------------------------- MODULE Jingle -------------------------------
(* One Jingle session between two peers that both run WockyJingleSession,    *)
(* WockyJingleContent, the RTP media description and the transports          *)
(* (lib/ext/wocky): "I" initiates, "R" responds.  The server keeps the order *)
(* of the stanzas between them.  Applications call the two sessions as they  *)
(* like; descriptions are versions 1, 2, ..., candidates are counted.        *)
EXTENDS Naturals, FiniteSets, Sequences
LOCAL INSTANCE Functions

CONSTANTS
  MaxDesc,        \* versions of a media description
  MaxCand,        \* candidates of a content
  Worlds          \* the dialect and transport of the session, the clients'
                  \* operations and bounds on them

VARIABLES
  sess,           \* sess[p]: the session of peer p, see NoSession
  net,            \* net[p]: the stanzas on their way to p
  idle,           \* idle[p]: the stanzas p's idle callbacks will send
  refused,        \* refused[p]: <<action, content>> of p that the peer refused,
                  \* and the contents of p that a late answer removed
  calls,          \* calls[p]: the calls of p's client so far
  world           \* a member of Worlds: it never changes

vars == <<sess, net, idle, refused, calls, world>>

Peers == {"I", "R"}
Other(p) == IF p = "I" THEN "R" ELSE "I"

\* WockyJingleState.
PENDING_CREATED == 0
PENDING_INITIATE_SENT == 1
PENDING_INITIATED == 2
PENDING_ACCEPT_SENT == 3
ACTIVE == 4
ENDED == 5

\* WockyJingleContentState.
EMPTY == 0
NEW_CONTENT == 1
SENT == 2
ACKNOWLEDGED == 3
REMOVING == 4

\* known: the factory has the session.  early: local_hold was set when the
\* session became active; contents: the contents by <<creator, name>>.
NoSession(dialect) ==
  [known |-> FALSE, state |-> PENDING_CREATED, accepted |-> FALSE, dialect |-> dialect,
   hold |-> FALSE, remoteHold |-> FALSE, ringing |-> FALSE, early |-> FALSE, contents |-> <<>>]

\* local and sent count our candidates, got theirs; desc is our description
\* (0: none), heard theirs; late: it was ready when nothing could be sent.
EmptyContent(kind) ==
  [state |-> EMPTY, kind |-> kind, media |-> FALSE, local |-> 0, sent |-> 0, got |-> 0,
   desc |-> 0, heard |-> 0, senders |-> Peers, late |-> FALSE]

\* A session that is active, with contents of the initiator that both accepted.
Established(ks, dialect) ==
  [NoSession(dialect) EXCEPT
     !.known = TRUE, !.state = ACTIVE, !.accepted = TRUE,
     !.contents = [k \in ks |-> [EmptyContent("rtp") EXCEPT
        !.state = ACKNOWLEDGED, !.media = TRUE, !.local = 1, !.sent = 1, !.got = 1, !.desc = 1, !.heard = 1]]]

Init ==
  /\ world \in Worlds
  /\ sess = [p \in Peers |->
       IF world.start # {} THEN Established(world.start, world.dialect)
       ELSE [NoSession(world.dialect) EXCEPT !.known = (p = "I")]]
  /\ net = [p \in Peers |-> <<>>]
  /\ idle = [p \in Peers |-> <<>>]
  /\ refused = [p \in Peers |-> {}]
  /\ calls = [p \in Peers |-> 0]

-----------------------------------------------------------------------------
(* Actions of the protocol.                                                  *)

Google(dialect) == dialect \in {"gtalk3", "gtalk4"}

GtalkActions == {"session-accept", "session-initiate", "session-terminate", "transport-info", "info"}

\* wocky_jingle_session_defines_action.
DefinesAction(dialect, action) ==
  CASE dialect = "v032" -> TRUE
    [] dialect = "v015" -> action \notin {"description-info", "session-info"}
    [] dialect = "gtalk4" -> action \in GtalkActions \cup {"transport-accept"}
    [] dialect = "gtalk3" -> action \in GtalkActions

\* allowed_actions.
AllowedActions(state) ==
  CASE state = PENDING_CREATED -> {"session-initiate"}
    [] state = PENDING_INITIATE_SENT ->
         {"session-terminate", "session-accept", "transport-accept", "description-info",
          "session-info", "transport-info", "info"}
    [] state = PENDING_INITIATED ->
         {"session-accept", "session-terminate", "transport-info", "content-reject",
          "content-modify", "content-accept", "content-remove", "description-info",
          "transport-accept", "session-info", "info"}
    [] state = PENDING_ACCEPT_SENT ->
         {"transport-info", "description-info", "session-terminate", "session-info", "info"}
    [] state = ACTIVE ->
         {"content-modify", "content-add", "content-remove", "content-replace",
          "content-accept", "content-reject", "session-info", "transport-info",
          "description-info", "info", "session-terminate"}
    [] OTHER -> {}

NoContents == <<>>

\* wocky_jingle_session_new_message; how tells its payload or its kind.
Message(action, contents, how) == [t |-> action, cs |-> contents, how |-> how]

\* A step of a session works on x: the session s of peer p and the stanzas it
\* sends, and whether it found an error.
Step(p) == [p |-> p, s |-> sess[p], out |-> <<>>, err |-> FALSE]

Send(x, m) == [x EXCEPT !.out = Append(@, m)]

\* What a stanza says of content k (wocky_jingle_content_produce_node).
Node(c) == [senders |-> c.senders, desc |-> c.desc, kind |-> c.kind, cands |-> 0]

OfContent(x, k) == [j \in {k} |-> Node(x.s.contents[k])]

Without(f, k) == Restrict(f, DOMAIN f \ {k})

With(f, k, v) == [i \in DOMAIN f \cup {k} |-> IF i = k THEN v ELSE f[i]]

\* wocky_jingle_session_send_rtp_info.
SendRtpInfo(x, name) ==
  IF DefinesAction(x.s.dialect, "session-info") THEN Send(x, Message("session-info", NoContents, name)) ELSE x

SendHeld(x) == SendRtpInfo(x, IF x.s.hold THEN "hold" ELSE "unhold")

\* Defect: a hold is not told again.
SetStateUntold(x, state) ==
  IF state <= x.s.state THEN x
  ELSE LET y == [x EXCEPT !.s.state = state]
       IN  IF state = ENDED THEN [y EXCEPT !.s.known = FALSE, !.s.contents = NoContents] ELSE y

\* set_state: never back; a hold is told again.  A session that ended is
\* forgotten by the factory, and its contents are dropped.
SetState(x, state) ==
  IF state <= x.s.state THEN x
  ELSE LET y == [x EXCEPT !.s.state = state]
       IN  IF state = ENDED THEN [y EXCEPT !.s.known = FALSE, !.s.contents = NoContents]
           ELSE IF y.s.hold /\ state >= PENDING_INITIATED THEN SendHeld(y) ELSE y

-----------------------------------------------------------------------------
(* Contents and transports.                                                  *)

Ours(x, k) == k[1] = x.p

Raw(x) == world.transport = "raw" /\ ~Google(x.s.dialect)

\* Defect: their content is accepted before we have candidates.
IsReadyAtOnce(x, k) ==
  LET c == x.s.contents[k]
  IN  /\ c.media
      /\ IF Ours(x, k) THEN c.state = EMPTY ELSE c.state = NEW_CONTENT

\* wocky_jingle_content_is_ready, with can_accept of raw UDP.
IsReady(x, k) ==
  LET c == x.s.contents[k]
  IN  /\ c.media
      /\ IF Ours(x, k) THEN c.state = EMPTY /\ c.local > 0
         ELSE c.state = NEW_CONTENT /\ (Raw(x) => c.local > 0)

\* inject_candidates: the candidates of a content in a stanza about it; of the
\* Google transport there are none.
Injected(x, k) ==
  LET c == x.s.contents[k]
  IN  IF Google(x.s.dialect) THEN Node(c) ELSE [Node(c) EXCEPT !.cands = c.local]

AfterInjection(x, k) ==
  IF Google(x.s.dialect) THEN x.s.contents[k]
  ELSE [x.s.contents[k] EXCEPT !.sent = x.s.contents[k].local]

\* Defect: only the first candidates are sent.
SendCandidatesOnce(x, ks, all) ==
  LET some == {k \in ks : x.s.contents[k].sent = 0 /\ x.s.contents[k].local > 0}
      node(k) == [Node(x.s.contents[k]) EXCEPT !.cands = x.s.contents[k].local]
  IN  IF Raw(x) \/ some = {} THEN x
      ELSE [Send(x, Message("transport-info", [k \in some |-> node(k)], x.s.dialect)) EXCEPT
              !.s.contents = [k \in DOMAIN @ |-> 
                                IF k \in some THEN [@[k] EXCEPT !.sent = x.s.contents[k].local] ELSE @[k]]]

\* send_candidates of the contents ks: a transport-info, unless all are sent;
\* raw UDP sends none.
SendCandidates(x, ks, all) ==
  LET some == {k \in ks : all \/ x.s.contents[k].sent < x.s.contents[k].local}
      node(k) == [Node(x.s.contents[k]) EXCEPT !.cands = x.s.contents[k].local]
  IN  IF Raw(x) \/ some = {} THEN x
      ELSE [Send(x, Message("transport-info", [k \in some |-> node(k)], x.s.dialect)) EXCEPT
              !.s.contents = [k \in DOMAIN @ |->
                                IF k \in some THEN [@[k] EXCEPT !.sent = x.s.contents[k].local] ELSE @[k]]]

\* parse_candidates: raw UDP takes the first ones only.
ParseCandidates(x, k, n) ==
  LET got == x.s.contents[k].got
  IN  [x EXCEPT !.s.contents[k].got = IF Raw(x) /\ got > 0 THEN got ELSE IF n > got THEN n ELSE got]

\* _fill_content of every content.
FillContents(x) ==
  [x EXCEPT !.s.contents = [k \in DOMAIN @ |->
     [AfterInjection(x, k) EXCEPT !.state = IF x.s.contents[k].state = EMPTY THEN SENT ELSE ACKNOWLEDGED]]]

\* try_session_initiate_or_accept: once the client has accepted and every
\* content is ready.
TrySession(x) ==
  LET s == x.s
      initiates == x.p = "I"
      may == /\ s.state = (IF initiates THEN PENDING_CREATED ELSE PENDING_INITIATED)
             /\ s.accepted
             /\ \A k \in DOMAIN s.contents : IsReady(x, k)
      msg == Message(IF initiates THEN "session-initiate" ELSE "session-accept",
                     [k \in DOMAIN s.contents |-> Injected(x, k)], s.dialect)
      y == SetState(Send(FillContents(x), msg),
                    IF initiates THEN PENDING_INITIATE_SENT ELSE PENDING_ACCEPT_SENT)
  IN  IF may THEN SendCandidates(y, DOMAIN s.contents, FALSE) ELSE x

\* send_content_add_or_accept.
SendContentAddOrAccept(x, k) ==
  [Send(x, Message(IF Ours(x, k) THEN "content-add" ELSE "content-accept",
                   [j \in {k} |-> Injected(x, k)], "")) EXCEPT
     !.s.contents[k] = [AfterInjection(x, k) EXCEPT !.state = IF Ours(x, k) THEN SENT ELSE ACKNOWLEDGED]]

\* _maybe_ready; contents have the disposition "session".
MaybeReady(x, k) ==
  IF ~IsReady(x, k) THEN x
  ELSE IF x.s.state < PENDING_ACCEPT_SENT
  THEN LET y == TrySession(x)
       IN  IF x.p = "I" /\ x.s.state # PENDING_CREATED THEN [y EXCEPT !.s.contents[k].late = TRUE] ELSE y
  ELSE SendCandidates(SendContentAddOrAccept(x, k), {k}, FALSE)

\* Defect: a call that was not taken yet ends without a word.
TerminateQuietly(x) ==
  IF x.s.state = ENDED THEN x
  ELSE SetState(IF x.s.state < PENDING_ACCEPT_SENT THEN x
                ELSE Send(x, Message("session-terminate", NoContents, "")), ENDED)

\* wocky_jingle_session_terminate: quietly, unless the peer has heard of us.
Terminate(x) ==
  IF x.s.state = ENDED THEN x
  ELSE SetState(IF x.s.state = PENDING_CREATED THEN x
                ELSE Send(x, Message("session-terminate", NoContents, "")), ENDED)

CountActiveContents(x) ==
  Cardinality({k \in DOMAIN x.s.contents : x.s.contents[k].state \in NEW_CONTENT .. REMOVING - 1})

\* content_removed_cb, by name.
ContentRemoved(x, k) ==
  LET y == [x EXCEPT !.s.contents = Without(@, k)]
  IN  IF x.s.state = ENDED THEN y
      ELSE IF CountActiveContents(y) = 0 THEN Terminate(y) ELSE TrySession(y)

\* Defect: the peer is not told of a content that it has not accepted.
ContentRemoveUnaccepted(x, k, signalPeer, action) ==
  IF ~signalPeer \/ x.s.contents[k].state < ACKNOWLEDGED THEN ContentRemoved(x, k)
  ELSE IF x.s.contents[k].state = REMOVING THEN x
  ELSE Send([x EXCEPT !.s.contents[k].state = REMOVING], Message(action, OfContent(x, k), "removal"))

\* _content_remove: the peer is told, if it knows the content.
ContentRemove(x, k, signalPeer, action) ==
  IF ~signalPeer \/ x.s.contents[k].state = EMPTY THEN ContentRemoved(x, k)
  ELSE IF x.s.contents[k].state = REMOVING THEN x
  ELSE Send([x EXCEPT !.s.contents[k].state = REMOVING], Message(action, OfContent(x, k), "removal"))

\* wocky_jingle_content_change_direction.
ChangeDirection(x, k, senders) ==
  IF senders = x.s.contents[k].senders THEN x
  ELSE LET y == [x EXCEPT !.s.contents[k].senders = senders]
       IN  IF Google(x.s.dialect) \/ x.s.contents[k].state < SENT THEN y
           ELSE Send(y, Message("content-modify", OfContent(y, k), ""))

-----------------------------------------------------------------------------
(* Handlers of the peer's stanzas.  Of the contents of a stanza the ones in  *)
(* `done' come before one that is refused.                                   *)

Unknown(x, ks) == {k \in ks : k \notin DOMAIN x.s.contents}

\* wocky_jingle_content_parse_add with _each_content_add.  A type that the
\* factory does not know is refused, or rejected later.
Unsupported(m) == {k \in DOMAIN m.cs : m.cs[k].kind = "odd"}

ParsedContent(x, node) ==
  [EmptyContent(node.kind) EXCEPT !.state = NEW_CONTENT, !.senders = node.senders, !.heard = node.desc,
     !.got = node.cands]

AddContents(x, m, ks) ==
  [x EXCEPT !.s.contents = [k \in DOMAIN @ \cup ks |-> IF k \in ks THEN ParsedContent(x, m.cs[k]) ELSE @[k]]]

Erring(x) == [x EXCEPT !.err = TRUE]

OnSessionInitiate(x, m, done) ==
  IF Unsupported(m) # {} THEN Erring(AddContents(x, m, done \ Unsupported(m)))
  ELSE SendRtpInfo(SetState(AddContents(x, m, DOMAIN m.cs), PENDING_INITIATED), "ringing")

\* on_content_add: a content is added once.
OnContentAdd(x, m) ==
  LET fresh == Unknown(x, DOMAIN m.cs) \ Unsupported(m)
      y == AddContents(x, m, fresh)
  IN  IF DOMAIN m.cs \ (fresh \cup Unsupported(m)) # {} THEN Erring(y) ELSE y

\* _each_content_accept: only of a content that waits for it.
AcceptContents(x, m, ks) ==
  LET them == {k \in ks : x.s.contents[k].state = SENT}
      accept(c, node) == [c EXCEPT !.state = ACKNOWLEDGED, !.senders = node.senders, !.heard = node.desc,
                            !.got = IF node.cands > @ THEN node.cands ELSE @]
  IN  [x EXCEPT !.s.contents = [k \in DOMAIN @ |-> IF k \in them THEN accept(@[k], m.cs[k]) ELSE @[k]]]

OnContentAccept(x, m, done) ==
  IF Unknown(x, DOMAIN m.cs) # {} THEN Erring(AcceptContents(x, m, done \ Unknown(x, done)))
  ELSE AcceptContents(x, m, DOMAIN m.cs)

\* on_session_accept; older dialects have no <active/>.
OnSessionAccept(x, m, done) ==
  LET y == OnContentAccept(x, m, done)
      z == SetState(y, ACTIVE)
  IN  IF y.err THEN y
      ELSE IF x.s.dialect = "v032" THEN z ELSE [z EXCEPT !.s.ringing = FALSE]

\* on_content_remove, on_content_reject and on_content_replace, which removes
\* the content and then finds that it exists.
OnContentRemove(x, k) ==
  IF k \notin DOMAIN x.s.contents THEN Erring(x) ELSE ContentRemove(x, k, FALSE, "")

OnContentReplace(x, k) == Erring(OnContentRemove(x, k))

OnContentModify(x, m, k) ==
  IF k \notin DOMAIN x.s.contents THEN Erring(x)
  ELSE [x EXCEPT !.s.contents[k].senders = m.cs[k].senders]

\* handle_payload of on_session_info.
OnSessionInfo(x, how) ==
  CASE how = "active" -> [x EXCEPT !.s.ringing = FALSE, !.s.remoteHold = FALSE]
    [] how = "ringing" -> [x EXCEPT !.s.ringing = TRUE]
    [] OTHER -> [x EXCEPT !.s.remoteHold = (how = "hold")]

\* parse_candidates of the contents ks.
TakeCandidates(x, m, ks) ==
  [x EXCEPT !.s.contents = [k \in DOMAIN @ |->
     IF k \in ks THEN ParseCandidates(x, k, m.cs[k].cands).s.contents[k] ELSE @[k]]]

\* on_transport_info: a peer of an older dialect gets all our candidates again.
OnTransportInfo(x, m) ==
  IF x.s.dialect = "gtalk4" /\ m.how = "gtalk3"
  THEN LET y == SendCandidates([x EXCEPT !.s.dialect = "gtalk3"], DOMAIN x.s.contents, TRUE)
       IN  TakeCandidates(y, m, DOMAIN m.cs \cap DOMAIN x.s.contents)
  ELSE LET y == TakeCandidates(x, m, DOMAIN m.cs \cap DOMAIN x.s.contents)
       IN  IF Unknown(x, DOMAIN m.cs) # {} THEN Erring(y) ELSE y

\* on_description_info: meaningless before the peer has answered.
OnDescriptionInfo(x, m, k) ==
  IF k \notin DOMAIN x.s.contents THEN Erring(x)
  ELSE IF Ours(x, k) /\ x.s.contents[k].state < ACKNOWLEDGED THEN x
  ELSE [x EXCEPT !.s.contents[k].heard = m.cs[k].desc]

The(S) == CHOOSE k \in S : TRUE

\* wocky_jingle_state_machine_dance.
Dance(x, m, done) ==
  CASE m.t = "session-initiate" -> OnSessionInitiate(x, m, done)
    [] m.t = "session-accept" -> OnSessionAccept(x, m, done)
    [] m.t = "session-terminate" -> SetState(x, ENDED)
    [] m.t = "session-info" -> OnSessionInfo(x, m.how)
    [] m.t = "transport-info" -> OnTransportInfo(x, m)
    [] m.t = "transport-accept" -> x
    [] m.t = "description-info" -> OnDescriptionInfo(x, m, The(DOMAIN m.cs))
    [] m.t = "content-add" -> OnContentAdd(x, m)
    [] m.t = "content-accept" -> OnContentAccept(x, m, done)
    [] m.t = "content-modify" -> OnContentModify(x, m, The(DOMAIN m.cs))
    [] m.t = "content-replace" -> OnContentReplace(x, The(DOMAIN m.cs))
    [] OTHER -> OnContentRemove(x, The(DOMAIN m.cs))

\* Defect: a stanza that comes too early is taken.
ParseAlways(x, m, done) == Dance(x, m, done)

\* wocky_jingle_session_parse.
Parse(x, m, done) ==
  IF ~DefinesAction(x.s.dialect, m.t) \/ m.t \notin AllowedActions(x.s.state) THEN Erring(x)
  ELSE Dance(x, m, done)

\* ensure_session and jingle_cb: who starts a session that cannot be parsed
\* loses it.  An old client takes every Google dialect for its own.
JingleCb(x, m, done) ==
  LET dialect == IF Google(m.how) /\ world.old THEN "gtalk3" ELSE m.how
      y == IF m.t = "session-initiate" /\ x.s.state = PENDING_CREATED
           THEN Parse([x EXCEPT !.s.known = TRUE, !.s.dialect = dialect], m, done)
           ELSE IF x.s.known THEN Parse(x, m, done) ELSE Erring(x)
  IN  IF y.err /\ m.t = "session-initiate" THEN SetState(y, ENDED) ELSE y

\* _on_initiate_reply and _on_accept_reply: too late for a session that moved
\* on; and _on_remove_reply, whatever the peer says.
OnReply(x, m) ==
  LET ok == m.t = "result"
  IN
  CASE m.how = "session-initiate" ->
         IF x.s.state # PENDING_INITIATE_SENT THEN x
         ELSE IF ~ok THEN SetState(x, ENDED)
         ELSE [SetState(x, PENDING_INITIATED) EXCEPT !.s.ringing = @ \/ x.s.dialect # "v032"]
    [] m.how = "session-accept" ->
         IF x.s.state # PENDING_ACCEPT_SENT THEN x
         ELSE IF ~ok THEN SetState(x, ENDED)
         ELSE SendRtpInfo(SetState([x EXCEPT !.s.early = x.s.hold], ACTIVE), "active")
    [] OTHER -> IF x.s.state = ENDED THEN x ELSE ContentRemoved(x, The(DOMAIN m.cs))

Answered(m) == m.t \in {"session-initiate", "session-accept"} \/ m.how = "removal"

Reply(m, x) == [t |-> IF x.err THEN "error" ELSE "result", cs |-> m.cs, how |-> m.t]

\* What is left to idle callbacks: fire_idle_content_reject of contents that we
\* do not know, and send_gtalk4_transport_accept.
Idles(x, m) ==
  IF m.t = "content-add" /\ ~x.err /\ Unsupported(m) # {}
  THEN <<Message("content-reject", Restrict(m.cs, Unsupported(m)), "unsupported")>>
  ELSE IF m.t = "session-initiate" /\ x.s.dialect = "gtalk4" /\ x.s.known
  THEN <<Message("transport-accept", NoContents, "")>>
  ELSE <<>>

\* The answer to the removal of a content that is long gone, and whose name
\* another content has now.
LateRemovals(p, m) ==
  {<<"late removal", k>> : k \in {j \in DOMAIN m.cs :
     /\ m.how \in {"content-remove", "content-reject"}
     /\ j \in DOMAIN sess[p].contents
     /\ sess[p].contents[j].state # REMOVING}}

\* The peer answers what somebody waits for; other refusals are not heard.
Deliver(p) ==
  /\ net[p] # <<>>
  /\ LET m == Head(net[p])
         q == Other(p)
     IN  \E done \in SUBSET DOMAIN m.cs :
           LET isReply == m.t \in {"result", "error"}
               x == IF isReply THEN OnReply(Step(p), m) ELSE JingleCb(Step(p), m, done)
               answer == IF ~isReply /\ Answered(m) THEN <<Reply(m, x)>> ELSE <<>>
           IN  /\ done # {} => x.err /\ done # DOMAIN m.cs
               /\ sess' = [sess EXCEPT ![p] = x.s]
               /\ net' = [net EXCEPT ![p] = Tail(@), ![q] = @ \o x.out \o answer]
               /\ idle' = IF isReply THEN idle ELSE [idle EXCEPT ![p] = @ \o Idles(x, m)]
               /\ refused' = IF isReply THEN [refused EXCEPT ![p] = @ \cup LateRemovals(p, m)]
                             ELSE IF x.err
                             THEN [refused EXCEPT ![q] = @ \cup {<<m.t, k>> : k \in DOMAIN m.cs}]
                             ELSE refused
  /\ UNCHANGED <<calls, world>>

\* The transport-accept is forgotten with its content.
Idle(p) ==
  /\ idle[p] # <<>>
  /\ idle' = [idle EXCEPT ![p] = Tail(@)]
  /\ net' = IF Head(idle[p]).t = "content-reject" \/ sess[p].known
            THEN [net EXCEPT ![Other(p)] = Append(@, Head(idle[p]))]
            ELSE net
  /\ UNCHANGED <<sess, refused, calls, world>>

-----------------------------------------------------------------------------
(* The calls of the applications.                                            *)

Call(p, op, x) ==
  /\ op \in world.ops[p]
  /\ sess[p].known
  /\ calls[p] < world.calls[p]
  /\ calls' = [calls EXCEPT ![p] = @ + 1]
  /\ sess' = [sess EXCEPT ![p] = x.s]
  /\ net' = [net EXCEPT ![Other(p)] = @ \o x.out]
  /\ UNCHANGED <<idle, refused, world>>

\* wocky_jingle_session_can_modify_contents.
CanModifyContents(p) ==
  Google(sess[p].dialect) => sess[p].state = PENDING_CREATED /\ sess[p].contents = NoContents

\* The name that wocky_jingle_session_add_content finds: the given one (0), or
\* it with the first free number from the size of the table on.
FreshName(s, p) ==
  LET used == {k[2] : k \in DOMAIN s.contents}
      size == Cardinality({k \in DOMAIN s.contents : k[1] = p})
      free == {n \in size + 1 .. size + 1 + Cardinality(used) : n \notin used}
  IN  IF 0 \notin used THEN 0 ELSE CHOOSE n \in free : \A o \in free : n <= o

AddContent(p) ==
  /\ CanModifyContents(p)
  /\ Cardinality(DOMAIN sess[p].contents) < world.max
  /\ \E kind \in world.kinds :
       Call(p, "add", [Step(p) EXCEPT !.s.contents = With(@, <<p, FreshName(sess[p], p)>>, EmptyContent(kind))])

Accept(p) ==
  /\ sess[p].contents # NoContents
  /\ ~sess[p].accepted
  /\ p = "R" => sess[p].state >= PENDING_INITIATED
  /\ Call(p, "accept", TrySession([Step(p) EXCEPT !.s.accepted = TRUE]))

UserTerminates(p) == Call(p, "terminate", Terminate(Step(p)))

\* The "local-hold" property.
SetLocalHold(p) ==
  LET x == [Step(p) EXCEPT !.s.hold = ~@, !.s.early = FALSE]
  IN  Call(p, "hold", IF sess[p].state >= PENDING_INITIATED THEN SendHeld(x) ELSE x)

\* jingle_media_rtp_set_local_media_description: the first description makes
\* the media ready, a later one may have to be told.
SetLocalMediaDescription(p, k) ==
  LET x == [Step(p) EXCEPT !.s.contents[k].desc = @ + 1]
      y == IF x.s.contents[k].state >= SENT /\ DefinesAction(x.s.dialect, "description-info")
           THEN Send(x, Message("description-info", OfContent(x, k), "")) ELSE x
  IN  /\ sess[p].contents[k].desc < MaxDesc
      /\ Call(p, "describe", MaybeReady([y EXCEPT !.s.contents[k].media = TRUE], k))

\* Raw UDP has one candidate.
AddCandidates(p, k) ==
  LET x == [Step(p) EXCEPT !.s.contents[k].local = @ + 1]
      y == IF sess[p].contents[k].local = 0 THEN MaybeReady(x, k) ELSE x
  IN  /\ sess[p].contents[k].local < (IF Raw(Step(p)) THEN 1 ELSE MaxCand)
      /\ Call(p, "candidates",
              IF k \in DOMAIN y.s.contents /\ y.s.contents[k].state > EMPTY
              THEN SendCandidates(y, {k}, FALSE) ELSE y)

\* wocky_jingle_content_set_sending and ..._request_receiving, which end a
\* content without senders, and gabble_media_stream_change_direction.
SetSenders(p, k) ==
  \E senders \in SUBSET Peers :
    /\ senders # sess[p].contents[k].senders
    /\ Call(p, "senders",
            IF senders = {} THEN ContentRemove(Step(p), k, TRUE, "content-remove")
            ELSE ChangeDirection(Step(p), k, senders))

\* wocky_jingle_session_remove_content: the last one ends the session.
RemoveContent(p, k) ==
  Call(p, "remove", ContentRemove(Step(p), k, CountActiveContents(Step(p)) > 1, "content-remove"))

\* wocky_jingle_content_reject, of a content of the peer that we do not want.
RejectContent(p, k) ==
  /\ k[1] # p
  /\ Call(p, "reject", ContentRemove(Step(p), k, TRUE, "content-reject"))

\* wocky_jingle_content_set_transport_state looks again.
SetTransportState(p, k) ==
  /\ IsReady(Step(p), k)
  /\ Call(p, "transport", MaybeReady(Step(p), k))

OnContent(p, k) ==
  \/ SetLocalMediaDescription(p, k) \/ AddCandidates(p, k) \/ SetSenders(p, k)
  \/ RemoveContent(p, k) \/ RejectContent(p, k) \/ SetTransportState(p, k)

Client(p) ==
  \/ AddContent(p) \/ Accept(p) \/ UserTerminates(p) \/ SetLocalHold(p)
  \/ \E k \in DOMAIN sess[p].contents : OnContent(p, k)

Next == \E p \in Peers : Deliver(p) \/ Idle(p) \/ Client(p)


Spec == Init /\ [][Next]_vars

-----------------------------------------------------------------------------
(* Properties.                                                               *)

Quiet == \A p \in Peers : net[p] = <<>> /\ idle[p] = <<>>

I == sess["I"]
R == sess["R"]

\* When nothing is on its way the two ends agree on the state of the session:
\* nobody waits for an answer, both are active or neither is, and a session
\* that ended at one end ended at the other, unless the responder heard that
\* its acceptance was refused and ended without a word (_on_accept_reply).
StatesAgree ==
  Quiet =>
    /\ I.state # PENDING_INITIATE_SENT /\ R.state # PENDING_ACCEPT_SENT
    /\ I.state = ACTIVE <=> R.state = ACTIVE
    /\ R.state = PENDING_INITIATED => I.state = PENDING_INITIATED
    /\ I.state = PENDING_INITIATED =>
         \/ R.state = PENDING_INITIATED
         \/ R.state = ENDED /\ \E k \in DOMAIN I.contents \cup {<<"R", 0>>, <<"R", 1>>} :
                                  <<"session-accept", k>> \in refused["R"]

Signalled(s) == {k \in DOMAIN s.contents : s.contents[k].state # EMPTY}

Refused(k) == {r \in refused["I"] \cup refused["R"] : r[2] = k} # {}

\* They agree on the contents: what one end has signalled the other knows, an
\* offer waits at one end for the acceptance of the other, and the senders are
\* the same, if one end alone changes them; except for contents about which an
\* end was refused something, which nobody looks at (wocky_jingle_session_send),
\* or which the answer to the removal of an older content took away.
ContentsAgree ==
  Quiet /\ I.state = ACTIVE =>
    \A k \in Signalled(I) \cup Signalled(R) :
      \/ Refused(k)
      \/ /\ k \in Signalled(I) \cap Signalled(R)
         /\ LET mine == sess[k[1]].contents[k]
                theirs == sess[Other(k[1])].contents[k]
            IN  /\ <<mine.state, theirs.state>> \in {<<SENT, NEW_CONTENT>>, <<ACKNOWLEDGED, ACKNOWLEDGED>>}
                /\ world.modifiers # Peers /\ mine.state = ACKNOWLEDGED => mine.senders = theirs.senders

\* Nothing is left unsaid: of a content that both know each has the other's
\* candidates, of one that both accepted also the last description if the
\* dialect can tell it; and what is ready has been offered, unless it was ready
\* while the offer of the session was under way (_maybe_ready).
NothingUnsaid ==
  Quiet /\ I.state = ACTIVE =>
    \A p \in Peers : \A k \in DOMAIN sess[p].contents :
      LET c == sess[p].contents[k]
          d == sess[Other(p)].contents[k]
      IN  /\ k \in Signalled(I) \cap Signalled(R) =>
               /\ d.got = c.local \/ (k[1] # p /\ c.state = NEW_CONTENT /\ Raw(Step(p))) \/ Refused(k)
               /\ c.state = ACKNOWLEDGED /\ d.state = ACKNOWLEDGED
                    /\ DefinesAction(sess[p].dialect, "description-info") => d.heard = c.desc \/ Refused(k)
          /\ IsReady(Step(p), k) => c.late

\* The hold of each is known to the other, unless it was set before the session
\* became active: then the <active/> that follows takes it back
\* (_on_accept_reply).
HoldsAgree ==
  Quiet /\ I.state = ACTIVE /\ I.dialect = "v032" =>
    \A p \in Peers : sess[Other(p)].remoteHold = sess[p].hold \/ sess[p].early

\* Assertions: what is sent is ready (send_content_add_or_accept, inject_
\* candidates), and a session has contents when it is offered or accepted.
OffersComplete ==
  \A p \in Peers : \A i \in DOMAIN net[p] :
    LET m == net[p][i]
    IN  m.t \in {"session-initiate", "session-accept", "content-add", "content-accept"} =>
          /\ m.cs # NoContents
          /\ \A k \in DOMAIN m.cs : /\ m.cs[k].desc > 0
                                    /\ world.transport = "raw" /\ world.dialect = "v032" => m.cs[k].cands > 0
=============================================================================
