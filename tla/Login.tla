-------------------------------- MODULE Login --------------------------------
(* Logging in: WockyConnector with its TLS connector and the SASL and        *)
(* old-style authentication it hands over to (lib/ext/wocky), and Gabble's   *)
(* part in them: GabbleAuthManager with the SASL channel, by which a client  *)
(* authenticates, and GabbleServerTLSManager with the channel on which a     *)
(* client judges the server's certificate.                                   *)
(*                                                                           *)
(* The connector has one operation under way, con.at; the network answers    *)
(* it, or the client does, through its channels.  Sending a stanza and       *)
(* receiving the answer is one wait.                                         *)
EXTENDS Naturals, FiniteSets

CONSTANTS
  MAX_SEE_OTHER_HOST,   \* how often the server may send us elsewhere
  MaxRounds,            \* a bound on the challenges of the server
  Environments          \* the account's settings, what the server offers, and
                        \* a bound on the calls of clients

VARIABLES
  con,                  \* the WockyConnector, see NotConnected
  sasl,                 \* the GabbleAuthManager and its channel, see NoAuth
  tls,                  \* the GabbleServerTLSManager, see NoTls
  server,               \* what the server thinks of us, see NoSession
  user,                 \* the calls of clients so far
  env                   \* the environment: it never changes

vars == <<con, sasl, tls, server, user, env>>

NoFeatures == [starttls |-> FALSE, mechs |-> {}, auth |-> FALSE, bind |-> FALSE, session |-> FALSE]

\* encrypted, authed and features are the connector's; verdict is how the
\* certificate of an encrypted stream was judged; deaf: the wait cannot be
\* cancelled; exposed: whether the streams were encrypted on which the password was
\* sent in the clear.
NotConnected ==
  [at |-> "idle", reg |-> "none", encrypted |-> FALSE, authed |-> FALSE,
   features |-> NoFeatures, moved |-> 0, cancelled |-> FALSE, deaf |-> FALSE,
   verdict |-> "", outcome |-> "", crashed |-> "", exposed |-> {}]

\* result is the operation of the channel that waits for the client, cb the
\* result that an idle callback will deliver; aborted: the client said no.
NoAuth ==
  [chan |-> FALSE, status |-> "", offered |-> {}, mechs |-> {}, result |-> "", cb |-> "",
   error |-> FALSE, saved |-> FALSE, chaining |-> FALSE, handler |-> "", aborted |-> FALSE]

NoTls == [channel |-> FALSE, completed |-> 0, fallback |-> FALSE, gone |-> FALSE]

NoSession == [tls |-> FALSE, authed |-> FALSE, bound |-> FALSE, registered |-> FALSE, rounds |-> 0]

Init ==
  /\ env \in Environments
  /\ con = NotConnected
  /\ sasl = NoAuth
  /\ tls = NoTls
  /\ server = [NoSession EXCEPT !.registered = (env.op # "register")]
  /\ user = 0

-----------------------------------------------------------------------------
(* The connector between two answers.                                        *)

At(c, where) == [c EXCEPT !.at = where, !.deaf = FALSE]

\* complete_operation: the caller's callback runs.
CompleteOperation(c, how) == [At(c, "done") EXCEPT !.outcome = how]

AbortConnect(c) == CompleteOperation(c, "error")

XmppInit(c) == At(c, "open")

MaybeOldSsl(c) == IF env.oldSsl /\ ~c.encrypted THEN At(c, "handshake") ELSE XmppInit(c)

\* May the password be sent in the clear?
Clear(c) == env.insecureOk \/ (c.encrypted /\ env.plainOk)

JabberRequestAuth(c) == At(c, "jabber fields")

\* Defect: accounts are registered on any stream.
Xep77BeginAnyway(c) == At(c, "register get")

Xep77Begin(c) ==
  IF ~c.encrypted /\ ~env.insecureOk THEN AbortConnect(c) ELSE At(c, "register get")

EstablishSession(c) ==
  IF c.features.session THEN At(c, "session")
  ELSE IF c.reg = "cancel" THEN Xep77Begin(c)
  ELSE CompleteOperation(c, "ok")

Expose(c) == [c EXCEPT !.exposed = @ \cup {server.tls}]

-----------------------------------------------------------------------------
(* The SASL channel and the registry of mechanisms.  These operators change  *)
(* the authentication s; Crash is an assertion that fails.                   *)

\* wocky_auth_registry_select_handler, with the handlers in its order.
SelectHandler(mechs, plain) ==
  CASE "SCRAM" \in mechs -> "SCRAM"
    [] "JABBER-DIGEST" \in mechs -> "JABBER-DIGEST"
    [] plain /\ "PLAIN" \in mechs -> "PLAIN"
    [] plain /\ "JABBER-PASSWORD" \in mechs -> "JABBER-PASSWORD"
    [] OTHER -> ""

IsPlain(handler) == handler \in {"PLAIN", "JABBER-PASSWORD"}

Crash(s, why) == [s EXCEPT !.cb = why]

Crashes == {"second channel", "second handler", "challenge after accept", "closed without error"}

\* wocky_auth_registry_start_auth_async_func: authenticating on our own.
ParentStart(s, mechs, plain) ==
  IF s.handler # "" THEN Crash(s, "second handler")
  ELSE LET h == SelectHandler(mechs, plain)
       IN  [s EXCEPT !.chaining = TRUE, !.handler = h, !.cb = IF h = "" THEN "failed" ELSE "started"]

\* gabble_auth_manager_start_auth_async: a channel, if there is no password.
StartAuth(s, mechs, plain) ==
  IF s.chan THEN Crash(s, "second channel")
  ELSE IF env.password THEN ParentStart(s, mechs, plain)
  ELSE [s EXCEPT !.chan = TRUE, !.status = "Not_Started", !.result = "start", !.error = FALSE,
          !.mechs = mechs,
          !.offered = {m \in mechs : m \in {"SCRAM", "PLAIN"}}
                        \cup (IF SelectHandler(mechs, plain) # "" THEN {"X-TELEPATHY-PASSWORD"} ELSE {})]

\* gabble_server_sasl_channel_challenge_async, or its closing in the past.
ChannelChallenge(s) ==
  IF ~s.chan THEN IF s.saved THEN [s EXCEPT !.cb = "failed"] ELSE Crash(s, "closed without error")
  ELSE IF s.status = "In_Progress" THEN [s EXCEPT !.result = "challenge"]
  ELSE IF s.status = "Client_Failed" THEN [s EXCEPT !.cb = "failed"]
  ELSE Crash(s, "challenge after accept")

\* Our own mechanisms answer a challenge with something, nothing or an error.
ChallengeAsync(s, own) ==
  IF s.chaining THEN [s EXCEPT !.cb = own] ELSE ChannelChallenge(s)

\* Defect: a channel that was closed does not count.
ChannelSuccessUnlessOpen(s) ==
  IF ~s.chan THEN [s EXCEPT !.cb = "accepted"]
  ELSE IF s.status = "Client_Accepted" THEN [s EXCEPT !.status = "Succeeded", !.cb = "accepted"]
  ELSE [s EXCEPT !.status = "Server_Succeeded", !.result = "success"]

\* gabble_auth_manager_channel_success and ..._channel_success_async: the
\* client has the last word.
ChannelSuccess(s) ==
  IF ~s.chan THEN [s EXCEPT !.cb = IF s.saved THEN "failed" ELSE "accepted"]
  ELSE IF s.status = "Client_Accepted" THEN [s EXCEPT !.status = "Succeeded", !.cb = "accepted"]
  ELSE [s EXCEPT !.status = "Server_Succeeded", !.result = "success"]

SuccessAsync(s, own) ==
  IF s.chaining /\ own = "failed" THEN [s EXCEPT !.cb = "failed"] ELSE ChannelSuccess(s)

\* gabble_auth_manager_failure: the channel learns of the first failure.
Failure(s) ==
  IF s.chan /\ ~s.error THEN [s EXCEPT !.status = "Server_Failed", !.error = TRUE, !.cb = ""]
  ELSE [s EXCEPT !.cb = ""]

Both(c, s) == con' = c /\ sasl' = s

\* auth_failed.
AuthFailed(c, s) == Both(AbortConnect(c), Failure(s))

\* sasl_request_auth: without mechanisms the old way is tried, if it is known.
SaslRequestAuth(c) ==
  IF c.features.mechs # {} THEN Both(At(c, "sasl start"), StartAuth(sasl, c.features.mechs, Clear(c)))
  ELSE Both(IF c.features.auth THEN JabberRequestAuth(c) ELSE AbortConnect(c), sasl)

\* The callbacks of the registry: of start_auth, challenge and success, given
\* the connector, the authentication and the result.
Deliver(c, s, cb) ==
  LET t == [s EXCEPT !.cb = ""]
      sends == IF IsPlain(s.handler) THEN Expose(c) ELSE c
  IN
  CASE cb = "failed" -> AuthFailed(c, t)
    [] cb = "password" -> Both(c, ParentStart(t, t.mechs, Clear(c)))
    [] c.at \in {"sasl start", "jabber start"} ->
         IF c.cancelled THEN AuthFailed(c, t)
         ELSE Both(At(sends, IF c.at = "sasl start" THEN "sasl reply" ELSE "jabber reply"), t)
    [] c.at = "sasl challenge" -> Both([At(c, "sasl reply") EXCEPT !.deaf = TRUE], t)
    [] c.at = "sasl final" ->
         IF cb = "response" THEN AuthFailed(c, t)
         ELSE Both(At(c, "sasl success"), SuccessAsync(t, "accepted"))
    [] c.at = "sasl success" -> Both(XmppInit([c EXCEPT !.authed = TRUE]), t)
    [] c.at = "jabber success" -> Both(EstablishSession([c EXCEPT !.authed = TRUE]), t)

Idle ==
  /\ sasl.cb # ""
  /\ sasl.cb \notin Crashes
  /\ Deliver(con, sasl, sasl.cb)
  /\ UNCHANGED <<tls, server, user, env>>

\* An assertion has failed: the process is gone.
Crashed ==
  /\ sasl.cb \in Crashes
  /\ con.crashed = ""
  /\ con' = [con EXCEPT !.crashed = sasl.cb, !.at = "done"]
  /\ UNCHANGED <<sasl, tls, server, user, env>>

-----------------------------------------------------------------------------
(* The client's calls on the SASL channel.                                   *)

Client ==
  /\ con.crashed = ""
  /\ user < env.calls
  /\ user' = user + 1
  /\ UNCHANGED <<tls, server, env>>

StartMechanism ==
  /\ Client
  /\ sasl.chan
  /\ sasl.status = "Not_Started"
  /\ \E m \in sasl.offered :
       sasl' = [sasl EXCEPT !.status = "In_Progress", !.result = "",
                  !.cb = IF m = "X-TELEPATHY-PASSWORD" THEN "password" ELSE "started"]
  /\ UNCHANGED con

Respond ==
  /\ Client
  /\ sasl.chan
  /\ sasl.status = "In_Progress"
  /\ sasl.result # ""
  /\ \E r \in {"response", "empty"} : sasl' = [sasl EXCEPT !.result = "", !.cb = r]
  /\ UNCHANGED con

\* AcceptSASL: the last challenge was the server's final data, or the server's
\* success is believed.  The callback runs at once.
Accept ==
  /\ Client
  /\ sasl.chan
  /\ \/ /\ sasl.status = "In_Progress"
        /\ sasl.result # ""
        /\ Deliver(con, [sasl EXCEPT !.status = "Client_Accepted", !.result = ""], "empty")
     \/ /\ sasl.status = "Server_Succeeded"
        /\ Deliver(con, [sasl EXCEPT !.status = "Succeeded", !.result = ""], "accepted")

\* The result that waits, if any, fails in an idle callback.
FailResult(s) == [s EXCEPT !.cb = IF s.result # "" THEN "failed" ELSE @, !.result = ""]

AbortSasl ==
  /\ Client
  /\ sasl.chan
  /\ sasl.status \in {"Not_Started", "In_Progress", "Server_Succeeded"}
  /\ sasl' = FailResult([sasl EXCEPT !.status = "Client_Failed", !.error = TRUE, !.aborted = TRUE])
  /\ UNCHANGED con

\* Defect: what waits for the client goes on waiting.
CloseKeepsResult(s) ==
  LET said == s.status \in {"Not_Started", "In_Progress", "Server_Succeeded"}
  IN  [s EXCEPT !.aborted = @ \/ said, !.saved = @ \/ s.error \/ said, !.error = @ \/ said,
         !.chan = FALSE, !.mechs = {}]

\* gabble_server_sasl_channel_close and auth_channel_closed_cb, which keeps the
\* reason and forgets the mechanisms.
CloseSaslChannel(s) ==
  LET said == s.status \in {"Not_Started", "In_Progress", "Server_Succeeded"}
  IN  [FailResult(s) EXCEPT !.aborted = @ \/ said, !.saved = @ \/ s.error \/ said,
         !.error = @ \/ said, !.chan = FALSE, !.mechs = {}]

CloseSasl ==
  /\ Client
  /\ sasl.chan
  /\ sasl' = CloseSaslChannel(sasl)
  /\ UNCHANGED con

-----------------------------------------------------------------------------
(* The certificate.                                                          *)

\* tls_connector_secure_cb.
Secured(c, how) == XmppInit([c EXCEPT !.encrypted = TRUE, !.verdict = how])

\* complete_verify keeps the channel until it is closed.
CompleteVerify(t) ==
  [t EXCEPT !.completed = IF t.channel THEN @ + 1 ELSE @, !.channel = FALSE, !.fallback = FALSE]

CertClient ==
  /\ con.crashed = ""
  /\ user < env.calls
  /\ user' = user + 1
  /\ UNCHANGED <<sasl, server, env>>

CertAccept ==
  /\ CertClient
  /\ tls.channel
  /\ tls' = CompleteVerify(tls)
  /\ con' = Secured(con, "accepted")

CertReject ==
  /\ CertClient
  /\ tls.channel
  /\ tls' = CompleteVerify(tls)
  /\ con' = AbortConnect(con)

\* Nobody handles the channel: Gabble judges by itself.
CloseTlsChannel(t) ==
  IF t.channel THEN [t EXCEPT !.channel = FALSE, !.fallback = TRUE] ELSE t

CertClose ==
  /\ CertClient
  /\ \/ tls.channel /\ tls' = CloseTlsChannel(tls)
     \/ tls.completed > 0 /\ tls' = [tls EXCEPT !.completed = @ - 1]
  /\ UNCHANGED con

\* Defect: a certificate is good enough if nobody looks at it.
FallbackPasses == TRUE

\* The verdict of wocky_tls_session_verify_peer on the certificate.
FallbackVerdict == env.ignore \/ env.goodCert

VerifyFallback ==
  /\ tls.fallback
  /\ con.crashed = ""
  /\ tls' = CompleteVerify(tls)
  /\ con' = IF FallbackVerdict THEN Secured(con, "verified") ELSE AbortConnect(con)
  /\ UNCHANGED <<sasl, server, user, env>>

-----------------------------------------------------------------------------
(* Connecting, disconnecting, and the answers of the network.                *)

\* connect_async, register_async and unregister_async.
Connect ==
  /\ con.at = "idle"
  /\ con' = [At(con, IF env.srv THEN "srv" ELSE "host") EXCEPT
               !.reg = CASE env.op = "register" -> "signup"
                         [] env.op = "unregister" -> "cancel"
                         [] OTHER -> "none"]
  /\ UNCHANGED <<sasl, tls, server, user, env>>

\* Gabble disconnects: the channels are closed and the connector cancelled.
Disconnect ==
  /\ env.disconnects
  /\ con.at \notin {"idle", "done"}
  /\ ~con.cancelled
  /\ con' = [con EXCEPT !.cancelled = TRUE]
  /\ sasl' = IF sasl.chan THEN CloseSaslChannel(sasl) ELSE sasl
  /\ tls' = [CloseTlsChannel(tls) EXCEPT !.gone = TRUE, !.completed = 0]
  /\ UNCHANGED <<server, user, env>>

SrvConnected ==
  /\ con.at = "srv"
  /\ con' \in {At(con, "host"), MaybeOldSsl(con)}
  /\ UNCHANGED <<sasl, tls, server, user, env>>

HostConnected ==
  /\ con.at = "host"
  /\ con' \in {AbortConnect(con), MaybeOldSsl(con)}
  /\ UNCHANGED <<sasl, tls, server, user, env>>

NetworkWaits ==
  {"open", "features", "starttls", "handshake", "sasl reply", "jabber fields", "jabber reply",
   "register get", "register set", "unregister", "bind", "session"}

AuthWaits == {"sasl reply", "jabber fields", "jabber reply"}

\* A stanza cannot be sent or the stream ends; if we gave up this happens to
\* any wait that can be cancelled.
Lost ==
  /\ con.at \in NetworkWaits
  /\ env.breaks \/ (con.cancelled /\ ~con.deaf)
  /\ IF con.at \in AuthWaits THEN AuthFailed(con, sasl) ELSE Both(AbortConnect(con), sasl)
  /\ UNCHANGED <<tls, server, user, env>>

\* The server says something while we wait for it.  What it says after we gave
\* up is not waited for, except by WockySaslAuth.
Says(at) ==
  /\ con.at = at
  /\ ~env.silent
  /\ ~con.cancelled
  /\ UNCHANGED <<user, env>>

\* Without version 1.0 of XMPP there is only the old way.
OpenReceived ==
  /\ Says("open")
  /\ con' = IF env.version = 1 THEN At(con, "features")
            ELSE IF ~env.legacy \/ (env.tlsRequired /\ ~con.encrypted) THEN AbortConnect(con)
            ELSE JabberRequestAuth(con)
  /\ UNCHANGED <<sasl, tls, server>>

Features ==
  [starttls |-> env.offersTls /\ ~con.encrypted, mechs |-> IF server.authed THEN {} ELSE env.mechs,
   auth |-> env.jabberAuth, bind |-> env.bind, session |-> env.session]

\* Defect: the next stream counts as encrypted, too.
MovedStillEncrypted(c) ==
  [At(c, "host") EXCEPT !.moved = @ + 1, !.features = NoFeatures, !.authed = FALSE]

\* see-other-host resets the connector and starts again.
MovedTo(c) ==
  [At(c, "host") EXCEPT !.moved = @ + 1, !.features = NoFeatures, !.authed = FALSE,
     !.encrypted = FALSE, !.verdict = ""]

StreamError ==
  \E at \in {"features", "bind", "session"} :
    /\ Says(at)
    /\ env.moves
    /\ con' = IF con.moved < MAX_SEE_OTHER_HOST THEN MovedTo(con) ELSE AbortConnect(con)
    /\ server' = [server EXCEPT !.tls = FALSE, !.authed = FALSE, !.bound = FALSE]
    /\ UNCHANGED <<sasl, tls>>

\* Defect: TLS is used only if it is asked for.
FeaturesWithoutTls(c) ==
  IF ~c.encrypted /\ c.features.starttls /\ env.tlsRequired THEN "starttls"
  ELSE IF ~c.authed /\ c.reg = "signup" THEN "register"
  ELSE IF ~c.authed THEN "auth"
  ELSE IF c.features.bind THEN "bind" ELSE "abort"

\* xmpp_features_cb: what comes next.
NextStage(c) ==
  IF ~c.encrypted /\ ~c.features.starttls /\ env.tlsRequired THEN "abort"
  ELSE IF ~c.encrypted /\ c.features.starttls THEN "starttls"
  ELSE IF ~c.authed /\ c.reg = "signup" THEN "register"
  ELSE IF ~c.authed THEN "auth"
  ELSE IF c.features.bind THEN "bind" ELSE "abort"

FeaturesReceived ==
  /\ Says("features")
  /\ LET c == [con EXCEPT !.features = Features] IN
       CASE NextStage(c) = "abort" -> Both(AbortConnect(c), sasl)
         [] NextStage(c) = "register" -> Both(Xep77Begin(c), sasl)
         [] NextStage(c) = "auth" -> SaslRequestAuth(c)
         [] NextStage(c) \in {"starttls", "bind"} -> Both(At(c, NextStage(c)), sasl)
  /\ UNCHANGED <<tls, server>>

StarttlsReceived ==
  /\ Says("starttls")
  /\ con' \in {AbortConnect(con), At(con, "handshake")}
  /\ UNCHANGED <<sasl, tls, server>>

\* session_handshake_cb and gabble_server_tls_manager_verify_async.
HandshakeDone ==
  /\ Says("handshake")
  /\ con' = IF tls.gone THEN AbortConnect(con) ELSE At(con, "verify")
  /\ tls' = IF tls.gone THEN tls
            ELSE IF env.interactive THEN [tls EXCEPT !.channel = TRUE]
            ELSE [tls EXCEPT !.fallback = TRUE]
  /\ server' = [server EXCEPT !.tls = TRUE]
  /\ UNCHANGED sasl

\* sasl_auth_stanza_received.  After we gave up, whatever arrives is a failure.
SaslSays ==
  /\ con.at = "sasl reply"
  /\ ~env.silent
  /\ UNCHANGED <<tls, user, env>>

Willing == server.registered /\ ~server.authed /\ ~con.cancelled

SaslChallenged ==
  /\ SaslSays
  /\ Willing
  /\ server.rounds < MaxRounds
  /\ server' = [server EXCEPT !.rounds = @ + 1]
  /\ \E own \in {"response", "failed"} :
       Both(At(con, "sasl challenge"), ChallengeAsync(sasl, own))

\* The server's success, with final data or without.
SaslSucceeded ==
  /\ SaslSays
  /\ Willing
  /\ server' = [server EXCEPT !.authed = TRUE, !.rounds = 0]
  /\ \/ \E own \in {"response", "empty", "failed"} :
          Both(At(con, "sasl final"), ChallengeAsync(sasl, own))
     \/ \E own \in {"accepted", "failed"} :
          Both(At(con, "sasl success"), SuccessAsync(sasl, own))

SaslFailed ==
  /\ SaslSays
  /\ AuthFailed(con, sasl)
  /\ UNCHANGED server

\* jabber_auth_fields: an answer without the fields is answered by nothing.
FieldsReceived ==
  /\ Says("jabber fields")
  /\ \/ AuthFailed(con, sasl)
     \/ env.fields # {} /\ Both(At(con, "jabber start"), StartAuth(sasl, env.fields, Clear(con)))
     \/ env.fields = {} /\ Both(At(con, "stuck"), sasl)
  /\ UNCHANGED <<tls, server>>

JabberReplyReceived ==
  /\ Says("jabber reply")
  /\ \/ AuthFailed(con, sasl) /\ UNCHANGED server
     \/ /\ server' = [server EXCEPT !.authed = TRUE, !.bound = TRUE]
        /\ Both(At(con, "jabber success"), SuccessAsync(sasl, "accepted"))
  /\ UNCHANGED tls

BindReceived ==
  /\ Says("bind")
  /\ \/ con' = AbortConnect(con) /\ UNCHANGED server
     \/ con' = EstablishSession(con) /\ server' = [server EXCEPT !.bound = TRUE]
  /\ UNCHANGED <<sasl, tls>>

SessionReceived ==
  /\ Says("session")
  /\ \/ con' = AbortConnect(con)
     \/ con' = IF con.reg = "cancel" THEN Xep77Begin(con) ELSE CompleteOperation(con, "ok")
  /\ UNCHANGED <<sasl, tls, server>>

\* xep77_begin_recv and xep77_signup_send.  A server that says that we are
\* registered makes us authenticate, whatever we came for.
RegisterFieldsReceived ==
  /\ Says("register get")
  /\ \/ Both(AbortConnect(con), sasl)
     \/ server.registered /\ env.saysRegistered /\ SaslRequestAuth([con EXCEPT !.reg = "none"])
     \/ con.reg = "signup" /\ Both(Expose(At(con, "register set")), sasl)
     \/ con.reg = "cancel" /\ Both(At(con, "unregister"), sasl)
  /\ UNCHANGED <<tls, server>>

RegisterReceived ==
  /\ Says("register set")
  /\ \/ Both(AbortConnect(con), sasl) /\ UNCHANGED server
     \/ server' = [server EXCEPT !.registered = TRUE] /\ SaslRequestAuth([con EXCEPT !.reg = "none"])
  /\ UNCHANGED tls

UnregisterReceived ==
  /\ Says("unregister")
  /\ \/ con' = AbortConnect(con) /\ UNCHANGED server
     \/ con' = CompleteOperation(con, "ok") /\ server' = [server EXCEPT !.registered = FALSE]
  /\ UNCHANGED <<sasl, tls>>

-----------------------------------------------------------------------------
Network ==
  \/ SrvConnected \/ HostConnected \/ Lost \/ OpenReceived \/ StreamError \/ FeaturesReceived
  \/ StarttlsReceived \/ HandshakeDone \/ SaslChallenged \/ SaslSucceeded
  \/ SaslFailed \/ FieldsReceived \/ JabberReplyReceived
  \/ BindReceived \/ SessionReceived \/ RegisterFieldsReceived \/ RegisterReceived
  \/ UnregisterReceived

MainLoop == Idle \/ Crashed \/ VerifyFallback

Next ==
  \/ Connect \/ Disconnect \/ Network \/ MainLoop
  \/ StartMechanism \/ Respond \/ Accept \/ AbortSasl \/ CloseSasl
  \/ CertAccept \/ CertReject \/ CertClose

\* GLib's main loop runs its idle callbacks; the network delivers or breaks.
\* Clients may do nothing at all.
Fairness == WF_vars(Network) /\ WF_vars(MainLoop)

Spec == Init /\ [][Next]_vars /\ Fairness

-----------------------------------------------------------------------------
(* Properties.                                                               *)

\* Whoever is told that they are connected is: the server has authenticated us
\* and given us a resource, the stream is encrypted if that was asked for, the
\* certificate of an encrypted stream was accepted by the client or found good,
\* and the client did not refuse the authentication unless the server's
\* success overtook it; unregistering has removed the account.
ConnectedSoundly ==
  con.outcome = "ok" =>
    /\ server.authed /\ server.bound
    /\ env.tlsRequired => server.tls
    /\ con.encrypted => \/ con.verdict = "accepted"
                        \/ con.verdict = "verified" /\ FallbackVerdict
    /\ ~env.goodCert /\ ~env.ignore => con.verdict # "verified"
    /\ sasl.aborted => sasl.status = "Succeeded"
    /\ con.reg = "cancel" => ~server.registered

\* The password leaves in the clear only as the account allows, and never on a
\* stream whose certificate was not judged (sasl_request_auth, xep77_begin).
SecretsGuarded ==
  \A encrypted \in con.exposed : encrypted \/ env.insecureOk

\* The authentication never waits for nothing: while WockySaslAuth waits for
\* the registry either the client is asked, on an open channel whose status
\* says so, or the answer is in an idle callback; and never both.
NobodyForgotten ==
  /\ con.at \in {"sasl start", "sasl challenge", "sasl final", "sasl success", "jabber start",
                 "jabber success"} =>
       (sasl.cb = "") <=> (sasl.result # "")
  /\ sasl.result # "" =>
       /\ sasl.chan
       /\ sasl.status = CASE sasl.result = "start" -> "Not_Started"
                          [] sasl.result = "challenge" -> "In_Progress"
                          [] sasl.result = "success" -> "Server_Succeeded"
  /\ con.at = "verify" => (tls.channel <=> ~tls.fallback)
  /\ con.at # "verify" => ~tls.channel /\ ~tls.fallback

\* Assertions fail only when the server sends us elsewhere, or wants a second
\* authentication, after the first one; and when a client accepts a challenge
\* that was not the last one.
CrashesExplained ==
  /\ con.crashed \in {"second channel", "second handler"} => con.moved > 0 \/ env.op = "unregister"
  /\ con.crashed = "challenge after accept" => sasl.status # "In_Progress"
  /\ con.crashed = "closed without error" => sasl.status \in {"Client_Accepted", "Succeeded"}

Stuck == con.at = "stuck" \/ (env.silent /\ con.deaf)

ClientsTurn == sasl.result # "" \/ tls.channel

\* Logging in ends when Gabble gives up, and otherwise when the client need not
\* decide and the server answers; except in an authentication of the old style
\* whose fields are missing and behind a response to a silent server.
LoginEnds ==
  /\ con.cancelled ~> (con.at = "done" \/ Stuck)
  /\ con.at # "idle" /\ ~env.silent ~> (con.at = "done" \/ Stuck \/ ClientsTurn)
=============================================================================
