----------------------------- MODULE Connection -----------------------------
(* The life of a GabbleConnection (src/connection.c): connecting through a   *)
(* WockyConnector with fallback servers, the two disco requests and the      *)
(* initial presence that precede CONNECTED, and the ways down: the user, the *)
(* server's close or error, a failed step, a close that does not end.        *)
(*                                                                           *)
(* Of the connector, the porter and TpBaseConnection the model has what      *)
(* connection.c starts and the callbacks they may make; module C2SPorter is  *)
(* the porter itself.                                                        *)
EXTENDS Naturals

CONSTANTS
  Fallbacks        \* how many fallback servers the account has

ASSUME FallbacksAssumption == Fallbacks \in Nat

VARIABLES
  status,          \* the TpConnectionStatus
  closing,         \* priv->closing
  connector,       \* priv->connector: "none" or "running"
  fallback,        \* priv->fallback_server_index
  porter,          \* priv->porter: "none" or "open"
  closeOp,         \* wocky_porter_close_async: "none", "running" or "aborted"
  forceOp,         \* wocky_porter_force_close_async: is one running?
  remoteClosed,    \* the porter has seen the end of the server's stream
  timer,           \* priv->disconnect_timer # 0
  waiting,         \* priv->waiting_connected
  discos,          \* the disco requests of stage 2 that are unanswered
  presence,        \* the initial presence: "none", "running" or "done"
  finished,        \* how often tp_base_connection_finish_shutdown was called
  disposed,
  crashed          \* an assertion of connection.c has failed

shutVars == <<status, closing, closeOp, timer, finished, crashed>>
setupVars == <<waiting, discos, presence>>
vars == <<shutVars, setupVars, connector, fallback, porter, forceOp, remoteClosed, disposed>>

Init ==
  /\ status = "new"
  /\ closing = FALSE
  /\ connector = "none"
  /\ fallback = 0
  /\ porter = "none"
  /\ closeOp = "none"
  /\ forceOp = FALSE
  /\ remoteClosed = FALSE
  /\ timer = FALSE
  /\ waiting = 0
  /\ discos = {}
  /\ presence = "none"
  /\ finished = 0
  /\ disposed = FALSE
  /\ crashed = FALSE

Alive == ~disposed /\ ~crashed

-----------------------------------------------------------------------------
(* Going down.  Changing the status to DISCONNECTED calls                    *)
(* connection_shut_down, with conn and por the connector and porter there    *)
(* are by then.                                                              *)

\* Defect: no timer guards the close.
ShutDownUntimed(conn, por, isClosing) ==
  IF isClosing
  THEN closing' = isClosing /\ UNCHANGED <<closeOp, timer, finished, crashed>>
  ELSE /\ closing' = TRUE
       /\ closeOp' = IF por # "none" THEN "running" ELSE closeOp
       /\ finished' = IF por = "none" /\ conn = "none" THEN finished + 1 ELSE finished
       /\ UNCHANGED <<timer, crashed>>

\* A running connector is cancelled: its callback finishes the shutdown.
ShutDown(conn, por, isClosing) ==
  IF isClosing
  THEN closing' = isClosing /\ UNCHANGED <<closeOp, timer, finished, crashed>>
  ELSE /\ closing' = TRUE
       /\ crashed' = (por # "none" /\ timer)
       /\ timer' = (por # "none" \/ timer)
       /\ closeOp' = IF por # "none" THEN "running" ELSE closeOp
       /\ finished' = IF por = "none" /\ conn = "none" THEN finished + 1 ELSE finished

Disconnect(conn, por, isClosing) ==
  /\ status' = "disconnected"
  /\ ShutDown(conn, por, isClosing)

\* The user's Disconnect().
UserDisconnect ==
  /\ Alive
  /\ status \in {"connecting", "connected"}
  /\ Disconnect(connector, porter, closing)
  /\ UNCHANGED <<setupVars, connector, fallback, porter, forceOp, remoteClosed, disposed>>

\* The porter reports the end of the server's stream once, and not when it is
\* being forced to close.
StreamEnds ==
  /\ Alive
  /\ porter = "open"
  /\ ~remoteClosed
  /\ ~forceOp
  /\ remoteClosed' = TRUE

RemoteClosed ==
  /\ StreamEnds
  /\ IF status = "disconnected" THEN UNCHANGED shutVars
                                ELSE Disconnect(connector, porter, closing)
  /\ UNCHANGED <<setupVars, connector, fallback, porter, forceOp, disposed>>

\* Defect: the porter is closed in the ordinary way as well.
RemoteErrorNotClosing ==
  /\ StreamEnds
  /\ IF status = "disconnected" THEN UNCHANGED <<shutVars, forceOp>>
     ELSE forceOp' = TRUE /\ Disconnect(connector, porter, closing)
  /\ UNCHANGED <<setupVars, connector, fallback, porter, disposed>>

\* The stream has failed: the porter is forced to close and shutting down has
\* nothing left to do.
RemoteError ==
  /\ StreamEnds
  /\ IF status = "disconnected" THEN UNCHANGED <<shutVars, forceOp>>
     ELSE forceOp' = TRUE /\ Disconnect(connector, porter, TRUE)
  /\ UNCHANGED <<setupVars, connector, fallback, porter, disposed>>

\* closed_cb, when the close ended by itself.
Closed ==
  /\ Alive
  /\ closeOp = "running"
  /\ closeOp' = "none"
  /\ timer' = FALSE
  /\ finished' = finished + 1
  /\ UNCHANGED <<status, closing, crashed, setupVars, connector, fallback, porter, forceOp,
                 remoteClosed, disposed>>

\* Defect: an aborted close finishes the shutdown as well.
ClosedForciblyFinishes ==
  /\ Alive
  /\ closeOp = "aborted"
  /\ closeOp' = "none"
  /\ timer' = FALSE
  /\ finished' = finished + 1
  /\ UNCHANGED <<status, closing, crashed, setupVars, connector, fallback, porter, forceOp,
                 remoteClosed, disposed>>

\* closed_cb, when a forced close was started meanwhile: that one will finish.
ClosedForcibly ==
  /\ Alive
  /\ closeOp = "aborted"
  /\ closeOp' = "none"
  /\ timer' = FALSE
  /\ UNCHANGED <<status, closing, finished, crashed, setupVars, connector, fallback, porter,
                 forceOp, remoteClosed, disposed>>

\* The porter aborts the close that is running when it is forced.
DisconnectTimeout ==
  /\ Alive
  /\ timer
  /\ timer' = FALSE
  /\ forceOp' = TRUE
  /\ closeOp' = IF closeOp = "running" THEN "aborted" ELSE closeOp
  /\ UNCHANGED <<status, closing, finished, crashed, setupVars, connector, fallback, porter,
                 remoteClosed, disposed>>

\* If the server's stream has ended before, nothing has to be waited for and
\* the forced close may call back before the close it aborted.
ForceClosed ==
  /\ Alive
  /\ forceOp
  /\ closeOp # "aborted" \/ remoteClosed
  /\ forceOp' = FALSE
  /\ finished' = finished + 1
  /\ UNCHANGED <<status, closing, closeOp, timer, crashed, setupVars, connector, fallback,
                 porter, remoteClosed, disposed>>

\* The connection manager drops the connection once the shutdown has finished.
Dispose ==
  /\ Alive
  /\ finished > 0
  /\ disposed' = TRUE
  /\ crashed' = (status \notin {"disconnected", "new"})
  /\ porter' = "none"
  /\ connector' = "none"
  /\ timer' = FALSE
  /\ discos' = {}
  /\ UNCHANGED <<status, closing, closeOp, finished, waiting, presence, fallback, forceOp,
                 remoteClosed>>

-----------------------------------------------------------------------------
(* Connecting.                                                               *)

\* The user's Connect().
Connect ==
  /\ Alive
  /\ status = "new"
  /\ status' = "connecting"
  /\ crashed' = (connector # "none")
  /\ connector' = "running"
  /\ UNCHANGED <<closing, closeOp, timer, finished, setupVars, fallback, porter, forceOp,
                 remoteClosed, disposed>>

\* The connector's callback comes when we are closing already.
ConnectorTooLate ==
  /\ Alive
  /\ connector = "running"
  /\ closing
  /\ connector' = "none"
  /\ finished' = finished + 1
  /\ UNCHANGED <<status, closing, closeOp, timer, crashed, setupVars, fallback, porter,
                 forceOp, remoteClosed, disposed>>

\* Defect: the connector that failed is kept when the next server is tried.
ConnectorFailsKept(retriable, parses) ==
  /\ Alive
  /\ connector = "running"
  /\ ~closing
  /\ fallback' = IF retriable /\ fallback < Fallbacks THEN fallback + 1 ELSE fallback
  /\ IF retriable /\ fallback < Fallbacks /\ parses
     THEN /\ crashed' = (connector # "none")
          /\ UNCHANGED <<connector, status, closing, closeOp, timer, finished>>
     ELSE /\ connector' = "none"
          /\ Disconnect("none", porter, closing)
  /\ UNCHANGED <<setupVars, porter, forceOp, remoteClosed, disposed>>

\* The connection failed; retriable says that it was an I/O error, after
\* which the next fallback server is tried, if there is one and its name
\* parses: otherwise the later ones are not tried either.
ConnectorFails(retriable, parses) ==
  /\ Alive
  /\ connector = "running"
  /\ ~closing
  /\ fallback' = IF retriable /\ fallback < Fallbacks THEN fallback + 1 ELSE fallback
  /\ IF retriable /\ fallback < Fallbacks /\ parses
     THEN /\ connector' = "running"
          /\ UNCHANGED shutVars
     ELSE /\ connector' = "none"
          /\ Disconnect("none", porter, closing)
  /\ UNCHANGED <<setupVars, porter, forceOp, remoteClosed, disposed>>

\* Defect: the connection waits for one of the two discos only.
AskServerForOne ==
  /\ discos' = {"server", "self"}
  /\ waiting' = 1
  /\ UNCHANGED <<presence, shutVars>>

\* Stage 2: the server's features and our own account's.
AskServer ==
  /\ discos' = {"server", "self"}
  /\ waiting' = 2
  /\ UNCHANGED <<presence, shutVars>>

\* valid says that the JID the server gave us can be used.
ConnectorSucceeds(valid) ==
  /\ Alive
  /\ connector = "running"
  /\ ~closing
  /\ connector' = "none"
  /\ porter' = "open"
  /\ IF valid THEN AskServer
     ELSE Disconnect("none", "open", closing) /\ UNCHANGED setupVars
  /\ UNCHANGED <<fallback, forceOp, remoteClosed, disposed>>

\* Defect: the last event is acted upon whatever happened before it.
SetStatusToConnectedAlways == status' = "connected"

SetStatusToConnected ==
  status' = IF status = "disconnected" THEN status ELSE "connected"

DecrementWaiting ==
  /\ waiting' = waiting - 1
  /\ IF waiting = 1 THEN SetStatusToConnected ELSE UNCHANGED status
  /\ UNCHANGED <<closing, closeOp, timer, finished, crashed>>

\* Defect: a timeout is like an answer, but nothing follows it.
ServerDiscoIgnored(outcome) ==
  /\ Alive
  /\ "server" \in discos
  /\ discos' = discos \ {"server"}
  /\ \/ /\ status # "connecting" \/ outcome = "timeout"
        /\ UNCHANGED presence
     \/ /\ status = "connecting"
        /\ outcome # "timeout"
        /\ presence' = "running"
  /\ UNCHANGED <<shutVars, waiting, connector, fallback, porter, forceOp, remoteClosed, disposed>>

\* connection_disco_cb: outcome is "features", "error" or "timeout".
ServerDisco(outcome) ==
  /\ Alive
  /\ "server" \in discos
  /\ discos' = discos \ {"server"}
  /\ \/ /\ status # "connecting"
        /\ crashed' = (status # "disconnected")
        /\ UNCHANGED <<status, closing, closeOp, timer, finished, presence>>
     \/ /\ status = "connecting"
        /\ outcome = "timeout"
        /\ Disconnect(connector, porter, closing)
        /\ UNCHANGED presence
     \/ /\ status = "connecting"
        /\ outcome # "timeout"
        /\ presence' = "running"
        /\ UNCHANGED shutVars
  /\ UNCHANGED <<waiting, connector, fallback, porter, forceOp, remoteClosed, disposed>>

BareJidDisco ==
  /\ Alive
  /\ "self" \in discos
  /\ discos' = discos \ {"self"}
  /\ DecrementWaiting
  /\ UNCHANGED <<presence, connector, fallback, porter, forceOp, remoteClosed, disposed>>

\* connection_initial_presence_cb.
InitialPresence(ok) ==
  /\ Alive
  /\ presence = "running"
  /\ presence' = "done"
  /\ IF ok THEN DecrementWaiting
     ELSE /\ IF status # "disconnected" THEN Disconnect(connector, porter, closing)
                                       ELSE UNCHANGED shutVars
          /\ UNCHANGED waiting
  /\ UNCHANGED <<discos, connector, fallback, porter, forceOp, remoteClosed, disposed>>

-----------------------------------------------------------------------------
ConnectorReturns ==
  \/ ConnectorTooLate
  \/ \E retriable, parses \in BOOLEAN : ConnectorFails(retriable, parses)
  \/ \E valid \in BOOLEAN : ConnectorSucceeds(valid)

Next ==
  \/ Connect
  \/ ConnectorReturns
  \/ \E o \in {"features", "error", "timeout"} : ServerDisco(o)
  \/ BareJidDisco
  \/ \E b \in BOOLEAN : InitialPresence(b)
  \/ UserDisconnect \/ RemoteClosed \/ RemoteError
  \/ Closed \/ ClosedForcibly \/ DisconnectTimeout \/ ForceClosed
  \/ Dispose

Spec == Init /\ [][Next]_vars

(* Disco requests time out.  The connector, even a cancelled one, the IQs of *)
(* the initial presence and a close may hang for ever: otherwise only the    *)
(* timer and the forced close are sure to end.                               *)
Fairness ==
  /\ WF_vars(\E o \in {"features", "error", "timeout"} : ServerDisco(o))
  /\ WF_vars(BareJidDisco)
  /\ WF_vars(DisconnectTimeout)
  /\ WF_vars(ForceClosed)
  /\ WF_vars(ClosedForcibly)

FairSpec == Spec /\ Fairness

-----------------------------------------------------------------------------
(* The variables keep to their types; waiting_connected does not wrap round. *)
TypeOK ==
  /\ status \in {"new", "connecting", "connected", "disconnected"}
  /\ closing \in BOOLEAN
  /\ connector \in {"none", "running"}
  /\ fallback \in 0..Fallbacks
  /\ porter \in {"none", "open"}
  /\ closeOp \in {"none", "running", "aborted"}
  /\ forceOp \in BOOLEAN
  /\ remoteClosed \in BOOLEAN
  /\ timer \in BOOLEAN
  /\ waiting \in 0..2
  /\ discos \subseteq {"server", "self"}
  /\ presence \in {"none", "running", "done"}
  /\ finished \in Nat
  /\ disposed \in BOOLEAN
  /\ crashed \in BOOLEAN

(* No assertion of connection.c fails: a second connector is never made, the *)
(* disconnect timer never set twice, the server's features never arrive in a *)
(* connection that is CONNECTED, and only a DISCONNECTED one is disposed of. *)
NoCrash == ~crashed

(* The shutdown finishes at most once, and when it does the connection is    *)
(* DISCONNECTED and nothing connection.c started, the connector, a close, a  *)
(* forced close or the disconnect timer, will call back into it: the         *)
(* connection manager drops its reference then.  The one exception is a      *)
(* close aborted after the server had ended its stream (AllCalledBack).      *)
FinishedOnceAndQuiet ==
  /\ finished <= 1
  /\ finished = 1 => /\ status = "disconnected"
                     /\ connector = "none"
                     /\ closeOp = "none" \/ (closeOp = "aborted" /\ remoteClosed)
                     /\ ~forceOp
                     /\ ~timer

(* What a comment of connection.c says of the time of dispose: the porter    *)
(* has called back for all outstanding requests.                             *)
AllCalledBack == disposed => closeOp = "none" /\ ~forceOp

(* Every connection that is going down has something on its way that will    *)
(* finish the shutdown.                                                      *)
SomethingFinishes ==
  status = "disconnected" => finished = 1 \/ connector = "running" \/ forceOp
                                          \/ (closeOp = "running" /\ timer)

(* CONNECTED means that both discos were answered and the initial presence   *)
(* is set, over a porter that is there.                                      *)
ConnectedMeansReady ==
  status = "connected" => /\ discos = {}
                          /\ presence = "done"
                          /\ porter = "open"
                          /\ waiting = 0

(* A connection never leaves DISCONNECTED, whatever was still pending.       *)
NoComeback == [][status = "disconnected" => status' = "disconnected"]_vars

(* Nothing but the connector, which has no timer, and the initial presence,  *)
(* whose IQs have none, can keep a connection CONNECTING: everything else    *)
(* leads to the next stage or down.                                          *)
ConnectingEnds ==
  status = "connecting" ~> \/ status # "connecting"
                           \/ connector = "running"
                           \/ presence = "running"

(* A shutdown finishes, unless a cancelled connector never calls back.       *)
ShutdownEnds == status = "disconnected" /\ connector = "none" ~> finished = 1

\* Going down: no assertion fails, the shutdown finishes once and nothing is called
\* back afterwards, and as long as it has not finished an operation or a timer is
\* under way that will finish it (connection_shut_down).
ShutdownSafe ==
    /\ NoCrash
    /\ FinishedOnceAndQuiet
    /\ SomethingFinishes

\* Liveness: a connection stays CONNECTING only while the connector or the initial
\* presence has not returned (connector_connected, connection_disco_cb), and one that
\* is DISCONNECTED finishes its shutdown once its connector is gone, however the
\* porter's close fares (disconnect_timeout_cb).
StagesEnd ==
    /\ ConnectingEnds
    /\ ShutdownEnds
=============================================================================
