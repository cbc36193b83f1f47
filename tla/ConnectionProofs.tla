-------------------------- MODULE ConnectionProofs --------------------------
(* The safety of module Connection, for any number of fallback servers.      *)
EXTENDS Connection, TLAPS

(* What is under way when.  The five properties do not follow from           *)
(* themselves: that the shutdown finishes once needs that of the connector,  *)
(* the close and the forced close exactly one is running in a connection     *)
(* that is going down (Goal), and that CONNECTED means ready needs the       *)
(* meaning of waiting_connected while the answers come in (Setup).           *)

\* Before the way down nothing that closes is running.
Goal ==
  /\ closing <=> status = "disconnected"
  /\ ~closing => closeOp = "none" /\ ~forceOp /\ ~timer /\ finished = 0
  /\ timer <=> closeOp = "running"
  /\ closeOp = "aborted" => forceOp \/ (remoteClosed /\ finished = 1)
  /\ connector = "running" => porter = "none" /\ closeOp = "none" /\ ~forceOp /\ finished = 0
  /\ closeOp = "running" => ~forceOp
  /\ closeOp = "running" \/ forceOp => finished = 0
  /\ closing /\ finished = 0 => connector = "running" \/ closeOp = "running" \/ forceOp
  /\ finished <= 1
  /\ disposed => finished = 1

\* waiting_connected counts the own-account disco and the initial presence,
\* which the server's disco precedes.
Setup ==
  /\ status = "new" => connector = "none"
  /\ porter = "none" /\ ~disposed => discos = {} /\ presence = "none" /\ waiting = 0
  /\ status = "new" \/ (status = "connecting" /\ connector = "running") => porter = "none"
  /\ status = "connecting" /\ connector = "none" => porter = "open"
  /\ "server" \in discos => presence = "none"
  /\ (IF "self" \in discos THEN 1 ELSE 0)
       + (IF "server" \in discos \/ presence = "running" THEN 1 ELSE 0) <= waiting
  /\ status = "connecting" /\ porter = "open" =>
       /\ waiting = (IF "self" \in discos THEN 1 ELSE 0)
                      + (IF presence # "done" THEN 1 ELSE 0)
       /\ waiting # 0
       /\ presence = "none" => "server" \in discos

IInv == TypeOK /\ NoCrash /\ Goal /\ Setup /\ ConnectedMeansReady


-----------------------------------------------------------------------------
(* IInv holds in the initial state.                                          *)
LEMMA InitIInv == Init => IInv
<1> SUFFICES ASSUME Init PROVE IInv
  OBVIOUS
<1> USE DEF Init
<1>1. fallback \in 0..Fallbacks
  BY FallbacksAssumption
<1>2. waiting \in 0..2 /\ finished \in Nat
  OBVIOUS
<1>3. TypeOK
  BY <1>1, <1>2, Zenon DEF TypeOK
<1>4. Goal
  BY DEF Goal
<1>5. Setup
  BY DEF Setup
<1>6. QED
  BY <1>3, <1>4, <1>5 DEF IInv, NoCrash, ConnectedMeansReady

(* The types of what shutting down changes, and of the rest.                 *)
ShutTypes ==
  /\ status \in {"new", "connecting", "connected", "disconnected"}
  /\ closing \in BOOLEAN
  /\ closeOp \in {"none", "running", "aborted"}
  /\ timer \in BOOLEAN
  /\ finished \in Nat
  /\ crashed \in BOOLEAN

RestTypes ==
  /\ connector \in {"none", "running"}
  /\ fallback \in 0..Fallbacks
  /\ porter \in {"none", "open"}
  /\ forceOp \in BOOLEAN
  /\ remoteClosed \in BOOLEAN
  /\ waiting \in 0..2
  /\ discos \subseteq {"server", "self"}
  /\ presence \in {"none", "running", "done"}
  /\ disposed \in BOOLEAN

(* TypeOK is the two of them.                                                *)
LEMMA TypesSplit == TypeOK <=> ShutTypes /\ RestTypes
BY Zenon DEF TypeOK, ShutTypes, RestTypes

(* What connection_shut_down leaves behind has the right types.              *)
LEMMA DisconnectTypes ==
  ASSUME ShutTypes, NEW conn, NEW por, NEW ic \in BOOLEAN, Disconnect(conn, por, ic)
  PROVE  ShutTypes'
<1>1. CASE ic
  BY <1>1, Zenon DEF ShutTypes, Disconnect, ShutDown
<1>2. CASE ~ic
  <2>1. finished' \in Nat
    BY <1>2 DEF ShutTypes, Disconnect, ShutDown
  <2>2. closeOp' \in {"none", "running", "aborted"}
    BY <1>2 DEF ShutTypes, Disconnect, ShutDown
  <2>3. QED
    BY <1>2, <2>1, <2>2, Zenon DEF ShutTypes, Disconnect, ShutDown
<1>3. QED
  BY <1>1, <1>2

(* Going down from a connection that is not closing: of the connector, the   *)
(* close and the immediate end exactly one comes next.                       *)
LEMMA DisconnectGoal ==
  ASSUME TypeOK, Goal, ~closing, ~disposed,
         NEW conn \in {"none", "running"}, NEW por \in {"none", "open"},
         conn = "running" => por = "none",
         Disconnect(conn, por, FALSE),
         connector' = conn, porter' = por, forceOp' = forceOp, disposed' = disposed
  PROVE  Goal'
<1> USE DEF TypeOK, Goal, Disconnect, ShutDown
<1>1. CASE por = "open"
  BY <1>1
<1>2. CASE por = "none" /\ conn = "running"
  BY <1>2
<1>3. CASE por = "none" /\ conn = "none"
  BY <1>3
<1>4. QED
  BY <1>1, <1>2, <1>3

(* Every step of every callback keeps IInv.                                  *)
LEMMA NextIInv == IInv /\ [Next]_vars => IInv'
<1> SUFFICES ASSUME IInv, [Next]_vars PROVE IInv'
  OBVIOUS
<1> USE DEF IInv, Goal, Setup
<1>1. CASE Connect
  <2> USE <1>1 DEF Alive, shutVars, setupVars
  <2>1. ShutTypes'
    BY TypesSplit DEF Connect, ShutTypes
  <2>2. RestTypes'
    BY TypesSplit DEF Connect, RestTypes
  <2>3. Goal'
    BY DEF TypeOK, Connect
  <2>4. Setup'
    BY DEF TypeOK, Connect
  <2>5. NoCrash' /\ ConnectedMeansReady'
    BY DEF TypeOK, NoCrash, ConnectedMeansReady, Connect
  <2>6. QED
    BY <2>1, <2>2, <2>3, <2>4, <2>5, Zenon DEF TypeOK, ShutTypes, RestTypes
<1>2. CASE ConnectorTooLate
  <2> USE <1>2 DEF Alive, shutVars, setupVars
  <2>0. finished' \in Nat /\ closeOp' \in {"none", "running", "aborted"}
    BY DEF TypeOK, ConnectorTooLate
  <2>1. ShutTypes'
    BY <2>0, Zenon DEF TypeOK, ConnectorTooLate, ShutTypes
  <2>2. RestTypes'
    BY TypesSplit DEF ConnectorTooLate, RestTypes
  <2>3. Goal'
    BY DEF TypeOK, ConnectorTooLate
  <2>4. Setup'
    BY DEF TypeOK, ConnectorTooLate
  <2>5. NoCrash' /\ ConnectedMeansReady'
    BY DEF TypeOK, NoCrash, ConnectedMeansReady, ConnectorTooLate
  <2>6. QED
    BY <2>1, <2>2, <2>3, <2>4, <2>5, Zenon DEF TypeOK, ShutTypes, RestTypes
<1>3. CASE \E b, p \in BOOLEAN : ConnectorFails(b, p)
  <2> USE <1>3 DEF Alive, shutVars, setupVars
  <2>1. ShutTypes'
    BY DisconnectTypes, TypesSplit DEF ConnectorFails, ShutTypes, RestTypes
  <2>2. RestTypes'
    BY TypesSplit, FallbacksAssumption DEF ConnectorFails, RestTypes
  <2>3. Goal'
    <3>1. PICK b \in BOOLEAN, p \in BOOLEAN : ConnectorFails(b, p)
      OBVIOUS
    <3>2. CASE b /\ fallback < Fallbacks /\ p
      BY <3>1, <3>2 DEF TypeOK, ConnectorFails
    <3>3. CASE ~(b /\ fallback < Fallbacks /\ p)
      <4>1. /\ ~closing /\ ~disposed /\ porter = "none"
            /\ Disconnect("none", porter, closing)
            /\ connector' = "none"
            /\ UNCHANGED <<porter, forceOp, disposed>>
        BY <3>1, <3>3 DEF ConnectorFails
      <4>2. finished = 0
        BY <4>1
      <4>3. QED
        BY <4>1, <4>2 DEF TypeOK, Disconnect, ShutDown
    <3>4. QED
      BY <3>2, <3>3
  <2>4. Setup'
    BY DEF TypeOK, ConnectorFails, Disconnect, ShutDown
  <2>5. NoCrash' /\ ConnectedMeansReady'
    BY DEF TypeOK, NoCrash, ConnectedMeansReady, ConnectorFails, Disconnect, ShutDown
  <2>6. QED
    BY <2>1, <2>2, <2>3, <2>4, <2>5, Zenon DEF TypeOK, ShutTypes, RestTypes
<1>4. CASE \E b \in BOOLEAN : ConnectorSucceeds(b)
  <2> USE <1>4 DEF Alive, shutVars, setupVars
  <2>1. ShutTypes'
    BY DisconnectTypes, TypesSplit DEF ConnectorSucceeds, AskServer, ShutTypes, RestTypes
  <2>2. RestTypes'
    BY TypesSplit DEF ConnectorSucceeds, AskServer, RestTypes
  <2>3. Goal'
    <3>1. PICK b \in BOOLEAN : ConnectorSucceeds(b)
      OBVIOUS
    <3>2. CASE b
      BY <3>1, <3>2 DEF TypeOK, ConnectorSucceeds, AskServer
    <3>3. CASE ~b
      <4>1. /\ ~closing /\ ~disposed
            /\ Disconnect("none", "open", closing)
            /\ connector' = "none" /\ porter' = "open"
            /\ UNCHANGED <<forceOp, disposed>>
        BY <3>1, <3>3 DEF ConnectorSucceeds
      <4>2. QED
        BY <4>1 DEF TypeOK, Disconnect, ShutDown
    <3>4. QED
      BY <3>2, <3>3
  <2>4. Setup'
    BY DEF TypeOK, ConnectorSucceeds, AskServer, Disconnect, ShutDown
  <2>5. NoCrash' /\ ConnectedMeansReady'
    BY DEF TypeOK, NoCrash, ConnectedMeansReady, ConnectorSucceeds, AskServer, Disconnect, ShutDown
  <2>6. QED
    BY <2>1, <2>2, <2>3, <2>4, <2>5, Zenon DEF TypeOK, ShutTypes, RestTypes
<1>5. CASE \E o \in {"features", "error", "timeout"} : ServerDisco(o)
  <2> USE <1>5 DEF Alive, shutVars, setupVars
  <2>1. ShutTypes'
    BY DisconnectTypes, TypesSplit, ZenonT(40) DEF ServerDisco, ShutTypes, RestTypes
  <2>2. RestTypes'
    BY TypesSplit DEF ServerDisco, RestTypes
  <2>3. Goal'
    <3>1. PICK o \in {"features", "error", "timeout"} : ServerDisco(o)
      OBVIOUS
    <3>2. CASE status = "connecting" /\ o = "timeout"
      <4>1. /\ ~closing /\ ~disposed
            /\ Disconnect(connector, porter, closing)
            /\ UNCHANGED <<connector, porter, forceOp, disposed>>
        BY <3>1, <3>2 DEF ServerDisco
      <4>2. QED
        BY <3>2, <4>1 DEF TypeOK, Disconnect, ShutDown
    <3>3. CASE ~(status = "connecting" /\ o = "timeout")
      <4>1. UNCHANGED <<status, closing, closeOp, timer, finished, connector, porter,
                        forceOp, remoteClosed, disposed>>
        BY <3>1, <3>3 DEF ServerDisco
      <4>2. QED
        BY <4>1
    <3>4. QED
      BY <3>2, <3>3
  <2>4. Setup'
    BY DEF TypeOK, ServerDisco, Disconnect, ShutDown
  <2>5. NoCrash' /\ ConnectedMeansReady'
    BY DEF TypeOK, NoCrash, ConnectedMeansReady, ServerDisco, Disconnect, ShutDown
  <2>6. QED
    BY <2>1, <2>2, <2>3, <2>4, <2>5, Zenon DEF TypeOK, ShutTypes, RestTypes
<1>6. CASE BareJidDisco
  <2> USE <1>6 DEF Alive, shutVars, setupVars
  <2>1. ShutTypes'
    BY TypesSplit DEF BareJidDisco, DecrementWaiting, SetStatusToConnected, ShutTypes
  <2>2. RestTypes'
    BY TypesSplit DEF BareJidDisco, DecrementWaiting, SetStatusToConnected, RestTypes
  <2>3. Goal'
    BY DEF TypeOK, BareJidDisco, DecrementWaiting, SetStatusToConnected
  <2>4. Setup'
    BY DEF TypeOK, BareJidDisco, DecrementWaiting, SetStatusToConnected
  <2>5. NoCrash' /\ ConnectedMeansReady'
    BY DEF TypeOK, NoCrash, ConnectedMeansReady, BareJidDisco, DecrementWaiting, SetStatusToConnected
  <2>6. QED
    BY <2>1, <2>2, <2>3, <2>4, <2>5, Zenon DEF TypeOK, ShutTypes, RestTypes
<1>7. CASE \E b \in BOOLEAN : InitialPresence(b)
  <2> USE <1>7 DEF Alive, shutVars, setupVars
  <2>1. ShutTypes'
    BY DisconnectTypes, TypesSplit DEF InitialPresence, DecrementWaiting, SetStatusToConnected, ShutTypes, RestTypes
  <2>2. RestTypes'
    BY TypesSplit DEF InitialPresence, DecrementWaiting, SetStatusToConnected, RestTypes
  <2>3. Goal'
    <3>1. PICK b \in BOOLEAN : InitialPresence(b)
      OBVIOUS
    <3>2. CASE b
      BY <3>1, <3>2 DEF TypeOK, InitialPresence, DecrementWaiting, SetStatusToConnected
    <3>3. CASE ~b /\ status = "disconnected"
      <4>1. UNCHANGED <<status, closing, closeOp, timer, finished, connector, porter,
                        forceOp, remoteClosed, disposed>>
        BY <3>1, <3>3 DEF InitialPresence
      <4>2. QED
        BY <4>1
    <3>4. CASE ~b /\ status # "disconnected"
      <4>1. /\ ~closing /\ ~disposed
            /\ Disconnect(connector, porter, closing)
            /\ UNCHANGED <<connector, porter, forceOp, disposed>>
        BY <3>1, <3>4 DEF InitialPresence
      <4>2. porter = "open" /\ connector = "none"
        BY <3>1, <4>1 DEF TypeOK, InitialPresence
      <4>3. QED
        BY <3>4, <4>1, <4>2 DEF TypeOK, Disconnect, ShutDown
    <3>5. QED
      BY <3>2, <3>3, <3>4
  <2>4. Setup'
    BY DEF TypeOK, InitialPresence, DecrementWaiting, SetStatusToConnected, Disconnect, ShutDown
  <2>5. NoCrash' /\ ConnectedMeansReady'
    BY DEF TypeOK, NoCrash, ConnectedMeansReady, InitialPresence, DecrementWaiting, SetStatusToConnected, Disconnect, ShutDown
  <2>6. QED
    BY <2>1, <2>2, <2>3, <2>4, <2>5, Zenon DEF TypeOK, ShutTypes, RestTypes
<1>8. CASE UserDisconnect
  <2> USE <1>8 DEF Alive, shutVars, setupVars
  <2>1. ShutTypes'
    BY DisconnectTypes, TypesSplit DEF UserDisconnect, ShutTypes, RestTypes
  <2>2. RestTypes'
    BY TypesSplit DEF UserDisconnect, RestTypes
  <2>3. Goal'
    BY DisconnectGoal DEF TypeOK, UserDisconnect
  <2>4. Setup'
    BY DEF TypeOK, UserDisconnect, Disconnect, ShutDown
  <2>5. NoCrash' /\ ConnectedMeansReady'
    BY DEF TypeOK, NoCrash, ConnectedMeansReady, UserDisconnect, Disconnect, ShutDown
  <2>6. QED
    BY <2>1, <2>2, <2>3, <2>4, <2>5, Zenon DEF TypeOK, ShutTypes, RestTypes
<1>9. CASE RemoteClosed
  <2> USE <1>9 DEF Alive, StreamEnds, shutVars, setupVars
  <2>1. ShutTypes'
    BY DisconnectTypes, TypesSplit DEF RemoteClosed, ShutTypes, RestTypes
  <2>2. RestTypes'
    BY TypesSplit DEF RemoteClosed, RestTypes
  <2>3. Goal'
    BY DEF TypeOK, RemoteClosed, Disconnect, ShutDown
  <2>4. Setup'
    BY DEF TypeOK, RemoteClosed, Disconnect, ShutDown
  <2>5. NoCrash' /\ ConnectedMeansReady'
    BY DEF TypeOK, NoCrash, ConnectedMeansReady, RemoteClosed, Disconnect, ShutDown
  <2>6. QED
    BY <2>1, <2>2, <2>3, <2>4, <2>5, Zenon DEF TypeOK, ShutTypes, RestTypes
<1>10. CASE RemoteError
  <2> USE <1>10 DEF Alive, StreamEnds, shutVars, setupVars
  <2>1. ShutTypes'
    BY DisconnectTypes, TypesSplit DEF RemoteError, ShutTypes, RestTypes
  <2>2. RestTypes'
    BY TypesSplit DEF RemoteError, RestTypes
  <2>3. Goal'
    BY DEF TypeOK, RemoteError, Disconnect, ShutDown
  <2>4. Setup'
    BY DEF TypeOK, RemoteError, Disconnect, ShutDown
  <2>5. NoCrash' /\ ConnectedMeansReady'
    BY DEF TypeOK, NoCrash, ConnectedMeansReady, RemoteError, Disconnect, ShutDown
  <2>6. QED
    BY <2>1, <2>2, <2>3, <2>4, <2>5, Zenon DEF TypeOK, ShutTypes, RestTypes
<1>11. CASE Closed
  <2> USE <1>11 DEF Alive, shutVars, setupVars
  <2>0. finished' \in Nat /\ closeOp' \in {"none", "running", "aborted"}
    BY DEF TypeOK, Closed
  <2>1. ShutTypes'
    BY <2>0, Zenon DEF TypeOK, Closed, ShutTypes
  <2>2. RestTypes'
    BY TypesSplit DEF Closed, RestTypes
  <2>3. Goal'
    BY DEF TypeOK, Closed
  <2>4. Setup'
    BY DEF TypeOK, Closed
  <2>5. NoCrash' /\ ConnectedMeansReady'
    BY DEF TypeOK, NoCrash, ConnectedMeansReady, Closed
  <2>6. QED
    BY <2>1, <2>2, <2>3, <2>4, <2>5, Zenon DEF TypeOK, ShutTypes, RestTypes
<1>12. CASE ClosedForcibly
  <2> USE <1>12 DEF Alive, shutVars, setupVars
  <2>0. finished' \in Nat /\ closeOp' \in {"none", "running", "aborted"}
    BY DEF TypeOK, ClosedForcibly
  <2>1. ShutTypes'
    BY <2>0, Zenon DEF TypeOK, ClosedForcibly, ShutTypes
  <2>2. RestTypes'
    BY TypesSplit DEF ClosedForcibly, RestTypes
  <2>3. Goal'
    BY DEF TypeOK, ClosedForcibly
  <2>4. Setup'
    BY DEF TypeOK, ClosedForcibly
  <2>5. NoCrash' /\ ConnectedMeansReady'
    BY DEF TypeOK, NoCrash, ConnectedMeansReady, ClosedForcibly
  <2>6. QED
    BY <2>1, <2>2, <2>3, <2>4, <2>5, Zenon DEF TypeOK, ShutTypes, RestTypes
<1>13. CASE DisconnectTimeout
  <2> USE <1>13 DEF Alive, shutVars, setupVars
  <2>0. finished' \in Nat /\ closeOp' \in {"none", "running", "aborted"}
    BY DEF TypeOK, DisconnectTimeout
  <2>1. ShutTypes'
    BY <2>0, Zenon DEF TypeOK, DisconnectTimeout, ShutTypes
  <2>2. RestTypes'
    BY TypesSplit DEF DisconnectTimeout, RestTypes
  <2>3. Goal'
    BY DEF TypeOK, DisconnectTimeout
  <2>4. Setup'
    BY DEF TypeOK, DisconnectTimeout
  <2>5. NoCrash' /\ ConnectedMeansReady'
    BY DEF TypeOK, NoCrash, ConnectedMeansReady, DisconnectTimeout
  <2>6. QED
    BY <2>1, <2>2, <2>3, <2>4, <2>5, Zenon DEF TypeOK, ShutTypes, RestTypes
<1>14. CASE ForceClosed
  <2> USE <1>14 DEF Alive, shutVars, setupVars
  <2>0. finished' \in Nat /\ closeOp' \in {"none", "running", "aborted"}
    BY DEF TypeOK, ForceClosed
  <2>1. ShutTypes'
    BY <2>0, Zenon DEF TypeOK, ForceClosed, ShutTypes
  <2>2. RestTypes'
    BY TypesSplit DEF ForceClosed, RestTypes
  <2>3. Goal'
    BY DEF TypeOK, ForceClosed
  <2>4. Setup'
    BY DEF TypeOK, ForceClosed
  <2>5. NoCrash' /\ ConnectedMeansReady'
    BY DEF TypeOK, NoCrash, ConnectedMeansReady, ForceClosed
  <2>6. QED
    BY <2>1, <2>2, <2>3, <2>4, <2>5, Zenon DEF TypeOK, ShutTypes, RestTypes
<1>15. CASE Dispose
  <2> USE <1>15 DEF Alive, shutVars, setupVars
  <2>0. finished' \in Nat /\ closeOp' \in {"none", "running", "aborted"}
    BY DEF TypeOK, Dispose
  <2>1. ShutTypes'
    BY <2>0, Zenon DEF TypeOK, Dispose, ShutTypes
  <2>2. RestTypes'
    BY TypesSplit DEF Dispose, RestTypes
  <2>3. Goal'
    BY DEF TypeOK, Dispose
  <2>4. Setup'
    BY DEF TypeOK, Dispose
  <2>5. NoCrash' /\ ConnectedMeansReady'
    BY DEF TypeOK, NoCrash, ConnectedMeansReady, Dispose
  <2>6. QED
    BY <2>1, <2>2, <2>3, <2>4, <2>5, Zenon DEF TypeOK, ShutTypes, RestTypes
<1>16. CASE UNCHANGED vars
  BY <1>16 DEF vars, shutVars, setupVars, TypeOK, NoCrash, ConnectedMeansReady
<1>17. QED
  BY <1>1, <1>2, <1>3, <1>4, <1>5, <1>6, <1>7, <1>8, <1>9, <1>10, <1>11, <1>12, <1>13, <1>14, <1>15, <1>16 DEF Next, ConnectorReturns

(* IInv is an invariant of the connection.                                   *)
THEOREM Invariance == Spec => []IInv
BY InitIInv, NextIInv, PTL DEF Spec

(* The variables keep to their types; waiting_connected does not wrap round. *)
THEOREM TypeCorrect == Spec => []TypeOK
<1>1. IInv => TypeOK
  BY DEF IInv
<1>2. QED
  BY <1>1, Invariance, PTL

(* No assertion of connection.c fails.                                       *)
THEOREM AssertionsHold == Spec => []NoCrash
<1>1. IInv => NoCrash
  BY DEF IInv
<1>2. QED
  BY <1>1, Invariance, PTL

(* tp_base_connection_finish_shutdown is called at most once, and then       *)
(* nothing will call back into the connection.                               *)
THEOREM FinishesOnce == Spec => []FinishedOnceAndQuiet
<1>1. IInv => FinishedOnceAndQuiet
  BY DEF IInv, Goal, TypeOK, FinishedOnceAndQuiet
<1>2. QED
  BY <1>1, Invariance, PTL

(* A connection that is going down always has something on its way that will *)
(* finish the shutdown.                                                      *)
THEOREM NeverAbandoned == Spec => []SomethingFinishes
<1>1. IInv => SomethingFinishes
  BY DEF IInv, Goal, TypeOK, SomethingFinishes
<1>2. QED
  BY <1>1, Invariance, PTL

(* set_status_to_connected runs only once the discos are answered and the    *)
(* initial presence is set.                                                  *)
THEOREM ReadyWhenConnected == Spec => []ConnectedMeansReady
<1>1. IInv => ConnectedMeansReady
  BY DEF IInv
<1>2. QED
  BY <1>1, Invariance, PTL

(* No callback brings a DISCONNECTED connection back.                        *)
THEOREM DisconnectedForGood == Spec => NoComeback
<1>1. IInv /\ [Next]_vars => [status = "disconnected" => status' = "disconnected"]_vars
  <2> SUFFICES ASSUME IInv, Next, status = "disconnected"
               PROVE  status' = "disconnected"
    OBVIOUS
  <2> USE DEF Disconnect, shutVars
  <2>1. CASE ConnectorReturns
    BY <2>1 DEF ConnectorReturns, ConnectorTooLate, ConnectorFails, ConnectorSucceeds, AskServer
  <2>2. CASE \E o \in {"features", "error", "timeout"} : ServerDisco(o)
    BY <2>2 DEF ServerDisco
  <2>3. CASE BareJidDisco \/ \E b \in BOOLEAN : InitialPresence(b)
    BY <2>3 DEF BareJidDisco, InitialPresence, DecrementWaiting, SetStatusToConnected
  <2>4. CASE Connect \/ UserDisconnect \/ RemoteClosed \/ RemoteError
    BY <2>4 DEF Connect, UserDisconnect, RemoteClosed, RemoteError
  <2>5. CASE Closed \/ ClosedForcibly \/ DisconnectTimeout \/ ForceClosed \/ Dispose
    BY <2>5 DEF Closed, ClosedForcibly, DisconnectTimeout, ForceClosed, Dispose
  <2>6. QED
    BY <2>1, <2>2, <2>3, <2>4, <2>5 DEF Next
<1>2. QED
  BY <1>1, Invariance, PTL DEF Spec, NoComeback

(* However it is brought down, a connection finishes its shutdown at most    *)
(* once, is left alone afterwards and is never abandoned before.             *)
THEOREM ShutdownStaysSafe == Spec => []ShutdownSafe
BY AssertionsHold, FinishesOnce, NeverAbandoned, PTL DEF ShutdownSafe
=============================================================================
