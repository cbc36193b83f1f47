------------------------------ MODULE C2SPorter ------------------------------
(* The porter of a connection (lib/ext/wocky/wocky/wocky-c2s-porter.c): the  *)
(* queue of stanzas to send, whitespace pings, IQs waiting for their answer, *)
(* and its two ways to close.  The XMPP connection under it writes one thing *)
(* at a time and refuses a second one.  Its user is module Connection's:     *)
(* it closes once, when it wants to or when the server does, forces the      *)
(* close once, when the stream fails or the close hangs, and calls nothing   *)
(* from inside the callback of a send.                                       *)
(*                                                                           *)
(* Callbacks that only report a result from an idle handler are made at      *)
(* once; the aborted close's is a step of its own (CloseAborted).            *)
EXTENDS Naturals, Sequences, FiniteSets, Functions

CONSTANTS
  Ops,             \* the stanzas that are sent
  Iqs              \* those of them sent with wocky_porter_send_iq_async

ASSUME PorterAssumption == Iqs \subseteq Ops /\ {"none", "ping", "close"} \cap Ops = {}

VARIABLES
  queue,           \* priv->sending_queue
  ping,            \* priv->sending_whitespace_ping
  output,          \* what the XMPP connection writes: "none", "ping", "close" or an op
  refused,         \* how many writes of each kind it refused, whose error is to come
  wire,            \* what was written, in order
  outputClosed,    \* </stream> was written
  dead,            \* the socket is closed
  receiving,       \* the receive operation: "none", "running" or "cancelled"
  started,         \* priv->receive_cancellable # NULL
  closeOp,         \* priv->close_result # NULL
  waitingToClose, remoteClosed, localClosed,
  forceOp,         \* priv->force_close_result # NULL
  forcedShutdown,
  streamClose,     \* wocky_xmpp_connection_force_close_async is running
  closeAborted,    \* the callback of an aborted close is to come
  handlers,        \* priv->iq_reply_handlers: [Iqs -> handler or NoHandler]
  result,          \* what each op's user was told: "new", "pending" while nothing
  done,            \* how often each op's user was called back
  accepted,        \* the ops in the order in which they were queued
  closeCalls,      \* has the user called close_async, and force_close_async?
  closeDone        \* how often each of the two has called back

sendVars == <<queue, ping, output, refused, wire, outputClosed>>
opVars == <<handlers, result, done>>
closeVars == <<closeOp, waitingToClose, localClosed, closeDone>>
forceVars == <<forceOp, forcedShutdown, streamClose, dead>>
recvVars == <<receiving, started, remoteClosed>>
porterVars == <<sendVars, opVars, closeVars, forceVars, recvVars, closeAborted, closeCalls, accepted>>

Kinds == {"stanza", "ping", "close"}
NoHandler == [there |-> FALSE, pending |-> FALSE, sent |-> FALSE]

PorterInit ==
  /\ queue = <<>>
  /\ ping = FALSE
  /\ output = "none"
  /\ refused = [k \in Kinds |-> 0]
  /\ wire = <<>>
  /\ outputClosed = FALSE
  /\ dead = FALSE
  /\ receiving = "running"
  /\ started = TRUE
  /\ closeOp = FALSE
  /\ waitingToClose = FALSE
  /\ remoteClosed = FALSE
  /\ localClosed = FALSE
  /\ forceOp = FALSE
  /\ forcedShutdown = FALSE
  /\ streamClose = FALSE
  /\ closeAborted = FALSE
  /\ handlers = [i \in Iqs |-> NoHandler]
  /\ result = [o \in Ops |-> "new"]
  /\ done = [o \in Ops |-> 0]
  /\ accepted = <<>>
  /\ closeCalls = {}
  /\ closeDone = [close |-> 0, force |-> 0]

-----------------------------------------------------------------------------
(* Writing.  The operators below take and return the part of the state they  *)
(* change, since one callback may go through several of them.                *)

SendState == [out |-> output, ref |-> refused, wait |-> waitingToClose]

\* wocky_xmpp_connection_send_*_async.
Write(st, what, kind) ==
  IF st.out = "none" /\ ~outputClosed THEN [st EXCEPT !.out = what]
                                      ELSE [st EXCEPT !.ref[kind] = @ + 1]

SendHead(st, q) == IF q = <<>> THEN st ELSE Write(st, Head(q), "stanza")

\* Defect: the porter goes on waiting to close.
SendCloseAgain(st) == Write(st, "close", "close")

SendClose(st) == Write([out |-> st.out, ref |-> st.ref, wait |-> FALSE], "close", "close")

\* Defect: nobody looks whether the queue has been flushed.
CloseIfWaitingNever(st, q, pinging) == st

CloseIfWaiting(st, q, pinging) ==
  IF st.wait /\ q = <<>> /\ ~pinging THEN SendClose(st) ELSE st

SetSendState(st) ==
  /\ output' = st.out
  /\ refused' = st.ref
  /\ waitingToClose' = st.wait

\* The user of each op of os is told res.
Tell(os, res) ==
  /\ result' = [o \in Ops |-> IF o \in os THEN res ELSE result[o]]
  /\ done' = [o \in Ops |-> IF o \in os THEN done[o] + 1 ELSE done[o]]

Pending(i) == i \in Iqs /\ handlers[i].pending

\* Defect: the handler goes as soon as the IQ is sent.
MaybeRemoveWhenSent(h) == IF h.sent THEN NoHandler ELSE h

\* Defect: the handler goes as soon as its user was told.
MaybeRemoveWhenTold(h) == IF ~h.pending THEN NoHandler ELSE h

\* stanza_iq_handler_maybe_remove.
MaybeRemove(h) == IF h.sent /\ ~h.pending THEN NoHandler ELSE h

\* iq_sent_cb for the IQs among os: the send has ended, well or not.
IqsSent(os, ok) ==
  [i \in Iqs |-> IF i \in os /\ handlers[i].there
                 THEN MaybeRemove([handlers[i] EXCEPT !.sent = TRUE,
                                                      !.pending = @ /\ ok])
                 ELSE handlers[i]]

\* An IQ whose user was told already, because he cancelled it or has the
\* answer, is not told again.
Untold(os) == {o \in os : o \notin Iqs \/ Pending(o)}

\* terminate_sending_operations.
Terminate ==
  /\ queue' = <<>>
  /\ handlers' = IqsSent(Range(queue), FALSE)
  /\ Tell(Untold(Range(queue)), "failed")

\* abort_pending_iqs: the handler of one that is still queued is kept until
\* its send ends.
Aborted(hs) == [i \in Iqs |-> MaybeRemove([hs[i] EXCEPT !.pending = FALSE])]

AbortPendingIqs ==
  /\ handlers' = Aborted(handlers)
  /\ Tell({i \in Iqs : Pending(i)}, "failed")

TerminateAndAbort ==
  /\ queue' = <<>>
  /\ handlers' = Aborted(IqsSent(Range(queue), FALSE))
  /\ Tell(Untold(Range(queue)) \cup {i \in Iqs : Pending(i)}, "failed")

\* Defect: sends are accepted while the porter is forced to close.
ClosingInOrder == closeOp

SendingInProgress == queue # <<>> \/ ping
Closing == closeOp \/ forceOp

-----------------------------------------------------------------------------
(* The user sends and cancels.                                               *)

\* Defect: the queue is a stack.
AcceptFirst(o) ==
  /\ queue' = <<o>> \o queue
  /\ accepted' = Append(accepted, o)
  /\ SetSendState(IF queue = <<>> /\ ~ping THEN SendHead(SendState, <<o>>) ELSE SendState)

Accept(o) ==
  /\ queue' = Append(queue, o)
  /\ accepted' = Append(accepted, o)
  /\ SetSendState(IF queue = <<>> /\ ~ping THEN SendHead(SendState, <<o>>) ELSE SendState)

Send(o) ==
  /\ o \notin Iqs
  /\ result[o] = "new"
  /\ IF Closing
     THEN /\ Tell({o}, "failed")
          /\ UNCHANGED <<queue, accepted, output, refused, waitingToClose>>
     ELSE /\ Accept(o)
          /\ result' = [result EXCEPT ![o] = "pending"]
          /\ UNCHANGED done
  /\ UNCHANGED <<ping, wire, outputClosed, handlers, closeOp, localClosed, closeDone,
                 forceVars, recvVars, closeAborted, closeCalls>>

SendIq(i) ==
  /\ i \in Iqs
  /\ result[i] = "new"
  /\ IF Closing
     THEN /\ Tell({i}, "failed")
          /\ UNCHANGED <<queue, accepted, output, refused, waitingToClose, handlers>>
     ELSE /\ Accept(i)
          /\ handlers' = [handlers EXCEPT ![i] = [there |-> TRUE, pending |-> TRUE,
                                                  sent |-> FALSE]]
          /\ result' = [result EXCEPT ![i] = "pending"]
          /\ UNCHANGED done
  /\ UNCHANGED <<ping, wire, outputClosed, closeOp, localClosed, closeDone,
                 forceVars, recvVars, closeAborted, closeCalls>>

\* An op that waits in the queue: send_head_stanza has not been called for it.
Waits(o) == o \in Range(queue) /\ (ping \/ o # Head(queue))

\* g_queue_remove.
Unqueued(o) ==
  LET at == CHOOSE k \in DOMAIN queue : queue[k] = o
  IN  [k \in 1 .. Len(queue) - 1 |-> queue[IF k < at THEN k ELSE k + 1]]

\* A send that waits is taken out of the queue; an IQ's user is told in any
\* case.  For the one that is being written the XMPP connection sees to it
\* (StanzaFails).
CancelOp(o) ==
  /\ result[o] = "pending"
  /\ Waits(o) \/ o \in Iqs
  /\ Tell({o}, "cancelled")
  /\ queue' = IF Waits(o) THEN Unqueued(o) ELSE queue
  /\ handlers' = [i \in Iqs |->
       IF i = o THEN MaybeRemove([handlers[i] EXCEPT !.pending = FALSE,
                                                     !.sent = @ \/ Waits(o)])
                ELSE handlers[i]]
  /\ UNCHANGED <<ping, output, refused, wire, outputClosed, closeVars, forceVars, recvVars,
                 closeAborted, closeCalls, accepted>>

SendPing ==
  /\ ~Closing
  /\ ~SendingInProgress
  /\ ping' = TRUE
  /\ SetSendState(Write(SendState, "ping", "ping"))
  /\ UNCHANGED <<queue, wire, outputClosed, opVars, closeOp, localClosed, closeDone,
                 forceVars, recvVars, closeAborted, closeCalls, accepted>>

-----------------------------------------------------------------------------
(* The XMPP connection calls back.                                           *)

WriteOf(what) == output = what /\ ~dead
WriteEnds == [SendState EXCEPT !.out = "none"]
Refusal(kind) == [SendState EXCEPT !.ref[kind] = @ - 1]

\* send_stanza_cb after a success.  The queue is empty if the porter was
\* forced to close meanwhile.
StanzaWritten ==
  /\ output \in Ops
  /\ WriteOf(output)
  /\ wire' = Append(wire, output)
  /\ IF queue = <<>>
     THEN /\ SetSendState(WriteEnds)
          /\ UNCHANGED <<queue, opVars>>
     ELSE LET h == Head(queue)
              q == Tail(queue) IN
          /\ queue' = q
          /\ handlers' = IqsSent({h}, TRUE)
          /\ IF h \in Iqs THEN UNCHANGED <<result, done>> ELSE Tell({h}, "ok")
          /\ SetSendState(CloseIfWaiting(SendHead(WriteEnds, q), q, ping))
  /\ UNCHANGED <<ping, outputClosed, closeOp, localClosed, closeDone, forceVars,
                 recvVars, closeAborted, closeCalls, accepted>>

\* send_stanza_cb after a failure.
StanzaFails ==
  /\ \/ output \in Ops /\ SetSendState(CloseIfWaiting(WriteEnds, <<>>, ping))
     \/ refused["stanza"] > 0 /\ SetSendState(CloseIfWaiting(Refusal("stanza"), <<>>, ping))
  /\ Terminate
  /\ UNCHANGED <<ping, wire, outputClosed, closeOp, localClosed, closeDone, forceVars,
                 recvVars, closeAborted, closeCalls, accepted>>

PingWritten ==
  /\ WriteOf("ping")
  /\ ping' = FALSE
  /\ SetSendState(CloseIfWaiting(SendHead(WriteEnds, queue), queue, FALSE))
  /\ UNCHANGED <<queue, wire, outputClosed, opVars, closeOp, localClosed, closeDone,
                 forceVars, recvVars, closeAborted, closeCalls, accepted>>

PingFails ==
  /\ ping' = FALSE
  /\ \/ output = "ping" /\ SetSendState(CloseIfWaiting(WriteEnds, <<>>, FALSE))
     \/ refused["ping"] > 0 /\ SetSendState(CloseIfWaiting(Refusal("ping"), <<>>, FALSE))
  /\ Terminate
  /\ UNCHANGED <<wire, outputClosed, closeOp, localClosed, closeDone, forceVars,
                 recvVars, closeAborted, closeCalls, accepted>>

\* complete_close, with the callback.
CompleteClose ==
  /\ closeOp' = FALSE
  /\ closeDone' = [closeDone EXCEPT !.close = @ + 1]

\* close_sent_cb after a success: unless the server has closed its side, wait.
CloseSent ==
  /\ WriteOf("close")
  /\ SetSendState(WriteEnds)
  /\ wire' = Append(wire, "close")
  /\ outputClosed' = TRUE
  /\ localClosed' = TRUE
  /\ IF remoteClosed /\ closeOp THEN CompleteClose ELSE UNCHANGED <<closeOp, closeDone>>
  /\ UNCHANGED <<queue, ping, opVars, forceVars, recvVars, closeAborted, closeCalls, accepted>>

\* close_sent_cb after a failure.  The error is set on close_result, which may
\* be NULL by then: GLib logs a critical and goes on.
CloseNotSent ==
  /\ \/ output = "close" /\ SetSendState(WriteEnds)
     \/ refused["close"] > 0 /\ SetSendState(Refusal("close"))
  /\ localClosed' = TRUE
  /\ IF closeOp THEN CompleteClose ELSE UNCHANGED <<closeOp, closeDone>>
  /\ UNCHANGED <<queue, ping, wire, outputClosed, opVars, forceVars, recvVars, closeAborted,
                 closeCalls, accepted>>

-----------------------------------------------------------------------------
(* Closing.                                                                  *)

\* Defect: the queue is not flushed first.
StartCloseAtOnce ==
  /\ closeCalls' = closeCalls \cup {"close"}
  /\ closeOp' = TRUE
  /\ SetSendState(SendClose(SendState))

\* wocky_c2s_porter_close_async; its early returns are for a second close.
StartClose ==
  /\ closeCalls' = closeCalls \cup {"close"}
  /\ closeOp' = TRUE
  /\ IF SendingInProgress
     THEN waitingToClose' = TRUE /\ UNCHANGED <<output, refused>>
     ELSE SetSendState(SendClose(SendState))

UserCloses ==
  /\ closeCalls = {}
  /\ StartClose
  /\ UNCHANGED <<queue, ping, wire, outputClosed, opVars, localClosed, closeDone,
                 forceVars, recvVars, closeAborted, accepted>>

\* Defect: IQs that are waiting for their answer are forgotten.
StartForceKeepsIqs(ended) ==
  /\ closeCalls' = closeCalls \cup {"force"}
  /\ forceOp' = TRUE
  /\ closeAborted' = closeOp
  /\ closeOp' = FALSE
  /\ Terminate
  /\ forcedShutdown' = ended
  /\ streamClose' = ended

\* wocky_c2s_porter_force_close_async, once it has not returned early.  If the
\* server's side has ended the socket is closed at once.
StartForce(ended) ==
  /\ closeCalls' = closeCalls \cup {"force"}
  /\ forceOp' = TRUE
  /\ closeAborted' = closeOp
  /\ closeOp' = FALSE
  /\ TerminateAndAbort
  /\ forcedShutdown' = ended
  /\ streamClose' = ended

UserForces ==
  /\ "force" \notin closeCalls
  /\ started \/ ~localClosed
  /\ StartForce(remoteClosed)
  /\ receiving' = IF remoteClosed THEN receiving ELSE "cancelled"
  /\ UNCHANGED <<ping, output, refused, wire, outputClosed, waitingToClose, localClosed,
                 closeDone, dead, started, remoteClosed, accepted>>

\* It returns early, with an error, if the porter is closed.
UserForcesTooLate ==
  /\ "force" \notin closeCalls
  /\ ~started /\ localClosed
  /\ closeCalls' = closeCalls \cup {"force"}
  /\ closeDone' = [closeDone EXCEPT !.force = @ + 1]
  /\ UNCHANGED <<sendVars, opVars, closeOp, waitingToClose, localClosed, forceVars,
                 recvVars, closeAborted, accepted>>

CloseAborted ==
  /\ closeAborted
  /\ closeAborted' = FALSE
  /\ closeDone' = [closeDone EXCEPT !.close = @ + 1]
  /\ UNCHANGED <<sendVars, opVars, closeOp, waitingToClose, localClosed, forceVars,
                 recvVars, closeCalls, accepted>>

\* connection_force_close_cb.
StreamClosed ==
  /\ streamClose
  /\ ~closeAborted \/ remoteClosed
  /\ streamClose' = FALSE
  /\ forceOp' = FALSE
  /\ dead' = TRUE
  /\ localClosed' = TRUE
  /\ started' = FALSE
  /\ closeDone' = [closeDone EXCEPT !.force = @ + 1]
  /\ UNCHANGED <<sendVars, opVars, closeOp, waitingToClose, forcedShutdown, receiving,
                 remoteClosed, closeAborted, closeCalls, accepted>>

-----------------------------------------------------------------------------
(* Receiving.                                                                *)

\* handle_iq_reply; an answer can be there before the write has called back.
ReplyArrives(i) ==
  /\ receiving # "none"
  /\ i \in Range(wire) \/ output = i
  /\ handlers[i].there
  /\ IF Pending(i) THEN Tell({i}, "ok") ELSE UNCHANGED <<result, done>>
  /\ handlers' = [handlers EXCEPT ![i] = MaybeRemove([@ EXCEPT !.pending = FALSE])]
  /\ UNCHANGED <<sendVars, closeVars, forceVars, recvVars, closeAborted, closeCalls, accepted>>

\* Defect: any receive that fails closes the socket.
ReceiveFailsUnforced ==
  /\ receiving # "none"
  /\ receiving' = "none"
  /\ forcedShutdown' = TRUE
  /\ streamClose' = (streamClose \/ ~forcedShutdown)
  /\ UNCHANGED <<sendVars, opVars, closeVars, forceOp, dead, started, remoteClosed, closeAborted,
                 closeCalls, accepted>>

\* stanza_received_cb, when the receiving failed because the porter is forced.
ReceiveCancelled ==
  /\ receiving # "none"
  /\ forceOp
  /\ receiving' = "none"
  /\ forcedShutdown' = TRUE
  /\ streamClose' = (streamClose \/ ~forcedShutdown)
  /\ UNCHANGED <<sendVars, opVars, closeVars, forceOp, dead, started, remoteClosed, closeAborted,
                 closeCalls, accepted>>

\* remote_connection_closed.
EndOfStream ==
  /\ receiving # "none"
  /\ ~forceOp
  /\ receiving' = "none"
  /\ remoteClosed' = TRUE
  /\ started' = FALSE

\* The user is closing already: the signals make no difference to him.
RemoteEndsClosing ==
  /\ EndOfStream
  /\ closeCalls # {}
  /\ AbortPendingIqs
  /\ IF closeOp /\ localClosed THEN CompleteClose ELSE UNCHANGED <<closeOp, closeDone>>
  /\ UNCHANGED <<sendVars, waitingToClose, localClosed, forceVars, closeAborted,
                 closeCalls, accepted>>

\* remote-closed makes the user close ...
RemoteCloses ==
  /\ EndOfStream
  /\ closeCalls = {}
  /\ AbortPendingIqs
  /\ StartClose
  /\ UNCHANGED <<queue, ping, wire, outputClosed, localClosed, closeDone, forceVars,
                 closeAborted, accepted>>

\* ... and remote-error force the close.
RemoteFails ==
  /\ EndOfStream
  /\ closeCalls = {}
  /\ StartForce(TRUE)
  /\ UNCHANGED <<ping, output, refused, wire, outputClosed, waitingToClose, localClosed,
                 closeDone, dead, accepted>>

-----------------------------------------------------------------------------
PorterNext ==
  \/ \E o \in Ops : Send(o) \/ SendIq(o) \/ CancelOp(o)
  \/ SendPing
  \/ StanzaWritten \/ StanzaFails
  \/ PingWritten \/ PingFails
  \/ CloseSent \/ CloseNotSent
  \/ UserCloses \/ UserForces \/ UserForcesTooLate
  \/ CloseAborted \/ StreamClosed
  \/ \E i \in Iqs : ReplyArrives(i)
  \/ ReceiveCancelled
  \/ RemoteEndsClosing \/ RemoteCloses \/ RemoteFails

PorterSpec == PorterInit /\ [][PorterNext]_porterVars

(* The socket may hang for ever; once it is closed its writes fail.  A       *)
(* receive that is cancelled ends, and so does closing the socket.           *)
PorterFairness ==
  /\ WF_porterVars(ReceiveCancelled)
  /\ WF_porterVars(StreamClosed)
  /\ WF_porterVars(CloseAborted)
  /\ WF_porterVars(dead /\ StanzaFails)
  /\ WF_porterVars(dead /\ PingFails)
  /\ WF_porterVars(dead /\ CloseNotSent)

PorterFairSpec == PorterSpec /\ PorterFairness

-----------------------------------------------------------------------------
(* The variables keep to their types; </stream> is sent once at most, so     *)
(* that one refusal of it is all there can be.                               *)
PorterTypeOK ==
  /\ queue \in Seq(Ops)
  /\ ping \in BOOLEAN
  /\ output \in {"none", "ping", "close"} \cup Ops
  /\ refused \in [Kinds -> Nat] /\ refused["close"] <= 1
  /\ wire \in Seq(Ops \cup {"close"})
  /\ outputClosed \in BOOLEAN
  /\ dead \in BOOLEAN
  /\ receiving \in {"none", "running", "cancelled"}
  /\ {started, closeOp, waitingToClose, remoteClosed, localClosed, forceOp, forcedShutdown,
      streamClose, closeAborted} \subseteq BOOLEAN
  /\ handlers \in [Iqs -> [there : BOOLEAN, pending : BOOLEAN, sent : BOOLEAN]]
  /\ result \in [Ops -> {"new", "pending", "ok", "failed", "cancelled"}]
  /\ done \in [Ops -> Nat]
  /\ accepted \in Seq(Ops)
  /\ closeCalls \subseteq {"close", "force"}
  /\ closeDone \in [close : Nat, force : Nat]

(* Every send, IQ, close and forced close calls back at most once, and a     *)
(* send or IQ that has not is still in the porter's hands: queued, or waited *)
(* for by a handler.                                                         *)
CalledBackOnce ==
  /\ closeDone.close <= 1 /\ closeDone.force <= 1
  /\ \A o \in Ops : done[o] = IF result[o] \in {"new", "pending"} THEN 0 ELSE 1
  /\ \A o \in Ops : result[o] = "pending" <=>
                       IF o \in Iqs THEN Pending(o) ELSE o \in Range(queue)

(* Stanzas are written once each, in the order in which they were sent, and  *)
(* nothing is written after the end of our stream.                           *)
WireInOrder ==
  \A i, j \in 1 .. Len(wire) : i < j =>
    /\ wire[i] # "close"
    /\ wire[j] # "close" =>
         \E k, l \in 1 .. Len(accepted) : k < l /\ accepted[k] = wire[i] /\ accepted[l] = wire[j]

(* A send reported as successful was written, whatever write the callback    *)
(* that reported it belonged to.                                             *)
OkMeansWritten == \A o \in Ops \ Iqs : result[o] = "ok" => o \in Range(wire)

(* The queue is never left alone: its head is being written, or a ping is,   *)
(* or an error that will empty it is on its way; and our stream is not ended *)
(* before it has been flushed.                                               *)
NoStall ==
  /\ queue # <<>> => output # "none" \/ refused["stanza"] > 0 \/ refused["ping"] > 0
  /\ queue # <<>> /\ ~dead /\ ~outputClosed => output \in {Head(queue), "ping"}
  /\ output = "close" \/ refused["close"] > 0 => queue = <<>> \/ "force" \in closeCalls

(* A close that has not called back still has something that will end it.    *)
CloseProceeds ==
  closeOp => \/ waitingToClose /\ SendingInProgress
             \/ output = "close"
             \/ refused["close"] > 0
             \/ localClosed /\ receiving = "running"

(* An IQ handler is kept exactly as long as its send has not ended or its    *)
(* user has not been told; one whose send has not ended is queued, and as    *)
(* long as an IQ is queued, iq_sent_cb will be given its handler.            *)
HandlersTidy ==
  \A i \in Iqs :
    /\ handlers[i].there => handlers[i].pending \/ ~handlers[i].sent
    /\ handlers[i].there /\ ~handlers[i].sent <=> i \in Range(queue)

(* The assertion of connection_force_close_cb: the socket is closed on       *)
(* behalf of a forced close, and of one only.                                *)
ForcedOnce == streamClose => forceOp

(* After a forced close everything ends: both closes, and every send and IQ. *)
ForceEndsAll ==
  forceOp ~> /\ closeDone.force = 1
             /\ "close" \in closeCalls => closeDone.close = 1
             /\ \A o \in Ops : result[o] # "pending"

\* Operations: the state is well formed, each one calls back once, success means
\* the stanza was written, an IQ's handler exists just as long as its answer is of
\* use, and the stream is closed by force for somebody who asked.
OperationsSafe ==
    /\ PorterTypeOK
    /\ CalledBackOnce
    /\ OkMeansWritten
    /\ HandlersTidy
    /\ ForcedOnce

\* The sending queue: stanzas leave in order, the queue never stalls, and a close that
\* waits for it goes on when it is empty (send_head_stanza, send_close).
QueueSafe ==
    /\ WireInOrder
    /\ NoStall
    /\ CloseProceeds

\* Operations of the porter call back once, with the truth, and are kept until
\* then; the sending queue is in order and never stalls, and a close that waits for
\* it goes on (wocky-c2s-porter.c: send_head_stanza, send_close).
PorterSafe == OperationsSafe /\ QueueSafe
=============================================================================
