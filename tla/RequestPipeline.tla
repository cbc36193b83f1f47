--------------------------- MODULE RequestPipeline ---------------------------
(***************************************************************************)
(* GabbleRequestPipeline (src/src/request-pipeline.c): the queue through   *)
(* which a connection sends its vCard and PEP-nickname IQs, at most        *)
(* PipelineSize of them in flight.  An item is numbered by the order of    *)
(* its gabble_request_pipeline_enqueue call.                               *)
(*                                                                         *)
(* Everything runs on one GLib main loop, so a handler is atomic.  The     *)
(* loop of gabble_request_pipeline_go, which ends several handlers, is     *)
(* taken one iteration at a time: `going' is TRUE from the call of go to   *)
(* its return and no other handler runs meanwhile.                         *)
(***************************************************************************)
EXTENDS Integers, Sequences, FiniteSets

CONSTANTS
    PipelineSize,   \* REQUEST_PIPELINE_SIZE
    MaxItems        \* bound: calls of gabble_request_pipeline_enqueue

ASSUME PipelineSizeAssumption == PipelineSize \in Nat \ {0}
ASSUME MaxItemsAssumption == MaxItems \in Nat

Items == 1 .. MaxItems

VARIABLES
    enqueued,   \* number of items enqueued so far
    pending,    \* priv->pending_items
    inFlight,   \* priv->items_in_flight
    crypt,      \* priv->crypt_items
    timers,     \* items whose timer_id is not 0
    awaiting,   \* items whose IQ the porter still has a reply handler for
    calls,      \* how often each item's callback was called
    idles,      \* scheduled delayed_run_pipeline calls
    going,      \* inside gabble_request_pipeline_go
    porter,     \* the connection has a porter
    disposed    \* priv->dispose_has_run

vars == <<enqueued, pending, inFlight, crypt, timers, awaiting, calls,
          idles, going, porter, disposed>>

TypeOK ==
    /\ enqueued \in 0 .. MaxItems
    /\ pending \in Seq(Items)
    /\ inFlight \in SUBSET Items
    /\ crypt \in SUBSET Items
    /\ timers \in SUBSET Items
    /\ awaiting \in SUBSET Items
    /\ calls \in [Items -> Nat]
    /\ idles \in Nat
    /\ going \in BOOLEAN
    /\ porter \in BOOLEAN
    /\ disposed \in BOOLEAN

\* The items of a queue, and those now pending.
Elems(q) == {q[k] : k \in DOMAIN q}
Queued == Elems(pending)

Init ==
    /\ enqueued = 0
    /\ pending = <<>>
    /\ inFlight = {}
    /\ crypt = {}
    /\ timers = {}
    /\ awaiting = {}
    /\ calls = [i \in Items |-> 0]
    /\ idles = 0
    /\ going = FALSE
    /\ porter = FALSE
    /\ disposed = FALSE

------------------------------------------------------------------------------
(* Main-loop steps run only when no handler is in progress.                *)
Idle == ~going /\ ~disposed

\* item->callback (...) for the items of S: their clients learn their fate.
Callback(S) ==
    calls' = [i \in Items |-> IF i \in S THEN calls[i] + 1 ELSE calls[i]]

\* Defect: the item is prepended to the queue.
EnqueuePrepends(q, f) ==
    /\ enqueued < MaxItems
    /\ enqueued' = enqueued + 1
    /\ pending' = <<enqueued + 1>> \o q
    /\ idles' = IF Cardinality(f) < PipelineSize THEN idles + 1 ELSE idles

(* gabble_request_pipeline_enqueue, called while pending_items is q and    *)
(* items_in_flight is f: the item joins the queue, and a run is scheduled  *)
(* only if the pipeline is not full.                                       *)
Enqueue(q, f) ==
    /\ enqueued < MaxItems
    /\ enqueued' = enqueued + 1
    /\ pending' = Append(q, enqueued + 1)
    /\ idles' = IF Cardinality(f) < PipelineSize THEN idles + 1 ELSE idles

(* A client's callback may enqueue another request before it returns (the  *)
(* vCard manager does, when edits have piled up behind a SET).             *)
CallbackMayEnqueue(q, f) ==
    \/ pending' = q /\ UNCHANGED <<enqueued, idles>>
    \/ Enqueue(q, f)

\* pending_items without item i (g_slist_remove in delete_item).
Without(i) ==
    LET at == CHOOSE k \in DOMAIN pending : pending[k] = i
    IN  IF i \in Queued
        THEN [k \in 1 .. Len(pending) - 1 |->
                IF k < at THEN pending[k] ELSE pending[k + 1]]
        ELSE pending

------------------------------------------------------------------------------
\* gabble_request_pipeline_enqueue, from outside any callback.
ClientEnqueue ==
    /\ Idle
    /\ Enqueue(pending, inFlight)
    /\ UNCHANGED <<inFlight, crypt, timers, awaiting, calls, going,
                   porter, disposed>>

\* delayed_run_pipeline: a scheduled idle source calls go.
DelayedRun ==
    /\ Idle
    /\ idles > 0
    /\ idles' = idles - 1
    /\ going' = TRUE
    /\ UNCHANGED <<enqueued, pending, inFlight, crypt, timers, awaiting,
                   calls, porter, disposed>>

\* Defect: go compares with <= instead of <.
SendNextOneTooMany ==
    /\ going
    /\ pending # <<>>
    /\ Cardinality(inFlight) <= PipelineSize
    /\ porter
    /\ pending' = Tail(pending)
    /\ inFlight' = inFlight \cup {Head(pending)}
    /\ timers' = timers \cup {Head(pending)}
    /\ awaiting' = awaiting \cup {Head(pending)}
    /\ UNCHANGED <<enqueued, crypt, calls, idles, going, porter, disposed>>

\* Defect: no timer is started for the item sent.
SendNextNoTimer ==
    /\ going
    /\ pending # <<>>
    /\ Cardinality(inFlight) < PipelineSize
    /\ porter
    /\ pending' = Tail(pending)
    /\ inFlight' = inFlight \cup {Head(pending)}
    /\ awaiting' = awaiting \cup {Head(pending)}
    /\ UNCHANGED <<enqueued, crypt, timers, calls, idles, going, porter,
                   disposed>>

(* One iteration of the loop in gabble_request_pipeline_go, with a porter: *)
(* send_next_request sends the oldest pending item and starts its timer.   *)
SendNext ==
    /\ going
    /\ pending # <<>>
    /\ Cardinality(inFlight) < PipelineSize
    /\ porter
    /\ pending' = Tail(pending)
    /\ inFlight' = inFlight \cup {Head(pending)}
    /\ timers' = timers \cup {Head(pending)}
    /\ awaiting' = awaiting \cup {Head(pending)}
    /\ UNCHANGED <<enqueued, crypt, calls, idles, going, porter,
                   disposed>>

(* ... and without one: _gabble_connection_send_with_reply fails, the      *)
(* callback is told so, the item is deleted and the next one is tried.     *)
SendFails ==
    /\ going
    /\ pending # <<>>
    /\ Cardinality(inFlight) < PipelineSize
    /\ ~porter
    /\ Callback({Head(pending)})
    /\ CallbackMayEnqueue(Tail(pending), inFlight)
    /\ UNCHANGED <<inFlight, crypt, timers, awaiting, going, porter, disposed>>

\* gabble_request_pipeline_go returns.
GoReturns ==
    /\ going
    /\ pending = <<>> \/ Cardinality(inFlight) >= PipelineSize
    /\ going' = FALSE
    /\ UNCHANGED <<enqueued, pending, inFlight, crypt, timers, awaiting,
                   calls, idles, porter, disposed>>

\* Defect: an item in flight is deleted like a pending one.
CreateZombieDeletes(i) ==
    /\ Callback({i})
    /\ timers' = timers \ {i}
    /\ inFlight' = inFlight \ {i}
    /\ CallbackMayEnqueue(Without(i), inFlight)
    /\ going' = TRUE
    /\ UNCHANGED <<crypt, awaiting, porter, disposed>>

\* Defect: the pipeline is not run after a place in it became free.
CreateZombieNoGo(i) ==
    /\ Callback({i})
    /\ timers' = timers \ {i}
    /\ IF i \in inFlight
       THEN /\ CallbackMayEnqueue(pending, inFlight)
            /\ inFlight' = inFlight \ {i}
            /\ crypt' = crypt \cup {i}
       ELSE /\ CallbackMayEnqueue(Without(i), inFlight)
            /\ UNCHANGED <<inFlight, crypt>>
    /\ UNCHANGED <<awaiting, going, porter, disposed>>

(* gabble_request_pipeline_create_zombie: the timer stops and the callback *)
(* is called at once.  An item in flight keeps its memory, among the       *)
(* crypt_items, because the porter still holds a pointer to it; its place  *)
(* in the pipeline is given to the next item.  A pending item is deleted.  *)
CreateZombie(i) ==
    /\ Callback({i})
    /\ timers' = timers \ {i}
    /\ IF i \in inFlight
       THEN /\ CallbackMayEnqueue(pending, inFlight)
            /\ inFlight' = inFlight \ {i}
            /\ crypt' = crypt \cup {i}
            /\ going' = TRUE
       ELSE /\ CallbackMayEnqueue(Without(i), inFlight)
            /\ UNCHANGED <<inFlight, crypt, going>>
    /\ UNCHANGED <<awaiting, porter, disposed>>

(* gabble_request_pipeline_item_cancel.  A client forgets its pointer to   *)
(* an item when the item's callback runs, so it cancels only live items.   *)
Cancel(i) ==
    /\ Idle
    /\ i \in Queued \cup inFlight
    /\ CreateZombie(i)

\* timeout_cb.
Timeout(i) ==
    /\ Idle
    /\ i \in timers
    /\ CreateZombie(i)

(* response_cb for an item in flight: it is removed, its callback called,  *)
(* it is deleted, and go runs.                                             *)
Response(i) ==
    /\ Idle
    /\ i \in awaiting
    /\ i \in inFlight
    /\ awaiting' = awaiting \ {i}
    /\ inFlight' = inFlight \ {i}
    /\ timers' = timers \ {i}
    /\ Callback({i})
    /\ CallbackMayEnqueue(pending, inFlight \ {i})
    /\ going' = TRUE
    /\ UNCHANGED <<crypt, porter, disposed>>

(* response_cb for an item that is no longer in items_in_flight: the early *)
(* return; a zombie stays where it is.                                     *)
LateResponse(i) ==
    /\ Idle
    /\ i \in awaiting
    /\ i \notin inFlight
    /\ awaiting' = awaiting \ {i}
    /\ UNCHANGED <<enqueued, pending, inFlight, crypt, timers, calls,
                   idles, going, porter, disposed>>

\* The session is established and the connection has a porter from now on.
Connect ==
    /\ Idle
    /\ ~porter
    /\ porter' = TRUE
    /\ UNCHANGED <<enqueued, pending, inFlight, crypt, timers, awaiting,
                   calls, idles, going, disposed>>

\* Defect: zombies are told as well, for the second time.
DisposeTellsZombies ==
    /\ Idle
    /\ Callback(inFlight \cup Queued \cup crypt)
    /\ pending' = <<>>
    /\ inFlight' = {}
    /\ crypt' = {}
    /\ timers' = {}
    /\ awaiting' = {}
    /\ idles' = 0
    /\ disposed' = TRUE
    /\ UNCHANGED <<enqueued, going, porter>>

(* gabble_request_pipeline_dispose: the three lists are flushed, every     *)
(* item that is not a zombie being told; idle sources are removed, and the *)
(* weak references keep the porter from calling response_cb again.         *)
Dispose ==
    /\ Idle
    /\ Callback(inFlight \cup Queued)
    /\ pending' = <<>>
    /\ inFlight' = {}
    /\ crypt' = {}
    /\ timers' = {}
    /\ awaiting' = {}
    /\ idles' = 0
    /\ disposed' = TRUE
    /\ UNCHANGED <<enqueued, going, porter>>

Next ==
    \/ ClientEnqueue
    \/ DelayedRun
    \/ SendNext
    \/ SendFails
    \/ GoReturns
    \/ Connect
    \/ Dispose
    \/ \E i \in Items : Cancel(i) \/ Timeout(i) \/ Response(i) \/ LateResponse(i)

(* GLib runs every idle source and every expired timer; the steps of go    *)
(* are the body of one C function.  The server need not answer.            *)
Fairness ==
    /\ WF_vars(DelayedRun)
    /\ WF_vars(SendNext \/ SendFails \/ GoReturns)
    /\ \A i \in Items : WF_vars(Timeout(i))

Spec == Init /\ [][Next]_vars

FairSpec == Spec /\ Fairness

------------------------------------------------------------------------------
(* The porter never holds a pointer to a deleted item: an item whose IQ    *)
(* has not been answered is in flight or kept as a zombie, so the          *)
(* user_data that response_cb dereferences is valid.                       *)
NoDanglingReply == awaiting \subseteq inFlight \cup crypt

(* Every client is called back exactly once, however replies, timeouts,    *)
(* cancellations and dispose interleave: not yet while its item is queued  *)
(* or in flight, and once as soon as it is neither.                        *)
NotifiedOnce ==
    \A i \in 1 .. enqueued :
        calls[i] = IF i \in Queued \cup inFlight THEN 0 ELSE 1

(* REQUEST_PIPELINE_SIZE bounds the items in flight, although go is        *)
(* entered from idle sources, replies, timeouts and cancellations alike.   *)
WindowBound == Cardinality(inFlight) <= PipelineSize

(* The queue never stalls: when an item waits and there is room for it,    *)
(* somebody is about to run go.  enqueue schedules a run only if there is  *)
(* room when it is called, so every handler that makes room must run go.   *)
NoLostWakeup ==
    pending # <<>> /\ Cardinality(inFlight) < PipelineSize
        => going \/ idles > 0

(* IQs are sent in the order in which they were enqueued, even when queued *)
(* items are cancelled and callbacks enqueue others.                       *)
SendOrder ==
    \A k \in DOMAIN pending :
        /\ \A l \in DOMAIN pending : l < k => pending[l] < pending[k]
        /\ \A i \in inFlight \cup crypt : i < pending[k]

(* Exactly the items in flight have a running timer: none waits for ever   *)
(* for a silent server, and no timer can fire for a zombie.                *)
TimersGuardInFlight == timers = inFlight

(* Every request is eventually completed even if the server never answers. *)
EveryRequestCompletes ==
    \A i \in Items : i <= enqueued ~> calls[i] > 0

(* The inductive invariant behind the theorems of RequestPipelineProofs:   *)
(* what is above, and that only enqueued items are anywhere, and that      *)
(* nobody is called back before enqueueing.                                *)
Bookkeeping ==
    /\ Queued \cup inFlight \cup crypt \subseteq 1 .. enqueued
    /\ \A i \in Items : i > enqueued => calls[i] = 0

IInv ==
    /\ TypeOK
    /\ Bookkeeping
    /\ NoDanglingReply
    /\ NotifiedOnce
    /\ WindowBound
    /\ NoLostWakeup
    /\ SendOrder
    /\ TimersGuardInFlight

\* Requests and replies: an item the porter may still answer has not been freed,
\* every client is called back at most once, and the items in flight are exactly
\* those whose timer runs (request-pipeline.c).
RepliesSafe ==
    /\ NoDanglingReply
    /\ NotifiedOnce
    /\ TimersGuardInFlight

\* The queue: the window is never exceeded, it is never left with room while items
\* wait, and items leave in the order of gabble_request_pipeline_enqueue.
WindowKept ==
    /\ WindowBound
    /\ NoLostWakeup
    /\ SendOrder
==============================================================================
