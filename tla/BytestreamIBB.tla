---------------------------- MODULE BytestreamIBB ----------------------------
(***************************************************************************)
(* GabbleBytestreamIBB (src/src/bytestream-ibb.c): an in-band bytestream   *)
(* (XEP-0047) between two Gabbles, with the part of the bytestream factory *)
(* (src/src/bytestream-factory.c) that negotiates it and routes its IQs.   *)
(* "a" offers the stream and initiates it, "b" is offered it.              *)
(*                                                                         *)
(* XMPP keeps the order of the stanzas from one full JID to another.  The  *)
(* users of a bytestream drop it when it signals CLOSED, so a closed       *)
(* bytestream is finalised, with what its buffers hold.                    *)
(***************************************************************************)
EXTENDS Integers, FiniteSets, Sequences

CONSTANTS
    WindowSize,     \* WINDOW_SIZE
    BlockSize,      \* block-size, in bytes
    ReadBufferMax,  \* READ_BUFFER_MAX_SIZE, in bytes
    Budget          \* bound: [x]: how many bytes the user of x may send

Sides == {"a", "b"}
Peer(x) == IF x = "a" THEN "b" ELSE "a"

ASSUME IBBAssumption ==
    /\ WindowSize \in Nat \ {0}
    /\ BlockSize \in Nat \ {0}
    /\ ReadBufferMax \in Nat \ {0}
    /\ Budget \in [Sides -> Nat]

VARIABLES
    state,        \* [x]: priv->state, "NONE" while a waits for the SI reply
    inFlight,     \* [x]: priv->sent_stanzas_not_acked, as IQ ids
    writeBuffer,  \* [x]: priv->write_buffer, <<>> for NULL
    writeBlocked, \* [x]: priv->write_blocked
    readBlocked,  \* [x]: priv->read_blocked
    readBuffer,   \* [x]: priv->read_buffer
    notAcked,     \* [x]: priv->received_stanzas_not_acked, oldest first
    closeIq,      \* [x]: priv->close_iq_to_ack is not NULL
    to,           \* [x]: the stanzas on their way to x
    sent,         \* [x]: bytes that the user of x gave to the bytestream
    seq,          \* [x]: priv->seq, also the id of the data IQs
    received,     \* [x]: bytes that the user of x was given
    upto,         \* [x]: the last byte of each data IQ that x sent
    refused       \* sides that were refused a data stanza while they were open

buffers == <<inFlight, writeBuffer, writeBlocked, readBlocked, readBuffer>>
ghosts == <<sent, seq, upto, received, refused>>
vars == <<state, buffers, notAcked, closeIq, to, ghosts>>

Stanza(type, id, body) == [type |-> type, id |-> id, body |-> body]
Plain(type) == Stanza(type, 0, <<>>)

TypeOK ==
    /\ state \in [Sides -> {"NONE", "LOCAL_PENDING", "ACCEPTED", "INITIATING", "OPEN",
                            "CLOSING", "CLOSED"}]
    /\ \A x \in Sides :
          /\ inFlight[x] \subseteq 1 .. seq[x]
          /\ notAcked[x] \in Seq(1 .. seq[Peer(x)])
          /\ writeBlocked[x] = (writeBuffer[x] # <<>>)
          /\ readBuffer[x] # <<>> => readBlocked[x]
          /\ closeIq[x] => state[x] = "CLOSING"
          /\ DOMAIN upto[x] = 1 .. seq[x]

Init ==
    /\ state = [x \in Sides |-> IF x = "a" THEN "NONE" ELSE "LOCAL_PENDING"]
    /\ inFlight = [x \in Sides |-> {}]
    /\ writeBuffer = [x \in Sides |-> <<>>]
    /\ writeBlocked = [x \in Sides |-> FALSE]
    /\ readBlocked = [x \in Sides |-> FALSE]
    /\ readBuffer = [x \in Sides |-> <<>>]
    /\ notAcked = [x \in Sides |-> <<>>]
    /\ closeIq = [x \in Sides |-> FALSE]
    /\ to = [x \in Sides |-> <<>>]
    /\ sent = [x \in Sides |-> 0]
    /\ seq = [x \in Sides |-> 0]
    /\ received = [x \in Sides |-> <<>>]
    /\ upto = [x \in Sides |-> <<>>]
    /\ refused = {}

-----------------------------------------------------------------------------
(* Stanzas *)

\* x sends the stanzas ms; x has just received the head of to[x] if pop is TRUE.
Post(x, pop, ms) ==
    to' = [to EXCEPT ![x] = IF pop THEN Tail(@) ELSE @, ![Peer(x)] = @ \o ms]

Arrives(x, type) == to[x] # <<>> /\ Head(to[x]).type = type

Refusals(ids) == [i \in DOMAIN ids |-> Stanza("refused", ids[i], <<>>)]
Acks(ids) == [i \in DOMAIN ids |-> Stanza("acked", ids[i], <<>>)]

\* Finalising x: what its buffers hold is gone.
Finalise(x) ==
    /\ writeBuffer' = [writeBuffer EXCEPT ![x] = <<>>]
    /\ writeBlocked' = [writeBlocked EXCEPT ![x] = FALSE]
    /\ readBuffer' = [readBuffer EXCEPT ![x] = <<>>]
    /\ readBlocked' = [readBlocked EXCEPT ![x] = FALSE]

-----------------------------------------------------------------------------
(* Closing *)

\* send_close_stanza: the acknowledgement of a close IQ, if one is due, and a
\* close IQ.
CloseStanzas(cq) ==
    IF cq THEN <<Plain("close-acked"), Plain("close")>> ELSE <<Plain("close")>>

\* Defect: the received stanzas that were not acknowledged are forgotten.
CloseForgets(x, pop, before, cq) ==
    LET waits == writeBuffer[x] # <<>>
    IN  /\ notAcked' = [notAcked EXCEPT ![x] = <<>>]
        /\ IF waits
           THEN /\ state' = [state EXCEPT ![x] = "CLOSING"]
                /\ closeIq' = [closeIq EXCEPT ![x] = cq]
                /\ Post(x, pop, before)
                /\ UNCHANGED <<writeBuffer, writeBlocked, readBuffer, readBlocked>>
           ELSE /\ state' = [state EXCEPT ![x] = "CLOSED"]
                /\ closeIq' = [closeIq EXCEPT ![x] = FALSE]
                /\ Post(x, pop, Append(before, Plain("close")))
                /\ Finalise(x)

\* gabble_bytestream_ibb_close of a bytestream that is not CLOSED, after the
\* stanzas before; cq says that a close IQ is to be acknowledged.  Stanzas not
\* acknowledged are refused.  An offer is declined.  With data left to be
\* sent the bytestream waits in CLOSING, otherwise it says so and is CLOSED.
Close(x, pop, before, cq) ==
    LET answers == before \o Refusals(notAcked[x])
        waits == state[x] # "LOCAL_PENDING" /\ writeBuffer[x] # <<>>
        final == IF state[x] = "LOCAL_PENDING" THEN <<Plain("declined")>>
                 ELSE CloseStanzas(cq)
    IN  /\ notAcked' = [notAcked EXCEPT ![x] = <<>>]
        /\ IF waits
           THEN /\ state' = [state EXCEPT ![x] = "CLOSING"]
                /\ closeIq' = [closeIq EXCEPT ![x] = cq]
                /\ Post(x, pop, answers)
                /\ UNCHANGED <<writeBuffer, writeBlocked, readBuffer, readBlocked>>
           ELSE /\ state' = [state EXCEPT ![x] = "CLOSED"]
                /\ closeIq' = [closeIq EXCEPT ![x] = FALSE]
                /\ Post(x, pop, answers \o final)
                /\ Finalise(x)

\* The user closes the bytestream.
UserClose(x) ==
    /\ state[x] \notin {"NONE", "CLOSING", "CLOSED"}
    /\ Close(x, FALSE, <<>>, closeIq[x])
    /\ UNCHANGED <<inFlight, sent, seq, upto, received, refused>>

\* handle_ibb_close_iq, gabble_bytestream_ibb_close_received.
CloseArrives(x) ==
    /\ Arrives(x, "close")
    /\ IF state[x] \in {"NONE", "CLOSED"}
       THEN /\ Post(x, TRUE, <<Plain("close-refused")>>)
            /\ UNCHANGED <<state, buffers, notAcked, closeIq, ghosts>>
       ELSE /\ Close(x, TRUE, <<>>, TRUE)
            /\ UNCHANGED <<inFlight, ghosts>>

\* The reply to a close stanza: there is no callback.
CloseReplyArrives(x) ==
    /\ Arrives(x, "close-acked") \/ Arrives(x, "close-refused")
    /\ Post(x, TRUE, <<>>)
    /\ UNCHANGED <<state, buffers, notAcked, closeIq, ghosts>>

-----------------------------------------------------------------------------
(* Opening *)

\* gabble_bytestream_ibb_accept.
Accept ==
    /\ state["b"] = "LOCAL_PENDING"
    /\ state' = [state EXCEPT !["b"] = "ACCEPTED"]
    /\ Post("b", FALSE, <<Plain("accepted")>>)
    /\ UNCHANGED <<buffers, notAcked, closeIq, ghosts>>

\* streaminit_reply_cb, gabble_bytestream_ibb_initiate.
SiReplyArrives ==
    \/ /\ Arrives("a", "accepted")
       /\ state' = [state EXCEPT !["a"] = "INITIATING"]
       /\ Post("a", TRUE, <<Plain("open")>>)
       /\ UNCHANGED <<buffers, notAcked, closeIq, ghosts>>
    \/ /\ Arrives("a", "declined")
       /\ state' = [state EXCEPT !["a"] = "CLOSED"]
       /\ Post("a", TRUE, <<>>)
       /\ UNCHANGED <<buffers, notAcked, closeIq, ghosts>>

\* handle_ibb_open_iq.
OpenArrives(x) ==
    /\ Arrives(x, "open")
    /\ IF state[x] = "ACCEPTED"
       THEN /\ state' = [state EXCEPT ![x] = "OPEN"]
            /\ Post(x, TRUE, <<Plain("opened")>>)
       ELSE /\ Post(x, TRUE, <<Plain("not-opened")>>)
            /\ UNCHANGED state
    /\ UNCHANGED <<buffers, notAcked, closeIq, ghosts>>

\* ibb_init_reply_cb, if the bytestream still exists.
OpenReplyArrives(x) ==
    /\ Arrives(x, "opened") \/ Arrives(x, "not-opened")
    /\ state' = [state EXCEPT ![x] =
           CASE @ = "CLOSED" -> "CLOSED"
             [] @ # "CLOSED" /\ Arrives(x, "opened") -> "OPEN"
             [] OTHER -> "CLOSED"]
    /\ Post(x, TRUE, <<>>)
    /\ UNCHANGED <<buffers, notAcked, closeIq, ghosts>>

-----------------------------------------------------------------------------
(* Sending *)

Min2(m, n) == IF m < n THEN m ELSE n

\* Defect: one stanza more than the window allows.
PlacesOneMore(waiting) == WindowSize + 1 - Cardinality(waiting)

\* How many stanzas send_data may send while those in waiting are not acked.
Places(waiting) == WindowSize - Cardinality(waiting)

\* Defect: data that the window has no place for are not sent in part.
BlocksAllOrNothing(x, bytes, places) ==
    LET n == (Len(bytes) + BlockSize - 1) \div BlockSize
    IN  [i \in 1 .. (IF n <= places THEN n ELSE 0) |-> Stanza("data", seq[x] + i,
            SubSeq(bytes, (i - 1) * BlockSize + 1, Min2(i * BlockSize, Len(bytes))))]

\* send_data: the bytes are cut into blocks and sent while the window allows.
Blocks(x, bytes, places) ==
    LET n == Min2(places, (Len(bytes) + BlockSize - 1) \div BlockSize)
    IN  [i \in 1 .. n |-> Stanza("data", seq[x] + i,
            SubSeq(bytes, (i - 1) * BlockSize + 1, Min2(i * BlockSize, Len(bytes))))]

\* Defect: one byte too many is taken for sent.
RestLessOne(bytes, n) == SubSeq(bytes, n * BlockSize + 2, Len(bytes))

\* The bytes that n blocks leave, for the write buffer.
Rest(bytes, n) == SubSeq(bytes, n * BlockSize + 1, Len(bytes))

\* x sends the blocks, after it has received an answer if pop is TRUE; waiting
\* are the stanzas not acked before.
SendBlocks(x, pop, waiting, blocks, after) ==
    /\ Post(x, pop, blocks \o after)
    /\ inFlight' = [inFlight EXCEPT ![x] = waiting \cup {blocks[i].id : i \in DOMAIN blocks}]
    /\ seq' = [seq EXCEPT ![x] = @ + Len(blocks)]
    /\ upto' = [upto EXCEPT ![x] =
           @ \o [i \in DOMAIN blocks |-> blocks[i].body[Len(blocks[i].body)]]]

\* Defect: the user is never told that writing is possible again.
ChangeWriteBlockedOnce(x, blocked) ==
    writeBlocked' = [writeBlocked EXCEPT ![x] = @ \/ blocked]

\* change_write_blocked_state.
ChangeWriteBlocked(x, blocked) == writeBlocked' = [writeBlocked EXCEPT ![x] = blocked]

\* gabble_bytestream_ibb_send of n bytes.
UserSend(x, n) ==
    /\ state[x] = "OPEN"
    /\ n \in 1 .. Budget[x] - sent[x]
    /\ sent' = [sent EXCEPT ![x] = @ + n]
    /\ LET bytes == [i \in 1 .. n |-> sent[x] + i]
           blocks == Blocks(x, bytes, Places(inFlight[x]))
           rest == Rest(bytes, Len(blocks))
       IN  IF writeBuffer[x] # <<>>
           THEN /\ writeBuffer' = [writeBuffer EXCEPT ![x] = @ \o bytes]
                /\ UNCHANGED <<to, inFlight, seq, upto, writeBlocked>>
           ELSE /\ SendBlocks(x, FALSE, inFlight[x], blocks, <<>>)
                /\ writeBuffer' = [writeBuffer EXCEPT ![x] = rest]
                /\ ChangeWriteBlocked(x, rest # <<>>)
    /\ UNCHANGED <<state, readBlocked, readBuffer, notAcked, closeIq, received,
                   refused>>

\* iq_reply_cb, success: the write buffer is sent as far as the window allows;
\* once it is empty the user may write again and a CLOSING bytestream closes.
AckArrives(x) ==
    /\ Arrives(x, "acked")
    /\ state[x] # "CLOSED"
    /\ LET waiting == inFlight[x] \ {Head(to[x]).id}
           blocks == Blocks(x, writeBuffer[x], Places(waiting))
           rest == Rest(writeBuffer[x], Len(blocks))
           closes == writeBuffer[x] # <<>> /\ rest = <<>> /\ state[x] = "CLOSING"
       IN  IF closes
           THEN /\ SendBlocks(x, TRUE, waiting, blocks, CloseStanzas(closeIq[x]))
                /\ state' = [state EXCEPT ![x] = "CLOSED"]
                /\ closeIq' = [closeIq EXCEPT ![x] = FALSE]
                /\ Finalise(x)
           ELSE /\ SendBlocks(x, TRUE, waiting, blocks, <<>>)
                /\ writeBuffer' = [writeBuffer EXCEPT ![x] = rest]
                /\ ChangeWriteBlocked(x, rest # <<>>)
                /\ UNCHANGED <<state, closeIq, readBuffer, readBlocked>>
    /\ UNCHANGED <<notAcked, sent, received, refused>>

\* iq_reply_cb, error: the bytestream is closed.
RefusalArrives(x) ==
    /\ Arrives(x, "refused")
    /\ state[x] # "CLOSED"
    /\ inFlight' = [inFlight EXCEPT ![x] = @ \ {Head(to[x]).id}]
    /\ refused' = refused \cup {x}
    /\ Close(x, TRUE, <<>>, closeIq[x])
    /\ UNCHANGED <<sent, seq, upto, received>>

\* iq_reply_cb returns early: the bytestream is gone.
LateReplyArrives(x) ==
    /\ Arrives(x, "acked") \/ Arrives(x, "refused")
    /\ state[x] = "CLOSED"
    /\ Post(x, TRUE, <<>>)
    /\ UNCHANGED <<state, buffers, notAcked, closeIq, ghosts>>

-----------------------------------------------------------------------------
(* Receiving: handle_ibb_data and gabble_bytestream_ibb_receive *)

Message(x) == Head(to[x])

\* Defect: the size of the buffer is looked at before the data are counted in.
OverflowsLate(x) == Len(readBuffer[x]) > ReadBufferMax

Overflows(x) == Len(readBuffer[x]) + Len(Message(x).body) > ReadBufferMax

\* There is no such bytestream, or it is not open.
DataRefused(x) ==
    /\ Arrives(x, "data")
    /\ state[x] # "OPEN"
    /\ Post(x, TRUE, Refusals(<<Message(x).id>>))
    /\ UNCHANGED <<state, buffers, notAcked, closeIq, ghosts>>

\* The user has blocked reading and the buffer is full.
DataOverflows(x) ==
    /\ Arrives(x, "data")
    /\ state[x] = "OPEN"
    /\ readBlocked[x]
    /\ Overflows(x)
    /\ Close(x, TRUE, Refusals(<<Message(x).id>>), closeIq[x])
    /\ UNCHANGED <<inFlight, sent, seq, upto, received, refused>>

\* Defect: buffered data are acknowledged at once.
DataBufferedAcks(x) ==
    /\ Arrives(x, "data")
    /\ state[x] = "OPEN"
    /\ readBlocked[x]
    /\ ~Overflows(x)
    /\ readBuffer' = [readBuffer EXCEPT ![x] = @ \o Message(x).body]
    /\ Post(x, TRUE, Acks(<<Message(x).id>>))
    /\ UNCHANGED <<state, inFlight, writeBuffer, writeBlocked, readBlocked, closeIq, notAcked,
                   ghosts>>

\* The user has blocked reading: the data are kept and not yet acknowledged.
DataBuffered(x) ==
    /\ Arrives(x, "data")
    /\ state[x] = "OPEN"
    /\ readBlocked[x]
    /\ ~Overflows(x)
    /\ readBuffer' = [readBuffer EXCEPT ![x] = @ \o Message(x).body]
    /\ notAcked' = [notAcked EXCEPT ![x] = Append(@, Message(x).id)]
    /\ Post(x, TRUE, <<>>)
    /\ UNCHANGED <<state, inFlight, writeBuffer, writeBlocked, readBlocked, closeIq, ghosts>>

\* The data are given to the user and acknowledged.
DataDelivered(x) ==
    /\ Arrives(x, "data")
    /\ state[x] = "OPEN"
    /\ ~readBlocked[x]
    /\ received' = [received EXCEPT ![x] = @ \o Message(x).body]
    /\ Post(x, TRUE, Acks(<<Message(x).id>>))
    /\ UNCHANGED <<state, buffers, notAcked, closeIq, sent, seq, upto, refused>>

\* gabble_bytestream_ibb_block_reading, TRUE.
BlockReading(x) ==
    /\ state[x] = "OPEN"
    /\ ~readBlocked[x]
    /\ readBlocked' = [readBlocked EXCEPT ![x] = TRUE]
    /\ UNCHANGED <<state, inFlight, writeBuffer, writeBlocked, readBuffer, notAcked, closeIq,
                   to, ghosts>>

\* gabble_bytestream_ibb_block_reading, FALSE: the buffer is given to the user
\* and its stanzas are acknowledged.
UnblockReading(x) ==
    /\ readBlocked[x]
    /\ readBlocked' = [readBlocked EXCEPT ![x] = FALSE]
    /\ received' = [received EXCEPT ![x] = @ \o readBuffer[x]]
    /\ readBuffer' = [readBuffer EXCEPT ![x] = <<>>]
    /\ notAcked' = [notAcked EXCEPT ![x] = <<>>]
    /\ Post(x, FALSE, Acks(notAcked[x]))
    /\ UNCHANGED <<state, inFlight, writeBuffer, writeBlocked, closeIq, sent, seq, upto,
                   refused>>

-----------------------------------------------------------------------------
(* The specification *)

StanzaArrives(x) ==
    \/ CloseArrives(x)
    \/ CloseReplyArrives(x)
    \/ x = "a" /\ SiReplyArrives
    \/ OpenArrives(x)
    \/ OpenReplyArrives(x)
    \/ AckArrives(x)
    \/ RefusalArrives(x)
    \/ LateReplyArrives(x)
    \/ DataRefused(x)
    \/ DataOverflows(x)
    \/ DataBuffered(x)
    \/ DataDelivered(x)

Next ==
    \/ Accept
    \/ \E x \in Sides :
          \/ StanzaArrives(x)
          \/ UserClose(x)
          \/ \E n \in 1 .. Budget[x] : UserSend(x, n)
          \/ BlockReading(x)
          \/ UnblockReading(x)

Spec == Init /\ [][Next]_vars

\* The stream delivers every stanza, and a user who blocks reading unblocks it
\* again: the tubes do so when their socket has taken the data.
FairSpec ==
    /\ Spec
    /\ \A x \in Sides : WF_vars(StanzaArrives(x)) /\ WF_vars(UnblockReading(x))

-----------------------------------------------------------------------------
(* Properties *)

\* What a user is given is a prefix of what the other user sent: nothing is
\* lost in the middle, doubled or reordered by the window and the two buffers.
DeliveredIsPrefix ==
    \A x \in Sides :
        /\ Len(received[x]) <= sent[Peer(x)]
        /\ \A i \in DOMAIN received[x] : received[x][i] = i

\* Never more than WINDOW_SIZE stanzas are waiting to be acknowledged.
WindowBound == \A x \in Sides : Cardinality(inFlight[x]) <= WindowSize

\* A user who does not read makes us keep at most READ_BUFFER_MAX_SIZE bytes.
ReadBufferBound == \A x \in Sides : Len(readBuffer[x]) <= ReadBufferMax

\* A stanza is acknowledged only when its data have been given to the user:
\* the window of the sender is the flow control of the receiver.
AckMeansDelivered ==
    \A x \in Sides : \A i \in DOMAIN to[x] :
        to[x][i].type = "acked" => upto[x][to[x][i].id] <= Len(received[Peer(x)])

\* Every data stanza that waits for an answer is on its way, is kept by the
\* peer or its answer is on its way: no handler forgets to answer.
EveryIqAccounted ==
    \A x \in Sides :
        state[x] # "CLOSED" =>
            \A id \in inFlight[x] :
                \/ \E i \in DOMAIN to[Peer(x)] : to[Peer(x)][i].type = "data" /\ to[Peer(x)][i].id = id
                \/ \E i \in DOMAIN to[x] : to[x][i].type \in {"acked", "refused"} /\ to[x][i].id = id
                \/ \E i \in DOMAIN notAcked[Peer(x)] : notAcked[Peer(x)][i] = id

\* An open bytestream with data in the write buffer has stanzas in flight: the
\* buffer is looked at only when one of them is answered.
NoStall == \A x \in Sides : state[x] = "OPEN" /\ writeBuffer[x] # <<>> => inFlight[x] # {}

\* What is sent arrives, unless the bytestream is closed.
EverythingDelivered ==
    \A x \in Sides : \A n \in 1 .. Budget[x] :
        sent[x] >= n ~> \/ Len(received[Peer(x)]) >= n
                        \/ state[x] # "OPEN"
                        \/ state[Peer(x)] # "OPEN"

\* A bytestream that waits for its buffer to be flushed is closed in the end,
\* unless the peer has refused one of its stanzas.
ClosingEnds ==
    \A x \in Sides :
        state[x] = "CLOSING" ~> state[x] = "CLOSED" \/ x \in refused

\* What the user of one side is given is a prefix of what the other side's user
\* sent, and data that was acknowledged was delivered (iq_acked_cb, data_received).
StreamFaithful ==
    /\ DeliveredIsPrefix
    /\ AckMeansDelivered

\* Resources: the state is well formed, window and read buffer keep their bounds,
\* and every IQ in flight or acknowledgement owed is accounted for on one side
\* (send_data, gabble_bytestream_ibb_receive).
BuffersBounded ==
    /\ TypeOK
    /\ WindowBound
    /\ ReadBufferBound
    /\ EveryIqAccounted

\* The bytes arrive in order and once, and a bytestream with something left to send
\* has a stanza on its way that an answer will follow; window and buffers keep their
\* limits and no stanza's answer is forgotten (bytestream-ibb.c).
StreamSound == BuffersBounded /\ StreamFaithful /\ NoStall

\* The bytestream as tubes and file transfers see it (bytestream-iface.h).
PhaseOf(st) ==
    CASE st = "OPEN" -> "open" [] st = "CLOSING" -> "closing" [] st = "CLOSED" -> "over" [] OTHER -> "setup"
InBand == INSTANCE Bytestream WITH
    MaxWrite <- Budget["a"] + Budget["b"],
    phase <- [x \in Sides |-> PhaseOf(state[x])], given <- sent, taken <- received

\* Liveness: what is written is delivered unless the stream is closed, and a
\* bytestream that is closing closes unless its last data was refused.
DeliversAndCloses ==
    /\ EverythingDelivered
    /\ ClosingEnds
=============================================================================
