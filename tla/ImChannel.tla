----------------------------- MODULE ImChannel -----------------------------
(* One-to-one text (im-factory.c, im-channel.c, message-util.c): the table of    *)
(* channels, the address and the abilities a channel remembers of its contact,    *)
(* messages kept over a close, and messages handed to the porter and answered.    *)
EXTENDS Naturals, Sequences, FiniteSets

CONSTANTS ImScenes, Friends, MaxHeard, MaxSent   \* MaxHeard, MaxSent bound a history

\* What a contact may send: the branches of gabble_message_util_parse_incoming_message,
\* a receipt, and the echo of a message that another client of ours sent.
ASSUME ImAssumption ==
  /\ \A s \in ImScenes :
       s.stanzas \subseteq {"body", "stated", "error", "mute_error", "state", "receipt", "own"}
  /\ MaxHeard \in Nat /\ MaxSent \in Nat

VARIABLES
  imScene, \* who sees our presence, whether we hide, what the contact sends
  im,      \* GabbleImFactoryPrivate: the channel of each contact, or none
  seen,    \* the presence cache's entry of each contact
  porterQ, \* messages handed to the porter, oldest first
  mail     \* what the client and the network have seen (history)

imVars == <<imScene, im, seen, porterQ, mail>>

Bare(c) == <<c, "bare">>
Resources(c) == {<<c, "r1">>, <<c, "r2">>}
NoChan == [open |-> FALSE, peer |-> <<"none", "none">>, states |-> "UNKNOWN", nick |-> FALSE,
           pending |-> <<>>, gone |-> FALSE, rescued |-> {}]

NoMail == [heard |-> 0, let |-> {}, sent |-> 0, out |-> <<>>, answers |-> <<>>, opened |-> [c \in Friends |-> 0],
           closed |-> [c \in Friends |-> 0], spoke |-> [c \in Friends |-> <<"none", "none">>], receipts |-> {}]

ImInit ==
  /\ imScene \in ImScenes
  /\ im = [up |-> TRUE, chan |-> [c \in Friends |-> NoChan]]
  /\ seen \in [Friends -> imScene.presences]
  /\ porterQ = <<>>
  /\ mail = NoMail

-----------------------------------------------------------------------------
\* gabble_im_channel_constructed: the nickname goes only to those who do not see us.
NewIm(c) == [NoChan EXCEPT !.open = TRUE, !.peer = Bare(c), !.nick = c \notin imScene.visibleTo]

\* new_im_channel
Opened(mm, c) == [mm EXCEPT !.opened[c] = @ + 1]

\* get_channel_for_incoming_message
ChannelFor(c) == IF im.chan[c].open THEN im.chan[c] ELSE NewIm(c)
OpenedFor(mm, c) == IF im.chan[c].open THEN mm ELSE Opened(mm, c)

\* chat_states_supported
StatesSupported(c, ch, unknownCounts) ==
  \/ seen[c] = "states" \/ ch.states = "SUPPORTED"
  \/ unknownCounts /\ ch.states = "UNKNOWN"

\* receipts_conceivably_supported
ReceiptsConceivable(c) == seen[c] \in {"none", "receipts"}

\* _gabble_im_channel_state_receive
StateReceived(ch) == [ch EXCEPT !.states = "SUPPORTED"]

\* _gabble_im_channel_receive, build_message: from now on we write to that resource.
ReceivedAsBare(ch, from, state, n) ==
  LET c == IF state THEN StateReceived(ch) ELSE [ch EXCEPT !.states = "NOT_SUPPORTED"]
  IN [c EXCEPT !.pending = Append(@, n)]
Received(ch, from, state, n) ==
  LET c == IF state THEN StateReceived(ch) ELSE [ch EXCEPT !.states = "NOT_SUPPORTED"]
  IN [c EXCEPT !.peer = from, !.pending = Append(@, n)]

\* maybe_send_delivery_report: nobody we are invisible to is told that we got it.
ReportUnlessHidden(c, req) == req /\ ~imScene.hidden
DeliveryReported(c, req) == req /\ ~imScene.hidden /\ c \in imScene.visibleTo

\* _gabble_im_channel_report_delivery: an error forgets the resource and what it could do.
DeliveryReportKeepsPeer(c, ch, failed, n) == [ch EXCEPT !.pending = Append(@, n)]
DeliveryReport(c, ch, failed, n) ==
  [ch EXCEPT !.pending = Append(@, n), !.peer = IF failed THEN Bare(c) ELSE @,
             !.states = IF failed THEN "UNKNOWN" ELSE @]

Hears == [mail EXCEPT !.heard = @ + 1]
Spoken(mm, c, who) == [mm EXCEPT !.spoke[c] = who]

\* im_factory_message_cb, gabble_message_util_parse_incoming_message: a message with
\* a body opens a channel; an error or a lone chat state only speaks to an open one.
MessageHeard(c, from, state) ==
  LET req == imScene.wantsReceipts
      mm == Spoken(OpenedFor(Hears, c), c, from)
  IN /\ im' = [im EXCEPT !.chan[c] = Received(ChannelFor(c), from, state, mail.heard + 1)]
     /\ mail' = [mm EXCEPT !.receipts = IF DeliveryReported(c, req) THEN @ \cup {c} ELSE @]
ErrorHeard(c, from) ==
  /\ im' = [im EXCEPT !.chan[c] = IF @.open THEN DeliveryReport(c, @, TRUE, mail.heard + 1) ELSE @]
  /\ mail' = IF im.chan[c].open THEN Spoken(Hears, c, Bare(c))
             ELSE [Hears EXCEPT !.let = @ \cup {mail.heard + 1}]
\* an error without the echoed body, or a stanza with neither body nor state, is dropped.
NothingHeard == im' = im /\ mail' = [Hears EXCEPT !.let = @ \cup {mail.heard + 1}]
StateHeard(c) ==
  /\ im' = [im EXCEPT !.chan[c] = IF @.open THEN StateReceived(@) ELSE @]
  /\ mail' = [Hears EXCEPT !.let = @ \cup {mail.heard + 1}]
\* im_factory_receipt_cb, gabble_im_channel_receive_receipt
ReceiptHeard(c) ==
  /\ im' = [im EXCEPT !.chan[c] = IF @.open THEN DeliveryReport(c, @, FALSE, mail.heard + 1) ELSE @]
  /\ mail' = IF im.chan[c].open THEN Hears ELSE [Hears EXCEPT !.let = @ \cup {mail.heard + 1}]

\* im_factory_own_message_cb: Facebook's server echoes what another client of ours sent.
OwnMessageHeard(c) ==
  /\ im' = [im EXCEPT !.chan[c] = IF @.open THEN DeliveryReport(c, @, FALSE, mail.heard + 1) ELSE @]
  /\ mail' = IF im.chan[c].open THEN Hears ELSE [Hears EXCEPT !.let = @ \cup {mail.heard + 1}]

StanzaHeard(c) ==
  /\ im.up /\ mail.heard < MaxHeard
  /\ \E from \in Resources(c), kind \in imScene.stanzas :
       CASE kind = "body" -> MessageHeard(c, from, FALSE)
         [] kind = "stated" -> MessageHeard(c, from, TRUE)
         [] kind = "error" -> ErrorHeard(c, from)
         [] kind = "mute_error" -> NothingHeard
         [] kind = "state" -> StateHeard(c)
         [] kind = "receipt" -> ReceiptHeard(c)
         [] kind = "own" -> OwnMessageHeard(c)
  /\ UNCHANGED <<imScene, seen, porterQ>>

-----------------------------------------------------------------------------
\* gabble_im_factory_requestotron: one channel per contact.
RequestIm(c) ==
  /\ im.up /\ mail.opened[c] < 2
  /\ \E fresh \in {TRUE, FALSE} :   \* CreateChannel, or EnsureChannel
       IF ~im.chan[c].open
       THEN im' = [im EXCEPT !.chan[c] = NewIm(c)] /\ mail' = Opened(mail, c)
       ELSE UNCHANGED <<im, mail>>   \* refused when fresh, answered with this one otherwise
  /\ UNCHANGED <<imScene, seen, porterQ>>

Out(c, ch, kind, n) ==
  [to |-> ch.peer, kind |-> kind, nick |-> ch.nick /\ kind = "message", n |-> n, friend |-> c,
   state |-> kind = "state" \/ StatesSupported(c, ch, TRUE)]

\* _gabble_im_channel_send_message, gabble_message_util_build_stanza: a message of
\* an unsupported type is refused at once.
NickSpentLater(ch) == ch
NickSpent(ch) == [ch EXCEPT !.nick = FALSE]
SendMessage(c) ==
  \E valid \in {TRUE, ~imScene.refuses}, wantReport \in {TRUE, FALSE} :
    LET n == mail.sent + 1
        ch == im.chan[c]
        report == valid /\ wantReport /\ ReceiptsConceivable(c)
    IN /\ im.up /\ ch.open /\ n <= MaxSent
       /\ im' = [im EXCEPT !.chan[c] = [NickSpent(ch) EXCEPT !.gone = TRUE]]
       /\ porterQ' = IF valid THEN Append(porterQ, [n |-> n, report |-> report]) ELSE porterQ
       /\ mail' = [mail EXCEPT !.sent = n, !.out = IF valid THEN Append(@, Out(c, ch, "message", n)) ELSE @,
                     !.answers = IF valid THEN @ ELSE Append(@, [n |-> n, how |-> "refused", report |-> FALSE])]
       /\ UNCHANGED <<imScene, seen>>

\* _gabble_im_channel_message_sent_cb: the context keeps the channel alive.
SentAnswered(ok) ==
  /\ porterQ # <<>> /\ (ok => im.up)
  /\ porterQ' = Tail(porterQ)
  /\ mail' = [mail EXCEPT !.answers =
                Append(@, [n |-> Head(porterQ).n, how |-> IF ok THEN "sent" ELSE "failed",
                           report |-> ok /\ Head(porterQ).report])]
  /\ UNCHANGED <<imScene, im, seen>>

\* _gabble_im_channel_send_chat_state, gabble_message_util_send_chat_state
ToldStateAnyway(c, ch, mm) == [mm EXCEPT !.out = Append(@, Out(c, ch, "state", 0))]
ToldState(c, ch, mm) ==
  IF StatesSupported(c, ch, FALSE) THEN [mm EXCEPT !.out = Append(@, Out(c, ch, "state", 0))] ELSE mm
SetChatState(c) ==
  /\ im.up /\ im.chan[c].open /\ Len(mail.out) < MaxSent
  /\ mail' = ToldState(c, im.chan[c], mail)
  /\ im' = [im EXCEPT !.chan[c].gone = TRUE]
  /\ UNCHANGED <<imScene, seen, porterQ>>

\* the client acknowledges the oldest message
Acknowledge(c) ==
  /\ im.up /\ im.chan[c].open /\ im.chan[c].pending # <<>>
  /\ im' = [im EXCEPT !.chan[c].pending = Tail(@)]
  /\ mail' = [mail EXCEPT !.let = @ \cup {Head(im.chan[c].pending)}]
  /\ UNCHANGED <<imScene, seen, porterQ>>

\* gabble_im_channel_dispose: the presence kept for the chat may go.
PresenceLet(c) == [seen EXCEPT ![c] = IF c \notin imScene.sendsUs /\ @ = "offline" THEN "none" ELSE @]

\* gabble_im_channel_close, im_channel_closed_cb: a channel with unread messages is
\* announced again as a new one that the contact opened.
CloseWith(c, ch, mm) ==
  LET said == IF ch.gone THEN ToldState(c, ch, mm) ELSE mm
      rescue == ch.pending # <<>>
  IN /\ im' = [im EXCEPT !.chan[c] = IF rescue THEN [ch EXCEPT !.gone = FALSE, !.rescued = {ch.pending[i] : i \in 1..Len(ch.pending)}]
                                     ELSE NoChan]
     /\ mail' = [said EXCEPT !.closed[c] = @ + 1, !.opened[c] = IF rescue THEN @ + 1 ELSE @]
     /\ seen' = IF rescue THEN seen ELSE PresenceLet(c)
CloseDropsUnread(c) ==
  /\ im.up /\ im.chan[c].open /\ mail.closed[c] < 2
  /\ im' = [im EXCEPT !.chan[c] = NoChan]
  /\ mail' = [mail EXCEPT !.closed[c] = @ + 1]
  /\ seen' = PresenceLet(c)
  /\ UNCHANGED <<imScene, porterQ>>
CloseIm(c) ==
  /\ im.up /\ im.chan[c].open /\ mail.closed[c] < 2
  /\ CloseWith(c, im.chan[c], mail)
  /\ UNCHANGED <<imScene, porterQ>>

\* gabble_im_channel_destroy: the unread messages are let go first.
DestroyIm(c) ==
  /\ im.up /\ im.chan[c].open /\ mail.closed[c] < 2
  /\ LET ch == im.chan[c]
     IN CloseWith(c, [ch EXCEPT !.pending = <<>>],
                  [mail EXCEPT !.let = @ \cup {ch.pending[i] : i \in 1..Len(ch.pending)}])
  /\ UNCHANGED <<imScene, porterQ>>

\* connection_status_changed_cb, gabble_im_factory_close_all
ImDisconnected ==
  /\ im.up /\ imScene.disconnects
  /\ im' = [up |-> FALSE, chan |-> [c \in Friends |-> NoChan]]
  /\ mail' = [mail EXCEPT !.let = 1..mail.heard, !.closed = [c \in Friends |-> mail.opened[c]]]
  /\ UNCHANGED <<imScene, seen, porterQ>>

ImNext ==
  \/ \E c \in Friends :
       \/ StanzaHeard(c) \/ RequestIm(c) \/ SendMessage(c) \/ SetChatState(c) \/ Acknowledge(c)
       \/ CloseIm(c) \/ DestroyIm(c)
  \/ SentAnswered(TRUE)
  \/ SentAnswered(FALSE)
  \/ ImDisconnected

ImSpec == ImInit /\ [][ImNext]_imVars

-----------------------------------------------------------------------------
\* No message is lost by closing: each one heard is unread in its contact's channel
\* or was acknowledged, destroyed with it, or nothing a channel shows
\* (gabble_im_channel_close, im_channel_closed_cb, im_factory_message_cb).
UnreadKept ==
  1..mail.heard = mail.let \cup UNION {{im.chan[c].pending[i] : i \in 1..Len(im.chan[c].pending)} : c \in Friends}

\* A contact has at most one channel, and every one announced is closed or open.
OneChannelEach == \A c \in Friends : mail.opened[c] - mail.closed[c] = (IF im.chan[c].open THEN 1 ELSE 0)

\* We write to the resource the contact last wrote from, and to none after it failed,
\* while the channel lasts (_gabble_im_channel_receive, _gabble_im_channel_report_delivery).
WritesWhereItSpoke == \A c \in Friends : im.chan[c].open => im.chan[c].peer \in {Bare(c), mail.spoke[c]}
RepliesWhereItSpoke ==
  \A c \in Friends : im.chan[c].pending # <<>> /\ imScene.stanzas \subseteq {"body", "stated"} => im.chan[c].peer = mail.spoke[c]

\* Each message the client sends is answered once and, refusals apart, in order of
\* sending (_gabble_im_channel_send_message, _gabble_im_channel_message_sent_cb).
SendsAnsweredOnce ==
  LET a == mail.answers
  IN /\ \A i, j \in 1..Len(a) : i # j => a[i].n # a[j].n
     /\ \A i, j \in 1..Len(a) : i < j /\ a[i].how # "refused" /\ a[j].how # "refused" => a[i].n < a[j].n
     /\ Len(a) + Len(porterQ) = mail.sent

\* The nickname is told at most once in a channel, and never to someone who sees us.
NickToldOnce ==
  \A c \in Friends :
    LET told == {i \in 1..Len(mail.out) : mail.out[i].friend = c /\ mail.out[i].nick}
    IN Cardinality(told) <= mail.opened[c] /\ (c \in imScene.visibleTo => told = {})

\* Someone who may not know that we are here never gets a delivery report, nor, before
\* showing that it understands them, a lone chat state.
UnseenStaysQuiet ==
  /\ \A c \in mail.receipts : c \in imScene.visibleTo /\ ~imScene.hidden
  /\ \A i \in 1..Len(mail.out) :
       mail.out[i].kind = "state" => seen[mail.out[i].friend] = "states" \/ imScene.stanzas \cap {"stated", "state"} # {}

ImSound == UnreadKept /\ OneChannelEach /\ WritesWhereItSpoke /\ RepliesWhereItSpoke /\ SendsAnsweredOnce
           /\ NickToldOnce /\ UnseenStaysQuiet
=============================================================================
