----------------------------- MODULE MailNotif ------------------------------
(* Mail notification on a Google account (conn-mail-notif.c).  The server pushes  *)
(* <new-mail> and then pushes nothing for POLL_DURATION, whatever happens to the    *)
(* mailbox; gabble polls meanwhile.  Time is counted in POLL_DELAYs.                 *)
EXTENDS Naturals, Sequences

CONSTANTS
  MailScenes,
  Threads,    \* the tids of mail threads
  UrlCalls,   \* calls of RequestInboxURL
  MaxPolls    \* POLL_DURATION / POLL_DELAY

VARIABLES
  mailScene, \* what the server offers, how often its mailbox changes and clients come
  notif,     \* GabbleConnectionMailNotificationPrivate, what clients were told, and whether
             \* the polls started with the server's present silence (aligned)
  gmail,     \* the server: mailbox, the silence it keeps, queries and answers under way
  urlCall    \* the calls of RequestInboxURL

mailVars == <<mailScene, notif, gmail, urlCall>>

NoThread == [subject |-> "none", senders |-> <<>>]
NoMails == [t \in Threads |-> NoThread]

\* A connection that begins, or one with a client that has seen the empty mailbox
MailInit ==
  /\ mailScene \in MailScenes
  /\ notif = [status |-> IF mailScene.begun THEN "connected" ELSE "connecting", interested |-> mailScene.begun,
             url |-> IF mailScene.begun THEN mailScene.url ELSE "none", unread |-> NoMails, told |-> NoMails,
             hears |-> mailScene.begun, setting |-> FALSE, timer |-> FALSE, polls |-> 0, aligned |-> FALSE, toggles |-> 0]
  /\ gmail = [box |-> NoMails, pushes |-> ~mailScene.setting, silence |-> 0, notice |-> FALSE, asked |-> 0,
              answers |-> <<>>, settings |-> FALSE, missed |-> FALSE, failed |-> FALSE, changes |-> 0]
  /\ urlCall = [k \in UrlCalls |-> "idle"]

-----------------------------------------------------------------------------
\* sender_each, handle_senders: the unread ones count; a change of their number is one.
HandleSenders(old, node) ==
  LET senders == SelectSeq(node.senders, LAMBDA s : s.unread)
  IN [senders |-> senders, dirty |-> Len(senders) # Len(old.senders)]

\* mail_thread_info_each, handle_subject: what clients are told is what changed.
MailThreadInfoSubjectOnly(old, node) ==
  LET s == HandleSenders(old, node)
  IN [thread |-> [subject |-> node.subject, senders |-> s.senders], dirty |-> old = NoThread \/ old.subject # node.subject]
MailThreadInfo(old, node) ==
  LET s == HandleSenders(old, node)
  IN [thread |-> [subject |-> node.subject, senders |-> s.senders],
      dirty |-> old = NoThread \/ s.dirty \/ old.subject # node.subject]

\* store_unread_mails, and UnreadMailsChanged as a client applies it
StoreUnreadMails(m, box) ==
  LET info == [t \in Threads |-> MailThreadInfo(m.unread[t], box[t])]
  IN [m EXCEPT !.url = mailScene.url,
        !.unread = [t \in Threads |-> IF box[t] = NoThread THEN NoThread ELSE info[t].thread],
        !.told = [t \in Threads |-> CASE box[t] = NoThread -> NoThread
                                      [] box[t] # NoThread /\ info[t].dirty -> info[t].thread
                                      [] OTHER -> @[t]]]

\* return_from_request_inbox_url: an answer for everybody, right or wrong.
ReturnFromRequestInboxUrl(url) ==
  [k \in UrlCalls |-> IF urlCall[k] # "waiting" THEN urlCall[k] ELSE IF url \in {"none", ""} THEN "error" ELSE "url"]

\* update_unread_mails
UpdateUnreadMails(m, g) == IF m.status = "connected" /\ mailScene.supported THEN [g EXCEPT !.asked = @ + 1] ELSE g

\* ensure_google_settings: asked once.
EnsureGoogleSettings(m, g) == IF m.setting /\ m.status = "connected" THEN [g EXCEPT !.settings = TRUE] ELSE g
SettingsAsked(m) == [m EXCEPT !.setting = @ /\ m.status # "connected"]

-----------------------------------------------------------------------------
\* connection_status_changed
MailConnectedUnasked ==
  /\ notif.status = "connecting"
  /\ LET m == [notif EXCEPT !.status = "connected", !.hears = mailScene.supported,
                           !.setting = mailScene.supported /\ mailScene.setting]
     IN /\ notif' = SettingsAsked(m)
        /\ gmail' = EnsureGoogleSettings(m, gmail)
  /\ UNCHANGED <<mailScene, urlCall>>
MailConnected ==
  /\ notif.status = "connecting"
  /\ LET m == [notif EXCEPT !.status = "connected", !.hears = mailScene.supported,
                           !.setting = mailScene.supported /\ mailScene.setting]
         eager == mailScene.supported /\ m.interested
     IN /\ notif' = IF eager THEN SettingsAsked(m) ELSE m
        /\ gmail' = IF eager THEN EnsureGoogleSettings(m, UpdateUnreadMails(m, gmail)) ELSE gmail
  /\ UNCHANGED <<mailScene, urlCall>>

\* mail_clients_interested_cb
MailInterested ==
  /\ ~notif.interested /\ notif.toggles < mailScene.toggles
  /\ LET m == [notif EXCEPT !.interested = TRUE, !.toggles = @ + 1]
     IN /\ notif' = SettingsAsked(m)
        /\ gmail' = EnsureGoogleSettings(m, UpdateUnreadMails(m, gmail))
  /\ UNCHANGED <<mailScene, urlCall>>

\* mail_clients_uninterested_cb: the polls go on counting.
MailUninterestedStops ==
  /\ notif.interested
  /\ notif' = [notif EXCEPT !.interested = FALSE, !.url = "none", !.unread = NoMails, !.told = NoMails, !.polls = MaxPolls]
  /\ urlCall' = ReturnFromRequestInboxUrl("none")
  /\ UNCHANGED <<mailScene, gmail>>
MailUninterested ==
  /\ notif.interested
  /\ notif' = [notif EXCEPT !.interested = FALSE, !.url = "none", !.unread = NoMails, !.told = NoMails]
  /\ urlCall' = ReturnFromRequestInboxUrl("none")
  /\ UNCHANGED <<mailScene, gmail>>

\* gabble_mail_notification_request_inbox_url, check_supported_or_dbus_return
RequestInboxUrl(k) ==
  /\ urlCall[k] = "idle"
  /\ urlCall' = IF notif.status # "connected" \/ ~mailScene.supported THEN [urlCall EXCEPT ![k] = "error"]
                ELSE [urlCall EXCEPT ![k] = CASE notif.url = "none" -> "waiting" [] notif.url = "" -> "error" [] OTHER -> "url"]
  /\ UNCHANGED <<mailScene, notif, gmail>>

\* query_unread_mails_cb: an answer that nobody cares for any more is not kept.
QueryAnsweredAnyway ==
  /\ gmail.answers # <<>>
  /\ notif' = StoreUnreadMails(notif, Head(gmail.answers))
  /\ gmail' = [gmail EXCEPT !.answers = Tail(@)]
  /\ urlCall' = ReturnFromRequestInboxUrl(notif'.url)
  /\ UNCHANGED mailScene
QueryAnswered ==
  /\ gmail.answers # <<>>
  /\ notif' = IF notif.interested THEN StoreUnreadMails(notif, Head(gmail.answers)) ELSE notif
  /\ gmail' = [gmail EXCEPT !.answers = Tail(@)]
  /\ urlCall' = ReturnFromRequestInboxUrl(notif'.url)
  /\ UNCHANGED mailScene
QueryFailed ==
  /\ mailScene.fails /\ gmail.asked > 0 /\ gmail.answers = <<>>
  /\ gmail' = [gmail EXCEPT !.asked = @ - 1, !.failed = TRUE]
  /\ urlCall' = ReturnFromRequestInboxUrl(notif.url)
  /\ UNCHANGED <<mailScene, notif>>

\* new_mail_handler
NewMailHandler ==
  /\ gmail.notice /\ notif.hears
  /\ notif' = IF notif.interested THEN [notif EXCEPT !.polls = 0, !.timer = TRUE, !.aligned = ~notif.timer]
             ELSE [notif EXCEPT !.aligned = FALSE]
  /\ gmail' = LET g == [gmail EXCEPT !.notice = FALSE] IN IF notif.interested THEN UpdateUnreadMails(notif, g) ELSE g
  /\ UNCHANGED <<mailScene, urlCall>>

\* poll_unread_mails_cb
PollUnreadMailsShort(m) ==
  IF m.polls + 1 >= MaxPolls THEN [m EXCEPT !.timer = FALSE, !.polls = 0] ELSE [m EXCEPT !.polls = @ + 1]
PollUnreadMails(m) ==
  IF m.polls >= MaxPolls THEN [m EXCEPT !.timer = FALSE, !.polls = 0] ELSE [m EXCEPT !.polls = @ + 1]

\* POLL_DELAY seconds, for the timer and for the silence of the server; queries and
\* notices reach the other side within that time.
PollDelayPasses ==
  /\ notif.timer \/ gmail.silence > 0
  /\ gmail.asked = 0 /\ ~gmail.notice
  /\ notif' = IF notif.timer THEN PollUnreadMails(notif) ELSE notif
  /\ gmail' = LET g == [gmail EXCEPT !.silence = IF @ = 0 THEN 0 ELSE @ - 1]
              IN IF notif.timer /\ notif'.timer /\ notif.interested THEN UpdateUnreadMails(notif, g) ELSE g
  /\ UNCHANGED <<mailScene, urlCall>>

\* The end of the connection fails what is under way; conn_mail_notif_dispose answers
\* whoever still waits and stops the timer.
MailDisconnected ==
  /\ notif.status = "connected" /\ mailScene.disconnects
  /\ notif' = [notif EXCEPT !.status = "disconnected"]
  /\ gmail' = [gmail EXCEPT !.asked = 0, !.answers = <<>>, !.notice = FALSE, !.settings = FALSE]
  /\ urlCall' = IF gmail.asked = 0 /\ gmail.answers = <<>> THEN urlCall ELSE ReturnFromRequestInboxUrl(notif.url)
  /\ UNCHANGED mailScene
MailDisposeSilent ==
  /\ notif.status = "disconnected"
  /\ notif' = [notif EXCEPT !.status = "disposed", !.url = "none", !.unread = NoMails, !.told = NoMails,
                          !.hears = FALSE, !.timer = FALSE, !.interested = FALSE, !.toggles = mailScene.toggles]
  /\ UNCHANGED <<mailScene, gmail, urlCall>>
MailDispose ==
  /\ notif.status = "disconnected"
  /\ notif' = [notif EXCEPT !.status = "disposed", !.url = "none", !.unread = NoMails, !.told = NoMails,
                          !.hears = FALSE, !.timer = FALSE, !.interested = FALSE, !.toggles = mailScene.toggles]
  /\ urlCall' = ReturnFromRequestInboxUrl("none")
  /\ UNCHANGED <<mailScene, gmail>>

-----------------------------------------------------------------------------
\* The server: a change is pushed unless it keeps silent or was not asked to push.  A
\* change nobody is told of, and no poll that is still to come will find, is missed.
MailboxChanges(box) ==
  LET pushed == gmail.pushes /\ gmail.silence = 0 /\ notif.hears
      polled == gmail.notice \/ (notif.timer /\ notif.aligned)
  IN /\ gmail.changes < mailScene.changes /\ box # gmail.box
     /\ gmail' = [gmail EXCEPT !.box = box, !.changes = @ + 1, !.notice = @ \/ pushed,
                    !.silence = IF pushed THEN MaxPolls + (IF notif.timer THEN 1 ELSE 0) ELSE @,
                    !.missed = @ \/ ~(pushed \/ polled)]
     /\ UNCHANGED <<mailScene, notif, urlCall>>

MailboxAnswers ==
  /\ gmail.asked > 0
  /\ gmail' = [gmail EXCEPT !.asked = @ - 1, !.answers = Append(@, gmail.box), !.missed = FALSE]
  /\ UNCHANGED <<mailScene, notif, urlCall>>

SettingsTakeEffect ==
  /\ gmail.settings
  /\ gmail' = [gmail EXCEPT !.settings = FALSE, !.pushes = TRUE]
  /\ UNCHANGED <<mailScene, notif, urlCall>>

MailNext ==
  \/ MailConnected \/ MailInterested \/ MailUninterested \/ QueryAnswered \/ QueryFailed
  \/ NewMailHandler \/ PollDelayPasses \/ MailDisconnected \/ MailDispose
  \/ \E k \in UrlCalls : RequestInboxUrl(k)
  \/ \E box \in mailScene.boxes : MailboxChanges(box)
  \/ MailboxAnswers \/ SettingsTakeEffect

-----------------------------------------------------------------------------
\* Senders are only compared by their number (handle_senders).
SameThread(a, b) == a.subject = b.subject /\ Len(a.senders) = Len(b.senders)

\* Whoever follows UnreadMailsChanged knows the mails that the UnreadMails property
\* holds (store_unread_mails).
MailsAsTold == \A t \in Threads : SameThread(notif.told[t], notif.unread[t])

\* Once the polls are over and nothing is under way, gabble has the mailbox of the
\* server, although the server pushed nothing during its silence
\* (poll_unread_mails_cb, new_mail_handler).
MailSettled ==
  notif.status = "connected" /\ notif.interested /\ mailScene.supported /\ ~notif.timer
  /\ gmail.asked = 0 /\ gmail.answers = <<>> /\ ~gmail.notice
MailboxFollowed ==
  MailSettled /\ ~gmail.missed /\ ~gmail.failed =>
    \A t \in Threads : SameThread(notif.unread[t], MailThreadInfo(NoThread, gmail.box[t]).thread)

\* Whoever asked for the inbox waits for a query that is under way, and nobody waits
\* once the connection is disposed of (return_from_request_inbox_url).
InboxRequestsServed ==
  \A k \in UrlCalls : urlCall[k] = "waiting" =>
    /\ notif.status # "disposed"
    /\ notif.status = "connected" /\ notif.interested /\ ~gmail.failed => gmail.asked > 0 \/ gmail.answers # <<>>

\* Nothing is kept of the mails when nobody is interested (mail_clients_uninterested_cb).
NothingKept == ~notif.interested => notif.unread = NoMails /\ notif.url = "none"

MailSound == MailsAsTold /\ MailboxFollowed /\ InboxRequestsServed /\ NothingKept
=============================================================================
