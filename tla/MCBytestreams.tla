---------------------------- MODULE MCBytestreams ----------------------------
(* What two clients send each other, for TLC: an in-band bytestream, the      *)
(* negotiation of a bytestream, the pool of SOCKS5 proxies, file transfers.   *)
(* In each behaviour one of them moves, as `part' says.                       *)
EXTENDS BytestreamIBB, SiBytestream, FileTransfer

CONSTANTS BudgetA, BudgetB   \* bounds: the bytes each user sends in band

VARIABLES part

Budgets == [x \in Sides |-> IF x = "a" THEN BudgetA ELSE BudgetB]

-----------------------------------------------------------------------------
\* Streamhosts that work, refuse, answer with an error, are not known.
Host(k, w) == [kind |-> k, works |-> w, known |-> TRUE, activates |-> TRUE]

Offered ==
  [multi |-> TRUE, methods |-> <<"socks5", "ibb">>, listens |-> TRUE, muc |-> FALSE, drops |-> FALSE,
   hosts |-> <<Host("self", "yes"), Host("self", "yes"), Host("proxy", "yes")>>, closer |-> "none", blocks |-> FALSE]
ByProxy == [Offered EXCEPT !.listens = FALSE, !.drops = TRUE]

Negotiations ==
  {Offered, [Offered EXCEPT !.blocks = TRUE], [Offered EXCEPT !.closer = "b"], [Offered EXCEPT !.closer = "a"],
   [Offered EXCEPT !.hosts[1].works = "refuses", !.hosts[2].works = "refuses"],
   [Offered EXCEPT !.hosts[1].works = "refuses", !.hosts[2].works = "refuses", !.hosts[3].works = "refuses"],
   [Offered EXCEPT !.hosts[1].kind = "bad", !.multi = FALSE],
   [Offered EXCEPT !.muc = TRUE, !.multi = FALSE, !.hosts[1].works = "refuses"],
   [Offered EXCEPT !.methods = <<"odd", "socks5">>, !.listens = FALSE, !.hosts[3].works = "errors"],
   [Offered EXCEPT !.methods = <<"odd">>],
   [ByProxy EXCEPT !.hosts[3].known = FALSE], [ByProxy EXCEPT !.hosts[3].activates = FALSE],
   [ByProxy EXCEPT !.closer = "b"]}

\* The proxies of the connection parameter, in the order they are asked.
Proxies == {<<"p1", "p2", "p3">>, <<"p3", "p1">>, <<>>}

-----------------------------------------------------------------------------
\* A file sent over a bytestream, and over a Google share.
OneFile ==
  [s |-> "gabble", r |-> "gabble", names |-> <<"a">>, si |-> TRUE, share |-> FALSE, token |-> FALSE, online |-> TRUE,
   metadata |-> FALSE, metadataCap |-> FALSE, valid |-> TRUE, offset |-> 0, fails |-> FALSE, leaves |-> {},
   closers |-> {}, disconnects |-> "none", offline |-> "none", answers |-> {"200"}, gets |-> <<>>, ends |-> {}]
Shared == [OneFile EXCEPT !.share = TRUE, !.token = TRUE]
FromGoogle == [Shared EXCEPT !.s = "google", !.names = <<"a", "b">>]
ToGoogle == [Shared EXCEPT !.r = "google"]

Transfers ==
  {OneFile, Shared,
   [OneFile EXCEPT !.offset = 1, !.leaves = {"s", "r"}],
   [OneFile EXCEPT !.fails = TRUE, !.closers = {"s", "r"}],
   [OneFile EXCEPT !.offset = 2],
   [OneFile EXCEPT !.offline = "r", !.valid = FALSE], [OneFile EXCEPT !.offline = "s", !.disconnects = "r"],
   \* what cannot be offered
   [OneFile EXCEPT !.online = FALSE], [OneFile EXCEPT !.si = FALSE], [OneFile EXCEPT !.metadata = TRUE],
   [Shared EXCEPT !.fails = TRUE, !.disconnects = "s"], [Shared EXCEPT !.leaves = {"s", "r"}, !.closers = {"r"}],
   [Shared EXCEPT !.offline = "s"],
   [FromGoogle EXCEPT !.answers = {"200", "404"}],
   [FromGoogle EXCEPT !.closers = {"r"}, !.answers = {"200", "500"}, !.ends = {"terminate"}],
   [FromGoogle EXCEPT !.names = <<"a", "a">>],
   [ToGoogle EXCEPT !.gets = <<"x", "a", "a">>, !.ends = {"complete"}],
   [ToGoogle EXCEPT !.gets = <<"a">>, !.ends = {"complete", "terminate"}, !.closers = {"s"}]}

-----------------------------------------------------------------------------
\* The parts that do not move have one initial state.
MCInit ==
  /\ part \in {"ibb", "negotiation", "proxies", "files"}
  /\ Init /\ SiInit /\ PoolInit /\ FtInit
  /\ part # "negotiation" => siWorld = CHOOSE w \in SiWorlds : TRUE
  /\ part # "files" => ftWorld = CHOOSE w \in FileWorlds : TRUE

MCNext ==
  \/ part = "ibb" /\ Next /\ UNCHANGED <<part, siVars, poolVars, ftVars>>
  \/ part = "negotiation" /\ SiNext /\ UNCHANGED <<part, vars, poolVars, ftVars>>
  \/ part = "proxies" /\ PoolNext /\ UNCHANGED <<part, vars, siVars, ftVars>>
  \/ part = "files" /\ FtNext /\ UNCHANGED <<part, vars, siVars, poolVars>>

MCSpec ==
  /\ MCInit /\ [][MCNext]_<<part, vars, siVars, poolVars, ftVars>>
  /\ \A x \in Sides : WF_vars(part = "ibb" /\ StanzaArrives(x)) /\ WF_vars(part = "ibb" /\ UnblockReading(x))

-----------------------------------------------------------------------------
\* The ends of a negotiated bytestream agree on how it ended and over which
\* transport it runs, and a proxy is in the pool once (bytestream-socks5.c,
\* bytestream-multiple.c, bytestream-factory.c).
BytestreamsAgree == SiEndsAgree /\ SiSettles /\ OneTransport /\ PoolSound

\* A file is complete exactly when all of it is there, a transfer that is over stays
\* so, and no channel outlives its stream (ft-channel.c, gtalk-file-collection.c).
TransfersTracked == FilesWhole /\ CompleteInOrder /\ OverStaysOver /\ CollectionKept /\ TransfersEnd

\* The negotiated bytestream as tubes and file transfers see it.
OverSockets == INSTANCE Bytestream WITH
  MaxWrite <- 1, phase <- [x \in Ends |-> PhaseOf(e[x].top)], given <- [x \in Ends |-> e[x].sent],
  taken <- [x \in Ends |-> [i \in DOMAIN e[x].got |-> IF e[x].got[i] = "1" THEN 1 ELSE 2]]

\* The in-band bytestream and the negotiated one are what the interface of bytestreams
\* promises: an end that opens, carries and closes never goes back, and its user is
\* given the units in the order they were sent, none of them before the end is open
\* or after it is closed (bytestream-iface.h).
AreBytestreams == InBand!StreamSpec /\ OverSockets!StreamSpec

\* In the in-band bytestream, what is sent arrives or the stream closes, and a
\* stream that is closing closes (bytestream-ibb.c).
InBandEnds == part = "ibb" => DeliversAndCloses
=============================================================================
