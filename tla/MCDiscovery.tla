---------------------------- MODULE MCDiscovery ----------------------------
(* Discovery for TLC: the capabilities of contacts in the presence cache, or  *)
(* the requests of disco.c with a room list.  In each behaviour one of them   *)
(* moves, as `part' says.                                                     *)
EXTENDS PresenceCaps, Disco

VARIABLES part

\* Two contacts, the first of them with two clients.
OwnerTwo == [c \in Clients |-> IF c \in {"a1", "a2"} THEN "a" ELSE "b"]
\* The node "h" is a hash; "p", "q" and "g" are names of bundles, "q" one that
\* is built in and "g" one of Google's.
Meaning == [n \in Nodes |-> IF n = "h" THEN {"av"} ELSE {"x"}]
Answers == {{"av"}, {"x"}}

Hashed(n) == [uris |-> <<n>>, hashed |-> TRUE]
Named(ns) == [uris |-> ns, hashed |-> FALSE]
Plain == [uris |-> <<>>, hashed |-> FALSE]

Env(clients, ads, own, callees, presences) ==
  [clients |-> clients, adverts |-> ads, own |-> own, callees |-> callees,
   presences |-> presences]

(* Two clients of one contact and one of another advertise the same name;    *)
(* clients change between a hashed node that is also our own and two names   *)
(* at once, or between a name and a built-in one; a contact that is called   *)
(* changes between a hashed node, a name and no <c/>; and two contacts       *)
(* advertise our own node with its hash or without one.                      *)
TrustSerialsAndCalls == {
  Env({"a1", "a2", "b1"}, {Named(<<"p">>)}, {}, {}, 4),
  Env({"a1", "b1"}, {Hashed("h"), Named(<<"p", "g">>)}, {"h"}, {}, 2),
  Env({"a1"}, {Named(<<"p">>), Named(<<"q">>)}, {}, {}, 3),
  Env({"a1"}, {Hashed("h"), Named(<<"p">>), Plain}, {}, {"a"}, 3),
  Env({"a1", "b1"}, {Hashed("h"), Named(<<"h">>)}, {"h"}, {}, 2) }

DiscoEnv(services, rooms, objects, listings, clients, reuse) ==
    [services |-> services, rooms |-> rooms, objects |-> objects,
     listings |-> listings, clients |-> clients, reuse |-> reuse]

(* A room list with more rooms than the window has places; one that is     *)
(* listed twice; and clients whose objects die and whose requests' memory  *)
(* is used again.                                                          *)
RoomsOrClients == {
    DiscoEnv({"service"}, {"room1", "room2"}, {}, 1, 0, FALSE),
    DiscoEnv({}, {"room1"}, {}, 2, 0, FALSE),
    DiscoEnv({}, {}, {"object1"}, 0, 2, TRUE) }

-----------------------------------------------------------------------------
\* The part that does not move has one initial state.
MCInit ==
  /\ part \in {"caps", "disco"}
  /\ Init /\ DiscoInit
  /\ part # "caps" => env = CHOOSE e \in Environments : TRUE
  /\ part # "disco" => discoEnv = CHOOSE e \in DiscoEnvironments : TRUE

MCNext ==
  \/ part = "caps" /\ Next /\ UNCHANGED <<part, discoVars>>
  \/ part = "disco" /\ DiscoNext /\ UNCHANGED <<part, vars>>

\* The fairness of the part that moves: see Fairness and DiscoFairSpec.
MCSpec ==
  /\ MCInit /\ [][MCNext]_<<part, vars, discoVars>>
  /\ WF_vars(part = "caps" /\ \E c \in env.clients, n \in Nodes : Answer(c, n))
  /\ WF_vars(part = "caps" /\ \E ct \in env.callees : DecloakTimeout(ct))
  /\ WF_vars(part = "caps" /\ EndUnsurePeriod)
  /\ \A r \in UNION {1 .. n : n \in MaxReqs} : WF_discoVars(part = "disco" /\ r \in requests /\ Timeout(r))
  /\ WF_discoVars(part = "disco" /\ DisposeCancels)
  /\ WF_discoVars(part = "disco" /\ DisposeEnds)

-----------------------------------------------------------------------------
\* The capabilities held are those the presences stand for, and who waits for an
\* answer has somebody who was asked (presence-cache.c).
CapsTracked == CapsSound /\ WaitersTracked

\* Every request, every listing and whoever waits for capabilities comes to an end
\* (disco.c, presence-cache.c).
QuestionsEnd == EverythingEnds /\ EveryoneServed
============================================================================
