----------------------------- MODULE Bytestream -----------------------------
(* What GabbleBytestreamIface (src/bytestream-iface.h) promises to tubes and   *)
(* file transfers, whatever carries the bytes: two ends "a", which offers the  *)
(* bytestream, and "b", and a queue in each direction that may break off but   *)
(* neither loses, doubles nor reorders what comes before the break.            *)
EXTENDS Naturals, Sequences

CONSTANTS MaxWrite   \* bound: units a user sends at once

VARIABLES
  phase,   \* [x]: GabbleBytestreamState, "setup" before it is OPEN, then "open",
           \* "closing" and "over"
  given,   \* [x]: how many units the user of x has sent
  taken    \* [x]: the units the user of x was given, by their numbers

streamVars == <<phase, given, taken>>

Opposite(x) == IF x = "a" THEN "b" ELSE "a"

StreamInit ==
  /\ phase = [x \in {"a", "b"} |-> "setup"]
  /\ given = [x \in {"a", "b"} |-> 0]
  /\ taken = [x \in {"a", "b"} |-> <<>>]

\* The end that offers is open only when the other has been.
Opens(x) ==
  /\ phase[x] = "setup" /\ (x = "a" => phase["b"] # "setup")
  /\ phase' = [phase EXCEPT ![x] = "open"]
  /\ UNCHANGED <<given, taken>>

\* gabble_bytestream_iface_send.
Gives(x) ==
  /\ phase[x] = "open"
  /\ \E n \in 1 .. MaxWrite : given' = [given EXCEPT ![x] = @ + n]
  /\ UNCHANGED <<phase, taken>>

\* "data-received": the next units.
Takes(x) ==
  /\ phase[x] \in {"open", "closing"}
  /\ \E n \in 1 .. (given[Opposite(x)] - Len(taken[x])) :
       taken' = [taken EXCEPT ![x] = @ \o [i \in 1 .. n |-> Len(@) + i]]
  /\ UNCHANGED <<phase, given>>

\* gabble_bytestream_iface_close with something left to be sent, and the end.
Closes(x) ==
  /\ \/ phase[x] = "open" /\ phase' = [phase EXCEPT ![x] = "closing"]
     \/ phase[x] # "over" /\ phase' = [phase EXCEPT ![x] = "over"]
  /\ UNCHANGED <<given, taken>>

StreamNext == \E x \in {"a", "b"} : Opens(x) \/ Gives(x) \/ Takes(x) \/ Closes(x)

StreamSpec == StreamInit /\ [][StreamNext]_streamVars
=============================================================================
