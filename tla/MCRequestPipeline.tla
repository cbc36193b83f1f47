-------------------------- MODULE MCRequestPipeline --------------------------
(* The request pipeline and the porter under it for TLC: in each behaviour   *)
(* one of them moves, as `part' says.                                        *)
EXTENDS RequestPipeline, C2SPorter

VARIABLES part

MCInit == part \in {"pipeline", "porter"} /\ Init /\ PorterInit

MCNext ==
  \/ part = "pipeline" /\ Next /\ UNCHANGED <<part, porterVars>>
  \/ part = "porter" /\ PorterNext /\ UNCHANGED <<part, vars>>

MCSpec == MCInit /\ [][MCNext]_<<part, vars, porterVars>> /\ Fairness /\ PorterFairness
=============================================================================
