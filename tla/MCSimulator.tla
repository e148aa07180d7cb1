---------------------------- MODULE MCSimulator -----------------------------
(***************************************************************************)
(* What the simulator calls, for model checking: a behaviour exercises the *)
(* phases or the lifetime of callbacks, as part says.                      *)
(***************************************************************************)
EXTENDS Phase, Callbacks

CONSTANT Parts

VARIABLE part

MCInit == part \in Parts /\ Init /\ CbInit

MCNext ==
  \/ part = "callbacks" /\ CbNext /\ UNCHANGED <<part, vars>>
  \/ part = "phase" /\ Next /\ UNCHANGED <<part, cbVars>>

MCVars == <<part, vars, cbVars>>

MCSpec == MCInit /\ [][MCNext]_MCVars

(* The phases come as fairly as Phase says, where they are exercised.      *)
MCFairSpec == MCSpec /\ (part = "phase" => Fairness)
=============================================================================
