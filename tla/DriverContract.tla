---------------------------- MODULE DriverContract ----------------------------
(***************************************************************************)
(* What a deployment driver promises the supervisor, whatever it deploys on *)
(* (DeploymentDriver in launch/base.py): a run's containers appear only     *)
(* while the supervisor holds hardware for the run, and the hardware is let *)
(* go only once none of them is left, after which none ever comes back.     *)
(***************************************************************************)
CONSTANT Runs
VARIABLES
  phase,   \* [Runs -> {"new", "held", "released"}]
  there    \* the runs that have a container somewhere

cvars == <<phase, there>>

Init == phase = [r \in Runs |-> "new"] /\ there = {}

Hold(r) == phase[r] = "new" /\ phase' = [phase EXCEPT ![r] = "held"] /\ UNCHANGED there
Appear(r) == phase[r] = "held" /\ there' = there \cup {r} /\ UNCHANGED phase
Vanish(r) == there' = there \ {r} /\ UNCHANGED phase
Release(r) ==
  /\ phase[r] = "held" /\ r \notin there
  /\ phase' = [phase EXCEPT ![r] = "released"] /\ UNCHANGED there

Next == \E r \in Runs : Hold(r) \/ Appear(r) \/ Vanish(r) \/ Release(r)
Spec == Init /\ [][Next]_cvars
===============================================================================
