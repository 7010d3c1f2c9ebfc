----------------------------- MODULE RunStates -----------------------------
(***************************************************************************)
(* The run state machine every other module shares: the statuses of a run  *)
(* row (db/models.py RunStatus), which of them are terminal, and the table *)
(* of legal transitions (control/orchestrator/states.py).                  *)
(***************************************************************************)

TERMINAL_RUN_STATES == {"SUCCEEDED", "FAILED", "KILLED"}

LiveStates ==
  {"PENDING", "LAUNCHING", "WAITING_READY", "HEALTH_CHECK", "BENCHING", "SERVING"}

RunStatus == LiveStates \cup TERMINAL_RUN_STATES

\* The worker's own way forward; every live status may also end badly.
Forward(s) ==
  CASE s = "PENDING"       -> {"LAUNCHING"}
    [] s = "LAUNCHING"     -> {"WAITING_READY", "HEALTH_CHECK"}
    [] s = "WAITING_READY" -> {"HEALTH_CHECK"}
    [] s = "HEALTH_CHECK"  -> {"BENCHING", "SERVING"}
    [] s = "BENCHING"      -> {"SUCCEEDED"}
    [] s = "SERVING"       -> {"SUCCEEDED"}
    [] OTHER               -> {}

ALLOWED_TRANSITIONS ==
  [s \in RunStatus |->
     Forward(s) \cup (IF s \in LiveStates THEN {"FAILED", "KILLED"} ELSE {})]

can_transition(current, target) == target \in ALLOWED_TRANSITIONS[current]
=============================================================================
