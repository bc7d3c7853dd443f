--------------------------- MODULE ProgramSessions ---------------------------
(***************************************************************************)
(* The state machine of a program session                                  *)
(* (apps/runtime-py/src/cit_runtime/sessions.py), as the table the code     *)
(* declares it as.  FR-018 fixes the names of the states.                  *)
(***************************************************************************)

SessionState ==
  {"created", "validating", "waiting_for_devices", "waiting_for_arm", "ready",
   "running", "paused", "stopping", "stopped", "completed", "failed",
   "disconnected", "emergency_stopped"}

Terminal == {"stopped", "completed", "failed", "emergency_stopped"}

(* _PROGRESS_TRANSITIONS *)
Progress ==
  [s \in SessionState |->
     CASE s = "created" -> {"validating"}
       [] s = "validating" -> {"waiting_for_devices", "ready"}
       [] s = "waiting_for_devices" -> {"waiting_for_arm", "ready"}
       [] s = "waiting_for_arm" -> {"ready"}
       [] s = "ready" -> {"running", "waiting_for_arm"}
       [] s = "running" -> {"paused", "stopping"}
       [] s = "paused" -> {"running", "stopping"}
       [] s = "stopping" -> {"stopped", "completed"}
       [] s = "disconnected" -> {"waiting_for_devices"}
       [] OTHER -> {}]

(* _UNIVERSAL_ESCAPES *)
Escapes == {"emergency_stopped", "failed", "stopping", "disconnected"}

(* allowed_transitions *)
Allowed(s) == IF s \in Terminal THEN {} ELSE Progress[s] \cup Escapes

(* Runtime.arm accepts only a session that has validated and not started.   *)
Armable == {"ready", "waiting_for_arm"}
=============================================================================
