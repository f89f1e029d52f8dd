---------------------------- MODULE SessionContract ----------------------------
(***************************************************************************)
(* What one controlled session promises to the people who start it and to  *)
(* the controller that drives it, without saying how: a session is         *)
(* prepared, possibly runs, is terminated for exactly one cause, publishes *)
(* exactly one verdict, and the verdict may be delivered and acknowledged. *)
(*                                                                         *)
(* SessionLifecycle.tla (MachineV1 of internal/controlledsession) is shown *)
(* to implement this specification.                                        *)
(***************************************************************************)

CONSTANTS Causes,    \* termination causes
          None       \* no cause, no verdict yet

VARIABLES phase,     \* "preparing", "active", "terminating" or "terminated"
          cause,     \* the latched cause, or None
          verdict,   \* the cause named by the published result, or None
          receipt    \* how far the result got: "none", "delivered", "acknowledged"

contractVars == <<phase, cause, verdict, receipt>>

Init ==
  /\ phase = "preparing"
  /\ cause = None
  /\ verdict = None
  /\ receipt = "none"

\* Both processes run: the only way into "active" is from "preparing".
Activate ==
  /\ phase = "preparing"
  /\ phase' = "active"
  /\ UNCHANGED <<cause, verdict, receipt>>

\* The first reason to stop wins; there is no way back.
Terminate ==
  /\ phase \in {"preparing", "active"}
  /\ phase' = "terminating"
  /\ cause' \in Causes
  /\ UNCHANGED <<verdict, receipt>>

\* The one result names the latched cause.
Publish ==
  /\ phase = "terminating"
  /\ phase' = "terminated"
  /\ verdict' = cause
  /\ UNCHANGED <<cause, receipt>>

Deliver ==
  /\ phase = "terminated"
  /\ receipt = "none"
  /\ receipt' = "delivered"
  /\ UNCHANGED <<phase, cause, verdict>>

Acknowledge ==
  /\ receipt = "delivered"
  /\ receipt' = "acknowledged"
  /\ UNCHANGED <<phase, cause, verdict>>

Next == Activate \/ Terminate \/ Publish \/ Deliver \/ Acknowledge

Spec == Init /\ [][Next]_contractVars

================================================================================
