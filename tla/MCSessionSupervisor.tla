-------------------------- MODULE MCSessionSupervisor --------------------------
(* One session whose controller was granted everything that changes the       *)
(* lifecycle, and a workload whose status is either observed or unavailable.  *)
EXTENDS SessionSupervisor

MCOperations == {"input", "terminate", "complete"}

MCExitStatuses == {"unavailable"}

================================================================================
