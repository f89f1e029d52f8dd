------------------------------ MODULE MCFaults ------------------------------
(***************************************************************************)
(* Small instances, side by side, of components whose parts fail: the      *)
(* supervisor of a controlled session, whose streams and watchdog fail,    *)
(* and a staging directory with two operators.  A behaviour is one of      *)
(* either: component says of which, and the other stays in its first state. *)
(***************************************************************************)
EXTENDS MCSessionSupervisor, StagedDeployment

VARIABLE component

\* Staging: two documents of one environment with control scripts of different
\* names, and one of another environment.
MCDocEnv == [d \in Docs |-> IF d = "d3" THEN "f" ELSE "e"]
MCDocScript == [d \in Docs |-> IF d = "d2" THEN "t" ELSE "s"]

faultVars == <<component, supervisorVars, stagedVars>>

Supervising ==
    /\ component = "supervisor" /\ SupervisorNext
    /\ UNCHANGED <<component, stagedVars>>
Staging ==
    /\ component = "staging" /\ StagedNext
    /\ UNCHANGED <<component, supervisorVars>>

FaultInit ==
    /\ component \in {"supervisor", "staging"}
    /\ SupervisorInit
    /\ IF component = "staging" THEN StagedInit ELSE StagingOf(NoStaging, {}, Untouched)

FaultNext == Supervising \/ Staging

FaultSpec == FaultInit /\ [][FaultNext]_faultVars

===============================================================================
