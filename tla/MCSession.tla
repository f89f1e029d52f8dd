------------------------------- MODULE MCSession -------------------------------
(***************************************************************************)
(* Small instances, side by side, of what a controlled session needs on    *)
(* its host: the plan of its containers, its private network, and the      *)
(* supervisor that has to bring it to an end.  A behaviour is one of any   *)
(* one of them: component says which, and the others stay in their first   *)
(* state.                                                                  *)
(***************************************************************************)
EXTENDS MCSessionSupervisor, SessionNetwork

VARIABLE component

\* Plans: mounts of each deployment's directory, of its metadata, of something
\* inside, of its private file and of a link to the other one.
MCMountSources ==
    {<<"c">>, <<"c", "meta">>, <<"c", "meta", "x">>, <<"c", "env">>, <<"c", "data">>, <<"w">>,
     <<"w", "meta", "session">>, <<"w", "meta", "session", "prefixes">>, <<"link">>, <<"link", "meta">>, <<"x">>}
MCMountTargets == {<<"data">>, <<"data", "sub">>, <<"run">>, <<"run", "prefixes">>, <<"bin", "app">>, <<"opt">>}
MCLinkTo == <<"w">>

\* Networks: one pool of four subnets and one of a single one.
MCPoolSlots == <<4, 1>>

\* A request to stand still with.
MCPlainRequest ==
    [role |-> "workload", mounts |-> {}, output |-> <<>>, grants |-> {}, endpoints |-> FALSE, uid |-> 1000]

sessionVars == <<component, supervisorVars, planVars, netVars>>

Supervising ==
    /\ component = "supervisor" /\ SupervisorNext
    /\ UNCHANGED <<component, planVars, netVars>>
Planning ==
    /\ component = "plan" /\ PlanNext
    /\ UNCHANGED <<component, supervisorVars, netVars>>
Networking ==
    /\ component = "network" /\ NetNext
    /\ UNCHANGED <<component, supervisorVars, planVars>>

SessionInit ==
    /\ component \in {"supervisor", "plan", "network"}
    /\ SupervisorInit
    /\ IF component = "plan" THEN PlanInit ELSE request = MCPlainRequest /\ plan = NoPlan
    /\ IF component = "network" THEN NetInit ELSE NetOf("ended", NoHash, {}, [r \in Roles |-> {}])

SessionNext == Supervising \/ Planning \/ Networking

\* The run thread goes on while it can, and time passes; plan and network owe nothing.
SessionFairness ==
    /\ WF_supervisorVars(component = "supervisor" /\ RunThread)
    /\ WF_supervisorVars(component = "supervisor" /\ DeadlinePasses)

SessionSpec == SessionInit /\ [][SessionNext]_sessionVars /\ SessionFairness

================================================================================
