------------------------------- MODULE MCHost -------------------------------
(***************************************************************************)
(* Small instances, side by side, of components of the host side of reploy *)
(* whose properties are invariants: the supervisor of a controlled session *)
(* whose controller completes at once, the editor of package overrides,    *)
(* the preparation of a provider node, and the mapped runs of a deployment *)
(* with the journal of its identity mapping.  A behaviour is one of any    *)
(* one of them: component says which, and the others stay in their first   *)
(* state.                                                                  *)
(***************************************************************************)
EXTENDS MCSessionSupervisor, OverrideEditor, NodePreparation, MappedExecution

VARIABLE component

\* Session: a controller that types and completes; its terminate is the subject
\* of MCFaults.
HostOperations == {"input", "complete"}

\* Editor: a package that is required, one that local projects depend on and
\* one that only trial builds find, which may have an override when the editor
\* opens, of a version that upstream does not have.
MCTrials == {{}, {2}, {3}}
NoChoice == [p \in PythonPackages |-> "none"]
MCEditorInit == EditorInit /\ \A p \in {1, 2} : choice[p] = "none"

\* Mapping: a generation with one declared identity and one with two, which
\* two candidates bind to different host identities.
MCGeometries == {{<<0, 10>>}, {<<0, 10>>, <<1, 11>>}, {<<0, 10>>, <<1, 12>>}}
MCPolicyIDs == [g \in MapGenerations |-> IF g = "g1" THEN {0} ELSE {0, 1}]

otherVars == <<editorVars, prepVars, mappedVars>>
hostVars == <<component, supervisorVars, otherVars>>

Supervising ==
    /\ component = "supervisor" /\ SupervisorNext
    /\ UNCHANGED <<component, otherVars>>
Editing ==
    /\ component = "editor" /\ EditorNext
    /\ UNCHANGED <<component, supervisorVars, prepVars, mappedVars>>
Preparing ==
    /\ component = "node" /\ PrepNext
    /\ UNCHANGED <<component, supervisorVars, editorVars, mappedVars>>
Mapping ==
    /\ component = "mapping" /\ MappedNext
    /\ UNCHANGED <<component, supervisorVars, editorVars, prepVars>>

HostInit ==
    /\ component \in {"supervisor", "editor", "node", "mapping"}
    /\ SupervisorInit
    /\ IF component = "editor" THEN MCEditorInit ELSE EditorOpens(NoChoice, FALSE, FALSE)
    /\ IF component = "node" THEN PrepInit ELSE PreparationOf("apt", FALSE, FALSE, {})
    /\ MappingOf("g1")

HostNext == Supervising \/ Editing \/ Preparing \/ Mapping

HostSpec == HostInit /\ [][HostNext]_hostVars

===============================================================================
