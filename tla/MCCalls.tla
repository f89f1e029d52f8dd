-------------------------------- MODULE MCCalls --------------------------------
(***************************************************************************)
(* Small instances, side by side, of the components that serve one session *)
(* or one call: the lifecycle machine, the ownership and the broker of a   *)
(* controlled session (what joins them is SessionSupervisor), the          *)
(* materialization of an archive, and the provider store.  They do not     *)
(* interact here, so a behaviour is one of any one of them: component says *)
(* which, and the others stay in their first state.                        *)
(***************************************************************************)
EXTENDS SessionLifecycle, SessionOwnership, SessionBroker, ArchiveMaterialization, ProviderStore

VARIABLE component

MCOperations == {"input", "resize", "terminate", "complete"}
MCExitStatuses == {"exited-0", "exited-1", "unavailable"}

\* Archives: names that are prefixes, that differ in case only, and others.
MCArchiveNames == {<<"a">>, <<"A", "b">>, <<"a", "b">>, <<"c">>}
MCLower == [c \in {"a", "A", "b", "c"} |-> IF c = "A" THEN "a" ELSE c]

\* The store: two builds that share one artifact.
MCClosure == [b \in Builds |-> IF b = "two" THEN Blobs ELSE Debs]

callVars == <<component, machine, ownershipVars, brokerVars, archiveVars, storeVars>>

Lifecycle ==
    /\ component = "lifecycle" /\ Next
    /\ UNCHANGED <<component, ownershipVars, brokerVars, archiveVars, storeVars>>
Ownership ==
    /\ component = "ownership" /\ OwnershipNext
    /\ UNCHANGED <<component, machine, brokerVars, archiveVars, storeVars>>
Broker ==
    /\ component = "broker" /\ BrokerNext
    /\ UNCHANGED <<component, machine, ownershipVars, archiveVars, storeVars>>
Archive ==
    /\ component = "archive" /\ ArchiveNext
    /\ UNCHANGED <<component, machine, ownershipVars, brokerVars, storeVars>>
Store ==
    /\ component = "store" /\ StoreNext
    /\ UNCHANGED <<component, machine, ownershipVars, brokerVars, archiveVars>>

\* One first state of each component that does not move
Pinned ==
    /\ component # "broker" => broker.operations = Granted
    /\ component # "archive" => want = CHOOSE r \in Requests : ValidRequest(r) /\ r.size > 0

CallsInit ==
    /\ component \in {"lifecycle", "ownership", "broker", "archive", "store"}
    /\ Init /\ OwnershipInit /\ BrokerInit /\ ArchiveInit /\ StoreInit /\ Pinned

CallsNext == Lifecycle \/ Ownership \/ Broker \/ Archive \/ Store

\* The fairness of the components, for the one that moves
CallFairness ==
    /\ SF_ownershipVars(component = "ownership" /\ WatchdogAttempt /\ exists' = {})
    /\ WF_brokerVars(component = "broker" /\ BrokerSteps)
    /\ WF_brokerVars(component = "broker" /\ ClaimSteps)
    /\ WF_archiveVars(component = "archive" /\ MaterializeSteps)
    /\ WF_storeVars(component = "store" /\ CallSteps)

CallsSpec == CallsInit /\ [][CallsNext]_callVars /\ CallFairness

================================================================================
