--------------------------- MODULE SessionLifecycle ---------------------------
(***************************************************************************)
(* MachineV1 (internal/controlledsession/lifecycle.go): the authoritative  *)
(* lifecycle of one controlled session.  Host observations and controller  *)
(* requests arrive from different goroutines; the machine's mutex makes    *)
(* each Observe and each ApplyRequest one atomic step, in any order.       *)
(*                                                                         *)
(* A rejected observation or request leaves the machine alone, so a        *)
(* rejection is an action that is not enabled.  Reasons, messages and      *)
(* malformed payloads are left out: only the kinds of statuses, and which  *)
(* workload status it is, decide anything here.                            *)
(***************************************************************************)

CONSTANTS Operations,    \* the controller operations the authorization grants
          ExitStatuses   \* the terminal workload statuses the runtime may report

ASSUME OperationsAssumption ==
  Operations \subseteq {"input", "resize", "terminate", "complete"}

ASSUME ExitStatusesAssumption ==
  /\ "unavailable" \in ExitStatuses
  /\ "unknown" \notin ExitStatuses

VARIABLE machine

None == "none"

States == {"preparing", "active", "terminating", "terminated"}

Causes == {"controller-terminate", "workload-exit", "host-cancel",
           "controller-lost", "runtime-observation-lost",
           "cleanup-containment-lost", "startup-failure"}

WorkloadStatuses == ExitStatuses \cup {"unknown"}

OutputStatuses == {None, "drained", "failed"}

RuntimeStatuses == {"maintained", "lost"}

\* The verdicts on the controller that are final before the session finishes.
ControllerVerdicts == {"completed", "lost", "finalization-timeout", "startup-failed"}

ControllerStatuses == {"unknown", "active", "not-completed"} \cup ControllerVerdicts

\* A cleanup outcome with the recovery it calls for.
CleanupOutcomes == {"succeeded", "failed-retry", "failed-reconcile"}

Finishes == [workload: WorkloadStatuses, outputs: OutputStatuses \ {None},
             controller: ControllerVerdicts \cup {"not-completed"},
             cleanup: CleanupOutcomes]

Results == [cause: Causes, workload: WorkloadStatuses,
            outputs: OutputStatuses \ {None}, runtime: RuntimeStatuses,
            controller: ControllerVerdicts \cup {"not-completed"},
            cleanup: CleanupOutcomes]

\* The nil result of a machine that has not finished.
NoResult == [cause |-> None, workload |-> "unknown", outputs |-> None,
             runtime |-> "maintained", controller |-> "unknown", cleanup |-> None]

MachineResults == Results \cup {NoResult}

Machines == [state: States, activated: BOOLEAN, cause: Causes \cup {None},
             workload: WorkloadStatuses, outputs: OutputStatuses,
             controller: ControllerStatuses, runtime: RuntimeStatuses,
             waitingOutputs: BOOLEAN, waitingPublication: BOOLEAN,
             waitingFinalize: BOOLEAN, delivered: BOOLEAN,
             acknowledged: BOOLEAN, result: MachineResults]

--------------------------------------------------------------------------------
(* The steps the handlers share.                                             *)

NewMachine ==
  [state |-> "preparing", activated |-> FALSE, cause |-> None,
   workload |-> "unknown", outputs |-> None, controller |-> "unknown",
   runtime |-> "maintained", waitingOutputs |-> FALSE,
   waitingPublication |-> FALSE, waitingFinalize |-> FALSE,
   delivered |-> FALSE, acknowledged |-> FALSE, result |-> NoResult]

\* Mutant: a latch that lets a later cause replace the first one.
LatchLastCause(m, cause) ==
  [m EXCEPT !.cause = cause,
            !.state = "terminating",
            !.waitingOutputs = IF m.state = "active" THEN TRUE ELSE @,
            !.outputs = IF m.state = "active" THEN @ ELSE "drained"]

\* The first cause begins termination.  A session that never ran has no output
\* to drain: its barrier is recorded as satisfied.
LatchLocked(m, cause) ==
  IF m.cause # None THEN m
  ELSE [m EXCEPT !.cause = cause,
                 !.state = "terminating",
                 !.waitingOutputs = IF m.state = "active" THEN TRUE ELSE @,
                 !.outputs = IF m.state = "active" THEN @ ELSE "drained"]

\* Mutant: completion that forgets the publication of the finalized outputs.
CompleteWithoutPublication(m, status) ==
  [m EXCEPT !.outputs = status,
            !.waitingOutputs = FALSE,
            !.waitingPublication = FALSE,
            !.waitingFinalize = m.controller = "active" /\ "complete" \in Operations]

\* The outputs are final; a live controller is now owed their publication.
CompleteOutputFinalization(m, status) ==
  [m EXCEPT !.outputs = status,
            !.waitingOutputs = FALSE,
            !.waitingPublication = m.controller = "active",
            !.waitingFinalize = FALSE]

\* Observation lost before activation: nothing ran, but nothing was watched
\* either, so the satisfied barrier is turned into a failed one.
FinalizePreActivationOutputs(m) ==
  IF /\ ~m.activated
     /\ m.cause = "runtime-observation-lost"
     /\ m.outputs = "drained"
  THEN CompleteOutputFinalization(m, "failed")
  ELSE m

\* validateResultConsistencyV1, and the known status workload-exit requires.
ResultConsistent(r) ==
  /\ r.cause = "workload-exit" => r.workload # "unknown"
  /\ r.cause = "runtime-observation-lost" => r.runtime = "lost" /\ r.outputs = "failed"
  /\ r.cause = "controller-lost" => r.controller = "lost"
  /\ r.cause = "startup-failure" => r.controller = "startup-failed"

\* validateControllerFinishLocked
ControllerFinishAccepted(m, status) ==
  \/ m.controller \in ControllerVerdicts /\ status = m.controller
  \/ m.controller \in {"active", "unknown"} /\ status = "not-completed"

\* Mutant: a result that reports the recorded controller, not the final one.
ResultOfRecorded(m, finish) ==
  [cause |-> m.cause, workload |-> finish.workload, outputs |-> finish.outputs,
   runtime |-> m.runtime, controller |-> m.controller, cleanup |-> finish.cleanup]

ResultOf(m, finish) ==
  [cause |-> m.cause, workload |-> finish.workload, outputs |-> finish.outputs,
   runtime |-> m.runtime, controller |-> finish.controller, cleanup |-> finish.cleanup]

NothingPending(m) ==
  ~m.waitingOutputs /\ ~m.waitingPublication /\ ~m.waitingFinalize

FinishAccepted(m, finish) ==
  /\ m.state = "terminating"
  /\ NothingPending(m)
  /\ m.outputs # None
  /\ m.workload \in {"unknown", finish.workload}
  /\ m.outputs = finish.outputs
  /\ ControllerFinishAccepted(m, finish.controller)
  /\ ResultConsistent(ResultOf(m, finish))

--------------------------------------------------------------------------------
(* Host observations: MachineV1.Observe, one operator per kind.  The operator *)
(* gives the machine after an accepted observation.                           *)

Activated(m) ==
  [m EXCEPT !.state = "active", !.activated = TRUE, !.controller = "active"]

\* An exit is news only before the outputs are final; the one exception is a
\* late exit of an activated workload whose outputs were already given up.
WorkloadExitAccepted(m, status) ==
  /\ m.state \in {"active", "terminating"}
  /\ \/ m.outputs = None
     \/ /\ m.activated
        /\ m.state = "terminating"
        /\ m.workload = "unknown"
        /\ m.outputs = "failed"
  /\ m.workload \in {"unknown", status}

WorkloadExit(m, status) ==
  IF m.state = "active"
  THEN LatchLocked([m EXCEPT !.workload = status], "workload-exit")
  ELSE [m EXCEPT !.workload = status]

\* Mutant: controller loss that overrides a verdict already reached.
ControllerLostAnyway(m) ==
  LatchLocked([m EXCEPT !.controller = "lost",
                        !.waitingFinalize = FALSE,
                        !.waitingPublication = FALSE],
              "controller-lost")

LostVerdict(m) ==
  IF m.controller \in {"unknown", "active"} THEN "lost" ELSE m.controller

ControllerLost(m) ==
  LatchLocked([m EXCEPT !.controller = LostVerdict(m),
                        !.waitingFinalize = FALSE,
                        !.waitingPublication = FALSE],
              "controller-lost")

RuntimeObservationLost(m) ==
  FinalizePreActivationOutputs(
    LatchLocked([m EXCEPT !.runtime = "lost"], "runtime-observation-lost"))

StartupFailureAccepted(m, pending, finalized) ==
  /\ m.controller = "unknown"
  /\ pending => finalized = None

\* `pending': the workload had started, so its output must still be finalized.
StartupFailure(m, pending, finalized) ==
  LET failed == LatchLocked([m EXCEPT !.controller = "startup-failed"], "startup-failure")
  IN  IF pending THEN [failed EXCEPT !.outputs = None, !.waitingOutputs = TRUE]
      ELSE IF finalized # None THEN CompleteOutputFinalization(failed, finalized)
      ELSE failed

\* Mutant: finalization that trusts the caller about the workload.
OutputsFinalizedUnchecked(m, status) == m.waitingOutputs

OutputsFinalizedAccepted(m, status) ==
  /\ m.waitingOutputs
  /\ m.activated /\ m.workload = "unknown" => m.runtime = "lost" /\ status = "failed"
  /\ m.runtime = "lost" => status = "failed"

OutputsPublishedAccepted(m) ==
  /\ m.state = "terminating"
  /\ ~m.waitingOutputs
  /\ m.outputs # None
  /\ m.waitingPublication

OutputsPublished(m) ==
  [m EXCEPT !.waitingPublication = FALSE,
            !.waitingFinalize = m.controller = "active" /\ "complete" \in Operations]

ControllerFinalizationExpired(m) ==
  [m EXCEPT !.waitingFinalize = FALSE, !.controller = "finalization-timeout"]

Finished(m, finish) ==
  [m EXCEPT !.workload = finish.workload,
            !.controller = finish.controller,
            !.result = ResultOf(m, finish),
            !.state = "terminated"]

--------------------------------------------------------------------------------
(* Controller requests: MachineV1.applyRequestV1.  Accepted input and resize  *)
(* requests change only the workload's PTY, never the machine.                *)

TerminateAccepted(m) ==
  /\ "terminate" \in Operations
  /\ m.state \in {"active", "terminating"}

\* Mutant: completion accepted as soon as the session is terminating.
CompleteAnytime(m) ==
  /\ "complete" \in Operations
  /\ m.state = "terminating"
  /\ m.controller = "active"

CompleteAccepted(m) ==
  /\ "complete" \in Operations
  /\ m.state = "terminating"
  /\ ~m.waitingOutputs
  /\ m.waitingFinalize
  /\ m.controller = "active"

Completed(m) ==
  [m EXCEPT !.waitingFinalize = FALSE, !.controller = "completed"]

\* Mutant: acknowledgement accepted for a result nobody delivered.
AcknowledgeUndelivered(m) == m.state = "terminated"

AcknowledgeAccepted(m) ==
  /\ m.state = "terminated"
  /\ m.delivered

--------------------------------------------------------------------------------
(* The finish the supervisor asks for: it reports what the machine recorded.  *)

FinishStatus(m, cleanup) ==
  [workload |-> IF m.workload = "unknown" /\ m.runtime = "lost"
                THEN "unavailable" ELSE m.workload,
   outputs |-> m.outputs,
   controller |-> IF m.controller \in {"active", "unknown"}
                  THEN "not-completed" ELSE m.controller,
   cleanup |-> cleanup]

--------------------------------------------------------------------------------
(* The machine driven by every caller, in every order.                        *)

Init == machine = NewMachine

ObserveActivated ==
  /\ machine.state = "preparing"
  /\ machine' = Activated(machine)

ObserveWorkloadExit ==
  \E status \in ExitStatuses :
    /\ WorkloadExitAccepted(machine, status)
    /\ machine' = WorkloadExit(machine, status)

ObserveHostCancel ==
  /\ machine.state # "terminated"
  /\ machine' = LatchLocked(machine, "host-cancel")

ObserveControllerLost ==
  /\ machine.state # "terminated"
  /\ machine' = ControllerLost(machine)

ObserveRuntimeObservationLost ==
  /\ machine.state # "terminated"
  /\ machine' = RuntimeObservationLost(machine)

ObserveCleanupContainmentLost ==
  /\ machine.state # "terminated"
  /\ machine' = LatchLocked(machine, "cleanup-containment-lost")

ObserveStartupFailure ==
  \E pending \in BOOLEAN, finalized \in OutputStatuses :
    /\ machine.state # "terminated"
    /\ StartupFailureAccepted(machine, pending, finalized)
    /\ machine' = StartupFailure(machine, pending, finalized)

ObserveWorkloadOutputsFinalized ==
  \E status \in {"drained", "failed"} :
    /\ machine.state # "terminated"
    /\ OutputsFinalizedAccepted(machine, status)
    /\ machine' = CompleteOutputFinalization(machine, status)

ObserveWorkloadOutputsPublished ==
  /\ OutputsPublishedAccepted(machine)
  /\ machine' = OutputsPublished(machine)

ObserveWorkloadOutputFinalizationExpired ==
  /\ machine.state # "terminated"
  /\ machine.waitingOutputs
  /\ machine' = CompleteOutputFinalization(machine, "failed")

ObserveControllerFinalizationExpired ==
  /\ machine.state # "terminated"
  /\ machine.waitingFinalize
  /\ machine' = ControllerFinalizationExpired(machine)

ObserveFinished ==
  \E finish \in Finishes :
    /\ FinishAccepted(machine, finish)
    /\ machine' = Finished(machine, finish)

ObserveResultDelivered ==
  /\ machine.state = "terminated"
  /\ machine' = [machine EXCEPT !.delivered = TRUE]

RequestTerminate ==
  /\ TerminateAccepted(machine)
  /\ machine' = LatchLocked(machine, "controller-terminate")

RequestComplete ==
  /\ CompleteAccepted(machine)
  /\ machine' = Completed(machine)

RequestAcknowledgeTerminated ==
  /\ AcknowledgeAccepted(machine)
  /\ machine' = [machine EXCEPT !.acknowledged = TRUE]

Observe ==
  \/ ObserveActivated
  \/ ObserveWorkloadExit
  \/ ObserveHostCancel
  \/ ObserveControllerLost
  \/ ObserveRuntimeObservationLost
  \/ ObserveCleanupContainmentLost
  \/ ObserveStartupFailure
  \/ ObserveWorkloadOutputsFinalized
  \/ ObserveWorkloadOutputsPublished
  \/ ObserveWorkloadOutputFinalizationExpired
  \/ ObserveControllerFinalizationExpired
  \/ ObserveFinished
  \/ ObserveResultDelivered

ApplyRequest ==
  \/ RequestTerminate
  \/ RequestComplete
  \/ RequestAcknowledgeTerminated

Next == Observe \/ ApplyRequest

Spec == Init /\ [][Next]_machine

--------------------------------------------------------------------------------
(* Properties.                                                                *)

\* Every field of MachineV1 holds one of its declared kinds.
TypeOK == machine \in Machines

\* The three barriers of termination are taken one at a time and in order:
\* output finalization, publication to a live controller, controller
\* finalization.  A terminating machine without a final output status is
\* waiting for one, so the barrier can never be forgotten.
Barriers(m) ==
  /\ m.waitingOutputs =>
       /\ m.state = "terminating" /\ m.outputs = None
       /\ ~m.waitingPublication /\ ~m.waitingFinalize
  /\ m.waitingPublication =>
       /\ m.state = "terminating" /\ m.outputs # None
       /\ m.controller = "active" /\ ~m.waitingFinalize
  /\ m.waitingFinalize =>
       /\ m.state = "terminating" /\ m.outputs # None
       /\ m.controller = "active" /\ "complete" \in Operations
  /\ m.state = "terminating" /\ m.outputs = None => m.waitingOutputs

\* Barriers holds of the machine in every reachable state.
BarrierDiscipline == Barriers(machine)

\* No dead end: once an activated session has no barrier left, the finish the
\* supervisor builds from the recorded statuses is always accepted, whatever
\* raced with whatever before.
Finishable(m) ==
  m.state = "terminating" /\ m.activated /\ NothingPending(m) =>
    \A cleanup \in CleanupOutcomes : FinishAccepted(m, FinishStatus(m, cleanup))

\* Finishable holds of the machine in every reachable state.
NoDeadEnd == Finishable(machine)

\* A result that says the outputs of an activated session were drained was
\* produced by a workload whose end was observed, not assumed.
DrainedMeansObserved ==
  machine.activated /\ machine.outputs = "drained" => machine.workload # "unknown"

\* The controller is credited with completion only after the final outputs were
\* published to it: never while any earlier barrier is still pending.
CompletionOnlyAfterPublication ==
  [][machine'.controller = "completed" /\ machine.controller # "completed" =>
       /\ machine.outputs # None
       /\ ~machine.waitingOutputs
       /\ ~machine.waitingPublication]_machine

\* A verdict on the controller, once reached, survives every later observation,
\* the loss of that controller and the finish included.
ControllerVerdictStable ==
  [][machine.controller \in ControllerVerdicts =>
       machine'.controller = machine.controller]_machine

\* In every reachable state, whatever the order of observations and requests:
\* the fields have their types, the barriers of a termination open in order,
\* outputs that count as drained have a workload whose end was observed, and
\* the session can be finished.
MachineSound == TypeOK /\ BarrierDiscipline /\ DrainedMeansObserved /\ NoDeadEnd

\* What a controller is credited with is earned and final: completion only
\* after the publication it completes, and no later change of the verdict.
VerdictsEarned == CompletionOnlyAfterPublication /\ ControllerVerdictStable

\* The machine implements the contract of a session: one cause, one verdict
\* naming it, an acknowledgement only of a delivered result.
Contract == INSTANCE SessionContract WITH
  phase   <- machine.state,
  cause   <- machine.cause,
  verdict <- machine.result.cause,
  receipt <- IF machine.acknowledged THEN "acknowledged"
             ELSE IF machine.delivered THEN "delivered" ELSE "none"

ImplementsContract == Contract!Spec

================================================================================
