----------------------- MODULE SessionSupervisorProofs -----------------------
(***************************************************************************)
(* Proofs about the machine of a controlled session and about its          *)
(* supervisor, for every set of operations and exit statuses, every bound  *)
(* on the inputs, every eager controller and every set of faults.          *)
(*                                                                         *)
(* The inductive invariant of the machine, Good, is a predicate of one     *)
(* machine value, so each handler is one lemma about one operator.         *)
(*                                                                         *)
(* SupervisorInv says what each location of the run thread knows of the    *)
(* machine, of the startup, of what was seen and of the event being        *)
(* written; with it every step is a step of MachineV1.  EventsInv adds     *)
(* what the controller was told, and gives the order of the events.        *)
(* AnswersInv adds what was recorded of the two events that call for an    *)
(* answer and which answers are under way: an answer may be read before    *)
(* the event it answers is recorded as sent, and is held at its gate.      *)
(***************************************************************************)
EXTENDS SessionSupervisor, TLAPS

-----------------------------------------------------------------------------
(* The machine                                                             *)

\* What the phase says about the other fields, and the cause about the statuses.
PhaseLinks(m) ==
  /\ m.cause = None <=> m.state \in {"preparing", "active"}
  /\ m.state = "preparing" =>
       ~m.activated /\ m.controller = "unknown" /\ m.workload = "unknown"
  /\ m.state = "active" =>
       m.activated /\ m.controller = "active" /\ m.workload = "unknown"
  /\ m.state \in {"preparing", "active"} => m.outputs = None
  /\ m.activated => m.controller \notin {"unknown", "startup-failed"}
  /\ ~m.activated => m.controller # "active"
  /\ m.state # "terminated" => m.controller # "not-completed"

CauseLinks(m) ==
  /\ m.cause = "workload-exit" => m.workload # "unknown"
  /\ m.cause = "controller-lost" => m.controller = "lost"
  /\ m.cause = "startup-failure" => m.controller = "startup-failed"
  /\ m.cause = "runtime-observation-lost" =>
       m.runtime = "lost" /\ (m.activated => m.outputs # "drained")

ResultLinks(m) ==
  /\ m.state # "terminated" => m.result = NoResult /\ ~m.delivered
  /\ m.state = "terminated" => m.result.cause = m.cause
  /\ m.acknowledged => m.delivered

\* A drained output of an activated session has an observed workload.
Observed(m) == m.activated /\ m.outputs = "drained" => m.workload # "unknown"

Good(m) ==
  /\ m \in Machines
  /\ Barriers(m)
  /\ PhaseLinks(m)
  /\ CauseLinks(m)
  /\ ResultLinks(m)
  /\ Observed(m)

USE DEF None, States, Causes, WorkloadStatuses, OutputStatuses, RuntimeStatuses,
        ControllerVerdicts, ControllerStatuses, CleanupOutcomes

LEMMA InitGood == Init => Good(machine)
  BY DEF Init, NewMachine, MachineResults, Good, Machines, Barriers, PhaseLinks, CauseLinks, ResultLinks, Observed

\* LatchLocked field by field: it does nothing after the first cause, and
\* otherwise sets the cause and the phase and raises or satisfies the barrier.
LEMMA LatchFields ==
  ASSUME NEW m \in Machines, NEW c \in Causes
  PROVE  LET l == LatchLocked(m, c) IN
         /\ l \in Machines
         /\ m.cause # None => l = m
         /\ m.cause = None =>
              /\ l.cause = c /\ l.state = "terminating"
              /\ m.state = "active" => l.waitingOutputs /\ l.outputs = m.outputs
              /\ m.state # "active" =>
                   l.waitingOutputs = m.waitingOutputs /\ l.outputs = "drained"
              /\ l.activated = m.activated /\ l.workload = m.workload
              /\ l.controller = m.controller /\ l.runtime = m.runtime
              /\ l.waitingPublication = m.waitingPublication
              /\ l.waitingFinalize = m.waitingFinalize
              /\ l.delivered = m.delivered /\ l.acknowledged = m.acknowledged
              /\ l.result = m.result
  <1>1. CASE m.cause # None
    BY <1>1 DEF LatchLocked
  <1>2. CASE m.cause = None
    <2>1. CASE m.state = "active"
      BY <1>2, <2>1 DEF LatchLocked, Machines
    <2>2. CASE m.state # "active"
      BY <1>2, <2>2 DEF LatchLocked, Machines
    <2>3. QED
      BY <2>1, <2>2
  <1>3. QED
    BY <1>1, <1>2

\* The first accepted cause keeps a good machine good, as long as the statuses
\* that cause talks about were set before it was latched.
LEMMA LatchGood ==
  ASSUME NEW m, Good(m), NEW c \in Causes, m.state # "terminated",
         c \notin {"workload-exit", "controller-lost", "startup-failure", "runtime-observation-lost"}
  PROVE  Good(LatchLocked(m, c))
  BY LatchFields
  DEF Good, Barriers, PhaseLinks, CauseLinks, ResultLinks, Observed

LEMMA ActivatedGood ==
  ASSUME NEW m, Good(m), m.state = "preparing"
  PROVE  Good(Activated(m))
  BY DEF Good, Machines, Barriers, PhaseLinks, CauseLinks, ResultLinks, Observed, Activated

LEMMA WorkloadExitGood ==
  ASSUME NEW m, Good(m), NEW s \in ExitStatuses, WorkloadExitAccepted(m, s)
  PROVE  Good(WorkloadExit(m, s))
  <1> DEFINE n == [m EXCEPT !.workload = s]
  <1>1. /\ n \in Machines /\ n.workload = s
        /\ n.state = m.state /\ n.activated = m.activated /\ n.cause = m.cause
        /\ n.outputs = m.outputs /\ n.controller = m.controller /\ n.runtime = m.runtime
        /\ n.waitingOutputs = m.waitingOutputs
        /\ n.waitingPublication = m.waitingPublication
        /\ n.waitingFinalize = m.waitingFinalize
        /\ n.delivered = m.delivered /\ n.acknowledged = m.acknowledged
        /\ n.result = m.result
    BY DEF Good, Machines
  <1> HIDE DEF n
  <1>2. CASE m.state = "active"
    <2>1. WorkloadExit(m, s) = LatchLocked(n, "workload-exit")
      BY <1>2 DEF WorkloadExit, n
    <2>2. Good(LatchLocked(n, "workload-exit"))
      BY <1>1, <1>2, LatchFields, ExitStatusesAssumption
      DEF Good, Barriers, PhaseLinks, CauseLinks, ResultLinks, Observed
    <2>3. QED
      BY <2>1, <2>2
  <1>3. CASE m.state # "active"
    <2>1. WorkloadExit(m, s) = n
      BY <1>3 DEF WorkloadExit, n
    <2>2. Good(n)
      BY <1>1, <1>3, ExitStatusesAssumption
      DEF Good, Barriers, PhaseLinks, CauseLinks, ResultLinks, Observed, WorkloadExitAccepted
    <2>3. QED
      BY <2>1, <2>2
  <1>4. QED
    BY <1>2, <1>3

LEMMA ControllerLostGood ==
  ASSUME NEW m, Good(m), m.state # "terminated"
  PROVE  Good(ControllerLost(m))
  <1> DEFINE n == [m EXCEPT !.controller = LostVerdict(m),
                            !.waitingFinalize = FALSE,
                            !.waitingPublication = FALSE]
  <1>0. LostVerdict(m) \in ControllerStatuses
    BY DEF Good, Machines, LostVerdict
  <1>1. /\ n \in Machines /\ n.controller = LostVerdict(m)
        /\ n.state = m.state /\ n.activated = m.activated /\ n.cause = m.cause
        /\ n.outputs = m.outputs /\ n.workload = m.workload /\ n.runtime = m.runtime
        /\ n.waitingOutputs = m.waitingOutputs
        /\ ~n.waitingPublication /\ ~n.waitingFinalize
        /\ n.delivered = m.delivered /\ n.acknowledged = m.acknowledged
        /\ n.result = m.result
    BY <1>0 DEF Good, Machines
  <1>2. ControllerLost(m) = LatchLocked(n, "controller-lost")
    BY DEF ControllerLost
  <1> HIDE DEF n
  <1>3. Good(LatchLocked(n, "controller-lost"))
    BY <1>1, LatchFields
    DEF LostVerdict, Good, Barriers, PhaseLinks, CauseLinks, ResultLinks, Observed
  <1>4. QED
    BY <1>2, <1>3

\* CompleteOutputFinalization field by field.
LEMMA CompleteFields ==
  ASSUME NEW m \in Machines, NEW s \in OutputStatuses
  PROVE  LET n == CompleteOutputFinalization(m, s) IN
         /\ n \in Machines /\ n.outputs = s
         /\ ~n.waitingOutputs /\ ~n.waitingFinalize
         /\ n.waitingPublication <=> m.controller = "active"
         /\ n.state = m.state /\ n.activated = m.activated /\ n.cause = m.cause
         /\ n.workload = m.workload /\ n.controller = m.controller
         /\ n.runtime = m.runtime /\ n.delivered = m.delivered
         /\ n.acknowledged = m.acknowledged /\ n.result = m.result
  <1>1. CASE m.controller = "active"
    BY <1>1 DEF CompleteOutputFinalization, Machines
  <1>2. CASE m.controller # "active"
    BY <1>2 DEF CompleteOutputFinalization, Machines
  <1>3. QED
    BY <1>1, <1>2

LEMMA RuntimeLostGood ==
  ASSUME NEW m, Good(m), m.state # "terminated"
  PROVE  Good(RuntimeObservationLost(m))
  <1> DEFINE n == [m EXCEPT !.runtime = "lost"]
             l == LatchLocked(n, "runtime-observation-lost")
  <1>1. /\ n \in Machines /\ n.runtime = "lost"
        /\ n.state = m.state /\ n.activated = m.activated /\ n.cause = m.cause
        /\ n.outputs = m.outputs /\ n.workload = m.workload
        /\ n.controller = m.controller /\ n.waitingOutputs = m.waitingOutputs
        /\ n.waitingPublication = m.waitingPublication
        /\ n.waitingFinalize = m.waitingFinalize
        /\ n.delivered = m.delivered /\ n.acknowledged = m.acknowledged
        /\ n.result = m.result
    BY DEF Good, Machines
  <1>2. RuntimeObservationLost(m) = FinalizePreActivationOutputs(l)
    BY DEF RuntimeObservationLost
  <1> HIDE DEF n
  <1>3. Good(l) /\ l.runtime = "lost" /\ l.state = "terminating"
    <2>1. CASE m.cause # None
      <3>1. l = n
        BY <1>1, <2>1 DEF LatchLocked
      <3>2. Good(n) /\ n.runtime = "lost" /\ n.state = "terminating"
        BY <1>1, <2>1
        DEF Good, Machines, Barriers, PhaseLinks, CauseLinks, ResultLinks, Observed
      <3>3. QED
        BY <3>1, <3>2
    <2>2. CASE m.cause = None
      BY <1>1, <2>2, LatchFields
      DEF Good, Barriers, PhaseLinks, CauseLinks, ResultLinks, Observed
    <2>3. QED
      BY <2>1, <2>2
  <1> HIDE DEF l
  <1>4. CASE FinalizePreActivationOutputs(l) = l
    BY <1>2, <1>3, <1>4
  <1>5. CASE /\ ~l.activated
             /\ FinalizePreActivationOutputs(l) = CompleteOutputFinalization(l, "failed")
    <2>1. Good(CompleteOutputFinalization(l, "failed"))
      BY <1>3, <1>5, CompleteFields
      DEF Good, Barriers, PhaseLinks, CauseLinks, ResultLinks, Observed
    <2>2. QED
      BY <1>2, <1>5, <2>1
  <1>6. QED
    BY <1>4, <1>5 DEF FinalizePreActivationOutputs

LEMMA StartupFailureGood ==
  ASSUME NEW m, Good(m), m.state # "terminated",
         NEW pending \in BOOLEAN, NEW s \in OutputStatuses,
         StartupFailureAccepted(m, pending, s)
  PROVE  Good(StartupFailure(m, pending, s))
  <1> DEFINE n == [m EXCEPT !.controller = "startup-failed"]
             l == LatchLocked(n, "startup-failure")
  <1>1. /\ n \in Machines /\ n.controller = "startup-failed"
        /\ n.state = m.state /\ n.activated = m.activated /\ n.cause = m.cause
        /\ n.outputs = m.outputs /\ n.workload = m.workload /\ n.runtime = m.runtime
        /\ n.waitingOutputs = m.waitingOutputs
        /\ n.waitingPublication = m.waitingPublication
        /\ n.waitingFinalize = m.waitingFinalize
        /\ n.delivered = m.delivered /\ n.acknowledged = m.acknowledged
        /\ n.result = m.result
    BY DEF Good, Machines
  <1>2. /\ pending => StartupFailure(m, pending, s) =
                        [l EXCEPT !.outputs = None, !.waitingOutputs = TRUE]
        /\ ~pending /\ s # None =>
             StartupFailure(m, pending, s) = CompleteOutputFinalization(l, s)
        /\ ~pending /\ s = None => StartupFailure(m, pending, s) = l
    BY DEF StartupFailure
  <1> HIDE DEF n
  <1>3. /\ Good(l) /\ l.controller = "startup-failed"
        /\ l.state = "terminating" /\ ~l.activated
    <2>1. CASE m.cause # None
      <3>1. l = n
        BY <1>1, <2>1 DEF LatchLocked
      <3>2. Good(n) /\ n.controller = "startup-failed" /\ n.state = "terminating" /\ ~n.activated
        BY <1>1, <2>1
        DEF StartupFailureAccepted, Good, Machines, Barriers, PhaseLinks, CauseLinks, ResultLinks, Observed
      <3>3. QED
        BY <3>1, <3>2
    <2>2. CASE m.cause = None
      BY <1>1, <2>2, LatchFields
      DEF StartupFailureAccepted, Good, Barriers, PhaseLinks, CauseLinks, ResultLinks, Observed
    <2>3. QED
      BY <2>1, <2>2
  <1> HIDE DEF l
  <1>4. CASE pending
    <2> DEFINE p == [l EXCEPT !.outputs = None, !.waitingOutputs = TRUE]
    <2>1. /\ p \in Machines /\ p.outputs = None /\ p.waitingOutputs
          /\ p.state = l.state /\ p.activated = l.activated /\ p.cause = l.cause
          /\ p.workload = l.workload /\ p.controller = l.controller
          /\ p.runtime = l.runtime
          /\ p.waitingPublication = l.waitingPublication
          /\ p.waitingFinalize = l.waitingFinalize
          /\ p.delivered = l.delivered /\ p.acknowledged = l.acknowledged
          /\ p.result = l.result
      BY <1>3 DEF Good, Machines
    <2>2. StartupFailure(m, pending, s) = p
      BY <1>2, <1>4
    <2> HIDE DEF p
    <2>3. Good(p)
      BY <1>3, <2>1
      DEF Good, Barriers, PhaseLinks, CauseLinks, ResultLinks, Observed
    <2>4. QED
      BY <2>2, <2>3
  <1>5. CASE ~pending /\ s # None
    <2>1. Good(CompleteOutputFinalization(l, s))
      BY <1>3, <1>5, CompleteFields
      DEF Good, Barriers, PhaseLinks, CauseLinks, ResultLinks, Observed
    <2>2. QED
      BY <1>2, <1>5, <2>1
  <1>6. CASE ~pending /\ s = None
    BY <1>2, <1>3, <1>6
  <1>7. QED
    BY <1>4, <1>5, <1>6

LEMMA OutputsFinalizedGood ==
  ASSUME NEW m, Good(m), NEW s \in {"drained", "failed"}, m.state # "terminated",
         OutputsFinalizedAccepted(m, s)
  PROVE  Good(CompleteOutputFinalization(m, s))
  BY CompleteFields
  DEF Good, Barriers, PhaseLinks, CauseLinks, ResultLinks, Observed, OutputsFinalizedAccepted

LEMMA OutputExpiryGood ==
  ASSUME NEW m, Good(m), m.waitingOutputs
  PROVE  Good(CompleteOutputFinalization(m, "failed"))
  BY CompleteFields
  DEF Good, Barriers, PhaseLinks, CauseLinks, ResultLinks, Observed

LEMMA OutputsPublishedGood ==
  ASSUME NEW m, Good(m), OutputsPublishedAccepted(m)
  PROVE  Good(OutputsPublished(m))
  <1> DEFINE n == OutputsPublished(m)
  <1>1. /\ n \in Machines /\ ~n.waitingPublication
        /\ n.waitingFinalize <=> m.controller = "active" /\ "complete" \in Operations
        /\ n.state = m.state /\ n.activated = m.activated /\ n.cause = m.cause
        /\ n.outputs = m.outputs /\ n.workload = m.workload
        /\ n.controller = m.controller /\ n.runtime = m.runtime
        /\ n.waitingOutputs = m.waitingOutputs
        /\ n.delivered = m.delivered /\ n.acknowledged = m.acknowledged
        /\ n.result = m.result
    <2>1. CASE m.controller = "active" /\ "complete" \in Operations
      BY <2>1 DEF OutputsPublished, Good, Machines
    <2>2. CASE ~(m.controller = "active" /\ "complete" \in Operations)
      BY <2>2 DEF OutputsPublished, Good, Machines
    <2>3. QED
      BY <2>1, <2>2
  <1> HIDE DEF n
  <1>2. Good(n)
    BY <1>1
    DEF OutputsPublishedAccepted, Good, Barriers, PhaseLinks, CauseLinks, ResultLinks, Observed
  <1>3. QED
    BY <1>2 DEF n

LEMMA ExpiredGood ==
  ASSUME NEW m, Good(m), m.state # "terminated", m.waitingFinalize
  PROVE  Good(ControllerFinalizationExpired(m))
  BY DEF ControllerFinalizationExpired, Good, Machines, Barriers, PhaseLinks,
         CauseLinks, ResultLinks, Observed

LEMMA CompletedGood ==
  ASSUME NEW m, Good(m), CompleteAccepted(m)
  PROVE  Good(Completed(m))
  BY DEF CompleteAccepted, Completed, Good, Machines, Barriers, PhaseLinks,
         CauseLinks, ResultLinks, Observed

\* Finished, for any statuses the validation accepts and any result naming the
\* latched cause.
LEMMA FinishedValueGood ==
  ASSUME NEW m, Good(m), NEW w \in WorkloadStatuses,
         NEW c \in ControllerStatuses, NEW r \in MachineResults,
         r.cause = m.cause, m.state = "terminating", m.outputs # None,
         ~m.waitingOutputs, ~m.waitingPublication, ~m.waitingFinalize,
         m.workload \in {"unknown", w}, ControllerFinishAccepted(m, c)
  PROVE  Good([m EXCEPT !.workload = w, !.controller = c,
                        !.result = r, !.state = "terminated"])
  <1> DEFINE n == [m EXCEPT !.workload = w, !.controller = c,
                            !.result = r, !.state = "terminated"]
  <1>0. m \in Machines
    BY DEF Good
  <1>1. /\ n \in Machines /\ n.state = "terminated" /\ n.result = r
        /\ n.workload = w /\ n.controller = c
        /\ n.activated = m.activated /\ n.cause = m.cause /\ n.outputs = m.outputs
        /\ n.runtime = m.runtime /\ n.waitingOutputs = m.waitingOutputs
        /\ n.waitingPublication = m.waitingPublication
        /\ n.waitingFinalize = m.waitingFinalize
        /\ n.delivered = m.delivered /\ n.acknowledged = m.acknowledged
    <2>1. n \in Machines
      BY <1>0 DEF Machines, States
    <2>2. /\ n.state = "terminated" /\ n.result = r
          /\ n.workload = w /\ n.controller = c
      BY <1>0 DEF Machines
    <2>3. /\ n.activated = m.activated /\ n.cause = m.cause /\ n.outputs = m.outputs
          /\ n.runtime = m.runtime /\ n.waitingOutputs = m.waitingOutputs
          /\ n.waitingPublication = m.waitingPublication
          /\ n.waitingFinalize = m.waitingFinalize
          /\ n.delivered = m.delivered /\ n.acknowledged = m.acknowledged
      BY <1>0 DEF Machines
    <2>4. QED
      BY <2>1, <2>2, <2>3
  <1>2. m.cause # None
    BY DEF Good, PhaseLinks
  <1> HIDE DEF n
  <1>3. PhaseLinks(n)
    BY <1>1, <1>2 DEF ControllerFinishAccepted, Good, PhaseLinks
  <1>4. CauseLinks(n) /\ Observed(n)
    BY <1>1 DEF ControllerFinishAccepted, Good, CauseLinks, Observed
  <1>5. Barriers(n) /\ ResultLinks(n)
    BY <1>1 DEF Good, Barriers, ResultLinks
  <1>6. Good(n)
    BY <1>1, <1>3, <1>4, <1>5 DEF Good
  <1>7. QED
    BY <1>6 DEF n

LEMMA FinishedGood ==
  ASSUME NEW m, Good(m), NEW f \in Finishes, FinishAccepted(m, f)
  PROVE  Good(Finished(m, f))
  <1> DEFINE r == ResultOf(m, f)
  <1>1. r \in MachineResults /\ r.cause = m.cause
    BY DEF MachineResults, FinishAccepted, Good, Machines, PhaseLinks, Finishes, ResultOf, Results
  <1>2. f.workload \in WorkloadStatuses /\ f.controller \in ControllerStatuses
    BY DEF Finishes
  <1>3. /\ m.state = "terminating" /\ m.outputs # None
        /\ ~m.waitingOutputs /\ ~m.waitingPublication /\ ~m.waitingFinalize
        /\ m.workload \in {"unknown", f.workload}
        /\ ControllerFinishAccepted(m, f.controller)
    BY DEF FinishAccepted, NothingPending
  <1>4. Finished(m, f) =
          [m EXCEPT !.workload = f.workload, !.controller = f.controller,
                    !.result = r, !.state = "terminated"]
    BY DEF Finished
  <1> HIDE DEF r
  <1>5. Good([m EXCEPT !.workload = f.workload, !.controller = f.controller,
                       !.result = r, !.state = "terminated"])
    BY <1>1, <1>2, <1>3, FinishedValueGood
  <1>6. QED
    BY <1>4, <1>5

\* Delivery and acknowledgement touch nothing but their own flag.
LEMMA ReceiptFields ==
  ASSUME NEW m \in Machines, NEW n,
         \/ n = [m EXCEPT !.delivered = TRUE] /\ m.state = "terminated"
         \/ n = [m EXCEPT !.acknowledged = TRUE] /\ m.delivered
  PROVE  /\ n \in Machines /\ n.state = m.state /\ n.result = m.result
         /\ n.workload = m.workload /\ n.controller = m.controller
         /\ n.activated = m.activated /\ n.cause = m.cause /\ n.outputs = m.outputs
         /\ n.runtime = m.runtime /\ n.waitingOutputs = m.waitingOutputs
         /\ n.waitingPublication = m.waitingPublication
         /\ n.waitingFinalize = m.waitingFinalize
         /\ n.delivered \/ n.delivered = m.delivered
         /\ n.acknowledged => n.delivered \/ m.acknowledged
         /\ m.delivered => n.delivered
  BY DEF Machines

LEMMA ReceiptGood ==
  ASSUME NEW m, Good(m), NEW n, m.state = "terminated",
         \/ n = [m EXCEPT !.delivered = TRUE]
         \/ n = [m EXCEPT !.acknowledged = TRUE] /\ m.delivered
  PROVE  Good(n)
  <1>1. m \in Machines
    BY DEF Good
  <1>2. n \in Machines /\ Barriers(n) /\ PhaseLinks(n)
    BY <1>1, ReceiptFields DEF Good, Barriers, PhaseLinks
  <1>3. CauseLinks(n) /\ ResultLinks(n) /\ Observed(n)
    BY <1>1, ReceiptFields DEF Good, CauseLinks, ResultLinks, Observed
  <1>4. QED
    BY <1>2, <1>3 DEF Good

--------------------------------------------------------------------------------

\* Every observation and every request keeps a good machine good.
LEMMA NextGood ==
  ASSUME Good(machine), [Next]_machine
  PROVE  Good(machine')
  <1>1. CASE ObserveActivated
    BY <1>1, ActivatedGood DEF ObserveActivated
  <1>2. CASE ObserveWorkloadExit
    BY <1>2, WorkloadExitGood DEF ObserveWorkloadExit
  <1>3. CASE ObserveHostCancel
    BY <1>3, LatchGood DEF ObserveHostCancel
  <1>4. CASE ObserveControllerLost
    BY <1>4, ControllerLostGood DEF ObserveControllerLost
  <1>5. CASE ObserveRuntimeObservationLost
    BY <1>5, RuntimeLostGood DEF ObserveRuntimeObservationLost
  <1>6. CASE ObserveCleanupContainmentLost
    BY <1>6, LatchGood DEF ObserveCleanupContainmentLost
  <1>7. CASE ObserveStartupFailure
    BY <1>7, StartupFailureGood DEF ObserveStartupFailure
  <1>8. CASE ObserveWorkloadOutputsFinalized
    BY <1>8, OutputsFinalizedGood DEF ObserveWorkloadOutputsFinalized
  <1>9. CASE ObserveWorkloadOutputsPublished
    BY <1>9, OutputsPublishedGood DEF ObserveWorkloadOutputsPublished
  <1>10. CASE ObserveWorkloadOutputFinalizationExpired
    BY <1>10, OutputExpiryGood DEF ObserveWorkloadOutputFinalizationExpired
  <1>11. CASE ObserveControllerFinalizationExpired
    BY <1>11, ExpiredGood DEF ObserveControllerFinalizationExpired
  <1>12. CASE ObserveFinished
    BY <1>12, FinishedGood DEF ObserveFinished
  <1>13. CASE ObserveResultDelivered
    BY <1>13, ReceiptGood DEF ObserveResultDelivered
  <1>14. CASE RequestTerminate
    BY <1>14, LatchGood DEF RequestTerminate, TerminateAccepted
  <1>15. CASE RequestComplete
    BY <1>15, CompletedGood DEF RequestComplete
  <1>16. CASE RequestAcknowledgeTerminated
    BY <1>16, ReceiptGood DEF RequestAcknowledgeTerminated, AcknowledgeAccepted
  <1>17. CASE UNCHANGED machine
    BY <1>17
  <1>18. QED
    BY <1>1, <1>2, <1>3, <1>4, <1>5, <1>6, <1>7, <1>8, <1>9, <1>10, <1>11,
       <1>12, <1>13, <1>14, <1>15, <1>16, <1>17
    DEF Next, Observe, ApplyRequest

\* The inductive invariant holds in every reachable state.
THEOREM AlwaysGood == Spec => []Good(machine)
  <1>1. Init => Good(machine)
    BY InitGood
  <1>2. Good(machine) /\ [Next]_machine => Good(machine)'
    BY NextGood
  <1>3. QED
    BY <1>1, <1>2, PTL DEF Spec

\* MachineV1 stays within its declared kinds of state and status.
THEOREM TypeCorrect == Spec => []TypeOK
  <1>1. Good(machine) => TypeOK
    BY DEF Good, TypeOK
  <1>2. QED
    BY <1>1, AlwaysGood, PTL

\* The termination barriers of MachineV1 are taken one at a time, in order, and
\* none is forgotten, for every set of operations granted to the controller.
THEOREM BarriersInOrder == Spec => []BarrierDiscipline
  <1>1. Good(machine) => BarrierDiscipline
    BY DEF Good, BarrierDiscipline
  <1>2. QED
    BY <1>1, AlwaysGood, PTL

\* A drained output status of an activated session is backed by an observed exit.
THEOREM DrainedOutputsObserved == Spec => []DrainedMeansObserved
  <1>1. Good(machine) => DrainedMeansObserved
    BY DEF Good, Observed, DrainedMeansObserved
  <1>2. QED
    BY <1>1, AlwaysGood, PTL

\* A machine with no barrier pending accepts the finish built from its own
\* statuses.
LEMMA GoodFinishable ==
  ASSUME NEW m, Good(m)
  PROVE  Finishable(m)
  <1> SUFFICES ASSUME m.state = "terminating", m.activated, NothingPending(m),
                      NEW outcome \in CleanupOutcomes
               PROVE  FinishAccepted(m, FinishStatus(m, outcome))
    BY DEF Finishable
  <1> DEFINE f == FinishStatus(m, outcome)
  <1>1. /\ m.outputs # None
        /\ m.controller \in {"active", "completed", "lost", "finalization-timeout"}
    BY DEF Good, Machines, Barriers, PhaseLinks, NothingPending
  <1>2. /\ f.outputs = m.outputs
        /\ f.workload = IF m.workload = "unknown" /\ m.runtime = "lost"
                        THEN "unavailable" ELSE m.workload
        /\ f.controller = IF m.controller = "active" THEN "not-completed"
                          ELSE m.controller
    BY <1>1 DEF FinishStatus
  <1> HIDE DEF f
  <1>3. m.workload \in {"unknown", f.workload}
    BY <1>2
  <1>4. ControllerFinishAccepted(m, f.controller)
    BY <1>1, <1>2 DEF ControllerFinishAccepted
  <1>5. ResultConsistent(ResultOf(m, f))
    BY <1>1, <1>2 DEF ResultConsistent, ResultOf, Good, Machines, CauseLinks
  <1>6. FinishAccepted(m, f)
    BY <1>1, <1>2, <1>3, <1>4, <1>5 DEF FinishAccepted
  <1>7. QED
    BY <1>6 DEF f

\* No interleaving of observations and requests leads an activated session to a
\* state where MachineV1 refuses every finish.
THEOREM NeverStuck == Spec => []NoDeadEnd
  <1>1. Good(machine) => NoDeadEnd
    BY GoodFinishable DEF NoDeadEnd
  <1>2. QED
    BY <1>1, AlwaysGood, PTL

\* What the observations and requests make of MachineV1 is sound: its types, its
\* barriers, the observed end behind drained outputs, and a finish it accepts.
THEOREM MachineStaysSound == Spec => []MachineSound
  <1>1. TypeOK /\ BarrierDiscipline /\ DrainedMeansObserved /\ NoDeadEnd => MachineSound
    BY DEF MachineSound
  <1>2. QED
    BY <1>1, TypeCorrect, BarriersInOrder, DrainedOutputsObserved, NeverStuck, PTL

--------------------------------------------------------------------------------
(* What one step may do, as relations between the machine before and after.   *)

\* The fields the contract of a session is about, changed the way it allows.
ContractStep(m, n) ==
  \/ /\ n.state = m.state /\ n.cause = m.cause /\ n.result = m.result
     /\ n.delivered = m.delivered /\ n.acknowledged = m.acknowledged
  \/ /\ m.state = "preparing" /\ n.state = "active"
     /\ n.cause = m.cause /\ n.result = m.result
     /\ n.delivered = m.delivered /\ n.acknowledged = m.acknowledged
  \/ /\ m.state \in {"preparing", "active"} /\ n.state = "terminating"
     /\ n.cause \in Causes /\ n.result = m.result
     /\ n.delivered = m.delivered /\ n.acknowledged = m.acknowledged
  \/ /\ m.state = "terminating" /\ n.state = "terminated"
     /\ n.cause = m.cause /\ n.result.cause = m.cause
     /\ n.delivered = m.delivered /\ n.acknowledged = m.acknowledged
  \/ /\ m.state = "terminated" /\ n.state = m.state /\ n.cause = m.cause /\ n.result = m.result
     /\ n.delivered /\ n.acknowledged = m.acknowledged
  \/ /\ m.state = "terminated" /\ n.state = m.state /\ n.cause = m.cause /\ n.result = m.result
     /\ n.delivered = m.delivered /\ m.delivered /\ n.acknowledged

\* A verdict on the controller stays, and completion comes after publication.
VerdictStep(m, n) ==
  /\ m.controller \in ControllerVerdicts => n.controller = m.controller
  /\ n.controller = "completed" /\ m.controller # "completed" =>
       m.outputs # None /\ ~m.waitingOutputs /\ ~m.waitingPublication

Sanctioned(m, n) == ContractStep(m, n) /\ VerdictStep(m, n)

\* Latching a cause on a machine that differs from m in other fields only.
LEMMA LatchSanctioned ==
  ASSUME NEW m, Good(m), NEW n \in Machines, NEW c \in Causes, m.state # "terminated",
         n.state = m.state, n.cause = m.cause, n.result = m.result,
         n.delivered = m.delivered, n.acknowledged = m.acknowledged, VerdictStep(m, n)
  PROVE  Sanctioned(m, LatchLocked(n, c))
  BY LatchFields DEF Good, Machines, PhaseLinks, ContractStep, VerdictStep, Sanctioned

LEMMA LatchOnlySanctioned ==
  ASSUME NEW m, Good(m), NEW c \in Causes, m.state # "terminated"
  PROVE  Sanctioned(m, LatchLocked(m, c))
  BY LatchSanctioned DEF Good, VerdictStep

LEMMA WorkloadExitSanctioned ==
  ASSUME NEW m, Good(m), NEW s \in ExitStatuses, WorkloadExitAccepted(m, s)
  PROVE  Sanctioned(m, WorkloadExit(m, s))
  <1> DEFINE n == [m EXCEPT !.workload = s]
  <1>1. /\ n \in Machines /\ n.state = m.state /\ n.cause = m.cause /\ n.result = m.result
        /\ n.delivered = m.delivered /\ n.acknowledged = m.acknowledged
        /\ n.controller = m.controller
    BY DEF Good, Machines
  <1>2. m.state # "terminated"
    BY DEF WorkloadExitAccepted
  <1> HIDE DEF n
  <1>3. Sanctioned(m, n) /\ Sanctioned(m, LatchLocked(n, "workload-exit"))
    BY <1>1, <1>2, LatchSanctioned DEF Sanctioned, ContractStep, VerdictStep
  <1>4. QED
    BY <1>3 DEF WorkloadExit, n

LEMMA ControllerLostSanctioned ==
  ASSUME NEW m, Good(m), m.state # "terminated"
  PROVE  Sanctioned(m, ControllerLost(m))
  <1> DEFINE n == [m EXCEPT !.controller = LostVerdict(m),
                            !.waitingFinalize = FALSE,
                            !.waitingPublication = FALSE]
  <1>0. LostVerdict(m) \in ControllerStatuses
    BY DEF Good, Machines, LostVerdict
  <1>1. /\ n \in Machines /\ n.state = m.state /\ n.cause = m.cause /\ n.result = m.result
        /\ n.delivered = m.delivered /\ n.acknowledged = m.acknowledged
        /\ n.controller = LostVerdict(m)
    BY <1>0 DEF Good, Machines
  <1> HIDE DEF n
  <1>2. Sanctioned(m, LatchLocked(n, "controller-lost"))
    BY <1>1, LatchSanctioned DEF LostVerdict, VerdictStep
  <1>3. QED
    BY <1>2 DEF ControllerLost, n

\* Finalizing outputs touches none of the fields of Sanctioned.
LEMMA CompleteSanctioned ==
  ASSUME NEW m, NEW n \in Machines, NEW s \in OutputStatuses, Sanctioned(m, n)
  PROVE  Sanctioned(m, CompleteOutputFinalization(n, s))
  BY CompleteFields DEF Sanctioned, ContractStep, VerdictStep

LEMMA RuntimeLostSanctioned ==
  ASSUME NEW m, Good(m), m.state # "terminated"
  PROVE  Sanctioned(m, RuntimeObservationLost(m))
  <1> DEFINE n == [m EXCEPT !.runtime = "lost"]
             l == LatchLocked(n, "runtime-observation-lost")
  <1>1. /\ n \in Machines /\ n.state = m.state /\ n.cause = m.cause /\ n.result = m.result
        /\ n.delivered = m.delivered /\ n.acknowledged = m.acknowledged
        /\ n.controller = m.controller
    BY DEF Good, Machines
  <1>2. RuntimeObservationLost(m) \in {l, CompleteOutputFinalization(l, "failed")}
    BY DEF RuntimeObservationLost, FinalizePreActivationOutputs
  <1> HIDE DEF n
  <1>3. l \in Machines /\ Sanctioned(m, l)
    BY <1>1, LatchSanctioned, LatchFields DEF VerdictStep
  <1> HIDE DEF l
  <1>4. QED
    BY <1>2, <1>3, CompleteSanctioned

LEMMA StartupFailureSanctioned ==
  ASSUME NEW m, Good(m), m.state # "terminated",
         NEW pending \in BOOLEAN, NEW s \in OutputStatuses,
         StartupFailureAccepted(m, pending, s)
  PROVE  Sanctioned(m, StartupFailure(m, pending, s))
  <1> DEFINE n == [m EXCEPT !.controller = "startup-failed"]
             l == LatchLocked(n, "startup-failure")
             p == [l EXCEPT !.outputs = None, !.waitingOutputs = TRUE]
  <1>1. /\ n \in Machines /\ n.state = m.state /\ n.cause = m.cause /\ n.result = m.result
        /\ n.delivered = m.delivered /\ n.acknowledged = m.acknowledged
        /\ n.controller = "startup-failed"
    BY DEF Good, Machines
  <1>2. StartupFailure(m, pending, s) \in {l, CompleteOutputFinalization(l, s), p}
    BY DEF StartupFailure
  <1> HIDE DEF n
  <1>3. l \in Machines /\ Sanctioned(m, l)
    BY <1>1, LatchSanctioned, LatchFields DEF VerdictStep, StartupFailureAccepted
  <1> HIDE DEF l
  <1>4. /\ p.state = l.state /\ p.cause = l.cause /\ p.result = l.result
        /\ p.delivered = l.delivered /\ p.acknowledged = l.acknowledged
        /\ p.controller = l.controller
    BY <1>3 DEF Machines
  <1> HIDE DEF p
  <1>5. Sanctioned(m, p)
    BY <1>3, <1>4 DEF Sanctioned, ContractStep, VerdictStep
  <1>6. QED
    BY <1>2, <1>3, <1>5, CompleteSanctioned

\* The remaining handlers set a few fields each.
LEMMA SmallStepsSanctioned ==
  ASSUME NEW m, Good(m)
  PROVE  /\ m.state = "preparing" => Sanctioned(m, Activated(m))
         /\ Sanctioned(m, OutputsPublished(m))
         /\ m.waitingFinalize => Sanctioned(m, ControllerFinalizationExpired(m))
         /\ CompleteAccepted(m) => Sanctioned(m, Completed(m))
  <1>0. m \in Machines
    BY DEF Good
  <1>1. ASSUME m.state = "preparing" PROVE Sanctioned(m, Activated(m))
    BY <1>0, <1>1 DEF Good, PhaseLinks, Activated, Machines, Sanctioned, ContractStep, VerdictStep
  <1>2. Sanctioned(m, OutputsPublished(m))
    BY <1>0 DEF OutputsPublished, Machines, Sanctioned, ContractStep, VerdictStep
  <1>3. ASSUME m.waitingFinalize PROVE Sanctioned(m, ControllerFinalizationExpired(m))
    BY <1>0, <1>3 DEF Good, Barriers, ControllerFinalizationExpired, Machines, Sanctioned, ContractStep,
                      VerdictStep
  <1>4. ASSUME CompleteAccepted(m) PROVE Sanctioned(m, Completed(m))
    BY <1>0, <1>4 DEF Good, Barriers, CompleteAccepted, Completed, Machines, Sanctioned, ContractStep, VerdictStep
  <1>5. QED
    BY <1>1, <1>2, <1>3, <1>4

LEMMA FinishedSanctioned ==
  ASSUME NEW m, Good(m), NEW f \in Finishes, FinishAccepted(m, f)
  PROVE  Sanctioned(m, Finished(m, f))
  <1> DEFINE r == ResultOf(m, f)
             n == Finished(m, f)
  <1>0. m \in Machines /\ m.state = "terminating"
    BY DEF Good, FinishAccepted
  <1>1. r.cause = m.cause
    BY DEF ResultOf
  <1>2. /\ n.state = "terminated" /\ n.cause = m.cause /\ n.result = r
        /\ n.delivered = m.delivered /\ n.acknowledged = m.acknowledged
        /\ n.controller = f.controller
    BY <1>0 DEF Finished, Machines
  <1>3. ControllerFinishAccepted(m, f.controller)
    BY DEF FinishAccepted
  <1> HIDE DEF r, n
  <1>4. Sanctioned(m, n)
    BY <1>0, <1>1, <1>2, <1>3 DEF ControllerFinishAccepted, Sanctioned, ContractStep, VerdictStep
  <1>5. QED
    BY <1>4 DEF n

LEMMA ReceiptSanctioned ==
  ASSUME NEW m, Good(m), NEW n, m.state = "terminated",
         \/ n = [m EXCEPT !.delivered = TRUE]
         \/ n = [m EXCEPT !.acknowledged = TRUE] /\ m.delivered
  PROVE  Sanctioned(m, n)
  BY DEF Good, Machines, Sanctioned, ContractStep, VerdictStep

\* Every step of the machine is one of those.
LEMMA NextSanctioned ==
  ASSUME Good(machine), [Next]_machine
  PROVE  Sanctioned(machine, machine')
  <1>1. CASE ObserveActivated
    BY <1>1, SmallStepsSanctioned DEF ObserveActivated
  <1>2. CASE ObserveWorkloadExit
    BY <1>2, WorkloadExitSanctioned DEF ObserveWorkloadExit
  <1>3. CASE ObserveHostCancel \/ ObserveCleanupContainmentLost \/ RequestTerminate
    BY <1>3, LatchOnlySanctioned
    DEF ObserveHostCancel, ObserveCleanupContainmentLost, RequestTerminate, TerminateAccepted
  <1>4. CASE ObserveControllerLost
    BY <1>4, ControllerLostSanctioned DEF ObserveControllerLost
  <1>5. CASE ObserveRuntimeObservationLost
    BY <1>5, RuntimeLostSanctioned DEF ObserveRuntimeObservationLost
  <1>6. CASE ObserveStartupFailure
    BY <1>6, StartupFailureSanctioned DEF ObserveStartupFailure
  <1>7. CASE ObserveWorkloadOutputsFinalized \/ ObserveWorkloadOutputFinalizationExpired
    <2>1. machine \in Machines /\ Sanctioned(machine, machine)
      BY DEF Good, Sanctioned, ContractStep, VerdictStep
    <2>2. QED
      BY <1>7, <2>1, CompleteSanctioned
      DEF ObserveWorkloadOutputsFinalized, ObserveWorkloadOutputFinalizationExpired
  <1>8. CASE ObserveWorkloadOutputsPublished
    BY <1>8, SmallStepsSanctioned DEF ObserveWorkloadOutputsPublished
  <1>9. CASE ObserveControllerFinalizationExpired
    BY <1>9, SmallStepsSanctioned DEF ObserveControllerFinalizationExpired
  <1>10. CASE ObserveFinished
    BY <1>10, FinishedSanctioned DEF ObserveFinished
  <1>11. CASE ObserveResultDelivered \/ RequestAcknowledgeTerminated
    BY <1>11, ReceiptSanctioned DEF ObserveResultDelivered, RequestAcknowledgeTerminated, AcknowledgeAccepted
  <1>12. CASE RequestComplete
    BY <1>12, SmallStepsSanctioned DEF RequestComplete
  <1>13. CASE UNCHANGED machine
    BY <1>13 DEF Sanctioned, ContractStep, VerdictStep
  <1>14. QED
    BY <1>1, <1>2, <1>3, <1>4, <1>5, <1>6, <1>7, <1>8, <1>9, <1>10, <1>11, <1>12, <1>13
    DEF Next, Observe, ApplyRequest

\* A controller is credited with completion only after the final outputs were
\* published to it, and no later observation, the finish included, changes the
\* verdict on it.
THEOREM VerdictsAreEarned == Spec => VerdictsEarned
  <1>1. Good(machine) /\ [Next]_machine => VerdictStep(machine, machine')
    BY NextSanctioned DEF Sanctioned
  <1>2. VerdictStep(machine, machine') =>
          /\ machine'.controller = "completed" /\ machine.controller # "completed" =>
               machine.outputs # None /\ ~machine.waitingOutputs /\ ~machine.waitingPublication
          /\ machine.controller \in ControllerVerdicts => machine'.controller = machine.controller
    BY DEF VerdictStep
  <1>3. QED
    BY <1>1, <1>2, AlwaysGood, PTL
    DEF Spec, VerdictsEarned, CompletionOnlyAfterPublication, ControllerVerdictStable

\* MachineV1 implements the contract of a session: one cause, one verdict that
\* names it, and an acknowledgement only of a delivered result.
THEOREM MachineKeepsContract == Spec => ImplementsContract
  <1>1. Init => Contract!Init
    BY DEF Init, NewMachine, NoResult, Contract!Init
  <1>2. ASSUME Good(machine), Good(machine'), [Next]_machine
        PROVE  [Contract!Next]_(Contract!contractVars)
    <2>1. ContractStep(machine, machine')
      BY <1>2, NextSanctioned DEF Sanctioned
    <2>2. ResultLinks(machine) /\ ResultLinks(machine') /\ machine \in Machines /\ machine' \in Machines
      BY <1>2 DEF Good
    <2>3. NoResult.cause = None
      BY DEF NoResult
    <2>. QED
      BY <2>1, <2>2, <2>3
      DEF ContractStep, ResultLinks, Machines, Contract!Next, Contract!Activate, Contract!Terminate,
          Contract!Publish, Contract!Deliver, Contract!Acknowledge, Contract!contractVars
  <1>3. Good(machine) /\ [Next]_machine => [Contract!Next]_(Contract!contractVars)
    BY <1>2, NextGood
  <1>4. QED
    BY <1>1, <1>3, AlwaysGood, PTL DEF Spec, ImplementsContract, Contract!Spec

-----------------------------------------------------------------------------
(* The supervisor                                                          *)

USE DEF None, States, Causes, WorkloadStatuses, OutputStatuses, RuntimeStatuses,
        ControllerVerdicts, ControllerStatuses, CleanupOutcomes

\* The locations of the run thread, by what it has behind it.
Preparing == {"prepare", "activate"}
Running == {"ready", "wait", "select"}
Stopping == {"terminating", "stop", "finalize", "record-output"}
Publishing == {"publish", "record-publication"}
Completing == {"await-completion", "select-completion"}
Ending == {"cleanup", "finish"}
Delivering == {"deliver", "record-delivery", "await-acknowledgement", "tail", "returned"}

\* Where the machine is when the run thread is at a location.
PhaseFits ==
  /\ pc \in Preparing => machine.state = "preparing"
  /\ pc = "startup-failed" =>
       /\ machine.state \in {"preparing", "terminating"}
       /\ machine.controller = "unknown" /\ ~machine.waitingOutputs
  /\ pc = "ready" => machine.state = "active"
  /\ pc \in {"wait", "select"} => machine.state \in {"active", "terminating"}
  /\ pc \in Stopping \cup Publishing \cup Completing \cup Ending => machine.state = "terminating"
  /\ pc \in Delivering => machine.state = "terminated"
  /\ pc \in Running \cup Stopping => machine.outputs = None
  /\ pc \in Publishing \cup Completing \cup Ending => machine.outputs # None
  /\ pc \in Completing \cup Ending => ~machine.waitingPublication
  /\ pc \in Ending => ~machine.waitingFinalize

\* A session that failed to start was never activated; any other was.
StartFits ==
  /\ started => bridge
  /\ pc \in Stopping \cup Publishing \cup {"activate"} => started
  /\ startupFailed =>
       /\ pc \notin Preparing \cup Running \cup Completing
       /\ ~machine.activated /\ machine.cause \in {None, "host-cancel", "startup-failure"}
  /\ ~startupFailed /\ pc \notin Preparing =>
       pc # "startup-failed" /\ machine.activated /\ started
  /\ ready => machine.activated
  /\ pc \in Preparing \cup {"startup-failed", "ready"} =>
       healthy /\ ~ready /\ sending = None /\ sent = <<>> /\ exitSeen = None

\* What the supervisor has seen of the workload, and of its controller.
SeenFits ==
  /\ exitSeen = None /\ machine.state # "terminated" => machine.workload = "unknown"
  /\ exitSeen = "status" => machine.workload # "unknown"
  /\ exitSeen = "error" => machine.runtime = "lost"
  /\ pc \in {"finalize", "record-output"} => exitSeen # None
  /\ ~healthy \/ machine.state = "terminated" => machine.controller # "active"

\* Which event is written at which location.
SendFits ==
  /\ sending # None => healthy /\ bridge
  /\ sending = "ready" => pc = "wait" /\ sent = <<>> /\ ~ready
  /\ sending = "workload-exit" => pc \in {"wait", "finalize"} /\ exitSeen = "status"
  /\ sending = "terminating" => pc = "stop"
  /\ sending = "diagnostic" => pc \in {"wait", "await-completion", "cleanup", "finish"} /\ watchdogSeen
  /\ sending = "outputs-finalized" => pc = "record-publication"
  /\ sending = "terminated" => pc = "record-delivery"
  /\ pc = "publish" => healthy

\* The events the controller has been sent, and when.
Told == {sent[i] : i \in 1..Len(sent)}

SentFits ==
  /\ "ready" \in Told => ready
  /\ "terminating" \in Told =>
       pc \notin Running \cup {"terminating"} /\ sending # "terminating"
  /\ "workload-exit" \in Told => exitSeen = "status" /\ sending # "workload-exit"
  /\ "diagnostic" \in Told => watchdogSeen /\ sending # "diagnostic"
  /\ "outputs-finalized" \in Told =>
       /\ pc \in {"record-publication"} \cup Completing \cup Ending \cup Delivering
       /\ sending # "outputs-finalized"
  /\ "terminated" \in Told => pc \in Delivering \ {"deliver"} /\ sending = None
  /\ healthy /\ pc \in (Stopping \ {"terminating"}) \cup Publishing /\ sending # "terminating" =>
       "terminating" \in Told
  /\ healthy /\ machine.activated /\ sending # "outputs-finalized"
       /\ pc \in {"record-publication", "deliver", "record-delivery"} \cup Completing \cup Ending =>
       "outputs-finalized" \in Told

\* A request other than an acknowledgement was let in by the readiness mutex.
RequestFits == handler[1] \in {"gated", "apply", "write"} /\ handler[2] # "acknowledge" => ready

SupervisorInv ==
  /\ SupervisorTypeOK
  /\ Good(machine)
  /\ PhaseFits
  /\ StartFits
  /\ SeenFits
  /\ SendFits
  /\ RequestFits

EventsInv == SentFits /\ EventsInOrder
-----------------------------------------------------------------------------
(* What an observation of the run thread does to a machine that is running or *)
(* terminating.                                                               *)

Observes(m, n) ==
  /\ Good(n)
  /\ n.state = "terminating" /\ n.activated = m.activated /\ n.outputs = m.outputs
  /\ m.cause # None => n.cause = m.cause
  /\ n.waitingPublication => m.waitingPublication
  /\ n.waitingFinalize => m.waitingFinalize
  /\ m.runtime = "lost" => n.runtime = "lost"
  /\ m.controller # "active" => n.controller # "active"

Underway(m) ==
  /\ Good(m)
  /\ m.state \in {"active", "terminating"}
  /\ m.activated \/ m.cause \in {"host-cancel", "startup-failure"}

\* A cause latched while the session is under way.
LEMMA LatchObserves ==
  ASSUME NEW m, Underway(m), NEW c \in {"host-cancel", "cleanup-containment-lost", "controller-terminate"}
  PROVE  LET n == LatchLocked(m, c) IN
         Observes(m, n) /\ n.workload = m.workload /\ n.controller = m.controller /\ n.runtime = m.runtime
  <1>1. Good(LatchLocked(m, c)) /\ m \in Machines
    BY LatchGood DEF Underway, Good
  <1>2. QED
    BY <1>1, LatchFields DEF Underway, Good, PhaseLinks, Observes

\* observeControllerLoss while the session is under way.
LEMMA LossObserves ==
  ASSUME NEW m, Underway(m)
  PROVE  LET n == ObserveLoss(m) IN
         Observes(m, n) /\ n.workload = m.workload /\ n.controller # "active" /\ n.runtime = m.runtime
  <1>1. CASE m.controller = "lost"
    BY <1>1 DEF ObserveLoss, Underway, Observes, Good, PhaseLinks
  <1>2. CASE m.controller # "lost"
    <2> DEFINE k == [m EXCEPT !.controller = LostVerdict(m),
                              !.waitingFinalize = FALSE,
                              !.waitingPublication = FALSE]
    <2>1. m \in Machines /\ Good(ControllerLost(m)) /\ ObserveLoss(m) = ControllerLost(m)
      BY <1>2, ControllerLostGood DEF Underway, Good, ObserveLoss
    <2>2. LostVerdict(m) \in ControllerStatuses /\ LostVerdict(m) # "active"
      BY <2>1 DEF Machines, LostVerdict
    <2>3. /\ k \in Machines /\ k.controller = LostVerdict(m)
          /\ k.state = m.state /\ k.activated = m.activated /\ k.cause = m.cause
          /\ k.outputs = m.outputs /\ k.workload = m.workload /\ k.runtime = m.runtime
          /\ ~k.waitingPublication /\ ~k.waitingFinalize
      BY <2>1, <2>2 DEF Machines
    <2>4. ControllerLost(m) = LatchLocked(k, "controller-lost")
      BY DEF ControllerLost
    <2> HIDE DEF k
    <2>5. QED
      BY <2>1, <2>2, <2>3, <2>4, LatchFields DEF Underway, Good, PhaseLinks, Observes
  <1>3. QED
    BY <1>1, <1>2

\* The loss of the runtime observation while the session is under way.
LEMMA RuntimeLostObserves ==
  ASSUME NEW m, Underway(m)
  PROVE  LET n == RuntimeObservationLost(m) IN
         Observes(m, n) /\ n.workload = m.workload /\ n.controller = m.controller /\ n.runtime = "lost"
  <1> DEFINE k == [m EXCEPT !.runtime = "lost"]
             l == LatchLocked(k, "runtime-observation-lost")
  <1>1. m \in Machines /\ Good(RuntimeObservationLost(m))
    BY RuntimeLostGood DEF Underway, Good
  <1>2. /\ k \in Machines /\ k.runtime = "lost"
        /\ k.state = m.state /\ k.activated = m.activated /\ k.cause = m.cause
        /\ k.outputs = m.outputs /\ k.workload = m.workload /\ k.controller = m.controller
        /\ k.waitingPublication = m.waitingPublication
        /\ k.waitingFinalize = m.waitingFinalize
    BY <1>1 DEF Machines
  <1>3. RuntimeObservationLost(m) = FinalizePreActivationOutputs(l)
    BY DEF RuntimeObservationLost
  <1> HIDE DEF k
  <1>4. /\ l.state = "terminating" /\ l.activated = m.activated /\ l.outputs = m.outputs
        /\ m.cause # None => l.cause = m.cause
        /\ l.workload = m.workload /\ l.controller = m.controller /\ l.runtime = "lost"
        /\ l.waitingPublication = m.waitingPublication
        /\ l.waitingFinalize = m.waitingFinalize
    BY <1>2, LatchFields DEF Underway, Good, PhaseLinks
  <1> HIDE DEF l
  <1>5. FinalizePreActivationOutputs(l) = l
    BY <1>4 DEF FinalizePreActivationOutputs, Underway
  <1>6. QED
    BY <1>1, <1>3, <1>4, <1>5 DEF Observes

\* An accepted exit of the workload while the session is under way.
LEMMA ExitObserves ==
  ASSUME NEW m, Underway(m), NEW s \in ExitStatuses, WorkloadExitAccepted(m, s)
  PROVE  LET n == WorkloadExit(m, s) IN
         Observes(m, n) /\ n.workload = s /\ n.controller = m.controller /\ n.runtime = m.runtime
  <1> DEFINE k == [m EXCEPT !.workload = s]
  <1>1. m \in Machines /\ Good(WorkloadExit(m, s))
    BY WorkloadExitGood DEF Underway, Good
  <1>2. /\ k \in Machines /\ k.workload = s
        /\ k.state = m.state /\ k.activated = m.activated /\ k.cause = m.cause
        /\ k.outputs = m.outputs /\ k.controller = m.controller /\ k.runtime = m.runtime
        /\ k.waitingPublication = m.waitingPublication
        /\ k.waitingFinalize = m.waitingFinalize
    BY <1>1 DEF Machines
  <1>3. WorkloadExit(m, s) = IF m.state = "active" THEN LatchLocked(k, "workload-exit") ELSE k
    BY DEF WorkloadExit
  <1> HIDE DEF k
  <1>4. QED
    BY <1>1, <1>2, <1>3, LatchFields DEF Underway, Good, PhaseLinks, Observes

\* The pump's end, as far as it is observed.
LEMMA OutputObserves ==
  ASSUME NEW m, Underway(m), m.state = "terminating", NEW end
  PROVE  LET n == ObserveOutput(m, end) IN
         /\ Observes(m, n) /\ n.workload = m.workload
         /\ end = "delivery-failed" => n.controller # "active"
  BY LossObserves, RuntimeLostObserves DEF ObserveOutput, Underway, Observes

\* The startup failure of a machine that was never activated.
LEMMA StartupEffect ==
  ASSUME NEW m, Good(m), m.state \in {"preparing", "terminating"}, m.controller = "unknown",
         ~m.activated, ~m.waitingOutputs, m.cause \in {None, "host-cancel"},
         NEW pending \in BOOLEAN, NEW s \in OutputStatuses, StartupFailureAccepted(m, pending, s)
  PROVE  LET n == StartupFailure(m, pending, s) IN
         /\ Good(n) /\ n.state = "terminating" /\ n.controller = "startup-failed"
         /\ ~n.activated /\ n.cause \in {"host-cancel", "startup-failure"}
         /\ n.workload = m.workload
         /\ n.outputs = None <=> pending
  <1> DEFINE k == [m EXCEPT !.controller = "startup-failed"]
             l == LatchLocked(k, "startup-failure")
             p == [l EXCEPT !.outputs = None, !.waitingOutputs = TRUE]
  <1>1. m \in Machines /\ Good(StartupFailure(m, pending, s))
    BY StartupFailureGood DEF Good
  <1>2. /\ k \in Machines /\ k.controller = "startup-failed"
        /\ k.state = m.state /\ k.activated = m.activated /\ k.cause = m.cause
        /\ k.outputs = m.outputs /\ k.workload = m.workload
    BY <1>1 DEF Machines
  <1>3. StartupFailure(m, pending, s) = IF pending THEN p ELSE IF s # None THEN CompleteOutputFinalization(l, s) ELSE l
    BY DEF StartupFailure
  <1>4. m.state = "terminating" => m.outputs # None
    BY DEF Good, Barriers
  <1> HIDE DEF k
  <1>5. /\ l \in Machines /\ l.state = "terminating" /\ l.controller = "startup-failed" /\ ~l.activated
        /\ l.cause \in {"host-cancel", "startup-failure"} /\ l.workload = m.workload /\ l.outputs # None
    BY <1>1, <1>2, <1>4, LatchFields DEF Good, PhaseLinks
  <1> HIDE DEF l
  <1>6. /\ p.state = l.state /\ p.controller = l.controller /\ p.activated = l.activated
        /\ p.cause = l.cause /\ p.workload = l.workload /\ p.outputs = None
    BY <1>5 DEF Machines
  <1> HIDE DEF p
  <1>7. QED
    BY <1>1, <1>3, <1>5, <1>6, CompleteFields

\* The finish the supervisor asks for is one the machine accepts.
LEMMA FinishIsAccepted ==
  ASSUME NEW m, Underway(m), m.state = "terminating", m.outputs # None, NothingPending(m),
         NEW c \in CleanupOutcomes
  PROVE  LET f == FinishStatus(m, c)
             n == Finished(m, f)
         IN  /\ f \in Finishes /\ FinishAccepted(m, f)
             /\ Good(n) /\ n.state = "terminated" /\ n.activated = m.activated /\ n.cause = m.cause
             /\ n.controller # "active" /\ n.runtime = m.runtime
             /\ m.workload # "unknown" => n.workload = m.workload
  <1> DEFINE f == FinishStatus(m, c)
             r == ResultOf(m, f)
             n == Finished(m, f)
  <1>0. m \in Machines
    BY DEF Underway, Good
  <1>1. /\ f.outputs = m.outputs /\ f.cleanup = c
        /\ f.workload = IF m.workload = "unknown" /\ m.runtime = "lost" THEN "unavailable" ELSE m.workload
        /\ f.controller = IF m.controller \in {"active", "unknown"} THEN "not-completed" ELSE m.controller
    BY DEF FinishStatus
  <1>2. m.controller \in {"active", "unknown"} \cup ControllerVerdicts
    BY <1>0 DEF Underway, Good, PhaseLinks, Machines
  <1>3. f \in Finishes
    BY <1>0, <1>2, ExitStatusesAssumption DEF FinishStatus, Finishes, Machines
  <1> HIDE DEF f
  <1>4. /\ r.cause = m.cause /\ r.workload = f.workload /\ r.outputs = f.outputs
        /\ r.runtime = m.runtime /\ r.controller = f.controller
    BY DEF ResultOf
  <1> HIDE DEF r
  <1>5. ResultConsistent(r)
    BY <1>0, <1>1, <1>2, <1>4 DEF ResultConsistent, Underway, Good, CauseLinks, Machines
  <1>6. FinishAccepted(m, f)
    BY <1>1, <1>2, <1>5 DEF FinishAccepted, ControllerFinishAccepted, r
  <1>7. Good(n)
    BY <1>3, <1>6, FinishedGood DEF Underway
  <1>8. /\ n.state = "terminated" /\ n.activated = m.activated /\ n.cause = m.cause
        /\ n.controller = f.controller /\ n.runtime = m.runtime /\ n.workload = f.workload
    BY <1>0 DEF Finished, Machines
  <1> HIDE DEF n
  <1>9. QED
    BY <1>1, <1>2, <1>3, <1>6, <1>7, <1>8 DEF f, n

-----------------------------------------------------------------------------
(* The steps of the run thread, of the request goroutine and of the world.   *)

Fits == PhaseFits /\ StartFits /\ SeenFits /\ SendFits /\ RequestFits

USE DEF Preparing, Running, Stopping, Publishing, Completing, Ending, Delivering, Events

\* What an observation under way leaves of the fits, at the location it is made.
LEMMA UnderwayNow ==
  ASSUME SupervisorInv, machine.state \in {"active", "terminating"}, pc # "startup-failed"
  PROVE  Underway(machine)
  BY DEF SupervisorInv, Underway, StartFits, PhaseFits, Good, PhaseLinks, CauseLinks

\* What recording a startup failure makes of the machine.
LEMMA StartupRecorded ==
  ASSUME SupervisorInv, RecordStartupFailure
  PROVE  /\ [Next]_machine /\ startupFailed
         /\ Good(machine') /\ machine'.state = "terminating" /\ machine'.controller = "startup-failed"
         /\ ~machine'.activated /\ machine'.cause \in {"host-cancel", "startup-failure"}
         /\ machine'.workload = machine.workload
         /\ machine'.outputs = None <=> started
         /\ ~machine'.waitingPublication /\ ~machine'.waitingFinalize
  <1> USE DEF SupervisorInv, PhaseFits, StartFits, At
  <1>1. PICK finalized \in IF bridge /\ ~started
                           THEN {OutputStatus(machine, end) : end \in {output, "timed-out"}}
                           ELSE {None} :
               machine' = IF StartupFailureAccepted(machine, started, finalized)
                          THEN StartupFailure(machine, started, finalized) ELSE machine
    BY DEF RecordStartupFailure
  <1>2. finalized \in OutputStatuses /\ started \in BOOLEAN
    BY <1>1 DEF OutputStatus, SupervisorTypeOK
  <1>3. StartupFailureAccepted(machine, started, finalized)
    BY <1>1 DEF RecordStartupFailure, StartupFailureAccepted
  <1>4. machine' = StartupFailure(machine, started, finalized)
    BY <1>1, <1>3
  <1>5. [Next]_machine
    BY <1>2, <1>3, <1>4 DEF RecordStartupFailure, Next, Observe, ObserveStartupFailure
  <1>6. machine.cause \in {None, "host-cancel"} /\ startupFailed
    BY DEF RecordStartupFailure, Good, CauseLinks
  <1>7. /\ Good(machine') /\ machine'.state = "terminating" /\ machine'.controller = "startup-failed"
        /\ ~machine'.activated /\ machine'.cause \in {"host-cancel", "startup-failure"}
        /\ machine'.workload = machine.workload
        /\ machine'.outputs = None <=> started
    BY <1>2, <1>3, <1>4, <1>6, StartupEffect DEF RecordStartupFailure
  <1>8. ~machine'.waitingPublication /\ ~machine'.waitingFinalize
    BY <1>7 DEF Good, Barriers
  <1>9. QED
    BY <1>5, <1>6, <1>7, <1>8

\* The steps of startup.
LEMMA StartupSteps ==
  ASSUME SupervisorInv,
         StartBridge \/ StartWorkload \/ PrepareSucceeds \/ PrepareFails
         \/ Activate \/ SendReady \/ RecordStartupFailure
  PROVE  Fits' /\ [Next]_machine
  <1> USE DEF SupervisorInv, Fits, PhaseFits, StartFits, SeenFits, SendFits, RequestFits, At, restVars,
              startupVars, seenVars, outcomeVars, worldVars, channelVars, handlerVars, processVars
  <1>1. CASE StartBridge
    BY <1>1 DEF StartBridge
  <1>2. CASE StartWorkload
    BY <1>2 DEF StartWorkload
  <1>3. CASE PrepareSucceeds
    BY <1>3 DEF PrepareSucceeds
  <1>4. CASE PrepareFails
    <2>1. CASE ~canceled
      BY <1>4, <2>1 DEF PrepareFails, Good, PhaseLinks, Barriers
    <2>2. CASE canceled
      <3>1. [Next]_machine
        BY <1>4, <2>2 DEF PrepareFails, Next, Observe, ObserveHostCancel
      <3>2. /\ machine'.state = "terminating" /\ machine'.cause = "host-cancel"
            /\ machine'.controller = "unknown" /\ ~machine'.waitingOutputs
            /\ ~machine'.activated /\ machine'.workload = machine.workload
        BY <1>4, <2>2, LatchFields DEF PrepareFails, Good, PhaseLinks, Barriers
      <3>3. QED
        BY <1>4, <3>1, <3>2 DEF PrepareFails
    <2>3. QED
      BY <2>1, <2>2
  <1>5. CASE Activate
    <2>1. [Next]_machine
      BY <1>5 DEF Activate, Next, Observe, ObserveActivated
    <2>2. /\ machine'.state = "active" /\ machine'.activated /\ machine'.outputs = None
          /\ machine'.controller = "active" /\ machine'.workload = "unknown"
      BY <1>5 DEF Activate, Activated, Good, PhaseLinks, Machines
    <2>3. QED
      BY <1>5, <2>1, <2>2 DEF Activate
  <1>6. CASE SendReady
    BY <1>6 DEF SendReady, Good, PhaseLinks
  <1>7. CASE RecordStartupFailure
    BY <1>7, StartupRecorded DEF RecordStartupFailure
  <1>8. QED
    BY <1>1, <1>2, <1>3, <1>4, <1>5, <1>6, <1>7

\* The end of a write, either way.
LEMMA SendSteps ==
  ASSUME SupervisorInv, SendSucceeds \/ SendFails \/ SendExpires
  PROVE  Fits' /\ [Next]_machine
  <1> USE DEF SupervisorInv, Fits, PhaseFits, StartFits, SeenFits, SendFits, RequestFits, restVars,
              startupVars, seenVars, outcomeVars, worldVars, channelVars, handlerVars, processVars
  <1>0. pc \in {"wait", "stop", "finalize", "record-publication", "await-completion", "cleanup",
                "finish", "record-delivery"}
    BY DEF SendSucceeds, SendFails, SendExpires, SupervisorTypeOK, PreFinalizationEvents
  <1>1. CASE SendSucceeds
    BY <1>0, <1>1 DEF SendSucceeds, SupervisorTypeOK
  <1>2. CASE SendFails \/ SendExpires
    <2>1. CASE machine.state = "terminated"
      BY <1>0, <1>2, <2>1 DEF SendFails, SendExpires, ObserveLoss
    <2>2. CASE machine.state # "terminated"
      <3>1. Underway(machine) /\ machine' = ObserveLoss(machine)
        BY <1>0, <1>2, <2>2, UnderwayNow DEF SendFails, SendExpires, Good, Machines
      <3>2. [Next]_machine
        BY <2>2, <3>1 DEF ObserveLoss, Next, Observe, ObserveControllerLost
      <3>3. /\ Observes(machine, machine')
            /\ machine'.workload = machine.workload /\ machine'.controller # "active"
            /\ machine'.runtime = machine.runtime
        BY <3>1, LossObserves
      <3>4. QED
        BY <1>0, <1>2, <2>2, <3>1, <3>2, <3>3 DEF SendFails, SendExpires, Observes, Underway
    <2>3. QED
      BY <2>1, <2>2
  <1>3. QED
    BY <1>1, <1>2

\* The workload's end was seen, where the run thread looks for it.
Seen ==
  /\ Observes(machine, machine') /\ [Next]_machine
  /\ machine'.controller = machine.controller
  /\ exitSeen' = "status" => machine'.workload # "unknown"
  /\ exitSeen' = "error" => machine'.runtime = "lost"
  /\ exitSeen' # None
  /\ sending' \in {None, "workload-exit"}
  /\ sending' # None => healthy /\ bridge /\ exitSeen' = "status"

\* observeWorkloadResult, where the workload has not been observed before.
LEMMA ResultSeen ==
  ASSUME Underway(machine), NEW result \in ExitStatuses \cup {"error"},
         machine.outputs = None, machine.workload = "unknown", WorkloadObserved(result)
  PROVE  Seen
  <1>1. CASE result = "error"
    <2>1. machine' = RuntimeObservationLost(machine) /\ exitSeen' = "error" /\ sending' = None
      BY <1>1 DEF WorkloadObserved, ObserveResult
    <2>2. [Next]_machine
      BY <2>1 DEF Underway, Next, Observe, ObserveRuntimeObservationLost
    <2>3. QED
      BY <2>1, <2>2, RuntimeLostObserves DEF Seen
  <1>2. CASE result # "error"
    <2>1. result \in ExitStatuses /\ WorkloadExitAccepted(machine, result)
      BY <1>2 DEF Underway, WorkloadExitAccepted
    <2>2. /\ machine' = WorkloadExit(machine, result) /\ exitSeen' = "status"
          /\ sending' \in {None, "workload-exit"}
          /\ sending' # None => healthy /\ bridge
      BY <1>2, <2>1 DEF WorkloadObserved, ObserveResult, IfReachable
    <2>3. [Next]_machine
      BY <2>1, <2>2 DEF Next, Observe, ObserveWorkloadExit
    <2>4. QED
      BY <2>1, <2>2, <2>3, ExitObserves, ExitStatusesAssumption DEF Seen
  <1>3. QED
    BY <1>1, <1>2

\* What is observed of the pump is an observation of the machine, or none.
LEMMA OutputIsNext ==
  ASSUME Underway(machine), NEW end, machine' = ObserveOutput(machine, end)
  PROVE  [Next]_machine
  BY DEF Underway, ObserveOutput, ObserveLoss, Next, Observe, ObserveControllerLost,
         ObserveRuntimeObservationLost

\* The steps of the two waits.
LEMMA WaitSteps ==
  ASSUME SupervisorInv,
         EnterSelect \/ SeeStateChanged \/ SeeWorkloadResult \/ SeeControllerExit \/ SeeRequestsDone
         \/ SeeOutputEnd \/ SeeHostCancel \/ LeaveWait
  PROVE  Fits' /\ [Next]_machine
  <1> USE DEF SupervisorInv, Fits, PhaseFits, StartFits, SeenFits, SendFits, RequestFits, At, restVars,
              startupVars, seenVars, outcomeVars, worldVars, channelVars, handlerVars, processVars
  <1>1. CASE EnterSelect
    BY <1>1 DEF EnterSelect
  <1>2. CASE SeeStateChanged
    BY <1>2 DEF SeeStateChanged, Recheck
  <1>3. CASE LeaveWait
    BY <1>3 DEF LeaveWait
  <1>4. CASE SeeWorkloadResult \/ SeeControllerExit \/ SeeRequestsDone \/ SeeOutputEnd \/ SeeHostCancel
    <2>1. /\ pc \in {"select", "select-completion"} /\ sending = None
          /\ pc' = IF pc = "select" THEN "wait" ELSE "await-completion"
          /\ Underway(machine)
      BY <1>4, UnderwayNow
      DEF SeeWorkloadResult, SeeControllerExit, SeeRequestsDone, SeeOutputEnd, SeeHostCancel, Waiting, Recheck
    <2>2. CASE SeeWorkloadResult
      <3>1. /\ WorkloadObserved(workload) /\ workload \in ExitStatuses \cup {"error"}
            /\ pc = "select" /\ machine.outputs = None /\ machine.workload = "unknown"
        BY <2>1, <2>2 DEF SeeWorkloadResult, SupervisorTypeOK, Underway
      <3>2. Seen
        BY <2>1, <3>1, ResultSeen DEF Seen
      <3>3. QED
        BY <2>1, <2>2, <3>1, <3>2 DEF SeeWorkloadResult, Seen, Observes, Underway
    <2>3. CASE SeeControllerExit \/ SeeRequestsDone
      <3>1. machine' = ObserveLoss(machine)
        BY <2>3 DEF SeeControllerExit, SeeRequestsDone
      <3>2. [Next]_machine
        BY <2>1, <3>1 DEF Underway, ObserveLoss, Next, Observe, ObserveControllerLost
      <3>3. QED
        BY <2>1, <2>3, <3>1, <3>2, LossObserves DEF SeeControllerExit, SeeRequestsDone, Observes, Underway
    <2>4. CASE SeeOutputEnd
      <3>1. [Next]_machine
        BY <2>1, <2>4, OutputIsNext DEF SeeOutputEnd
      <3>2. machine' = ObserveOutput(machine, output) /\ output \in {"read-failed", "delivery-failed"}
        BY <2>4 DEF SeeOutputEnd
      <3>3. CASE output = "delivery-failed"
        BY <2>1, <2>4, <3>1, <3>2, <3>3, LossObserves DEF SeeOutputEnd, ObserveOutput, Observes, Underway
      <3>4. CASE output = "read-failed" /\ machine.runtime # "lost"
        <4>1. machine' = RuntimeObservationLost(machine)
          BY <3>2, <3>4 DEF ObserveOutput
        <4>2. /\ Observes(machine, machine') /\ machine'.workload = machine.workload
              /\ machine'.controller = machine.controller
          BY <2>1, <4>1, RuntimeLostObserves
        <4>3. QED
          BY <2>1, <2>4, <3>1, <3>4, <4>2 DEF SeeOutputEnd, Observes, Underway
      <3>5. CASE output = "read-failed" /\ machine.runtime = "lost"
        BY <2>1, <2>4, <3>1, <3>2, <3>5 DEF SeeOutputEnd, ObserveOutput
      <3>6. QED
        BY <3>2, <3>3, <3>4, <3>5
    <2>5. CASE SeeHostCancel
      <3>1. machine' = LatchLocked(machine, "host-cancel")
        BY <2>5 DEF SeeHostCancel
      <3>2. [Next]_machine
        BY <2>1, <3>1 DEF Underway, Next, Observe, ObserveHostCancel
      <3>3. QED
        BY <2>1, <2>5, <3>1, <3>2, LatchObserves DEF SeeHostCancel, Observes, Underway
    <2>6. QED
      BY <1>4, <2>2, <2>3, <2>4, <2>5
  <1>5. QED
    BY <1>1, <1>2, <1>3, <1>4

\* The exit of the watchdog, wherever it is noticed.
LEMMA WatchdogSteps ==
  ASSUME SupervisorInv, SeeWatchdogExit \/ AwaitAcknowledgementSeesWatchdog
  PROVE  Fits' /\ [Next]_machine
  <1> USE DEF SupervisorInv, Fits, PhaseFits, StartFits, SeenFits, SendFits, RequestFits, At, restVars,
              startupVars, seenVars, outcomeVars, worldVars, channelVars, handlerVars, processVars
  <1>1. CASE SeeWatchdogExit
    <2>1. /\ pc \in {"select", "select-completion", "cleanup", "finish"} /\ sending = None
          /\ pc' = CASE pc = "select" -> "wait" [] pc = "select-completion" -> "await-completion"
                     [] OTHER -> pc
          /\ WatchdogExit /\ ~startupFailed
      BY <1>1 DEF SeeWatchdogExit, Waiting, Recheck
    <2>2. Underway(machine)
      BY <2>1, UnderwayNow
    <2>3. machine' = LatchLocked(machine, "cleanup-containment-lost") /\ watchdogSeen'
      BY <2>1, <2>2 DEF WatchdogExit, Underway
    <2>4. [Next]_machine
      BY <2>2, <2>3 DEF Underway, Next, Observe, ObserveCleanupContainmentLost
    <2>5. sending' \in {None, "diagnostic"} /\ (sending' # None => healthy /\ bridge)
      BY <2>1 DEF WatchdogExit, IfReachable
    <2>6. QED
      BY <1>1, <2>1, <2>2, <2>3, <2>4, <2>5, LatchObserves DEF SeeWatchdogExit, Observes, Underway
  <1>2. CASE AwaitAcknowledgementSeesWatchdog
    BY <1>2 DEF AwaitAcknowledgementSeesWatchdog, WatchdogExit
  <1>3. QED
    BY <1>1, <1>2

\* Stopping the workload.
LEMMA StopSteps ==
  ASSUME SupervisorInv,
         SendTerminating \/ StopKnownWorkload \/ StopObservesWorkload \/ StopTimesOut
  PROVE  Fits' /\ [Next]_machine
  <1> USE DEF SupervisorInv, Fits, PhaseFits, StartFits, SeenFits, SendFits, RequestFits, At, restVars,
              startupVars, seenVars, outcomeVars, worldVars, channelVars, handlerVars, processVars
  <1>1. CASE SendTerminating
    BY <1>1 DEF SendTerminating, IfReachable
  <1>2. CASE StopKnownWorkload
    BY <1>2 DEF StopKnownWorkload
  <1>3. CASE StopObservesWorkload \/ StopTimesOut
    <2>1. /\ pc = "stop" /\ sending = None /\ exitSeen = None /\ pc' = "finalize"
          /\ Underway(machine) /\ machine.state = "terminating"
      BY <1>3, UnderwayNow DEF StopObservesWorkload, StopTimesOut
    <2>2. PICK result \in ExitStatuses \cup {"error"} : WorkloadObserved(result)
      BY <1>3 DEF StopObservesWorkload, StopTimesOut, SupervisorTypeOK
    <2>3. Seen
      BY <2>1, <2>2, ResultSeen DEF Seen
    <2>4. UNCHANGED <<healthy, startupVars, lossSeen, watchdogSeen, channelVars>>
      BY <1>3 DEF StopObservesWorkload, StopTimesOut
    <2>5. PhaseFits' /\ StartFits'
      BY <2>1, <2>3, <2>4 DEF Seen, Observes, Underway
    <2>6. SeenFits' /\ SendFits' /\ RequestFits'
      BY <2>1, <2>3, <2>4 DEF Seen, Observes
    <2>7. QED
      BY <2>3, <2>5, <2>6 DEF Seen
  <1>4. QED
    BY <1>1, <1>2, <1>3

\* Finalizing, recording and publishing the outputs.
LEMMA FinalizeSteps ==
  ASSUME SupervisorInv,
         FinalizeOutput \/ RecordOutput \/ PublishOutput \/ RecordPublication
  PROVE  Fits' /\ [Next]_machine
  <1> USE DEF SupervisorInv, Fits, PhaseFits, StartFits, SeenFits, SendFits, RequestFits, At, restVars,
              startupVars, seenVars, outcomeVars, worldVars, channelVars, handlerVars, processVars
  <1>1. CASE FinalizeOutput
    <2>1. pc = "finalize" /\ machine.state = "terminating" /\ Underway(machine) /\ sending = None
      BY <1>1, UnderwayNow DEF FinalizeOutput
    <2>2. machine' = ObserveOutput(machine, output')
      BY <1>1 DEF FinalizeOutput
    <2>3. [Next]_machine
      BY <2>1, <2>2, OutputIsNext
    <2>4. /\ Observes(machine, machine') /\ machine'.workload = machine.workload
          /\ output' = "delivery-failed" => machine'.controller # "active"
      BY <2>1, <2>2, OutputObserves
    <2>5. QED
      BY <1>1, <2>1, <2>3, <2>4 DEF FinalizeOutput, Observes, Underway
  <1>2. CASE RecordOutput
    <2> DEFINE status == OutputStatus(machine, output)
    <2>1. pc = "record-output" /\ machine.state = "terminating" /\ Underway(machine) /\ exitSeen # None
      BY <1>2, UnderwayNow DEF RecordOutput
    <2>2. status \in {"drained", "failed"} /\ (machine.runtime = "lost" => status = "failed")
      BY DEF OutputStatus
    <2>3. OutputsFinalizedAccepted(machine, status)
      BY <2>1, <2>2 DEF OutputsFinalizedAccepted, Good, Barriers, SupervisorTypeOK
    <2>4. machine' = CompleteOutputFinalization(machine, status)
      BY <1>2, <2>3 DEF RecordOutput
    <2>5. [Next]_machine
      BY <2>1, <2>2, <2>3, <2>4 DEF Next, Observe, ObserveWorkloadOutputsFinalized
    <2>6. pc' = IF healthy THEN "publish" ELSE AfterFinalization
      BY <1>2, <2>3 DEF RecordOutput
    <2> HIDE DEF status
    <2>7. /\ machine'.outputs # None /\ machine'.state = "terminating"
          /\ machine'.activated = machine.activated /\ machine'.cause = machine.cause
          /\ machine'.workload = machine.workload /\ machine'.controller = machine.controller
          /\ machine'.runtime = machine.runtime /\ ~machine'.waitingFinalize
          /\ machine'.waitingPublication => machine.controller = "active"
      BY <2>1, <2>2, <2>4, CompleteFields DEF Good
    <2>8. QED
      BY <1>2, <2>1, <2>5, <2>6, <2>7 DEF RecordOutput, AfterFinalization, Good, PhaseLinks
  <1>3. CASE PublishOutput
    BY <1>3 DEF PublishOutput
  <1>4. CASE RecordPublication
    <2>1. pc = "record-publication" /\ machine.state = "terminating" /\ machine.outputs # None
      BY <1>4 DEF RecordPublication
    <2>2. CASE healthy /\ machine.waitingPublication
      <3>1. machine' = OutputsPublished(machine) /\ OutputsPublishedAccepted(machine)
        BY <1>4, <2>1, <2>2 DEF RecordPublication, OutputsPublishedAccepted, Good, Barriers
      <3>2. [Next]_machine
        BY <3>1 DEF Next, Observe, ObserveWorkloadOutputsPublished
      <3>3. /\ machine'.outputs = machine.outputs /\ machine'.state = machine.state
            /\ machine'.activated = machine.activated /\ machine'.cause = machine.cause
            /\ machine'.workload = machine.workload /\ machine'.controller = machine.controller
            /\ machine'.runtime = machine.runtime /\ ~machine'.waitingPublication
            /\ machine'.waitingFinalize => machine.controller = "active"
        BY <3>1 DEF OutputsPublished, Good, Machines
      <3>4. QED
        BY <1>4, <2>1, <2>2, <3>2, <3>3 DEF RecordPublication, AfterFinalization, Good, PhaseLinks
    <2>3. CASE ~(healthy /\ machine.waitingPublication)
      <3>1. UNCHANGED machine
        BY <1>4, <2>3 DEF RecordPublication
      <3>2. ~machine.waitingPublication
        BY <2>3 DEF Good, Barriers
      <3>3. machine.waitingFinalize => ~startupFailed
        BY DEF Good, Barriers, PhaseLinks
      <3>4. QED
        BY <1>4, <2>1, <3>1, <3>2, <3>3 DEF RecordPublication, AfterFinalization
    <2>4. QED
      BY <2>2, <2>3
  <1>5. QED
    BY <1>1, <1>2, <1>3, <1>4

\* From the wait for the completion to the result.
LEMMA EndSteps ==
  ASSUME SupervisorInv,
         LeaveAwaitCompletion \/ CompletionExpires \/ CleanupWorkload \/ FinishSession
  PROVE  Fits' /\ [Next]_machine
  <1> USE DEF SupervisorInv, Fits, PhaseFits, StartFits, SeenFits, SendFits, RequestFits, At, restVars,
              startupVars, seenVars, outcomeVars, worldVars, channelVars, handlerVars, processVars
  <1>1. CASE LeaveAwaitCompletion
    BY <1>1 DEF LeaveAwaitCompletion
  <1>2. CASE CompletionExpires
    <2>1. pc = "select-completion" /\ machine.state = "terminating" /\ ~startupFailed
      BY <1>2 DEF CompletionExpires
    <2>2. CASE machine.waitingFinalize
      <3>1. machine' = ControllerFinalizationExpired(machine)
        BY <1>2, <2>2 DEF CompletionExpires
      <3>2. [Next]_machine
        BY <2>1, <2>2, <3>1 DEF Next, Observe, ObserveControllerFinalizationExpired
      <3>3. /\ machine'.outputs = machine.outputs /\ machine'.state = machine.state
            /\ machine'.activated = machine.activated /\ machine'.cause = machine.cause
            /\ machine'.workload = machine.workload /\ machine'.controller = "finalization-timeout"
            /\ machine'.runtime = machine.runtime /\ ~machine'.waitingFinalize
            /\ machine'.waitingPublication = machine.waitingPublication
        BY <3>1 DEF ControllerFinalizationExpired, Good, Machines
      <3>4. QED
        BY <1>2, <2>1, <3>2, <3>3 DEF CompletionExpires
    <2>3. CASE ~machine.waitingFinalize
      BY <1>2, <2>1, <2>3 DEF CompletionExpires
    <2>4. QED
      BY <2>2, <2>3
  <1>3. CASE CleanupWorkload
    BY <1>3 DEF CleanupWorkload
  <1>4. CASE FinishSession
    <2> DEFINE f == FinishStatus(machine, cleanup)
               n == Finished(machine, f)
    <2>1. /\ pc = "finish" /\ machine.state = "terminating" /\ Underway(machine)
          /\ machine.outputs # None /\ NothingPending(machine) /\ cleanup \in CleanupOutcomes
      BY <1>4, UnderwayNow DEF FinishSession, NothingPending, Good, Barriers, SupervisorTypeOK
    <2>2. /\ f \in Finishes /\ FinishAccepted(machine, f)
          /\ Good(n) /\ n.state = "terminated" /\ n.activated = machine.activated /\ n.cause = machine.cause
          /\ n.controller # "active" /\ n.runtime = machine.runtime
          /\ machine.workload # "unknown" => n.workload = machine.workload
      BY <2>1, FinishIsAccepted
    <2>3. machine' = n
      BY <1>4, <2>2 DEF FinishSession
    <2>4. [Next]_machine
      BY <2>2, <2>3 DEF Next, Observe, ObserveFinished
    <2> HIDE DEF n, f
    <2>5. QED
      BY <1>4, <2>1, <2>2, <2>3, <2>4 DEF FinishSession
  <1>5. QED
    BY <1>1, <1>2, <1>3, <1>4

\* Delivering the result, and the end.
LEMMA DeliverSteps ==
  ASSUME SupervisorInv,
         DeliverResult \/ RecordDelivery \/ LeaveAwaitAcknowledgement \/ CleanupTail
  PROVE  Fits' /\ [Next]_machine
  <1> USE DEF SupervisorInv, Fits, PhaseFits, StartFits, SeenFits, SendFits, RequestFits, At, restVars,
              startupVars, seenVars, outcomeVars, worldVars, channelVars, handlerVars, processVars
  <1>1. CASE DeliverResult
    BY <1>1 DEF DeliverResult
  <1>2. CASE RecordDelivery
    <2>1. machine.state = "terminated" /\ machine \in Machines
      BY <1>2 DEF RecordDelivery, Good
    <2>2. CASE healthy
      <3>1. machine' = [machine EXCEPT !.delivered = TRUE]
        BY <1>2, <2>2 DEF RecordDelivery
      <3>2. [Next]_machine
        BY <2>1, <3>1 DEF Next, Observe, ObserveResultDelivered
      <3>3. QED
        BY <1>2, <2>1, <2>2, <3>1, <3>2, ReceiptFields DEF RecordDelivery
    <2>3. CASE ~healthy
      BY <1>2, <2>1, <2>3 DEF RecordDelivery
    <2>4. QED
      BY <2>2, <2>3
  <1>3. CASE LeaveAwaitAcknowledgement
    BY <1>3 DEF LeaveAwaitAcknowledgement
  <1>4. CASE CleanupTail
    BY <1>4 DEF CleanupTail, Stopped
  <1>5. QED
    BY <1>1, <1>2, <1>3, <1>4

\* The steps of the request goroutine: they leave the run thread where it is.
LEMMA RequestSteps ==
  ASSUME SupervisorInv, RequestGoroutine
  PROVE  Fits' /\ [Next]_machine
  <1> USE DEF SupervisorInv, Fits, PhaseFits, StartFits, SeenFits, SendFits, RequestFits,
              threadVars, startupVars, seenVars, outcomeVars, worldVars, processVars
  <1>1. CASE ReadRequest
    BY <1>1 DEF ReadRequest
  <1>2. CASE AdmitRequest
    BY <1>2 DEF AdmitRequest, Fail, Advance, Idle, Stopped
  <1>3. CASE PassGate
    BY <1>3 DEF PassGate, Fail, Advance, Idle, Stopped
  <1>4. CASE GiveUpWaiting
    BY <1>4 DEF GiveUpWaiting, Fail, Idle, Stopped
  <1>5. CASE ApplyInput
    BY <1>5 DEF ApplyInput, Succeed, Fail, Idle, Stopped
  <1>6. CASE WriteInput
    BY <1>6 DEF WriteInput, Succeed, Fail, Idle, Stopped
  <1>7. CASE ReadFails
    BY <1>7 DEF ReadFails, Stopped
  <1>8. CASE ApplyTerminate
    <2>1. /\ UNCHANGED <<threadVars, sent>>
          /\ handler'[1] \in {"idle", "stopped"}
      BY <1>8 DEF ApplyTerminate, Succeed, Fail, Idle, Stopped
    <2>2. CASE ~TerminateAccepted(machine)
      BY <1>8, <2>1, <2>2 DEF ApplyTerminate, Fail
    <2>3. CASE TerminateAccepted(machine)
      <3>1. ready /\ machine' = LatchLocked(machine, "controller-terminate")
        BY <1>8, <2>3 DEF ApplyTerminate
      <3>2. Underway(machine)
        BY <2>3, <3>1, UnderwayNow DEF TerminateAccepted
      <3>3. [Next]_machine
        BY <2>3, <3>1 DEF Next, ApplyRequest, RequestTerminate
      <3>4. pc # "ready"
        BY <3>1
      <3>5. QED
        BY <2>1, <3>1, <3>2, <3>3, <3>4, LatchObserves DEF Observes, Underway
    <2>4. QED
      BY <2>2, <2>3
  <1>9. CASE ApplyComplete
    <2>1. /\ UNCHANGED <<threadVars, sent>>
          /\ handler'[1] \in {"idle", "stopped"}
      BY <1>9 DEF ApplyComplete, Succeed, Fail, Idle, Stopped
    <2>2. CASE ~CompleteAccepted(machine)
      BY <1>9, <2>1, <2>2 DEF ApplyComplete, Fail
    <2>3. CASE CompleteAccepted(machine)
      <3>1. machine' = Completed(machine)
        BY <1>9, <2>3 DEF ApplyComplete
      <3>2. [Next]_machine
        BY <2>3, <3>1 DEF Next, ApplyRequest, RequestComplete
      <3>3. /\ machine'.outputs = machine.outputs /\ machine'.state = machine.state
            /\ machine'.activated = machine.activated /\ machine'.cause = machine.cause
            /\ machine'.workload = machine.workload /\ machine'.controller = "completed"
            /\ machine'.runtime = machine.runtime /\ ~machine'.waitingFinalize
            /\ machine'.waitingPublication = machine.waitingPublication
        BY <3>1 DEF Completed, Good, Machines
      <3>4. machine.activated /\ pc \notin Preparing \cup {"startup-failed"}
        BY <2>3 DEF CompleteAccepted, Good, Barriers, PhaseLinks
      <3>5. QED
        BY <2>1, <3>2, <3>3, <3>4
    <2>4. QED
      BY <2>2, <2>3
  <1>10. CASE ApplyAcknowledge
    <2>1. /\ UNCHANGED <<threadVars, sent>>
          /\ handler'[1] \in {"idle", "stopped"}
      BY <1>10 DEF ApplyAcknowledge, Succeed, Fail, Idle, Stopped
    <2>2. CASE ~AcknowledgeAccepted(machine)
      BY <1>10, <2>1, <2>2 DEF ApplyAcknowledge, Fail
    <2>3. CASE AcknowledgeAccepted(machine)
      <3>1. machine' = [machine EXCEPT !.acknowledged = TRUE] /\ machine \in Machines
        BY <1>10, <2>3 DEF ApplyAcknowledge, Good
      <3>2. [Next]_machine
        BY <2>3, <3>1 DEF Next, ApplyRequest, RequestAcknowledgeTerminated
      <3>3. QED
        BY <2>1, <2>3, <3>1, <3>2, ReceiptFields DEF AcknowledgeAccepted
    <2>4. QED
      BY <2>2, <2>3
  <1>11. QED
    BY <1>1, <1>2, <1>3, <1>4, <1>5, <1>6, <1>7, <1>8, <1>9, <1>10 DEF RequestGoroutine

\* The world leaves the machine and the run thread alone.
LEMMA WorldSteps ==
  ASSUME SupervisorInv, World
  PROVE  Fits' /\ [Next]_machine
  <1>1. UNCHANGED <<machine, threadVars, sent, handler>>
    BY DEF World, ControllerSends, ControllerReceives, ControllerExits, WorkloadEnds, OutputStops,
           WatchdogExits, DeadlinePasses, HostCancels, channelVars, handlerVars
  <1>2. QED
    BY <1>1 DEF SupervisorInv, Fits, PhaseFits, StartFits, SeenFits, SendFits, RequestFits,
                threadVars, startupVars, seenVars, outcomeVars

\* The types in three parts: the flags, the other fields, the request at hand.
FlagTypes ==
  /\ healthy \in BOOLEAN /\ bridge \in BOOLEAN /\ started \in BOOLEAN /\ startupFailed \in BOOLEAN
  /\ resolved \in BOOLEAN /\ ready \in BOOLEAN /\ lossSeen \in BOOLEAN /\ watchdogSeen \in BOOLEAN
  /\ canceled \in BOOLEAN /\ deadline \in BOOLEAN /\ writeFailed \in BOOLEAN
  /\ interrupted \in BOOLEAN /\ premature \in BOOLEAN

FieldTypes ==
  /\ pc \in Locations /\ sending \in Events \cup {None}
  /\ exitSeen \in {None, "status", "error"}
  /\ publication \in {"idle", "started", "succeeded", "failed"}
  /\ delivery \in {"idle", "started", "resolved"}
  /\ cleanup \in CleanupOutcomes
  /\ workload \in ExitStatuses \cup {"running", "error"}
  /\ output \in OutputEnds \cup {"running"}
  /\ sent \in Seq(Events) /\ received \in 0..Len(sent)
  /\ requests \in Seq(RequestKinds)
  /\ asked \in [RequestKinds -> Nat]

Handlers == {Idle, Stopped} \cup ({"read", "gated", "apply", "write"} \X RequestKinds)

HandlerTypes == handler \in Handlers /\ refused \in RequestKinds \cup {None, "pty-write"}

\* The three parts are the type invariant.
LEMMA TypesSplit == SupervisorTypeOK <=> FlagTypes /\ FieldTypes /\ HandlerTypes
  BY DEF SupervisorTypeOK, FlagTypes, FieldTypes, HandlerTypes, Handlers

\* The request of a handler that has one.
LEMMA HandlerRequest ==
  ASSUME NEW h \in Handlers, h[1] \in {"read", "gated", "apply", "write"}
  PROVE  h[2] \in RequestKinds
  BY DEF Handlers, Idle, Stopped

\* A handler with a request.
LEMMA HandlerOf ==
  ASSUME NEW stage \in {"read", "gated", "apply", "write"}, NEW request \in RequestKinds
  PROVE  <<stage, request>> \in Handlers
  BY DEF Handlers

\* A request that ends, either way, leaves a handler without one.
LEMMA RequestEnds ==
  ASSUME FlagTypes, HandlerTypes, NEW request \in RequestKinds \cup {"pty-write"}, Fail(request) \/ Succeed
  PROVE  interrupted' \in BOOLEAN /\ HandlerTypes'
  <1>1. interrupted' \in BOOLEAN
    BY DEF Fail, Succeed
  <1>2. HandlerTypes'
    BY DEF Fail, Succeed, HandlerTypes, Handlers
  <1>3. QED
    BY <1>1, <1>2

\* A request that advances keeps its handler in its type.
LEMMA RequestAdvances ==
  ASSUME FlagTypes, HandlerTypes, handler[1] \in {"read", "gated"},
         NEW stage \in {"gated", "apply"}, Advance(stage)
  PROVE  interrupted' \in BOOLEAN /\ HandlerTypes'
  BY HandlerRequest, HandlerOf DEF FlagTypes, HandlerTypes, Advance

\* Every step keeps the supervisor's fields in their types.
LEMMA TypesKept ==
  ASSUME SupervisorTypeOK, SupervisorNext
  PROVE  SupervisorTypeOK'
  <1>0. FlagTypes /\ FieldTypes /\ HandlerTypes
    BY TypesSplit
  <1> SUFFICES FlagTypes' /\ FieldTypes' /\ HandlerTypes'
    BY DEF SupervisorTypeOK, FlagTypes, FieldTypes, HandlerTypes, Handlers
  <1> USE <1>0 DEF startupVars, seenVars, outcomeVars, threadVars, processVars,
              worldVars, handlerVars, channelVars, Locations, OutputEnds, RequestKinds, Idle, Stopped
  <1>1. CASE StartBridge
    BY <1>1 DEF FlagTypes, FieldTypes, HandlerTypes, Handlers, StartBridge, At
  <1>2. CASE StartWorkload
    BY <1>2 DEF FlagTypes, FieldTypes, HandlerTypes, Handlers, StartWorkload, At
  <1>3. CASE PrepareSucceeds
    BY <1>3 DEF FlagTypes, FieldTypes, HandlerTypes, Handlers, PrepareSucceeds, At, restVars
  <1>4. CASE PrepareFails
    <2>1. FlagTypes'
      BY <1>4, Zenon DEF FlagTypes, PrepareFails
    <2>2. FieldTypes' /\ HandlerTypes'
      BY <1>4 DEF FieldTypes, HandlerTypes, Handlers, PrepareFails
    <2>3. QED
      BY <2>1, <2>2
  <1>5. CASE Activate
    BY <1>5 DEF FlagTypes, FieldTypes, HandlerTypes, Handlers, Activate, At, restVars
  <1>6. CASE SendReady
    BY <1>6 DEF FlagTypes, FieldTypes, HandlerTypes, Handlers, SendReady, At, restVars
  <1>7. CASE RecordStartupFailure
    BY <1>7 DEF FlagTypes, FieldTypes, HandlerTypes, Handlers, RecordStartupFailure, At
  <1>8. CASE SendSucceeds
    BY <1>8 DEF FlagTypes, FieldTypes, HandlerTypes, Handlers, SendSucceeds
  <1>9. CASE SendFails
    <2>1. FlagTypes'
      BY <1>9, Zenon DEF FlagTypes, SendFails
    <2>2. FieldTypes' /\ HandlerTypes'
      BY <1>9 DEF FieldTypes, HandlerTypes, Handlers, SendFails
    <2>3. QED
      BY <2>1, <2>2
  <1>10. CASE SendExpires
    <2>1. FlagTypes'
      BY <1>10, Zenon DEF FlagTypes, SendExpires, restVars
    <2>2. FieldTypes' /\ HandlerTypes'
      BY <1>10 DEF FieldTypes, HandlerTypes, Handlers, SendExpires, restVars
    <2>3. QED
      BY <2>1, <2>2
  <1>11. CASE EnterSelect
    BY <1>11 DEF FlagTypes, FieldTypes, HandlerTypes, Handlers, EnterSelect, At, restVars
  <1>12. CASE SeeStateChanged
    BY <1>12 DEF FlagTypes, FieldTypes, HandlerTypes, Handlers, SeeStateChanged, At, Recheck, restVars
  <1>13. CASE SeeWorkloadResult
    BY <1>13 DEF FlagTypes, FieldTypes, HandlerTypes, Handlers, SeeWorkloadResult, At, Recheck, WorkloadObserved, IfReachable
  <1>14. CASE SeeControllerExit
    <2>1. FlagTypes'
      BY <1>14, Zenon DEF FlagTypes, SeeControllerExit
    <2>2. FieldTypes' /\ HandlerTypes'
      BY <1>14 DEF FieldTypes, HandlerTypes, Handlers, SeeControllerExit, Waiting, At, Recheck
    <2>3. QED
      BY <2>1, <2>2
  <1>15. CASE SeeRequestsDone
    <2>1. FlagTypes'
      BY <1>15, Zenon DEF FlagTypes, SeeRequestsDone, restVars
    <2>2. FieldTypes' /\ HandlerTypes'
      BY <1>15 DEF FieldTypes, HandlerTypes, Handlers, SeeRequestsDone, restVars, Waiting, At, Recheck
    <2>3. QED
      BY <2>1, <2>2
  <1>16. CASE SeeOutputEnd
    BY <1>16 DEF FlagTypes, FieldTypes, HandlerTypes, Handlers, SeeOutputEnd, At, Recheck, restVars
  <1>17. CASE SeeWatchdogExit
    BY <1>17 DEF FlagTypes, FieldTypes, HandlerTypes, Handlers, SeeWatchdogExit, Waiting, At, Recheck, WatchdogExit, IfReachable
  <1>18. CASE SeeHostCancel
    BY <1>18 DEF FlagTypes, FieldTypes, HandlerTypes, Handlers, SeeHostCancel, At, Recheck, restVars
  <1>19. CASE LeaveWait
    BY <1>19 DEF FlagTypes, FieldTypes, HandlerTypes, Handlers, LeaveWait, At
  <1>20. CASE SendTerminating
    BY <1>20 DEF FlagTypes, FieldTypes, HandlerTypes, Handlers, SendTerminating, At, IfReachable, restVars
  <1>21. CASE StopKnownWorkload
    BY <1>21 DEF FlagTypes, FieldTypes, HandlerTypes, Handlers, StopKnownWorkload, At, restVars
  <1>22. CASE StopObservesWorkload
    BY <1>22 DEF FlagTypes, FieldTypes, HandlerTypes, Handlers, StopObservesWorkload, At, WorkloadObserved, IfReachable
  <1>23. CASE StopTimesOut
    BY <1>23 DEF FlagTypes, FieldTypes, HandlerTypes, Handlers, StopTimesOut, At, WorkloadObserved, IfReachable
  <1>24. CASE FinalizeOutput
    BY <1>24 DEF FlagTypes, FieldTypes, HandlerTypes, Handlers, FinalizeOutput, At
  <1>25. CASE RecordOutput
    BY <1>25 DEF FlagTypes, FieldTypes, HandlerTypes, Handlers, RecordOutput, At, AfterFinalization
  <1>26. CASE PublishOutput
    BY <1>26 DEF FlagTypes, FieldTypes, HandlerTypes, Handlers, PublishOutput, At, restVars
  <1>27. CASE RecordPublication
    BY <1>27 DEF FlagTypes, FieldTypes, HandlerTypes, Handlers, RecordPublication, At, AfterFinalization
  <1>28. CASE LeaveAwaitCompletion
    BY <1>28 DEF FlagTypes, FieldTypes, HandlerTypes, Handlers, LeaveAwaitCompletion, At, restVars
  <1>29. CASE CompletionExpires
    BY <1>29 DEF FlagTypes, FieldTypes, HandlerTypes, Handlers, CompletionExpires, At, restVars
  <1>30. CASE CleanupWorkload
    BY <1>30 DEF FlagTypes, FieldTypes, HandlerTypes, Handlers, CleanupWorkload, At
  <1>31. CASE FinishSession
    BY <1>31 DEF FlagTypes, FieldTypes, HandlerTypes, Handlers, FinishSession, At, restVars
  <1>32. CASE DeliverResult
    BY <1>32 DEF FlagTypes, FieldTypes, HandlerTypes, Handlers, DeliverResult, At
  <1>33. CASE RecordDelivery
    BY <1>33 DEF FlagTypes, FieldTypes, HandlerTypes, Handlers, RecordDelivery, At
  <1>34. CASE LeaveAwaitAcknowledgement
    BY <1>34 DEF FlagTypes, FieldTypes, HandlerTypes, Handlers, LeaveAwaitAcknowledgement, At, restVars
  <1>35. CASE AwaitAcknowledgementSeesWatchdog
    BY <1>35 DEF FlagTypes, FieldTypes, HandlerTypes, Handlers, AwaitAcknowledgementSeesWatchdog, At, WatchdogExit, IfReachable
  <1>36. CASE CleanupTail
    BY <1>36 DEF FlagTypes, FieldTypes, HandlerTypes, Handlers, CleanupTail, At
  <1>37. CASE ReadRequest
    BY <1>37 DEF FlagTypes, FieldTypes, HandlerTypes, Handlers, ReadRequest
  <1>38. CASE AdmitRequest
    <2>1. /\ UNCHANGED <<threadVars, worldVars, requests, sent, writeFailed>>
          /\ interrupted' \in BOOLEAN /\ HandlerTypes'
      BY <1>38, RequestEnds, RequestAdvances, HandlerRequest DEF HandlerTypes, AdmitRequest
    <2>2. QED
      BY <2>1 DEF FlagTypes, FieldTypes
  <1>39. CASE PassGate
    <2>1. /\ UNCHANGED <<threadVars, worldVars, requests, sent, writeFailed>>
          /\ interrupted' \in BOOLEAN /\ HandlerTypes'
      BY <1>39, RequestEnds, RequestAdvances, HandlerRequest DEF HandlerTypes, PassGate
    <2>2. QED
      BY <2>1 DEF FlagTypes, FieldTypes
  <1>40. CASE GiveUpWaiting
    <2>1. /\ UNCHANGED <<threadVars, worldVars, requests, sent, writeFailed>>
          /\ interrupted' \in BOOLEAN /\ HandlerTypes'
      BY <1>40, RequestEnds, HandlerRequest DEF HandlerTypes, GiveUpWaiting
    <2>2. QED
      BY <2>1 DEF FlagTypes, FieldTypes
  <1>41. CASE ApplyInput
    <2>1. /\ UNCHANGED <<threadVars, worldVars, requests, sent, writeFailed>>
          /\ interrupted' \in BOOLEAN /\ HandlerTypes'
      BY <1>41, RequestEnds, HandlerOf DEF FlagTypes, HandlerTypes, ApplyInput
    <2>2. QED
      BY <2>1 DEF FlagTypes, FieldTypes
  <1>42. CASE WriteInput
    <2>1. /\ UNCHANGED <<threadVars, worldVars, requests, sent, writeFailed>>
          /\ interrupted' \in BOOLEAN /\ HandlerTypes'
      BY <1>42, RequestEnds, HandlerOf DEF WriteInput
    <2>2. QED
      BY <2>1 DEF FlagTypes, FieldTypes
  <1>43. CASE ApplyTerminate
    <2>1. /\ UNCHANGED <<threadVars, worldVars, requests, sent, writeFailed>>
          /\ interrupted' \in BOOLEAN /\ HandlerTypes'
      BY <1>43, RequestEnds, HandlerOf DEF ApplyTerminate
    <2>2. QED
      BY <2>1 DEF FlagTypes, FieldTypes
  <1>44. CASE ApplyComplete
    <2>1. /\ UNCHANGED <<threadVars, worldVars, requests, sent, writeFailed>>
          /\ interrupted' \in BOOLEAN /\ HandlerTypes'
      BY <1>44, RequestEnds, HandlerOf DEF ApplyComplete
    <2>2. QED
      BY <2>1 DEF FlagTypes, FieldTypes
  <1>45. CASE ApplyAcknowledge
    <2>1. /\ UNCHANGED <<threadVars, worldVars, requests, sent, writeFailed>>
          /\ interrupted' \in BOOLEAN /\ HandlerTypes'
      BY <1>45, RequestEnds, HandlerOf DEF ApplyAcknowledge
    <2>2. QED
      BY <2>1 DEF FlagTypes, FieldTypes
  <1>46. CASE ReadFails
    BY <1>46 DEF FlagTypes, FieldTypes, HandlerTypes, Handlers, ReadFails
  <1>47. CASE ControllerSends
    BY <1>47 DEF FlagTypes, FieldTypes, HandlerTypes, Handlers, ControllerSends
  <1>48. CASE ControllerReceives
    BY <1>48 DEF FlagTypes, FieldTypes, HandlerTypes, Handlers, ControllerReceives
  <1>49. CASE ControllerExits
    BY <1>49 DEF FlagTypes, FieldTypes, HandlerTypes, Handlers, ControllerExits
  <1>50. CASE WorkloadEnds
    BY <1>50 DEF FlagTypes, FieldTypes, HandlerTypes, Handlers, WorkloadEnds
  <1>51. CASE OutputStops
    BY <1>51 DEF FlagTypes, FieldTypes, HandlerTypes, Handlers, OutputStops
  <1>52. CASE WatchdogExits
    BY <1>52 DEF FlagTypes, FieldTypes, HandlerTypes, Handlers, WatchdogExits
  <1>53. CASE DeadlinePasses
    BY <1>53 DEF FlagTypes, FieldTypes, HandlerTypes, Handlers, DeadlinePasses
  <1>54. CASE HostCancels
    BY <1>54 DEF FlagTypes, FieldTypes, HandlerTypes, Handlers, HostCancels
  <1>55. QED
    BY <1>1, <1>2, <1>3, <1>4, <1>5, <1>6, <1>7, <1>8, <1>9, <1>10, <1>11, <1>12,
       <1>13, <1>14, <1>15, <1>16, <1>17, <1>18, <1>19, <1>20, <1>21, <1>22, <1>23,
       <1>24, <1>25, <1>26, <1>27, <1>28, <1>29, <1>30, <1>31, <1>32, <1>33, <1>34,
       <1>35, <1>36, <1>37, <1>38, <1>39, <1>40, <1>41, <1>42, <1>43, <1>44, <1>45,
       <1>46, <1>47, <1>48, <1>49, <1>50, <1>51, <1>52, <1>53, <1>54
    DEF SupervisorNext, RunThread, RequestGoroutine, World

\* Every step of the supervisor is a step of the machine and keeps the invariant.
LEMMA SupervisorStep ==
  ASSUME SupervisorInv, SupervisorNext
  PROVE  SupervisorInv' /\ [Next]_machine
  <1>1. Fits' /\ [Next]_machine
    BY StartupSteps, SendSteps, WaitSteps, WatchdogSteps, StopSteps, FinalizeSteps, EndSteps,
       DeliverSteps, RequestSteps, WorldSteps
    DEF SupervisorNext, RunThread
  <1>2. Good(machine)'
    BY <1>1, NextGood DEF SupervisorInv
  <1>3. SupervisorTypeOK'
    BY TypesKept DEF SupervisorInv
  <1>4. QED
    BY <1>1, <1>2, <1>3 DEF SupervisorInv, Fits

\* The invariant holds of a supervisor in every reachable state.
THEOREM SupervisorInvariant == SupervisorSpec => []SupervisorInv
  <1>1. SupervisorInit => SupervisorInv
    <2> SUFFICES ASSUME SupervisorInit PROVE SupervisorInv
      OBVIOUS
    <2>1. Good(machine)
      BY InitGood DEF SupervisorInit
    <2>2. SupervisorTypeOK
      <3>1. FlagTypes /\ HandlerTypes
        BY DEF SupervisorInit, FlagTypes, HandlerTypes, Handlers
      <3>2. FieldTypes
        BY DEF SupervisorInit, FieldTypes, Locations, OutputEnds, RequestKinds
      <3>3. QED
        BY <3>1, <3>2, TypesSplit
    <2>3. machine.state = "preparing" /\ ~machine.activated /\ machine.workload = "unknown"
          /\ machine.controller = "unknown"
      BY DEF SupervisorInit, Init, NewMachine
    <2>4. PhaseFits /\ StartFits /\ SeenFits /\ SendFits /\ RequestFits
      BY <2>3 DEF SupervisorInit, PhaseFits, StartFits, SeenFits, SendFits, RequestFits, Idle
    <2>5. QED
      BY <2>1, <2>2, <2>4 DEF SupervisorInv
  <1>2. SupervisorInv /\ [SupervisorNext]_supervisorVars => SupervisorInv'
    <2> SUFFICES ASSUME SupervisorInv, UNCHANGED supervisorVars PROVE SupervisorInv'
      BY SupervisorStep
    <2>1. UNCHANGED <<machine, threadVars, sent, handler>>
      BY DEF supervisorVars, channelVars, handlerVars
    <2>2. PhaseFits' /\ StartFits' /\ SeenFits' /\ SendFits' /\ RequestFits'
      BY <2>1 DEF SupervisorInv, PhaseFits, StartFits, SeenFits, SendFits, RequestFits,
                  threadVars, startupVars, seenVars, outcomeVars
    <2>3. SupervisorTypeOK' /\ Good(machine)'
      BY DEF SupervisorInv, SupervisorTypeOK, supervisorVars, threadVars, startupVars, seenVars, outcomeVars,
             worldVars, processVars, channelVars, handlerVars
    <2>4. QED
      BY <2>2, <2>3 DEF SupervisorInv
  <1>3. QED
    BY <1>1, <1>2, PTL DEF SupervisorSpec

\* Whatever the run thread, the request goroutine and the world do, and in
\* whatever order, what happens to MachineV1 is one of its legal observations or
\* requests: no step assumes a machine that another one has moved on.
THEOREM SupervisorImplementsLifecycle == SupervisorSpec => ImplementsLifecycle
  <1>1. SupervisorInit => Init
    BY DEF SupervisorInit
  <1>2. SupervisorInv /\ [SupervisorNext]_supervisorVars => [Next]_machine
    BY SupervisorStep DEF supervisorVars
  <1>3. QED
    BY <1>1, <1>2, SupervisorInvariant, PTL DEF SupervisorSpec, ImplementsLifecycle, Spec

-----------------------------------------------------------------------------
(* The order of the events.                                                  *)

\* Writing an event tells the controller of that event and of no other.
LEMMA ToldAppend ==
  ASSUME NEW e \in Events, sent \in Seq(Events), sent' = Append(sent, e)
  PROVE  Told' = Told \cup {e}
  <1>1. /\ Len(sent') = Len(sent) + 1 /\ Len(sent) \in Nat
        /\ \A i \in 1..Len(sent) : sent'[i] = sent[i]
        /\ sent'[Len(sent) + 1] = e
    OBVIOUS
  <1>2. QED
    BY <1>1 DEF Told

\* Appending an event of which the controller has not been told, where the
\* protocol lets it come, keeps the events in order.
LEMMA OrderAppend ==
  ASSUME NEW e \in Events, sent \in Seq(Events), sent' = Append(sent, e),
         EventsInOrder, e \notin Told, "terminated" \notin Told,
         e = "ready" => sent = <<>>,
         e = "outputs-finalized" => "terminating" \in Told,
         "outputs-finalized" \in Told => e \in {"diagnostic", "terminated"},
         e = "terminated" /\ machine'.activated => "outputs-finalized" \in Told
  PROVE  EventsInOrder' /\ Told' = Told \cup {e}
  <1>1. /\ Len(sent') = Len(sent) + 1 /\ Len(sent) \in Nat
        /\ \A i \in 1..Len(sent) : sent'[i] = sent[i]
        /\ sent'[Len(sent) + 1] = e
    OBVIOUS
  <1>2. \A i \in 1..Len(sent) : sent'[i] \in Told /\ sent'[i] # e /\ sent'[i] # "terminated"
    BY <1>1 DEF Told
  <1>3. Told' = Told \cup {e}
    BY ToldAppend
  <1>4. \A i, j \in 1..Len(sent') : sent'[i] = sent'[j] => i = j
    BY <1>1, <1>2 DEF EventsInOrder
  <1>5. ASSUME NEW i \in 1..Len(sent')
        PROVE  /\ sent'[i] = "ready" => i = 1
               /\ sent'[i] = "outputs-finalized" =>
                    /\ \E j \in 1..(i - 1) : sent'[j] = "terminating"
                    /\ \A j \in (i + 1)..Len(sent') : sent'[j] \in {"diagnostic", "terminated"}
               /\ sent'[i] = "terminated" =>
                    /\ i = Len(sent')
                    /\ machine'.activated => \E j \in 1..(i - 1) : sent'[j] = "outputs-finalized"
    <2>1. CASE i = Len(sent) + 1
      <3>1. sent'[i] = e
        BY <1>1, <2>1
      <3>2. e = "ready" => i = 1
        BY <2>1
      <3>3. \A x \in Told : \E j \in 1..(i - 1) : sent'[j] = x
        BY <1>1, <2>1 DEF Told
      <3>4. (i + 1)..Len(sent') = {} /\ i = Len(sent')
        BY <1>1, <2>1
      <3>5. QED
        BY <3>1, <3>2, <3>3, <3>4
    <2>2. CASE i \in 1..Len(sent)
      <3>1. sent'[i] = sent[i] /\ sent'[i] # "terminated"
        BY <1>1, <1>2, <2>2
      <3>2. CASE sent[i] = "outputs-finalized"
        <4>1. "outputs-finalized" \in Told
          BY <2>2, <3>2 DEF Told
        <4>2. PICK j \in 1..(i - 1) : sent[j] = "terminating"
          BY <2>2, <3>2 DEF EventsInOrder
        <4>3. \A k \in (i + 1)..Len(sent) : sent[k] \in {"diagnostic", "terminated"}
          BY <2>2, <3>2 DEF EventsInOrder
        <4>4. \A k \in (i + 1)..Len(sent') : sent'[k] \in {"diagnostic", "terminated"}
          BY <1>1, <2>2, <4>1, <4>3
        <4>5. sent'[j] = "terminating"
          BY <1>1, <2>2, <4>2
        <4>6. QED
          BY <3>1, <3>2, <4>4, <4>5
      <3>3. CASE sent[i] # "outputs-finalized"
        BY <2>2, <3>1, <3>3 DEF EventsInOrder
      <3>4. QED
        BY <3>2, <3>3
    <2>3. QED
      BY <1>1, <2>1, <2>2
  <1>6. QED
    BY <1>3, <1>4, <1>5 DEF EventsInOrder

\* Every step that writes nothing leaves what was written where it belongs.
LEMMA SilentSteps ==
  ASSUME SupervisorInv, SupervisorInv', SentFits, SupervisorNext, ~SendSucceeds
  PROVE  SentFits' /\ sent' = sent /\ ("terminated" \in Told => startupFailed' = startupFailed)
  <1>1. sent' = sent
    BY DEF SupervisorNext, RunThread, RequestGoroutine, World, channelVars, handlerVars, restVars,
           StartBridge, StartWorkload, PrepareSucceeds, PrepareFails, Activate, SendReady,
           RecordStartupFailure, SendFails, SendExpires, EnterSelect, SeeStateChanged,
           SeeWorkloadResult, SeeControllerExit, SeeRequestsDone, SeeOutputEnd,
           SeeWatchdogExit, SeeHostCancel, LeaveWait, SendTerminating, StopKnownWorkload,
           StopObservesWorkload, StopTimesOut, FinalizeOutput, RecordOutput,
           PublishOutput, RecordPublication, LeaveAwaitCompletion, CompletionExpires,
           CleanupWorkload, FinishSession, DeliverResult, RecordDelivery,
           LeaveAwaitAcknowledgement, AwaitAcknowledgementSeesWatchdog, CleanupTail,
           ReadRequest, AdmitRequest, PassGate, GiveUpWaiting, ApplyInput, WriteInput,
           ApplyTerminate, ApplyComplete, ApplyAcknowledge, ReadFails, ControllerSends,
           ControllerReceives, ControllerExits, WorkloadEnds, OutputStops, WatchdogExits,
           DeadlinePasses, HostCancels
  <1>2. /\ Told' = Told
        /\ pc \in Preparing \cup {"startup-failed", "ready"} => Told = {}
    BY <1>1 DEF Told, SupervisorInv, StartFits
  <1> USE <1>1, <1>2 DEF SupervisorInv, PhaseFits, StartFits, SeenFits, SendFits, SentFits, At, Recheck, Waiting, restVars,
              startupVars, seenVars, outcomeVars, threadVars
  <1>3. CASE StartBridge
    BY <1>3 DEF StartBridge
  <1>4. CASE StartWorkload
    BY <1>4 DEF StartWorkload
  <1>5. CASE PrepareSucceeds
    BY <1>5 DEF PrepareSucceeds
  <1>6. CASE PrepareFails
    BY <1>6 DEF PrepareFails
  <1>7. CASE Activate
    BY <1>7 DEF Activate
  <1>8. CASE SendReady
    BY <1>8 DEF SendReady
  <1>9. CASE RecordStartupFailure
    BY <1>9 DEF RecordStartupFailure
  <1>10. CASE SendFails
    BY <1>10 DEF SendFails
  <1>11. CASE SendExpires
    BY <1>11 DEF SendExpires
  <1>12. CASE EnterSelect
    BY <1>12 DEF EnterSelect
  <1>13. CASE SeeStateChanged
    BY <1>13 DEF SeeStateChanged
  <1>14. CASE SeeWorkloadResult
    BY <1>14 DEF SeeWorkloadResult, WorkloadObserved, IfReachable
  <1>15. CASE SeeControllerExit
    BY <1>15 DEF SeeControllerExit
  <1>16. CASE SeeRequestsDone
    BY <1>16 DEF SeeRequestsDone
  <1>17. CASE SeeOutputEnd
    BY <1>17 DEF SeeOutputEnd
  <1>18. CASE SeeWatchdogExit
    BY <1>18 DEF SeeWatchdogExit, WatchdogExit, IfReachable
  <1>19. CASE SeeHostCancel
    BY <1>19 DEF SeeHostCancel
  <1>20. CASE LeaveWait
    BY <1>20 DEF LeaveWait
  <1>21. CASE SendTerminating
    BY <1>21 DEF SendTerminating, IfReachable
  <1>22. CASE StopKnownWorkload
    BY <1>22 DEF StopKnownWorkload
  <1>23. CASE StopObservesWorkload
    BY <1>23 DEF StopObservesWorkload, WorkloadObserved, IfReachable
  <1>24. CASE StopTimesOut
    BY <1>24 DEF StopTimesOut, WorkloadObserved, IfReachable
  <1>25. CASE FinalizeOutput
    BY <1>25 DEF FinalizeOutput
  <1>26. CASE RecordOutput
    BY <1>26 DEF RecordOutput, AfterFinalization
  <1>27. CASE PublishOutput
    BY <1>27 DEF PublishOutput
  <1>28. CASE RecordPublication
    BY <1>28 DEF RecordPublication, AfterFinalization
  <1>29. CASE LeaveAwaitCompletion
    BY <1>29 DEF LeaveAwaitCompletion
  <1>30. CASE CompletionExpires
    BY <1>30 DEF CompletionExpires
  <1>31. CASE CleanupWorkload
    BY <1>31 DEF CleanupWorkload
  <1>32. CASE FinishSession
    BY <1>32 DEF FinishSession
  <1>33. CASE DeliverResult
    BY <1>33 DEF DeliverResult
  <1>34. CASE RecordDelivery
    BY <1>34 DEF RecordDelivery
  <1>35. CASE LeaveAwaitAcknowledgement
    BY <1>35 DEF LeaveAwaitAcknowledgement
  <1>36. CASE AwaitAcknowledgementSeesWatchdog
    BY <1>36 DEF AwaitAcknowledgementSeesWatchdog, WatchdogExit, IfReachable
  <1>37. CASE CleanupTail
    BY <1>37 DEF CleanupTail
  <1>38. CASE UNCHANGED threadVars
    <2>1. machine'.activated => machine.activated
      <3>1. pc \in Preparing => ~machine'.activated
        BY <1>38 DEF Good, PhaseLinks
      <3>2. QED
        BY <1>38, <3>1
    <2>2. QED
      BY <1>38, <2>1
  <1>39. QED
    BY <1>3, <1>4, <1>5, <1>6, <1>7, <1>8, <1>9, <1>10, <1>11, <1>12, <1>13, <1>14, <1>15,
       <1>16, <1>17, <1>18, <1>19, <1>20, <1>21, <1>22, <1>23, <1>24, <1>25, <1>26, <1>27,
       <1>28, <1>29, <1>30, <1>31, <1>32, <1>33, <1>34, <1>35, <1>36, <1>37, <1>38
    DEF SupervisorNext, RunThread, RequestGoroutine, World,
        ReadRequest, AdmitRequest, PassGate, GiveUpWaiting, ApplyInput, WriteInput,
        ApplyTerminate, ApplyComplete, ApplyAcknowledge, ReadFails, ControllerSends,
        ControllerReceives, ControllerExits, WorkloadEnds, OutputStops, WatchdogExits,
        DeadlinePasses, HostCancels

\* Every step keeps the events in order.
LEMMA EventStep ==
  ASSUME SupervisorInv, SupervisorInv', EventsInv, SupervisorNext
  PROVE  EventsInv'
  <1> USE DEF EventsInv
  <1>1. CASE SendSucceeds
    <2>1. /\ sending \in Events /\ sent \in Seq(Events) /\ sent' = Append(sent, sending)
          /\ sending' = None /\ UNCHANGED <<machine, pc, healthy, exitSeen, watchdogSeen>>
          /\ ready' = (ready \/ sending = "ready")
      BY <1>1 DEF SendSucceeds, SupervisorInv, SupervisorTypeOK, seenVars
    <2>2. /\ sending \notin Told /\ "terminated" \notin Told
          /\ sending = "ready" => sent = <<>>
          /\ sending = "outputs-finalized" => "terminating" \in Told
          /\ "outputs-finalized" \in Told => sending \in {"diagnostic", "terminated"}
          /\ sending = "terminated" /\ machine.activated => "outputs-finalized" \in Told
      <3>1. sending = "ready" => Told = {}
        BY DEF SupervisorInv, SendFits, Told
      <3>2. QED
        BY <2>1, <3>1 DEF SupervisorInv, SendFits, SentFits
    <2>3. EventsInOrder' /\ Told' = Told \cup {sending}
      BY <2>1, <2>2, OrderAppend
    <2>4. SentFits'
      BY <2>1, <2>2, <2>3 DEF SupervisorInv, SendFits, SentFits
    <2>5. QED
      BY <2>3, <2>4
  <1>2. CASE ~SendSucceeds
    <2>1. SentFits' /\ sent' = sent /\ ("terminated" \in Told => startupFailed' = startupFailed)
      BY <1>2, SilentSteps
    <2>2. Told' = Told
      BY <2>1 DEF Told
    <2>3. "terminated" \in Told => (machine'.activated => machine.activated)
      BY <2>1, <2>2 DEF SupervisorInv, StartFits, SentFits
    <2>4. \A i \in 1..Len(sent) : sent[i] \in Told
      BY DEF Told
    <2>5. EventsInOrder'
      BY <2>1, <2>3, <2>4 DEF EventsInOrder
    <2>6. QED
      BY <2>1, <2>5
  <1>3. QED
    BY <1>1, <1>2

\* The events stay in order in every reachable state.
THEOREM EventsStayInOrder == SupervisorSpec => [](SupervisorInv /\ EventsInv)
  <1>1. SupervisorInit => EventsInv
    BY DEF SupervisorInit, EventsInv, SentFits, EventsInOrder, Told
  <1>2. SupervisorInv /\ SupervisorInv' /\ EventsInv /\ [SupervisorNext]_supervisorVars => EventsInv'
    <2> SUFFICES ASSUME EventsInv, UNCHANGED supervisorVars PROVE EventsInv'
      BY EventStep
    <2>1. UNCHANGED <<machine, pc, sending, healthy, ready, exitSeen, watchdogSeen, sent>>
      BY DEF supervisorVars, threadVars, startupVars, seenVars, channelVars
    <2>2. Told' = Told
      BY <2>1 DEF Told
    <2>3. QED
      BY <2>1, <2>2 DEF EventsInv, SentFits, EventsInOrder
  <1>3. QED
    BY <1>1, <1>2, SupervisorInvariant, PTL DEF SupervisorSpec

\* Whatever fails and in whatever order, a run that returns has a result (the
\* finish is never refused), and the events of the controller are in protocol
\* order, each at most once.
THEOREM SupervisorStaysSafe == SupervisorSpec => []SupervisorSafe
  <1>1. SupervisorInv /\ EventsInv => SupervisorSafe
    BY DEF SupervisorInv, EventsInv, SupervisorSafe, ReturnsWithResult, PhaseFits
  <1>2. QED
    BY <1>1, EventsStayInOrder, PTL

-----------------------------------------------------------------------------
(* The answers of the controller.                                            *)

\* The locations before the outcome of the outputs is recorded.
Early == Preparing \cup Running \cup Stopping \cup {"startup-failed"}

\* What the supervisor has recorded of the two events that call for an answer.
OutcomeFits ==
  /\ pc \in Early => publication = "idle"
  /\ machine.waitingFinalize \/ machine.controller = "completed" => "outputs-finalized" \in Told
  /\ pc \in Publishing =>
       publication = "started" /\ (machine.controller = "active" => machine.waitingPublication)
  /\ publication = "succeeded" /\ "complete" \in Operations /\ machine.activated =>
       /\ machine.controller = "active" => machine.waitingFinalize
       /\ machine.controller # "not-completed"
  /\ "outputs-finalized" \in Told =>
       /\ publication \in {"started", "succeeded"}
       /\ pc = "record-publication" => healthy
  /\ pc = "record-delivery" => delivery = "started"
  /\ "terminated" \in Told =>
       /\ delivery # "idle"
       /\ pc = "record-delivery" => healthy
       /\ delivery = "resolved" => machine.delivered

\* The requests that were sent and not answered yet.
Queued == {requests[i] : i \in 1..Len(requests)}

AtHand(request) == handler[1] \in {"read", "gated", "apply", "write"} /\ handler[2] = request

Pending(request) == request \in Queued \/ AtHand(request)

Single == \A i, j \in 1..Len(requests) : requests[i] = "complete" /\ requests[j] = "complete" => i = j

\* A completion is asked for once, and not any more once it is granted.
FlightFits ==
  /\ asked["complete"] \in {0, 1}
  /\ asked["complete"] = 0 => ~Pending("complete") /\ machine.controller # "completed"
  /\ machine.controller = "completed" => ~Pending("complete")
  /\ Single
  /\ AtHand("complete") => "complete" \notin Queued

\* An answer that was sent on receipt of its event passes the gates in order.
PromptFits ==
  ~premature =>
    /\ Pending("complete") => {"ready", "outputs-finalized"} \subseteq Told /\ "complete" \in Operations
    /\ Pending("acknowledge") => "terminated" \in Told
    /\ handler = <<"apply", "complete">> => publication = "succeeded"
    /\ handler = <<"apply", "acknowledge">> => delivery = "resolved"

AnswersInv == OutcomeFits /\ FlightFits /\ PromptFits /\ AnswersHeard

\* What most steps do to the machine, as far as the answers are concerned: the
\* controller may be lost, and nothing is granted to it.
Quiet(m, n) ==
  /\ n.activated = m.activated /\ n.delivered = m.delivered
  /\ \/ n.controller = m.controller
     \/ n.controller = "lost" /\ m.controller \in {"unknown", "active"}
  /\ n.waitingFinalize => m.waitingFinalize
  /\ n.controller = "active" =>
       n.waitingFinalize = m.waitingFinalize /\ n.waitingPublication = m.waitingPublication

\* Latching a cause is quiet.
LEMMA LatchQuiet ==
  ASSUME NEW m \in Machines, NEW c \in Causes
  PROVE  Quiet(m, LatchLocked(m, c))
  BY LatchFields DEF Quiet

\* Losing the controller is quiet: a verdict it already has stays.
LEMMA LossQuiet ==
  ASSUME NEW m \in Machines
  PROVE  Quiet(m, ObserveLoss(m))
  <1>1. CASE m.state = "terminated" \/ m.controller = "lost"
    BY <1>1 DEF ObserveLoss, Quiet
  <1>2. CASE ~(m.state = "terminated" \/ m.controller = "lost")
    <2> DEFINE k == [m EXCEPT !.controller = LostVerdict(m),
                              !.waitingFinalize = FALSE,
                              !.waitingPublication = FALSE]
    <2>0. \/ LostVerdict(m) = m.controller
          \/ LostVerdict(m) = "lost" /\ m.controller \in {"unknown", "active"}
      BY DEF LostVerdict
    <2>1. LostVerdict(m) \in ControllerStatuses /\ LostVerdict(m) # "active"
      BY DEF Machines, LostVerdict
    <2>2. /\ k \in Machines /\ k.controller = LostVerdict(m)
          /\ k.activated = m.activated /\ k.delivered = m.delivered
          /\ ~k.waitingPublication /\ ~k.waitingFinalize
      <3>1. k \in Machines
        BY <2>1 DEF Machines
      <3>2. k.controller = LostVerdict(m)
        BY DEF Machines
      <3>3. k.activated = m.activated /\ k.delivered = m.delivered
        BY DEF Machines
      <3>4. ~k.waitingPublication /\ ~k.waitingFinalize
        BY DEF Machines
      <3>5. QED
        BY <3>1, <3>2, <3>3, <3>4
    <2>3. ObserveLoss(m) = LatchLocked(k, "controller-lost")
      BY <1>2 DEF ObserveLoss, ControllerLost
    <2> HIDE DEF k
    <2>4. QED
      BY <2>0, <2>1, <2>2, <2>3, LatchFields DEF Quiet
  <1>3. QED
    BY <1>1, <1>2

\* Losing the runtime observation is quiet.
LEMMA RuntimeLostQuiet ==
  ASSUME NEW m, Underway(m)
  PROVE  Quiet(m, RuntimeObservationLost(m))
  <1> DEFINE k == [m EXCEPT !.runtime = "lost"]
             l == LatchLocked(k, "runtime-observation-lost")
  <1>1. m \in Machines
    BY DEF Underway, Good
  <1>2. /\ k \in Machines /\ k.activated = m.activated /\ k.delivered = m.delivered
        /\ k.controller = m.controller /\ k.cause = m.cause /\ k.state = m.state
        /\ k.waitingFinalize = m.waitingFinalize /\ k.waitingPublication = m.waitingPublication
    BY <1>1 DEF Machines
  <1>3. RuntimeObservationLost(m) = FinalizePreActivationOutputs(l)
    BY DEF RuntimeObservationLost
  <1> HIDE DEF k
  <1>4. /\ Quiet(m, l) /\ l.activated = m.activated /\ (m.cause # None => l.cause = m.cause)
    BY <1>2, LatchFields DEF Quiet
  <1> HIDE DEF l
  <1>5. FinalizePreActivationOutputs(l) = l
    BY <1>4 DEF FinalizePreActivationOutputs, Underway
  <1>6. QED
    BY <1>3, <1>4, <1>5

\* Observing the end of the workload is quiet.
LEMMA ResultQuiet ==
  ASSUME NEW m, Underway(m), NEW result \in ExitStatuses \cup {"error"}
  PROVE  Quiet(m, ObserveResult(m, result))
  <1>0. m \in Machines
    BY DEF Underway, Good
  <1>1. CASE result = "error"
    BY <1>1, RuntimeLostQuiet DEF ObserveResult
  <1>2. CASE result # "error" /\ ~WorkloadExitAccepted(m, result)
    BY <1>2 DEF ObserveResult, Quiet
  <1>3. CASE result # "error" /\ WorkloadExitAccepted(m, result)
    <2> DEFINE k == [m EXCEPT !.workload = result]
    <2>1. /\ k \in Machines /\ k.activated = m.activated /\ k.delivered = m.delivered
          /\ k.controller = m.controller
          /\ k.waitingFinalize = m.waitingFinalize /\ k.waitingPublication = m.waitingPublication
      BY <1>0, <1>3 DEF Machines
    <2>2. ObserveResult(m, result) \in {k, LatchLocked(k, "workload-exit")}
      BY <1>3 DEF ObserveResult, WorkloadExit
    <2> HIDE DEF k
    <2>3. QED
      BY <2>1, <2>2, LatchFields DEF Quiet
  <1>4. QED
    BY <1>1, <1>2, <1>3

\* Observing the end of the pump is quiet.
LEMMA OutputQuiet ==
  ASSUME NEW m, Underway(m), NEW end
  PROVE  Quiet(m, ObserveOutput(m, end))
  <1>1. m \in Machines /\ Quiet(m, m)
    BY DEF Underway, Good, Quiet
  <1>2. QED
    BY <1>1, LossQuiet, RuntimeLostQuiet DEF ObserveOutput

\* The steps that grant something, record an outcome, or begin or end the session.
Telling ==
  \/ Activate \/ RecordStartupFailure \/ RecordOutput \/ RecordPublication
  \/ CompletionExpires \/ FinishSession \/ RecordDelivery \/ ApplyComplete

\* Every other step is quiet.
LEMMA QuietSteps ==
  ASSUME SupervisorInv, SupervisorNext
  PROVE  Telling \/ Quiet(machine, machine')
  <1>0. machine \in Machines /\ Quiet(machine, machine)
    BY DEF SupervisorInv, Good, Quiet
  <1>1. CASE UNCHANGED machine
    BY <1>0, <1>1
  <1>2. CASE PrepareFails \/ SeeHostCancel \/ SeeWatchdogExit \/ AwaitAcknowledgementSeesWatchdog
             \/ ApplyTerminate
    <2>1. \/ UNCHANGED machine
          \/ \E c \in Causes : machine' = LatchLocked(machine, c)
      BY <1>2, Zenon DEF PrepareFails, SeeHostCancel, SeeWatchdogExit, AwaitAcknowledgementSeesWatchdog,
                  WatchdogExit, ApplyTerminate, Fail
    <2>2. QED
      BY <1>0, <1>1, <2>1, LatchQuiet
  <1>3. CASE SendFails \/ SendExpires \/ SeeControllerExit \/ SeeRequestsDone
    BY <1>0, <1>3, LossQuiet DEF SendFails, SendExpires, SeeControllerExit, SeeRequestsDone
  <1>4. CASE SeeWorkloadResult \/ StopObservesWorkload \/ StopTimesOut
    <2>1. pc \in {"select", "stop"} /\ Underway(machine)
      BY <1>4, UnderwayNow DEF SeeWorkloadResult, StopObservesWorkload, StopTimesOut, At,
                               SupervisorInv, PhaseFits
    <2>2. PICK result \in ExitStatuses \cup {"error"} : machine' = ObserveResult(machine, result)
      BY <1>4 DEF SeeWorkloadResult, StopObservesWorkload, StopTimesOut, WorkloadObserved,
                  SupervisorInv, SupervisorTypeOK
    <2>3. QED
      BY <2>1, <2>2, ResultQuiet
  <1>5. CASE SeeOutputEnd \/ FinalizeOutput
    <2>1. pc \in {"select", "finalize"} /\ Underway(machine)
      BY <1>5, UnderwayNow DEF SeeOutputEnd, FinalizeOutput, At, SupervisorInv, PhaseFits
    <2>2. PICK end : machine' = ObserveOutput(machine, end)
      BY <1>5 DEF SeeOutputEnd, FinalizeOutput
    <2>3. QED
      BY <2>1, <2>2, OutputQuiet
  <1>6. CASE ApplyAcknowledge
    <2>1. UNCHANGED machine \/ machine' = [machine EXCEPT !.acknowledged = TRUE]
      BY <1>6 DEF ApplyAcknowledge, Fail
    <2>2. QED
      BY <1>0, <1>1, <2>1 DEF Machines, Quiet
  <1>7. CASE SendSucceeds \/ StartBridge \/ StartWorkload \/ PrepareSucceeds \/ SendReady \/ EnterSelect
             \/ SeeStateChanged \/ LeaveWait \/ SendTerminating \/ StopKnownWorkload \/ PublishOutput
             \/ LeaveAwaitCompletion \/ CleanupWorkload \/ DeliverResult
             \/ LeaveAwaitAcknowledgement \/ CleanupTail
    BY <1>1, <1>7
    DEF SendSucceeds, StartBridge, StartWorkload, PrepareSucceeds, SendReady, EnterSelect, SeeStateChanged,
        LeaveWait, SendTerminating, StopKnownWorkload, PublishOutput, LeaveAwaitCompletion,
        CleanupWorkload, DeliverResult, LeaveAwaitAcknowledgement, CleanupTail
  <1>8. CASE ReadRequest \/ AdmitRequest \/ PassGate \/ GiveUpWaiting \/ ApplyInput \/ WriteInput \/ ReadFails
    BY <1>1, <1>8
    DEF ReadRequest, AdmitRequest, PassGate, GiveUpWaiting, ApplyInput, WriteInput, ReadFails, Fail, Advance
  <1>9. CASE World
    BY <1>1, <1>9 DEF World, ControllerSends, ControllerReceives, ControllerExits, WorkloadEnds, OutputStops,
                      WatchdogExits, DeadlinePasses, HostCancels
  <1>10. QED
    BY <1>2, <1>3, <1>4, <1>5, <1>6, <1>7, <1>8, <1>9
    DEF Telling, SupervisorNext, RunThread, RequestGoroutine

\* A quiet step that records neither outcome and leaves the two places where
\* they are recorded alone.
Calm ==
  /\ Quiet(machine, machine')
  /\ UNCHANGED <<publication, delivery>>
  /\ pc' \in Early => pc \in Early
  /\ pc' \in Publishing => pc \in Publishing
  /\ pc' = "record-delivery" => pc = "record-delivery"
  /\ "outputs-finalized" \in Told /\ pc' = "record-publication" =>
       pc = "record-publication" /\ healthy' = healthy
  /\ "terminated" \in Told /\ pc' = "record-delivery" => healthy' = healthy

\* Every step is calm that neither tells nor delivers.
LEMMA CalmSteps ==
  ASSUME SupervisorInv, SentFits, SupervisorNext, ~Telling, ~DeliverResult
  PROVE  Calm
  <1>1. Quiet(machine, machine')
    BY QuietSteps
  <1> USE <1>1 DEF Calm, Early, At, Waiting, Recheck, restVars, outcomeVars
  <1>2. CASE StartBridge \/ StartWorkload \/ PrepareSucceeds \/ PrepareFails \/ SendReady
    BY <1>2 DEF StartBridge, StartWorkload, PrepareSucceeds, PrepareFails, SendReady
  <1>3. CASE SendSucceeds \/ SendFails \/ SendExpires
    BY <1>3 DEF SendSucceeds, SendFails, SendExpires, SupervisorInv, SupervisorTypeOK, SendFits, SentFits,
                PreFinalizationEvents
  <1>4. CASE EnterSelect \/ SeeStateChanged \/ SeeWorkloadResult \/ SeeControllerExit \/ SeeRequestsDone
             \/ SeeOutputEnd \/ SeeWatchdogExit \/ SeeHostCancel \/ LeaveWait
    BY <1>4 DEF EnterSelect, SeeStateChanged, SeeWorkloadResult, SeeControllerExit, SeeRequestsDone,
                SeeOutputEnd, SeeWatchdogExit, SeeHostCancel, LeaveWait
  <1>5. CASE SendTerminating \/ StopKnownWorkload \/ StopObservesWorkload \/ StopTimesOut
             \/ FinalizeOutput
    BY <1>5 DEF SendTerminating, StopKnownWorkload, StopObservesWorkload, StopTimesOut, FinalizeOutput
  <1>6. CASE PublishOutput
    BY <1>6 DEF PublishOutput, SentFits
  <1>7. CASE LeaveAwaitCompletion \/ CleanupWorkload
             \/ LeaveAwaitAcknowledgement \/ AwaitAcknowledgementSeesWatchdog \/ CleanupTail
    BY <1>7 DEF LeaveAwaitCompletion, CleanupWorkload, LeaveAwaitAcknowledgement,
                AwaitAcknowledgementSeesWatchdog, CleanupTail
  <1>8. CASE RequestGoroutine \/ World
    <2>1. UNCHANGED <<pc, healthy, publication, delivery>>
      BY <1>8 DEF RequestGoroutine, World, threadVars,
        ReadRequest, AdmitRequest, PassGate, GiveUpWaiting, ApplyInput, WriteInput,
        ApplyTerminate, ApplyComplete, ApplyAcknowledge, ReadFails, ControllerSends,
        ControllerReceives, ControllerExits, WorkloadEnds, OutputStops, WatchdogExits,
        DeadlinePasses, HostCancels
    <2>2. QED
      BY <2>1
  <1>9. QED
    BY <1>2, <1>3, <1>4, <1>5, <1>6, <1>7, <1>8 DEF Telling, SupervisorNext, RunThread

\* Every step keeps what is recorded of the two events in line with what was told.
LEMMA OutcomeKept ==
  ASSUME SupervisorInv, SupervisorInv', EventsInv, OutcomeFits, SupervisorNext
  PROVE  OutcomeFits'
  <1> USE DEF EventsInv
  <1>1. CASE SendSucceeds
    <2>1. Told' = Told \cup {sending} /\ sending \in Events
      BY <1>1, ToldAppend DEF SendSucceeds, SupervisorInv, SupervisorTypeOK
    <2>2. QED
      BY <1>1, <2>1 DEF SendSucceeds, outcomeVars, OutcomeFits, Early, SupervisorInv, SendFits
  <1>2. CASE ~SendSucceeds
    <2>1. Told' = Told
      BY <1>2, SilentSteps DEF Told
    <2> USE <2>1
    <2>2. CASE ~Telling /\ ~DeliverResult
      <3>1. Calm
        BY <2>2, CalmSteps
      <3>2. QED
        BY <3>1 DEF Calm, Quiet, OutcomeFits
    <2>3. CASE DeliverResult
      BY <2>3 DEF DeliverResult, At, OutcomeFits, Early, SentFits
    <2>4. CASE Activate
      <3>1. /\ machine'.controller = "active" /\ machine'.waitingFinalize = machine.waitingFinalize
        BY <2>4 DEF Activate, Activated, SupervisorInv, Good, Machines
      <3>2. Told = {}
        BY <2>4 DEF Activate, At, Told, SupervisorInv, StartFits
      <3>3. pc' = "ready" /\ publication' = "idle"
        BY <2>4 DEF Activate, At, restVars, outcomeVars, OutcomeFits, Early
      <3>4. QED
        BY <3>1, <3>2, <3>3 DEF OutcomeFits, Early
    <2>5. CASE RecordStartupFailure
      <3>1. /\ Told = {} /\ ~machine'.activated /\ machine'.controller # "completed"
            /\ ~machine'.waitingFinalize
        BY <2>5, StartupRecorded DEF RecordStartupFailure, At, Told, SupervisorInv, StartFits
      <3>2. /\ pc' \in {"terminating", "cleanup"} /\ publication' = "idle"
        BY <2>5 DEF RecordStartupFailure, At, outcomeVars, OutcomeFits, Early
      <3>3. QED
        BY <3>1, <3>2 DEF OutcomeFits, Early
    <2>6. CASE RecordOutput
      <3>1. /\ pc = "record-output" /\ "outputs-finalized" \notin Told /\ "terminated" \notin Told
            /\ UNCHANGED delivery
        BY <2>6 DEF RecordOutput, At, SentFits
      <3>2. OutputStatus(machine, output) \in OutputStatuses
        BY DEF OutputStatus
      <3>3. /\ machine'.controller = machine.controller /\ machine'.activated = machine.activated
            /\ machine'.waitingFinalize => machine.waitingFinalize
            /\ publication' = "started" => (machine'.waitingPublication <=> machine.controller = "active")
        BY <2>6, <3>2, CompleteFields DEF RecordOutput, SupervisorInv, Good
      <3>4. \/ pc' = "publish" /\ publication' = "started"
            \/ pc' \in {"await-completion", "cleanup"} /\ publication' = "failed"
        BY <2>6 DEF RecordOutput, AfterFinalization
      <3>5. QED
        BY <3>1, <3>3, <3>4 DEF OutcomeFits, Early
    <2>7. CASE RecordPublication
      <3>1. /\ pc = "record-publication" /\ sending = None /\ "terminated" \notin Told
            /\ pc' \in {"await-completion", "cleanup"}
            /\ UNCHANGED <<delivery, healthy>>
            /\ publication' = IF healthy THEN "succeeded" ELSE "failed"
        BY <2>7 DEF RecordPublication, At, SentFits, AfterFinalization
      <3>2. machine.controller # "not-completed"
        BY <3>1 DEF SupervisorInv, PhaseFits, Good, PhaseLinks
      <3>3. CASE healthy /\ machine.waitingPublication
        <4>0. machine' = OutputsPublished(machine) /\ machine \in Machines
          BY <2>7, <3>3 DEF RecordPublication, SupervisorInv, Good
        <4>1. /\ machine'.controller = machine.controller /\ machine'.activated = machine.activated
              /\ machine'.waitingFinalize <=> machine.controller = "active" /\ "complete" \in Operations
          BY <4>0 DEF OutputsPublished, Machines
        <4>2. machine.controller = "active" => "outputs-finalized" \in Told
          BY <3>1, <3>3 DEF SentFits, SupervisorInv, Good, PhaseLinks
        <4>3. QED
          BY <3>1, <3>2, <3>3, <4>1, <4>2 DEF OutcomeFits, Early
      <3>4. CASE ~(healthy /\ machine.waitingPublication)
        <4>1. UNCHANGED machine
          BY <2>7, <3>4 DEF RecordPublication
        <4>2. QED
          BY <3>1, <3>2, <3>4, <4>1 DEF OutcomeFits, Early
      <3>5. QED
        BY <3>3, <3>4
    <2>8. CASE CompletionExpires
      <3>1. /\ pc = "select-completion" /\ pc' = "cleanup" /\ UNCHANGED <<publication, delivery>>
            /\ "terminated" \notin Told
        BY <2>8 DEF CompletionExpires, At, restVars, outcomeVars, SentFits
      <3>2. \/ UNCHANGED machine
            \/ /\ ~machine'.waitingFinalize /\ machine'.controller = "finalization-timeout"
               /\ machine'.activated = machine.activated
        BY <2>8 DEF CompletionExpires, ControllerFinalizationExpired, SupervisorInv, Good, Machines
      <3>3. QED
        BY <3>1, <3>2 DEF OutcomeFits, Early
    <2>9. CASE FinishSession
      <3>1. /\ pc = "finish" /\ pc' = "deliver" /\ UNCHANGED <<publication, delivery>>
            /\ "terminated" \notin Told /\ ~machine.waitingFinalize
        BY <2>9 DEF FinishSession, At, restVars, outcomeVars, SentFits, SupervisorInv, PhaseFits
      <3>2. \/ UNCHANGED machine
            \/ /\ machine'.waitingFinalize = machine.waitingFinalize
               /\ machine'.activated = machine.activated
               /\ machine'.controller = IF machine.controller \in {"active", "unknown"}
                                        THEN "not-completed" ELSE machine.controller
        BY <2>9 DEF FinishSession, Finished, FinishStatus, SupervisorInv, Good, Machines
      <3>3. machine.activated => machine.controller # "unknown"
        BY DEF SupervisorInv, Good, PhaseLinks
      <3>4. QED
        BY <3>1, <3>2, <3>3 DEF OutcomeFits, Early
    <2>10. CASE RecordDelivery
      <3>1. /\ pc = "record-delivery" /\ pc' \in {"await-acknowledgement", "tail"}
            /\ delivery' = "resolved" /\ UNCHANGED <<publication, healthy>>
            /\ machine.state = "terminated" /\ machine \in Machines
            /\ machine' = IF healthy THEN [machine EXCEPT !.delivered = TRUE] ELSE machine
        BY <2>10 DEF RecordDelivery, At, SupervisorInv, PhaseFits, Good
      <3>2. /\ machine'.controller = machine.controller /\ machine'.activated = machine.activated
            /\ machine'.waitingFinalize = machine.waitingFinalize
            /\ healthy => machine'.delivered
        BY <3>1 DEF Machines
      <3>3. QED
        BY <3>1, <3>2 DEF OutcomeFits, Early
    <2>11. CASE ApplyComplete
      <3>1. UNCHANGED <<pc, healthy, publication, delivery>>
        BY <2>11 DEF ApplyComplete, threadVars, outcomeVars
      <3>2. \/ UNCHANGED machine
            \/ /\ ~machine'.waitingFinalize /\ machine'.controller = "completed"
               /\ machine'.activated = machine.activated /\ machine'.delivered = machine.delivered
               /\ machine.waitingFinalize
        BY <2>11 DEF ApplyComplete, Fail, CompleteAccepted, Completed, SupervisorInv, Good, Machines
      <3>3. QED
        BY <3>1, <3>2 DEF OutcomeFits
    <2>12. QED
      BY <2>2, <2>3, <2>4, <2>5, <2>6, <2>7, <2>8, <2>9, <2>10, <2>11 DEF Telling
  <1>3. QED
    BY <1>1, <1>2

\* Only an accepted completion makes a controller completed.
LEMMA CompletedBy ==
  ASSUME SupervisorInv, SupervisorNext, machine'.controller = "completed"
  PROVE  \/ machine.controller = "completed"
         \/ handler = <<"apply", "complete">> /\ handler' = Idle /\ UNCHANGED <<requests, asked>>
  <1>1. CASE ~Telling
    BY <1>1, QuietSteps DEF Quiet
  <1>2. CASE Activate
    BY <1>2 DEF Activate, Activated, SupervisorInv, Good, Machines
  <1>3. CASE RecordStartupFailure
    BY <1>3, StartupRecorded
  <1>4. CASE RecordOutput
    <2>1. OutputStatus(machine, output) \in OutputStatuses
      BY DEF OutputStatus
    <2>2. QED
      BY <1>4, <2>1, CompleteFields DEF RecordOutput, SupervisorInv, Good
  <1>5. CASE RecordPublication
    BY <1>5 DEF RecordPublication, OutputsPublished, SupervisorInv, Good, Machines
  <1>6. CASE CompletionExpires
    BY <1>6 DEF CompletionExpires, ControllerFinalizationExpired, SupervisorInv, Good, Machines
  <1>7. CASE FinishSession
    BY <1>7 DEF FinishSession, Finished, FinishStatus, SupervisorInv, Good, Machines
  <1>8. CASE RecordDelivery
    BY <1>8 DEF RecordDelivery, SupervisorInv, Good, Machines
  <1>9. CASE ApplyComplete
    BY <1>9 DEF ApplyComplete, Succeed, Fail, worldVars
  <1>10. QED
    BY <1>1, <1>2, <1>3, <1>4, <1>5, <1>6, <1>7, <1>8, <1>9 DEF Telling

\* Apart from the two steps that put a request on its way and take it up, a
\* step leaves the requests alone, or carries on with or drops the one at hand.
LEMMA RequestsMove ==
  ASSUME SupervisorInv, SupervisorNext, ~ReadRequest, ~ControllerSends
  PROVE  /\ UNCHANGED <<requests, asked, premature>>
         /\ \A r \in RequestKinds : AtHand(r)' => AtHand(r)
  <1> USE DEF AtHand, Idle, Stopped
  <1>1. CASE RunThread
    <2>1. UNCHANGED <<requests, asked, premature>> /\ handler' \in {handler, Stopped}
      BY <1>1 DEF RunThread, channelVars, handlerVars, worldVars, restVars,
           StartBridge, StartWorkload, PrepareSucceeds, PrepareFails, Activate, SendReady,
           RecordStartupFailure, SendSucceeds, SendFails, SendExpires, EnterSelect, SeeStateChanged,
           SeeWorkloadResult, SeeControllerExit, SeeRequestsDone, SeeOutputEnd,
           SeeWatchdogExit, SeeHostCancel, LeaveWait, SendTerminating, StopKnownWorkload,
           StopObservesWorkload, StopTimesOut, FinalizeOutput, RecordOutput,
           PublishOutput, RecordPublication, LeaveAwaitCompletion, CompletionExpires,
           CleanupWorkload, FinishSession, DeliverResult, RecordDelivery,
           LeaveAwaitAcknowledgement, AwaitAcknowledgementSeesWatchdog, CleanupTail
    <2>2. QED
      BY <2>1
  <1>2. CASE World
    BY <1>2 DEF World, ControllerReceives, ControllerExits, WorkloadEnds, OutputStops,
                WatchdogExits, DeadlinePasses, HostCancels, channelVars, handlerVars
  <1>3. CASE AdmitRequest \/ PassGate
    BY <1>3 DEF AdmitRequest, PassGate, Fail, Advance, worldVars
  <1>4. CASE GiveUpWaiting \/ ApplyInput \/ WriteInput
    BY <1>4 DEF GiveUpWaiting, ApplyInput, WriteInput, Fail, Succeed, worldVars
  <1>5. CASE ApplyTerminate \/ ApplyComplete \/ ApplyAcknowledge \/ ReadFails
    BY <1>5 DEF ApplyTerminate, ApplyComplete, ApplyAcknowledge, ReadFails, Fail, Succeed, worldVars
  <1>6. QED
    BY <1>1, <1>2, <1>3, <1>4, <1>5 DEF SupervisorNext, RequestGoroutine

\* A request that is sent is queued, and a first completion is the only one.
LEMMA QueuedAppend ==
  ASSUME requests \in Seq(RequestKinds), NEW r \in RequestKinds, requests' = Append(requests, r)
  PROVE  /\ Queued' = Queued \cup {r}
         /\ Single /\ (r = "complete" => r \notin Queued) => Single'
  <1>1. /\ Len(requests') = Len(requests) + 1 /\ Len(requests) \in Nat
        /\ \A i \in 1..Len(requests) : requests'[i] = requests[i]
        /\ requests'[Len(requests) + 1] = r
    OBVIOUS
  <1>2. Queued' = Queued \cup {r}
    BY <1>1 DEF Queued
  <1>3. ASSUME Single, r = "complete" => r \notin Queued
        PROVE  Single'
    <2>1. \A i \in 1..Len(requests) : requests[i] \in Queued
      BY DEF Queued
    <2>2. QED
      BY <1>1, <1>3, <2>1 DEF Single
  <1>4. QED
    BY <1>2, <1>3

\* A request that is read was queued, and a single completion is then queued no more.
LEMMA QueuedTail ==
  ASSUME requests \in Seq(RequestKinds), requests # <<>>, requests' = Tail(requests)
  PROVE  /\ Head(requests) \in Queued /\ Head(requests) \in RequestKinds /\ Queued' \subseteq Queued
         /\ Single => Single' /\ (Head(requests) = "complete" => "complete" \notin Queued')
  <1>1. /\ Len(requests) \in Nat /\ Len(requests) >= 1 /\ Head(requests) = requests[1]
        /\ Len(requests') = Len(requests) - 1
        /\ \A i \in 1..Len(requests') : requests'[i] = requests[i + 1]
        /\ \A i \in 1..Len(requests) : requests[i] \in RequestKinds
    OBVIOUS
  <1>2. Head(requests) \in Queued /\ Head(requests) \in RequestKinds
    BY <1>1 DEF Queued
  <1>3. Queued' \subseteq Queued
    BY <1>1 DEF Queued
  <1>4. ASSUME Single
        PROVE  Single' /\ (Head(requests) = "complete" => "complete" \notin Queued')
    <2>1. \A i \in 1..Len(requests') : i + 1 \in 1..Len(requests) /\ i + 1 # 1
      BY <1>1
    <2>2. \A i, j \in 1..Len(requests') : i + 1 = j + 1 => i = j
      OBVIOUS
    <2>3. Single'
      BY <1>1, <1>4, <2>1, <2>2 DEF Single
    <2>4. Head(requests) = "complete" => "complete" \notin Queued'
      BY <1>1, <1>4, <2>1 DEF Single, Queued
    <2>5. QED
      BY <2>3, <2>4
  <1>5. QED
    BY <1>2, <1>3, <1>4

\* Every step keeps the count of the completions under way.
LEMMA FlightKept ==
  ASSUME SupervisorInv, FlightFits, SupervisorNext
  PROVE  FlightFits'
  <1>0. requests \in Seq(RequestKinds) /\ asked \in [RequestKinds -> Nat]
    BY DEF SupervisorInv, SupervisorTypeOK
  <1>1. CASE ReadRequest
    <2>1. /\ requests # <<>> /\ requests' = Tail(requests) /\ handler = Idle
          /\ handler' = <<"read", Head(requests)>> /\ UNCHANGED <<asked, machine>>
      BY <1>1 DEF ReadRequest, worldVars
    <2>2. /\ Head(requests) \in Queued /\ Head(requests) \in RequestKinds /\ Queued' \subseteq Queued
          /\ Single => Single' /\ (Head(requests) = "complete" => "complete" \notin Queued')
      BY <1>0, <2>1, QueuedTail
    <2>3. \A r \in RequestKinds : AtHand(r)' <=> r = Head(requests)
      BY <2>1 DEF AtHand
    <2>4. Pending("complete")' => Pending("complete")
      BY <2>2, <2>3 DEF Pending, RequestKinds
    <2>5. QED
      BY <2>1, <2>2, <2>3, <2>4 DEF FlightFits, RequestKinds
  <1>2. CASE ControllerSends
    <2>1. PICK request \in RequestKinds :
            /\ asked[request] < Allowance(request)
            /\ requests' = Append(requests, request)
            /\ asked' = [asked EXCEPT ![request] = @ + 1]
            /\ UNCHANGED <<machine, handler>>
      BY <1>2 DEF ControllerSends
    <2>2. Queued' = Queued \cup {request}
      BY <1>0, <2>1, QueuedAppend
    <2>3. AtHand("complete")' = AtHand("complete")
      BY <2>1 DEF AtHand
    <2>4. CASE request = "complete"
      <3>1. asked["complete"] = 0 /\ asked'["complete"] = 1
        BY <1>0, <2>1, <2>4 DEF Allowance, RequestKinds
      <3>2. ~Pending("complete") /\ machine.controller # "completed"
        BY <3>1 DEF FlightFits
      <3>3. Single'
        BY <1>0, <2>1, <3>2, <2>4, QueuedAppend DEF FlightFits, Pending
      <3>4. QED
        BY <2>1, <2>3, <3>1, <3>2, <3>3 DEF FlightFits, Pending
    <2>5. CASE request # "complete"
      <3>1. asked'["complete"] = asked["complete"]
        BY <1>0, <2>1, <2>5 DEF RequestKinds
      <3>2. Single'
        BY <1>0, <2>1, <2>5, QueuedAppend DEF FlightFits
      <3>3. QED
        BY <2>1, <2>2, <2>3, <2>5, <3>1, <3>2 DEF FlightFits, Pending
    <2>6. QED
      BY <2>4, <2>5
  <1>3. CASE ~ReadRequest /\ ~ControllerSends
    <2>1. UNCHANGED <<requests, asked>> /\ (AtHand("complete")' => AtHand("complete"))
      BY <1>3, RequestsMove DEF RequestKinds
    <2>2. UNCHANGED <<Queued, Single>>
      BY <2>1 DEF Queued, Single
    <2>3. Pending("complete")' => Pending("complete")
      BY <2>1, <2>2 DEF Pending
    <2>4. CASE machine'.controller = "completed" => machine.controller = "completed"
      BY <2>1, <2>2, <2>3, <2>4 DEF FlightFits
    <2>5. CASE machine'.controller = "completed" /\ machine.controller # "completed"
      <3>1. handler = <<"apply", "complete">> /\ handler' = Idle
        BY <2>5, CompletedBy
      <3>2. AtHand("complete") /\ ~AtHand("complete")'
        BY <3>1 DEF AtHand, Idle
      <3>3. asked["complete"] # 0 /\ "complete" \notin Queued
        BY <3>2 DEF FlightFits, Pending
      <3>4. QED
        BY <2>1, <2>2, <3>2, <3>3 DEF FlightFits, Pending
    <2>6. QED
      BY <2>4, <2>5
  <1>4. QED
    BY <1>1, <1>2, <1>3

\* An outcome that was recorded of an event that was sent is not taken back.
LEMMA OutcomesStay ==
  ASSUME SupervisorInv, SentFits, OutcomeFits, SupervisorNext
  PROVE  /\ "outputs-finalized" \in Told /\ publication = "succeeded" => publication' = "succeeded"
         /\ "terminated" \in Told /\ delivery = "resolved" => delivery' = "resolved"
  <1>1. CASE ~Telling /\ ~DeliverResult
    BY <1>1, CalmSteps DEF Calm
  <1>2. CASE Activate \/ RecordStartupFailure \/ CompletionExpires \/ FinishSession \/ ApplyComplete
    BY <1>2 DEF Activate, RecordStartupFailure, CompletionExpires, FinishSession, ApplyComplete,
                restVars, threadVars, outcomeVars
  <1>3. CASE RecordOutput \/ DeliverResult
    BY <1>3 DEF RecordOutput, DeliverResult, At, SentFits
  <1>4. CASE RecordPublication \/ RecordDelivery
    BY <1>4 DEF RecordPublication, RecordDelivery, At, OutcomeFits
  <1>5. QED
    BY <1>1, <1>2, <1>3, <1>4 DEF Telling

\* What the controller has received it was told.
LEMMA ReceivedTold ==
  ASSUME SupervisorTypeOK, NEW e, Received(e)
  PROVE  e \in Told
  BY DEF SupervisorTypeOK, Received, Told

\* How a request comes to be applied.
LEMMA ComesToApply ==
  ASSUME SupervisorInv, SupervisorNext, NEW r \in {"complete", "acknowledge"},
         handler' = <<"apply", r>>
  PROVE  /\ AtHand(r)
         /\ \/ UNCHANGED handler
            \/ ~Gated(r)
            \/ r = "complete" /\ publication = "succeeded" /\ publication' = publication
            \/ r = "acknowledge" /\ delivery = "resolved" /\ delivery' = delivery
  <1>1. AtHand(r)'
    BY DEF AtHand
  <1>2. CASE ReadRequest
    BY <1>2 DEF ReadRequest
  <1>3. CASE ControllerSends
    BY <1>1, <1>3 DEF ControllerSends, AtHand
  <1>4. CASE ~ReadRequest /\ ~ControllerSends
    <2>1. AtHand(r)
      BY <1>1, <1>4, RequestsMove DEF RequestKinds
    <2>2. CASE AdmitRequest
      BY <2>1, <2>2 DEF AdmitRequest, Fail, Advance, AtHand, Idle, Stopped
    <2>3. CASE PassGate
      BY <2>1, <2>3 DEF PassGate, Fail, Advance, AtHand, Idle, Stopped, threadVars, outcomeVars
    <2>4. CASE GiveUpWaiting \/ ApplyInput \/ WriteInput \/ ApplyTerminate \/ ApplyComplete
               \/ ApplyAcknowledge \/ ReadFails
      BY <2>4 DEF GiveUpWaiting, ApplyInput, WriteInput, ApplyTerminate, ApplyComplete,
                  ApplyAcknowledge, ReadFails, Fail, Succeed, Idle, Stopped
    <2>5. CASE RunThread \/ World
      <3>1. handler' \in {handler, Stopped}
        BY <1>4, <2>5 DEF RunThread, World, channelVars, handlerVars, restVars,
           StartBridge, StartWorkload, PrepareSucceeds, PrepareFails, Activate, SendReady,
           RecordStartupFailure, SendSucceeds, SendFails, SendExpires, EnterSelect, SeeStateChanged,
           SeeWorkloadResult, SeeControllerExit, SeeRequestsDone, SeeOutputEnd,
           SeeWatchdogExit, SeeHostCancel, LeaveWait, SendTerminating, StopKnownWorkload,
           StopObservesWorkload, StopTimesOut, FinalizeOutput, RecordOutput,
           PublishOutput, RecordPublication, LeaveAwaitCompletion, CompletionExpires,
           CleanupWorkload, FinishSession, DeliverResult, RecordDelivery,
           LeaveAwaitAcknowledgement, AwaitAcknowledgementSeesWatchdog, CleanupTail,
           ControllerReceives, ControllerExits, WorkloadEnds, OutputStops,
           WatchdogExits, DeadlinePasses, HostCancels
      <3>2. QED
        BY <2>1, <3>1 DEF Stopped
    <2>6. QED
      BY <1>4, <2>1, <2>2, <2>3, <2>4, <2>5 DEF SupervisorNext, RequestGoroutine
  <1>5. QED
    BY <1>2, <1>3, <1>4

\* Every step keeps the prompt answers in step with their gates.
LEMMA PromptKept ==
  ASSUME SupervisorInv, SupervisorInv', EventsInv, OutcomeFits, PromptFits, SupervisorNext, ~premature'
  PROVE  ~premature /\ PromptFits'
  <1> USE DEF EventsInv
  <1>0. /\ requests \in Seq(RequestKinds) /\ SupervisorTypeOK
        /\ \A r \in {"complete", "acknowledge"} : r \in RequestKinds
    BY DEF SupervisorInv, SupervisorTypeOK, RequestKinds
  <1>1. ~premature
    BY RequestsMove DEF ControllerSends, ReadRequest, worldVars
  <1>2. Told \subseteq Told'
    <2>1. CASE SendSucceeds
      BY <2>1, ToldAppend DEF SendSucceeds, SupervisorInv, SupervisorTypeOK
    <2>2. CASE ~SendSucceeds
      BY <2>2, SilentSteps DEF Told
    <2>3. QED
      BY <2>1, <2>2
  <1>3. ASSUME NEW r \in {"complete", "acknowledge"}, Pending(r)'
        PROVE  Pending(r) \/ (MaySend(r) /\ r \in Operations \cup {"acknowledge"})
    <2>1. CASE ReadRequest
      <3>1. /\ requests # <<>> /\ requests' = Tail(requests) /\ handler' = <<"read", Head(requests)>>
        BY <2>1 DEF ReadRequest
      <3>2. Head(requests) \in Queued /\ Queued' \subseteq Queued
        BY <1>0, <3>1, QueuedTail
      <3>3. QED
        BY <1>3, <3>1, <3>2 DEF Pending, AtHand
    <2>2. CASE ControllerSends
      <3>1. PICK request \in RequestKinds :
              /\ request \in Operations \cup {"acknowledge"}
              /\ premature' = (premature \/ ~MaySend(request))
              /\ requests' = Append(requests, request)
              /\ UNCHANGED handler
        BY <2>2 DEF ControllerSends
      <3>2. Queued' = Queued \cup {request} /\ MaySend(request)
        BY <1>0, <3>1, QueuedAppend
      <3>3. QED
        BY <1>3, <3>1, <3>2 DEF Pending, AtHand
    <2>3. CASE ~ReadRequest /\ ~ControllerSends
      <3>1. UNCHANGED requests /\ (AtHand(r)' => AtHand(r))
        BY <1>0, <2>3, RequestsMove
      <3>2. QED
        BY <1>3, <3>1 DEF Pending, Queued
    <2>4. QED
      BY <2>1, <2>2, <2>3
  <1>4. Pending("complete")' => {"ready", "outputs-finalized"} \subseteq Told' /\ "complete" \in Operations
    BY <1>0, <1>1, <1>2, <1>3, ReceivedTold DEF MaySend, PromptFits
  <1>5. Pending("acknowledge")' => "terminated" \in Told'
    BY <1>0, <1>1, <1>2, <1>3, ReceivedTold DEF MaySend, PromptFits
  <1>6. ASSUME handler' = <<"apply", "complete">>
        PROVE  publication' = "succeeded"
    <2>1. /\ AtHand("complete")
          /\ \/ UNCHANGED handler \/ ~Gated("complete")
             \/ publication = "succeeded"
      BY <1>6, ComesToApply
    <2>2. "outputs-finalized" \in Told
      BY <1>1, <2>1 DEF PromptFits, Pending
    <2>3. publication \in {"started", "succeeded"}
      BY <2>2 DEF OutcomeFits
    <2>4. publication = "succeeded"
      BY <1>1, <1>6, <2>1, <2>3 DEF Gated, PromptFits
    <2>5. QED
      BY <2>2, <2>4, OutcomesStay
  <1>7. ASSUME handler' = <<"apply", "acknowledge">>
        PROVE  delivery' = "resolved"
    <2>1. /\ AtHand("acknowledge")
          /\ \/ UNCHANGED handler \/ ~Gated("acknowledge")
             \/ delivery = "resolved"
      BY <1>7, ComesToApply
    <2>2. "terminated" \in Told
      BY <1>1, <2>1 DEF PromptFits, Pending
    <2>3. delivery # "idle"
      BY <2>2 DEF OutcomeFits
    <2>4. delivery = "resolved"
      BY <1>1, <1>7, <2>1, <2>3 DEF Gated, PromptFits
    <2>5. QED
      BY <2>2, <2>4, OutcomesStay
  <1>8. QED
    BY <1>1, <1>4, <1>5, <1>6, <1>7 DEF PromptFits

\* Which request stops the goroutine, and for what reason.
LEMMA RefusedBy ==
  ASSUME SupervisorInv, SupervisorNext, refused' # refused, refused' \in {"complete", "acknowledge"}
  PROVE  /\ UNCHANGED machine
         /\ AtHand(refused')
         /\ \/ refused' = "complete" /\ ~ready
            \/ refused' = "complete" /\ publication = "failed"
            \/ refused' = "complete" /\ handler = <<"apply", "complete">> /\ ~CompleteAccepted(machine)
            \/ refused' = "acknowledge" /\ handler = <<"apply", "acknowledge">> /\ ~AcknowledgeAccepted(machine)
  <1> USE DEF AtHand
  <1>1. CASE AdmitRequest
    BY <1>1 DEF AdmitRequest, Fail, Advance
  <1>2. CASE PassGate
    BY <1>2 DEF PassGate, Fail, Advance
  <1>3. CASE GiveUpWaiting
    BY <1>3 DEF GiveUpWaiting, Fail
  <1>4. CASE ApplyInput \/ WriteInput \/ ApplyTerminate
    BY <1>4 DEF ApplyInput, WriteInput, ApplyTerminate, Fail, Succeed
  <1>5. CASE ApplyComplete \/ ApplyAcknowledge
    BY <1>5 DEF ApplyComplete, ApplyAcknowledge, Fail, Succeed
  <1>6. CASE RunThread \/ World \/ ReadRequest \/ ReadFails
    <2>1. UNCHANGED refused
      BY <1>6 DEF RunThread, World, channelVars, handlerVars, restVars,
           StartBridge, StartWorkload, PrepareSucceeds, PrepareFails, Activate, SendReady,
           RecordStartupFailure, SendSucceeds, SendFails, SendExpires, EnterSelect, SeeStateChanged,
           SeeWorkloadResult, SeeControllerExit, SeeRequestsDone, SeeOutputEnd,
           SeeWatchdogExit, SeeHostCancel, LeaveWait, SendTerminating, StopKnownWorkload,
           StopObservesWorkload, StopTimesOut, FinalizeOutput, RecordOutput,
           PublishOutput, RecordPublication, LeaveAwaitCompletion, CompletionExpires,
           CleanupWorkload, FinishSession, DeliverResult, RecordDelivery,
           LeaveAwaitAcknowledgement, AwaitAcknowledgementSeesWatchdog, CleanupTail,
           ReadRequest, ReadFails, ControllerSends, ControllerReceives, ControllerExits,
           WorkloadEnds, OutputStops, WatchdogExits, DeadlinePasses, HostCancels
    <2>2. QED
      BY <2>1
  <1>7. QED
    BY <1>1, <1>2, <1>3, <1>4, <1>5, <1>6 DEF SupervisorNext, RequestGoroutine

\* A prompt completion that is refused comes after the controller was given up.
LEMMA CompletionRefused ==
  ASSUME SupervisorInv, EventsInv, OutcomeFits, FlightFits, PromptFits, ~premature,
         handler = <<"apply", "complete">>, ~CompleteAccepted(machine)
  PROVE  machine.controller \in {"finalization-timeout", "lost"}
  <1>1. AtHand("complete")
    BY DEF AtHand
  <1>2. publication = "succeeded" /\ "complete" \in Operations /\ "ready" \in Told
    BY <1>1 DEF PromptFits, Pending
  <1>3. machine.activated
    BY <1>2 DEF EventsInv, SentFits, SupervisorInv, StartFits
  <1>4. machine.controller # "completed"
    BY <1>1 DEF FlightFits, Pending
  <1>5. machine.controller # "active"
    BY <1>2, <1>3 DEF OutcomeFits, CompleteAccepted, SupervisorInv, Good, Barriers
  <1>6. machine.controller \notin {"unknown", "startup-failed", "not-completed"}
    BY <1>2, <1>3 DEF OutcomeFits, SupervisorInv, Good, PhaseLinks
  <1>7. QED
    BY <1>4, <1>5, <1>6 DEF SupervisorInv, Good, Machines

\* Every step keeps the prompt answers heard.
LEMMA AnswersStep ==
  ASSUME SupervisorInv, SupervisorInv', EventsInv, AnswersInv, SupervisorNext
  PROVE  AnswersInv'
  <1> USE DEF AnswersInv, AnswersHeard
  <1>1. OutcomeFits'
    BY OutcomeKept
  <1>2. FlightFits'
    BY FlightKept
  <1>3. PromptFits'
    BY PromptKept DEF PromptFits
  <1>4. PromptAnswersHeard'
    <2> SUFFICES ASSUME ~premature'
                 PROVE  /\ refused' # "acknowledge"
                        /\ refused' = "complete" => machine'.controller \in {"finalization-timeout", "lost"}
      BY DEF PromptAnswersHeard
    <2>1. ~premature
      BY PromptKept
    <2>2. machine.controller \in {"finalization-timeout", "lost"} => machine'.controller = machine.controller
      BY SupervisorStep, NextSanctioned DEF SupervisorInv, Sanctioned, VerdictStep
    <2>3. CASE UNCHANGED refused
      BY <2>1, <2>2, <2>3 DEF PromptAnswersHeard
    <2>4. CASE refused' # refused /\ refused' \in {"complete", "acknowledge"}
      <3>1. /\ UNCHANGED machine /\ AtHand(refused')
            /\ \/ refused' = "complete" /\ ~ready
               \/ refused' = "complete" /\ publication = "failed"
               \/ refused' = "complete" /\ handler = <<"apply", "complete">> /\ ~CompleteAccepted(machine)
               \/ /\ refused' = "acknowledge" /\ handler = <<"apply", "acknowledge">>
                  /\ ~AcknowledgeAccepted(machine)
        BY <2>4, RefusedBy
      <3>2. refused' = "complete" => ready /\ publication # "failed"
        <4>1. refused' = "complete" => {"ready", "outputs-finalized"} \subseteq Told
          BY <2>1, <3>1 DEF PromptFits, Pending
        <4>2. QED
          BY <4>1 DEF EventsInv, SentFits, OutcomeFits
      <3>3. refused' # "acknowledge"
        <4> SUFFICES ASSUME refused' = "acknowledge" PROVE FALSE
          OBVIOUS
        <4>1. "terminated" \in Told /\ delivery = "resolved" /\ ~AcknowledgeAccepted(machine)
          BY <2>1, <3>1 DEF PromptFits, Pending
        <4>2. machine.delivered /\ machine.state = "terminated"
          BY <4>1 DEF OutcomeFits, EventsInv, SentFits, SupervisorInv, PhaseFits
        <4>3. QED
          BY <4>1, <4>2 DEF AcknowledgeAccepted
      <3>4. QED
        BY <2>1, <2>2, <3>1, <3>2, <3>3, CompletionRefused
    <2>5. QED
      BY <2>3, <2>4
  <1>5. CompletionAnnounced'
    <2>1. \A e : Sent(e)' <=> e \in Told'
      BY DEF Sent, Told
    <2>2. QED
      BY <1>1, <2>1 DEF CompletionAnnounced, OutcomeFits
  <1>6. QED
    BY <1>1, <1>2, <1>3, <1>4, <1>5

\* A controller that answers "outputs-finalized" and "terminated" when it has
\* received them is heard, although the request goroutine may read the answer
\* before the run thread has noted that it sent the event; and only a controller
\* that was told that the outputs are final is credited with completing.
THEOREM AnswersAreHeard == SupervisorSpec => []AnswersHeard
  <1>1. SupervisorInit => AnswersInv
    <2> SUFFICES ASSUME SupervisorInit PROVE AnswersInv
      OBVIOUS
    <2>1. /\ ~machine.waitingFinalize /\ machine.controller = "unknown"
      BY DEF SupervisorInit, Init, NewMachine
    <2>2. Told = {} /\ Queued = {}
      BY DEF SupervisorInit, Told, Queued
    <2>3. \A r : ~AtHand(r)
      BY DEF SupervisorInit, AtHand, Idle
    <2>4. OutcomeFits
      BY <2>1, <2>2 DEF SupervisorInit, OutcomeFits, Early
    <2>5. FlightFits
      BY <2>1, <2>2, <2>3 DEF SupervisorInit, FlightFits, Pending, Single, RequestKinds
    <2>6. PromptFits
      BY <2>2, <2>3 DEF SupervisorInit, PromptFits, Pending, Idle
    <2>7. AnswersHeard
      BY <2>1 DEF SupervisorInit, AnswersHeard, PromptAnswersHeard, CompletionAnnounced
    <2>8. QED
      BY <2>4, <2>5, <2>6, <2>7 DEF AnswersInv
  <1>2. SupervisorInv /\ SupervisorInv' /\ EventsInv /\ AnswersInv /\ [SupervisorNext]_supervisorVars
          => AnswersInv'
    <2> SUFFICES ASSUME AnswersInv, UNCHANGED supervisorVars PROVE AnswersInv'
      BY AnswersStep
    <2>1. UNCHANGED <<machine, pc, healthy, publication, delivery, sent, requests, asked, premature,
                      handler, refused>>
      BY DEF supervisorVars, threadVars, outcomeVars, worldVars, channelVars, handlerVars
    <2>2. /\ UNCHANGED <<Told, Queued, Single>>
          /\ \A r : AtHand(r)' <=> AtHand(r)
      BY <2>1 DEF Told, Queued, Single, AtHand
    <2>3. OutcomeFits' /\ FlightFits' /\ PromptFits'
      BY <2>1, <2>2 DEF AnswersInv, OutcomeFits, FlightFits, PromptFits, Pending
    <2>4. AnswersHeard'
      BY <2>1 DEF AnswersInv, AnswersHeard, PromptAnswersHeard, CompletionAnnounced, Sent
    <2>5. QED
      BY <2>3, <2>4 DEF AnswersInv
  <1>3. AnswersInv => AnswersHeard
    BY DEF AnswersInv
  <1>4. QED
    BY <1>1, <1>2, <1>3, SupervisorInvariant, EventsStayInOrder, PTL DEF SupervisorSpec

==============================================================================
