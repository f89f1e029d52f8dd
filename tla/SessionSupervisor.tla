--------------------------- MODULE SessionSupervisor ---------------------------
(***************************************************************************)
(* controlledSessionSupervisorV1 (internal/dockerdeploy) and the request   *)
(* side of SessionIOBridgeV1 (internal/controlledsession) around one       *)
(* MachineV1: the run thread that starts a session, waits for a reason to  *)
(* stop it and takes it down; the goroutine that reads the controller's    *)
(* requests; and the controller, the workload, the output pump, the        *)
(* watchdog and the host that act on their own.                            *)
(*                                                                         *)
(* Every step changes the machine by at most one Observe or ApplyRequest.  *)
(* Docker calls, deadlines and payloads are outcomes: a call succeeds or   *)
(* fails, a timer may fire whenever the code waits for it.  Which durable  *)
(* resources exist is the subject of SessionOwnership.tla.                 *)
(***************************************************************************)
EXTENDS SessionLifecycle, Naturals, Sequences

CONSTANTS MaxInputs,  \* bound on the input requests a controller sends
          Eager,      \* the requests a controller sends whether or not the protocol lets it
          Faults      \* what may go wrong besides the workload and its output

ASSUME SupervisorAssumption ==
  /\ MaxInputs \in Nat /\ Eager \subseteq {"input", "terminate", "complete", "acknowledge"}
  /\ Faults \subseteq {"controller-exit", "stream-loss", "watchdog-exit", "host-cancel"}

VARIABLES
  pc,            \* where the run thread is
  sending,       \* the lifecycle event it is writing, or None
  healthy,       \* transportHealthy
  bridge,        \* the I/O bridge is running
  started,       \* workloadStarted
  startupFailed, \* the run took finishStartupFailure
  resolved,      \* startupResolved
  ready,         \* controllerRequestsReady
  exitSeen,      \* workloadObserved: None, "status" or "error"
  lossSeen,      \* controllerObserved
  watchdogSeen,  \* watchdogExitObserved
  publication,   \* outputPublicationStarted, -Resolved and -Succeeded
  delivery,      \* resultDeliveryStarted and -Resolved
  cleanup,       \* the pre-delivery cleanup outcome
  workload,      \* workloadResult: "running", an exit status, or "error"
  output,        \* the output pump: "running" or how it stopped
  controller,    \* "running" or "exited"
  watchdog,      \* "armed" or "exited"
  canceled,      \* the host context is done
  deadline,      \* the output-finalization deadline has passed
  writeFailed,   \* an event could not be written: the gate is poisoned for every writer
  sent,          \* the lifecycle events written to the controller
  received,      \* how many of them the controller has read
  requests,      \* requests on their way to the host
  asked,         \* how many requests of each kind the controller has sent
  premature,     \* one of them was sent before the protocol lets it
  handler,       \* the request goroutine: <<"idle">>, <<"stopped">> or <<stage, request>>
  interrupted,   \* CancelActiveRequest hit the request being handled
  refused        \* the request whose error stopped the request goroutine, or None

startupVars == <<bridge, started, startupFailed, resolved, ready>>
seenVars == <<exitSeen, lossSeen, watchdogSeen>>
outcomeVars == <<publication, delivery, cleanup>>
threadVars == <<pc, sending, healthy, startupVars, seenVars, outcomeVars>>
processVars == <<workload, output, controller, watchdog>>
worldVars == <<processVars, canceled, deadline, received, asked, premature>>
handlerVars == <<requests, handler, interrupted, refused>>
channelVars == <<handlerVars, sent, writeFailed>>
restVars == <<startupVars, seenVars, outcomeVars, worldVars, channelVars>>

supervisorVars == <<machine, threadVars, worldVars, channelVars>>

RequestKinds == {"input", "terminate", "complete", "acknowledge"}

Events == {"ready", "workload-exit", "terminating", "diagnostic",
           "outputs-finalized", "terminated"}

\* The events sendPreFinalizationLifecycleEvent bounds by the finalization deadline.
PreFinalizationEvents == {"workload-exit", "terminating", "diagnostic"}

Locations == {"prepare", "activate", "ready", "wait", "select", "startup-failed", "terminating",
              "stop", "finalize", "record-output", "publish", "record-publication",
              "await-completion", "select-completion", "cleanup", "finish", "deliver", "record-delivery",
              "await-acknowledgement", "tail", "returned"}

OutputEnds == {"drained", "read-failed", "delivery-failed", "timed-out"}

Idle == <<"idle">>

Stopped == <<"stopped">>

SupervisorInit ==
  /\ Init
  /\ pc = "prepare" /\ sending = None /\ healthy = TRUE
  /\ bridge = FALSE /\ started = FALSE /\ startupFailed = FALSE
  /\ resolved = FALSE /\ ready = FALSE
  /\ exitSeen = None /\ lossSeen = FALSE /\ watchdogSeen = FALSE
  /\ publication = "idle" /\ delivery = "idle" /\ cleanup = "succeeded"
  /\ workload = "running" /\ output = "running" /\ controller = "running"
  /\ watchdog = "armed" /\ canceled = FALSE /\ deadline = FALSE
  /\ sent = <<>> /\ writeFailed = FALSE /\ received = 0
  /\ requests = <<>> /\ asked = [k \in RequestKinds |-> 0]
  /\ premature = FALSE
  /\ handler = Idle /\ interrupted = FALSE /\ refused = None

--------------------------------------------------------------------------------
(* What the run thread's helpers do to the machine.                           *)

\* Mutant: the loss of the transport is noted but never observed.
LossUnobserved(m) == m

\* observeControllerLoss: nothing after the result or a first loss.
ObserveLoss(m) ==
  IF m.state = "terminated" \/ m.controller = "lost" THEN m ELSE ControllerLost(m)

\* observeWorkloadResult, for a status or for a failed observation.
ObserveResult(m, result) ==
  IF result = "error" THEN RuntimeObservationLost(m)
  ELSE IF WorkloadExitAccepted(m, result) THEN WorkloadExit(m, result)
  ELSE m

\* observeOutputFailure: a drained or timed-out pump is no failure to observe.
ObserveOutput(m, end) ==
  IF end = "delivery-failed" THEN ObserveLoss(m)
  ELSE IF end = "read-failed" /\ m.runtime # "lost" THEN RuntimeObservationLost(m)
  ELSE m

\* What is recorded of a pump that ended so.
OutputStatus(m, end) ==
  IF end = "drained" /\ m.runtime # "lost" THEN "drained" ELSE "failed"

\* The event to write next, if the controller can still be written to.
IfReachable(event) == IF healthy /\ bridge THEN event ELSE None

At(location) == pc = location /\ sending = None

\* Where finalizeWorkloadOutput returns to.
AfterFinalization == IF startupFailed THEN "cleanup" ELSE "await-completion"

--------------------------------------------------------------------------------
(* The run thread: startup.                                                   *)

StartBridge ==
  /\ At("prepare") /\ ~bridge
  /\ bridge' = TRUE
  /\ UNCHANGED <<machine, pc, sending, healthy, started, startupFailed, resolved,
                 ready, seenVars, outcomeVars, worldVars, channelVars>>

StartWorkload ==
  /\ At("prepare") /\ bridge /\ ~started
  /\ started' = TRUE
  /\ UNCHANGED <<machine, pc, sending, healthy, bridge, startupFailed, resolved, ready,
                 seenVars, outcomeVars, worldVars, channelVars>>

PrepareSucceeds ==
  /\ At("prepare") /\ started /\ watchdog = "armed"
  /\ pc' = "activate"
  /\ UNCHANGED <<machine, sending, healthy, restVars>>

\* Any step of prepare may fail, before or after the workload started; an exit
\* of the watchdog is noticed only where prepare looks for it.
PrepareFails ==
  /\ At("prepare")
  /\ machine' = IF canceled THEN LatchLocked(machine, "host-cancel") ELSE machine
  /\ pc' = "startup-failed"
  /\ startupFailed' = TRUE
  /\ watchdogSeen' \in {FALSE, watchdog = "exited"}
  /\ UNCHANGED <<sending, healthy, bridge, started, resolved, ready, exitSeen,
                 lossSeen, outcomeVars, worldVars, channelVars>>

Activate ==
  /\ At("activate")
  /\ machine.state = "preparing"
  /\ machine' = Activated(machine)
  /\ pc' = "ready"
  /\ UNCHANGED <<sending, healthy, restVars>>

\* The readiness mutex is held from here until the write is over.
SendReady ==
  /\ At("ready")
  /\ sending' = "ready"
  /\ pc' = "wait"
  /\ UNCHANGED <<machine, healthy, restVars>>

\* finishStartupFailure up to the shared teardown.
RecordStartupFailure ==
  /\ At("startup-failed")
  /\ \E finalized \in IF bridge /\ ~started
                      THEN {OutputStatus(machine, end) : end \in {output, "timed-out"}}
                      ELSE {None} :
       machine' = IF StartupFailureAccepted(machine, started, finalized)
                  THEN StartupFailure(machine, started, finalized) ELSE machine
  /\ resolved' = TRUE
  /\ pc' = IF started THEN "terminating" ELSE "cleanup"
  /\ UNCHANGED <<sending, healthy, bridge, started, startupFailed, ready, seenVars,
                 outcomeVars, worldVars, channelVars>>

--------------------------------------------------------------------------------
(* The run thread: writing one lifecycle event.                               *)

\* A failed write, the pump's included, has poisoned the gate for everyone.
SendSucceeds ==
  /\ sending # None
  /\ ~writeFailed
  /\ sending \in PreFinalizationEvents => ~deadline
  /\ sent' = Append(sent, sending)
  /\ ready' = (ready \/ sending = "ready")
  /\ resolved' = (resolved \/ sending = "ready")
  /\ sending' = None
  /\ UNCHANGED <<machine, pc, healthy, bridge, started, startupFailed, seenVars,
                 outcomeVars, worldVars, handlerVars, writeFailed>>

\* loseTransport
SendFails ==
  /\ sending # None
  /\ writeFailed' = TRUE
  /\ machine' = ObserveLoss(machine)
  /\ healthy' = FALSE
  /\ resolved' = (resolved \/ sending = "ready")
  /\ sending' = None
  /\ UNCHANGED <<pc, bridge, started, startupFailed, ready, seenVars, outcomeVars,
                 worldVars, handlerVars, sent>>

\* sendPreFinalizationLifecycleEvent after the deadline: nothing is written, and
\* the error is still handled as the loss of the transport.
SendExpires ==
  /\ sending \in PreFinalizationEvents /\ deadline
  /\ machine' = ObserveLoss(machine)
  /\ healthy' = FALSE
  /\ sending' = None
  /\ UNCHANGED <<pc, restVars>>

--------------------------------------------------------------------------------
(* The run thread: waiting.  waitForTermination and waitForControllerFinalization *)
(* test their condition, then block in a select that takes any one channel that *)
(* is ready: by then the request goroutine may have falsified the condition.    *)

Waiting == At("select") \/ At("select-completion")

Recheck == IF pc = "select" THEN "wait" ELSE "await-completion"

EnterSelect ==
  /\ \/ At("wait") /\ machine.state = "active" /\ pc' = "select"
     \/ At("await-completion") /\ machine.waitingFinalize /\ pc' = "select-completion"
  /\ UNCHANGED <<machine, sending, healthy, restVars>>

\* stateChanged: the request goroutine ended the wait.
SeeStateChanged ==
  /\ \/ At("select") /\ machine.state # "active"
     \/ At("select-completion") /\ ~machine.waitingFinalize
  /\ pc' = Recheck
  /\ UNCHANGED <<machine, sending, healthy, restVars>>

\* observeWorkloadResult.  A status seen after the publication deadline is
\* recorded and not announced.
WorkloadObserved(result) ==
  /\ machine' = ObserveResult(machine, result)
  /\ exitSeen' = IF result = "error" THEN "error" ELSE "status"
  /\ sending' = IF result # "error" /\ WorkloadExitAccepted(machine, result) /\ ~deadline
                THEN IfReachable("workload-exit") ELSE None

SeeWorkloadResult ==
  /\ At("select")
  /\ workload # "running" /\ exitSeen = None
  /\ WorkloadObserved(workload)
  /\ pc' = Recheck
  /\ UNCHANGED <<healthy, startupVars, lossSeen, watchdogSeen, outcomeVars,
                 worldVars, channelVars>>

SeeControllerExit ==
  /\ Waiting
  /\ controller = "exited" /\ ~lossSeen
  /\ machine' = ObserveLoss(machine)
  /\ lossSeen' = TRUE
  /\ healthy' = FALSE
  /\ pc' = Recheck
  /\ UNCHANGED <<sending, startupVars, exitSeen, watchdogSeen, outcomeVars,
                 worldVars, channelVars>>

SeeRequestsDone ==
  /\ Waiting
  /\ handler = Stopped
  /\ machine' = ObserveLoss(machine)
  /\ healthy' = FALSE
  /\ pc' = Recheck
  /\ UNCHANGED <<sending, restVars>>

\* observeOutputTermination: a drained pump alone means nothing yet.
SeeOutputEnd ==
  /\ At("select")
  /\ output \in {"read-failed", "delivery-failed"}
  /\ machine' = ObserveOutput(machine, output)
  /\ healthy' = (healthy /\ output # "delivery-failed")
  /\ pc' = Recheck
  /\ UNCHANGED <<sending, restVars>>

\* Mutant: the wait for termination does not select on the context.
HostCancelUnseen == FALSE /\ UNCHANGED supervisorVars

SeeHostCancel ==
  /\ At("select")
  /\ canceled
  /\ machine' = LatchLocked(machine, "host-cancel")
  /\ pc' = Recheck
  /\ UNCHANGED <<sending, healthy, restVars>>

\* Mutant: the watchdog's exit is reported to the controller even after the result.
WatchdogExitReported ==
  /\ watchdogSeen' = TRUE
  /\ machine' = IF machine.state = "terminated" THEN machine
                ELSE LatchLocked(machine, "cleanup-containment-lost")
  /\ sending' = IfReachable("diagnostic")

\* observeWatchdogExit
WatchdogExit ==
  /\ watchdogSeen' = TRUE
  /\ machine' = IF machine.state = "terminated" THEN machine
                ELSE LatchLocked(machine, "cleanup-containment-lost")
  /\ sending' = IF machine.state = "terminated" THEN None ELSE IfReachable("diagnostic")

\* The two waits select on the watchdog; cleanup and finish poll it first.
SeeWatchdogExit ==
  /\ watchdog = "exited" /\ ~watchdogSeen
  /\ \/ Waiting /\ pc' = Recheck
     \/ (At("cleanup") \/ At("finish")) /\ ~startupFailed /\ UNCHANGED pc
  /\ WatchdogExit
  /\ UNCHANGED <<healthy, startupVars, exitSeen, lossSeen, outcomeVars, worldVars,
                 channelVars>>

\* Termination began: interrupt the request being handled, keep the goroutine.
LeaveWait ==
  /\ At("wait") /\ machine.state # "active"
  /\ interrupted' = (handler \notin {Idle, Stopped})
  /\ pc' = "terminating"
  /\ UNCHANGED <<machine, sending, healthy, startupVars, seenVars, outcomeVars,
                 worldVars, requests, handler, refused, sent, writeFailed>>

--------------------------------------------------------------------------------
(* The run thread: teardown up to the result.                                 *)

SendTerminating ==
  /\ At("terminating")
  /\ sending' = IfReachable("terminating")
  /\ pc' = "stop"
  /\ UNCHANGED <<machine, healthy, restVars>>

\* The workload's end is already known, or its observation is already lost.
StopKnownWorkload ==
  /\ At("stop") /\ exitSeen # None
  /\ pc' = "finalize"
  /\ UNCHANGED <<machine, sending, healthy, restVars>>

\* A result arrives within the grace or after the forced stop ...
StopObservesWorkload ==
  /\ At("stop") /\ exitSeen = None
  /\ workload # "running"
  /\ WorkloadObserved(workload)
  /\ pc' = "finalize"
  /\ UNCHANGED <<healthy, startupVars, lossSeen, watchdogSeen, outcomeVars, worldVars,
                 channelVars>>

\* ... or does not arrive in time.
StopTimesOut ==
  /\ At("stop") /\ exitSeen = None
  /\ deadline
  /\ WorkloadObserved("error")
  /\ pc' = "finalize"
  /\ UNCHANGED <<healthy, startupVars, lossSeen, watchdogSeen, outcomeVars, worldVars,
                 channelVars>>

\* finalizeWorkloadOutput: the pump's failure is observed first, ...
FinalizeOutput ==
  /\ At("finalize")
  /\ output # "running" \/ deadline
  /\ output' = IF output = "running" THEN "timed-out" ELSE output
  /\ machine' = ObserveOutput(machine, output')
  /\ healthy' = (healthy /\ output' # "delivery-failed")
  /\ pc' = "record-output"
  /\ UNCHANGED <<sending, startupVars, seenVars, outcomeVars, workload, controller,
                 watchdog, canceled, deadline, received, asked, premature, channelVars>>

\* ... then the final status is recorded under the publication gate, ...
RecordOutput ==
  /\ At("record-output")
  /\ LET status   == OutputStatus(machine, output)
         accepted == OutputsFinalizedAccepted(machine, status)
     IN  /\ machine' = IF accepted THEN CompleteOutputFinalization(machine, status)
                       ELSE machine
         /\ publication' = IF accepted /\ healthy THEN "started" ELSE "failed"
         /\ pc' = IF accepted /\ healthy THEN "publish" ELSE AfterFinalization
  /\ UNCHANGED <<sending, healthy, startupVars, seenVars, delivery, cleanup, worldVars,
                 channelVars>>

\* ... announced to the controller, ...
PublishOutput ==
  /\ At("publish")
  /\ sending' = "outputs-finalized"
  /\ pc' = "record-publication"
  /\ UNCHANGED <<machine, healthy, restVars>>

\* ... and the announcement recorded before the gate opens.
RecordPublication ==
  /\ At("record-publication")
  /\ machine' = IF healthy /\ machine.waitingPublication THEN OutputsPublished(machine)
                ELSE machine
  /\ publication' = IF healthy THEN "succeeded" ELSE "failed"
  /\ pc' = AfterFinalization
  /\ UNCHANGED <<sending, healthy, startupVars, seenVars, delivery, cleanup, worldVars,
                 channelVars>>

LeaveAwaitCompletion ==
  /\ At("await-completion") /\ ~machine.waitingFinalize
  /\ pc' = "cleanup"
  /\ UNCHANGED <<machine, sending, healthy, restVars>>

\* Mutant: the controller may take for ever.
CompletionNeverExpires == FALSE /\ UNCHANGED supervisorVars

\* Mutant: a timer that does not ask whether the controller has just completed.
CompletionExpiresAnyway ==
  /\ At("select-completion")
  /\ machine' = ControllerFinalizationExpired(machine)
  /\ pc' = "cleanup"
  /\ UNCHANGED <<sending, healthy, restVars>>

\* The timer fires, possibly after the completion it was waiting for.
CompletionExpires ==
  /\ At("select-completion")
  /\ machine' = IF machine.waitingFinalize THEN ControllerFinalizationExpired(machine)
                ELSE machine
  /\ pc' = "cleanup"
  /\ UNCHANGED <<sending, healthy, restVars>>

\* Mutant: a failed cleanup without the recovery it calls for.
CleanupWithoutRecovery ==
  /\ At("cleanup")
  /\ startupFailed \/ watchdog = "armed" \/ watchdogSeen
  /\ cleanup' \in {"succeeded", "failed"}
  /\ pc' = "finish"
  /\ UNCHANGED <<machine, sending, healthy, startupVars, seenVars, publication,
                 delivery, worldVars, channelVars>>

CleanupWorkload ==
  /\ At("cleanup")
  /\ startupFailed \/ watchdog = "armed" \/ watchdogSeen
  /\ cleanup' \in {"succeeded", "failed-retry"}
  /\ pc' = "finish"
  /\ UNCHANGED <<machine, sending, healthy, startupVars, seenVars, publication,
                 delivery, worldVars, channelVars>>

FinishSession ==
  /\ At("finish")
  /\ startupFailed \/ watchdog = "armed" \/ watchdogSeen
  /\ LET finish == FinishStatus(machine, cleanup)
     IN  machine' = IF FinishAccepted(machine, finish) THEN Finished(machine, finish)
                    ELSE machine
  /\ pc' = "deliver"
  /\ UNCHANGED <<sending, healthy, restVars>>

--------------------------------------------------------------------------------
(* The run thread: delivering the result, and the end.                        *)

DeliverResult ==
  /\ At("deliver")
  /\ IF machine.state = "terminated" /\ healthy /\ bridge
     THEN delivery' = "started" /\ sending' = "terminated" /\ pc' = "record-delivery"
     ELSE pc' = "tail" /\ UNCHANGED <<delivery, sending>>
  /\ UNCHANGED <<machine, healthy, startupVars, seenVars, publication, cleanup,
                 worldVars, channelVars>>

RecordDelivery ==
  /\ At("record-delivery")
  /\ machine' = IF healthy THEN [machine EXCEPT !.delivered = TRUE] ELSE machine
  /\ delivery' = "resolved"
  /\ pc' = IF healthy THEN "await-acknowledgement" ELSE "tail"
  /\ UNCHANGED <<sending, healthy, startupVars, seenVars, publication, cleanup,
                 worldVars, channelVars>>

\* Acknowledged, timed out, or nobody left to acknowledge: the wait is over.
LeaveAwaitAcknowledgement ==
  /\ At("await-acknowledgement")
  /\ pc' = "tail"
  /\ UNCHANGED <<machine, sending, healthy, restVars>>

AwaitAcknowledgementSeesWatchdog ==
  /\ At("await-acknowledgement") /\ ~machine.acknowledged
  /\ watchdog = "exited" /\ ~watchdogSeen
  /\ WatchdogExit
  /\ pc' = "tail"
  /\ UNCHANGED <<healthy, startupVars, exitSeen, lossSeen, outcomeVars, worldVars,
                 channelVars>>

\* cleanupDeliveryTail stops the request goroutine; the rest is SessionOwnership.
CleanupTail ==
  /\ At("tail")
  /\ watchdogSeen' = (watchdogSeen \/ watchdog = "exited")
  /\ handler' = Stopped
  /\ pc' = "returned"
  /\ UNCHANGED <<machine, sending, healthy, startupVars, exitSeen, lossSeen,
                 outcomeVars, worldVars, requests, interrupted, refused, sent,
                 writeFailed>>

--------------------------------------------------------------------------------
(* The request goroutine: runRequests and handleRequest.                      *)

\* An error ends the goroutine, unless the host itself interrupted the request.
Fail(request) ==
  /\ handler' = IF interrupted THEN Idle ELSE Stopped
  /\ refused' = IF interrupted THEN refused ELSE request
  /\ interrupted' = FALSE
  /\ UNCHANGED machine

Succeed ==
  /\ handler' = Idle
  /\ interrupted' = FALSE
  /\ UNCHANGED refused

\* Mutant: no request waits for a gate.
NeverGated(request) == FALSE

\* A completion that overtakes the publication, or an acknowledgement that
\* overtakes the delivery, is held until the outcome is recorded.
Gated(request) ==
  \/ request = "complete" /\ publication # "idle"
  \/ request = "acknowledge" /\ delivery # "idle"

ReadRequest ==
  /\ bridge /\ handler = Idle /\ requests # <<>>
  /\ handler' = <<"read", Head(requests)>>
  /\ requests' = Tail(requests)
  /\ UNCHANGED <<machine, threadVars, worldVars, interrupted, refused, sent, writeFailed>>

Advance(stage) ==
  /\ handler' = <<stage, handler[2]>>
  /\ UNCHANGED <<machine, interrupted, refused>>

\* The readiness mutex is taken by every request but an acknowledgement, which
\* waits for the end of startup instead.
AdmitRequest ==
  /\ handler[1] = "read"
  /\ sending # "ready"
  /\ LET request == handler[2]
     IN  /\ request = "acknowledge" => resolved
         /\ IF request # "acknowledge" /\ ~ready THEN Fail(request)
            ELSE Advance(IF Gated(request) THEN "gated" ELSE "apply")
  /\ UNCHANGED <<threadVars, worldVars, requests, sent, writeFailed>>

PassGate ==
  /\ handler[1] = "gated"
  /\ \/ /\ handler[2] = "complete"
        /\ publication \in {"succeeded", "failed"}
        /\ IF publication = "succeeded" THEN Advance("apply") ELSE Fail("complete")
     \/ /\ handler[2] = "acknowledge"
        /\ delivery = "resolved"
        /\ Advance("apply")
  /\ UNCHANGED <<threadVars, worldVars, requests, sent, writeFailed>>

\* Waiting at a gate or before it ends with the request's own context.
GiveUpWaiting ==
  /\ interrupted
  /\ \/ handler[1] = "gated"
     \/ handler = <<"read", "acknowledge">>
  /\ Fail(handler[2])
  /\ UNCHANGED <<threadVars, worldVars, requests, sent, writeFailed>>

ApplyInput ==
  /\ handler = <<"apply", "input">>
  /\ \/ /\ "input" \in Operations /\ machine.state = "active"
        /\ handler' = <<"write", "input">>
        /\ UNCHANGED <<machine, interrupted, refused>>
     \/ /\ "input" \in Operations /\ machine.state = "terminating"
        /\ Succeed
        /\ UNCHANGED machine
     \/ /\ "input" \notin Operations \/ machine.state \notin {"active", "terminating"}
        /\ Fail("input")
  /\ UNCHANGED <<threadVars, worldVars, requests, sent, writeFailed>>

\* The accepted input is written to the PTY; the write may block or fail.
WriteInput ==
  /\ handler = <<"write", "input">>
  /\ (Succeed /\ UNCHANGED machine) \/ Fail("pty-write")
  /\ UNCHANGED <<threadVars, worldVars, requests, sent, writeFailed>>

ApplyTerminate ==
  /\ handler = <<"apply", "terminate">>
  /\ IF TerminateAccepted(machine)
     THEN machine' = LatchLocked(machine, "controller-terminate") /\ Succeed
     ELSE Fail("terminate")
  /\ UNCHANGED <<threadVars, worldVars, requests, sent, writeFailed>>

ApplyComplete ==
  /\ handler = <<"apply", "complete">>
  /\ IF CompleteAccepted(machine)
     THEN machine' = Completed(machine) /\ Succeed
     ELSE Fail("complete")
  /\ UNCHANGED <<threadVars, worldVars, requests, sent, writeFailed>>

ApplyAcknowledge ==
  /\ handler = <<"apply", "acknowledge">>
  /\ IF AcknowledgeAccepted(machine)
     THEN machine' = [machine EXCEPT !.acknowledged = TRUE] /\ Succeed
     ELSE Fail("acknowledge")
  /\ UNCHANGED <<threadVars, worldVars, requests, sent, writeFailed>>

\* The controller's end of the channel is gone, or does not speak the protocol.
ReadFails ==
  /\ bridge /\ handler = Idle /\ requests = <<>>
  /\ controller = "exited" \/ "stream-loss" \in Faults
  /\ handler' = Stopped
  /\ UNCHANGED <<machine, threadVars, worldVars, requests, interrupted, refused, sent,
                 writeFailed>>

--------------------------------------------------------------------------------
(* The controller, the workload, the pump, the watchdog and the host.         *)

Received(event) == \E i \in 1..received : sent[i] = event

\* When a controller that follows the protocol sends each request.
MaySend(request) ==
  CASE request = "input"       -> Received("ready") /\ ~Received("terminating")
    [] request = "terminate"   -> Received("ready") /\ ~Received("terminating")
    [] request = "complete"    -> Received("ready") /\ Received("outputs-finalized")
    [] request = "acknowledge" -> Received("terminated")

Allowance(request) == IF request = "input" THEN MaxInputs ELSE 1

ControllerSends ==
  \E request \in RequestKinds :
    /\ controller = "running" /\ bridge
    /\ asked[request] < Allowance(request)
    /\ request \in Operations \cup {"acknowledge"}
    /\ request \in Eager \/ MaySend(request)
    /\ premature' = (premature \/ ~MaySend(request))
    /\ requests' = Append(requests, request)
    /\ asked' = [asked EXCEPT ![request] = @ + 1]
    /\ UNCHANGED <<machine, threadVars, processVars, canceled, deadline, received,
                   handler, interrupted, refused, sent, writeFailed>>

\* The controller reads what has arrived.
ControllerReceives ==
  /\ controller = "running"
  /\ received < Len(sent)
  /\ received' = Len(sent)
  /\ UNCHANGED <<machine, threadVars, processVars, canceled, deadline, asked,
                 premature, channelVars>>

ControllerExits ==
  /\ "controller-exit" \in Faults /\ controller = "running"
  /\ controller' = "exited"
  /\ UNCHANGED <<machine, threadVars, workload, output, watchdog, canceled, deadline,
                 received, asked, premature, channelVars>>

\* The workload exits, or the runtime stops telling whether it did; after a
\* timeout nobody asks again.
WorkloadEnds ==
  /\ started /\ workload = "running" /\ exitSeen = None
  /\ workload' \in ExitStatuses \cup {"error"}
  /\ UNCHANGED <<machine, threadVars, output, controller, watchdog, canceled, deadline,
                 received, asked, premature, channelVars>>

\* What stops after the deadline is reported as timed out.
OutputStops ==
  /\ bridge /\ output = "running" /\ ~deadline
  /\ output' \in OutputEnds \ {"timed-out"}
  /\ writeFailed' = (writeFailed \/ output' = "delivery-failed")
  /\ UNCHANGED <<machine, threadVars, workload, controller, watchdog, canceled,
                 deadline, received, asked, premature, handlerVars, sent>>

WatchdogExits ==
  /\ "watchdog-exit" \in Faults /\ watchdog = "armed"
  /\ watchdog' = "exited"
  /\ UNCHANGED <<machine, threadVars, workload, output, controller, canceled, deadline,
                 received, asked, premature, channelVars>>

\* The 30 seconds since termination began run out while the thread waits for the
\* workload, the pump or the controller, or while Docker cleans up.
DeadlinePasses ==
  /\ At("stop") \/ At("finalize") \/ At("select-completion") \/ At("cleanup")
  /\ ~deadline
  /\ deadline' = TRUE
  /\ UNCHANGED <<machine, threadVars, processVars, canceled, received, asked, premature, channelVars>>

\* Once the session is terminating nobody looks at the context any more.
HostCancels ==
  /\ "host-cancel" \in Faults /\ ~canceled
  /\ machine.state \in {"preparing", "active"}
  /\ canceled' = TRUE
  /\ UNCHANGED <<machine, threadVars, processVars, deadline, received, asked,
                 premature, channelVars>>

--------------------------------------------------------------------------------

RunThread ==
  \/ StartBridge \/ StartWorkload \/ PrepareSucceeds \/ PrepareFails
  \/ Activate \/ SendReady \/ RecordStartupFailure
  \/ SendSucceeds \/ SendFails \/ SendExpires
  \/ EnterSelect \/ SeeStateChanged \/ SeeWorkloadResult \/ SeeControllerExit \/ SeeRequestsDone \/ SeeOutputEnd
  \/ SeeWatchdogExit \/ SeeHostCancel \/ LeaveWait
  \/ SendTerminating \/ StopKnownWorkload \/ StopObservesWorkload \/ StopTimesOut
  \/ FinalizeOutput \/ RecordOutput \/ PublishOutput \/ RecordPublication
  \/ LeaveAwaitCompletion \/ CompletionExpires
  \/ CleanupWorkload \/ FinishSession
  \/ DeliverResult \/ RecordDelivery
  \/ LeaveAwaitAcknowledgement \/ AwaitAcknowledgementSeesWatchdog
  \/ CleanupTail

RequestGoroutine ==
  \/ ReadRequest \/ AdmitRequest \/ PassGate \/ GiveUpWaiting
  \/ ApplyInput \/ WriteInput \/ ApplyTerminate \/ ApplyComplete \/ ApplyAcknowledge
  \/ ReadFails

World ==
  \/ ControllerSends \/ ControllerReceives \/ ControllerExits
  \/ WorkloadEnds \/ OutputStops \/ WatchdogExits \/ DeadlinePasses \/ HostCancels

SupervisorNext == RunThread \/ RequestGoroutine \/ World

\* The run thread never stops while it can do something, and time passes.  The
\* controller, the workload, the pump and the request goroutine owe nothing.
SupervisorSpec ==
  /\ SupervisorInit /\ [][SupervisorNext]_supervisorVars
  /\ WF_supervisorVars(RunThread) /\ WF_supervisorVars(DeadlinePasses)

--------------------------------------------------------------------------------
(* Properties.                                                                *)

\* The supervisor's fields hold what their Go types and protocol allow.
SupervisorTypeOK ==
  /\ pc \in Locations /\ sending \in Events \cup {None}
  /\ {healthy, bridge, started, startupFailed, resolved, ready, lossSeen, watchdogSeen,
      canceled, deadline, writeFailed, interrupted, premature} \subseteq BOOLEAN
  /\ exitSeen \in {None, "status", "error"}
  /\ publication \in {"idle", "started", "succeeded", "failed"}
  /\ delivery \in {"idle", "started", "resolved"}
  /\ cleanup \in CleanupOutcomes
  /\ workload \in ExitStatuses \cup {"running", "error"}
  /\ output \in OutputEnds \cup {"running"}
  /\ sent \in Seq(Events) /\ received \in 0..Len(sent)
  /\ requests \in Seq(RequestKinds)
  /\ asked \in [RequestKinds -> Nat]
  /\ handler \in {Idle, Stopped} \cup ({"read", "gated", "apply", "write"} \X RequestKinds)
  /\ refused \in RequestKinds \cup {None, "pty-write"}

\* A run that returns has an authoritative result, whatever failed and in
\* whatever order: FinishSession is never refused by the machine.
ReturnsWithResult == pc = "returned" => machine.state = "terminated"

Sent(event) == \E i \in 1..Len(sent) : sent[i] = event

\* A controller is credited with completing only if it was told, successfully,
\* that the outputs are final.
CompletionAnnounced == machine.controller = "completed" => Sent("outputs-finalized")

\* A controller that sends its answers when it has received the event, and not
\* before, is heard: the answer to "terminated" is never refused, the answer to
\* "outputs-finalized" only after the wait for it was given up.
PromptAnswersHeard ==
  ~premature =>
    /\ refused # "acknowledge"
    /\ refused = "complete" => machine.controller \in {"finalization-timeout", "lost"}

\* The controller sees one "ready" and it is first, nothing but a diagnostic
\* between "outputs-finalized" and "terminated", nothing after "terminated", and
\* no outcome of the outputs before it knows that the session is terminating.
EventsInOrder ==
  /\ \A i, j \in 1..Len(sent) : sent[i] = sent[j] => i = j
  /\ \A i \in 1..Len(sent) :
       /\ sent[i] = "ready" => i = 1
       /\ sent[i] = "outputs-finalized" =>
            /\ \E j \in 1..(i - 1) : sent[j] = "terminating"
            /\ \A j \in (i + 1)..Len(sent) : sent[j] \in {"diagnostic", "terminated"}
       /\ sent[i] = "terminated" =>
            /\ i = Len(sent)
            /\ machine.activated => \E j \in 1..(i - 1) : sent[j] = "outputs-finalized"

\* Whatever fails and in whatever order: the supervisor's fields keep their
\* types, a run that returns has a result, and the controller's events are in
\* protocol order.
SupervisorSafe == SupervisorTypeOK /\ ReturnsWithResult /\ EventsInOrder

\* Prompt answers are heard and early ones are not credited, although the
\* answer may be read before the supervisor has noted that it sent the event.
AnswersHeard == PromptAnswersHeard /\ CompletionAnnounced

\* Every step of the supervisor, of the request goroutine and of the world is
\* one legal observation or request of MachineV1, or leaves it alone.
ImplementsLifecycle == Spec

\* Once a session is terminating its run returns: no wait is unbounded and no
\* wait hides another.
TerminationEnds == machine.state = "terminating" ~> pc = "returned"

\* A canceled host operation returns, at whatever point it is canceled.
CancellationEnds == canceled ~> pc = "returned"

\* Terminating sessions and canceled host operations return.
SessionsEnd == TerminationEnds /\ CancellationEnds

\* "Input or resize already in flight when host termination latches is discarded"
\* (docs/CONTROLLED_SESSION_DESIGN.md): while the transport is healthy it never
\* stops the goroutine that is still to read the acknowledgement.
InFlightInputDiscarded == healthy => refused # "input"

\* The omission of a late advisory event is not taken for the loss of a healthy
\* controller (the comment in observeWorkloadResult): a controller declared lost
\* has exited, or stopped being read, or a write to it failed.
LossIsReal ==
  machine.controller = "lost" =>
    writeFailed \/ controller = "exited" \/ handler = Stopped

================================================================================
