------------------------- MODULE WorkloadLifecycle -------------------------
(***************************************************************************)
(* `reploy up`, `down` and `restart` on the workload container of one      *)
(* deployment, and the process systemd runs for an installed one.  A       *)
(* durable record says what is known of the last process: which process it *)
(* was (container and start time), the runtime inputs it was started with, *)
(* whether its private environment was sent and whether its startup was    *)
(* confirmed.  The container itself may exit, or be restarted by hand, at  *)
(* any time, and either actor may be killed between any two steps.         *)
(*                                                                         *)
(* Source: current_workload_run.go, current_workload_lifecycle.go,         *)
(* workload_lifecycle.go, lifecycle.go, private_workload_start.go and the  *)
(* installed_service_*.go files of internal/dockerdeploy, and              *)
(* internal/deploy/workload_lifecycle.go.  Only one command is admitted at *)
(* a time (module LiveRunAdmission); the service bypasses that admission   *)
(* and meets the command at the operation lock.                            *)
(***************************************************************************)
EXTENDS Naturals, Sequences

CONSTANTS
    MaxStarts,     \* process starts of a behaviour
    MaxCommands,   \* commands of a behaviour
    MaxTrouble     \* kills, manual restarts and changed inputs of a behaviour

ASSUME WorkloadBounds == MaxStarts \in Nat /\ MaxCommands \in Nat /\ MaxTrouble \in Nat

VARIABLES
    record,      \* workload-lifecycle.json
    container,   \* the workload container: its ID, its start time, whether it
                 \* runs and was started by hand; the inputs it was made with,
                 \* whether its application was launched, how often it received
                 \* the private environment
    files,       \* the published Compose inputs
    wanted,      \* the runtime inputs the current build and plan ask for
    envPresent,  \* the deployment's .env holds assignments
    managed,     \* a system installation: systemctl starts and stops it
    op,          \* what the command and the service process are doing
    workloadLock,\* who holds the operation lock
    starts,      \* processes started so far; start times are numbered
    commands,    \* commands issued
    trouble      \* kills, manual restarts and changed inputs that happened

world == <<files, wanted, envPresent, managed>>
budgets == <<commands, trouble>>
workloadVars == <<record, container, world, op, workloadLock, starts, budgets>>

Runtimes == 1..2
Starts == 0..MaxStarts
Actors == {"cli", "service"}
NoInputs == [runtime |-> 1, private |-> FALSE]
NoContainer ==
    [id |-> 0, at |-> 0, up |-> FALSE, hand |-> FALSE, made |-> NoInputs, live |-> FALSE, got |-> 0]

\* What inspectPrivateWorkloadContainerV1 reports.
Inspect(c) == [id |-> c.id, at |-> c.at, up |-> c.up]

\* privateWorkloadRecordV1: what a startup attempt begins with.
StartingRecord(runtime) ==
    [state |-> "starting", runtime |-> runtime, id |-> 0, at |-> 0,
     claimed |-> FALSE, complete |-> FALSE, handoff |-> FALSE]

NoRecord == [StartingRecord(1) EXCEPT !.state = "absent"]

IdleOp ==
    [stage |-> "idle", action |-> "up", todo |-> <<>>, private |-> FALSE, rec |-> NoRecord,
     seen |-> Inspect(NoContainer), reused |-> FALSE, changed |-> FALSE,
     mine |-> Inspect(NoContainer),
     owned |-> FALSE, failed |-> FALSE, retried |-> FALSE]

WorkloadInit ==
    /\ record = NoRecord
    /\ container = NoContainer
    /\ files = NoInputs
    /\ wanted = 1
    /\ envPresent \in BOOLEAN
    /\ managed \in BOOLEAN
    /\ op = [a \in Actors |-> IdleOp]
    /\ workloadLock = "free"
    /\ starts = 0
    /\ commands = 0
    /\ trouble = 0

SameProcess(a, b) == a.id = b.id /\ a.at = b.at

\* initialize: the record speaks of the process that is there.
Completed(r, c) ==
    /\ SameProcess(r, c) /\ r.state = "up" /\ r.complete
    /\ r.claimed => r.handoff

\* The operation lock is free for a, or a holds it already.
MayLock(a) == workloadLock \in {"free", a}

\* a goes to a stage with the operation lock released, unless a is the
\* service, which keeps it until it is ready.
Release(a) == workloadLock' = IF a = "service" THEN "service" ELSE "free"

-----------------------------------------------------------------------------
(* The command, up to its lifecycle plan                                    *)

\* runCurrentWorkloadV1 up to the unlock: the command is admitted, the build
\* and the host validated and the runtime inputs published, without the
\* private launcher.
AdmitCommand(action) ==
    /\ op["cli"].stage = "idle" /\ workloadLock = "free" /\ commands < MaxCommands
    /\ commands' = commands + 1
    /\ files' = [runtime |-> wanted, private |-> FALSE]
    /\ op' = [op EXCEPT !["cli"] = [IdleOp EXCEPT !.stage = "init", !.action = action,
                                     !.private = envPresent /\ action # "down"]]
    /\ UNCHANGED <<record, container, wanted, envPresent, managed, workloadLock, starts, trouble>>

\* The validation fails: `up` and `restart` end; `down` stops the recorded
\* deployment without hooks (stopOwnedCurrentWorkloadV1), first noting it.
AdmitStopOwned ==
    /\ op["cli"].stage = "idle" /\ workloadLock = "free" /\ commands < MaxCommands
    /\ commands' = commands + 1
    /\ workloadLock' = "cli"
    /\ record' = IF record = NoRecord THEN record ELSE [record EXCEPT !.state = "stopping"]
    /\ op' = [op EXCEPT !["cli"] = [IdleOp EXCEPT !.stage = "stopOwned", !.action = "down"]]
    /\ UNCHANGED <<container, world, starts, trouble>>

\* What a stop command (compose down, or systemctl stop and its ExecStop) may
\* leave: the container removed, or still as it is when the command fails.
StopOutcomes == {NoContainer, container}

\* systemctl stop also ends the service process, wherever it is.
ServiceAfterStop(o) == IF managed THEN [o EXCEPT !["service"] = IdleOp] ELSE o
LockAfterStop == IF managed /\ workloadLock = "service" THEN "free" ELSE workloadLock

StopOwned ==
    /\ op["cli"].stage = "stopOwned"
    /\ container' \in StopOutcomes
    /\ record' = IF record = NoRecord \/ container'.up THEN record
                 ELSE [record EXCEPT !.state = "down"]
    /\ op' = ServiceAfterStop([op EXCEPT !["cli"] = IdleOp])
    /\ workloadLock' = "free"
    /\ UNCHANGED <<world, starts, budgets>>

\* initialize, under the lock.
Initialize(a) ==
    /\ op[a].stage = "init" /\ MayLock(a)
    /\ LET done == Completed(record, container) /\ container.up IN
       op' = [op EXCEPT ![a] = [@ EXCEPT
                  !.stage = "prepare", !.seen = Inspect(container),
                  !.rec = IF SameProcess(record, container) /\ record # NoRecord THEN record
                          ELSE StartingRecord(wanted),
                  !.reused = done /\ record.runtime = wanted,
                  !.changed = done /\ record.runtime # wanted]]
    /\ UNCHANGED <<record, container, world, workloadLock, starts, budgets>>

\* The planned operations; hooks of a stop run only for a confirmed process,
\* and a stop that is resumed does not repeat before_stop; systemd's process
\* runs the start hooks of a managed workload.
StopPlan(o) ==
    IF ~o.seen.up \/ ~o.rec.complete THEN <<"stop">>
    ELSE IF o.rec.state = "stopping" THEN <<"stop", "after_stop">>
    ELSE <<"before_stop", "stop", "after_stop">>

StartPlan(a) == IF a = "cli" /\ managed THEN <<"start">>
                ELSE <<"before_start", "start", "after_start">>

\* The rest of runCurrentWorkloadLifecycleV1 before it executes its plan.
PrepareCommand ==
    LET o == op["cli"]
        restart == o.action = "restart" \/ (o.action = "up" /\ o.seen.up /\ o.changed) IN
    /\ o.stage = "prepare" /\ MayLock("cli")
    /\ files' = IF o.private /\ (o.action = "restart" \/ ~o.reused)
                THEN [files EXCEPT !.private = TRUE]
                ELSE IF o.action = "up" /\ o.reused THEN [files EXCEPT !.private = o.rec.handoff]
                ELSE files
    /\ \/ /\ o.action = "up" /\ (o.reused \/ (o.seen.up /\ ~o.changed))
          /\ op' = [op EXCEPT !["cli"] = IdleOp]
       \/ /\ ~(o.action = "up" /\ (o.reused \/ (o.seen.up /\ ~o.changed)))
          /\ op' = [op EXCEPT !["cli"].stage = "next",
                              !["cli"].todo = (IF o.action = "down" \/ restart
                                               THEN StopPlan(o) ELSE <<>>)
                                              \o (IF o.action = "down" THEN <<>>
                                                  ELSE StartPlan("cli")),
                              !["cli"].reused = FALSE, !["cli"].changed = FALSE]
    /\ UNCHANGED <<record, container, wanted, envPresent, managed, workloadLock, starts, budgets>>

-----------------------------------------------------------------------------
(* ExecuteLifecycle                                                         *)

\* The operation succeeded; an operation that fails ends the plan in rollback.
AdvancePlan(o) == [o EXCEPT !.stage = "next", !.todo = Tail(o.todo)]
FailPlan(o) == [o EXCEPT !.stage = "rollback"]

IsNext(a, kinds) == op[a].stage = "next" /\ op[a].todo # <<>> /\ Head(op[a].todo) \in kinds

\* A hook runs its command in a transient container, after the readiness
\* checks it requires.
RunHook(a) ==
    /\ IsNext(a, {"before_stop", "after_stop", "before_start", "after_start"}) /\ MayLock(a)
    /\ \/ op' = [op EXCEPT ![a] = AdvancePlan(@)]
       \/ op' = [op EXCEPT ![a] = FailPlan(@)]
    /\ UNCHANGED <<record, container, world, workloadLock, starts, budgets>>

\* A bug: the stop command's success is taken for the shutdown.
StopRunUnconfirmed ==
    /\ op["cli"].stage = "stopping" /\ (managed \/ MayLock("cli"))
    /\ container' \in StopOutcomes
    /\ workloadLock' = LockAfterStop
    /\ record' = [op["cli"].rec EXCEPT !.state = "down"]
    /\ op' = ServiceAfterStop([op EXCEPT !["cli"] = AdvancePlan(@)])
    /\ UNCHANGED <<world, starts, budgets>>

\* stop gives up: the inspection fails, or the record cannot be written.
StopRefused ==
    /\ IsNext("cli", {"stop"}) /\ MayLock("cli")
    /\ op' = [op EXCEPT !["cli"] = FailPlan(@)]
    /\ UNCHANGED <<record, container, world, workloadLock, starts, budgets>>

\* stop: the process that is running is noted before anything is stopped.  The
\* write may have happened although it is reported as failed.
StopBegin ==
    /\ IsNext("cli", {"stop"}) /\ MayLock("cli")
    /\ LET r == IF container.up
                THEN [op["cli"].rec EXCEPT !.state = "stopping", !.id = container.id,
                                           !.at = container.at]
                ELSE [op["cli"].rec EXCEPT !.state = "stopping"] IN
       /\ record' = r
       /\ \E s \in {"stopping", "rollback"} :
            op' = [op EXCEPT !["cli"].rec = r, !["cli"].stage = s]
    /\ UNCHANGED <<container, world, workloadLock, starts, budgets>>

\* The stop command, the inspection that follows it, and `down` when nothing
\* runs.  The command's own failure still fails the plan.
StopRun ==
    /\ op["cli"].stage = "stopping" /\ (managed \/ MayLock("cli"))
    /\ container' \in StopOutcomes
    /\ workloadLock' = LockAfterStop
    /\ \E failed \in IF container'.up THEN {TRUE} ELSE BOOLEAN :
         LET r == [op["cli"].rec EXCEPT !.state = "down"]
             o == [op["cli"] EXCEPT !.rec = IF container'.up THEN @ ELSE r] IN
         /\ record' = IF container'.up THEN record ELSE r
         /\ op' = ServiceAfterStop([op EXCEPT !["cli"] = IF failed THEN FailPlan(o)
                                                          ELSE AdvancePlan(o)])
    /\ UNCHANGED <<world, starts, budgets>>

\* systemctl start: systemd runs the service process unless it runs already.
\* The command holds no lock while it waits, for the service needs it.
ManagedStart ==
    /\ managed /\ IsNext("cli", {"start"})
    /\ op["service"].stage = "idle"
    /\ op' = [op EXCEPT !["cli"].stage = "awaiting", !["service"].stage = "boot"]
    /\ UNCHANGED <<record, container, world, workloadLock, starts, budgets>>

\* A bug: only readiness ends the wait.
ManagedStartedWhenReady ==
    /\ managed
    /\ op["cli"].stage = "awaiting" \/ IsNext("cli", {"start"})
    /\ op["service"].stage = "ready"
    /\ op' = [op EXCEPT !["cli"] = [AdvancePlan(@) EXCEPT !.mine = Inspect(container),
                                                      !.owned = TRUE]]
    /\ UNCHANGED <<record, container, world, workloadLock, starts, budgets>>

\* systemctl start returns: the service is ready, or it failed.  The process
\* is this command's if it is not the one that was seen running at first; one
\* that has exited already fails the plan (requireComposeServiceRunning).
ManagedStarted ==
    /\ managed
    /\ op["cli"].stage = "awaiting" \/ IsNext("cli", {"start"})
    /\ \/ /\ op["service"].stage = "ready"
          /\ LET seen == op["cli"].seen IN
             op' = [op EXCEPT !["cli"] =
                     [(IF container.up THEN AdvancePlan(@) ELSE FailPlan(@)) EXCEPT
                      !.mine = Inspect(container),
                      !.owned = container.id # 0 /\
                                (container.id # seen.id
                                 \/ (~seen.up /\ container.at # seen.at))]]
       \/ /\ op["cli"].stage = "awaiting" /\ op["service"].stage = "idle"
          /\ op' = [op EXCEPT !["cli"] = FailPlan(@)]
    /\ UNCHANGED <<record, container, world, workloadLock, starts, budgets>>

-----------------------------------------------------------------------------
(* startAndInjectPrivateWorkloadEnvironmentWithFailureCleanupHookV1         *)

\* A process that runs is reused when the record confirms it and refused
\* otherwise; a retained failed container is removed; then the attempt is
\* recorded.
StartBegin(a) ==
    /\ IsNext(a, {"start"}) /\ ~(a = "cli" /\ managed) /\ MayLock(a)
    /\ IF container.up
       THEN /\ op' = [op EXCEPT ![a] =
                       IF Completed(record, container) /\ record.runtime = wanted
                       THEN AdvancePlan(@) ELSE FailPlan(@)]
            /\ UNCHANGED <<record, container, workloadLock>>
       ELSE LET retained == record.state = "down" /\ container.id # 0
                            /\ SameProcess(record, container) IN
            /\ container' = IF retained THEN NoContainer ELSE container
            /\ record' = StartingRecord(wanted)
            /\ op' = [op EXCEPT ![a].stage = "launch", ![a].mine = Inspect(container')]
            /\ workloadLock' = a
    /\ UNCHANGED <<world, starts, budgets>>

\* The gate right before the container is created refuses: the build, the
\* host sources or the masked paths changed.
StartRefused(a) ==
    /\ IsNext(a, {"start"}) /\ ~(a = "cli" /\ managed) /\ MayLock(a)
    /\ op' = [op EXCEPT ![a] = FailPlan(@)]
    /\ UNCHANGED <<record, container, world, workloadLock, starts, budgets>>

\* compose up: it starts the stopped container, or recreates it when its
\* inputs changed; what runs with the current inputs is left alone.
Started(keepId, inputs) ==
    [id |-> IF keepId THEN container.id ELSE starts + 1, at |-> starts + 1, up |-> TRUE,
     hand |-> FALSE, made |-> inputs, live |-> FALSE, got |-> 0]

ComposeUp(a) ==
    /\ op[a].stage = "launch"
    /\ \/ /\ container.up /\ container.made = files
          /\ UNCHANGED <<container, starts>>
          /\ op' = [op EXCEPT ![a].stage = "look", ![a].failed = FALSE]
       \/ /\ ~(container.up /\ container.made = files) /\ starts < MaxStarts
          /\ starts' = starts + 1
          /\ container' = Started(container.id # 0 /\ container.made = files, files)
          /\ \E failed \in BOOLEAN :
               op' = [op EXCEPT ![a].stage = "look", ![a].failed = failed]
       \/ /\ op' = [op EXCEPT ![a].stage = "look", ![a].failed = TRUE]
          /\ UNCHANGED <<container, starts>>
    /\ UNCHANGED <<record, world, workloadLock, budgets>>

\* The inspection after the start decides whether the process is this
\* attempt's own.  A private environment is claimed before it is sent.
LookAfterStart(a) ==
    LET before == op[a].mine
        owned == container.id # 0 /\ (container.id # before.id
                                      \/ (~before.up /\ container.at # before.at))
        claim == [StartingRecord(wanted) EXCEPT !.id = container.id, !.at = container.at,
                                                !.claimed = op[a].private] IN
    /\ op[a].stage = "look"
    /\ \/ /\ ~op[a].failed /\ container.up /\ owned
          /\ record' = IF op[a].private THEN claim ELSE record
          /\ op' = [op EXCEPT ![a].stage = IF op[a].private THEN "inject" ELSE "prove",
                              ![a].mine = Inspect(container), ![a].owned = TRUE, ![a].rec = claim,
                              ![a].seen = Inspect(NoContainer)]
       \/ /\ op[a].failed \/ ~container.up \/ ~owned
          /\ op' = [op EXCEPT ![a].stage = IF a = "service" THEN "rollback" ELSE "cleanup",
                              ![a].mine = Inspect(container), ![a].owned = owned,
                              ![a].rec = StartingRecord(wanted)]
          /\ UNCHANGED record
       \* The container cannot be inspected: nothing is known to be owned.
       \/ /\ op' = [op EXCEPT ![a].stage = "rollback", ![a].owned = FALSE]
          /\ UNCHANGED record
    /\ UNCHANGED <<container, world, workloadLock, starts, budgets>>

\* `compose up` failed on a stale network: `compose down`, and once more.
RetryStaleNetwork ==
    /\ op["cli"].stage = "cleanup" /\ op["cli"].failed /\ ~op["cli"].owned
    /\ op["cli"].action = "up" /\ ~op["cli"].retried
    /\ container' \in StopOutcomes
    /\ op' = [op EXCEPT !["cli"].stage = IF container' = NoContainer THEN "next" ELSE "rollback",
                        !["cli"].retried = TRUE]
    /\ workloadLock' = "free"
    /\ UNCHANGED <<record, world, starts, budgets>>

\* A bug: a relay that failed is tried again.
InjectAgain(a) ==
    /\ op[a].stage = "inject" /\ container.up /\ container.id = op[a].mine.id
    /\ container' = [container EXCEPT !.got = @ + 1]
    /\ UNCHANGED <<record, op, workloadLock, world, starts, budgets>>

\* The relay writes the private environment into whatever process runs in the
\* container; the handoff counts only if it is still the claimed process.
Inject(a) ==
    /\ op[a].stage = "inject"
    /\ LET running == container.up /\ container.id = op[a].mine.id
           ok == [op[a].rec EXCEPT !.handoff = TRUE] IN
       \/ /\ running
          /\ container' = [container EXCEPT !.got = @ + 1, !.live = TRUE]
          /\ IF SameProcess(container, op[a].mine)
             THEN /\ record' = ok
                  /\ op' = [op EXCEPT ![a] = [AdvancePlan(@) EXCEPT !.rec = ok]]
                  /\ Release(a)
             ELSE /\ op' = [op EXCEPT ![a].stage = IF a = "service" THEN "rollback"
                                                   ELSE "cleanup"]
                  /\ UNCHANGED <<record, workloadLock>>
       \/ /\ \/ running /\ container' = [container EXCEPT !.got = @ + 1]
             \/ UNCHANGED container
          /\ op' = [op EXCEPT ![a].stage = IF a = "service" THEN "rollback" ELSE "cleanup"]
          /\ UNCHANGED <<record, workloadLock>>
    /\ UNCHANGED <<world, starts, budgets>>

\* confirmApplicationLaunchV1 for a process without a private environment.
ProveLaunch(a) ==
    /\ op[a].stage = "prove"
    /\ IF container.up /\ container.id = op[a].mine.id /\ container.live
       THEN /\ record' = op[a].rec
            /\ op' = [op EXCEPT ![a] = AdvancePlan(@)]
            /\ Release(a)
       ELSE /\ op' = [op EXCEPT ![a].stage = IF a = "service" THEN "rollback" ELSE "cleanup"]
            /\ UNCHANGED <<record, workloadLock>>
    /\ UNCHANGED <<container, world, starts, budgets>>

-----------------------------------------------------------------------------
(* Completion, cleanup and rollback                                         *)

\* A bug: the process that runs now is confirmed in place of the recorded one.
CompleteCheckAny(a) ==
    /\ op[a].stage = "next" /\ op[a].todo = <<>> /\ MayLock(a)
    /\ op' = [op EXCEPT ![a] =
                IF op[a].action = "down" THEN IdleOp
                ELSE IF container.up /\ record # NoRecord
                THEN [op[a] EXCEPT !.rec = [record EXCEPT !.id = container.id,
                                                          !.at = container.at],
                                   !.stage = "commit"]
                ELSE FailPlan(op[a])]
    /\ UNCHANGED <<record, container, world, workloadLock, starts, budgets>>

\* complete, first half: the record is read again and must name the process
\* that runs, with its handoff or its launch confirmed.
CompleteCheck(a) ==
    LET o == op[a]
        sound == /\ record # NoRecord /\ record.runtime = wanted
                 /\ container.up /\ SameProcess(record, container)
                 /\ IF o.private THEN record.handoff ELSE container.live IN
    /\ o.stage = "next" /\ o.todo = <<>> /\ MayLock(a)
    /\ \/ /\ o.action = "down"
          /\ op' = [op EXCEPT ![a] = IdleOp]
       \/ /\ o.action # "down" /\ sound
          /\ op' = [op EXCEPT ![a] = [o EXCEPT !.rec = record, !.stage = "commit"]]
       \* Not sound, or an inspection fails.
       \/ /\ o.action # "down"
          /\ op' = [op EXCEPT ![a] = FailPlan(o)]
    /\ UNCHANGED <<record, container, world, workloadLock, starts, budgets>>

\* A bug: the state changes and the evidence does not.
CompleteWriteState(a) ==
    /\ op[a].stage = "commit" /\ MayLock(a)
    /\ record' = [op[a].rec EXCEPT !.state = "up"]
    /\ op' = [op EXCEPT ![a] = IF a = "service" THEN [IdleOp EXCEPT !.stage = "ready"]
                               ELSE IdleOp]
    /\ workloadLock' = "free"
    /\ UNCHANGED <<container, world, starts, budgets>>

\* complete, second half: up.  The service tells systemd, unlocks and waits.
CompleteWrite(a) ==
    /\ op[a].stage = "commit" /\ MayLock(a)
    /\ record' = [op[a].rec EXCEPT !.state = "up", !.complete = TRUE]
    /\ op' = [op EXCEPT ![a] = IF a = "service" THEN [IdleOp EXCEPT !.stage = "ready"]
                               ELSE IdleOp]
    /\ workloadLock' = "free"
    /\ UNCHANGED <<container, world, starts, budgets>>

\* stopFailedPrivateWorkloadStartV1, first half: an owned process is noted as
\* stopping; the note may fail without preventing the stop.  A rollback reads
\* the record again, the cleanup inside the start uses its own.
CleanupBegin(a) ==
    /\ op[a].stage \in {"cleanup", "rollback"} /\ MayLock(a)
    /\ IF op[a].owned
       THEN LET kept == IF op[a].stage = "rollback" /\ record # NoRecord
                        THEN record ELSE op[a].rec
                r == [kept EXCEPT !.state = "stopping", !.id = op[a].mine.id,
                                  !.at = op[a].mine.at] IN
            /\ record' \in {record, r}
            /\ op' = [op EXCEPT ![a].rec = r,
                                ![a].stage = IF @ = "cleanup" THEN "halt" ELSE "halted"]
            /\ workloadLock' = a
       ELSE /\ op' = [op EXCEPT ![a] = IF @.stage = "cleanup" THEN FailPlan(@) ELSE IdleOp]
            /\ workloadLock' = "free"
            /\ UNCHANGED record
    /\ UNCHANGED <<container, world, starts, budgets>>

\* Second half: the exact process is stopped, or found stopped, and that is
\* recorded; another process in its place is left alone.
CleanupStop(a) ==
    LET mine == container.up /\ container.id = op[a].mine.id
        stops == IF mine /\ SameProcess(container, op[a].mine)
                 THEN {[container EXCEPT !.up = FALSE], container} ELSE {container} IN
    /\ op[a].stage \in {"halt", "halted"}
    /\ container' \in stops
    /\ record' \in IF container'.up /\ container'.id = op[a].mine.id THEN {record}
                   ELSE {record, [op[a].rec EXCEPT !.state = "down"]}
    /\ op' = [op EXCEPT ![a] = IF @.stage = "halt" THEN FailPlan(@) ELSE IdleOp]
    /\ workloadLock' = "free"
    /\ UNCHANGED <<world, starts, budgets>>

-----------------------------------------------------------------------------
(* The service process                                                      *)

\* systemd starts it on its own: at boot, by hand, or after a failure.
SystemdStart ==
    /\ managed /\ op["service"].stage = "idle" /\ commands < MaxCommands
    /\ commands' = commands + 1
    /\ op' = [op EXCEPT !["service"].stage = "boot"]
    /\ UNCHANGED <<record, container, world, workloadLock, starts, trouble>>

\* It takes the operation lock within its preparation time, validates the
\* build and publishes the inputs; or it gives up.
ServiceBoot ==
    /\ op["service"].stage = "boot"
    /\ \/ /\ workloadLock = "free"
          /\ workloadLock' = "service"
          /\ files' = [runtime |-> wanted, private |-> FALSE]
          /\ op' = [op EXCEPT !["service"] = [IdleOp EXCEPT !.stage = "init",
                                                            !.private = envPresent]]
       \/ /\ op' = [op EXCEPT !["service"] = IdleOp]
          /\ UNCHANGED <<files, workloadLock>>
    /\ UNCHANGED <<record, container, wanted, envPresent, managed, starts, budgets>>

\* A confirmed process is kept, an unconfirmed one refused, else one is started.
ServicePrepare ==
    LET o == op["service"] IN
    /\ o.stage = "prepare"
    /\ files' = [files EXCEPT !.private = IF o.reused THEN o.rec.handoff ELSE o.private]
    /\ \/ /\ o.reused
          /\ op' = [op EXCEPT !["service"] = [IdleOp EXCEPT !.stage = "ready"]]
          /\ workloadLock' = "free"
       \/ /\ ~o.reused /\ o.seen.up
          /\ op' = [op EXCEPT !["service"] = IdleOp]
          /\ workloadLock' = "free"
       \/ /\ ~o.reused /\ ~o.seen.up
          /\ op' = [op EXCEPT !["service"].stage = "next",
                              !["service"].todo = StartPlan("service")]
          /\ UNCHANGED workloadLock
    /\ UNCHANGED <<record, container, wanted, envPresent, managed, starts, budgets>>

\* waitInstalledServiceWorkloadV1: it ends with its container, which the
\* unit's ExecStop may remove.
ServiceEnds ==
    /\ op["service"].stage = "ready" /\ ~container.up
    /\ container' \in StopOutcomes
    /\ op' = [op EXCEPT !["service"] = IdleOp]
    /\ UNCHANGED <<record, world, workloadLock, starts, budgets>>

-----------------------------------------------------------------------------
(* The world around them                                                    *)

\* A process without the private launcher starts its application by itself.
ApplicationLaunches ==
    /\ container.up /\ ~container.made.private /\ ~container.live
    /\ container' = [container EXCEPT !.live = TRUE]
    /\ UNCHANGED <<record, world, op, workloadLock, starts, budgets>>

ContainerExits ==
    /\ container.up
    /\ container' = [container EXCEPT !.up = FALSE]
    /\ UNCHANGED <<record, world, op, workloadLock, starts, budgets>>

\* Somebody restarts the container with the engine's own tools.
ManualRestart ==
    /\ container.id # 0 /\ trouble < MaxTrouble /\ starts < MaxStarts
    /\ trouble' = trouble + 1
    /\ starts' = starts + 1
    /\ container' = [Started(TRUE, container.made) EXCEPT !.hand = TRUE]
    /\ UNCHANGED <<record, world, op, workloadLock, commands>>

\* A build or an edit between commands changes the inputs or the .env file.
InputsChange ==
    /\ \A a \in Actors : op[a].stage \in {"idle", "ready"}
    /\ workloadLock = "free" /\ trouble < MaxTrouble
    /\ \/ wanted = 1 /\ wanted' = 2 /\ UNCHANGED envPresent
       \/ envPresent' = ~envPresent /\ UNCHANGED wanted
    /\ trouble' = trouble + 1
    /\ UNCHANGED <<record, container, files, managed, op, workloadLock, starts, commands>>

\* A command or the service process is killed; the lock goes with it.
Killed(a) ==
    /\ op[a].stage # "idle" /\ trouble < MaxTrouble
    /\ trouble' = trouble + 1
    /\ op' = [op EXCEPT ![a] = IdleOp]
    /\ workloadLock' = IF workloadLock = a THEN "free" ELSE workloadLock
    /\ UNCHANGED <<record, container, world, starts, commands>>

StartSteps(a) ==
    \/ Initialize(a) \/ RunHook(a) \/ StartBegin(a) \/ StartRefused(a) \/ ComposeUp(a) \/ LookAfterStart(a)
    \/ Inject(a) \/ ProveLaunch(a) \/ CompleteCheck(a) \/ CompleteWrite(a)
    \/ CleanupBegin(a) \/ CleanupStop(a)

CommandSteps ==
    \/ StopOwned \/ PrepareCommand \/ StopRefused \/ StopBegin \/ StopRun \/ ManagedStart \/ ManagedStarted
    \/ RetryStaleNetwork \/ StartSteps("cli")

ServiceSteps == ServiceBoot \/ ServicePrepare \/ StartSteps("service")

WorkloadNext ==
    \/ \E action \in {"up", "down", "restart"} : AdmitCommand(action)
    \/ AdmitStopOwned
    \/ CommandSteps
    \/ SystemdStart \/ ServiceSteps \/ ServiceEnds
    \/ ApplicationLaunches \/ ContainerExits \/ ManualRestart \/ InputsChange
    \/ \E a \in Actors : Killed(a)

\* Commands and the service are programs that run to their end.
WorkloadFairness == WF_workloadVars(CommandSteps) /\ WF_workloadVars(ServiceSteps)

WorkloadSpec == WorkloadInit /\ [][WorkloadNext]_workloadVars /\ WorkloadFairness

-----------------------------------------------------------------------------
(* Properties                                                               *)

WorkloadRecords ==
    [state : {"absent", "starting", "up", "stopping", "down"}, runtime : Runtimes, id : Starts,
     at : Starts, claimed : BOOLEAN, complete : BOOLEAN, handoff : BOOLEAN]

\* The types, and what every read and write of the record validates: an
\* unidentified process has no evidence, "up" is complete, and no handoff
\* without its claim.
WorkloadTypeOK ==
    /\ record \in WorkloadRecords
    /\ container \in [id : Starts, at : Starts, up : BOOLEAN, hand : BOOLEAN, live : BOOLEAN, got : Nat,
                      made : [runtime : Runtimes, private : BOOLEAN]]
    /\ workloadLock \in Actors \cup {"free"}
    \* WorkloadLifecycleV1.Validate, which every read and write applies.
    /\ record.id = 0 => ~record.claimed /\ ~record.handoff /\ ~record.complete
                        /\ record.at = 0 /\ record.state # "up"
    /\ record.state = "up" => record.complete
    /\ record.handoff => record.claimed

\* The private environment is sent to a process at most once, whatever was
\* killed after the claim and however often the command is repeated.
TransferOnce == container.got <= 1

\* "up" is only ever recorded of a process that really got that far: it was
\* started with the recorded inputs, unless somebody restarted it by hand
\* during an attempt, which then takes it for its own; and its application was
\* launched, after the handoff of its private environment where one was claimed.
UpIsEarned ==
    record.state = "up" /\ SameProcess(record, container) =>
        /\ container.hand \/ container.made.runtime = record.runtime
        /\ container.live
        /\ record.claimed => record.handoff /\ container.got = 1

\* "down" is only ever recorded of a process that does not run.
DownMeansStopped ==
    record.state = "down" /\ record.id # 0 => ~(container.up /\ SameProcess(record, container))

\* The record of the workload says of the container only what is true of it,
\* and the secrets of a process are sent to it once.
WorkloadSound == WorkloadTypeOK /\ TransferOnce /\ UpIsEarned /\ DownMeansStopped

\* A command returns: it never waits for a lock held by a process that waits
\* for the command.
CommandReturns == []<>(op["cli"].stage = "idle")

=============================================================================
