-------------------------- MODULE LiveRunAdmission --------------------------
(***************************************************************************)
(* The commands that use the admission queue of a deployment (module       *)
(* LiveRunQueue) and the containers they start.  Each command is a process *)
(* of the host: it takes the operation lock (a file lock it polls), the    *)
(* lease of its own entry (a second file lock), and may die anywhere; the  *)
(* kernel then drops both locks, the queue file and the containers stay.   *)
(*                                                                         *)
(*   runs      `reploy APP`, `reploy shell`: current_app_command_run.go,   *)
(*             live_run_admission.go, live_run_container.go                *)
(*   control   up, down, restart, install: control_admission_modes.go,     *)
(*             control_admission.go, current_workload_run.go               *)
(*   stoppers  `reploy runs stop RUN_ID`: live_runs.go                     *)
(*                                                                         *)
(* A command holds the lock during the stages of Locked.  The steps of the *)
(* model between which the code can be interrupted by something another    *)
(* process observes (a crash, a container, Docker) are separate actions.   *)
(***************************************************************************)
EXTENDS LiveRunQueue

CONSTANTS
    Stoppers,       \* the `runs stop` commands
    Target,         \* the run each of them stops
    Mode,           \* how each entry of the queue asks to be admitted
    Nobody,         \* the holder of a free lock
    MaxGeneration,  \* bound: how many builds are published
    MaxCrashes      \* bound: how many commands die

Commands == Ids \cup Stoppers
Runs == Ids \ Control

ASSUME AdmissionAssumption ==
    /\ Stoppers \cap Ids = {}
    /\ Nobody \notin Commands
    /\ Target \in [Stoppers -> Runs]
    /\ Mode \in [Ids -> {"immediate", "wait", "drain", "force"}]
    /\ \A i \in Runs : Mode[i] \in {"immediate", "wait"}
    /\ MaxGeneration \in Nat
    /\ MaxCrashes \in Nat

VARIABLES
    stage,       \* where each command is
    lock,        \* the holder of the operation lock
    leases,      \* the entries whose owner holds their lease
    generation,  \* the published build of the deployment
    pinned,      \* the build each command has read
    box,         \* the container of each run: "none", "created", "running"
    recorded,    \* the entries that name their container
    cleanup,     \* the cleanup inventory of the queue file
    crashes

processVars == <<stage, lock, leases, generation, pinned>>
dockerVars == <<box, recorded, cleanup>>
admissionVars == <<queueVars, processVars, dockerVars, crashes>>

\* Stages with the lock: before a recovery of the queue, and after it.
AfterRecovery ==
    [arriving |-> "admitting", forcing |-> "checking", polling |-> "looking",
     seeking |-> "targeting"]

Locked ==
    {"arriving", "forcing", "polling", "seeking", "admitting", "checking", "looking",
     "targeting", "canceling", "stopping", "admitted", "creating", "recording", "aborting"}

Stages ==
    Locked \cup {"new", "waiting", "starting", "running", "finishing", "retaining",
                 "operating", "done", "dead"}

-----------------------------------------------------------------------------
Goto(c, s) == stage' = [stage EXCEPT ![c] = s]

\* The command gives up the lock and its lease, and returns.
Release(c) ==
    /\ Goto(c, "done")
    /\ lock' = Nobody
    /\ leases' = leases \ {c}

FirstStage(c) ==
    CASE c \in Stoppers -> "seeking"
      [] c \in Ids /\ Mode[c] = "force" -> "forcing"
      [] c \in Ids /\ Mode[c] = "drain" -> "canceling"
      [] OTHER -> "arriving"

\* A bug: the entry is published before its owner holds the lease.
EnterUnowned(c) ==
    /\ stage[c] = "new" /\ lock = Nobody
    /\ lock' = c
    /\ pinned' = IF c \in Ids THEN [pinned EXCEPT ![c] = generation] ELSE pinned
    /\ Goto(c, FirstStage(c))
    /\ UNCHANGED <<queueVars, dockerVars, leases, generation, crashes>>

\* The command takes the operation lock, reads the state of the deployment
\* and takes the lease of the entry it may publish.
Enter(c) ==
    /\ stage[c] = "new" /\ lock = Nobody
    /\ lock' = c
    /\ leases' = leases \cup ({c} \cap Ids)
    /\ pinned' = IF c \in Ids THEN [pinned EXCEPT ![c] = generation] ELSE pinned
    /\ Goto(c, FirstStage(c))
    /\ UNCHANGED <<queueVars, dockerVars, generation, crashes>>

\* A bug: the entries of dead owners stay.
RecoverNothing(c) ==
    /\ lock = c /\ stage[c] \in DOMAIN AfterRecovery
    /\ Goto(c, AfterRecovery[stage[c]])
    /\ UNCHANGED <<queueVars, dockerVars, lock, leases, generation, pinned, crashes>>

\* recoverLiveRunQueueWithinV1: entries without an owner leave the queue,
\* their containers join the inventory, and what Docker then removes leaves it.
RecoverQueue(c) ==
    /\ lock = c /\ stage[c] \in DOMAIN AfterRecovery
    /\ LET gone == Outstanding \ leases
           inventory == cleanup \cup (gone \cap recorded)
       IN  \E removed \in SUBSET inventory :
              /\ Recover(gone)
              /\ cleanup' = inventory \ removed
              /\ box' = [i \in Runs |-> IF i \in removed THEN "none" ELSE box[i]]
    /\ Goto(c, AfterRecovery[stage[c]])
    /\ UNCHANGED <<lock, leases, generation, pinned, recorded, crashes>>

-----------------------------------------------------------------------------
(* Lifecycle commands that make room for themselves.                        *)

\* --force beside another lifecycle command, or aborted during its pause.
ForceRefused(c) ==
    /\ stage[c] = "checking" /\ Outstanding # {}
    /\ Release(c)
    /\ UNCHANGED <<queueVars, dockerVars, generation, pinned, crashes>>

ForceProceeds(c) ==
    /\ stage[c] = "checking" /\ Outstanding \cap Control = {}
    /\ Goto(c, "canceling")
    /\ UNCHANGED <<queueVars, dockerVars, lock, leases, generation, pinned, crashes>>

\* --drain and --force cancel the runs that have not started.
CancelQueued(c) ==
    /\ stage[c] = "canceling"
    /\ IF Cancelable = {} THEN UNCHANGED queueVars ELSE CancelWaiting
    /\ Goto(c, IF Mode[c] = "force" THEN "stopping" ELSE "arriving")
    /\ UNCHANGED <<dockerVars, lock, leases, generation, pinned, crashes>>

\* A bug: the entry goes, its container keeps running.
StrikeActive(c, i) ==
    /\ stage[c] = "stopping" /\ status[i] = "active"
    /\ Remove(i)
    /\ UNCHANGED <<dockerVars, processVars, crashes>>

\* stopActiveLiveRunsForControlV1, one run: `docker container stop` ends a
\* running container, which Docker then removes (--rm), and leaves one that
\* was not started yet as it is.
StopActive(c, i) ==
    /\ stage[c] = "stopping" /\ status[i] = "active"
    /\ Remove(i)
    /\ box' = [box EXCEPT ![i] = IF i \in recorded /\ @ = "running" THEN "none" ELSE @]
    /\ UNCHANGED <<processVars, recorded, cleanup, crashes>>

ActiveRuns == {i \in Runs : status[i] = "active"}

\* A `docker container stop` fails: the command gives up.
StopFails(c) ==
    /\ stage[c] = "stopping" /\ ActiveRuns # {}
    /\ Release(c)
    /\ UNCHANGED <<queueVars, dockerVars, generation, pinned, crashes>>

StopsDone(c) ==
    /\ stage[c] = "stopping" /\ ActiveRuns = {}
    /\ Goto(c, "arriving")
    /\ UNCHANGED <<queueVars, dockerVars, lock, leases, generation, pinned, crashes>>

-----------------------------------------------------------------------------
(* awaitLiveRunAdmissionV1 and awaitControlAdmissionV1.                     *)

Waits(c) == Mode[c] \in {"wait", "drain"}

AdmitNow(c) ==
    /\ stage[c] = "admitting"
    /\ AdmitActive(c)
    /\ Goto(c, "admitted")
    /\ UNCHANGED <<dockerVars, lock, leases, generation, pinned, crashes>>

\* A bug: the command keeps the lock while it waits.
AdmitLaterLocked(c) ==
    /\ stage[c] = "admitting" /\ Waits(c)
    /\ AdmitWaiting(c)
    /\ Goto(c, "waiting")
    /\ UNCHANGED <<dockerVars, lock, leases, generation, pinned, crashes>>

AdmitLater(c) ==
    /\ stage[c] = "admitting" /\ Waits(c)
    /\ AdmitWaiting(c)
    /\ Goto(c, "waiting")
    /\ lock' = Nobody
    /\ UNCHANGED <<dockerVars, leases, generation, pinned, crashes>>

AdmitRefused(c) ==
    /\ stage[c] = "admitting" /\ ~Waits(c) /\ ~CanStartNow(c)
    /\ Release(c)
    /\ UNCHANGED <<queueVars, dockerVars, generation, pinned, crashes>>

Poll(c) ==
    /\ stage[c] = "waiting" /\ lock = Nobody
    /\ lock' = c
    /\ Goto(c, "polling")
    /\ UNCHANGED <<queueVars, dockerVars, leases, generation, pinned, crashes>>

\* A bug: the entry is claimed without looking whether it is its turn.
ClaimUnready(c) ==
    /\ stage[c] = "looking" /\ status[c] # "absent"
    /\ status' = [status EXCEPT ![c] = "active"]
    /\ Goto(c, "admitted")
    /\ UNCHANGED <<arrival, arrivals, dockerVars, lock, leases, generation, pinned, crashes>>

\* The admission: the reservation becomes an active entry.
Claim(c) ==
    /\ stage[c] = "looking"
    /\ Activate(c)
    /\ Goto(c, "admitted")
    /\ UNCHANGED <<dockerVars, lock, leases, generation, pinned, crashes>>

KeepWaiting(c) ==
    /\ stage[c] = "looking" /\ status[c] = "waiting"
    /\ Goto(c, "waiting")
    /\ lock' = Nobody
    /\ UNCHANGED <<queueVars, dockerVars, leases, generation, pinned, crashes>>

\* The entry is gone: a `runs stop` or a lifecycle command took it.
FindItselfGone(c) ==
    /\ stage[c] = "looking" /\ status[c] = "absent"
    /\ Release(c)
    /\ UNCHANGED <<queueVars, dockerVars, generation, pinned, crashes>>

\* cancelLiveRunAdmissionV1, cancelControlAdmissionV1: Ctrl-C or an error,
\* while the command sleeps or before it claims.
Cancel(c) ==
    /\ \/ stage[c] = "waiting" /\ lock = Nobody
       \/ stage[c] = "looking" /\ status[c] # "absent"
    /\ IF status[c] = "absent" THEN UNCHANGED queueVars ELSE Remove(c)
    /\ Release(c)
    /\ UNCHANGED <<dockerVars, generation, pinned, crashes>>

-----------------------------------------------------------------------------
(* An admitted command.                                                     *)

\* removeAdmittedTransientBeforeCreateV1 and the deferred completion of a
\* lifecycle command: the build has changed, or a check before the work fails.
RefuseStart(c) ==
    /\ stage[c] \in {"admitted", "creating"}
    /\ Remove(c)
    /\ Release(c)
    /\ UNCHANGED <<dockerVars, generation, pinned, crashes>>

\* The published build is the one the command planned with.  The Docker
\* endpoint is resolved and `docker create` run later, without looking again.
CheckGeneration(c) ==
    /\ stage[c] = "admitted" /\ generation = pinned[c]
    /\ Goto(c, "creating")
    /\ UNCHANGED <<queueVars, dockerVars, lock, leases, generation, pinned, crashes>>

CreateContainer(c) ==
    /\ stage[c] = "creating"
    /\ box' = [box EXCEPT ![c] = "created"]
    /\ Goto(c, "recording")
    /\ UNCHANGED <<queueVars, lock, leases, generation, pinned, recorded, cleanup, crashes>>

\* `docker create` reports an error; the daemon may have created it.
CreateFails(c) ==
    /\ stage[c] = "creating"
    /\ \E b \in {"none", "created"} : box' = [box EXCEPT ![c] = b]
    /\ Goto(c, "aborting")
    /\ UNCHANGED <<queueVars, lock, leases, generation, pinned, recorded, cleanup, crashes>>

\* abortAdmittedTransientBeforeStartV1: what Docker does not remove now goes
\* to the inventory.
Abort(c) ==
    /\ stage[c] = "aborting"
    /\ Remove(c)
    /\ \/ box' = [box EXCEPT ![c] = "none"] /\ cleanup' = cleanup
       \/ box' = box /\ cleanup' = cleanup \cup {c}
    /\ Release(c)
    /\ UNCHANGED <<generation, pinned, recorded, crashes>>

\* A bug: the lock is given up before the container is recorded.
UnlockUnrecorded(c) ==
    /\ stage[c] = "recording"
    /\ lock' = Nobody
    /\ Goto(c, "starting")
    /\ UNCHANGED <<queueVars, leases, generation, pinned, recorded, box, cleanup, crashes>>

\* The entry names its container, and the lock is given up for the run.
RecordContainer(c) ==
    /\ stage[c] = "recording"
    /\ recorded' = recorded \cup {c}
    /\ lock' = Nobody
    /\ Goto(c, "starting")
    /\ UNCHANGED <<queueVars, leases, generation, pinned, box, cleanup, crashes>>

\* The queue file cannot be written.
RecordFails(c) ==
    /\ stage[c] = "recording"
    /\ Goto(c, "aborting")
    /\ UNCHANGED <<queueVars, lock, leases, generation, pinned, dockerVars, crashes>>

Start(c) ==
    /\ stage[c] = "starting" /\ box[c] = "created"
    /\ box' = [box EXCEPT ![c] = "running"]
    /\ Goto(c, "running")
    /\ UNCHANGED <<queueVars, lock, leases, generation, pinned, recorded, cleanup, crashes>>

\* runTemporaryContainerCommand: the attached client fails or is interrupted,
\* and the container is removed, or the removal fails too.
RemoveAfterFailure(c) ==
    /\ \/ box' = [box EXCEPT ![c] = "none"] /\ Goto(c, "finishing")
       \/ box' = box /\ Goto(c, "retaining")
    /\ UNCHANGED <<queueVars, lock, leases, generation, pinned, recorded, cleanup, crashes>>

StartFails(c) == stage[c] = "starting" /\ RemoveAfterFailure(c)
Interrupt(c) == stage[c] = "running" /\ RemoveAfterFailure(c)

ObserveExit(c) ==
    /\ stage[c] = "running" /\ box[c] = "none"
    /\ Goto(c, "finishing")
    /\ UNCHANGED <<queueVars, dockerVars, lock, leases, generation, pinned, crashes>>

\* The lifecycle command works without the lock; its entry keeps others out.
Operate(c) ==
    /\ c \in Control /\ stage[c] = "admitted" /\ generation = pinned[c]
    /\ Goto(c, "operating")
    /\ lock' = Nobody
    /\ UNCHANGED <<queueVars, dockerVars, leases, generation, pinned, crashes>>

\* A bug: a failed removal is not remembered.
FinishForgetting(c) ==
    /\ stage[c] \in {"finishing", "retaining", "operating"} /\ lock = Nobody
    /\ IF status[c] = "absent" THEN UNCHANGED queueVars ELSE Remove(c)
    /\ Release(c)
    /\ UNCHANGED <<dockerVars, generation, pinned, crashes>>

\* completeAdmittedTransientRunV1, CompleteControlAdmissionV1: the entry is
\* removed under the lock; if it was already gone nothing is written, not
\* even the container that could not be removed.
Finish(c) ==
    /\ stage[c] \in {"finishing", "retaining", "operating"} /\ lock = Nobody
    /\ IF status[c] = "absent"
       THEN UNCHANGED <<queueVars, cleanup>>
       ELSE Remove(c) /\ cleanup' = cleanup \cup {i \in {c} : stage[i] = "retaining"}
    /\ Release(c)
    /\ UNCHANGED <<generation, pinned, box, recorded, crashes>>

-----------------------------------------------------------------------------
\* stopLiveRunV1: an active run loses its container (`rm --force`) and its
\* entry, a queued one its entry; if Docker fails nothing is changed.
StopTarget(c) ==
    /\ stage[c] = "targeting"
    /\ LET t == Target[c]
       IN  \/ /\ status[t] # "absent"
              /\ Remove(t)
              /\ box' = [box EXCEPT ![t] = IF status[t] = "active" /\ t \in recorded
                                           THEN "none" ELSE @]
           \/ /\ status[t] \in {"absent", "active"}
              /\ UNCHANGED <<queueVars, box>>
    /\ Release(c)
    /\ UNCHANGED <<generation, pinned, recorded, cleanup, crashes>>

\* The process in the container ends, and Docker removes the container.
ContainerExits(i) ==
    /\ box[i] = "running"
    /\ box' = [box EXCEPT ![i] = "none"]
    /\ UNCHANGED <<queueVars, processVars, recorded, cleanup, crashes>>

\* A bug: a build is published while a command holds the lock.
PublishUnlocked ==
    /\ generation < MaxGeneration
    /\ generation' = generation + 1
    /\ UNCHANGED <<queueVars, dockerVars, stage, lock, leases, pinned, crashes>>

\* PublishBuild: a `stage` publishes a build, under the lock and outside the queue.
Publish ==
    /\ lock = Nobody /\ generation < MaxGeneration
    /\ generation' = generation + 1
    /\ UNCHANGED <<queueVars, dockerVars, stage, lock, leases, pinned, crashes>>

\* A command is killed.  Its attached container goes on.
Crash(c) ==
    /\ stage[c] \notin {"new", "done", "dead"} /\ crashes < MaxCrashes
    /\ Goto(c, "dead")
    /\ lock' = IF lock = c THEN Nobody ELSE lock
    /\ leases' = leases \ {c}
    /\ crashes' = crashes + 1
    /\ UNCHANGED <<queueVars, dockerVars, generation, pinned>>

-----------------------------------------------------------------------------
AdmissionInit ==
    /\ QueueInit
    /\ stage = [c \in Commands |-> "new"]
    /\ lock = Nobody
    /\ leases = {} /\ recorded = {} /\ cleanup = {}
    /\ generation = 0 /\ pinned = [i \in Ids |-> 0]
    /\ box = [i \in Runs |-> "none"]
    /\ crashes = 0

\* What a command does with the lock, and the steps it takes on its own.
LockedStep(c) ==
    \/ RecoverQueue(c) \/ ForceRefused(c) \/ ForceProceeds(c) \/ CancelQueued(c)
    \/ (\E i \in Runs : StopActive(c, i)) \/ StopFails(c) \/ StopsDone(c)
    \/ AdmitNow(c) \/ AdmitLater(c) \/ AdmitRefused(c)
    \/ Claim(c) \/ KeepWaiting(c) \/ FindItselfGone(c)
    \/ RefuseStart(c) \/ Operate(c) \/ StopTarget(c)
    \/ (c \in Runs /\ (CheckGeneration(c) \/ CreateContainer(c) \/ CreateFails(c)
                     \/ RecordContainer(c) \/ RecordFails(c) \/ Abort(c)))

RunStep(c) == Start(c) \/ StartFails(c) \/ ObserveExit(c)

AdmissionNext ==
    \/ \E c \in Commands : Enter(c) \/ LockedStep(c) \/ Poll(c) \/ Cancel(c) \/ Finish(c) \/ Crash(c)
    \/ \E i \in Runs : RunStep(i) \/ Interrupt(i) \/ ContainerExits(i)
    \/ Publish

AdmissionSpec == AdmissionInit /\ [][AdmissionNext]_admissionVars

(***************************************************************************)
(* A command with the lock goes on; a container ends some day; a command   *)
(* that polls for the lock gets it some day if it is free again and again  *)
(* (the code tries the file lock at intervals, without a queue).           *)
(***************************************************************************)
AdmissionFairness ==
    /\ \A c \in Commands : WF_admissionVars(LockedStep(c))
    /\ \A i \in Ids : SF_admissionVars(Poll(i) \/ Finish(i))
    /\ \A i \in Runs : WF_admissionVars(RunStep(i)) /\ WF_admissionVars(ContainerExits(i))

FairAdmissionSpec == AdmissionSpec /\ AdmissionFairness

-----------------------------------------------------------------------------
\* Types, and the lock: exactly the commands in a stage of Locked hold it.
AdmissionTypeOK ==
    /\ QueueTypeOK
    /\ stage \in [Commands -> Stages]
    /\ lock \in Commands \cup {Nobody}
    /\ \A c \in Commands : stage[c] \in Locked <=> lock = c
    /\ leases \subseteq Ids
    /\ generation \in 0..MaxGeneration /\ pinned \in [Ids -> 0..MaxGeneration]
    /\ box \in [Runs -> {"none", "created", "running"}]
    /\ recorded \subseteq Runs /\ cleanup \subseteq Runs
    /\ crashes \in 0..MaxCrashes

\* Whoever gets the lock finds, for every active run of a living command, the
\* container to stop: `runs stop`, --force and the recovery rely on it.
ActiveRunsNameTheirContainer ==
    \A i \in Runs : status[i] = "active" /\ i \in leases /\ lock # i => i \in recorded

\* A living command is at work: its container runs, or its lifecycle operation.
Executing(i) ==
    \/ stage[i] = "operating"
    \/ i \in Runs /\ stage[i] = "running" /\ box[i] = "running"

\* An exclusive command works alone, although the lock is free while it works
\* and commands die, poll and are canceled around it.
ExclusiveExecution ==
    \A i \in Exclusive : \A j \in Ids : Executing(i) /\ Executing(j) => i = j

\* A recorded container is never forgotten: its command still lives, its entry
\* names it, or the cleanup inventory does.
ContainersAccounted ==
    \A i \in recorded :
        box[i] # "none" =>
            \/ stage[i] \in {"starting", "running", "finishing", "retaining"}
            \/ status[i] = "active"
            \/ i \in cleanup

\* Without a lock held while work goes on: exclusive work is alone, whoever gets
\* the lock finds the containers of the active runs, and no container is lost.
AdmissionSafe ==
    AdmissionTypeOK /\ ActiveRunsNameTheirContainer /\ ExclusiveExecution /\ ContainersAccounted

\* The build a command planned with is still the published one when its
\* container is created and when its entry comes to name the container: however
\* long the command waited without the lock, and although the build is compared
\* once, some steps before the creation.
BuildsMatch ==
    [][\A i \in Runs :
          \/ box[i] = "none" /\ box'[i] = "created"
          \/ i \notin recorded /\ i \in recorded'
          => generation' = pinned[i]]_admissionVars

\* When an entry leaves the queue, whoever removes it, its container is not
\* running or is in the cleanup inventory.
RemovedRunsAreDown ==
    [][\A i \in Runs : status[i] # "absent" /\ status'[i] = "absent"
            => box'[i] # "running" \/ i \in cleanup']_admissionVars

\* Every step of every command is a step of the queue, or leaves it alone: the
\* theorems about QueueSpec hold of the deployment.
ImplementsQueue == QueueSpec

\* A command that waits does not wait forever, although the owners of the
\* entries ahead of it may die without removing them.
WaitersLeave ==
    \A i \in Ids : []<>(stage[i] \notin {"waiting", "polling", "looking"})

\* docs/BLUEPRINT_ENVIRONMENT_MODEL.md: "They then stop active job containers
\* through Docker's normal stop behavior and perform the requested lifecycle
\* operation": no job of the queue it emptied runs during the operation.
ForceStopsActiveRuns ==
    \A c \in Control : stage[c] = "operating" /\ Mode[c] = "force" =>
        \A i \in Runs : ~Executing(i)

=============================================================================
