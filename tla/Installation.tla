---------------------------- MODULE Installation ----------------------------
(***************************************************************************)
(* Installing a build at a target path, installing over it, uninstalling   *)
(* it, and removing it together with its directory; with two commands at a *)
(* time.  A command holds the operation lock of a directory it has opened, *)
(* and the directory may meanwhile be moved aside (the cleanup of a failed *)
(* first install), isolated under the removal's own name (the tombstone)   *)
(* or deleted by hand.  Every durable step checks that the directory it    *)
(* locked is still the one at the path.  A step may fail and a command may *)
(* be killed between any two.                                              *)
(*                                                                         *)
(* Source: provider_install_*.go, installed_build_publication.go,          *)
(* provider_uninstall_*.go and staged_deployment_remove.go of              *)
(* internal/dockerdeploy; operation_lock.go, terminal_removal_guard.go and *)
(* deployment_state_v1.go of internal/deploy.  The publication inside an   *)
(* install is one step here (its own steps are those of the module         *)
(* BuildPublication); so is the start of the service (WorkloadLifecycle).  *)
(***************************************************************************)
EXTENDS Naturals, FiniteSets

CONSTANTS
    MaxDirectories,   \* directories of a behaviour
    MaxGenerations,   \* published generations of a behaviour
    MaxOrders,        \* commands of a behaviour
    MaxFaults         \* failed steps, kills and deletions by hand

ASSUME InstallationBounds ==
    /\ MaxDirectories \in Nat \ {0} /\ MaxGenerations \in Nat \ {0}
    /\ MaxOrders \in Nat /\ MaxFaults \in Nat

VARIABLES
    dirs,       \* the directories and the deployment records they hold
    control,    \* the control directory of a removal: 0 none, EmptyControl, or
                \* the directory whose .reploy was moved into it
    refs,       \* the generations whose image references exist
    host,       \* the systemd unit, the unit a recovery quarantined, whether the
                \* service is enabled, what is running; and whether the
                \* unit may be another directory's than the one at the target
    volume,     \* the installed volume: none, empty or copied from staging
    orders,     \* the commands under way
    lockedBy,   \* who holds the operation lock inside each directory
    systemd,    \* a system installation
    lost,       \* generations whose directory was deleted by hand, or whose record
                \* the end of another removal deleted
    issued, faults

installed == <<dirs, control, refs, host, volume, lockedBy>>
installVars == <<installed, orders, systemd, lost, issued, faults>>

Directories == 1..MaxDirectories
Operators == {"a", "b"}
EmptyControl == MaxDirectories + 1

NoDirectory ==
    [at |-> "none", meta |-> FALSE, kind |-> "bootstrap", gen |-> 0, pend |-> 0,
     guard |-> FALSE, marker |-> "none", queue |-> FALSE]

NoOrder ==
    [cmd |-> "none", stage |-> "idle", dir |-> 0, root |-> "target", then |-> "idle",
     saw |-> NoDirectory, created |-> FALSE, start |-> FALSE]

InstallInit ==
    /\ dirs = [d \in Directories |-> NoDirectory]
    /\ control = 0 /\ refs = {} /\ lost = {}
    /\ host = [unit |-> FALSE, tomb |-> FALSE, enabled |-> FALSE, running |-> 0, late |-> FALSE]
    /\ volume = "none"
    /\ orders = [p \in Operators |-> NoOrder]
    /\ lockedBy = [d \in Directories |-> "free"]
    /\ systemd \in BOOLEAN
    /\ issued = 0 /\ faults = 0

-----------------------------------------------------------------------------
(* Directories and their locks                                              *)

\* Where the record of directory d is found.
Root(d) ==
    IF control = d THEN "control"
    ELSE IF dirs[d].meta THEN dirs[d].at ELSE "nowhere"

AtTarget == {d \in Directories : dirs[d].at = "target"}
Tombs == {d \in Directories : dirs[d].at = "tomb"}

\* locatePendingProviderUninstallRemovalV1: something was left by a removal,
\* and the directory whose record can be found.
PendingRemoval == Tombs # {} \/ control # 0
Pending == {d \in Directories : Root(d) \in {"tomb", "control"}}

\* requireHeldLocked: the locked directory is still where it was opened.
Held(p) == Root(orders[p].dir) = orders[p].root

Facts(d) == [d EXCEPT !.marker = "none", !.queue = FALSE]

Go(p, stage) == orders' = [orders EXCEPT ![p].stage = stage]
Locking(p, d, then) == orders' = [orders EXCEPT ![p].stage = "locking", ![p].dir = d,
                                                ![p].root = Root(d), ![p].then = then]
Idle(p) == orders' = [orders EXCEPT ![p] = NoOrder]
Unlock(p) == lockedBy' = [d \in Directories |-> IF lockedBy[d] = p THEN "free" ELSE lockedBy[d]]

\* A step fails, as often as faults are left.
Fault == faults < MaxFaults /\ faults' = faults + 1

\* The command gives up or is done: its marker is removed if the directory is
\* still there, and the lock released.  After the terminal guard the marker
\* stays, for the retry.
Leave(p, failed) ==
    LET d == orders[p].dir
        guarded == dirs[d].guard \/ orders[p].stage = "guard"
        mine == dirs[d].marker = p IN
    /\ dirs' = IF mine THEN [dirs EXCEPT ![d].marker = IF guarded \/ ~Held(p) THEN "dead" ELSE "none"]
               ELSE dirs
    /\ Unlock(p)
    /\ IF failed /\ orders[p].created /\ (Held(p) \/ ~mine)
       THEN Go(p, "clean1") ELSE Idle(p)

\* A step of a command that was admitted: it fails when the directory was
\* moved, may fail by itself, and succeeds otherwise.
Gives(p) == Leave(p, TRUE) /\ UNCHANGED <<control, refs, host, volume, systemd, lost, issued>>
GivesUp(p, stage) ==
    /\ orders[p].stage = stage
    /\ \/ ~Held(p) /\ UNCHANGED faults
       \/ Held(p) /\ Fault
    /\ Gives(p)

Steady == <<systemd, lost, issued, faults>>

\* The lease of a command ends with it: a marker it leaves is a dead owner's.
Unleased(p) ==
    [d \in Directories |-> IF dirs[d].marker = p THEN [dirs[d] EXCEPT !.marker = "dead"]
                           ELSE dirs[d]]

\* acquireOperationLock, once the lock is free.
Lock(p) ==
    LET o == orders[p]
        opens == Held(p) /\ (o.cmd = "install" => ~dirs[o.dir].guard) IN
    /\ o.stage = "locking" /\ lockedBy[o.dir] = "free"
    /\ \/ /\ opens
          /\ lockedBy' = [lockedBy EXCEPT ![o.dir] = p]
          /\ Go(p, o.then)
          /\ UNCHANGED dirs
       \/ /\ ~opens
          /\ dirs' = Unleased(p)
          /\ IF o.created THEN Go(p, "clean1") ELSE Idle(p)
          /\ UNCHANGED lockedBy
    /\ UNCHANGED <<control, refs, host, volume, Steady>>

-----------------------------------------------------------------------------
(* Commands                                                                 *)

Order(p, cmd, start) == [NoOrder EXCEPT !.cmd = cmd, !.start = start]

\* runProviderInstallV1 up to the destination: an existing one is locked
\* first, a missing one is created only after everything else is planned.
IssueInstall(p, start) ==
    /\ orders[p].stage = "idle" /\ issued < MaxOrders
    /\ issued' = issued + 1
    /\ \/ /\ AtTarget = {}
          /\ orders' = [orders EXCEPT ![p] = [Order(p, "install", start) EXCEPT !.stage = "plan"]]
       \/ \E d \in AtTarget :
            /\ ~dirs[d].guard
            /\ orders' = [orders EXCEPT ![p] = [Order(p, "install", start) EXCEPT
                            !.stage = "locking", !.dir = d, !.root = Root(d), !.then = "check"]]
    /\ UNCHANGED <<installed, systemd, lost, faults>>

\* uninstallProviderV1: an absent target has nothing to uninstall, unless the
\* directory is to be removed and an earlier removal was left behind.
IssueUninstall(p, cmd) ==
    /\ orders[p].stage = "idle" /\ issued < MaxOrders
    /\ issued' = issued + 1
    /\ \/ \E d \in AtTarget :
            orders' = [orders EXCEPT ![p] = [Order(p, cmd, FALSE) EXCEPT
                         !.stage = "locking", !.dir = d, !.root = Root(d), !.then = "check"]]
       \/ /\ AtTarget = {} /\ cmd = "remove"
          /\ \E d \in Pending :
               orders' = [orders EXCEPT ![p] = [Order(p, cmd, FALSE) EXCEPT
                            !.stage = "locking", !.dir = d, !.root = Root(d), !.then = "retry"]]
    /\ UNCHANGED <<installed, systemd, lost, faults>>

\* RecoverMissingProviderUninstallV1: by service name, when the target is gone;
\* a removal left behind is locked meanwhile.
IssueRecovery(p) ==
    /\ orders[p].stage = "idle" /\ issued < MaxOrders
    /\ AtTarget = {} /\ (host.unit \/ host.tomb)
    /\ PendingRemoval => Pending # {}
    /\ issued' = issued + 1
    /\ LET first == IF host.unit THEN "halt" ELSE "forget" IN
       \/ /\ Pending = {}
          /\ orders' = [orders EXCEPT ![p] = [Order(p, "recover", FALSE) EXCEPT !.stage = first]]
       \/ \E d \in Pending :
            orders' = [orders EXCEPT ![p] = [Order(p, "recover", FALSE) EXCEPT
                         !.stage = "locking", !.dir = d, !.root = Root(d), !.then = first]]
    /\ UNCHANGED <<installed, systemd, lost, faults>>

-----------------------------------------------------------------------------
(* Install                                                                  *)

\* A bug: the repaired record loses the guard of a removal.
RecoveredUnguarded(d) == [d EXCEPT !.pend = 0, !.guard = FALSE]

\* recoverDestination: RecoverPendingPublication removes the references of
\* the generation that is not the recorded one.
Recovered(d) == [d EXCEPT !.pend = 0]

\* validateProviderInstallDestinationServiceV1 refuses a staging deployment,
\* as an uninstalled one is; otherwise the recovery.
DestinationRefused(p) ==
    /\ orders[p].stage = "check" /\ orders[p].cmd = "install" /\ Held(p)
    /\ dirs[orders[p].dir].kind = "staged"
    /\ Gives(p) /\ UNCHANGED faults

CheckDestination(p) ==
    LET o == orders[p]
        d == dirs[o.dir] IN
    /\ o.stage = "check" /\ o.cmd = "install" /\ Held(p) /\ d.kind # "staged"
    /\ dirs' = [dirs EXCEPT ![o.dir] = Recovered(d)]
    /\ refs' = refs \ {d.pend}
    /\ Go(p, IF o.saw.at = "target" THEN "prepare" ELSE "plan")
    /\ UNCHANGED <<control, host, volume, lockedBy, Steady>>

\* Account, references, plan, runtime image, host tools and disk space; then
\* ensureProviderInstallDestinationV1.  `saw.at` notes that the destination is
\* ensured.
Ensure(p) ==
    LET o == orders[p] IN
    /\ o.stage = "plan"
    /\ \/ /\ o.dir # 0
          /\ Go(p, "prepare")
          /\ UNCHANGED dirs
       \/ /\ o.dir = 0 /\ AtTarget # {}
          /\ orders' = [orders EXCEPT ![p].stage = "open", ![p].saw.at = "target"]
          /\ UNCHANGED dirs
       \/ /\ o.dir = 0 /\ AtTarget = {}
          /\ \E d \in Directories :
               /\ dirs[d].at = "none" /\ \A e \in 1..(d - 1) : dirs[e].at # "none"
               /\ dirs' = [dirs EXCEPT ![d].at = "target", ![d].meta = TRUE]
          /\ orders' = [orders EXCEPT ![p].stage = "open", ![p].saw.at = "target",
                                      ![p].created = TRUE]
    /\ UNCHANGED <<control, refs, host, volume, lockedBy, Steady>>

\* The plan fails before anything was created.
PlanFails(p) ==
    /\ orders[p].stage = "plan" /\ Fault
    /\ Unlock(p) /\ Idle(p)
    /\ UNCHANGED <<dirs, control, refs, host, volume, systemd, lost, issued>>

\* AcquireOperationLock of the ensured destination opens what is there now.
OpenDestination(p) ==
    /\ orders[p].stage = "open"
    /\ \/ /\ AtTarget = {}
          /\ IF orders[p].created THEN Go(p, "clean1") ELSE Idle(p)
       \/ \E d \in AtTarget : Locking(p, d, "check")
    /\ UNCHANGED <<installed, Steady>>

\* prepareProviderInstallDestinationV1 writes private candidates only, and the
\* state is read; the admission follows.
PrepareDestination(p) ==
    /\ orders[p].stage = "prepare" /\ Held(p)
    /\ orders' = [orders EXCEPT ![p].stage = "admit", ![p].saw = Facts(dirs[orders[p].dir])]
    /\ UNCHANGED <<installed, Steady>>

\* What follows an admission: a staging directory is guarded before its
\* workload is stopped, an installed one after.
Admitted(cmd) == CASE cmd = "install" -> "stop" [] cmd = "stageRemove" -> "guard" [] OTHER -> "down"

\* AdmitControlOperationV1: at once, refused beside another marker, or after
\* a wait without the lock, when the state must be what it was.
AdmitAtOnce(p) ==
    LET o == orders[p] IN
    /\ o.stage = "admit" /\ Held(p) /\ dirs[o.dir].marker \in {"none", "dead"}
    /\ ~dirs[o.dir].guard
    /\ dirs' = [dirs EXCEPT ![o.dir].marker = p, ![o.dir].queue = TRUE]
    /\ Go(p, Admitted(o.cmd))
    /\ UNCHANGED <<control, refs, host, volume, lockedBy, Steady>>

AdmitRefusedBeside(p) ==
    /\ orders[p].stage = "admit" /\ Held(p)
    /\ dirs[orders[p].dir].marker \in Operators \/ dirs[orders[p].dir].guard
    /\ Gives(p) /\ UNCHANGED faults

\* A bug: the command waits with the lock.
AdmitWaitsLocked(p) ==
    /\ orders[p].stage = "admit" /\ Held(p) /\ ~dirs[orders[p].dir].guard
    /\ dirs' = [dirs EXCEPT ![orders[p].dir].queue = TRUE]
    /\ Go(p, "waiting")
    /\ UNCHANGED <<control, refs, host, volume, lockedBy, Steady>>

AdmitWaits(p) ==
    /\ orders[p].stage = "admit" /\ Held(p) /\ ~dirs[orders[p].dir].guard
    /\ dirs' = [dirs EXCEPT ![orders[p].dir].queue = TRUE]
    /\ Unlock(p) /\ Go(p, "waiting")
    /\ UNCHANGED <<control, refs, host, volume, Steady>>

\* A bug: the state is not compared after the wait.
WakeUpTrusting(p) ==
    LET o == orders[p] IN
    /\ o.stage = "waiting" /\ lockedBy[o.dir] = "free"
    /\ dirs[o.dir].marker \in {"none", "dead"} \/ ~Held(p)
    /\ IF Held(p)
       THEN /\ lockedBy' = [lockedBy EXCEPT ![o.dir] = p]
            /\ dirs' = [dirs EXCEPT ![o.dir].marker = p]
            /\ Go(p, Admitted(o.cmd))
       ELSE /\ IF o.created THEN Go(p, "clean1") ELSE Idle(p)
            /\ UNCHANGED <<dirs, lockedBy>>
    /\ UNCHANGED <<control, refs, host, volume, Steady>>

\* The recorded state is compared, and not a publication that is pending by
\* now, which a removal recovers; that of a staging directory goes on with
\* whatever is staged.
Unchanged(o, d) == d.kind = o.saw.kind /\ (o.cmd = "stageRemove" \/ d.gen = o.saw.gen)

WakeUp(p) ==
    LET o == orders[p]
        d == dirs[o.dir]
        removes == o.cmd \in {"remove", "stageRemove"} IN
    /\ o.stage = "waiting" /\ lockedBy[o.dir] = "free"
    /\ d.marker \in {"none", "dead"} \/ ~Held(p)
    /\ IF Held(p) /\ ~d.guard /\ Unchanged(o, d)
       THEN /\ lockedBy' = [lockedBy EXCEPT ![o.dir] = p]
            /\ dirs' = [dirs EXCEPT ![o.dir] = [IF removes THEN Recovered(d) ELSE d EXCEPT !.marker = p]]
            /\ refs' = IF removes THEN refs \ {d.pend} ELSE refs
            /\ Go(p, Admitted(o.cmd))
       ELSE /\ IF o.created THEN Go(p, "clean1") ELSE Idle(p)
            /\ UNCHANGED <<dirs, refs, lockedBy>>
    /\ UNCHANGED <<control, host, volume, Steady>>

\* stopProviderInstallDestinationV1, when an installation is replaced.
StopExisting(p) ==
    /\ orders[p].stage = "stop" /\ Held(p)
    /\ host' = IF orders[p].saw.kind \in {"configuring", "ready"}
               THEN [host EXCEPT !.running = 0] ELSE host
    /\ Go(p, "publish")
    /\ UNCHANGED <<dirs, control, refs, volume, lockedBy, Steady>>

\* PublishInstalledBuildV1: the state is committed as configuring.  It may end
\* before or after the commit, leaving a pending publication; one that is
\* pending already is refused.
PublishRefused(p) ==
    /\ orders[p].stage = "publish" /\ Held(p) /\ dirs[orders[p].dir].pend # 0
    /\ Gives(p) /\ UNCHANGED faults

PublishInstalled(p) ==
    LET o == orders[p]
        d == dirs[o.dir]
        used == {dirs[e].gen : e \in Directories} \cup {dirs[e].pend : e \in Directories}
                \cup refs \cup lost
        committed == [d EXCEPT !.kind = "configuring"] IN
    /\ o.stage = "publish" /\ Held(p) /\ ~d.guard /\ d.pend = 0
    /\ \E g \in (1..MaxGenerations) \ used :
         /\ \A h \in (1..MaxGenerations) \ used : g <= h
         /\ \/ /\ refs' = (refs \cup {g}) \ {d.gen}
               /\ dirs' = [dirs EXCEPT ![o.dir] = [committed EXCEPT !.gen = g]]
               /\ orders' = [orders EXCEPT ![p].stage = "files", ![p].created = FALSE]
               /\ UNCHANGED <<faults, lockedBy>>
            \/ /\ Fault
               /\ refs' = refs \cup {g}
               /\ \/ dirs' = [dirs EXCEPT ![o.dir].pend = g, ![o.dir].marker = "none"]
                  \/ dirs' = [dirs EXCEPT ![o.dir] = [committed EXCEPT !.gen = g, !.pend = d.gen,
                                                                       !.marker = "none"]]
               /\ Unlock(p) /\ Idle(p)
    /\ UNCHANGED <<control, host, volume, systemd, lost, issued>>

\* Neither the steps after the publication nor a recovery look at the target
\* again: the directory of an install may have been moved away, and a target
\* that a recovery found missing may be back.
Late(p) == IF orders[p].cmd = "install" THEN ~Held(p) ELSE host.late \/ AtTarget # {}

\* Publish of the file candidates, the unit file among them.
PublishFiles(p) ==
    /\ orders[p].stage = "files"
    /\ host' = IF systemd THEN [host EXCEPT !.unit = TRUE, !.late = Late(p)] ELSE host
    /\ Go(p, "volume")
    /\ UNCHANGED <<dirs, control, refs, volume, lockedBy, Steady>>

\* applyProviderInstallVolumeV1: an existing volume is preserved, unless its
\* replacement was asked for; a new one is filled from the staging volume, with
\* nothing when there is none.
CreateVolume(p) ==
    /\ orders[p].stage = "volume"
    /\ \/ volume # "none" /\ Go(p, "activate") /\ UNCHANGED volume
       \/ volume' = "empty" /\ Go(p, "copy")
    /\ UNCHANGED <<dirs, control, refs, host, lockedBy, Steady>>

CopyVolume(p) ==
    /\ orders[p].stage = "copy"
    /\ \/ /\ volume' = "copied" /\ Go(p, "activate")
          /\ UNCHANGED <<dirs, lockedBy, faults>>
       \* The copy fails; the new volume is removed, if that succeeds.
       \/ /\ Fault /\ volume' \in {"none", "empty"}
          /\ Leave(p, TRUE)
    /\ UNCHANGED <<control, refs, host, systemd, lost, issued>>

\* configureProviderInstallHostV1 and the after_install hooks.
ActivateHost(p) ==
    /\ orders[p].stage = "activate"
    /\ \/ /\ systemd => host.unit
          /\ host' = [host EXCEPT !.enabled = systemd, !.late = @ \/ Late(p)]
          /\ Go(p, "ready")
          /\ UNCHANGED <<dirs, lockedBy, faults>>
       \/ /\ Fault \/ (systemd /\ ~host.unit /\ UNCHANGED faults)
          /\ Leave(p, TRUE)
          /\ UNCHANGED host
    /\ UNCHANGED <<control, refs, volume, systemd, lost, issued>>

\* MarkInstallationReadyV1; a system service is started without the lock.
MarkReady(p) ==
    LET o == orders[p]
        d == dirs[o.dir] IN
    /\ o.stage = "ready" /\ Held(p) /\ ~d.guard
    /\ dirs' = [dirs EXCEPT ![o.dir].kind = "ready"]
    /\ Go(p, IF o.start THEN "start" ELSE "done")
    /\ IF o.start /\ systemd THEN Unlock(p) ELSE UNCHANGED lockedBy
    /\ UNCHANGED <<control, refs, host, volume, Steady>>

\* executeProviderInstallStartV1, and the lock again, whatever came of it.  The
\* service runs what the directory at the target records; an install without
\* one reads the workload's record with its own lock first, and is refused when
\* its directory was moved.
Startable(d) == dirs[d].kind = "ready" /\ ~dirs[d].guard /\ (systemd => host.unit)

StartInstalled(p) ==
    LET o == orders[p]
        startable == {d \in AtTarget : Startable(d) /\ (systemd \/ Held(p))} IN
    /\ o.stage = "start"
    /\ \/ /\ \E d \in startable :
               /\ systemd => lockedBy[d] = "free"
               /\ host' = [host EXCEPT !.running = dirs[d].gen]
          /\ UNCHANGED faults
       \/ /\ Fault \/ (startable = {} /\ UNCHANGED faults)
          /\ UNCHANGED host
    /\ IF systemd THEN \/ \E d \in AtTarget : Locking(p, d, "done")
                       \/ AtTarget = {} /\ Go(p, "gone")
       ELSE Go(p, "done")
    /\ UNCHANGED <<dirs, control, refs, volume, lockedBy, systemd, lost, issued>>

\* The lock cannot be had again: the lease is released, the marker is left.
StartLost(p) ==
    /\ orders[p].stage = "gone"
    /\ dirs' = Unleased(p)
    /\ Idle(p)
    /\ UNCHANGED <<control, refs, host, volume, lockedBy, Steady>>

Done(p) ==
    /\ orders[p].stage = "done"
    /\ Leave(p, FALSE)
    /\ UNCHANGED <<control, refs, host, volume, Steady>>

-----------------------------------------------------------------------------
(* The cleanup of a failed first install: no lock is held.                  *)

\* isEmptyProviderInstallBootstrapV1: nothing but the lock file.
Bootstrap(d) == d.kind = "bootstrap" /\ d.pend = 0 /\ ~d.queue

CleanupLooks(p) ==
    /\ orders[p].stage = "clean1"
    /\ IF \A d \in AtTarget : Bootstrap(dirs[d]) THEN Go(p, "clean2") ELSE Idle(p)
    /\ UNCHANGED <<installed, Steady>>

\* Whatever is at the path now is moved aside.
CleanupMoves(p) ==
    /\ orders[p].stage = "clean2"
    /\ \/ AtTarget = {} /\ Idle(p) /\ UNCHANGED dirs
       \/ \E d \in AtTarget :
            /\ dirs' = [dirs EXCEPT ![d].at = "aside"]
            /\ orders' = [orders EXCEPT ![p].stage = "clean3", ![p].dir = d]
    /\ UNCHANGED <<control, refs, host, volume, lockedBy, Steady>>

\* A bug: it is put back without looking at the path.
CleanupPutsBack(p) ==
    LET d == orders[p].dir IN
    /\ orders[p].stage = "clean3"
    /\ dirs' = IF Bootstrap(dirs[d]) THEN [dirs EXCEPT ![d].at = "gone", ![d].meta = FALSE]
               ELSE [dirs EXCEPT ![d].at = "target"]
    /\ Idle(p)
    /\ UNCHANGED <<control, refs, host, volume, lockedBy, Steady>>

\* It is removed only if it is still a bootstrap, and put back otherwise; a unit
\* may have been installed for another directory at the path meanwhile.
CleanupEnds(p) ==
    LET d == orders[p].dir IN
    /\ orders[p].stage = "clean3"
    /\ \/ /\ Bootstrap(dirs[d])
          /\ dirs' = [dirs EXCEPT ![d].at = "gone", ![d].meta = FALSE] /\ UNCHANGED host
       \/ /\ ~Bootstrap(dirs[d]) /\ AtTarget = {}
          /\ dirs' = [dirs EXCEPT ![d].at = "target"]
          /\ host' = [host EXCEPT !.late = @ \/ host.unit \/ host.enabled]
       \/ /\ ~Bootstrap(dirs[d]) /\ AtTarget # {}
          /\ UNCHANGED <<dirs, host>>
    /\ Idle(p)
    /\ UNCHANGED <<control, refs, volume, lockedBy, Steady>>

-----------------------------------------------------------------------------
(* Uninstall and removal                                                    *)

\* The checks of runProviderUninstallV1 and removeStagedDeploymentV1 under the
\* lock.  An interrupted removal of the directory goes on where it stopped.
Fits(cmd, d) ==
    IF cmd = "stageRemove" THEN d.kind = "staged" ELSE d.kind \in {"configuring", "ready"}

Resumed(cmd) == IF cmd = "stageRemove" THEN "down" ELSE "retire"

CheckInstalled(p) ==
    LET o == orders[p]
        d == dirs[o.dir]
        removes == o.cmd # "uninstall" IN
    /\ o.stage = "check" /\ o.cmd # "install" /\ Held(p)
    /\ IF Fits(o.cmd, d) /\ (removes \/ (d.pend = 0 /\ ~d.guard))
       THEN /\ dirs' = [dirs EXCEPT ![o.dir] = Recovered(d)]
            /\ refs' = IF removes THEN refs \ {d.pend} ELSE refs
            /\ orders' = [orders EXCEPT ![p].stage = IF d.guard THEN Resumed(o.cmd) ELSE "admit",
                                        ![p].saw = Facts(Recovered(d))]
            /\ UNCHANGED lockedBy
       ELSE Leave(p, FALSE) /\ UNCHANGED refs
    /\ UNCHANGED <<control, host, volume, Steady>>

\* applyProviderUninstallHostPlanV1: stop and compose down; then disable and
\* remove the unit.
HostDown(p) ==
    LET o == orders[p] IN
    /\ o.stage = "down" /\ Held(p)
    /\ host' = [host EXCEPT !.running = 0]
    /\ Go(p, IF o.cmd = "stageRemove" THEN "retire"
             ELSE IF host.unit THEN "disable"
             ELSE IF o.cmd = "uninstall" THEN "clear" ELSE "guard")
    /\ UNCHANGED <<dirs, control, refs, volume, lockedBy, Steady>>

\* A bug: the unit is removed and the service stays enabled.
HostForgetsUnit(p) ==
    /\ orders[p].stage = "disable"
    /\ host' = [host EXCEPT !.unit = FALSE]
    /\ Go(p, IF orders[p].cmd = "uninstall" THEN "clear" ELSE "guard")
    /\ UNCHANGED <<dirs, control, refs, volume, lockedBy, Steady>>

HostDisable(p) ==
    /\ orders[p].stage = "disable"
    /\ \/ /\ host' = [host EXCEPT !.enabled = FALSE, !.unit = FALSE]
          /\ Go(p, IF orders[p].cmd = "uninstall" THEN "clear" ELSE "guard")
          /\ UNCHANGED <<dirs, lockedBy, faults>>
       \/ /\ Fault
          /\ host' = [host EXCEPT !.enabled = FALSE]
          /\ Leave(p, FALSE)
    /\ UNCHANGED <<control, refs, volume, systemd, lost, issued>>

\* ClearInstallationStateV1: the deployment is staged again.
ClearInstallation(p) ==
    LET d == dirs[orders[p].dir] IN
    /\ orders[p].stage = "clear" /\ Held(p) /\ ~d.guard
    /\ dirs' = [dirs EXCEPT ![orders[p].dir].kind = "staged"]
    /\ Go(p, "done")
    /\ UNCHANGED <<control, refs, host, volume, lockedBy, Steady>>

\* BeginTerminalRemovalV1: from here on nothing but this removal is admitted.
\* A failed write may have been applied.
Guard(p) ==
    LET o == orders[p]
        d == dirs[o.dir] IN
    /\ o.stage = "guard" /\ Held(p) /\ ~d.guard /\ d.pend = 0
    /\ \/ /\ dirs' = [dirs EXCEPT ![o.dir].guard = TRUE]
          /\ Go(p, Resumed(o.cmd))
          /\ UNCHANGED <<faults, lockedBy>>
       \/ /\ Fault
          /\ dirs' \in {[dirs EXCEPT ![o.dir].marker = "dead"],
                        [dirs EXCEPT ![o.dir].marker = "dead", ![o.dir].guard = TRUE]}
          /\ Unlock(p) /\ Idle(p)
    /\ UNCHANGED <<control, refs, host, volume, systemd, lost, issued>>

\* A bug: the directory is isolated first, and its images are forgotten.
RetireLater(p) ==
    /\ orders[p].stage = "retire" /\ Held(p)
    /\ Go(p, "isolate")
    /\ UNCHANGED <<dirs, control, refs, host, volume, lockedBy, Steady>>

\* The recorded image references are removed, one by one.
RetireReferences(p) ==
    /\ orders[p].stage = "retire" /\ Held(p)
    /\ refs' = refs \ {dirs[orders[p].dir].gen}
    /\ Go(p, "isolate")
    /\ UNCHANGED <<dirs, control, host, volume, lockedBy, Steady>>

\* The tombstone is reserved, the marker and the lease are given up, the
\* directory is renamed and the lock released.  A staging directory gets a
\* name of its own.
Isolate(p) ==
    LET o == orders[p]
        staged == o.cmd = "stageRemove" IN
    /\ o.stage = "isolate" /\ Held(p) /\ (staged \/ ~PendingRemoval)
    /\ dirs' = [dirs EXCEPT ![o.dir].at = IF staged THEN "aside" ELSE "tomb",
                            ![o.dir].marker = "none"]
    /\ Unlock(p) /\ Go(p, IF staged THEN "erase" ELSE "final1")
    /\ UNCHANGED <<control, refs, host, volume, Steady>>

IsolateRefused(p) ==
    /\ orders[p].stage = "isolate" /\ Held(p)
    /\ orders[p].cmd # "stageRemove" /\ PendingRemoval
    /\ Leave(p, FALSE)
    /\ UNCHANGED <<control, refs, host, volume, Steady>>

\* os.RemoveAll of an isolated staging directory.
Erase(p) ==
    /\ orders[p].stage = "erase"
    /\ dirs' = [dirs EXCEPT ![orders[p].dir].at = "gone", ![orders[p].dir].meta = FALSE]
    /\ Idle(p)
    /\ UNCHANGED <<control, refs, host, volume, lockedBy, Steady>>

\* retryPendingProviderUninstallRemovalV1, under the lock of what was left:
\* the references must be gone.  (A removal by an earlier version of the
\* program, which left no guard, is not among the states a directory starts in.)
RetryRemoval(p) ==
    LET d == orders[p].dir IN
    /\ orders[p].stage = "retry" /\ Held(p)
    /\ Unlock(p)
    /\ IF dirs[d].guard /\ dirs[d].gen \notin refs THEN Go(p, "final1") ELSE Idle(p)
    /\ UNCHANGED <<dirs, control, refs, host, volume, Steady>>

\* finalizePendingProviderUninstallRemovalV1, in the order of its effects: the
\* record is checked under its lock and moved into the control directory, the
\* files go, the record goes last.
FinalChecks(p) ==
    LET d == orders[p].dir IN
    /\ orders[p].stage = "final1"
    /\ Root(d) \in {"tomb", "control"} => lockedBy[d] = "free"
    /\ \/ /\ Root(d) = "tomb" /\ control \in {0, EmptyControl}
          /\ control' = EmptyControl /\ Go(p, "final2")
       \/ /\ Root(d) = "control"
          /\ Go(p, "final3") /\ UNCHANGED control
       \/ /\ ~(Root(d) = "tomb" /\ control \in {0, EmptyControl}) /\ Root(d) # "control"
          /\ Idle(p) /\ UNCHANGED control
    /\ UNCHANGED <<dirs, refs, host, volume, lockedBy, Steady>>

FinalMoves(p) ==
    LET d == orders[p].dir IN
    /\ orders[p].stage = "final2"
    /\ IF Root(d) = "tomb" /\ control = EmptyControl
       THEN /\ control' = d
            /\ dirs' = [dirs EXCEPT ![d].meta = FALSE]
            /\ Go(p, "final3")
       ELSE Idle(p) /\ UNCHANGED <<control, dirs>>
    /\ UNCHANGED <<refs, host, volume, lockedBy, Steady>>

\* A bug: the record goes before the files.
FinalErasesLast(p) ==
    /\ orders[p].stage = "final3"
    /\ Go(p, "final4")
    /\ UNCHANGED <<dirs, control, refs, host, volume, lockedBy, Steady>>

\* RemoveAll of the tombstone path, whatever is there by now.
FinalErases(p) ==
    /\ orders[p].stage = "final3"
    /\ dirs' = [d \in Directories |-> IF dirs[d].at = "tomb"
                                      THEN [dirs[d] EXCEPT !.at = "gone", !.meta = FALSE]
                                      ELSE dirs[d]]
    /\ Go(p, "final4")
    /\ UNCHANGED <<control, refs, host, volume, lockedBy, Steady>>

\* RemoveAll of the control directory: its content, whosever record that is by
\* now, then itself, unless something was put into it meanwhile.
FinalForgets(p) ==
    LET others == {control} \ {0, EmptyControl, orders[p].dir} IN
    /\ orders[p].stage \in {"final4", "final5"}
    /\ \/ /\ orders[p].stage = "final4"
          /\ control' = IF control = 0 THEN 0 ELSE EmptyControl
          /\ lost' = lost \cup {dirs[d].gen : d \in others}
          /\ Go(p, "final5")
       \/ /\ orders[p].stage = "final5"
          /\ control' = IF control = EmptyControl THEN 0 ELSE control
          /\ Idle(p) /\ UNCHANGED lost
    /\ UNCHANGED <<dirs, refs, host, volume, lockedBy, systemd, issued, faults>>

-----------------------------------------------------------------------------
(* applyProviderUninstallRecoveryEffectsV1                                  *)

RecoveryHalts(p) ==
    /\ orders[p].stage = "halt"
    /\ IF host.tomb THEN Unlock(p) /\ Idle(p) /\ UNCHANGED host
       ELSE /\ host' = [host EXCEPT !.running = 0, !.enabled = FALSE, !.late = Late(p)]
            /\ Go(p, "quarantine") /\ UNCHANGED lockedBy
    /\ UNCHANGED <<dirs, control, refs, volume, Steady>>

RecoveryQuarantines(p) ==
    /\ orders[p].stage = "quarantine"
    /\ IF host.unit
       THEN host' = [host EXCEPT !.unit = FALSE, !.tomb = TRUE, !.late = Late(p) \/ host.enabled]
            /\ Go(p, "forget") /\ UNCHANGED lockedBy
       ELSE Unlock(p) /\ Idle(p) /\ UNCHANGED host
    /\ UNCHANGED <<dirs, control, refs, volume, Steady>>

\* daemon-reload, and the removal of the quarantined unit; a failed reload
\* puts it back.
RecoveryForgets(p) ==
    /\ orders[p].stage = "forget"
    /\ \/ host' = [host EXCEPT !.tomb = FALSE] /\ UNCHANGED faults
       \/ /\ Fault
          /\ host' \in {host, [host EXCEPT !.unit = host.tomb \/ @, !.tomb = FALSE, !.late = Late(p)]}
    /\ Unlock(p) /\ Idle(p)
    /\ UNCHANGED <<dirs, control, refs, volume, systemd, lost, issued>>

-----------------------------------------------------------------------------
(* Around them                                                              *)

\* A command is killed.  The locks go with it; its marker is a dead owner's.
KillOrder(p) ==
    /\ orders[p].stage # "idle" /\ Fault
    /\ dirs' = Unleased(p)
    /\ Unlock(p) /\ Idle(p)
    /\ UNCHANGED <<control, refs, host, volume, systemd, lost, issued>>

\* The administrator deletes the directory, but not under a command that was
\* admitted in it.
DeletedByHand ==
    /\ AtTarget # {} /\ Fault
    /\ \A d \in AtTarget : dirs[d].marker \notin Operators
    /\ lost' = lost \cup {dirs[d].gen : d \in AtTarget} \cup {dirs[d].pend : d \in AtTarget}
    /\ dirs' = [d \in Directories |-> IF d \in AtTarget
                                      THEN [dirs[d] EXCEPT !.at = "gone", !.meta = FALSE]
                                      ELSE dirs[d]]
    /\ UNCHANGED <<control, refs, host, volume, orders, lockedBy, systemd, issued>>

FailingStages == {"prepare", "stop", "publish", "ready", "down", "clear", "guard", "retire",
                  "isolate", "admit", "check", "retry"}

InstallSteps(p) ==
    \/ DestinationRefused(p) \/ CheckDestination(p) \/ Ensure(p) \/ PlanFails(p) \/ OpenDestination(p)
    \/ PrepareDestination(p) \/ StopExisting(p) \/ PublishInstalled(p) \/ PublishRefused(p)
    \/ PublishFiles(p)
    \/ CreateVolume(p) \/ CopyVolume(p) \/ ActivateHost(p) \/ MarkReady(p)
    \/ StartInstalled(p) \/ StartLost(p) \/ CleanupLooks(p) \/ CleanupMoves(p) \/ CleanupEnds(p)

RemovalSteps(p) ==
    \/ CheckInstalled(p) \/ HostDown(p) \/ HostDisable(p) \/ ClearInstallation(p) \/ Guard(p)
    \/ RetireReferences(p) \/ Isolate(p) \/ IsolateRefused(p) \/ Erase(p) \/ RetryRemoval(p)
    \/ FinalChecks(p) \/ FinalMoves(p) \/ FinalErases(p) \/ FinalForgets(p)
    \/ RecoveryHalts(p) \/ RecoveryQuarantines(p) \/ RecoveryForgets(p)

OrderSteps(p) ==
    \/ Lock(p) \/ AdmitAtOnce(p) \/ AdmitRefusedBeside(p) \/ AdmitWaits(p) \/ WakeUp(p) \/ Done(p)
    \/ InstallSteps(p) \/ RemovalSteps(p)
    \/ \E stage \in FailingStages : GivesUp(p, stage)

InstallNext ==
    \/ \E p \in Operators :
         \/ \E start \in BOOLEAN : IssueInstall(p, start)
         \/ \E cmd \in {"uninstall", "remove", "stageRemove"} : IssueUninstall(p, cmd)
         \/ IssueRecovery(p)
         \/ OrderSteps(p)
         \/ KillOrder(p)
    \/ DeletedByHand

\* Commands are programs that run to their end.
InstallFairness == \A p \in Operators : WF_installVars(OrderSteps(p))

InstallSpec == InstallInit /\ [][InstallNext]_installVars /\ InstallFairness

-----------------------------------------------------------------------------
(* Properties                                                               *)

\* The types; one directory at the path and one left by a removal at most,
\* with its record in one place.
InstallTypeOK ==
    /\ \A d \in Directories :
         /\ dirs[d].at \in {"none", "target", "tomb", "aside", "gone"}
         /\ dirs[d].kind \in {"bootstrap", "staged", "configuring", "ready"}
         /\ dirs[d].marker \in Operators \cup {"none", "dead"}
         /\ lockedBy[d] \in Operators \cup {"free"}
    /\ control \in 0..EmptyControl /\ refs \subseteq 1..MaxGenerations
    /\ host.unit \in BOOLEAN /\ host.tomb \in BOOLEAN /\ host.running \in 0..MaxGenerations
    /\ Cardinality(AtTarget) <= 1 /\ Cardinality(Tombs) <= 1 /\ Cardinality(Pending) <= 1

\* No image reference outlives the record that names it: a directory is erased
\* only after the references of its generation, and of an interrupted
\* publication, were removed.
ReferencesOwned ==
    \A g \in refs \ lost :
        \E d \in Directories : g \in {dirs[d].gen, dirs[d].pend} /\ Root(d) \in {"target", "aside"}

\* Once a deployment is guarded for removal nothing is installed, published or
\* recorded in it any more, whoever was waiting for its lock.
GuardIsTerminal ==
    [][\A d \in Directories : dirs[d].guard =>
         /\ dirs'[d].guard /\ dirs'[d].gen = dirs[d].gen /\ dirs'[d].kind = dirs[d].kind
         /\ dirs'[d].pend = dirs[d].pend]_dirs

\* The images of the generation that runs are never removed under it: what a
\* command waited for may have been installed and started meanwhile.
RunningHasImages == host.running \in {0} \cup refs \cup lost

\* What is being removed, or was uninstalled, is down: no service runs it and,
\* unless something was installed since, none is enabled; except where an
\* install whose directory was moved away, or a recovery whose target came back,
\* acted late on the unit, or the directory was put back beside another's unit.
RemovedIsDown ==
    \A d \in Directories :
        dirs[d].guard \/ dirs[d].kind = "staged" =>
            /\ host.running = 0 \/ host.running # dirs[d].gen
            /\ AtTarget = {d} /\ ~host.late => ~host.enabled /\ ~host.unit

\* Files that a removal moved aside are there only together with the record
\* from which a retry goes on, wherever the removal was interrupted; unless an
\* earlier removal, which ends without a lock, deleted the record of this one.
RemovalRetryable == \A d \in Tombs : d \in Pending \/ dirs[d].gen \in lost

\* Wherever an installation or a removal is interrupted, and whoever else is at
\* work: references have an owner, what runs has its images, what is removed is
\* down, and a removal can be taken up again.
InstallSound ==
    InstallTypeOK /\ ReferencesOwned /\ RunningHasImages /\ RemovedIsDown /\ RemovalRetryable

\* An installation that is ready holds the data of its staging deployment.
ReadyHasData == \A d \in AtTarget : dirs[d].kind = "ready" => volume = "copied"

\* A command ends, however the two get into each other's way.
OrdersEnd == \A p \in Operators : []<>(orders[p].stage = "idle")

=============================================================================
