-------------------------- MODULE SessionOwnership --------------------------
(***************************************************************************)
(* Who removes what a controlled session creates: a private network (when  *)
(* the plan grants one), a channel directory, a controller container and a *)
(* workload container.  The supervisor writes a durable ownership record   *)
(* naming all of them before it creates the first, prepares them under the *)
(* operation lock, arms a watchdog process, releases the lock and starts   *)
(* the containers.  Afterwards it removes them and drops the record.  If   *)
(* it dies, the watchdog and the next command on the deployment do.        *)
(*                                                                         *)
(* Source: prepare, finishStartupFailure, cleanupWorkload and              *)
(* cleanupDeliveryTail of controlled_session_supervisor.go with the        *)
(* callbacks of runControlledSessionWithControllerReservationV1, the       *)
(* runtimes they call, controlled_session_watchdog.go and                  *)
(* live_run_recovery.go.  What happens while the session is live is the    *)
(* module SessionSupervisor; here that is one step.                       *)
(***************************************************************************)
EXTENDS Naturals

Containers == {"controller", "workload"}
Resources == {"network", "channel"} \cup Containers

VARIABLES
    step,        \* where the supervisor is
    exists,       \* the resources of the session that exist
    handles,      \* the runtimes the supervisor holds, to clean them up
    owned,        \* the ownership record in the queue file
    entry,        \* the session's run is in the queue
    locked,       \* the supervisor holds the operation lock
    wrote,        \* ownershipRecorded
    released,     \* operationReleaseAttempted
    verified,     \* partialPreparationCleanupVerified
    incomplete,   \* controllerOwnershipIncomplete
    preOK,        \* preCleanupSucceeded
    tailOK,       \* the delivery-tail cleanup succeeded
    watchdog,     \* "none", "armed", "exited"
    replaced      \* another command has been admitted since

flags == <<wrote, released, verified, incomplete>>
verdicts == <<preOK, tailOK>>
durable == <<owned, entry>>
ownershipVars == <<step, exists, handles, durable, locked, flags, verdicts, watchdog, replaced>>

Alive == step \notin {"gone", "dead"}

\* What the supervisor is about to create in each step of prepare.
Creating ==
    [network |-> "network", channel |-> "channel", controller |-> "controller",
     workload |-> "workload"]

OwnershipStages ==
    DOMAIN Creating \cup {"plan", "commit", "arm", "start", "live", "pre", "tail", "disarm",
                          "finish", "gone", "dead"}

-----------------------------------------------------------------------------
(* prepare                                                                  *)

\* The step fails: startup failure, with whatever handles there are.
Fail == step' = "pre"

\* recordPlannedOwnership, before anything exists; the plan grants a session
\* network or not.
RecordPlan ==
    /\ step = "plan"
    /\ \/ /\ owned' = TRUE /\ wrote' = TRUE
          /\ step' \in {"network", "channel"}
       \/ /\ owned' \in BOOLEAN /\ wrote' = FALSE
          /\ Fail
    /\ UNCHANGED <<exists, handles, entry, locked, released, verified, incomplete, verdicts,
                   watchdog, replaced>>

\* The creation is refused before Docker is asked; only the controller's
\* adapter reports that nothing was created.
CreateRefused ==
    /\ step \in {"network", "controller", "workload"}
    /\ verified' = (verified \/ step = "controller")
    /\ Fail
    /\ UNCHANGED <<exists, handles, durable, locked, wrote, released, incomplete, verdicts,
                   watchdog, replaced>>

\* Docker reports an error or no exact ID: the resource may exist, and the
\* supervisor has no handle on it.
CreateAmbiguous ==
    /\ step \in {"network", "controller", "workload"}
    /\ exists' \in {exists, exists \cup {Creating[step]}}
    /\ Fail
    /\ UNCHANGED <<handles, durable, locked, flags, verdicts, watchdog, replaced>>

\* The network or the workload is created, and recording, inspecting or
\* attaching it fails: it is rolled back, or the rollback fails too and no
\* runtime is returned.
CreateRolledBack ==
    /\ step \in {"network", "workload"}
    /\ \/ exists' = exists /\ verified' = TRUE
       \/ exists' = exists \cup {Creating[step]} /\ verified' = verified
    /\ Fail
    /\ UNCHANGED <<handles, durable, locked, wrote, released, incomplete, verdicts, watchdog,
                   replaced>>

\* The controller is created, and recording it fails.
ControllerUnrecorded ==
    /\ step = "controller"
    /\ handles' = handles \cup {"controller"}
    /\ \/ exists' = exists /\ verified' = TRUE /\ incomplete' = FALSE
       \/ exists' = exists \cup {"controller"} /\ verified' = verified /\ incomplete' = TRUE
    /\ Fail
    /\ UNCHANGED <<durable, locked, wrote, released, verdicts, watchdog, replaced>>

\* The channel cannot be prepared: verified is what the file system shows.
ChannelFails ==
    /\ step = "channel"
    /\ exists' \in {exists, exists \cup {"channel"}}
    /\ verified' = ("channel" \notin exists')
    /\ Fail
    /\ UNCHANGED <<handles, durable, locked, wrote, released, incomplete, verdicts, watchdog,
                   replaced>>

\* The resource is created and recorded; a network that does not match the
\* plan is kept for the cleanup, and preparation ends.
Create ==
    /\ step \in DOMAIN Creating
    /\ exists' = exists \cup {Creating[step]}
    /\ handles' = handles \cup {Creating[step]}
    /\ \/ step' = [network |-> "channel", channel |-> "controller", controller |-> "workload",
                    workload |-> "commit"][step]
       \/ step = "network" /\ Fail
    /\ UNCHANGED <<durable, locked, flags, verdicts, watchdog, replaced>>

\* A bug: the released lock is not noted.
CommitUnnoted ==
    /\ step = "commit"
    /\ \/ locked' = FALSE /\ step' = "arm"
       \/ locked' = locked /\ Fail
    /\ UNCHANGED <<exists, handles, durable, wrote, released, verified, incomplete, verdicts,
                   watchdog, replaced>>

\* Output, network attachment, recordOwnership: the last record, then the lock.
Commit ==
    /\ step = "commit"
    /\ \/ released' = TRUE /\ locked' = FALSE /\ step' = "arm"
       \/ UNCHANGED <<released, locked>> /\ Fail
    /\ UNCHANGED <<exists, handles, durable, wrote, verified, incomplete, verdicts, watchdog,
                   replaced>>

Arm ==
    /\ step = "arm"
    /\ \/ watchdog' = "armed" /\ step' = "start"
       \/ watchdog' = watchdog /\ Fail
    /\ UNCHANGED <<exists, handles, durable, locked, flags, verdicts, replaced>>

\* The containers are started.  An ambiguous start removes its container, or
\* tries to.
StartSession ==
    /\ step = "start"
    /\ \/ exists' = exists /\ step' = "live"
       \/ (\E gone \in SUBSET Containers : exists' = exists \ gone) /\ Fail
    /\ UNCHANGED <<handles, durable, locked, flags, verdicts, watchdog, replaced>>

SessionEnds ==
    /\ step = "live"
    /\ step' = "pre"
    /\ UNCHANGED <<exists, handles, durable, locked, flags, verdicts, watchdog, replaced>>

-----------------------------------------------------------------------------
(***************************************************************************)
(* The supervisor's cleanup of the runtimes ts: the ones of errs report an *)
(* error, and may or may not have removed their resource.                  *)
(***************************************************************************)
CleanUp(ts, errs) ==
    \E removed \in SUBSET (exists \cap ts) :
        /\ exists \cap (ts \ errs) \subseteq removed
        /\ exists' = exists \ removed

\* cleanupWorkload; without a workload runtime it is skipped and counts as done.
PreCleanup ==
    /\ step = "pre"
    /\ LET ts == IF "workload" \in handles THEN handles \cap {"workload", "network"} ELSE {}
       IN  \E errs \in SUBSET ts :
              /\ CleanUp(ts, errs)
              /\ verified' = (verified \/ "network" \in ts \ errs)
              /\ preOK' \in {errs = {}, errs = {} /\ ts = {}}  \* closing the terminal may fail
    /\ step' = "tail"
    /\ UNCHANGED <<handles, durable, locked, wrote, released, incomplete, tailOK, watchdog,
                   replaced>>

\* cleanupDeliveryTail, up to the watchdog.
TailCleanup ==
    /\ step = "tail"
    /\ LET ts == handles \cap {"channel", "controller", "network"}
       IN  \E errs \in SUBSET ts, observed \in BOOLEAN :
              /\ CleanUp(ts, errs)
              /\ verified' = \/ verified
                             \/ "network" \in ts \ errs
                             \/ incomplete /\ "controller" \in ts \ errs
              /\ incomplete' = (incomplete /\ "controller" \notin ts \ errs)
              /\ tailOK' = (errs = {} /\ observed)
              /\ step' = IF watchdog = "armed" /\ preOK /\ tailOK' THEN "disarm" ELSE "finish"
    /\ UNCHANGED <<handles, durable, locked, wrote, released, preOK, watchdog, replaced>>

\* A network is removed only without members.
Removable(removed) ==
    "network" \in removed => exists \cap Containers \subseteq removed

\* watchdog.Disarm: the watchdog checks and removes everything once more.
Disarm ==
    /\ step = "disarm"
    /\ \/ /\ watchdog = "armed"
          /\ \E removed \in SUBSET exists :
                Removable(removed) /\ exists' = exists \ removed
          /\ tailOK' = (exists' = {})
       \/ exists' = exists /\ tailOK' = FALSE
    /\ watchdog' = "exited"
    /\ step' = "finish"
    /\ UNCHANGED <<handles, durable, locked, flags, preOK, replaced>>

\* A bug: partial preparation is never asked about.
CanCompleteAlways(cleaned) == cleaned

\* controlledSessionPreparationCanCompleteV1.
CanComplete(cleaned) == cleaned /\ (~wrote \/ released \/ verified)

\* finishControlledSessionOwnershipV1, and the release of the lease.  Both
\* records stay where the session is not known to be clean, where a lock that was
\* released cannot be had again, and where the write of the queue fails.
FinishSession ==
    /\ step = "finish"
    /\ \/ CanComplete(preOK /\ tailOK) /\ owned' = FALSE /\ entry' = FALSE
       \/ UNCHANGED durable
    /\ locked' = FALSE
    /\ step' = "gone"
    /\ UNCHANGED <<exists, handles, flags, verdicts, watchdog, replaced>>

\* The supervisor is killed; what it was creating may appear.
SupervisorCrash ==
    /\ Alive
    /\ exists' \in {exists, IF step \in DOMAIN Creating THEN exists \cup {Creating[step]} ELSE exists}
    /\ step' = "dead"
    /\ locked' = FALSE
    /\ UNCHANGED <<handles, durable, flags, verdicts, watchdog, replaced>>

-----------------------------------------------------------------------------
\* A bug: the end of the parent's pipe is not noticed.
WatchdogUnaware ==
    /\ watchdog = "armed" /\ step = "gone"
    /\ \E removed \in SUBSET exists : Removable(removed) /\ exists' = exists \ removed
    /\ watchdog' \in IF exists' = {} THEN {"exited"} ELSE {"armed", "exited"}
    /\ UNCHANGED <<step, handles, durable, locked, flags, verdicts, replaced>>

\* cleanupControlledSessionAfterParentLossV1, one attempt: it goes on while
\* Docker is unavailable and ends when everything is gone or Docker refuses.
WatchdogAttempt ==
    /\ watchdog = "armed" /\ ~Alive
    /\ \E removed \in SUBSET exists : Removable(removed) /\ exists' = exists \ removed
    /\ watchdog' \in IF exists' = {} THEN {"exited"} ELSE {"armed", "exited"}
    /\ UNCHANGED <<step, handles, durable, locked, flags, verdicts, replaced>>

WatchdogDies ==
    /\ watchdog = "armed"
    /\ watchdog' = "exited"
    /\ UNCHANGED <<step, exists, handles, durable, locked, flags, verdicts, replaced>>

\* `reploy runs stop`: both containers are removed, then the queue entry.
StopSession ==
    /\ ~locked /\ Alive /\ entry
    /\ exists' = exists \ Containers
    /\ entry' = FALSE
    /\ UNCHANGED <<step, handles, owned, locked, flags, verdicts, watchdog, replaced>>

\* A bug: the command is admitted although the recovery is incomplete.
NextCommandAnyway ==
    /\ ~locked
    /\ LET kept == entry /\ Alive
           recover == owned /\ ~kept /\ ~Alive
       IN  \E removed \in SUBSET (IF recover THEN exists ELSE {}) :
              /\ Removable(removed)
              /\ exists' = exists \ removed
              /\ owned' = (owned /\ (recover => exists' # {}))
              /\ entry' = kept
              /\ replaced' = (replaced \/ ~kept)
    /\ UNCHANGED <<step, handles, locked, flags, verdicts, watchdog>>

(***************************************************************************)
(* The next command on the deployment recovers the queue: the entry of a   *)
(* dead owner leaves; its ownership record leaves when every resource it   *)
(* names is verified absent, and until then the command is refused.        *)
(***************************************************************************)
NextCommand ==
    /\ ~locked
    /\ LET kept == entry /\ Alive
           recover == owned /\ ~kept /\ ~Alive
       IN  \E removed \in SUBSET (IF recover THEN exists ELSE {}) :
              /\ Removable(removed)
              /\ exists' = exists \ removed
              /\ owned' \in {owned, owned /\ (recover => exists' # {})}
              /\ entry' = kept
              /\ replaced' = (replaced \/ (~kept /\ (recover => ~owned')))
    /\ UNCHANGED <<step, handles, locked, flags, verdicts, watchdog>>

-----------------------------------------------------------------------------
OwnershipInit ==
    /\ step = "plan"
    /\ exists = {} /\ handles = {}
    /\ owned = FALSE /\ entry = TRUE /\ locked = TRUE
    /\ wrote = FALSE /\ released = FALSE /\ verified = FALSE /\ incomplete = FALSE
    /\ preOK = FALSE /\ tailOK = FALSE
    /\ watchdog = "none" /\ replaced = FALSE

Prepare ==
    \/ RecordPlan \/ CreateRefused \/ CreateAmbiguous \/ CreateRolledBack
    \/ ControllerUnrecorded \/ ChannelFails \/ Create \/ Commit \/ Arm \/ StartSession

OwnershipNext ==
    \/ Prepare \/ SessionEnds \/ PreCleanup \/ TailCleanup \/ Disarm \/ FinishSession \/ SupervisorCrash
    \/ WatchdogAttempt \/ WatchdogDies \/ StopSession \/ NextCommand

OwnershipSpec == OwnershipInit /\ [][OwnershipNext]_ownershipVars

\* Docker answers the watchdog some day: an attempt then removes everything.
FairOwnershipSpec ==
    OwnershipSpec /\ SF_ownershipVars(WatchdogAttempt /\ exists' = {})

-----------------------------------------------------------------------------
\* Types; the operation lock is held exactly until its release is noted.
OwnershipTypeOK ==
    /\ step \in OwnershipStages
    /\ exists \subseteq Resources /\ handles \subseteq Resources
    /\ {owned, entry, locked, wrote, released, verified, incomplete, preOK, tailOK, replaced}
          \subseteq BOOLEAN
    /\ watchdog \in {"none", "armed", "exited"}
    /\ Alive => (locked <=> ~released)

\* The supervisor returned from a preparation that failed with a session network
\* in place: the one case in which a removed network is taken for the removal of
\* everything (the violation run of ReplacementMeetsNoContainer).
PartialWithNetwork == step = "gone" /\ "network" \in handles /\ ~released

\* A resource of the session never outlives the record that names it, through
\* every failure of preparation, every failed cleanup and every crash.
OwnershipCoversResources == exists # {} => owned \/ PartialWithNetwork

\* "recovery ... must verify the old session absent before admitting
\* replacement work" (controlled_session_supervisor.go:184): once another
\* command is admitted, no container of the session exists.
ReplacementMeetsNoContainer == replaced => exists \cap Containers = {}

\* The same for every other session, crashed ones included: another command is
\* admitted only once its containers are gone.
ReplacementWaitsForCleanup == ~PartialWithNetwork => ReplacementMeetsNoContainer

\* What a session created is covered by its record until it is gone, and no
\* other command is admitted beside its containers, whatever failed or died.
OwnershipSafe == OwnershipTypeOK /\ OwnershipCoversResources /\ ReplacementWaitsForCleanup

\* If the supervisor dies after it armed the watchdog, the session's resources
\* go away without any further command, unless the watchdog gives up or dies too.
OrphansRemoved == []<>(step = "dead" /\ watchdog = "armed" => exists = {})

=============================================================================
