-------------------------- MODULE BuildPublication --------------------------
(***************************************************************************)
(* How a build becomes the current build of a deployment, or its validated *)
(* trial, and how the next command repairs a publication that was          *)
(* interrupted.  All commands hold the operation lock, so one runs at a    *)
(* time; it may fail or die between any two durable steps, and only the    *)
(* files of the deployment, the store and the Docker tags survive it.      *)
(*                                                                         *)
(* A command is the sequence of steps it still has to make: calls, which   *)
(* decide from what is on disk what to do, and durable steps, which change *)
(* it.                                                                     *)
(*                                                                         *)
(*   provider_build_run.go, provider_build_prepare.go,                     *)
(*   provider_build_execute.go, provider_build_failure_cleanup.go: builds  *)
(*   build_publication.go, pending_publication_recovery.go,                *)
(*   pending_reference_recovery.go: the current build                      *)
(*   validated_build_candidate.go, validated_build_retirement.go,          *)
(*   pending_validated_publication.go: the validated build                 *)
(***************************************************************************)
EXTENDS Naturals, Sequences

CONSTANTS
    Generations,  \* the random references that may be drawn
    Digests,      \* the digests of build locks
    LockOf,       \* the build lock of each generation
    Portable,     \* the locks with a portable layer, whose image has a companion tag
    None

Tags == {"temporary", "generation", "companion"} \X Generations

\* PendingBuildV1, ValidatedBuildV1 and the intent to replace the latter
PendingBuilds ==
    [old : Generations \cup {None}, candidate : Generations,
     phase : {"validated", "generation-created", "lock-published", "state-committed", "cleanup"}]
ValidatedBuilds ==
    [owner : Generations, cleanup : SUBSET Tags, storage : BOOLEAN, discarded : BOOLEAN]
PendingTrials == [previous : ValidatedBuilds \cup {None}, candidate : ValidatedBuilds]

ASSUME PublicationAssumption ==
    /\ LockOf \in [Generations -> Digests]
    /\ Portable \subseteq Digests
    /\ None \notin Generations \cup PendingBuilds \cup ValidatedBuilds \cup PendingTrials

VARIABLES
    current,        \* state.json: the current generation, or None
    locks,          \* the build locks on disk
    objects,        \* the locks whose objects are all in the provider store
    tags,           \* the Docker tags of the deployment
    pending,        \* pending-build.json, or None
    validated,      \* validated-build.json, or None
    pendingTrial,   \* pending-validated-build.json, or None
    todo,           \* what the running command still has to do
    faulty          \* commands may still fail

disk == <<current, locks, objects, tags, pending, validated, pendingTrial>>
publicationVars == <<disk, todo, faulty>>

-----------------------------------------------------------------------------
Temporary(g) == <<"temporary", g>>
Generation(g) == <<"generation", g>>
Companion(g) == <<"companion", g>>

\* ProjectEnvironmentOwnedReferencesV1: the tags an owner of g needs.
Owned(g) == {Generation(g)} \cup (IF LockOf[g] \in Portable THEN {Companion(g)} ELSE {})

Live(record) == record # None /\ ~record.discarded

\* PendingCleanup: the superseded tags a validated record still has to retire.
Inventory(record) == IF record = None THEN {} ELSE record.cleanup

\* The generations some file or tag mentions.
Mentioned ==
    {current} \cup {tag[2] : tag \in tags}
    \cup (IF pending = None THEN {} ELSE {pending.old, pending.candidate})
    \cup (IF validated = None THEN {} ELSE {validated.owner}) \cup {r[2] : r \in Inventory(validated)}
    \cup (IF pendingTrial = None THEN {} ELSE {pendingTrial.candidate.owner})

\* NewEnvironmentImageReferences: a name nobody uses.  It carries no meaning, so
\* one unused name stands for all of them.
Unused(d) == {g \in Generations \ Mentioned : LockOf[g] = d}
Fresh(d) == CHOOSE g \in Unused(d) : TRUE

\* A bug: only the current build keeps its lock and objects.
RootsCurrentOnly == IF current = None THEN {} ELSE {LockOf[current]}

\* pendingPublicationRootsV1, and the same roots in the other prunings: the
\* current build and an independently validated one.
Roots ==
    (IF current = None THEN {} ELSE {LockOf[current]})
    \cup (IF Live(validated) THEN {LockOf[validated.owner]} ELSE {})

\* The lock and the objects of g are there.
Complete(g) == LockOf[g] \in locks \cap objects

\* Without all objects of the validated build, publications leave the store alone.
StorePruneSafe == Live(validated) => LockOf[validated.owner] \in objects

\* pendingValidatedCleanupV1: the tags a successor of the record has to retire.
Superseded(record) ==
    Inventory(record) \cup (IF Live(record) THEN Owned(record.owner) ELSE {})

\* What belongs to the current build and to its pending publication.
Protected ==
    (IF current = None THEN {} ELSE Owned(current))
    \cup (IF pending = None THEN {}
          ELSE Owned(pending.candidate) \cup {Temporary(pending.candidate)}
               \cup (IF pending.old = None THEN {} ELSE Owned(pending.old)))

-----------------------------------------------------------------------------
(* The steps of the operations.                                             *)

WithCompanion(op, g) == IF LockOf[g] \in Portable THEN << <<op, Companion(g)>> >> ELSE <<>>

CreateOwned(g) == WithCompanion("tag", g) \o << <<"tag", Generation(g)>> >>

RemoveOwned(g) == << <<"untag", Generation(g)>> >> \o WithCompanion("untag", g)

\* The end of a publication and of its recovery.
FinishPublication(g) ==
    << <<"untag", Temporary(g)>>, <<"prune locks">> >>
    \o (IF StorePruneSafe THEN << <<"prune store">> >> ELSE <<>>)
    \o << <<"close">> >>

\* A bug: the state names the candidate before its lock is on disk.
PublishStateFirst(g) ==
    << <<"intend", g>>, <<"tag", Temporary(g)>> >> \o CreateOwned(g)
    \o << <<"advance", "generation-created">>, <<"commit", g>>, <<"lock", LockOf[g]>>,
          <<"advance", "lock-published">>, <<"advance", "state-committed">>,
          <<"advance", "cleanup">> >>
    \o (IF current = None THEN <<>> ELSE RemoveOwned(current))
    \o FinishPublication(g)

\* A bug: the phase is advanced ahead of the commit it announces.
PublishPhaseFirst(g) ==
    << <<"intend", g>>, <<"tag", Temporary(g)>> >> \o CreateOwned(g)
    \o << <<"advance", "generation-created">>, <<"lock", LockOf[g]>>,
          <<"advance", "lock-published">>, <<"advance", "state-committed">>, <<"commit", g>>,
          <<"advance", "cleanup">> >>
    \o (IF current = None THEN <<>> ELSE RemoveOwned(current))
    \o FinishPublication(g)

\* publishBuild, once it has checked everything.
PublishSteps(g) ==
    << <<"intend", g>>, <<"tag", Temporary(g)>> >> \o CreateOwned(g)
    \o << <<"advance", "generation-created">>, <<"lock", LockOf[g]>>,
          <<"advance", "lock-published">>, <<"commit", g>>, <<"advance", "state-committed">>,
          <<"advance", "cleanup">> >>
    \o (IF current = None THEN <<>> ELSE RemoveOwned(current))
    \o FinishPublication(g)

\* publishValidatedBuild up to the commit of its record.
TrialSteps(g) ==
    << <<"lock", LockOf[g]>>, <<"intend trial", g>> >> \o CreateOwned(g)
    \o << <<"commit trial">> >>

\* What publishValidatedBuild does once the record is committed: a failure
\* here does not fail the build.
AfterTrial == << <<"executed">>, <<"close trial">>, <<"retire">>, <<"storage">> >>

\* DiscardValidatedBuild.
DiscardSteps == << <<"recover trial">>, <<"discard">>, <<"retire">>, <<"storage">> >>

\* runLockedProviderBuildV1 and PrepareLockedProviderBuildV1, before execution.
PrepareSteps == << <<"recover trial">>, <<"retire">>, <<"recover">> >>

\* cleanupFailedProviderBuildV1.
FailureCleanup == PrepareSteps \o << <<"sweep">> >>

-----------------------------------------------------------------------------
\* The running command is at a step of kind op.
At(op) == todo # <<>> /\ Head(todo)[1] = op
Argument == Head(todo)[2]

Advance == todo' = Tail(todo)
Expand(steps) == todo' = steps \o Tail(todo)

\* The step returns an error.  A failed execution is followed by its cleanup,
\* anything else ends the command.
Executing == \E i \in DOMAIN todo : todo[i] = <<"executed">>
Fail == todo' = IF Executing THEN FailureCleanup ELSE <<>>

\* A step of the command that is refused when ok does not hold.
Checked(ok, steps) == IF ok THEN Expand(steps) ELSE Fail

\* A new build: an ordinary one, or one that only validates choices.
Begin ==
    /\ todo = <<>>
    /\ \E mode \in {"build", "validate"} : todo' = PrepareSteps \o << <<"execute", mode>> >>
    /\ UNCHANGED <<disk, faulty>>

\* The current build is reused; the validated one is discarded.
ReuseCurrent ==
    /\ At("execute") /\ Argument = "build" /\ current # None
    /\ todo' = << <<"executed">> >> \o DiscardSteps
    /\ UNCHANGED <<disk, faulty>>

\* A fresh build, a republished or a promoted one: its objects are in the store.
BuildOrPromote ==
    /\ At("execute") /\ Argument = "build"
    /\ \E d \in {d \in Digests : Unused(d) # {}} :
          /\ objects' = objects \cup {d}
          /\ todo' = << <<"publish", Fresh(d)>>, <<"executed">> >> \o DiscardSteps
    /\ UNCHANGED <<current, locks, tags, pending, validated, pendingTrial, faulty>>

\* A validation that reuses the validated build retries its cleanup.
ReuseTrial ==
    /\ At("execute") /\ Argument = "validate" /\ Live(validated)
    /\ todo' = IF Inventory(validated) # {} \/ validated.storage
               THEN << <<"recover trial">>, <<"executed">>, <<"retire">>, <<"storage">> >>
               ELSE <<>>
    /\ UNCHANGED <<disk, faulty>>

BuildTrial ==
    /\ At("execute") /\ Argument = "validate"
    /\ \E d \in {d \in Digests : Unused(d) # {}} :
          /\ objects' = objects \cup {d}
          /\ todo' = << <<"recover trial">>, <<"publish trial", Fresh(d)>> >> \o AfterTrial
    /\ UNCHANGED <<current, locks, tags, pending, validated, pendingTrial, faulty>>

-----------------------------------------------------------------------------
(* Calls: what is on disk decides.                                          *)

\* requireValidatedPruningBoundaryV1.
PruningBoundary == pendingTrial = None /\ Inventory(validated) = {}

\* publishBuild, its checks.
Publish ==
    /\ At("publish")
    /\ LET ok == /\ PruningBoundary
                 /\ pending = None
                 /\ LockOf[Argument] \in objects
                 /\ current # None => LockOf[current] \in locks
                 /\ Live(validated) => LockOf[validated.owner] \in locks
       IN  Checked(ok, PublishSteps(Argument))
    /\ UNCHANGED <<disk, faulty>>

\* publishValidatedBuild, its checks.
PublishTrial ==
    /\ At("publish trial")
    /\ LET ok == /\ pending = None /\ pendingTrial = None
                 /\ LockOf[Argument] \in objects
                 /\ current # None => LockOf[current] \in locks
                 /\ Live(validated) => Complete(validated.owner)
       IN  Checked(ok, TrialSteps(Argument))
    /\ UNCHANGED <<disk, faulty>>

\* What a committed state says of a pending publication (DecidePendingRecovery).
DiscardsCandidate == current = pending.old
KeepsCandidate == current = pending.candidate /\ LockOf[current] \in locks

\* RecoverPendingPublication accepts what it finds: no conflict, and the build
\* it selects is complete.
Recoverable ==
    /\ DiscardsCandidate \/ KeepsCandidate
    /\ current # None => Complete(current)
    /\ Live(validated) => LockOf[validated.owner] \in locks

\* A bug: the candidate's lock is asked for although the state was not committed.
RecoverNeedsLock ==
    /\ At("recover")
    /\ IF pending = None /\ PruningBoundary
       THEN Advance
       ELSE Checked(PruningBoundary /\ Recoverable /\ LockOf[pending.candidate] \in locks,
                    (IF DiscardsCandidate
                     THEN RemoveOwned(pending.candidate)
                     ELSE IF pending.old = None THEN <<>> ELSE RemoveOwned(pending.old))
                    \o FinishPublication(pending.candidate))
    /\ UNCHANGED <<disk, faulty>>

\* RecoverPendingPublication.
Recover ==
    /\ At("recover")
    /\ IF pending = None /\ PruningBoundary
       THEN Advance
       ELSE Checked(PruningBoundary /\ Recoverable,
                    (IF DiscardsCandidate
                     THEN RemoveOwned(pending.candidate)
                     ELSE IF pending.old = None THEN <<>> ELSE RemoveOwned(pending.old))
                    \o FinishPublication(pending.candidate))
    /\ UNCHANGED <<disk, faulty>>

\* The record in the file is the one of the intent, before or after its commit.
TrialCommitted == validated = pendingTrial.candidate

TrialRecoverable ==
    /\ pending = None
    /\ pendingTrial.candidate.cleanup = Superseded(pendingTrial.previous)
    /\ Complete(pendingTrial.candidate.owner)
    /\ current # None => LockOf[current] \in locks
    /\ IF TrialCommitted
       THEN Owned(validated.owner) \subseteq tags
       ELSE validated = pendingTrial.previous /\ (Live(validated) => Complete(validated.owner))

\* recoverPendingValidatedPublicationV1.
RecoverTrial ==
    /\ At("recover trial")
    /\ IF pendingTrial = None
       THEN Advance
       ELSE Checked(TrialRecoverable,
                    (IF TrialCommitted THEN <<>> ELSE RemoveOwned(pendingTrial.candidate.owner))
                    \o << <<"close trial">> >>)
    /\ UNCHANGED <<disk, faulty>>

\* validateValidatedRetirementV1: nothing to be retired is in use.
Retirable ==
    /\ pendingTrial = None
    /\ Roots \subseteq locks
    /\ Superseded(validated) \cap Protected = {}

\* cleanupPendingValidatedReferencesV1: superseded tags are removed, as far as
\* Docker lets it, and then struck off the record.
Retire ==
    /\ At("retire")
    /\ IF Retirable /\ Inventory(validated) # {}
       THEN \E left \in IF faulty THEN SUBSET Inventory(validated) ELSE {{}} :
               /\ tags' = tags \ (Inventory(validated) \ left)
               /\ IF left = Inventory(validated) THEN Fail ELSE Expand(<< <<"note", left>> >>)
       ELSE /\ tags' = tags
            /\ IF Inventory(validated) = {} THEN Advance ELSE Fail
    /\ UNCHANGED <<current, locks, objects, pending, validated, pendingTrial, faulty>>

\* discardValidatedBuildWithBackendV1: the record is closed for reuse before
\* any of its tags goes.
Discard ==
    /\ At("discard")
    /\ IF validated # None /\ Retirable /\ Live(validated)
       THEN /\ validated' = [validated EXCEPT !.cleanup = @ \cup Owned(validated.owner),
                                              !.storage = TRUE, !.discarded = TRUE]
            /\ Advance
       ELSE /\ validated' = validated
            /\ IF validated = None THEN todo' = <<>> ELSE Checked(Retirable, <<>>)
    /\ UNCHANGED <<current, locks, objects, tags, pending, pendingTrial, faulty>>

\* cleanupValidatedBuildStorage, its checks.
CleanupStorage ==
    /\ At("storage")
    /\ Checked(PruningBoundary /\ pending = None /\ Retirable,
               << <<"prune store">>, <<"prune locks">>, <<"settle">> >>)
    /\ UNCHANGED <<disk, faulty>>

\* The end of cleanupFailedProviderBuildV1; --no-cache keeps the store.
Sweep ==
    /\ At("sweep")
    /\ \E noCache \in BOOLEAN :
          Checked(Retirable, IF noCache \/ ~StorePruneSafe
                             THEN << <<"prune locks">> >>
                             ELSE << <<"prune store">>, <<"prune locks">>, <<"settle">> >>)
    /\ UNCHANGED <<disk, faulty>>

-----------------------------------------------------------------------------
(* Durable steps.  The files of intents and of the state refuse a write that *)
(* does not fit what they hold: that is a guard here, and the command would  *)
(* deadlock on it.                                                           *)

Phases == <<"validated", "generation-created", "lock-published", "state-committed", "cleanup">>

\* WritePendingBuild.
WriteIntent ==
    /\ At("intend")
    /\ pending = None
    /\ pending' = [old |-> current, candidate |-> Argument, phase |-> Phases[1]]
    /\ Advance
    /\ UNCHANGED <<current, locks, objects, tags, validated, pendingTrial, faulty>>

\* AdvancePendingBuildPhase.
AdvancePhase ==
    /\ At("advance")
    /\ \E i \in 1..4 : pending.phase = Phases[i] /\ Argument = Phases[i + 1]
    /\ pending' = [pending EXCEPT !.phase = Argument]
    /\ Advance
    /\ UNCHANGED <<current, locks, objects, tags, validated, pendingTrial, faulty>>

\* A bug: the intent is marked as done and left there.
CloseByMark ==
    /\ At("close")
    /\ pending' = [pending EXCEPT !.phase = "done"]
    /\ Advance
    /\ UNCHANGED <<current, locks, objects, tags, validated, pendingTrial, faulty>>

\* RemovePendingBuild.
RemoveIntent ==
    /\ At("close")
    /\ pending' = None
    /\ Advance
    /\ UNCHANGED <<current, locks, objects, tags, validated, pendingTrial, faulty>>

\* CreateEnvironmentImageReference and the removers: absent tags stay absent.
Tag ==
    /\ At("tag") \/ At("untag")
    /\ tags' = IF At("tag") THEN tags \cup {Argument} ELSE tags \ {Argument}
    /\ Advance
    /\ UNCHANGED <<current, locks, objects, pending, validated, pendingTrial, faulty>>

\* PublishBuildLock: an identical lock may be there already.
PublishLock ==
    /\ At("lock")
    /\ locks' = locks \cup {Argument}
    /\ Advance
    /\ UNCHANGED <<current, objects, tags, pending, validated, pendingTrial, faulty>>

\* CommitStateV1, against the generation the publication has read.
CommitState ==
    /\ At("commit")
    /\ current = pending.old
    /\ current' = Argument
    /\ Advance
    /\ UNCHANGED <<locks, objects, tags, pending, validated, pendingTrial, faulty>>

\* RemoveBuildLocksExcept: it fails when a lock to keep is missing.
PruneLocks ==
    /\ At("prune locks")
    /\ IF Roots \subseteq locks THEN locks' = Roots /\ Advance ELSE locks' = locks /\ Fail
    /\ UNCHANGED <<current, objects, tags, pending, validated, pendingTrial, faulty>>

\* RemoveUnreachableBuildObjectsForBuilds: it fails when a root is incomplete.
PruneStore ==
    /\ At("prune store")
    /\ IF Roots \subseteq objects THEN objects' = Roots /\ Advance ELSE objects' = objects /\ Fail
    /\ UNCHANGED <<current, locks, tags, pending, validated, pendingTrial, faulty>>

TrialRecord(g) ==
    [owner |-> g, cleanup |-> Superseded(validated), storage |-> TRUE, discarded |-> FALSE]

\* A bug: the record to fall back to is left out of the intent.
WriteTrialIntentAlone ==
    /\ At("intend trial")
    /\ pendingTrial' = [previous |-> None, candidate |-> TrialRecord(Argument)]
    /\ Advance
    /\ UNCHANGED <<current, locks, objects, tags, pending, validated, faulty>>

\* WritePendingValidatedBuildV1.
WriteTrialIntent ==
    /\ At("intend trial")
    /\ pendingTrial' = [previous |-> validated, candidate |-> TrialRecord(Argument)]
    /\ Advance
    /\ UNCHANGED <<current, locks, objects, tags, pending, validated, faulty>>

\* CommitValidatedBuildV1 of the new record.
CommitTrial ==
    /\ At("commit trial")
    /\ validated = pendingTrial.previous
    /\ validated' = pendingTrial.candidate
    /\ Advance
    /\ UNCHANGED <<current, locks, objects, tags, pending, pendingTrial, faulty>>

\* RemovePendingValidatedBuildV1.
RemoveTrialIntent ==
    /\ At("close trial")
    /\ pendingTrial' = None
    /\ Advance
    /\ UNCHANGED <<current, locks, objects, tags, pending, validated, faulty>>

\* A bug: removed tags stay on the record.
NoteNothing ==
    /\ At("note")
    /\ validated' = validated
    /\ IF Argument = {} THEN Advance ELSE Fail
    /\ UNCHANGED <<current, locks, objects, tags, pending, pendingTrial, faulty>>

\* The record after a retirement: what could not be removed stays, and is an error.
NoteRetired ==
    /\ At("note")
    /\ validated' = [validated EXCEPT !.cleanup = Argument]
    /\ IF Argument = {} THEN Advance ELSE Fail
    /\ UNCHANGED <<current, locks, objects, tags, pending, pendingTrial, faulty>>

\* After the storage: a discarded record goes, a live one is settled.
Settle ==
    /\ At("settle")
    /\ validated' = IF Live(validated) THEN [validated EXCEPT !.storage = FALSE] ELSE None
    /\ Advance
    /\ UNCHANGED <<current, locks, objects, tags, pending, pendingTrial, faulty>>

\* ExecuteLockedProviderBuildV1 has returned without an error.
Executed ==
    /\ At("executed")
    /\ Advance
    /\ UNCHANGED <<disk, faulty>>

-----------------------------------------------------------------------------
\* A step fails without effect (with its effect: the next one does), or the
\* command dies.
StepFails == faulty /\ todo # <<>> /\ Fail /\ UNCHANGED <<disk, faulty>>
Crash == faulty /\ todo # <<>> /\ todo' = <<>> /\ UNCHANGED <<disk, faulty>>

\* From some day on, nothing fails.
Calm == faulty /\ faulty' = FALSE /\ UNCHANGED <<disk, todo>>

PublicationInit ==
    /\ current = None /\ pending = None /\ validated = None /\ pendingTrial = None
    /\ locks = {} /\ objects = {} /\ tags = {}
    /\ todo = <<>> /\ faulty = TRUE

Call ==
    \/ Publish \/ PublishTrial \/ Recover \/ RecoverTrial \/ Retire \/ Discard
    \/ CleanupStorage \/ Sweep

Execute == ReuseCurrent \/ BuildOrPromote \/ ReuseTrial \/ BuildTrial \/ Executed

Write ==
    \/ WriteIntent \/ AdvancePhase \/ RemoveIntent \/ Tag \/ PublishLock \/ CommitState
    \/ PruneLocks \/ PruneStore \/ WriteTrialIntent \/ CommitTrial \/ RemoveTrialIntent
    \/ NoteRetired \/ Settle

Proceed == Begin \/ Execute \/ Call \/ Write

PublicationNext == Proceed \/ StepFails \/ Crash \/ Calm

PublicationSpec == PublicationInit /\ [][PublicationNext]_publicationVars

\* Failures end, and somebody builds again and again.
FairPublicationSpec ==
    PublicationSpec /\ WF_publicationVars(Calm) /\ WF_publicationVars(Proceed)

-----------------------------------------------------------------------------
IsRecord(r) ==
    /\ DOMAIN r = {"owner", "cleanup", "storage", "discarded"}
    /\ r.owner \in Generations /\ r.cleanup \subseteq Tags
    /\ {r.storage, r.discarded} \subseteq BOOLEAN
    /\ r.discarded => r.storage
    /\ Live(r) => r.cleanup \cap Owned(r.owner) = {}

\* What the files hold passes their validation: the phases of a pending build,
\* and the rules of ValidateValidatedBuildV1 on cleanup inventories.
PublicationTypeOK ==
    /\ current \in Generations \cup {None}
    /\ locks \subseteq Digests /\ objects \subseteq Digests
    /\ tags \subseteq Tags
    /\ pending # None =>
          /\ pending.candidate \in Generations /\ pending.old \in Generations \cup {None}
          /\ \E i \in DOMAIN Phases : pending.phase = Phases[i]
    /\ validated # None => IsRecord(validated)
    /\ pendingTrial # None =>
          /\ IsRecord(pendingTrial.candidate)
          /\ pendingTrial.previous # None => IsRecord(pendingTrial.previous)
    /\ faulty \in BOOLEAN

\* At every moment, in the middle of every publication, recovery and crash, the
\* current build can be run: its tags, its lock and its objects are there.
CurrentRunnable == current # None => Owned(current) \subseteq tags /\ Complete(current)

\* The same of a validated build that may still be promoted: no publication,
\* recovery or failure cleanup of the current build prunes it.
TrialUsable == Live(validated) => Owned(validated.owner) \subseteq tags /\ Complete(validated.owner)

\* The next command can always resolve what it finds: at most one publication
\* is pending, and its recovery meets neither a conflict nor a missing lock.
RecoveryAccepted ==
    /\ pending # None => Recoverable /\ PruningBoundary
    /\ pendingTrial # None => TrialRecoverable

\* The phase a pending build records brackets the commit of the state, also
\* while its recovery undoes or finishes it.
PhaseTruthful ==
    pending # None =>
        /\ pending.phase \in {"validated", "generation-created"} => current = pending.old
        /\ pending.phase \in {"state-committed", "cleanup"} => current = pending.candidate

\* No tag is ever without an owner on disk that will remove it.
NoLeakedTags ==
    tags \subseteq
        Protected \cup Superseded(validated)
        \cup (IF pendingTrial = None THEN {} ELSE Owned(pendingTrial.candidate.owner))

\* Both the current build and a live validated one can be used at every moment;
\* and whatever a command died in, the next one can finish or undo it, reads a
\* phase that is true of the state, and finds an owner for every tag.
PublicationSound ==
    /\ PublicationTypeOK /\ CurrentRunnable /\ TrialUsable
    /\ RecoveryAccepted /\ PhaseTruthful /\ NoLeakedTags

\* Once failures stop, the builds that follow resolve every pending publication.
PendingResolved == []<>(pending = None /\ pendingTrial = None)

\* Once failures stop, superseded tags are removed.
CleanupSettles == []<>(Inventory(validated) = {})

\* Once failures stop, nothing stays pending and nothing superseded stays tagged.
PublicationSettles == PendingResolved /\ CleanupSettles

=============================================================================
