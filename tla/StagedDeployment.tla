--------------------------- MODULE StagedDeployment ---------------------------
(***************************************************************************)
(* The staging directory of an environment: `stage`, `stage --update`,     *)
(* forced replacement by a blueprint of another environment, recovery of   *)
(* the state format of earlier development versions, and `stage --remove`; *)
(* by two operators at once.  A command works under the operation lock.    *)
(* Forced commands and removals are admitted to the queue first, and while *)
(* they wait the lock is free.  Any step may fail and any command may die; *)
(* a write of the state may happen although an error is reported.  The     *)
(* marker of a command that ended is discarded by the recovery of the      *)
(* queue, which here happens at once.                                      *)
(*                                                                         *)
(* Builds, validations and their recovery appear by their outcomes (their  *)
(* steps are those of the module BuildPublication), so does the start of   *)
(* the workload.  A staged document is its environment and the name of its *)
(* control script.                                                         *)
(***************************************************************************)
EXTENDS Naturals, FiniteSets

CONSTANTS
    Docs,          \* blueprint documents
    DocEnv,        \* the environment each belongs to
    DocScript,     \* the name of its control script
    Images,        \* generations that may be built, 1 .. n
    MaxCommands,   \* commands of a behaviour
    MaxMishaps     \* failed steps, deaths, interrupted builds, foreign edits

ASSUME StagedBounds ==
    /\ Images \subseteq Nat \ {0} /\ 1 \in Images
    /\ \A d \in Docs : DocEnv[d] # "none"
    /\ MaxCommands \in Nat /\ MaxMishaps \in Nat

VARIABLES
    staging,    \* the state file
    validated,  \* the record of the validated build
    intent,     \* the pending publication
    images,     \* generations whose image reference exists
    madeFor,    \* the environment each generation was built for
    serving,    \* the generation the staged workload runs, 0 if none
    sidecar,    \* the environment that the package overrides target
    files,      \* the files of the control surface
    manifest,   \* the names in its manifest
    users,      \* the commands under way
    holder,     \* who holds the operation lock
    markers,    \* who has an admission marker
    unsynced,   \* reference: a document was recorded and no surface made since
    cutShort,   \* reference: a surface was left half-way
    given, mishaps

surface == <<files, manifest>>
deployment == <<staging, validated, intent, images, madeFor, serving>>
process == <<users, holder, markers, given, mishaps>>
stagedVars == <<deployment, sidecar, surface, process, unsynced, cutShort>>

Humans == {"a", "b"}
Free == "free"
NoStaging == [shape |-> "none", doc |-> "none", image |-> 0, guard |-> FALSE]
NoRecord == [image |-> 0, discarded |-> FALSE, cleanup |-> {}]
NoIntent == [kind |-> "none", image |-> 0, old |-> 0]
NoSurfacePlan == [write |-> {}, remove |-> {}]
NoCommand == [cmd |-> "none", stage |-> "idle", doc |-> "none", saw |-> NoStaging,
              sawRecord |-> NoRecord, plan |-> NoSurfacePlan]
Scripts == {DocScript[d] : d \in Docs}
Names == {"runtime"} \cup Scripts
Fresh == {i \in Images : madeFor[i] = "none"}

StagingOf(first, made, contents) ==
    /\ staging = first
    /\ validated = NoRecord /\ intent = NoIntent
    /\ images = made
    /\ madeFor = [i \in Images |-> IF i \in made THEN DocEnv[first.doc] ELSE "none"]
    /\ serving = 0
    /\ sidecar = "none"
    /\ files = contents /\ manifest = {}
    /\ users = [p \in Humans |-> NoCommand]
    /\ holder = Free /\ markers = {}
    /\ unsynced = (first.shape # "none") /\ cutShort = FALSE
    /\ given = 0 /\ mishaps = 0

Untouched == [n \in Names |-> "absent"]

\* Nothing is staged; a directory that was uninstalled holds the surface of the
\* installed deployment; or there is a state of the earlier format, built or not.
StagedInit ==
    \/ StagingOf(NoStaging, {}, Untouched)
    \/ StagingOf(NoStaging, {}, [n \in Names |-> "installed"])
    \/ \E d \in Docs, i \in {0, 1} :
         StagingOf([NoStaging EXCEPT !.shape = "legacy", !.doc = d, !.image = i], {i} \ {0}, Untouched)

-----------------------------------------------------------------------------
(* Commands, the lock and the queue.                                       *)

Found == staging.shape # "none"
Mishap == mishaps < MaxMishaps /\ mishaps' = mishaps + 1
Stands(p, stage) == users[p].stage = stage
To(p, stage) == users' = [users EXCEPT ![p].stage = stage]

\* A step of p that only moves it on.
Moves(p, from, to) ==
    /\ Stands(p, from) /\ To(p, to)
    /\ UNCHANGED <<holder, markers, given, mishaps>>

Quits(p) ==
    /\ users' = [users EXCEPT ![p] = NoCommand]
    /\ holder' = IF holder = p THEN Free ELSE holder
    /\ markers' = markers \ {p}
    /\ cutShort' = (cutShort \/ Stands(p, "write") \/ Stands(p, "sweep") \/ Stands(p, "list"))
    /\ UNCHANGED given

Refused(p) == Quits(p) /\ UNCHANGED <<deployment, sidecar, surface, unsynced, mishaps>>

Issue(p, cmd, doc) ==
    /\ Stands(p, "idle") /\ given < MaxCommands
    /\ given' = given + 1
    /\ users' = [users EXCEPT ![p] = [NoCommand EXCEPT !.cmd = cmd, !.doc = doc, !.stage = "begin"]]
    /\ UNCHANGED <<deployment, sidecar, surface, holder, markers, mishaps, unsynced, cutShort>>

\* Commands that may create a directory are refused under the terminal guard;
\* removal and replacement open what exists.
Begin(p) ==
    LET first == CASE users[p].cmd = "remove" -> "d-read"
                   [] users[p].cmd = "replace" -> "r-read"
                   [] users[p].cmd = "recover" -> "l-read"
                   [] OTHER -> "set"
        opens == IF users[p].cmd \in {"remove", "replace"} THEN Found ELSE ~ staging.guard
    IN  /\ Stands(p, "begin") /\ holder = Free
        /\ \/ /\ opens
              /\ To(p, first) /\ holder' = p
              /\ UNCHANGED <<markers, given, mishaps, deployment, sidecar, surface, unsynced, cutShort>>
           \/ ~ opens /\ Refused(p)

\* A step fails, or the command dies: its lock and its lease go with it.
StepFails(p) ==
    /\ ~ Stands(p, "idle") /\ ~ Stands(p, "begin")
    /\ Mishap /\ Quits(p)
    /\ UNCHANGED <<deployment, sidecar, surface, unsynced>>

\* Admission: at once, or after a wait during which others hold the lock.
AwaitAdmission(p, from) ==
    /\ Stands(p, from) /\ holder = p
    /\ To(p, CASE from = "r-admit" -> "r-wait" [] from = "l-admit" -> "l-wait" [] OTHER -> "d-wait")
    /\ holder' = Free
    /\ UNCHANGED <<deployment, sidecar, surface, markers, given, mishaps, unsynced, cutShort>>

Admit(p, from, to) ==
    /\ Stands(p, from) /\ holder \in {p, Free} /\ markers \subseteq {p}
    /\ To(p, to)
    /\ holder' = p /\ markers' = markers \cup {p}
    /\ UNCHANGED <<deployment, sidecar, surface, given, mishaps, unsynced, cutShort>>

-----------------------------------------------------------------------------
(* stage and stage --update.                                               *)

SurfaceNames(doc) == {"runtime", DocScript[doc]}

\* Whether the surface of a document may be made: what is not in the manifest
\* is absent, equal to what would be written, or that of the installed
\* deployment; what is obsolete is as it was written.
SurfacePossible(doc) ==
    LET adopts == files[DocScript[doc]] = "installed" /\ files["runtime"] # "absent" IN
    /\ \A n \in SurfaceNames(doc) \ manifest : adopts \/ files[n] \in {"absent", "ours"}
    /\ \A n \in manifest \ SurfaceNames(doc) : files[n] \in {"absent", "ours"}

\* setDesiredStateV1.  A new directory may start with package overrides that
\* come with a local blueprint: they are written before the state.
SetAllowed(p) ==
    LET c == users[p] IN
    /\ intent.kind = "none"
    /\ staging.shape # "legacy"
    /\ SurfacePossible(c.doc)
    /\ c.cmd = "create" => ~ Found
    /\ c.cmd = "update" => Found
    /\ Found => DocEnv[staging.doc] = DocEnv[c.doc]

WriteSidecar(p) ==
    /\ users[p].cmd = "create" /\ SetAllowed(p) /\ sidecar = "none"
    /\ sidecar' = DocEnv[users[p].doc]
    /\ Moves(p, "set", "set-with-sidecar")
    /\ UNCHANGED <<deployment, surface, unsynced, cutShort>>

Record(p) ==
    /\ staging' = [staging EXCEPT !.shape = "state", !.doc = users[p].doc]
    /\ unsynced' = TRUE
    /\ UNCHANGED <<validated, intent, images, madeFor, serving, surface, cutShort>>

SetState(p) ==
    /\ Stands(p, "set") \/ Stands(p, "set-with-sidecar")
    /\ \/ Stands(p, "set") /\ ~ SetAllowed(p) /\ Refused(p)
       \/ /\ Stands(p, "set") => SetAllowed(p)
          /\ Record(p)
          /\ To(p, "sync") /\ holder' = Free
          /\ UNCHANGED <<sidecar, markers, given, mishaps>>

\* The write of the state is reported as failed, and may have happened: the
\* overrides written with it are taken back.
SetFails(p) ==
    /\ Stands(p, "set-with-sidecar")
    /\ Mishap
    /\ sidecar' = "none"
    /\ \/ staging' = [staging EXCEPT !.shape = "state", !.doc = users[p].doc] /\ unsynced' = TRUE
       \/ UNCHANGED <<staging, unsynced>>
    /\ Quits(p)
    /\ UNCHANGED <<validated, intent, images, madeFor, serving, surface>>

-----------------------------------------------------------------------------
(* The control surface, made from the state as it is when the lock is      *)
(* taken again.                                                            *)

SyncPlan(p) ==
    /\ Stands(p, "sync") /\ holder = Free
    /\ IF staging.shape = "state" /\ ~ staging.guard /\ SurfacePossible(staging.doc)
       THEN /\ holder' = p
            /\ users' = [users EXCEPT ![p].stage = "write",
                 ![p].plan = [write |-> SurfaceNames(staging.doc), remove |-> manifest \ SurfaceNames(staging.doc)]]
            /\ UNCHANGED <<markers, given, mishaps, deployment, sidecar, surface, unsynced, cutShort>>
       ELSE Refused(p)

WriteFile(p) ==
    LET plan == users[p].plan IN
    /\ Stands(p, "write")
    /\ \E n \in plan.write :
         /\ files' = [files EXCEPT ![n] = "ours"]
         /\ users' = [users EXCEPT ![p].plan.write = @ \ {n},
                                   ![p].stage = IF plan.write = {n} THEN "sweep" ELSE @]
    /\ UNCHANGED <<deployment, sidecar, manifest, holder, markers, given, mishaps, unsynced, cutShort>>

\* An obsolete file is looked at again before it is removed.
SweepFile(p) ==
    LET plan == users[p].plan IN
    /\ Stands(p, "sweep")
    /\ IF plan.remove = {} THEN Moves(p, "sweep", "list") /\ UNCHANGED <<files, cutShort>>
       ELSE \E n \in plan.remove :
              IF files[n] \in {"absent", "ours"}
              THEN /\ files' = [files EXCEPT ![n] = "absent"]
                   /\ users' = [users EXCEPT ![p].plan.remove = @ \ {n}]
                   /\ UNCHANGED <<holder, markers, given, mishaps, cutShort>>
              ELSE Quits(p) /\ UNCHANGED <<files, mishaps>>
    /\ UNCHANGED <<deployment, sidecar, manifest, unsynced>>

WriteManifest(p) ==
    /\ Stands(p, "list")
    /\ manifest' = SurfaceNames(staging.doc)
    /\ unsynced' = FALSE
    /\ users' = [users EXCEPT ![p] = NoCommand]
    /\ holder' = Free
    /\ UNCHANGED <<deployment, sidecar, files, markers, given, mishaps, cutShort>>

\* Somebody edits or replaces a file of the surface.
ForeignEdit(n) ==
    /\ Mishap
    /\ files[n] # "theirs"
    /\ files' = [files EXCEPT ![n] = "theirs"]
    /\ UNCHANGED <<deployment, sidecar, manifest, users, holder, markers, given, unsynced, cutShort>>

-----------------------------------------------------------------------------
(* Builds and the workload, by their outcomes.                             *)

Elsewhere == UNCHANGED <<sidecar, surface, users, holder, markers, given, unsynced, cutShort>>

\* A published build: it is current and the reference of the former one goes.
Build(i) ==
    /\ holder = Free /\ staging.shape = "state" /\ ~ staging.guard /\ intent.kind = "none"
    /\ sidecar \in {"none", DocEnv[staging.doc]}
    /\ i \in Fresh
    /\ madeFor' = [madeFor EXCEPT ![i] = DocEnv[staging.doc]]
    /\ \/ /\ staging' = [staging EXCEPT !.image = i]
          /\ images' = (images \ {staging.image}) \cup {i}
          /\ UNCHANGED <<intent, mishaps>>
       \/ /\ Mishap
          /\ images' = images \cup {i}
          /\ intent' = [kind |-> "current", image |-> i, old |-> staging.image]
          /\ staging' \in {staging, [staging EXCEPT !.image = i]}
    /\ UNCHANGED <<validated, serving>> /\ Elsewhere

Validate(i) ==
    /\ holder = Free /\ staging.shape = "state" /\ ~ staging.guard /\ intent.kind = "none"
    /\ sidecar \in {"none", DocEnv[staging.doc]}
    /\ i \in Fresh
    /\ madeFor' = [madeFor EXCEPT ![i] = DocEnv[staging.doc]]
    /\ images' = images \cup {i}
    /\ LET old == IF validated.discarded THEN {} ELSE {validated.image} \ {0}
           next == [image |-> i, discarded |-> FALSE, cleanup |-> validated.cleanup \cup old]
       IN  \/ validated' = next /\ UNCHANGED <<intent, mishaps>>
           \/ /\ Mishap
              /\ intent' = [kind |-> "validated", image |-> i, old |-> validated.image]
              /\ validated' \in {validated, next}
    /\ UNCHANGED <<staging, serving>> /\ Elsewhere

\* What recovery of the pending publication makes of it: a committed build
\* stays and its predecessor's reference goes, an uncommitted one is removed.
RecoverIntent ==
    LET committed == IF intent.kind = "current" THEN staging.image = intent.image
                     ELSE validated.image = intent.image
    IN  /\ images' = IF ~ committed THEN images \ {intent.image}
                     ELSE IF intent.kind = "current" THEN images \ {intent.old} ELSE images
        /\ intent' = NoIntent

BuildRecovers ==
    /\ holder = Free /\ staging.shape = "state" /\ ~ staging.guard /\ intent.kind # "none"
    /\ RecoverIntent
    /\ UNCHANGED <<staging, validated, madeFor, serving, mishaps>> /\ Elsewhere

StartStaged ==
    /\ holder = Free /\ ~ staging.guard /\ staging.shape = "state" /\ serving = 0
    /\ staging.image \in images
    /\ serving' = staging.image
    /\ UNCHANGED <<staging, validated, intent, images, madeFor, mishaps>> /\ Elsewhere

-----------------------------------------------------------------------------
(* Steps that replacement, recovery and removal share.                     *)

\* The workload of the staging directory is stopped.
Stop(p, from, to) ==
    /\ Moves(p, from, to)
    /\ serving' = 0
    /\ UNCHANGED <<staging, validated, intent, images, madeFor, sidecar, surface, unsynced, cutShort>>

\* discardValidatedBuild: the discard is written with everything that has to
\* go, then the references go one by one.
Discard(p, from) ==
    /\ Stands(p, from)
    /\ validated.image # 0 /\ ~ validated.discarded
    /\ validated' = [validated EXCEPT !.discarded = TRUE, !.cleanup = @ \cup {validated.image}]
    /\ UNCHANGED <<staging, intent, images, madeFor, serving, sidecar, surface, process, unsynced, cutShort>>

DropValidatedImage(p, from) ==
    /\ Stands(p, from)
    /\ validated.discarded
    /\ \E i \in validated.cleanup :
         /\ images' = images \ {i}
         /\ validated' = [validated EXCEPT !.cleanup = @ \ {i}]
    /\ UNCHANGED <<staging, intent, madeFor, serving, sidecar, surface, process, unsynced, cutShort>>

ValidatedRetired == validated.image = 0 \/ (validated.discarded /\ validated.cleanup = {})

\* The reference of a generation that is no longer wanted; absence is fine.
Retire(p, from, to, image) ==
    /\ Moves(p, from, to)
    /\ images' = images \ {image}
    /\ UNCHANGED <<staging, intent, madeFor, serving, sidecar, surface, unsynced, cutShort>>

\* Pending publications are recovered before ownership is decided on.
Settle(p, from, to) ==
    /\ Moves(p, from, to)
    /\ IF intent.kind = "none" THEN UNCHANGED <<intent, images>> ELSE RecoverIntent
    /\ UNCHANGED <<staging, validated, madeFor, serving, sidecar, surface, unsynced, cutShort>>

-----------------------------------------------------------------------------
(* Forced replacement.                                                     *)

\* A directory that already belongs to the environment is staged in the usual
\* way.
ReadForReplacement(p) ==
    /\ Stands(p, "r-read")
    /\ \/ /\ staging.shape = "state" /\ DocEnv[staging.doc] = DocEnv[users[p].doc]
          /\ intent.kind = "none" \/ validated.image # 0 \/ staging.image # 0
          /\ users' = [users EXCEPT ![p].stage = "begin", ![p].cmd = "update"]
          /\ holder' = Free
          /\ UNCHANGED <<deployment, sidecar, surface, markers, given, mishaps, unsynced, cutShort>>
       \/ /\ staging.shape = "state" /\ DocEnv[staging.doc] # DocEnv[users[p].doc]
          /\ ~ staging.guard
          /\ Moves(p, "r-read", "r-settle")
          /\ UNCHANGED <<deployment, sidecar, surface, unsynced, cutShort>>
       \/ /\ \/ staging.shape # "state"
             \/ staging.guard /\ DocEnv[staging.doc] # DocEnv[users[p].doc]
             \/ intent.kind # "none" /\ validated.image = 0 /\ staging.image = 0
          /\ Refused(p)

\* The owners are remembered before the wait for admission.
NoteOwners(p, from, to) ==
    /\ Stands(p, from)
    /\ users' = [users EXCEPT ![p].stage = to, ![p].saw = staging, ![p].sawRecord = validated]
    /\ UNCHANGED <<deployment, sidecar, surface, holder, markers, given, mishaps, unsynced, cutShort>>

\* (Mutation: what changed during the wait is not noticed.)
RecheckOwnersTrusting(p) ==
    /\ Stands(p, "r-recheck")
    /\ Moves(p, "r-recheck", "r-stop")
    /\ UNCHANGED <<deployment, sidecar, surface, unsynced, cutShort>>

\* After admission: still staging of the other environment, pending
\* publications recovered, and the owners the ones that were validated.
RecheckOwners(p) ==
    LET c == users[p] IN
    /\ Stands(p, "r-recheck")
    /\ IF staging = c.saw /\ validated = c.sawRecord /\ ~ staging.guard
       THEN Moves(p, "r-recheck", "r-stop") /\ UNCHANGED <<deployment, sidecar, surface, unsynced, cutShort>>
       ELSE Refused(p)

SettleAfterAdmission(p) ==
    /\ Stands(p, "r-settle2")
    /\ IF Found /\ DocEnv[staging.doc] # DocEnv[users[p].doc] /\ staging.shape = "state" /\ ~ staging.guard
       THEN Settle(p, "r-settle2", "r-recheck")
       ELSE Refused(p)

RemoveRecord(p) ==
    /\ ValidatedRetired
    /\ Moves(p, "r-discard", "r-retire")
    /\ validated' = NoRecord
    /\ UNCHANGED <<staging, intent, images, madeFor, serving, sidecar, surface, unsynced, cutShort>>

\* The new, unbuilt state.  An error may be reported although it was written.
CommitReplacement(p) ==
    /\ Stands(p, "r-commit")
    /\ staging' = [NoStaging EXCEPT !.shape = "state", !.doc = users[p].doc]
    /\ unsynced' = TRUE
    /\ \/ To(p, "sync") /\ holder' = Free /\ markers' = markers \ {p} /\ UNCHANGED <<given, mishaps, cutShort>>
       \/ Mishap /\ Quits(p)
    /\ UNCHANGED <<validated, intent, images, madeFor, serving, sidecar, surface>>

ReplaceNext(p) ==
    \/ ReadForReplacement(p)
    \/ Settle(p, "r-settle", "r-note") \/ NoteOwners(p, "r-note", "r-admit")
    \/ AwaitAdmission(p, "r-admit")
    \/ Admit(p, "r-admit", "r-settle2") \/ Admit(p, "r-wait", "r-settle2")
    \/ SettleAfterAdmission(p) \/ RecheckOwners(p)
    \/ Stop(p, "r-stop", "r-discard") \/ Discard(p, "r-discard") \/ DropValidatedImage(p, "r-discard")
    \/ RemoveRecord(p)
    \/ (Retire(p, "r-retire", "r-commit", users[p].saw.image) /\ UNCHANGED validated)
    \/ CommitReplacement(p)

-----------------------------------------------------------------------------
(* stage --update --force without a blueprint: the target platform is      *)
(* selected again, or a state of the earlier format is recovered.          *)

PrepareLegacyRecovery(p) ==
    /\ Stands(p, "l-read")
    /\ CASE staging.shape = "legacy" -> NoteOwners(p, "l-read", "l-admit")
         [] staging.shape = "state" /\ intent.kind = "none" ->
              /\ To(p, "sync") /\ holder' = Free
              /\ UNCHANGED <<deployment, sidecar, surface, markers, given, mishaps, unsynced, cutShort>>
         [] OTHER -> Refused(p)

\* Only a build has a workload and a reference to give up.
AfterAdmission(p) == IF users[p].saw.image = 0 THEN "l-commit" ELSE "l-stop"

\* Published only over exactly the state that was prepared from.
CommitLegacyRecovery(p) ==
    /\ Stands(p, "l-commit")
    /\ IF staging = users[p].saw
       THEN /\ staging' = [NoStaging EXCEPT !.shape = "state", !.doc = users[p].saw.doc]
            /\ unsynced' = TRUE
            /\ \/ To(p, "sync") /\ holder' = Free /\ markers' = markers \ {p} /\ UNCHANGED <<given, mishaps, cutShort>>
               \/ Mishap /\ Quits(p)
            /\ UNCHANGED <<validated, intent, images, madeFor, serving, sidecar, surface>>
       ELSE Refused(p)

LegacyNext(p) ==
    \/ PrepareLegacyRecovery(p)
    \/ AwaitAdmission(p, "l-admit")
    \/ Admit(p, "l-admit", AfterAdmission(p)) \/ Admit(p, "l-wait", AfterAdmission(p))
    \/ Stop(p, "l-stop", "l-retire")
    \/ (Retire(p, "l-retire", "l-commit", users[p].saw.image) /\ UNCHANGED validated)
    \/ CommitLegacyRecovery(p)

-----------------------------------------------------------------------------
(* Removal.                                                                *)

\* A guarded directory is resumed without admission.
ReadForRemoval(p) ==
    /\ Stands(p, "d-read")
    /\ IF staging.shape # "state" THEN Refused(p)
       ELSE /\ Moves(p, "d-read", IF staging.guard THEN "d-note" ELSE "d-settle")
            /\ UNCHANGED <<deployment, sidecar, surface, unsynced, cutShort>>

SettleForRemoval(p) ==
    /\ Stands(p, "d-settle2")
    /\ IF staging.shape = "state" /\ ~ staging.guard THEN Settle(p, "d-settle2", "d-note")
       ELSE Refused(p)

\* The terminal guard: only over the state whose owners were read, and with no
\* publication pending.
Guard(p) ==
    /\ Stands(p, "d-guard")
    /\ IF intent.kind # "none" \/ staging # users[p].saw THEN Refused(p)
       ELSE /\ staging' = [staging EXCEPT !.guard = TRUE]
            /\ \/ To(p, "d-stop") /\ UNCHANGED <<holder, markers, given, mishaps, cutShort>>
               \/ Mishap /\ Quits(p)
            /\ UNCHANGED <<validated, intent, images, madeFor, serving, sidecar, surface, unsynced>>

\* All owners have been retired: the directory goes as a whole.
Isolate(p) ==
    /\ Stands(p, "d-isolate")
    /\ staging' = NoStaging /\ validated' = NoRecord
    /\ sidecar' = "none" /\ files' = Untouched /\ manifest' = {} /\ unsynced' = FALSE
    /\ users' = [users EXCEPT ![p] = NoCommand]
    /\ holder' = Free /\ markers' = markers \ {p}
    /\ UNCHANGED <<intent, images, madeFor, serving, given, mishaps, cutShort>>

RemoveNext(p) ==
    \/ ReadForRemoval(p)
    \/ Settle(p, "d-settle", "d-admit")
    \/ AwaitAdmission(p, "d-admit")
    \/ Admit(p, "d-admit", "d-settle2") \/ Admit(p, "d-wait", "d-settle2")
    \/ SettleForRemoval(p) \/ NoteOwners(p, "d-note", "d-guard") \/ Guard(p)
    \/ Stop(p, "d-stop", "d-discard") \/ Discard(p, "d-discard") \/ DropValidatedImage(p, "d-discard")
    \/ (ValidatedRetired /\ Retire(p, "d-discard", "d-isolate", staging.image) /\ UNCHANGED validated)
    \/ Isolate(p)

-----------------------------------------------------------------------------
StageNext(p) ==
    \/ \E doc \in Docs : \E cmd \in {"create", "update", "replace"} : Issue(p, cmd, doc)
    \/ Issue(p, "recover", "none") \/ Issue(p, "remove", "none")
    \/ Begin(p) \/ StepFails(p)
    \/ WriteSidecar(p) \/ SetState(p) \/ SetFails(p)
    \/ SyncPlan(p) \/ WriteFile(p) \/ SweepFile(p) \/ WriteManifest(p)

WorldNext ==
    \/ \E i \in Images : Build(i) \/ Validate(i)
    \/ BuildRecovers \/ StartStaged
    \/ \E n \in Names : ForeignEdit(n)

StagedNext ==
    \/ \E p \in Humans : StageNext(p) \/ ReplaceNext(p) \/ LegacyNext(p) \/ RemoveNext(p)
    \/ WorldNext

StagedSpec == StagedInit /\ [][StagedNext]_stagedVars

-----------------------------------------------------------------------------
StagedTypeOK ==
    /\ staging.shape \in {"none", "state", "legacy"}
    /\ images \subseteq Images
    /\ files \in [Names -> {"absent", "ours", "theirs", "installed"}]
    /\ manifest \subseteq Names
    /\ holder \in Humans \cup {Free} /\ markers \subseteq Humans

\* Every image reference that exists has an owner on record: the state, the
\* validated record or what it still has to clean up, or the pending
\* publication.
ReferencesKnown ==
    images \subseteq {staging.image, validated.image, intent.image, intent.old} \cup validated.cleanup

\* Nothing of one environment is left under another: neither the current nor
\* the validated build nor what runs; nothing runs from a removed directory.
EnvironmentsApart ==
    /\ staging.image # 0 => madeFor[staging.image] = DocEnv[staging.doc]
    /\ validated.image # 0 /\ ~ validated.discarded => madeFor[validated.image] = DocEnv[staging.doc]
    /\ serving # 0 => Found /\ madeFor[serving] = DocEnv[staging.doc]

\* When the surface has been made since the last change of the document, its
\* manifest lists the files of the document on record; no file that was
\* written is forgotten unless a surface was left half-way.
SurfaceAgrees ==
    /\ Found /\ ~ unsynced => manifest = SurfaceNames(staging.doc)
    /\ ~ cutShort /\ (\A p \in Humans : users[p].stage \notin {"write", "sweep", "list"}) =>
         \A n \in Names : files[n] = "ours" => n \in manifest

\* Nothing is pending under the guard, so a removal can always be resumed.
GuardResumable == staging.guard => intent.kind = "none" /\ staging.shape = "state"

\* Staging (desired_state*.go, staged_deployment_remove.go,
\* staged_control_surface.go, legacy recovery): image references have owners,
\* environments do not mix, the control surface is that of the recorded
\* document, a guarded removal can be resumed.
StagingSound ==
    /\ StagedTypeOK /\ ReferencesKnown /\ EnvironmentsApart /\ SurfaceAgrees /\ GuardResumable

===============================================================================
