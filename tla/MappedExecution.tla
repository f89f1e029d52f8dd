--------------------------- MODULE MappedExecution ---------------------------
(***************************************************************************)
(* The journal of a deployment's identity mapping and the runs that start  *)
(* containers with mapped users.  The journal is part of the state file:   *)
(* every change compares the caller's whole earlier observation with the   *)
(* file, validates the result and writes it with the next revision; a      *)
(* write may succeed, fail, or happen although an error is reported.  A    *)
(* mapped run creates a container that waits on its input for one release  *)
(* frame; the frame is sent only after the grant is in the journal.        *)
(*                                                                         *)
(* A geometry is a set of pairs <<container ID, host ID>> (one domain      *)
(* stands for users and groups; IdentityGeometry relates the pairs to the  *)
(* intervals of the code).  The evidence that effects were never used, are *)
(* inhibited or have been retired comes from an external owner, and is     *)
(* modelled as truthful.                                                   *)
(***************************************************************************)
EXTENDS Naturals, FiniteSets

CONSTANTS
    MappedRuns,      \* names of native operations, each with its own instance
    Configurations,  \* names of configure operations
    MapGenerations,  \* generations of the deployment that may be current
    Geometries,      \* candidate geometries
    PolicyIDs,       \* the container IDs the policy of a generation declares
    Profiles,        \* "exact", "bounded"
    MaxRevision      \* the last revision

\* The operator is none of the runs, and "no one" is nobody's name.
ASSUME MappingBounds ==
    /\ {"operator", "no one"} \cap MappedRuns = {}
    /\ MaxRevision \in Nat

VARIABLES
    journal,    \* IdentityMapping in the state file, or NoMapping
    current,    \* the current generation
    lockedBy,   \* who holds the operation lock
    informed,   \* callers whose last observation still equals the state file
    queued,     \* the live-run queue entry of each run
    container,  \* the instance of each run
    maps,       \* the geometry its user namespace was created with
    pipe,       \* the input of the waiting process
    runner,     \* where runMappedLiveInstance of each run is
    touched,    \* operations whose effects may exist
    ranWith     \* bindings that an application has run with

mappedVars == <<journal, current, lockedBy, informed, queued, container, maps,
                pipe, runner, touched, ranWith>>
runVars == <<queued, container, maps, pipe, runner, touched, ranWith>>

NoOne == "no one"
NoMapping == [schema |-> 0]
NoOperation == [kind |-> "none"]
NoEntry == [generation |-> NoOne]
Callers == {"operator"} \cup MappedRuns

-----------------------------------------------------------------------------
(* Geometry.                                                               *)

OneToOne(g) == \A x, y \in g : (x[1] = y[1]) = (x[2] = y[2])

\* Whether a proposal may be added to what is retained.
Retainable(profile, proposed, retained) ==
    IF profile = "bounded" /\ retained # {}
    THEN proposed = retained
    ELSE OneToOne(proposed \cup retained)

Containers(g) == {pair[1] : pair \in g}

\* The bindings of a candidate that an execution of a generation uses.
ActiveMap(profile, candidate, generation) ==
    IF profile = "bounded" THEN candidate
    ELSE {pair \in candidate : pair[1] \in PolicyIDs[generation]}

\* Every declared identity is mapped, nothing retained is bound anew, and the
\* candidate holds only what is active now or was accepted before.
Plannable(m, candidate, generation) ==
    /\ PolicyIDs[generation] \subseteq Containers(candidate)
    /\ Retainable(m.profile, candidate, m.reserved)
    /\ Retainable(m.profile, ActiveMap(m.profile, candidate, generation), m.accepted)
    /\ candidate \subseteq ActiveMap(m.profile, candidate, generation) \cup m.accepted

-----------------------------------------------------------------------------
(* The journal.                                                            *)

ValidNative(m) ==
    LET p == m.pending IN
    /\ m.accepted \subseteq m.reserved
    /\ m.accepted = {} => m.admitted = NoOne /\ m.process = NoOne /\ m.dormant = {}
    /\ m.accepted # {} =>
         /\ m.admitted # NoOne /\ m.process # NoOne
         /\ m.accepted \ m.dormant # {}
         /\ m.profile = "bounded" => m.dormant = {} /\ m.accepted = m.reserved
    /\ p.kind = "native-execute" =>
         /\ p.expectedRevision = m.revision
         /\ p.phase # "verified"
         /\ p.active # {} /\ p.active \subseteq p.candidate
         /\ p.phase = "release-attempted" =>
              /\ m.admitted = p.generation /\ m.process = p.id
              /\ m.accepted # {} /\ m.accepted \ m.dormant = p.active

ValidMapping(m) ==
    LET p == m.pending IN
    /\ OneToOne(m.reserved)
    /\ m.dormant \subseteq m.accepted
    /\ p.kind # "none" =>
         /\ p.expectedRevision <= m.revision
         /\ p.candidate # {} /\ Retainable(m.profile, p.candidate, m.reserved)
    /\ IF m.schema = 2 THEN ValidNative(m)
       ELSE m.accepted = {} /\ m.process = NoOne /\ p.kind # "native-execute"

HoldsLock(caller) == lockedBy = caller \/ (caller = "operator" /\ lockedBy = NoOne)

\* One checked change of the journal: the file still holds what the caller
\* observed (every change has a revision of its own), the result passes validation and gets the next revision.
\* certain: the write was reported as done.
Change(caller, next, certain) ==
    LET written == [next EXCEPT !.revision = @ + 1] IN
    /\ HoldsLock(caller)
    /\ caller \in informed
    /\ next.revision < MaxRevision
    /\ ValidMapping(written)
    /\ journal' = written
    /\ informed' = IF certain THEN {caller} ELSE {}

\* The pending operation as far as every further step requires it.
PendingIntact(m) ==
    LET p == m.pending IN
    /\ p.kind # "none"
    /\ p.generation = current
    /\ p.phase # "release-attempted" => p.prior = m.admitted
    /\ p.phase = "intent" => p.expectedRevision = m.revision
    /\ IF p.kind = "native-execute"
       THEN Plannable(m, p.candidate, current) /\ ActiveMap(m.profile, p.candidate, current) = p.active
       ELSE Retainable(m.profile, p.candidate, m.reserved)

Mapped == journal # NoMapping
Pending(phase) == Mapped /\ PendingIntact(journal) /\ journal.pending.phase = phase

Intent(id, kind, candidate, active) ==
    [kind |-> kind, id |-> id, phase |-> "intent", candidate |-> candidate, active |-> active,
     generation |-> current,
     prior |-> IF Mapped THEN journal.admitted ELSE NoOne,
     expectedRevision |-> IF Mapped THEN journal.revision + 1 ELSE 1]

\* A journal that says nothing but its profile.
FirstMapping(profile) ==
    [schema |-> 1, profile |-> profile, revision |-> 0, reserved |-> {}, accepted |-> {},
     dormant |-> {}, admitted |-> NoOne, process |-> NoOne, storage |-> {},
     pending |-> NoOperation]

\* The journal after its pending operation has been recovered: the candidate
\* stays reserved and the objects of the operation stay on record.
Recovered(m) ==
    [m EXCEPT !.reserved = @ \cup m.pending.candidate,
              !.storage = @ \cup {m.pending.id},
              !.pending = NoOperation]

-----------------------------------------------------------------------------
(* Evidence of the external effect owner.                                  *)

Unused == journal.pending.id \notin touched

\* Before the release the instance is still inhibited, was never made or is
\* retired; afterwards its release is acknowledged or it is retired.
EffectsVerified ==
    LET p == journal.pending IN
    CASE p.kind = "configure" -> p.id \in touched
      [] p.phase = "effects-pending" -> container[p.id] \in {"none", "waiting", "gone"}
      [] OTHER -> container[p.id] \in {"app", "gone"}

-----------------------------------------------------------------------------
MappingOf(generation) ==
    /\ journal = NoMapping
    /\ current = generation
    /\ lockedBy = NoOne
    /\ informed = {}
    /\ queued = [r \in MappedRuns |-> NoEntry]
    /\ container = [r \in MappedRuns |-> "none"]
    /\ maps = [r \in MappedRuns |-> {}]
    /\ pipe = [r \in MappedRuns |-> "none"]
    /\ runner = [r \in MappedRuns |-> "idle"]
    /\ touched = {}
    /\ ranWith = {}

MappedInit == \E generation \in MapGenerations : MappingOf(generation)

(* Commands of an operator.                                                *)

ObserveMapping ==
    /\ lockedBy = NoOne
    /\ informed' = informed \cup {"operator"}
    /\ UNCHANGED <<journal, current, lockedBy, runVars>>

Commanded(next) ==
    /\ \E certain \in BOOLEAN : Change("operator", next, certain)
    /\ UNCHANGED <<current, lockedBy, runVars>>

\* The first, empty journal of a staged deployment.  A later commit can only
\* repeat the contents with a new revision; such repetitions are left out.
CommitIdentityMapping ==
    /\ ~ Mapped
    /\ \E profile \in Profiles : Commanded(FirstMapping(profile))

\* A first intent, or one that replaces a candidate that was never used.
Configure(id, candidate) ==
    /\ id \notin touched
    /\ Mapped =>
         /\ Retainable(journal.profile, candidate, journal.reserved)
         /\ journal.pending.kind # "none" =>
              /\ journal.pending.kind = "configure" /\ Pending("intent")
              /\ journal.pending.id # id /\ Unused
    /\ \E profile \in Profiles :
         Commanded([IF Mapped THEN journal ELSE FirstMapping(profile)
                      EXCEPT !.pending = Intent(id, "configure", candidate, candidate)])

UpgradeNativeMapping ==
    /\ Mapped /\ journal.schema = 1
    /\ journal.pending.kind # "none" => PendingIntact(journal)
    /\ Commanded([journal EXCEPT !.schema = 2,
         !.pending = IF @.kind # "none" /\ @.phase = "intent"
                     THEN [@ EXCEPT !.expectedRevision = journal.revision + 1] ELSE @])

PrepareNativeExecution(r, candidate) ==
    /\ Mapped /\ journal.schema = 2 /\ journal.pending.kind = "none"
    /\ journal.process # r /\ container[r] = "none" /\ r \notin journal.storage
    /\ Plannable(journal, candidate, current)
    /\ Commanded([journal EXCEPT !.pending =
                    Intent(r, "native-execute", candidate, ActiveMap(journal.profile, candidate, current))])

BeginEffects ==
    /\ Pending("intent") /\ Unused
    /\ Commanded([journal EXCEPT !.pending.phase = "effects-pending",
         !.pending.expectedRevision =
             IF journal.pending.kind = "native-execute" THEN journal.revision + 1 ELSE @])

CancelIntent ==
    /\ Pending("intent") /\ Unused
    /\ Commanded([journal EXCEPT !.pending = NoOperation])

VerifyConfiguration ==
    /\ Pending("effects-pending") /\ journal.pending.kind = "configure" /\ EffectsVerified
    /\ Commanded([journal EXCEPT !.pending.phase = "verified"])

AcceptConfiguration ==
    /\ Pending("verified") /\ EffectsVerified
    /\ Commanded(Recovered(journal))

NativeRecoverable ==
    /\ Pending("effects-pending") \/ Pending("release-attempted")
    /\ journal.pending.kind = "native-execute" /\ EffectsVerified

RecoverNative == NativeRecoverable /\ Commanded(Recovered(journal))

\* A build, an uninstall: the generation changes only without a pending
\* mapping operation.
Rebuild(generation) ==
    /\ lockedBy = NoOne /\ generation # current
    /\ Mapped => journal.pending.kind = "none"
    /\ current' = generation
    /\ informed' = {}
    /\ UNCHANGED <<journal, lockedBy, runVars>>

\* The external effect owner prepares storage for a configuration.
PrepareStorage ==
    /\ Mapped /\ journal.pending.kind = "configure" /\ journal.pending.phase = "effects-pending"
    /\ journal.pending.id \notin touched
    /\ touched' = touched \cup {journal.pending.id}
    /\ UNCHANGED <<journal, current, lockedBy, informed, queued, container, maps, pipe, runner, ranWith>>

OperatorNext ==
    \/ ObserveMapping \/ CommitIdentityMapping \/ UpgradeNativeMapping \/ BeginEffects \/ CancelIntent
    \/ VerifyConfiguration \/ AcceptConfiguration \/ RecoverNative \/ PrepareStorage
    \/ \E g \in MapGenerations : Rebuild(g)
    \/ \E candidate \in Geometries :
         \/ \E id \in Configurations : Configure(id, candidate)
         \/ \E r \in MappedRuns : PrepareNativeExecution(r, candidate)

-----------------------------------------------------------------------------
(* One mapped run.                                                         *)

Step(r, from, to) == runner[r] = from /\ runner' = [runner EXCEPT ![r] = to]

EnterQueue(r) ==
    /\ lockedBy = NoOne /\ queued[r] = NoEntry /\ runner[r] = "idle"
    /\ queued' = [queued EXCEPT ![r] = [generation |-> current, container |-> FALSE]]
    /\ runner' = [runner EXCEPT ![r] = "active"]
    /\ UNCHANGED <<journal, current, lockedBy, informed, container, maps, pipe, touched, ranWith>>

\* The entry plan freezes the journal it was made from.
ConstructPlan(r) ==
    /\ Step(r, "active", "planned") /\ lockedBy = NoOne
    /\ Pending("intent") \/ Pending("effects-pending")
    /\ journal.pending.kind = "native-execute" /\ journal.pending.id = r
    /\ informed' = informed \cup {r}
    /\ UNCHANGED <<journal, current, lockedBy, queued, container, maps, pipe, touched, ranWith>>

\* The run takes the lock and finds its entry, its generation and its plan as
\* they were.
BeginRun(r) ==
    /\ Step(r, "planned", "creating") /\ lockedBy = NoOne
    /\ queued[r] = [generation |-> current, container |-> FALSE]
    /\ r \in informed /\ Pending("effects-pending")
    /\ lockedBy' = r
    /\ UNCHANGED <<journal, current, informed, queued, container, maps, pipe, touched, ranWith>>

RefuseRun(r) ==
    /\ Step(r, "planned", "over") /\ lockedBy = NoOne
    /\ \/ queued[r] # [generation |-> current, container |-> FALSE]
       \/ r \notin informed
       \/ ~ Pending("effects-pending")
    /\ UNCHANGED <<journal, current, lockedBy, informed, queued, container, maps, pipe, touched, ranWith>>

\* The create request: done, refused, or with an error after which the object
\* of this attempt is removed, left behind, or was never made.
CreateInstance(r) ==
    /\ runner[r] = "creating" /\ HoldsLock(r)
    /\ container' \in {[container EXCEPT ![r] = c] : c \in {"none", "created", "gone"}}
    /\ touched' = IF container'[r] = "none" THEN touched ELSE touched \cup {r}
    /\ maps' = IF container'[r] = "none" THEN maps
               ELSE [maps EXCEPT ![r] = journal.pending.active]
    /\ \/ /\ container'[r] = "created"
          /\ runner' = [runner EXCEPT ![r] = "attaching"]
          /\ pipe' = [pipe EXCEPT ![r] = "open"]
          /\ UNCHANGED lockedBy
       \/ /\ runner' = [runner EXCEPT ![r] = "over"]
          /\ lockedBy' = NoOne
          /\ UNCHANGED pipe
    /\ UNCHANGED <<journal, current, informed, queued, ranWith>>

\* The instance is started and its process pinned.
AttachInstance(r) ==
    /\ Step(r, "attaching", "pinned") /\ container[r] = "created"
    /\ container' = [container EXCEPT ![r] = "waiting"]
    /\ UNCHANGED <<journal, current, lockedBy, informed, queued, maps, pipe, touched, ranWith>>

RecordInstance(r) ==
    /\ Step(r, "pinned", "recorded")
    /\ queued' = [queued EXCEPT ![r].container = TRUE]
    /\ UNCHANGED <<journal, current, lockedBy, informed, container, maps, pipe, touched, ranWith>>

\* The journal with the grant of its pending execution.
Admitted(m) ==
    LET p == m.pending IN
    [m EXCEPT !.reserved = @ \cup p.candidate,
              !.accepted = @ \cup p.active,
              !.dormant = (m.accepted \cup p.active) \ p.active,
              !.admitted = p.generation,
              !.process = p.id,
              !.pending.phase = "release-attempted",
              !.pending.expectedRevision = m.revision + 1]

\* The grant, after fresh evidence that the pinned process still waits.
AdmitNativeExecution(r) ==
    /\ runner[r] = "recorded" /\ container[r] = "waiting"
    /\ Pending("effects-pending") /\ journal.pending.id = r
    /\ \E certain \in BOOLEAN :
         /\ Change(r, Admitted(journal), certain)
         /\ runner' = [runner EXCEPT ![r] = IF certain THEN "granted" ELSE "failing"]
    /\ UNCHANGED <<current, lockedBy, queued, container, maps, pipe, touched, ranWith>>

\* (Mutation: the frame is sent before the grant is written.)
SendFrameEarly(r) ==
    /\ runner[r] \in {"recorded", "granted"} /\ container[r] = "waiting"
    /\ pipe' = [pipe EXCEPT ![r] = "framed"]
    /\ runner' \in {[runner EXCEPT ![r] = next] : next \in {"released", "failing"}}
    /\ UNCHANGED <<journal, current, lockedBy, informed, queued, container, maps, touched, ranWith>>

\* The frame reaches the pipe; the write may still be reported as failed.
SendFrame(r) ==
    /\ runner[r] = "granted" /\ container[r] = "waiting"
    /\ pipe' = [pipe EXCEPT ![r] = "framed"]
    /\ runner' \in {[runner EXCEPT ![r] = next] : next \in {"released", "failing"}}
    /\ UNCHANGED <<journal, current, lockedBy, informed, queued, container, maps, touched, ranWith>>

\* Any step before the unlock may fail or find its process changed.
StartupFails(r) ==
    /\ runner[r] \in {"attaching", "pinned", "recorded", "granted", "released"}
    /\ runner' = [runner EXCEPT ![r] = "failing"]
    /\ UNCHANGED <<journal, current, lockedBy, informed, queued, container, maps, pipe, touched, ranWith>>

UnlockAttached(r) ==
    /\ Step(r, "released", "attached")
    /\ lockedBy' = NoOne
    /\ UNCHANGED <<journal, current, informed, queued, container, maps, pipe, touched, ranWith>>

\* The end of the attachment, of the container or of the caller's context.
StopWaiting(r) ==
    /\ Step(r, "attached", "closing")
    /\ UNCHANGED <<journal, current, lockedBy, informed, queued, container, maps, pipe, touched, ranWith>>

\* (Mutation: a failed removal of the instance is taken for a removal.)
CloseInstanceAnyway(r) ==
    /\ runner[r] \in {"failing", "closing"}
    /\ pipe' = [pipe EXCEPT ![r] = IF @ = "open" THEN "closed" ELSE @]
    /\ container' \in {container, [container EXCEPT ![r] = "gone"]}
    /\ runner' = [runner EXCEPT ![r] = IF @ = "closing" THEN "closed" ELSE "over"]
    /\ lockedBy' = IF lockedBy = r THEN NoOne ELSE lockedBy
    /\ UNCHANGED <<journal, current, informed, queued, maps, touched, ranWith>>

\* close: the input ends, and exactly this instance is removed, or its removal
\* fails.
CloseInstance(r) ==
    /\ runner[r] \in {"failing", "closing"}
    /\ pipe' = [pipe EXCEPT ![r] = IF @ = "open" THEN "closed" ELSE @]
    /\ \E removed \in BOOLEAN :
         /\ container' = IF removed THEN [container EXCEPT ![r] = "gone"] ELSE container
         /\ runner' = [runner EXCEPT ![r] =
              IF removed /\ @ = "closing" THEN "closed" ELSE "over"]
    /\ lockedBy' = IF lockedBy = r THEN NoOne ELSE lockedBy
    /\ UNCHANGED <<journal, current, informed, queued, maps, touched, ranWith>>

\* The lock is taken again: the entry and the journal must still be this
\* run's, as they were when it was released.
ResumeRun(r) ==
    /\ runner[r] = "closed" /\ lockedBy = NoOne
    /\ IF /\ queued[r] = [generation |-> current, container |-> TRUE]
          /\ Pending("release-attempted") /\ journal.pending.id = r
       THEN /\ lockedBy' = r
            /\ informed' = informed \cup {r}
            /\ runner' = [runner EXCEPT ![r] = "retiring"]
       ELSE /\ runner' = [runner EXCEPT ![r] = "over"]
            /\ UNCHANGED <<lockedBy, informed>>
    /\ UNCHANGED <<journal, current, queued, container, maps, pipe, touched, ranWith>>

RetireRun(r) ==
    /\ runner[r] = "retiring" /\ NativeRecoverable
    /\ \E certain \in BOOLEAN :
         /\ Change(r, Recovered(journal), certain)
         /\ runner' = [runner EXCEPT ![r] = IF certain THEN "leaving" ELSE "over"]
         /\ lockedBy' = IF certain THEN lockedBy ELSE NoOne
    /\ UNCHANGED <<current, queued, container, maps, pipe, touched, ranWith>>

LeaveQueue(r) ==
    /\ Step(r, "leaving", "complete")
    /\ queued' = [queued EXCEPT ![r] = NoEntry]
    /\ lockedBy' = NoOne
    /\ UNCHANGED <<journal, current, informed, container, maps, pipe, touched, ranWith>>

\* The command dies: the lock and the input of its instance go with it.
RunnerDies(r) ==
    /\ runner[r] \notin {"idle", "over", "complete"}
    /\ runner' = [runner EXCEPT ![r] = "over"]
    /\ lockedBy' = IF lockedBy = r THEN NoOne ELSE lockedBy
    /\ pipe' = [pipe EXCEPT ![r] = IF @ = "open" THEN "closed" ELSE @]
    /\ UNCHANGED <<journal, current, informed, queued, container, maps, touched, ranWith>>

-----------------------------------------------------------------------------
(* The instance, and those who clean up after a run.                       *)

InstanceStep(r, from, to) ==
    /\ container[r] = from
    /\ container' = [container EXCEPT ![r] = to]
    /\ UNCHANGED <<journal, current, lockedBy, informed, queued, maps, pipe, runner, touched>>

\* The waiting process has read its frame before its deadline.
ReceiveFrame(r) ==
    /\ pipe[r] = "framed"
    /\ InstanceStep(r, "waiting", "app")
    /\ ranWith' = ranWith \cup maps[r]

\* Its input ended, or its deadline passed.
GiveUpWaitingForFrame(r) == InstanceStep(r, "waiting", "exited") /\ UNCHANGED ranWith

ApplicationEnds(r) == InstanceStep(r, "app", "exited") /\ UNCHANGED ranWith

\* Recovery of the queue or a forced stop: the entry goes, and the recorded
\* container unless its removal fails and is put off.
RecoverEntry(r) ==
    /\ lockedBy = NoOne /\ queued[r] # NoEntry
    /\ runner[r] \in {"over", "attached", "closing", "closed"}
    /\ \/ UNCHANGED container
       \/ queued[r].container /\ container' = [container EXCEPT ![r] = "gone"]
    /\ queued' = [queued EXCEPT ![r] = NoEntry]
    /\ UNCHANGED <<journal, current, lockedBy, informed, maps, pipe, runner, touched, ranWith>>

\* A removal that was put off, or the external effect owner, which retires what
\* the pending operation left.
RetireLeftover(r) ==
    /\ lockedBy = NoOne
    /\ \/ runner[r] \in {"over", "complete"}
       \/ queued[r] = NoEntry /\ runner[r] \in {"attached", "closing", "closed"}
    /\ container[r] \notin {"none", "gone"}
    /\ container' = [container EXCEPT ![r] = "gone"]
    /\ UNCHANGED <<journal, current, lockedBy, informed, queued, maps, pipe, runner, touched, ranWith>>

RunNext(r) ==
    \/ EnterQueue(r) \/ ConstructPlan(r) \/ BeginRun(r) \/ RefuseRun(r) \/ CreateInstance(r)
    \/ AttachInstance(r) \/ RecordInstance(r) \/ AdmitNativeExecution(r) \/ SendFrame(r)
    \/ StartupFails(r) \/ UnlockAttached(r) \/ StopWaiting(r) \/ CloseInstance(r)
    \/ ResumeRun(r) \/ RetireRun(r) \/ LeaveQueue(r) \/ RunnerDies(r)
    \/ ReceiveFrame(r) \/ GiveUpWaitingForFrame(r) \/ ApplicationEnds(r)
    \/ RecoverEntry(r) \/ RetireLeftover(r)

MappedNext == OperatorNext \/ \E r \in MappedRuns : RunNext(r)

MappedSpec == MappedInit /\ [][MappedNext]_mappedVars

-----------------------------------------------------------------------------
MappedTypeOK ==
    /\ Mapped => journal.revision \in 1 .. MaxRevision
    /\ current \in MapGenerations
    /\ lockedBy \in MappedRuns \cup {NoOne}
    /\ informed \subseteq Callers
    /\ container \in [MappedRuns -> {"none", "created", "waiting", "app", "exited", "gone"}]
    /\ pipe \in [MappedRuns -> {"none", "open", "framed", "closed"}]
    /\ touched \subseteq MappedRuns \cup Configurations

\* A process that may still read a release frame has its grant in the journal,
\* as the pending operation.
FrameGranted ==
    \A r \in MappedRuns : container[r] = "waiting" /\ pipe[r] = "framed" =>
        Pending("release-attempted") /\ journal.pending.id = r

\* A host identity an application has run with stays accepted and reserved, and
\* is never bound to another identity of a container, by any later candidate.
IdentitiesKept ==
    /\ ranWith # {} => Mapped /\ ranWith \subseteq journal.accepted
    /\ Mapped => /\ journal.accepted \subseteq journal.reserved
                 /\ OneToOne(journal.reserved \cup ranWith)
                 /\ journal.pending.kind # "none" =>
                      OneToOne(journal.pending.candidate \cup ranWith)

\* Everything that may exist is on record: as the effect of the pending
\* operation or among the objects retained after one.
EffectsOnRecord ==
    touched # {} =>
        Mapped /\ touched \subseteq journal.storage \cup
            (IF journal.pending.kind = "none" THEN {} ELSE {journal.pending.id})

\* What has had effects can be recovered: the recovered journal passes its own
\* validation whatever the phase.
AlwaysRecoverable ==
    Mapped /\ journal.pending.kind # "none" /\ journal.pending.phase # "intent"
        /\ journal.revision < MaxRevision =>
        /\ PendingIntact(journal)
        /\ ValidMapping([Recovered(journal) EXCEPT !.revision = @ + 1])

\* A run that completed has left neither an instance nor an entry, and its
\* objects are on record.
CompletionHonest ==
    \A r \in MappedRuns : runner[r] = "complete" =>
        container[r] = "gone" /\ queued[r] = NoEntry /\ r \in journal.storage

\* The journal of the identity mapping and its runs (identity_mapping_operations.go,
\* live_run_mapped.go): a release frame that can still be read is covered by
\* the journal's grant; identities once used stay reserved, accepted and bound
\* to the same host identity; every effect is on record; an operation with
\* effects can always be recovered; a completed run left nothing behind.
MappingSound ==
    /\ MappedTypeOK /\ FrameGranted /\ IdentitiesKept /\ EffectsOnRecord
    /\ AlwaysRecoverable /\ CompletionHonest

===============================================================================
