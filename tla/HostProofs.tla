----------------------------- MODULE HostProofs -----------------------------
(***************************************************************************)
(* Two parts of what the host does for a build and a run.                  *)
(*                                                                         *)
(* MappingSound of MappedExecution.  It is not inductive: a frame is sent  *)
(* because of the step its run has reached, under a lock taken steps       *)
(* before, and what a recovery may write rests on what Prepare checked.    *)
(* RunInv says of every step of a run what holds of its operation, its     *)
(* container, its pipe and its queue entry, LockInv why nobody else can    *)
(* have changed the journal meanwhile, and JournalInv that the pending     *)
(* operation is still the one that was prepared.                           *)
(*                                                                         *)
(* PreparationSound of NodePreparation.  What the published bundle and the *)
(* ingested wheelhouse are was settled many stages before: AptInv and      *)
(* HouseInv carry it from the examination and the observation on,          *)
(* SessionInv accounts for the containers, and PassInv bounds the passes   *)
(* by the overrides resolved so far.                                       *)
(***************************************************************************)
EXTENDS MappedExecution, NodePreparation, FiniteSetTheorems, TLAPS

-----------------------------------------------------------------------------
(* The identity mapping and the runs under it: the inductive invariant      *)

\* The phases of an operation of the mapping journal.
Phases == {"intent", "effects-pending", "verified", "release-attempted"}
Bindings == UNION Geometries
MapOwners == MappedRuns \cup Configurations

\* What the journal may record as its pending operation.
MapOperations ==
    [kind : {"configure", "native-execute"}, id : MapOwners, phase : Phases,
     candidate : SUBSET Bindings, active : SUBSET Bindings, generation : MapGenerations,
     prior : MapGenerations \cup {NoOne}, expectedRevision : Nat]

MapJournals ==
    [schema : {1, 2}, profile : Profiles, revision : Nat, reserved : SUBSET Bindings,
     accepted : SUBSET Bindings, dormant : SUBSET Bindings,
     admitted : MapGenerations \cup {NoOne}, process : MapOwners \cup {NoOne},
     storage : SUBSET MapOwners, pending : MapOperations \cup {NoOperation}]

\* Where a mapped run can be.
RunSteps ==
    {"idle", "active", "planned", "creating", "attaching", "pinned", "recorded", "granted",
     "released", "attached", "failing", "closing", "closed", "retiring", "leaving", "over",
     "complete"}

\* The steps in which a run holds the operation lock.
HoldingSteps ==
    {"creating", "attaching", "pinned", "recorded", "granted", "released", "failing",
     "retiring", "leaving"}

\* The steps of a run whose instance was created.
Started ==
    {"attaching", "pinned", "recorded", "granted", "released", "failing", "attached", "closing"}

MappedTypes ==
    /\ journal \in MapJournals \cup {NoMapping}
    /\ current \in MapGenerations
    /\ lockedBy \in MappedRuns \cup {NoOne}
    /\ informed \subseteq Callers
    /\ queued \in [MappedRuns -> {NoEntry} \cup [generation : MapGenerations, container : BOOLEAN]]
    /\ container \in [MappedRuns -> {"none", "created", "waiting", "app", "exited", "gone"}]
    /\ maps \in [MappedRuns -> SUBSET Bindings]
    /\ pipe \in [MappedRuns -> {"none", "open", "framed", "closed"}]
    /\ runner \in [MappedRuns -> RunSteps]
    /\ touched \subseteq MapOwners

\* The journal's pending operation is the execution of run r, in one of these phases.
Executes(r, phases) ==
    /\ Mapped /\ journal.pending.kind = "native-execute"
    /\ journal.pending.id = r /\ journal.pending.phase \in phases

\* The journal passed its own validation, its pending operation is as Prepare left it,
\* and the instance of a pending execution has the mapping the operation records.
JournalInv ==
    Mapped =>
        /\ journal.revision \in 1 .. MaxRevision
        /\ ValidMapping(journal)
        /\ journal.pending.kind # "none" => PendingIntact(journal)
        /\ journal.pending.kind = "native-execute" =>
             /\ journal.pending.id \in MappedRuns
             /\ container[journal.pending.id] # "none" =>
                  maps[journal.pending.id] = journal.pending.active

\* A run that is past Begin and has not unlocked yet holds the operation lock.
LockInv == \A r \in MappedRuns : runner[r] \in HoldingSteps => lockedBy = r

\* What a run may rely on at each of its steps: the phase its operation has reached, the
\* state of its container and its pipe, and whether its queue entry names the container.
RunInv(r) ==
    /\ runner[r] = "planned" /\ r \in informed => Executes(r, {"intent", "effects-pending"})
    /\ runner[r] \in {"creating", "attaching", "pinned", "recorded"} =>
         Executes(r, {"effects-pending"})
    /\ runner[r] \in {"granted", "released"} => Executes(r, {"release-attempted"})
    /\ runner[r] = "retiring" =>
         Mapped /\ journal.pending.kind # "none" /\ journal.pending.id = r
    /\ runner[r] \in {"attaching", "pinned", "recorded"} => pipe[r] = "open"
    /\ runner[r] \in {"idle", "active", "planned"} => container[r] = "none"
    /\ runner[r] \in {"closed", "retiring", "leaving", "complete"} => container[r] = "gone"
    /\ runner[r] \in Started => container[r] # "none"
    /\ runner[r] \in {"creating", "attaching", "pinned"} =>
         queued[r] # NoEntry /\ ~queued[r].container
    /\ queued[r] # NoEntry /\ queued[r].container => container[r] # "none"
    /\ runner[r] \in {"leaving", "complete"} => Mapped /\ r \in journal.storage
    /\ runner[r] = "complete" => queued[r] = NoEntry
    /\ container[r] = "waiting" /\ pipe[r] = "framed" => Executes(r, {"release-attempted"})

\* The inductive invariant.
MappedInv ==
    /\ MappedTypes /\ JournalInv /\ LockInv /\ (\A r \in MappedRuns : RunInv(r))
    /\ ranWith # {} => Mapped /\ ranWith \subseteq journal.accepted
    /\ EffectsOnRecord

-----------------------------------------------------------------------------
\* A journal that is there is typed and valid, and so is its pending operation.
LEMMA MappedTyped ==
    ASSUME MappedInv, Mapped
    PROVE  /\ journal \in MapJournals
           /\ journal.pending \in MapOperations \cup {NoOperation}
           /\ journal.pending.kind # "none" => journal.pending \in MapOperations
           /\ journal.pending.kind = "none" => journal.pending = NoOperation
           /\ ValidMapping(journal) /\ journal.revision \in 1 .. MaxRevision
           /\ journal.pending.kind # "none" => PendingIntact(journal)
<1>1. journal \in MapJournals
    BY DEF MappedInv, MappedTypes, Mapped
<1>2. journal.pending \in MapOperations \cup {NoOperation}
    BY <1>1 DEF MapJournals
<1>3. \A p \in MapOperations : p.kind # "none"
    BY DEF MapOperations
<1>4. NoOperation.kind = "none"
    BY DEF NoOperation
<1> QED BY <1>1, <1>2, <1>3, <1>4 DEF MappedInv, JournalInv

LEMMA JournalsAreMapped == \A m \in MapJournals : m # NoMapping
BY DEF MapJournals, NoMapping

LEMMA FirstMappingTyped ==
    ASSUME NEW profile \in Profiles
    PROVE  FirstMapping(profile) \in MapJournals
BY DEF FirstMapping, MapJournals

\* The pending operation of a journal is replaced.
LEMMA PendingReplaced ==
    ASSUME NEW m \in MapJournals, NEW p \in MapOperations \cup {NoOperation},
           NEW n, n = [m EXCEPT !.pending = p]
    PROVE  /\ n \in MapJournals /\ n.pending = p
           /\ n.schema = m.schema /\ n.profile = m.profile /\ n.revision = m.revision
           /\ n.reserved = m.reserved /\ n.accepted = m.accepted /\ n.dormant = m.dormant
           /\ n.admitted = m.admitted /\ n.process = m.process /\ n.storage = m.storage
BY DEF MapJournals

\* What Change, the one writer of the journal, leaves behind: the next journal with its
\* revision raised by one, accepted by validation, and the caller as the only one informed.
LEMMA ChangeWrites ==
    ASSUME MappedInv, NEW caller, NEW next \in MapJournals, NEW certain \in BOOLEAN,
           Change(caller, next, certain)
    PROVE  /\ journal' \in MapJournals /\ Mapped' /\ ValidMapping(journal')
           /\ journal'.revision = next.revision + 1 /\ journal'.revision \in 1 .. MaxRevision
           /\ journal'.schema = next.schema /\ journal'.profile = next.profile
           /\ journal'.reserved = next.reserved /\ journal'.accepted = next.accepted
           /\ journal'.dormant = next.dormant /\ journal'.admitted = next.admitted
           /\ journal'.process = next.process /\ journal'.storage = next.storage
           /\ journal'.pending = next.pending
           /\ informed' \subseteq {caller} /\ HoldsLock(caller) /\ caller \in informed
<1>1. next.revision \in Nat /\ next.revision < MaxRevision /\ MaxRevision \in Nat
    BY MappingBounds DEF Change, MapJournals
<1>2. next.revision + 1 \in Nat /\ next.revision + 1 \in 1 .. MaxRevision
    BY <1>1
<1>3. /\ journal' = [next EXCEPT !.revision = next.revision + 1] /\ ValidMapping(journal')
      /\ informed' \subseteq {caller} /\ HoldsLock(caller) /\ caller \in informed
    BY DEF Change
<1>4. journal' \in MapJournals
    BY <1>2, <1>3 DEF MapJournals
<1>5. /\ journal'.revision = next.revision + 1
      /\ journal'.schema = next.schema /\ journal'.profile = next.profile
      /\ journal'.reserved = next.reserved /\ journal'.accepted = next.accepted
      /\ journal'.dormant = next.dormant /\ journal'.admitted = next.admitted
      /\ journal'.process = next.process /\ journal'.storage = next.storage
      /\ journal'.pending = next.pending
    BY <1>3 DEF MapJournals
<1> QED BY <1>2, <1>3, <1>4, <1>5, JournalsAreMapped DEF Mapped

\* No run holds the lock while an operator's command runs.
LEMMA NoRunHolds ==
    ASSUME MappedInv, lockedBy = NoOne \/ HoldsLock("operator")
    PROVE  lockedBy = NoOne /\ \A r \in MappedRuns : runner[r] \notin HoldingSteps
<1>1. lockedBy = NoOne
    BY MappingBounds DEF MappedInv, MappedTypes, HoldsLock
<1> QED BY <1>1, MappingBounds DEF MappedInv, LockInv, NoOne

\* The effects of these owners are on the record of journal m.
Covers(m, owners) ==
    owners \subseteq m.storage \cup (IF m.pending.kind = "none" THEN {} ELSE {m.pending.id})

\* A command of the operator keeps the invariant when its journal loses no acceptance and
\* no storage, covers the effects there are, and releases no waiting frame.
LEMMA CommandKeeps ==
    ASSUME MappedInv, NEW next \in MapJournals, Commanded(next),
           next.pending.kind # "none" => PendingIntact(journal)',
           Mapped => journal.accepted \subseteq next.accepted /\ journal.storage \subseteq next.storage,
           Covers(next, touched),
           next.pending.kind = "native-execute" =>
               /\ next.pending.id \in MappedRuns
               /\ container[next.pending.id] # "none" =>
                    maps[next.pending.id] = next.pending.active,
           \A r \in MappedRuns : container[r] = "waiting" => ~Executes(r, {"release-attempted"})
    PROVE  MappedInv'
<1>1. PICK certain \in BOOLEAN : Change("operator", next, certain)
    BY DEF Commanded
<1>2. /\ journal' \in MapJournals /\ Mapped' /\ ValidMapping(journal')
      /\ journal'.revision \in 1 .. MaxRevision /\ journal'.accepted = next.accepted
      /\ journal'.storage = next.storage /\ journal'.pending = next.pending
      /\ informed' \subseteq {"operator"} /\ HoldsLock("operator")
    BY <1>1, ChangeWrites
<1>3. UNCHANGED <<current, lockedBy, queued, container, maps, pipe, runner, touched, ranWith>>
    BY DEF Commanded, runVars
<1>4. \A r \in MappedRuns : runner[r] \notin HoldingSteps
    BY <1>2, NoRunHolds
<1>5. MappedTypes'
    BY <1>2, <1>3 DEF MappedInv, MappedTypes, Callers
<1>6. JournalInv'
    BY <1>2, <1>3 DEF JournalInv, ValidMapping, ValidNative
<1>7. LockInv'
    BY <1>3 DEF MappedInv, LockInv
<1>8. ASSUME NEW r \in MappedRuns PROVE RunInv(r)'
    BY <1>2, <1>3, <1>4, MappingBounds DEF MappedInv, RunInv, HoldingSteps
<1>9. (ranWith # {} => Mapped /\ ranWith \subseteq journal.accepted)'
    BY <1>2, <1>3 DEF MappedInv
<1>10. EffectsOnRecord'
    BY <1>2, <1>3 DEF EffectsOnRecord, Covers
<1> QED BY <1>5, <1>6, <1>7, <1>8, <1>9, <1>10 DEF MappedInv

LEMMA TouchedCovered ==
    ASSUME MappedInv
    PROVE  /\ Mapped => Covers(journal, touched)
           /\ ~Mapped => touched = {}
BY DEF MappedInv, EffectsOnRecord, Covers

\* A new intent is what every further step requires of the pending operation.
LEMMA IntentTyped ==
    ASSUME MappedInv, NEW id \in MapOwners, NEW kind \in {"configure", "native-execute"},
           NEW candidate \in SUBSET Bindings, NEW active \in SUBSET Bindings
    PROVE  /\ Intent(id, kind, candidate, active) \in MapOperations
           /\ LET p == Intent(id, kind, candidate, active)
              IN  /\ p.kind = kind /\ p.id = id /\ p.phase = "intent" /\ p.candidate = candidate
                  /\ p.active = active /\ p.generation = current
                  /\ Mapped => p.prior = journal.admitted /\ p.expectedRevision = journal.revision + 1
                  /\ ~Mapped => p.prior = NoOne /\ p.expectedRevision = 1
<1> DEFINE prior == IF Mapped THEN journal.admitted ELSE NoOne
           expected == IF Mapped THEN journal.revision + 1 ELSE 1
<1>1. prior \in MapGenerations \cup {NoOne} /\ expected \in Nat
    BY MappedTyped DEF MapJournals
<1>2. current \in MapGenerations
    BY DEF MappedInv, MappedTypes
<1>3. /\ Mapped => prior = journal.admitted /\ expected = journal.revision + 1
      /\ ~Mapped => prior = NoOne /\ expected = 1
    OBVIOUS
<1>4. Intent(id, kind, candidate, active) =
        [kind |-> kind, id |-> id, phase |-> "intent", candidate |-> candidate, active |-> active,
         generation |-> current, prior |-> prior, expectedRevision |-> expected]
    BY DEF Intent
<1> HIDE DEF prior, expected
<1> QED BY <1>1, <1>2, <1>3, <1>4 DEF MapOperations, Phases

LEMMA CommitKeeps == ASSUME MappedInv, CommitIdentityMapping PROVE MappedInv'
<1>1. PICK profile \in Profiles : Commanded(FirstMapping(profile))
    BY DEF CommitIdentityMapping
<1>2. ~Mapped /\ touched = {}
    BY TouchedCovered DEF CommitIdentityMapping
<1>3. FirstMapping(profile).pending.kind = "none"
    BY DEF FirstMapping, NoOperation
<1>4. Covers(FirstMapping(profile), touched)
    BY <1>2 DEF Covers
<1> QED BY <1>1, <1>2, <1>3, <1>4, FirstMappingTyped, CommandKeeps DEF Executes

\* What a configuration or an execution puts into the journal as pending.
LEMMA PendingCommandKeeps ==
    ASSUME MappedInv, NEW m \in MapJournals, NEW p \in MapOperations \cup {NoOperation},
           Commanded([m EXCEPT !.pending = p]),
           p.kind # "none" =>
               /\ p.generation = current
               /\ p.phase # "release-attempted" => p.prior = m.admitted
               /\ p.phase = "intent" => p.expectedRevision = m.revision + 1
               /\ p.kind = "native-execute" =>
                    /\ Plannable(m, p.candidate, current)
                    /\ ActiveMap(m.profile, p.candidate, current) = p.active
               /\ p.kind # "native-execute" => Retainable(m.profile, p.candidate, m.reserved),
           Mapped => journal.accepted \subseteq m.accepted /\ journal.storage \subseteq m.storage,
           touched \subseteq m.storage \cup (IF p.kind = "none" THEN {} ELSE {p.id}),
           p.kind = "native-execute" =>
               p.id \in MappedRuns /\ (container[p.id] # "none" => maps[p.id] = p.active),
           \A r \in MappedRuns : container[r] = "waiting" => ~Executes(r, {"release-attempted"})
    PROVE  MappedInv'
<1> DEFINE next == [m EXCEPT !.pending = p]
<1>1. /\ next \in MapJournals /\ next.pending = p
      /\ next.schema = m.schema /\ next.profile = m.profile /\ next.revision = m.revision
      /\ next.reserved = m.reserved /\ next.accepted = m.accepted /\ next.dormant = m.dormant
      /\ next.admitted = m.admitted /\ next.process = m.process /\ next.storage = m.storage
    BY PendingReplaced
<1> HIDE DEF next
<1>2. PICK certain \in BOOLEAN : Change("operator", next, certain)
    BY DEF Commanded, next
<1>3. /\ journal'.pending = p /\ journal'.revision = m.revision + 1
      /\ journal'.profile = m.profile /\ journal'.reserved = m.reserved
      /\ journal'.accepted = m.accepted /\ journal'.admitted = m.admitted
    BY <1>1, <1>2, ChangeWrites
<1>4. current' = current
    BY DEF Commanded
<1>5. p.kind # "none" => PendingIntact(journal)'
    BY <1>3, <1>4 DEF PendingIntact, Plannable
<1>6. Covers(next, touched)
    BY <1>1 DEF Covers
<1> QED BY <1>1, <1>5, <1>6, CommandKeeps DEF next

LEMMA ConfigureKeeps ==
    ASSUME MappedInv, NEW id \in Configurations, NEW candidate \in Geometries,
           Configure(id, candidate)
    PROVE  MappedInv'
<1> DEFINE p == Intent(id, "configure", candidate, candidate)
<1>1. candidate \in SUBSET Bindings /\ id \in MapOwners
    BY DEF Bindings, MapOwners
<1>2. /\ p \in MapOperations /\ p.kind = "configure" /\ p.id = id /\ p.phase = "intent"
      /\ p.candidate = candidate /\ p.generation = current
      /\ Mapped => p.prior = journal.admitted /\ p.expectedRevision = journal.revision + 1
      /\ ~Mapped => p.prior = NoOne /\ p.expectedRevision = 1
    BY <1>1, IntentTyped
<1>3. PICK profile \in Profiles :
        Commanded([IF Mapped THEN journal ELSE FirstMapping(profile) EXCEPT !.pending = p])
    BY DEF Configure
<1> HIDE DEF p
<1>4. \A r \in MappedRuns : ~Executes(r, {"release-attempted"})
    BY DEF Configure, Executes, Pending
<1>5. CASE Mapped
    <2>1. Commanded([journal EXCEPT !.pending = p])
        BY <1>3, <1>5
    <2>2. Retainable(journal.profile, candidate, journal.reserved)
        BY <1>5 DEF Configure
    <2>3. touched \subseteq journal.storage
        BY <1>5, TouchedCovered DEF Configure, Covers, Unused
    <2> QED BY <1>2, <1>4, <1>5, <2>1, <2>2, <2>3, MappedTyped, PendingCommandKeeps
<1>6. CASE ~Mapped
    <2> DEFINE m == FirstMapping(profile)
    <2>1. Commanded([m EXCEPT !.pending = p])
        BY <1>3, <1>6
    <2>2. /\ m \in MapJournals /\ m.admitted = NoOne /\ m.revision = 0 /\ m.reserved = {}
          /\ m.profile = profile
        BY FirstMappingTyped DEF FirstMapping
    <2> HIDE DEF m
    <2>3. PICK certain \in BOOLEAN : Change("operator", [m EXCEPT !.pending = p], certain)
        BY <2>1 DEF Commanded
    <2>4. [m EXCEPT !.pending = p] \in MapJournals /\ [m EXCEPT !.pending = p].pending = p
          /\ [m EXCEPT !.pending = p].profile = m.profile
          /\ [m EXCEPT !.pending = p].reserved = m.reserved
        BY <1>2, <2>2, PendingReplaced
    <2>5. ValidMapping(journal') /\ journal'.pending = p /\ journal'.profile = m.profile
          /\ journal'.reserved = m.reserved
        BY <2>3, <2>4, ChangeWrites
    <2>6. Retainable(m.profile, candidate, m.reserved)
        BY <1>2, <2>5 DEF ValidMapping
    <2>7. touched = {}
        BY <1>6, TouchedCovered
    <2>8. 0 + 1 = 1
        OBVIOUS
    <2> QED BY <1>2, <1>4, <1>6, <2>1, <2>2, <2>6, <2>7, <2>8, PendingCommandKeeps
<1> QED BY <1>5, <1>6

LEMMA UpgradeKeeps == ASSUME MappedInv, UpgradeNativeMapping PROVE MappedInv'
<1>1. Mapped /\ journal.schema = 1 /\ (journal.pending.kind # "none" => PendingIntact(journal))
    BY DEF UpgradeNativeMapping
<1>2. /\ journal \in MapJournals /\ journal.pending \in MapOperations \cup {NoOperation}
      /\ journal.pending.kind # "none" => journal.pending \in MapOperations
      /\ journal.revision + 1 \in Nat
    BY <1>1, MappedTyped DEF MapJournals
<1>3. journal.pending.kind # "native-execute"
    BY <1>1, MappedTyped DEF ValidMapping
<1> DEFINE m == [journal EXCEPT !.schema = 2]
           again == [journal.pending EXCEPT !.expectedRevision = journal.revision + 1]
           p == IF journal.pending.kind # "none" /\ journal.pending.phase = "intent"
                THEN again ELSE journal.pending
<1>4. /\ m \in MapJournals /\ m.profile = journal.profile /\ m.revision = journal.revision
      /\ m.reserved = journal.reserved /\ m.accepted = journal.accepted
      /\ m.admitted = journal.admitted /\ m.storage = journal.storage
      /\ [m EXCEPT !.pending = p] = [journal EXCEPT !.schema = 2, !.pending = p]
    BY <1>2 DEF MapJournals
<1>5. journal.pending.kind # "none" =>
        /\ again \in MapOperations /\ again.kind = journal.pending.kind
        /\ again.id = journal.pending.id /\ again.generation = journal.pending.generation
        /\ again.phase = journal.pending.phase /\ again.prior = journal.pending.prior
        /\ again.candidate = journal.pending.candidate
        /\ again.expectedRevision = journal.revision + 1
    BY <1>2 DEF MapOperations
<1> HIDE DEF again
<1>6. /\ p \in MapOperations \cup {NoOperation} /\ p.kind = journal.pending.kind
      /\ p.kind # "none" =>
           /\ p.id = journal.pending.id /\ p.generation = journal.pending.generation
           /\ p.phase = journal.pending.phase /\ p.prior = journal.pending.prior
           /\ p.candidate = journal.pending.candidate
           /\ p.phase = "intent" => p.expectedRevision = journal.revision + 1
    BY <1>2, <1>5
<1>7. Commanded([m EXCEPT !.pending = p])
    BY <1>4 DEF UpgradeNativeMapping, again
<1> HIDE DEF m, p
<1>8. \A r \in MappedRuns : ~Executes(r, {"release-attempted"})
    BY <1>3 DEF Executes
<1>9. touched \subseteq journal.storage \cup (IF p.kind = "none" THEN {} ELSE {p.id})
    BY <1>1, <1>6, TouchedCovered DEF Covers
<1>10. p.kind # "none" =>
        /\ p.generation = current
        /\ p.phase # "release-attempted" => p.prior = m.admitted
        /\ p.phase = "intent" => p.expectedRevision = m.revision + 1
        /\ p.kind # "native-execute" => Retainable(m.profile, p.candidate, m.reserved)
    BY <1>1, <1>3, <1>4, <1>6 DEF PendingIntact
<1> QED BY <1>3, <1>4, <1>6, <1>7, <1>8, <1>9, <1>10, PendingCommandKeeps

LEMMA ActiveBindings ==
    ASSUME NEW profile, NEW candidate \in SUBSET Bindings, NEW g
    PROVE  ActiveMap(profile, candidate, g) \in SUBSET Bindings
BY DEF ActiveMap

LEMMA PrepareNativeKeeps ==
    ASSUME MappedInv, NEW r \in MappedRuns, NEW candidate \in Geometries,
           PrepareNativeExecution(r, candidate)
    PROVE  MappedInv'
<1> DEFINE active == ActiveMap(journal.profile, candidate, current)
           p == Intent(r, "native-execute", candidate, active)
<1>1. candidate \in SUBSET Bindings /\ r \in MapOwners
    BY DEF Bindings, MapOwners
<1>2. active \in SUBSET Bindings
    BY <1>1, ActiveBindings
<1>3. Mapped /\ journal.pending.kind = "none" /\ container[r] = "none"
      /\ Plannable(journal, candidate, current) /\ Commanded([journal EXCEPT !.pending = p])
    BY DEF PrepareNativeExecution
<1>4. /\ p \in MapOperations /\ p.kind = "native-execute" /\ p.id = r /\ p.phase = "intent"
      /\ p.candidate = candidate /\ p.active = active /\ p.generation = current
      /\ p.prior = journal.admitted /\ p.expectedRevision = journal.revision + 1
    BY <1>1, <1>2, <1>3, IntentTyped
<1>5. touched \subseteq journal.storage
    BY <1>3, TouchedCovered DEF Covers
<1>6. \A q \in MappedRuns : ~Executes(q, {"release-attempted"})
    BY <1>3 DEF Executes
<1> HIDE DEF p
<1> QED BY <1>3, <1>4, <1>5, <1>6, MappedTyped, PendingCommandKeeps

LEMMA PendingParts ==
    ASSUME MappedInv, NEW phase, Pending(phase)
    PROVE  /\ Mapped /\ journal.pending.kind # "none" /\ journal.pending \in MapOperations
           /\ journal \in MapJournals /\ journal.pending.phase = phase
           /\ journal.pending.generation = current
           /\ phase # "release-attempted" => journal.pending.prior = journal.admitted
           /\ journal.pending.kind = "native-execute" =>
                /\ Plannable(journal, journal.pending.candidate, current)
                /\ ActiveMap(journal.profile, journal.pending.candidate, current) = journal.pending.active
                /\ journal.pending.id \in MappedRuns
                /\ container[journal.pending.id] # "none" =>
                     maps[journal.pending.id] = journal.pending.active
           /\ journal.pending.kind # "native-execute" =>
                Retainable(journal.profile, journal.pending.candidate, journal.reserved)
           /\ journal.revision + 1 \in Nat
           /\ touched \subseteq journal.storage \cup {journal.pending.id}
           /\ phase # "release-attempted" =>
                \A r \in MappedRuns : ~Executes(r, {"release-attempted"})
<1>1. Mapped /\ PendingIntact(journal) /\ journal.pending.phase = phase
    BY DEF Pending
<1>2. journal.pending.kind # "none"
    BY <1>1 DEF PendingIntact
<1>3. journal \in MapJournals /\ journal.pending \in MapOperations
    BY <1>1, <1>2, MappedTyped
<1>4. journal.revision + 1 \in Nat
    BY <1>3 DEF MapJournals
<1>5. touched \subseteq journal.storage \cup {journal.pending.id}
    BY <1>1, <1>2, TouchedCovered DEF Covers
<1>6. phase # "release-attempted" => \A r \in MappedRuns : ~Executes(r, {"release-attempted"})
    BY <1>1 DEF Executes
<1> QED BY <1>1, <1>2, <1>3, <1>4, <1>5, <1>6 DEF PendingIntact, MappedInv, JournalInv

LEMMA BeginEffectsKeeps == ASSUME MappedInv, BeginEffects PROVE MappedInv'
<1>1. Pending("intent")
    BY DEF BeginEffects
<1> DEFINE old == journal.pending
           expected == IF old.kind = "native-execute" THEN journal.revision + 1
                       ELSE old.expectedRevision
           q == [old EXCEPT !.phase = "effects-pending"]
           p == [q EXCEPT !.expectedRevision = expected]
<1>2. old \in MapOperations /\ journal \in MapJournals /\ journal.revision + 1 \in Nat
    BY <1>1, PendingParts
<1>3. expected \in Nat
    BY <1>2 DEF MapOperations
<1>4. Commanded([journal EXCEPT !.pending = p])
    <2>1. [journal EXCEPT !.pending.phase = "effects-pending",
                          !.pending.expectedRevision =
                              IF journal.pending.kind = "native-execute" THEN journal.revision + 1 ELSE @]
            = [journal EXCEPT !.pending = p]
        BY <1>2 DEF MapJournals, MapOperations
    <2> QED BY <2>1 DEF BeginEffects
<1> HIDE DEF expected
<1>5. /\ q \in MapOperations /\ q.phase = "effects-pending" /\ q.kind = old.kind /\ q.id = old.id
      /\ q.candidate = old.candidate /\ q.active = old.active /\ q.generation = old.generation
      /\ q.prior = old.prior
    BY <1>2 DEF MapOperations, Phases
<1> HIDE DEF q
<1>6. /\ p \in MapOperations /\ p.phase = "effects-pending" /\ p.kind = old.kind /\ p.id = old.id
      /\ p.candidate = old.candidate /\ p.active = old.active /\ p.generation = old.generation
      /\ p.prior = old.prior
    BY <1>3, <1>5 DEF MapOperations
<1> HIDE DEF p
<1> QED BY <1>1, <1>2, <1>4, <1>6, PendingParts, PendingCommandKeeps

LEMMA VerifyConfigurationKeeps == ASSUME MappedInv, VerifyConfiguration PROVE MappedInv'
<1>1. Pending("effects-pending")
    BY DEF VerifyConfiguration
<1> DEFINE old == journal.pending
           p == [old EXCEPT !.phase = "verified"]
<1>2. old \in MapOperations /\ journal \in MapJournals
    BY <1>1, PendingParts
<1>4. Commanded([journal EXCEPT !.pending = p])
    <2>1. [journal EXCEPT !.pending.phase = "verified"] = [journal EXCEPT !.pending = p]
        BY <1>2 DEF MapJournals, MapOperations
    <2> QED BY <2>1 DEF VerifyConfiguration
<1>6. /\ p \in MapOperations /\ p.phase = "verified" /\ p.kind = old.kind /\ p.id = old.id
      /\ p.candidate = old.candidate /\ p.active = old.active /\ p.generation = old.generation
      /\ p.prior = old.prior
    BY <1>2 DEF MapOperations, Phases
<1> HIDE DEF p
<1> QED BY <1>1, <1>2, <1>4, <1>6, PendingParts, PendingCommandKeeps

LEMMA CancelIntentKeeps == ASSUME MappedInv, CancelIntent PROVE MappedInv'
<1>1. Pending("intent") /\ Unused /\ Commanded([journal EXCEPT !.pending = NoOperation])
    BY DEF CancelIntent
<1>2. NoOperation.kind = "none"
    BY DEF NoOperation
<1>3. touched \subseteq journal.storage
    BY <1>1, PendingParts DEF Unused
<1> QED BY <1>1, <1>2, <1>3, PendingParts, PendingCommandKeeps

\* The journal after a recovery, as far as a command needs it.
LEMMA RecoveredParts ==
    ASSUME NEW m \in MapJournals, m.pending \in MapOperations
    PROVE  /\ Recovered(m) \in MapJournals /\ Recovered(m).pending = NoOperation
           /\ Recovered(m).reserved = m.reserved \cup m.pending.candidate
           /\ Recovered(m).storage = m.storage \cup {m.pending.id}
           /\ Recovered(m).accepted = m.accepted /\ Recovered(m).dormant = m.dormant
           /\ Recovered(m).schema = m.schema /\ Recovered(m).profile = m.profile
           /\ Recovered(m).revision = m.revision /\ Recovered(m).admitted = m.admitted
           /\ Recovered(m).process = m.process
<1> DEFINE reserved == m.reserved \cup m.pending.candidate
           storage == m.storage \cup {m.pending.id}
           a == [m EXCEPT !.reserved = reserved]
           b == [a EXCEPT !.storage = storage]
<1>1. reserved \in SUBSET Bindings /\ storage \in SUBSET MapOwners
    BY DEF MapJournals, MapOperations
<1>2. Recovered(m) = [b EXCEPT !.pending = NoOperation]
    BY DEF Recovered, MapJournals
<1> HIDE DEF reserved, storage
<1>3. a \in MapJournals /\ a.reserved = reserved /\ a.storage = m.storage
      /\ a.accepted = m.accepted /\ a.dormant = m.dormant /\ a.schema = m.schema
      /\ a.profile = m.profile /\ a.revision = m.revision /\ a.admitted = m.admitted
      /\ a.process = m.process
    BY <1>1 DEF MapJournals
<1> HIDE DEF a
<1>4. b \in MapJournals /\ b.reserved = reserved /\ b.storage = storage
      /\ b.accepted = m.accepted /\ b.dormant = m.dormant /\ b.schema = m.schema
      /\ b.profile = m.profile /\ b.revision = m.revision /\ b.admitted = m.admitted
      /\ b.process = m.process
    BY <1>1, <1>3 DEF MapJournals
<1> HIDE DEF b
<1> QED BY <1>2, <1>4, PendingReplaced DEF reserved, storage

LEMMA RecoveryCommandKeeps ==
    ASSUME MappedInv, NEW phase, Pending(phase), Commanded(Recovered(journal)),
           \A r \in MappedRuns : container[r] = "waiting" => ~Executes(r, {"release-attempted"})
    PROVE  MappedInv'
<1>1. Mapped /\ journal \in MapJournals /\ journal.pending \in MapOperations
      /\ touched \subseteq journal.storage \cup {journal.pending.id}
    BY PendingParts
<1>2. NoOperation.kind = "none"
    BY DEF NoOperation
<1>3. Covers(Recovered(journal), touched)
    BY <1>1, <1>2, RecoveredParts DEF Covers
<1> QED BY <1>1, <1>2, <1>3, RecoveredParts, CommandKeeps

LEMMA AcceptConfigurationKeeps == ASSUME MappedInv, AcceptConfiguration PROVE MappedInv'
BY PendingParts, RecoveryCommandKeeps DEF AcceptConfiguration

\* Nothing waits for a frame once the effects of an execution are verified.
LEMMA RecoverableIsQuiet ==
    ASSUME MappedInv, NativeRecoverable
    PROVE  \A r \in MappedRuns : container[r] = "waiting" => ~Executes(r, {"release-attempted"})
BY DEF NativeRecoverable, EffectsVerified, Executes

LEMMA RecoverNativeKeeps == ASSUME MappedInv, RecoverNative PROVE MappedInv'
BY RecoverableIsQuiet, RecoveryCommandKeeps DEF RecoverNative, NativeRecoverable

LEMMA ObserveMappingKeeps == ASSUME MappedInv, ObserveMapping PROVE MappedInv'
<1>1. /\ UNCHANGED <<journal, current, lockedBy, queued, container, maps, pipe, runner, touched, ranWith>>
      /\ informed' = informed \cup {"operator"}
    BY DEF ObserveMapping, runVars
<1>2. MappedTypes'
    BY <1>1 DEF MappedInv, MappedTypes, Callers
<1>3. JournalInv' /\ LockInv' /\ EffectsOnRecord'
    BY <1>1 DEF MappedInv, JournalInv, LockInv, EffectsOnRecord, Mapped, PendingIntact
<1>4. ASSUME NEW r \in MappedRuns PROVE RunInv(r)'
    BY <1>1, MappingBounds DEF MappedInv, RunInv, Executes, Mapped
<1> QED BY <1>1, <1>2, <1>3, <1>4 DEF MappedInv, Mapped

LEMMA RebuildKeeps ==
    ASSUME MappedInv, NEW g \in MapGenerations, Rebuild(g) PROVE MappedInv'
<1>1. /\ UNCHANGED <<journal, lockedBy, queued, container, maps, pipe, runner, touched, ranWith>>
      /\ informed' = {} /\ current' = g /\ (Mapped => journal.pending.kind = "none")
    BY DEF Rebuild, runVars
<1>2. MappedTypes'
    BY <1>1 DEF MappedInv, MappedTypes, Callers
<1>3. JournalInv' /\ LockInv' /\ EffectsOnRecord'
    BY <1>1 DEF MappedInv, JournalInv, LockInv, EffectsOnRecord, Mapped
<1>4. ASSUME NEW r \in MappedRuns PROVE RunInv(r)'
    BY <1>1 DEF MappedInv, RunInv, Executes, Mapped
<1> QED BY <1>1, <1>2, <1>3, <1>4 DEF MappedInv, Mapped

LEMMA PrepareStorageKeeps == ASSUME MappedInv, PrepareStorage PROVE MappedInv'
<1>1. /\ UNCHANGED <<journal, current, lockedBy, informed, queued, container, maps, pipe, runner, ranWith>>
      /\ touched' = touched \cup {journal.pending.id} /\ Mapped /\ journal.pending.kind = "configure"
    BY DEF PrepareStorage
<1>2. journal.pending.id \in MapOwners
    BY <1>1, MappedTyped DEF MapOperations
<1>3. MappedTypes'
    BY <1>1, <1>2 DEF MappedInv, MappedTypes
<1>4. JournalInv' /\ LockInv'
    BY <1>1 DEF MappedInv, JournalInv, LockInv, Mapped, PendingIntact
<1>5. EffectsOnRecord'
    BY <1>1, TouchedCovered DEF EffectsOnRecord, Mapped, Covers
<1>6. ASSUME NEW r \in MappedRuns PROVE RunInv(r)'
    BY <1>1 DEF MappedInv, RunInv, Executes, Mapped
<1> QED BY <1>1, <1>3, <1>4, <1>5, <1>6 DEF MappedInv, Mapped

-----------------------------------------------------------------------------
\* A step of run r leaves the other runs alone.
OthersKept(r) ==
    \A q \in MappedRuns \ {r} :
        /\ runner'[q] = runner[q] /\ container'[q] = container[q] /\ pipe'[q] = pipe[q]
        /\ maps'[q] = maps[q] /\ queued'[q] = queued[q] /\ (q \in informed' => q \in informed)

\* The lock goes from or to r, or stays where it is.
LockMoves(r) == lockedBy' = lockedBy \/ lockedBy = r \/ (lockedBy = NoOne /\ lockedBy' = r)

\* A step of run r that leaves the journal alone.
LEMMA RunStepKeeps ==
    ASSUME MappedInv, NEW r \in MappedRuns, UNCHANGED <<journal, current>>, MappedTypes',
           OthersKept(r), LockMoves(r),
           runner'[r] \in HoldingSteps => lockedBy' = r, RunInv(r)',
           Executes(r, Phases) /\ container'[r] # "none" => maps'[r] = journal.pending.active,
           touched' = touched \/ (touched' = touched \cup {r} /\ Executes(r, Phases)),
           ranWith' = ranWith \/ (Mapped /\ ranWith' \subseteq journal.accepted)
    PROVE  MappedInv'
<1>1. JournalInv'
    <2> SUFFICES ASSUME Mapped PROVE JournalInv'
        BY DEF JournalInv, Mapped
    <2>1. /\ journal.revision \in 1 .. MaxRevision /\ ValidMapping(journal)
          /\ journal.pending.kind # "none" => PendingIntact(journal)
        BY MappedTyped
    <2>2. PendingIntact(journal)' <=> PendingIntact(journal)
        BY DEF PendingIntact
    <2>3. ASSUME journal.pending.kind = "native-execute", container'[journal.pending.id] # "none"
          PROVE  maps'[journal.pending.id] = journal.pending.active
        <3>1. journal.pending.id \in MappedRuns /\ journal.pending.phase \in Phases
            BY <2>3, MappedTyped DEF MappedInv, JournalInv, MapOperations
        <3>2. CASE journal.pending.id = r
            BY <2>3, <3>1, <3>2 DEF Executes
        <3>3. CASE journal.pending.id # r
            BY <2>3, <3>1, <3>3 DEF OthersKept, MappedInv, JournalInv
        <3> QED BY <3>2, <3>3
    <2>4. journal.pending.kind = "native-execute" => journal.pending.id \in MappedRuns
        BY DEF MappedInv, JournalInv
    <2> QED BY <2>1, <2>2, <2>3, <2>4 DEF JournalInv
<1>2. LockInv'
    BY MappingBounds DEF MappedInv, LockInv, OthersKept, LockMoves, NoOne
<1>3. ASSUME NEW q \in MappedRuns PROVE RunInv(q)'
    <2>1. CASE q # r
        BY <2>1 DEF OthersKept, MappedInv, RunInv, Executes, Mapped
    <2> QED BY <2>1
<1>4. (ranWith # {} => Mapped /\ ranWith \subseteq journal.accepted)'
    BY DEF MappedInv, Mapped
<1>5. EffectsOnRecord'
    BY DEF MappedInv, EffectsOnRecord, Executes, Mapped
<1> QED BY <1>1, <1>2, <1>3, <1>4, <1>5 DEF MappedInv

LEMMA EnterQueueKeeps == ASSUME MappedInv, NEW r \in MappedRuns, EnterQueue(r) PROVE MappedInv'
<1>1. MappedTypes'
    BY DEF EnterQueue, MappedInv, MappedTypes, RunSteps, Callers, MapOwners
<1>2. OthersKept(r) /\ LockMoves(r)
    BY MappingBounds DEF EnterQueue, MappedInv, MappedTypes, OthersKept, LockMoves
<1>3. runner'[r] \in HoldingSteps => lockedBy' = r
    BY DEF EnterQueue, MappedInv, MappedTypes, LockInv, HoldingSteps
<1>4. RunInv(r)'
    BY MappingBounds DEF EnterQueue, MappedInv, MappedTypes, RunInv, LockInv, HoldingSteps,
       Started, Executes, Mapped, Pending, NoEntry, NoOne
<1>5. Executes(r, Phases) /\ container'[r] # "none" => maps'[r] = journal.pending.active
    BY DEF EnterQueue, MappedInv, MappedTypes, RunInv, JournalInv, Executes, Started
<1>6. touched' = touched \/ (touched' = touched \cup {r} /\ Executes(r, Phases))
    BY DEF EnterQueue
<1>7. ranWith' = ranWith \/ (Mapped /\ ranWith' \subseteq journal.accepted)
    BY DEF EnterQueue
<1>8. UNCHANGED <<journal, current>>
    BY DEF EnterQueue
<1> QED BY <1>1, <1>2, <1>3, <1>4, <1>5, <1>6, <1>7, <1>8, RunStepKeeps

LEMMA ConstructPlanKeeps ==
    ASSUME MappedInv, NEW r \in MappedRuns, ConstructPlan(r) PROVE MappedInv'
<1>1. MappedTypes'
    BY DEF ConstructPlan, Step, MappedInv, MappedTypes, RunSteps, Callers, MapOwners
<1>2. OthersKept(r) /\ LockMoves(r)
    BY MappingBounds DEF ConstructPlan, Step, MappedInv, MappedTypes, OthersKept, LockMoves
<1>3. runner'[r] \in HoldingSteps => lockedBy' = r
    BY DEF ConstructPlan, Step, MappedInv, MappedTypes, LockInv, HoldingSteps
<1>4. RunInv(r)'
    BY MappingBounds DEF ConstructPlan, Step, MappedInv, MappedTypes, RunInv, LockInv,
       HoldingSteps, Started, Executes, Mapped, Pending, NoEntry, NoOne
<1>5. Executes(r, Phases) /\ container'[r] # "none" => maps'[r] = journal.pending.active
    BY DEF ConstructPlan, Step, MappedInv, MappedTypes, RunInv, JournalInv, Executes, Started
<1>6. touched' = touched \/ (touched' = touched \cup {r} /\ Executes(r, Phases))
    BY DEF ConstructPlan, Step
<1>7. ranWith' = ranWith \/ (Mapped /\ ranWith' \subseteq journal.accepted)
    BY DEF ConstructPlan, Step
<1>8. UNCHANGED <<journal, current>>
    BY DEF ConstructPlan, Step
<1> QED BY <1>1, <1>2, <1>3, <1>4, <1>5, <1>6, <1>7, <1>8, RunStepKeeps

LEMMA BeginRunKeeps == ASSUME MappedInv, NEW r \in MappedRuns, BeginRun(r) PROVE MappedInv'
<1>1. MappedTypes'
    BY DEF BeginRun, Step, MappedInv, MappedTypes, RunSteps, Callers, MapOwners
<1>2. OthersKept(r) /\ LockMoves(r)
    BY MappingBounds DEF BeginRun, Step, MappedInv, MappedTypes, OthersKept, LockMoves
<1>3. runner'[r] \in HoldingSteps => lockedBy' = r
    BY DEF BeginRun, Step, MappedInv, MappedTypes, LockInv, HoldingSteps
<1>4. RunInv(r)'
    <2>1. /\ runner[r] = "planned" /\ runner'[r] = "creating" /\ r \in informed
          /\ UNCHANGED <<journal, container, pipe, queued>> /\ Pending("effects-pending")
          /\ queued[r] = [generation |-> current, container |-> FALSE]
        BY DEF BeginRun, Step, MappedInv, MappedTypes
    <2>2. queued[r] # NoEntry /\ ~queued[r].container
        BY <2>1 DEF NoEntry
    <2> QED BY <2>1, <2>2 DEF MappedInv, RunInv, Started, Executes, Mapped, Pending
<1>5. Executes(r, Phases) /\ container'[r] # "none" => maps'[r] = journal.pending.active
    BY DEF BeginRun, Step, MappedInv, MappedTypes, RunInv, JournalInv, Executes, Started
<1>6. touched' = touched \/ (touched' = touched \cup {r} /\ Executes(r, Phases))
    BY DEF BeginRun, Step
<1>7. ranWith' = ranWith \/ (Mapped /\ ranWith' \subseteq journal.accepted)
    BY DEF BeginRun, Step
<1>8. UNCHANGED <<journal, current>>
    BY DEF BeginRun, Step
<1> QED BY <1>1, <1>2, <1>3, <1>4, <1>5, <1>6, <1>7, <1>8, RunStepKeeps

LEMMA RefuseRunKeeps == ASSUME MappedInv, NEW r \in MappedRuns, RefuseRun(r) PROVE MappedInv'
<1>1. MappedTypes'
    BY DEF RefuseRun, Step, MappedInv, MappedTypes, RunSteps, Callers, MapOwners
<1>2. OthersKept(r) /\ LockMoves(r)
    BY MappingBounds DEF RefuseRun, Step, MappedInv, MappedTypes, OthersKept, LockMoves
<1>3. runner'[r] \in HoldingSteps => lockedBy' = r
    BY DEF RefuseRun, Step, MappedInv, MappedTypes, LockInv, HoldingSteps
<1>4. RunInv(r)'
    BY MappingBounds DEF RefuseRun, Step, MappedInv, MappedTypes, RunInv, LockInv, HoldingSteps,
       Started, Executes, Mapped, Pending, NoEntry, NoOne
<1>5. Executes(r, Phases) /\ container'[r] # "none" => maps'[r] = journal.pending.active
    BY DEF RefuseRun, Step, MappedInv, MappedTypes, RunInv, JournalInv, Executes, Started
<1>6. touched' = touched \/ (touched' = touched \cup {r} /\ Executes(r, Phases))
    BY DEF RefuseRun, Step
<1>7. ranWith' = ranWith \/ (Mapped /\ ranWith' \subseteq journal.accepted)
    BY DEF RefuseRun, Step
<1>8. UNCHANGED <<journal, current>>
    BY DEF RefuseRun, Step
<1> QED BY <1>1, <1>2, <1>3, <1>4, <1>5, <1>6, <1>7, <1>8, RunStepKeeps

LEMMA CreateInstanceKeeps ==
    ASSUME MappedInv, NEW r \in MappedRuns, CreateInstance(r) PROVE MappedInv'
<1>0. /\ runner[r] = "creating" /\ Executes(r, {"effects-pending"})
      /\ container \in [MappedRuns -> {"none", "created", "waiting", "app", "exited", "gone"}]
      /\ maps \in [MappedRuns -> SUBSET Bindings] /\ runner \in [MappedRuns -> RunSteps]
      /\ pipe \in [MappedRuns -> {"none", "open", "framed", "closed"}]
      /\ queued[r] # NoEntry /\ ~queued[r].container /\ lockedBy = r
    BY DEF CreateInstance, MappedInv, MappedTypes, RunInv, LockInv, HoldingSteps
<1>1. PICK c \in {"none", "created", "gone"} : container' = [container EXCEPT ![r] = c]
    BY DEF CreateInstance
<1>2. container'[r] = c /\ \A q \in MappedRuns \ {r} : container'[q] = container[q]
    BY <1>0, <1>1
<1>3. Mapped /\ journal.pending \in MapOperations
    BY <1>0, MappedTyped DEF Executes
<1>4. journal.pending.active \in SUBSET Bindings
    BY <1>3 DEF MapOperations
<1>5. /\ c = "none" => maps' = maps /\ touched' = touched
      /\ c # "none" => maps' = [maps EXCEPT ![r] = journal.pending.active] /\ touched' = touched \cup {r}
    BY <1>2 DEF CreateInstance
<1>6. \/ /\ c = "created" /\ runner' = [runner EXCEPT ![r] = "attaching"]
         /\ pipe' = [pipe EXCEPT ![r] = "open"] /\ lockedBy' = lockedBy
      \/ /\ runner' = [runner EXCEPT ![r] = "over"] /\ lockedBy' = NoOne /\ pipe' = pipe
    BY <1>2 DEF CreateInstance
<1>7. UNCHANGED <<journal, current, informed, queued, ranWith>>
    BY DEF CreateInstance
<1>8. MappedTypes'
    <2>1. container' \in [MappedRuns -> {"none", "created", "waiting", "app", "exited", "gone"}]
        BY <1>0, <1>1
    <2>2. maps' \in [MappedRuns -> SUBSET Bindings] /\ touched' \subseteq MapOwners
        BY <1>0, <1>4, <1>5 DEF MappedInv, MappedTypes, MapOwners
    <2>3. /\ runner' \in [MappedRuns -> RunSteps]
          /\ pipe' \in [MappedRuns -> {"none", "open", "framed", "closed"}]
          /\ lockedBy' \in MappedRuns \cup {NoOne}
        BY <1>0, <1>6 DEF RunSteps
    <2> QED BY <1>7, <2>1, <2>2, <2>3 DEF MappedInv, MappedTypes
<1>9. OthersKept(r) /\ LockMoves(r)
    BY <1>0, <1>2, <1>5, <1>6, <1>7 DEF OthersKept, LockMoves
<1>10. runner'[r] \in HoldingSteps => lockedBy' = r
    BY <1>0, <1>6 DEF HoldingSteps
<1>11. RunInv(r)'
    BY <1>0, <1>2, <1>6, <1>7 DEF RunInv, Started, Executes, Mapped
<1>12. container'[r] # "none" => maps'[r] = journal.pending.active
    BY <1>0, <1>2, <1>5
<1>13. Executes(r, Phases)
    BY <1>0 DEF Executes, Phases
<1> QED BY <1>5, <1>7, <1>8, <1>9, <1>10, <1>11, <1>12, <1>13, RunStepKeeps

LEMMA AttachInstanceKeeps ==
    ASSUME MappedInv, NEW r \in MappedRuns, AttachInstance(r) PROVE MappedInv'
<1>1. MappedTypes'
    BY DEF AttachInstance, Step, MappedInv, MappedTypes, RunSteps, Callers, MapOwners
<1>2. OthersKept(r) /\ LockMoves(r)
    BY MappingBounds DEF AttachInstance, Step, MappedInv, MappedTypes, OthersKept, LockMoves
<1>3. runner'[r] \in HoldingSteps => lockedBy' = r
    BY DEF AttachInstance, Step, MappedInv, MappedTypes, LockInv, HoldingSteps
<1>4. RunInv(r)'
    <2>1. /\ runner[r] = "attaching" /\ runner'[r] = "pinned" /\ container'[r] = "waiting"
          /\ UNCHANGED <<journal, pipe, queued>>
        BY DEF AttachInstance, Step, MappedInv, MappedTypes
    <2> QED BY <2>1 DEF MappedInv, RunInv, Started, Executes, Mapped
<1>5. Executes(r, Phases) /\ container'[r] # "none" => maps'[r] = journal.pending.active
    BY DEF AttachInstance, Step, MappedInv, MappedTypes, RunInv, JournalInv, Executes, Started
<1>6. touched' = touched \/ (touched' = touched \cup {r} /\ Executes(r, Phases))
    BY DEF AttachInstance, Step
<1>7. ranWith' = ranWith \/ (Mapped /\ ranWith' \subseteq journal.accepted)
    BY DEF AttachInstance, Step
<1>8. UNCHANGED <<journal, current>>
    BY DEF AttachInstance, Step
<1> QED BY <1>1, <1>2, <1>3, <1>4, <1>5, <1>6, <1>7, <1>8, RunStepKeeps

LEMMA RecordInstanceKeeps ==
    ASSUME MappedInv, NEW r \in MappedRuns, RecordInstance(r) PROVE MappedInv'
<1>1. MappedTypes'
    <2>1. runner[r] = "pinned" /\ queued[r] # NoEntry
        BY DEF RecordInstance, Step, MappedInv, RunInv
    <2>2. queued[r] \in [generation : MapGenerations, container : BOOLEAN]
        BY <2>1 DEF MappedInv, MappedTypes
    <2>3. [queued[r] EXCEPT !.container = TRUE] \in [generation : MapGenerations, container : BOOLEAN]
        BY <2>2
    <2>4. queued' = [queued EXCEPT ![r] = [queued[r] EXCEPT !.container = TRUE]]
        BY DEF RecordInstance
    <2>5. queued' \in [MappedRuns -> {NoEntry} \cup [generation : MapGenerations, container : BOOLEAN]]
        BY <2>3, <2>4 DEF MappedInv, MappedTypes
    <2> QED BY <2>5 DEF RecordInstance, Step, MappedInv, MappedTypes, RunSteps
<1>2. OthersKept(r) /\ LockMoves(r)
    BY MappingBounds DEF RecordInstance, Step, MappedInv, MappedTypes, OthersKept, LockMoves
<1>3. runner'[r] \in HoldingSteps => lockedBy' = r
    BY DEF RecordInstance, Step, MappedInv, MappedTypes, LockInv, HoldingSteps
<1>4. RunInv(r)'
    <2>1. /\ runner[r] = "pinned" /\ runner'[r] = "recorded"
          /\ UNCHANGED <<journal, container, pipe>>
        BY DEF RecordInstance, Step, MappedInv, MappedTypes
    <2> QED BY <2>1 DEF MappedInv, RunInv, Started, Executes, Mapped
<1>5. Executes(r, Phases) /\ container'[r] # "none" => maps'[r] = journal.pending.active
    BY DEF RecordInstance, Step, MappedInv, MappedTypes, RunInv, JournalInv, Executes, Started
<1>6. touched' = touched \/ (touched' = touched \cup {r} /\ Executes(r, Phases))
    BY DEF RecordInstance, Step
<1>7. ranWith' = ranWith \/ (Mapped /\ ranWith' \subseteq journal.accepted)
    BY DEF RecordInstance, Step
<1>8. UNCHANGED <<journal, current>>
    BY DEF RecordInstance, Step
<1> QED BY <1>1, <1>2, <1>3, <1>4, <1>5, <1>6, <1>7, <1>8, RunStepKeeps

LEMMA SendFrameKeeps == ASSUME MappedInv, NEW r \in MappedRuns, SendFrame(r) PROVE MappedInv'
<1>1. MappedTypes'
    BY DEF SendFrame, MappedInv, MappedTypes, RunSteps, Callers, MapOwners
<1>2. OthersKept(r) /\ LockMoves(r)
    BY MappingBounds DEF SendFrame, MappedInv, MappedTypes, OthersKept, LockMoves
<1>3. runner'[r] \in HoldingSteps => lockedBy' = r
    BY DEF SendFrame, MappedInv, MappedTypes, LockInv, HoldingSteps
<1>4. RunInv(r)'
    <2>1. /\ runner[r] = "granted" /\ runner'[r] \in {"released", "failing"} /\ pipe'[r] = "framed"
          /\ UNCHANGED <<journal, container, queued>>
        BY DEF SendFrame, MappedInv, MappedTypes
    <2> QED BY <2>1 DEF MappedInv, RunInv, Started, Executes, Mapped
<1>5. Executes(r, Phases) /\ container'[r] # "none" => maps'[r] = journal.pending.active
    BY DEF SendFrame, MappedInv, MappedTypes, RunInv, JournalInv, Executes, Started
<1>6. touched' = touched \/ (touched' = touched \cup {r} /\ Executes(r, Phases))
    BY DEF SendFrame
<1>7. ranWith' = ranWith \/ (Mapped /\ ranWith' \subseteq journal.accepted)
    BY DEF SendFrame
<1>8. UNCHANGED <<journal, current>>
    BY DEF SendFrame
<1> QED BY <1>1, <1>2, <1>3, <1>4, <1>5, <1>6, <1>7, <1>8, RunStepKeeps

LEMMA StartupFailsKeeps ==
    ASSUME MappedInv, NEW r \in MappedRuns, StartupFails(r) PROVE MappedInv'
<1>1. MappedTypes'
    BY DEF StartupFails, MappedInv, MappedTypes, RunSteps, Callers, MapOwners
<1>2. OthersKept(r) /\ LockMoves(r)
    BY MappingBounds DEF StartupFails, MappedInv, MappedTypes, OthersKept, LockMoves
<1>3. runner'[r] \in HoldingSteps => lockedBy' = r
    BY DEF StartupFails, MappedInv, MappedTypes, LockInv, HoldingSteps
<1>4. RunInv(r)'
    <2>1. /\ runner'[r] = "failing" /\ runner[r] \in Started
          /\ UNCHANGED <<journal, container, pipe, queued>>
        BY DEF StartupFails, MappedInv, MappedTypes, Started
    <2> QED BY <2>1 DEF MappedInv, RunInv, Started, Executes, Mapped
<1>5. Executes(r, Phases) /\ container'[r] # "none" => maps'[r] = journal.pending.active
    BY DEF StartupFails, MappedInv, MappedTypes, RunInv, JournalInv, Executes, Started
<1>6. touched' = touched \/ (touched' = touched \cup {r} /\ Executes(r, Phases))
    BY DEF StartupFails
<1>7. ranWith' = ranWith \/ (Mapped /\ ranWith' \subseteq journal.accepted)
    BY DEF StartupFails
<1>8. UNCHANGED <<journal, current>>
    BY DEF StartupFails
<1> QED BY <1>1, <1>2, <1>3, <1>4, <1>5, <1>6, <1>7, <1>8, RunStepKeeps

LEMMA UnlockAttachedKeeps ==
    ASSUME MappedInv, NEW r \in MappedRuns, UnlockAttached(r) PROVE MappedInv'
<1>1. MappedTypes'
    BY DEF UnlockAttached, Step, MappedInv, MappedTypes, RunSteps, Callers, MapOwners
<1>2. OthersKept(r) /\ LockMoves(r)
    <2>1. lockedBy = r
        BY DEF UnlockAttached, Step, MappedInv, LockInv, HoldingSteps
    <2> QED BY <2>1 DEF UnlockAttached, Step, MappedInv, MappedTypes, OthersKept, LockMoves
<1>3. runner'[r] \in HoldingSteps => lockedBy' = r
    BY DEF UnlockAttached, Step, MappedInv, MappedTypes, LockInv, HoldingSteps
<1>4. RunInv(r)'
    <2>1. /\ runner[r] = "released" /\ runner'[r] = "attached"
          /\ UNCHANGED <<journal, container, pipe, queued>>
        BY DEF UnlockAttached, Step, MappedInv, MappedTypes
    <2> QED BY <2>1 DEF MappedInv, RunInv, Started, Executes, Mapped
<1>5. Executes(r, Phases) /\ container'[r] # "none" => maps'[r] = journal.pending.active
    BY DEF UnlockAttached, Step, MappedInv, MappedTypes, RunInv, JournalInv, Executes, Started
<1>6. touched' = touched \/ (touched' = touched \cup {r} /\ Executes(r, Phases))
    BY DEF UnlockAttached, Step
<1>7. ranWith' = ranWith \/ (Mapped /\ ranWith' \subseteq journal.accepted)
    BY DEF UnlockAttached, Step
<1>8. UNCHANGED <<journal, current>>
    BY DEF UnlockAttached, Step
<1> QED BY <1>1, <1>2, <1>3, <1>4, <1>5, <1>6, <1>7, <1>8, RunStepKeeps

LEMMA StopWaitingKeeps ==
    ASSUME MappedInv, NEW r \in MappedRuns, StopWaiting(r) PROVE MappedInv'
<1>1. MappedTypes'
    BY DEF StopWaiting, Step, MappedInv, MappedTypes, RunSteps, Callers, MapOwners
<1>2. OthersKept(r) /\ LockMoves(r)
    BY MappingBounds DEF StopWaiting, Step, MappedInv, MappedTypes, OthersKept, LockMoves
<1>3. runner'[r] \in HoldingSteps => lockedBy' = r
    BY DEF StopWaiting, Step, MappedInv, MappedTypes, LockInv, HoldingSteps
<1>4. RunInv(r)'
    BY MappingBounds DEF StopWaiting, Step, MappedInv, MappedTypes, RunInv, LockInv,
       HoldingSteps, Started, Executes, Mapped, Pending, NoEntry, NoOne
<1>5. Executes(r, Phases) /\ container'[r] # "none" => maps'[r] = journal.pending.active
    BY DEF StopWaiting, Step, MappedInv, MappedTypes, RunInv, JournalInv, Executes, Started
<1>6. touched' = touched \/ (touched' = touched \cup {r} /\ Executes(r, Phases))
    BY DEF StopWaiting, Step
<1>7. ranWith' = ranWith \/ (Mapped /\ ranWith' \subseteq journal.accepted)
    BY DEF StopWaiting, Step
<1>8. UNCHANGED <<journal, current>>
    BY DEF StopWaiting, Step
<1> QED BY <1>1, <1>2, <1>3, <1>4, <1>5, <1>6, <1>7, <1>8, RunStepKeeps

LEMMA CloseInstanceKeeps ==
    ASSUME MappedInv, NEW r \in MappedRuns, CloseInstance(r) PROVE MappedInv'
<1>1. MappedTypes'
    BY DEF CloseInstance, MappedInv, MappedTypes, RunSteps, Callers, MapOwners
<1>2. OthersKept(r) /\ LockMoves(r)
    BY MappingBounds DEF CloseInstance, MappedInv, MappedTypes, OthersKept, LockMoves
<1>3. runner'[r] \in HoldingSteps => lockedBy' = r
    BY DEF CloseInstance, MappedInv, MappedTypes, LockInv, HoldingSteps
<1>4. RunInv(r)'
    <2>1. PICK removed \in BOOLEAN :
            /\ container' = IF removed THEN [container EXCEPT ![r] = "gone"] ELSE container
            /\ runner' = [runner EXCEPT ![r] =
                  IF removed /\ runner[r] = "closing" THEN "closed" ELSE "over"]
        BY DEF CloseInstance
    <2>2. /\ \/ runner'[r] = "over" /\ container'[r] = container[r]
             \/ runner'[r] \in {"closed", "over"} /\ container'[r] = "gone"
        BY <2>1 DEF MappedInv, MappedTypes
    <2>3. /\ runner[r] \in Started /\ (pipe'[r] = pipe[r] \/ pipe'[r] = "closed")
          /\ UNCHANGED <<journal, queued>>
        BY DEF CloseInstance, MappedInv, MappedTypes, Started
    <2> QED BY <2>2, <2>3 DEF MappedInv, RunInv, Started, Executes, Mapped
<1>5. Executes(r, Phases) /\ container'[r] # "none" => maps'[r] = journal.pending.active
    BY DEF CloseInstance, MappedInv, MappedTypes, RunInv, JournalInv, Executes, Started
<1>6. touched' = touched \/ (touched' = touched \cup {r} /\ Executes(r, Phases))
    BY DEF CloseInstance
<1>7. ranWith' = ranWith \/ (Mapped /\ ranWith' \subseteq journal.accepted)
    BY DEF CloseInstance
<1>8. UNCHANGED <<journal, current>>
    BY DEF CloseInstance
<1> QED BY <1>1, <1>2, <1>3, <1>4, <1>5, <1>6, <1>7, <1>8, RunStepKeeps

LEMMA ResumeRunKeeps == ASSUME MappedInv, NEW r \in MappedRuns, ResumeRun(r) PROVE MappedInv'
<1>1. MappedTypes'
    <2>1. lockedBy' \in {lockedBy, r} /\ informed' \in {informed, informed \cup {r}}
        BY DEF ResumeRun
    <2>2. lockedBy' \in MappedRuns \cup {NoOne} /\ informed' \subseteq Callers
        BY <2>1 DEF MappedInv, MappedTypes, Callers
    <2>3. runner' \in [MappedRuns -> RunSteps]
        BY DEF ResumeRun, MappedInv, MappedTypes, RunSteps
    <2> QED BY <2>2, <2>3 DEF ResumeRun, MappedInv, MappedTypes
<1>2. OthersKept(r) /\ LockMoves(r)
    BY MappingBounds DEF ResumeRun, MappedInv, MappedTypes, OthersKept, LockMoves
<1>3. runner'[r] \in HoldingSteps => lockedBy' = r
    BY DEF ResumeRun, MappedInv, MappedTypes, LockInv, HoldingSteps
<1>4. RunInv(r)'
    <2>1. /\ runner[r] = "closed" /\ UNCHANGED <<journal, container, pipe, queued>>
          /\ \/ runner'[r] = "over"
             \/ runner'[r] = "retiring" /\ Pending("release-attempted") /\ journal.pending.id = r
        BY DEF ResumeRun, MappedInv, MappedTypes
    <2> QED BY <2>1 DEF MappedInv, RunInv, Started, Executes, Mapped, Pending, PendingIntact
<1>5. Executes(r, Phases) /\ container'[r] # "none" => maps'[r] = journal.pending.active
    BY DEF ResumeRun, MappedInv, MappedTypes, RunInv, JournalInv, Executes, Started
<1>6. touched' = touched \/ (touched' = touched \cup {r} /\ Executes(r, Phases))
    BY DEF ResumeRun
<1>7. ranWith' = ranWith \/ (Mapped /\ ranWith' \subseteq journal.accepted)
    BY DEF ResumeRun
<1>8. UNCHANGED <<journal, current>>
    BY DEF ResumeRun
<1> QED BY <1>1, <1>2, <1>3, <1>4, <1>5, <1>6, <1>7, <1>8, RunStepKeeps

LEMMA LeaveQueueKeeps == ASSUME MappedInv, NEW r \in MappedRuns, LeaveQueue(r) PROVE MappedInv'
<1>1. MappedTypes'
    BY DEF LeaveQueue, Step, MappedInv, MappedTypes, RunSteps, Callers, MapOwners
<1>2. OthersKept(r) /\ LockMoves(r)
    <2>1. lockedBy = r
        BY DEF LeaveQueue, Step, MappedInv, LockInv, HoldingSteps
    <2> QED BY <2>1 DEF LeaveQueue, Step, MappedInv, MappedTypes, OthersKept, LockMoves
<1>3. runner'[r] \in HoldingSteps => lockedBy' = r
    BY DEF LeaveQueue, Step, MappedInv, MappedTypes, LockInv, HoldingSteps
<1>4. RunInv(r)'
    <2>1. /\ runner[r] = "leaving" /\ runner'[r] = "complete" /\ queued'[r] = NoEntry
          /\ UNCHANGED <<journal, container, pipe>>
        BY DEF LeaveQueue, Step, MappedInv, MappedTypes
    <2> QED BY <2>1 DEF MappedInv, RunInv, Started, Executes, Mapped
<1>5. Executes(r, Phases) /\ container'[r] # "none" => maps'[r] = journal.pending.active
    BY DEF LeaveQueue, Step, MappedInv, MappedTypes, RunInv, JournalInv, Executes, Started
<1>6. touched' = touched \/ (touched' = touched \cup {r} /\ Executes(r, Phases))
    BY DEF LeaveQueue, Step
<1>7. ranWith' = ranWith \/ (Mapped /\ ranWith' \subseteq journal.accepted)
    BY DEF LeaveQueue, Step
<1>8. UNCHANGED <<journal, current>>
    BY DEF LeaveQueue, Step
<1> QED BY <1>1, <1>2, <1>3, <1>4, <1>5, <1>6, <1>7, <1>8, RunStepKeeps

LEMMA RunnerDiesKeeps == ASSUME MappedInv, NEW r \in MappedRuns, RunnerDies(r) PROVE MappedInv'
<1>1. MappedTypes'
    BY DEF RunnerDies, MappedInv, MappedTypes, RunSteps, Callers, MapOwners
<1>2. OthersKept(r) /\ LockMoves(r)
    BY MappingBounds DEF RunnerDies, MappedInv, MappedTypes, OthersKept, LockMoves
<1>3. runner'[r] \in HoldingSteps => lockedBy' = r
    BY DEF RunnerDies, MappedInv, MappedTypes, LockInv, HoldingSteps
<1>4. RunInv(r)'
    BY MappingBounds DEF RunnerDies, MappedInv, MappedTypes, RunInv, LockInv, HoldingSteps,
       Started, Executes, Mapped, Pending, NoEntry, NoOne
<1>5. Executes(r, Phases) /\ container'[r] # "none" => maps'[r] = journal.pending.active
    BY DEF RunnerDies, MappedInv, MappedTypes, RunInv, JournalInv, Executes, Started
<1>6. touched' = touched \/ (touched' = touched \cup {r} /\ Executes(r, Phases))
    BY DEF RunnerDies
<1>7. ranWith' = ranWith \/ (Mapped /\ ranWith' \subseteq journal.accepted)
    BY DEF RunnerDies
<1>8. UNCHANGED <<journal, current>>
    BY DEF RunnerDies
<1> QED BY <1>1, <1>2, <1>3, <1>4, <1>5, <1>6, <1>7, <1>8, RunStepKeeps

LEMMA ReceiveFrameKeeps ==
    ASSUME MappedInv, NEW r \in MappedRuns, ReceiveFrame(r) PROVE MappedInv'
<1>1. MappedTypes'
    BY DEF ReceiveFrame, InstanceStep, MappedInv, MappedTypes, RunSteps, Callers, MapOwners
<1>2. OthersKept(r) /\ LockMoves(r)
    BY MappingBounds DEF ReceiveFrame, InstanceStep, MappedInv, MappedTypes, OthersKept,
       LockMoves
<1>3. runner'[r] \in HoldingSteps => lockedBy' = r
    BY DEF ReceiveFrame, InstanceStep, MappedInv, MappedTypes, LockInv, HoldingSteps
<1>4. RunInv(r)'
    <2>1. /\ runner' = runner /\ container[r] = "waiting" /\ container'[r] = "app"
          /\ UNCHANGED <<journal, queued, pipe, informed>>
        BY DEF ReceiveFrame, InstanceStep, MappedInv, MappedTypes
    <2> QED BY <2>1 DEF MappedInv, RunInv, Started, Executes, Mapped
<1>5. Executes(r, Phases) /\ container'[r] # "none" => maps'[r] = journal.pending.active
    BY DEF ReceiveFrame, InstanceStep, MappedInv, MappedTypes, RunInv, JournalInv, Executes,
       Started
<1>6. touched' = touched \/ (touched' = touched \cup {r} /\ Executes(r, Phases))
    BY DEF ReceiveFrame, InstanceStep
<1>7. ranWith' = ranWith \/ (Mapped /\ ranWith' \subseteq journal.accepted)
    <2>1. Executes(r, {"release-attempted"}) /\ container[r] = "waiting" /\ ranWith' = ranWith \cup maps[r]
        BY DEF ReceiveFrame, InstanceStep, MappedInv, RunInv
    <2>2. maps[r] = journal.pending.active
        BY <2>1 DEF MappedInv, JournalInv, Executes
    <2>3. journal.pending.active \subseteq journal.accepted
        BY <2>1, MappedTyped DEF Executes, ValidMapping, ValidNative
    <2> QED BY <2>1, <2>2, <2>3 DEF MappedInv, Executes
<1>8. UNCHANGED <<journal, current>>
    BY DEF ReceiveFrame, InstanceStep
<1> QED BY <1>1, <1>2, <1>3, <1>4, <1>5, <1>6, <1>7, <1>8, RunStepKeeps

LEMMA GiveUpWaitingForFrameKeeps ==
    ASSUME MappedInv, NEW r \in MappedRuns, GiveUpWaitingForFrame(r) PROVE MappedInv'
<1>1. MappedTypes'
    BY DEF GiveUpWaitingForFrame, InstanceStep, MappedInv, MappedTypes, RunSteps, Callers,
       MapOwners
<1>2. OthersKept(r) /\ LockMoves(r)
    BY MappingBounds DEF GiveUpWaitingForFrame, InstanceStep, MappedInv, MappedTypes,
       OthersKept, LockMoves
<1>3. runner'[r] \in HoldingSteps => lockedBy' = r
    BY DEF GiveUpWaitingForFrame, InstanceStep, MappedInv, MappedTypes, LockInv, HoldingSteps
<1>4. RunInv(r)'
    BY MappingBounds DEF GiveUpWaitingForFrame, InstanceStep, MappedInv, MappedTypes, RunInv,
       LockInv, HoldingSteps, Started, Executes, Mapped, Pending, NoEntry, NoOne
<1>5. Executes(r, Phases) /\ container'[r] # "none" => maps'[r] = journal.pending.active
    BY DEF GiveUpWaitingForFrame, InstanceStep, MappedInv, MappedTypes, RunInv, JournalInv,
       Executes, Started
<1>6. touched' = touched \/ (touched' = touched \cup {r} /\ Executes(r, Phases))
    BY DEF GiveUpWaitingForFrame, InstanceStep
<1>7. ranWith' = ranWith \/ (Mapped /\ ranWith' \subseteq journal.accepted)
    BY DEF GiveUpWaitingForFrame, InstanceStep
<1>8. UNCHANGED <<journal, current>>
    BY DEF GiveUpWaitingForFrame, InstanceStep
<1> QED BY <1>1, <1>2, <1>3, <1>4, <1>5, <1>6, <1>7, <1>8, RunStepKeeps

LEMMA ApplicationEndsKeeps ==
    ASSUME MappedInv, NEW r \in MappedRuns, ApplicationEnds(r) PROVE MappedInv'
<1>1. MappedTypes'
    BY DEF ApplicationEnds, InstanceStep, MappedInv, MappedTypes, RunSteps, Callers, MapOwners
<1>2. OthersKept(r) /\ LockMoves(r)
    BY MappingBounds DEF ApplicationEnds, InstanceStep, MappedInv, MappedTypes, OthersKept,
       LockMoves
<1>3. runner'[r] \in HoldingSteps => lockedBy' = r
    BY DEF ApplicationEnds, InstanceStep, MappedInv, MappedTypes, LockInv, HoldingSteps
<1>4. RunInv(r)'
    BY MappingBounds DEF ApplicationEnds, InstanceStep, MappedInv, MappedTypes, RunInv, LockInv,
       HoldingSteps, Started, Executes, Mapped, Pending, NoEntry, NoOne
<1>5. Executes(r, Phases) /\ container'[r] # "none" => maps'[r] = journal.pending.active
    BY DEF ApplicationEnds, InstanceStep, MappedInv, MappedTypes, RunInv, JournalInv, Executes,
       Started
<1>6. touched' = touched \/ (touched' = touched \cup {r} /\ Executes(r, Phases))
    BY DEF ApplicationEnds, InstanceStep
<1>7. ranWith' = ranWith \/ (Mapped /\ ranWith' \subseteq journal.accepted)
    BY DEF ApplicationEnds, InstanceStep
<1>8. UNCHANGED <<journal, current>>
    BY DEF ApplicationEnds, InstanceStep
<1> QED BY <1>1, <1>2, <1>3, <1>4, <1>5, <1>6, <1>7, <1>8, RunStepKeeps

LEMMA RecoverEntryKeeps ==
    ASSUME MappedInv, NEW r \in MappedRuns, RecoverEntry(r) PROVE MappedInv'
<1>1. MappedTypes'
    BY DEF RecoverEntry, MappedInv, MappedTypes, RunSteps, Callers, MapOwners
<1>2. OthersKept(r) /\ LockMoves(r)
    BY MappingBounds DEF RecoverEntry, MappedInv, MappedTypes, OthersKept, LockMoves
<1>3. runner'[r] \in HoldingSteps => lockedBy' = r
    BY DEF RecoverEntry, MappedInv, MappedTypes, LockInv, HoldingSteps
<1>4. RunInv(r)'
    BY MappingBounds DEF RecoverEntry, MappedInv, MappedTypes, RunInv, LockInv, HoldingSteps,
       Started, Executes, Mapped, Pending, NoEntry, NoOne
<1>5. Executes(r, Phases) /\ container'[r] # "none" => maps'[r] = journal.pending.active
    BY DEF RecoverEntry, MappedInv, MappedTypes, RunInv, JournalInv, Executes, Started
<1>6. touched' = touched \/ (touched' = touched \cup {r} /\ Executes(r, Phases))
    BY DEF RecoverEntry
<1>7. ranWith' = ranWith \/ (Mapped /\ ranWith' \subseteq journal.accepted)
    BY DEF RecoverEntry
<1>8. UNCHANGED <<journal, current>>
    BY DEF RecoverEntry
<1> QED BY <1>1, <1>2, <1>3, <1>4, <1>5, <1>6, <1>7, <1>8, RunStepKeeps

LEMMA RetireLeftoverKeeps ==
    ASSUME MappedInv, NEW r \in MappedRuns, RetireLeftover(r) PROVE MappedInv'
<1>1. MappedTypes'
    BY DEF RetireLeftover, MappedInv, MappedTypes, RunSteps, Callers, MapOwners
<1>2. OthersKept(r) /\ LockMoves(r)
    BY MappingBounds DEF RetireLeftover, MappedInv, MappedTypes, OthersKept, LockMoves
<1>3. runner'[r] \in HoldingSteps => lockedBy' = r
    BY DEF RetireLeftover, MappedInv, MappedTypes, LockInv, HoldingSteps
<1>4. RunInv(r)'
    BY MappingBounds DEF RetireLeftover, MappedInv, MappedTypes, RunInv, LockInv, HoldingSteps,
       Started, Executes, Mapped, Pending, NoEntry, NoOne
<1>5. Executes(r, Phases) /\ container'[r] # "none" => maps'[r] = journal.pending.active
    BY DEF RetireLeftover, MappedInv, MappedTypes, RunInv, JournalInv, Executes, Started
<1>6. touched' = touched \/ (touched' = touched \cup {r} /\ Executes(r, Phases))
    BY DEF RetireLeftover
<1>7. ranWith' = ranWith \/ (Mapped /\ ranWith' \subseteq journal.accepted)
    BY DEF RetireLeftover
<1>8. UNCHANGED <<journal, current>>
    BY DEF RetireLeftover
<1> QED BY <1>1, <1>2, <1>3, <1>4, <1>5, <1>6, <1>7, <1>8, RunStepKeeps

-----------------------------------------------------------------------------
\* A step of run r that changes the journal: the grant and the retirement.
LEMMA RunChangeKeeps ==
    ASSUME MappedInv, NEW r \in MappedRuns, NEW next \in MapJournals, NEW certain \in BOOLEAN,
           Change(r, next, certain),
           UNCHANGED <<current, queued, container, maps, pipe, touched, ranWith>>,
           lockedBy' \in {lockedBy, NoOne}, OthersKept(r),
           runner' \in [MappedRuns -> RunSteps],
           runner'[r] \in HoldingSteps => lockedBy' = r, RunInv(r)',
           next.pending.kind # "none" => PendingIntact(journal)',
           Mapped, journal.accepted \subseteq next.accepted, journal.storage \subseteq next.storage,
           Covers(next, touched),
           next.pending.kind = "native-execute" =>
               /\ next.pending.id \in MappedRuns
               /\ container[next.pending.id] # "none" =>
                    maps[next.pending.id] = next.pending.active,
           \A q \in MappedRuns \ {r} :
               container[q] = "waiting" => ~Executes(q, {"release-attempted"})
    PROVE  MappedInv'
<1>2. /\ journal' \in MapJournals /\ Mapped' /\ ValidMapping(journal')
      /\ journal'.revision \in 1 .. MaxRevision /\ journal'.accepted = next.accepted
      /\ journal'.storage = next.storage /\ journal'.pending = next.pending
      /\ informed' \subseteq {r} /\ HoldsLock(r)
    BY ChangeWrites
<1>3. lockedBy = r
    BY <1>2, MappingBounds DEF HoldsLock
<1>4. \A q \in MappedRuns \ {r} : runner[q] \notin HoldingSteps /\ runner'[q] = runner[q]
    BY <1>3 DEF MappedInv, LockInv, OthersKept
<1>5. MappedTypes'
    BY <1>2, <1>3 DEF MappedInv, MappedTypes, Callers
<1>6. JournalInv'
    BY <1>2 DEF JournalInv, ValidMapping, ValidNative
<1>7. LockInv'
    BY <1>4 DEF LockInv
<1>8. ASSUME NEW q \in MappedRuns PROVE RunInv(q)'
    <2>1. CASE q # r
        BY <1>2, <1>4, <2>1 DEF MappedInv, RunInv, HoldingSteps
    <2> QED BY <2>1
<1>9. (ranWith # {} => Mapped /\ ranWith \subseteq journal.accepted)'
    BY <1>2 DEF MappedInv
<1>10. EffectsOnRecord'
    BY <1>2 DEF EffectsOnRecord, Covers
<1> QED BY <1>5, <1>6, <1>7, <1>8, <1>9, <1>10 DEF MappedInv

LEMMA AdmittedParts ==
    ASSUME NEW m \in MapJournals, m.pending \in MapOperations
    PROVE  LET n == Admitted(m) IN
           /\ n \in MapJournals /\ n.schema = m.schema /\ n.profile = m.profile
           /\ n.revision = m.revision /\ n.storage = m.storage
           /\ n.reserved = m.reserved \cup m.pending.candidate
           /\ n.accepted = m.accepted \cup m.pending.active
           /\ n.pending \in MapOperations /\ n.pending.phase = "release-attempted"
           /\ n.pending.kind = m.pending.kind /\ n.pending.id = m.pending.id
           /\ n.pending.candidate = m.pending.candidate /\ n.pending.active = m.pending.active
           /\ n.pending.generation = m.pending.generation
<1> DEFINE p == m.pending
           q == [p EXCEPT !.phase = "release-attempted"]
           o == [q EXCEPT !.expectedRevision = m.revision + 1]
           reserved == m.reserved \cup p.candidate
           accepted == m.accepted \cup p.active
           dormant == (m.accepted \cup p.active) \ p.active
           a == [m EXCEPT !.reserved = reserved]
           b == [a EXCEPT !.accepted = accepted]
           c == [b EXCEPT !.dormant = dormant]
           d == [c EXCEPT !.admitted = p.generation]
           e == [d EXCEPT !.process = p.id]
<1>1. /\ reserved \in SUBSET Bindings /\ accepted \in SUBSET Bindings /\ dormant \in SUBSET Bindings
      /\ p.generation \in MapGenerations /\ p.id \in MapOwners /\ m.revision + 1 \in Nat
    BY DEF MapJournals, MapOperations
<1>2. Admitted(m) = [e EXCEPT !.pending = o]
    BY DEF Admitted, MapJournals, MapOperations
<1> HIDE DEF reserved, accepted, dormant
<1>3. /\ q \in MapOperations /\ q.phase = "release-attempted" /\ q.kind = p.kind /\ q.id = p.id
      /\ q.candidate = p.candidate /\ q.active = p.active /\ q.generation = p.generation
    BY DEF MapOperations, Phases
<1> HIDE DEF q
<1>4. /\ o \in MapOperations /\ o.phase = "release-attempted" /\ o.kind = p.kind /\ o.id = p.id
      /\ o.candidate = p.candidate /\ o.active = p.active /\ o.generation = p.generation
    BY <1>1, <1>3 DEF MapOperations
<1> HIDE DEF o
<1>5. /\ a \in MapJournals /\ a.schema = m.schema /\ a.profile = m.profile /\ a.revision = m.revision
      /\ a.storage = m.storage /\ a.reserved = reserved /\ a.accepted = m.accepted
    BY <1>1 DEF MapJournals
<1> HIDE DEF a
<1>6. /\ b \in MapJournals /\ b.schema = m.schema /\ b.profile = m.profile /\ b.revision = m.revision
      /\ b.storage = m.storage /\ b.reserved = reserved /\ b.accepted = accepted
    BY <1>1, <1>5 DEF MapJournals
<1> HIDE DEF b
<1>7. /\ c \in MapJournals /\ c.schema = m.schema /\ c.profile = m.profile /\ c.revision = m.revision
      /\ c.storage = m.storage /\ c.reserved = reserved /\ c.accepted = accepted
    BY <1>1, <1>6 DEF MapJournals
<1> HIDE DEF c
<1>8. /\ d \in MapJournals /\ d.schema = m.schema /\ d.profile = m.profile /\ d.revision = m.revision
      /\ d.storage = m.storage /\ d.reserved = reserved /\ d.accepted = accepted
    BY <1>1, <1>7 DEF MapJournals
<1> HIDE DEF d
<1>9. /\ e \in MapJournals /\ e.schema = m.schema /\ e.profile = m.profile /\ e.revision = m.revision
      /\ e.storage = m.storage /\ e.reserved = reserved /\ e.accepted = accepted
    BY <1>1, <1>8 DEF MapJournals
<1> HIDE DEF e
<1> QED BY <1>2, <1>4, <1>9, PendingReplaced DEF reserved, accepted

\* A plan stays a plan when its candidate has been reserved and its active
\* bindings accepted.
LEMMA PlanOutlivesGrant ==
    ASSUME NEW m, NEW n, NEW candidate, NEW g, Plannable(m, candidate, g),
           n.profile = m.profile, n.reserved = m.reserved \cup candidate,
           n.accepted = m.accepted \cup ActiveMap(m.profile, candidate, g)
    PROVE  Plannable(n, candidate, g)
<1> DEFINE active == ActiveMap(m.profile, candidate, g)
<1>1. /\ PolicyIDs[g] \subseteq Containers(candidate)
      /\ Retainable(m.profile, candidate, m.reserved) /\ Retainable(m.profile, active, m.accepted)
      /\ candidate \subseteq active \cup m.accepted
    BY DEF Plannable
<1> HIDE DEF active
<1>2. ASSUME NEW x, NEW y, Retainable(m.profile, x, y) PROVE Retainable(m.profile, x, y \cup x)
    <2>1. x \cup (y \cup x) = x \cup y
        OBVIOUS
    <2>2. CASE m.profile = "bounded" /\ y # {}
        BY <1>2, <2>2 DEF Retainable
    <2>3. CASE ~(m.profile = "bounded" /\ y # {})
        <3>1. OneToOne(x \cup y)
            BY <1>2, <2>3 DEF Retainable
        <3>2. CASE m.profile = "bounded"
            <4>1. y \cup x = x
                BY <2>3, <3>2
            <4>2. x \cup x = x \cup y
                BY <2>3, <3>2
            <4> QED BY <3>1, <4>1, <4>2 DEF Retainable
        <3>3. CASE m.profile # "bounded"
            BY <2>1, <3>1, <3>3 DEF Retainable
        <3> QED BY <3>2, <3>3
    <2> QED BY <2>2, <2>3
<1>3. Retainable(n.profile, candidate, n.reserved)
    BY <1>1, <1>2
<1>4. ActiveMap(n.profile, candidate, g) = active
    BY DEF active
<1>5. Retainable(n.profile, active, n.accepted)
    BY <1>1, <1>2 DEF active
<1>6. candidate \subseteq active \cup n.accepted
    BY <1>1
<1> QED BY <1>1, <1>3, <1>4, <1>5, <1>6 DEF Plannable

LEMMA AdmitKeeps ==
    ASSUME MappedInv, NEW r \in MappedRuns, AdmitNativeExecution(r) PROVE MappedInv'
<1> DEFINE next == Admitted(journal)
<1>1. /\ runner[r] = "recorded" /\ Pending("effects-pending")
      /\ UNCHANGED <<current, lockedBy, queued, container, maps, pipe, touched, ranWith>>
    BY DEF AdmitNativeExecution
<1>2. PICK certain \in BOOLEAN :
        /\ Change(r, next, certain)
        /\ runner' = [runner EXCEPT ![r] = IF certain THEN "granted" ELSE "failing"]
    BY DEF AdmitNativeExecution
<1>3. /\ journal \in MapJournals /\ journal.pending \in MapOperations
      /\ Executes(r, {"effects-pending"}) /\ container[r] # "none" /\ pipe[r] = "open"
    BY <1>1, PendingParts DEF MappedInv, RunInv, Started
<1>4. /\ next \in MapJournals /\ next.profile = journal.profile /\ next.storage = journal.storage
      /\ next.reserved = journal.reserved \cup journal.pending.candidate
      /\ next.accepted = journal.accepted \cup journal.pending.active
      /\ next.pending \in MapOperations /\ next.pending.phase = "release-attempted"
      /\ next.pending.kind = journal.pending.kind /\ next.pending.id = journal.pending.id
      /\ next.pending.candidate = journal.pending.candidate
      /\ next.pending.active = journal.pending.active
      /\ next.pending.generation = journal.pending.generation
    BY <1>3, AdmittedParts
<1> HIDE DEF next
<1>5. /\ journal'.pending = next.pending /\ journal'.profile = next.profile
      /\ journal'.reserved = next.reserved /\ journal'.accepted = next.accepted /\ Mapped'
      /\ HoldsLock(r)
    BY <1>2, <1>4, ChangeWrites
<1>6. lockedBy = r
    BY <1>5, MappingBounds DEF HoldsLock
<1>7. /\ journal.pending.kind = "native-execute" /\ journal.pending.id = r /\ Mapped
      /\ journal.pending.generation = current
      /\ Plannable(journal, journal.pending.candidate, current)
      /\ ActiveMap(journal.profile, journal.pending.candidate, current) = journal.pending.active
      /\ maps[r] = journal.pending.active /\ touched \subseteq journal.storage \cup {r}
    BY <1>1, <1>3, PendingParts DEF Executes
<1>8. Plannable(journal', journal.pending.candidate, current)
    BY <1>4, <1>5, <1>7, PlanOutlivesGrant
<1>9. PendingIntact(journal)'
    BY <1>1, <1>4, <1>5, <1>7, <1>8 DEF PendingIntact
<1>10. runner'[r] \in {"granted", "failing"} /\ runner' \in [MappedRuns -> RunSteps]
       /\ \A q \in MappedRuns \ {r} : runner'[q] = runner[q]
    <2>1. runner \in [MappedRuns -> RunSteps]
        BY DEF MappedInv, MappedTypes
    <2> QED BY <1>2, <2>1 DEF RunSteps
<1>11. OthersKept(r)
    <2>1. informed' \subseteq {r}
        BY <1>2, <1>4, ChangeWrites
    <2> QED BY <1>1, <1>10, <2>1 DEF OthersKept
<1>12. RunInv(r)'
    <2>1. RunInv(r)
        BY DEF MappedInv
    <2>2. Executes(r, {"release-attempted"})'
        BY <1>4, <1>5, <1>7 DEF Executes
    <2> QED BY <1>1, <1>3, <1>10, <2>1, <2>2 DEF RunInv, Started
<1>13. \A q \in MappedRuns \ {r} : ~Executes(q, {"release-attempted"})
    BY <1>7 DEF Executes
<1>14. Covers(next, touched)
    BY <1>4, <1>7 DEF Covers
<1> QED BY <1>1, <1>2, <1>4, <1>6, <1>7, <1>9, <1>10, <1>11, <1>12, <1>13, <1>14, RunChangeKeeps

LEMMA RetireRunKeeps ==
    ASSUME MappedInv, NEW r \in MappedRuns, RetireRun(r) PROVE MappedInv'
<1> DEFINE next == Recovered(journal)
<1>1. /\ runner[r] = "retiring" /\ NativeRecoverable
      /\ UNCHANGED <<current, queued, container, maps, pipe, touched, ranWith>>
    BY DEF RetireRun
<1>2. PICK certain \in BOOLEAN :
        /\ Change(r, next, certain)
        /\ runner' = [runner EXCEPT ![r] = IF certain THEN "leaving" ELSE "over"]
        /\ lockedBy' = IF certain THEN lockedBy ELSE NoOne
    BY DEF RetireRun
<1>3. PICK phase : Pending(phase)
    BY <1>1 DEF NativeRecoverable
<1>4. /\ Mapped /\ journal \in MapJournals /\ journal.pending \in MapOperations
      /\ touched \subseteq journal.storage \cup {journal.pending.id}
      /\ journal.pending.id = r /\ container[r] = "gone"
    BY <1>1, <1>3, PendingParts DEF MappedInv, RunInv
<1>5. /\ next \in MapJournals /\ next.storage = journal.storage \cup {r}
      /\ next.accepted = journal.accepted /\ next.pending = NoOperation
    BY <1>4, RecoveredParts
<1> HIDE DEF next
<1>6. NoOperation.kind = "none"
    BY DEF NoOperation
<1>7. /\ journal'.storage = next.storage /\ Mapped' /\ HoldsLock(r) /\ informed' \subseteq {r}
    BY <1>2, <1>5, ChangeWrites
<1>8. lockedBy = r
    BY <1>7, MappingBounds DEF HoldsLock
<1>9. runner'[r] = (IF certain THEN "leaving" ELSE "over") /\ runner' \in [MappedRuns -> RunSteps]
       /\ \A q \in MappedRuns \ {r} : runner'[q] = runner[q]
    BY <1>2 DEF MappedInv, MappedTypes, RunSteps
<1>10. runner'[r] \in {"leaving", "over"}
       /\ (runner'[r] \in HoldingSteps => lockedBy' = r) /\ lockedBy' \in {lockedBy, NoOne}
    BY <1>2, <1>8, <1>9 DEF HoldingSteps
<1>11. OthersKept(r)
    BY <1>1, <1>7, <1>9 DEF OthersKept
<1>12. RunInv(r)'
    BY <1>1, <1>4, <1>5, <1>7, <1>10 DEF RunInv, MappedInv, Started
<1>13. Covers(next, touched)
    BY <1>4, <1>5, <1>6 DEF Covers
<1> QED BY <1>1, <1>2, <1>4, <1>5, <1>6, <1>9, <1>10, <1>11, <1>12, <1>13, RecoverableIsQuiet,
           RunChangeKeeps

-----------------------------------------------------------------------------
LEMMA MappedStarts == MappedInit => MappedInv
<1> SUFFICES ASSUME NEW g \in MapGenerations, MappingOf(g) PROVE MappedInv
    BY DEF MappedInit
<1>1. ~Mapped
    BY DEF MappingOf, Mapped
<1>2. MappedTypes
    BY DEF MappingOf, MappedTypes, RunSteps
<1>3. \A r \in MappedRuns : RunInv(r)
    BY DEF MappingOf, RunInv, Started
<1> QED BY <1>1, <1>2, <1>3 DEF MappedInv, JournalInv, LockInv, EffectsOnRecord, MappingOf,
           HoldingSteps

LEMMA MappedStutters == ASSUME MappedInv, UNCHANGED mappedVars PROVE MappedInv'
<1>1. UNCHANGED <<journal, current, lockedBy, informed, queued, container, maps, pipe, runner,
                  touched, ranWith>>
    BY DEF mappedVars
<1>2. ASSUME NEW r \in MappedRuns PROVE RunInv(r)'
    BY <1>1 DEF MappedInv, RunInv, Executes, Mapped
<1>3. MappedTypes'
    BY <1>1 DEF MappedInv, MappedTypes
<1> QED BY <1>1, <1>2, <1>3 DEF MappedInv, JournalInv, LockInv, EffectsOnRecord, Mapped,
           PendingIntact

LEMMA MappedStep == MappedInv /\ [MappedNext]_mappedVars => MappedInv'
<1> SUFFICES ASSUME MappedInv, [MappedNext]_mappedVars PROVE MappedInv'
    OBVIOUS
<1>1. CASE OperatorNext
    BY <1>1, ObserveMappingKeeps, CommitKeeps, UpgradeKeeps, BeginEffectsKeeps,
       CancelIntentKeeps,
       VerifyConfigurationKeeps, AcceptConfigurationKeeps, RecoverNativeKeeps, PrepareStorageKeeps,
       RebuildKeeps, ConfigureKeeps, PrepareNativeKeeps
       DEF OperatorNext
<1>2. ASSUME NEW r \in MappedRuns, RunNext(r) PROVE MappedInv'
    BY <1>2, EnterQueueKeeps, ConstructPlanKeeps, BeginRunKeeps, RefuseRunKeeps,
       CreateInstanceKeeps,
       AttachInstanceKeeps, RecordInstanceKeeps, AdmitKeeps, SendFrameKeeps, StartupFailsKeeps,
       UnlockAttachedKeeps, StopWaitingKeeps, CloseInstanceKeeps, ResumeRunKeeps, RetireRunKeeps,
       LeaveQueueKeeps, RunnerDiesKeeps, ReceiveFrameKeeps, GiveUpWaitingForFrameKeeps,
       ApplicationEndsKeeps, RecoverEntryKeeps, RetireLeftoverKeeps
       DEF RunNext
<1>3. CASE UNCHANGED mappedVars
    BY <1>3, MappedStutters
<1> QED BY <1>1, <1>2, <1>3 DEF MappedNext

\* What is part of a one-to-one geometry is one-to-one.
LEMMA OneToOnePart == ASSUME NEW g, NEW h \in SUBSET g, OneToOne(g) PROVE OneToOne(h)
BY DEF OneToOne

\* A candidate that may be retained beside the reserved bindings is one-to-one with them.
LEMMA RetainedUnion ==
    ASSUME NEW profile, NEW candidate, NEW reserved, OneToOne(reserved),
           Retainable(profile, candidate, reserved)
    PROVE  OneToOne(candidate \cup reserved)
<1>1. CASE profile = "bounded" /\ reserved # {}
    <2>1. candidate \cup reserved = reserved
        BY <1>1 DEF Retainable
    <2> QED BY <2>1
<1>2. CASE ~(profile = "bounded" /\ reserved # {})
    BY <1>2 DEF Retainable
<1> QED BY <1>1, <1>2

\* Validation accepts the journal of a recovered operation.
LEMMA RecoveryIsValid ==
    ASSUME MappedInv, Mapped, journal.pending.kind # "none"
    PROVE  ValidMapping([Recovered(journal) EXCEPT !.revision = @ + 1])
<1> DEFINE n == Recovered(journal)
           w == [n EXCEPT !.revision = n.revision + 1]
<1>1. /\ journal \in MapJournals /\ journal.pending \in MapOperations /\ ValidMapping(journal)
    BY MappedTyped
<1>2. /\ n \in MapJournals /\ n.pending = NoOperation
      /\ n.reserved = journal.reserved \cup journal.pending.candidate
      /\ n.accepted = journal.accepted /\ n.dormant = journal.dormant
      /\ n.schema = journal.schema /\ n.profile = journal.profile
      /\ n.admitted = journal.admitted /\ n.process = journal.process
    BY <1>1, RecoveredParts
<1> HIDE DEF n
<1>3. /\ w.pending = NoOperation
      /\ w.reserved = journal.reserved \cup journal.pending.candidate
      /\ w.accepted = journal.accepted /\ w.dormant = journal.dormant
      /\ w.schema = journal.schema /\ w.profile = journal.profile
      /\ w.admitted = journal.admitted /\ w.process = journal.process
    BY <1>2 DEF MapJournals
<1> HIDE DEF w
<1>4. NoOperation.kind = "none"
    BY DEF NoOperation
<1>5. OneToOne(journal.reserved)
      /\ Retainable(journal.profile, journal.pending.candidate, journal.reserved)
    BY <1>1 DEF ValidMapping
<1>6. OneToOne(w.reserved)
    BY <1>3, <1>5, RetainedUnion
<1>7. ASSUME journal.schema = 2 PROVE ValidNative(w)
    <2>1. ValidNative(journal)
        BY <1>1, <1>7 DEF ValidMapping
    <2>2. journal.accepted # {} /\ journal.profile = "bounded" => w.accepted = w.reserved
        BY <1>3, <1>5, <2>1 DEF ValidNative, Retainable
    <2> QED BY <1>3, <1>4, <2>1, <2>2 DEF ValidNative
<1>8. ValidMapping(w)
    BY <1>1, <1>3, <1>4, <1>6, <1>7 DEF ValidMapping
<1> QED BY <1>8 DEF w, n

LEMMA MappedInvSound == MappedInv => MappingSound
<1> SUFFICES ASSUME MappedInv PROVE MappingSound
    OBVIOUS
<1>1. MappedTypeOK
    BY MappedTyped DEF MappedInv, MappedTypes, MappedTypeOK, MapOwners
<1>2. FrameGranted
    <2> SUFFICES ASSUME NEW r \in MappedRuns, container[r] = "waiting", pipe[r] = "framed"
                 PROVE  Pending("release-attempted") /\ journal.pending.id = r
        BY DEF FrameGranted
    <2>1. Executes(r, {"release-attempted"})
        BY DEF MappedInv, RunInv
    <2> QED BY <2>1, MappedTyped DEF Executes, Pending
<1>3. IdentitiesKept
    <2>1. ranWith # {} => Mapped /\ ranWith \subseteq journal.accepted
        BY DEF MappedInv
    <2>2. ASSUME Mapped PROVE journal.accepted \subseteq journal.reserved /\ OneToOne(journal.reserved)
        BY <2>2, MappedTyped DEF ValidMapping, ValidNative
    <2>3. ASSUME Mapped PROVE OneToOne(journal.reserved \cup ranWith)
        <3>1. journal.reserved \cup ranWith = journal.reserved
            BY <2>1, <2>2, <2>3
        <3> QED BY <2>2, <2>3, <3>1
    <2>4. ASSUME Mapped, journal.pending.kind # "none"
          PROVE  OneToOne(journal.pending.candidate \cup ranWith)
        <3>1. Retainable(journal.profile, journal.pending.candidate, journal.reserved)
            BY <2>4, MappedTyped DEF ValidMapping
        <3>2. OneToOne(journal.pending.candidate \cup journal.reserved)
            BY <2>2, <2>4, <3>1, RetainedUnion
        <3>3. journal.pending.candidate \cup ranWith
                \in SUBSET (journal.pending.candidate \cup journal.reserved)
            BY <2>1, <2>2, <2>4
        <3> QED BY <3>2, <3>3, OneToOnePart
    <2> QED BY <2>1, <2>2, <2>3, <2>4 DEF IdentitiesKept
<1>4. AlwaysRecoverable
    BY MappedTyped, RecoveryIsValid DEF AlwaysRecoverable
<1>5. CompletionHonest
    BY DEF CompletionHonest, MappedInv, RunInv
<1> QED BY <1>1, <1>2, <1>3, <1>4, <1>5 DEF MappingSound, MappedInv

\* In every behaviour of the identity mapping and the runs mapped through it, for every
\* number of runs, generations, bindings and revisions: a frame is sent only under a granted
\* release, every effect is on record, the identities processes ran with stay reserved and
\* one-to-one, whatever is pending can be recovered, and a run reported complete is over
\* (PrepareNativeExecution, AdmitNativeExecution, Recover and
\* runMappedLiveInstanceWithBackendV1).
THEOREM MappingStaysSound == MappedSpec => []MappingSound
<1>1. MappedSpec => []MappedInv
    BY MappedStarts, MappedStep, PTL DEF MappedSpec
<1> QED BY <1>1, MappedInvSound, PTL

-----------------------------------------------------------------------------
(* The preparation of a node: the inductive invariant                       *)

\* The stages of an apt node, of a Python node, and of the helper session around them.
AptStages ==
    {"probe", "refresh", "plan", "base", "download", "inventory", "inspect", "publish", "manifest"}
BuildStages == {"sdist", "retain", "wheel", "wheels"}
PythonStages ==
    {"select", "resolve", "closure", "observe", "snapshot", "builder", "stop", "ingest"}
        \cup BuildStages
SessionStages == {"workspace", "create", "start", "cached", "fresh", "close", "sweep", "returned"}
EndStages == {"close", "sweep", "returned"}

\* Files of the archive directory, and of the wheelhouse.
Archives == [deb : Debs, version : {1, 2}, origin : {"seed", "new"}, body : {0, 1}]
Wheels(kinds) == [dist : Locals, kind : kinds, digest : Nat, tree : Nat]

PrepTypes ==
    /\ node \in {"apt", "python"}
    /\ stage \in SessionStages \cup AptStages \cup PythonStages \cup {"builderClose"}
    /\ outcome \in {"none", "cached", "fresh", "failed"}
    /\ hasCached \in BOOLEAN /\ cachedFits \in BOOLEAN /\ aborted \in BOOLEAN
    /\ helper \in {"none", "created", "running", "killed"}
    /\ builder \in {"none", "running", "left"}
    /\ builderRoom \in BOOLEAN /\ builderImage \in BOOLEAN /\ builderLost \in BOOLEAN
    /\ room \in BOOLEAN /\ rmFailed \in BOOLEAN /\ ambiguous \in BOOLEAN

\* Every edit of a checkout is one of the counted ones.
TouchInv ==
    /\ touches \in 0..MaxTouches /\ checkout \in [Locals -> Nat]
    /\ \A d \in Locals : checkout[d] <= touches

\* The helper session: what exists at each stage, and that whatever is left behind at the
\* end was reported as a failure.
SessionInv ==
    /\ stage \in AptStages => node = "apt"
    /\ stage \in PythonStages \cup {"builderClose"} => node = "python"
    /\ stage = "workspace" => helper = "none" /\ ~room
    /\ stage = "create" => helper = "none"
    /\ stage = "start" => helper = "created"
    /\ stage \in {"workspace", "create", "start", "cached", "fresh"} \cup AptStages \cup PythonStages =>
         outcome = "none" /\ ~rmFailed /\ ~ambiguous
    /\ stage \notin {"workspace", "sweep", "returned"} => room
    /\ stage = "ingest" => helper = "killed"
    /\ stage = "builderClose" => outcome \in {"none", "failed"} /\ ~rmFailed /\ ~ambiguous
    /\ builder = "running" => stage \in {"builderClose"} \cup BuildStages
    /\ stage = "builderClose" => builder = "running"
    /\ builder = "running" <=> builderRoom
    /\ builder = "running" => builderImage
    /\ builder = "left" => outcome = "failed" /\ stage \in EndStages /\ (rmFailed \/ builderLost)
    /\ builderImage => builder = "running" \/ outcome = "failed"
    /\ builderLost => builder = "left"
    /\ rmFailed => outcome = "failed"
    /\ ambiguous => outcome = "failed" /\ stage \in EndStages
    /\ stage \in {"sweep", "returned"} /\ ~ambiguous /\ helper # "none" => rmFailed
    /\ (helper # "none" /\ ~ambiguous) \/ (builder # "none" /\ ~builderLost) => room
    /\ stage = "returned" /\ room => rmFailed
    /\ outcome \in {"cached", "fresh"} => stage \in EndStages
    /\ CachedFits /\ (cachedFits => hasCached)

\* What InspectArchives has seen to: exactly one archive per selected package.
ExaminedIsPlan ==
    /\ examined = {f \in listing : Selected(f)}
    /\ \A d \in plan : Cardinality({f \in listing : Selected(f) /\ f.deb = d}) = 1

\* The apt node: only what was examined is stored, and from the publication on the
\* examined archives are those of the plan.
AptInv ==
    /\ shelf \subseteq Archives /\ listing \subseteq Archives /\ plan \subseteq Debs
    /\ stored \subseteq examined
    /\ stage \notin {"manifest"} \cup EndStages => stored = {}
    /\ stage = "manifest" => examined \subseteq stored
    /\ stage \in {"publish", "manifest"} \/ (node = "apt" /\ outcome = "fresh") =>
         ExaminedIsPlan
    /\ node = "apt" /\ outcome = "fresh" => manifest = examined /\ examined \subseteq stored

\* The built wheels: one per override, of a tree that was there when its digest was taken.
SourcesInv ==
    /\ sources \subseteq Wheels({"wheel"})
    /\ \A s \in sources : s.tree = s.digest /\ s.tree <= checkout[s.dist]
    /\ \A s, t \in sources : s.dist = t.dist => s = t

\* The digests of the overrides that are being built are of trees that were there.
TreesObserved == \A d \in want : observed[d] \in Nat /\ observed[d] <= checkout[d]

\* The wheelhouse: what the closure was inspected for, and between the observation and the
\* wheels, that what is built is what was observed.
HouseInv ==
    /\ want \subseteq Locals
    /\ wheelhouse \subseteq Wheels({"index", "sdist", "wheel"})
    /\ stage = "closure" => \A w \in wheelhouse : w \in sources \/ w.dist \notin Resolved
    /\ stage \in {"closure", "stop", "ingest"} \/ (node = "python" /\ outcome = "fresh") =>
          Direct \subseteq {w.dist : w \in wheelhouse}
    /\ stage \in {"stop", "ingest"} \/ (node = "python" /\ outcome = "fresh") =>
          wheelhouse \subseteq sources
    /\ stage \in {"snapshot", "builder"} \cup BuildStages => TreesObserved
    /\ stage \in {"builder"} \cup BuildStages => \A d \in want : copied[d] = observed[d]
    /\ stage = "wheels" =>
          \A w \in wheelhouse : /\ w.kind = "wheel" /\ w.dist \in want
                                /\ w.digest = observed[w.dist] /\ w.tree = copied[w.dist]

\* Each pass after the first follows an override that was not resolved before it.
PassInv ==
    /\ passes \in Nat /\ passes <= Cardinality(Resolved) + 1
    /\ stage \in {"workspace", "create", "start", "cached", "fresh", "select"} => passes = 0
    /\ stage = "resolve" \/ (stage = "builderClose" /\ outcome = "none") =>
         passes <= Cardinality(Resolved)
    /\ stage \in {"observe", "snapshot", "builder"} \cup BuildStages =>
         want # {} /\ want \cap Resolved = {}

\* The inductive invariant.
PrepInv ==
    PrepTypes /\ TouchInv /\ SessionInv /\ AptInv /\ SourcesInv /\ HouseInv /\ PassInv

-----------------------------------------------------------------------------
\* Who leaves the plan and the archives alone leaves the examination valid.
LEMMA ExaminedFrame ==
    ASSUME UNCHANGED <<plan, listing, examined>>, ExaminedIsPlan PROVE ExaminedIsPlan'
BY DEF ExaminedIsPlan, Selected

\* There are at most as many resolved overrides as overrides.
LEMMA ResolvedFinite ==
    ASSUME PrepInv
    PROVE  /\ Resolved \subseteq Locals /\ IsFiniteSet(Resolved) /\ Cardinality(Resolved) \in Nat
           /\ Cardinality(Resolved) <= Cardinality(Locals) /\ Cardinality(Locals) \in Nat
<1>1. Resolved \subseteq Locals
    BY DEF PrepInv, SourcesInv, Resolved, Wheels
<1> QED BY <1>1, PreparationBounds, FS_Subset, FS_CardinalityType

LEMMA ResolvedFrame == ASSUME UNCHANGED sources PROVE Resolved' = Resolved
BY DEF Resolved

LEMMA MakeRoomKeeps == ASSUME PrepInv, MakeRoom PROVE PrepInv'
<1> USE DEF PrepInv, MakeRoom, Goto, given, builderVars, aptVars, pythonVars, SessionStages, AptStages,
        BuildStages, PythonStages, EndStages
<1>1. PrepTypes'
    BY DEF PrepTypes
<1>2. TouchInv'
    BY DEF TouchInv
<1>3. SessionInv'
    BY DEF PrepTypes, SessionInv, CachedFits
<1>4. AptInv'
    BY ExaminedFrame DEF AptInv, SessionInv
<1>5. SourcesInv'
    BY DEF SourcesInv
<1>6. HouseInv'
    BY ResolvedFrame DEF HouseInv, SessionInv, TreesObserved
<1>7. PassInv'
    BY ResolvedFrame DEF PassInv
<1> QED BY <1>1, <1>2, <1>3, <1>4, <1>5, <1>6, <1>7

LEMMA CreateHelperKeeps == ASSUME PrepInv, CreateHelper PROVE PrepInv'
<1>1. PrepTypes'
    <2>1. stage = "create" /\ PrepTypes /\ builder # "running"
        BY DEF CreateHelper, PrepInv, SessionInv, BuildStages
    <2>2. Leave => stage' = "sweep" /\ outcome' = "failed"
        BY <2>1 DEF Leave
    <2>3. ambiguous' = ambiguous \/ ambiguous' = TRUE
        BY Zenon DEF CreateHelper
    <2>4. /\ stage' \in {"start", "sweep"} /\ outcome' \in {outcome, "failed"}
          /\ helper' \in {"none", "created"}
        BY <2>2 DEF CreateHelper, Goto
    <2>5. UNCHANGED <<node, hasCached, cachedFits, aborted, builderVars, room, rmFailed>>
        BY DEF CreateHelper, given
    <2>6. ambiguous' \in BOOLEAN
        BY <2>1, <2>3 DEF PrepTypes
    <2> QED BY <2>1, <2>4, <2>5, <2>6 DEF PrepTypes, SessionStages, builderVars
<1> USE DEF PrepInv, CreateHelper, Goto, Leave, given, builderVars, aptVars, pythonVars, SessionStages,
        AptStages, BuildStages, PythonStages, EndStages
<1>2. TouchInv'
    BY DEF TouchInv
<1>3. SessionInv'
    BY DEF PrepTypes, SessionInv, CachedFits
<1>4. AptInv'
    BY ExaminedFrame DEF AptInv, SessionInv
<1>5. SourcesInv'
    BY DEF SourcesInv
<1>6. HouseInv'
    BY ResolvedFrame DEF HouseInv, SessionInv, TreesObserved
<1>7. PassInv'
    BY ResolvedFrame DEF PassInv
<1> QED BY <1>1, <1>2, <1>3, <1>4, <1>5, <1>6, <1>7

LEMMA StartHelperKeeps == ASSUME PrepInv, StartHelper PROVE PrepInv'
<1>1. PrepTypes'
    <2>1. stage = "start" /\ PrepTypes /\ builder # "running"
        BY DEF StartHelper, PrepInv, SessionInv, BuildStages
    <2>2. Leave => stage' = "sweep" /\ outcome' = "failed"
        BY <2>1 DEF Leave
    <2>3. rmFailed' = rmFailed \/ rmFailed' = TRUE
        BY Zenon DEF StartHelper, RemoveHelper
    <2>4. outcome' \in {outcome, "failed"} /\ helper' \in {"none", "running", helper}
        BY <2>2 DEF StartHelper, RemoveHelper
    <2>5. stage' \in {"cached", "fresh", "sweep"}
        BY <2>2 DEF StartHelper, Goto
    <2>6. UNCHANGED <<node, hasCached, cachedFits, aborted, builderVars, room, ambiguous>>
        BY DEF StartHelper, given
    <2>7. rmFailed' \in BOOLEAN
        BY <2>1, <2>3 DEF PrepTypes
    <2> QED BY <2>1, <2>4, <2>5, <2>6, <2>7 DEF PrepTypes, SessionStages, builderVars
<1> USE DEF PrepInv, StartHelper, Goto, Leave, RemoveHelper, given, builderVars, aptVars, pythonVars,
        SessionStages, AptStages, BuildStages, PythonStages, EndStages
<1>2. TouchInv'
    BY DEF TouchInv
<1>3. SessionInv'
    BY DEF PrepTypes, SessionInv, CachedFits
<1>4. AptInv'
    BY ExaminedFrame DEF AptInv, SessionInv
<1>5. SourcesInv'
    BY DEF SourcesInv
<1>6. HouseInv'
    BY ResolvedFrame DEF HouseInv, SessionInv, TreesObserved
<1>7. PassInv'
    BY ResolvedFrame DEF PassInv
<1> QED BY <1>1, <1>2, <1>3, <1>4, <1>5, <1>6, <1>7

LEMMA ValidateCachedKeeps == ASSUME PrepInv, ValidateCached PROVE PrepInv'
<1> USE DEF PrepInv, ValidateCached, Goto, Leave, given, builderVars, aptVars, pythonVars, SessionStages,
        AptStages, BuildStages, PythonStages, EndStages
<1>1. PrepTypes'
    BY DEF PrepTypes
<1>2. TouchInv'
    BY DEF TouchInv
<1>3. SessionInv'
    <2>1. /\ stage = "cached"
          /\ UNCHANGED <<node, hasCached, cachedFits, helper, builderVars, room, rmFailed, ambiguous>>
        OBVIOUS
    <2>2. builder # "running"
        BY <2>1 DEF SessionInv
    <2>3. \/ cachedFits /\ outcome' = "cached" /\ stage' = "close"
          \/ outcome' = outcome /\ stage' = "fresh"
          \/ outcome' = "failed" /\ stage' = "close"
        BY <2>1, <2>2
    <2>4. cachedFits => hasCached
        BY DEF SessionInv
    <2> QED BY <2>1, <2>3, <2>4 DEF PrepTypes, SessionInv, CachedFits
<1>4. AptInv'
    BY ExaminedFrame DEF AptInv, SessionInv
<1>5. SourcesInv'
    BY DEF SourcesInv
<1>6. HouseInv'
    BY ResolvedFrame DEF HouseInv, SessionInv, TreesObserved
<1>7. PassInv'
    BY ResolvedFrame DEF PassInv
<1> QED BY <1>1, <1>2, <1>3, <1>4, <1>5, <1>6, <1>7

LEMMA ResolveFreshKeeps == ASSUME PrepInv, ResolveFresh PROVE PrepInv'
<1> USE DEF PrepInv, ResolveFresh, Goto, given, builderVars, aptVars, pythonVars, SessionStages, AptStages,
        BuildStages, PythonStages, EndStages
<1>1. PrepTypes'
    BY DEF PrepTypes
<1>2. TouchInv'
    BY DEF TouchInv
<1>3. SessionInv'
    BY DEF PrepTypes, SessionInv, CachedFits
<1>4. AptInv'
    BY ExaminedFrame DEF AptInv, SessionInv
<1>5. SourcesInv'
    BY DEF SourcesInv
<1>6. HouseInv'
    BY ResolvedFrame DEF HouseInv, SessionInv, TreesObserved
<1>7. PassInv'
    BY ResolvedFrame DEF PassInv
<1> QED BY <1>1, <1>2, <1>3, <1>4, <1>5, <1>6, <1>7

LEMMA PhaseFailsKeeps == ASSUME PrepInv, PhaseFails PROVE PrepInv'
<1> USE DEF PrepInv, PhaseFails, Leave, given, builderVars, aptVars, pythonVars, SessionStages, AptStages,
        BuildStages, PythonStages, EndStages
<1>1. PrepTypes'
    BY DEF PrepTypes
<1>2. TouchInv'
    BY DEF TouchInv
<1>3. SessionInv'
    BY DEF PrepTypes, SessionInv, CachedFits
<1>4. AptInv'
    BY ExaminedFrame DEF AptInv, SessionInv
<1>5. SourcesInv'
    BY DEF SourcesInv
<1>6. HouseInv'
    BY ResolvedFrame DEF HouseInv, SessionInv, TreesObserved
<1>7. PassInv'
    BY ResolvedFrame DEF PassInv
<1> QED BY <1>1, <1>2, <1>3, <1>4, <1>5, <1>6, <1>7

LEMMA CloseHelperKeeps == ASSUME PrepInv, CloseHelper PROVE PrepInv'
<1>1. PrepTypes'
    <2>1. (helper' = "none" /\ rmFailed' = rmFailed) \/ (helper' = helper /\ rmFailed' = TRUE)
        BY Zenon DEF CloseHelper, RemoveHelper
    <2>2. stage' = "sweep" /\ outcome' \in {outcome, "failed"}
        BY DEF CloseHelper, Goto
    <2>3. UNCHANGED <<node, hasCached, cachedFits, aborted, builderVars, room, ambiguous>>
        BY DEF CloseHelper, given
    <2>4. rmFailed' \in BOOLEAN /\ helper' \in {"none", helper}
        BY <2>1 DEF PrepInv, PrepTypes
    <2> QED BY <2>2, <2>3, <2>4 DEF PrepInv, PrepTypes, SessionStages, builderVars
<1> USE DEF PrepInv, CloseHelper, Goto, RemoveHelper, given, builderVars, aptVars, pythonVars, SessionStages,
        AptStages, BuildStages, PythonStages, EndStages
<1>2. TouchInv'
    BY DEF TouchInv
<1>3. SessionInv'
    BY DEF PrepTypes, SessionInv, CachedFits
<1>4. AptInv'
    BY ExaminedFrame DEF AptInv, SessionInv
<1>5. SourcesInv'
    BY DEF SourcesInv
<1>6. HouseInv'
    BY ResolvedFrame DEF HouseInv, SessionInv, TreesObserved
<1>7. PassInv'
    BY ResolvedFrame DEF PassInv
<1> QED BY <1>1, <1>2, <1>3, <1>4, <1>5, <1>6, <1>7

LEMMA SweepRoomKeeps == ASSUME PrepInv, SweepRoom PROVE PrepInv'
<1> USE DEF PrepInv, SweepRoom, Goto, given, builderVars, aptVars, pythonVars, SessionStages, AptStages,
        BuildStages, PythonStages, EndStages
<1>1. PrepTypes'
    BY DEF PrepTypes
<1>2. TouchInv'
    BY DEF TouchInv
<1>3. SessionInv'
    BY DEF PrepTypes, SessionInv, CachedFits
<1>4. AptInv'
    BY ExaminedFrame DEF AptInv, SessionInv
<1>5. SourcesInv'
    BY DEF SourcesInv
<1>6. HouseInv'
    BY ResolvedFrame DEF HouseInv, SessionInv, TreesObserved
<1>7. PassInv'
    BY ResolvedFrame DEF PassInv
<1> QED BY <1>1, <1>2, <1>3, <1>4, <1>5, <1>6, <1>7

LEMMA InterruptedKeeps == ASSUME PrepInv, Interrupted PROVE PrepInv'
<1> USE DEF PrepInv, Interrupted, given, builderVars, aptVars, pythonVars, SessionStages, AptStages,
        BuildStages, PythonStages, EndStages
<1>1. PrepTypes'
    BY DEF PrepTypes
<1>2. TouchInv'
    BY DEF TouchInv
<1>3. SessionInv'
    BY DEF PrepTypes, SessionInv, CachedFits
<1>4. AptInv'
    BY ExaminedFrame DEF AptInv, SessionInv
<1>5. SourcesInv'
    BY DEF SourcesInv
<1>6. HouseInv'
    BY ResolvedFrame DEF HouseInv, SessionInv, TreesObserved
<1>7. PassInv'
    BY ResolvedFrame DEF PassInv
<1> QED BY <1>1, <1>2, <1>3, <1>4, <1>5, <1>6, <1>7

LEMMA ProbeBaseProfileKeeps == ASSUME PrepInv, ProbeBaseProfile PROVE PrepInv'
<1> USE DEF PrepInv, ProbeBaseProfile, Goto, AptPhase, given, builderVars, aptVars, pythonVars,
        SessionStages, AptStages, BuildStages, PythonStages, EndStages
<1>1. PrepTypes'
    BY DEF PrepTypes
<1>2. TouchInv'
    BY DEF TouchInv
<1>3. SessionInv'
    BY DEF PrepTypes, SessionInv, CachedFits
<1>4. AptInv'
    BY ExaminedFrame DEF AptInv, SessionInv
<1>5. SourcesInv'
    BY DEF SourcesInv
<1>6. HouseInv'
    BY ResolvedFrame DEF HouseInv, SessionInv, TreesObserved
<1>7. PassInv'
    BY ResolvedFrame DEF PassInv
<1> QED BY <1>1, <1>2, <1>3, <1>4, <1>5, <1>6, <1>7

LEMMA RefreshIndexesKeeps == ASSUME PrepInv, RefreshIndexes PROVE PrepInv'
<1> USE DEF PrepInv, RefreshIndexes, Goto, AptPhase, given, builderVars, aptVars, pythonVars, SessionStages,
        AptStages, BuildStages, PythonStages, EndStages
<1>1. PrepTypes'
    BY DEF PrepTypes
<1>2. TouchInv'
    BY DEF TouchInv
<1>3. SessionInv'
    BY DEF PrepTypes, SessionInv, CachedFits
<1>4. AptInv'
    BY ExaminedFrame DEF AptInv, SessionInv
<1>5. SourcesInv'
    BY DEF SourcesInv
<1>6. HouseInv'
    BY ResolvedFrame DEF HouseInv, SessionInv, TreesObserved
<1>7. PassInv'
    BY ResolvedFrame DEF PassInv
<1> QED BY <1>1, <1>2, <1>3, <1>4, <1>5, <1>6, <1>7

LEMMA PlanPackagesKeeps == ASSUME PrepInv, PlanPackages PROVE PrepInv'
<1> USE DEF PrepInv, PlanPackages, Goto, AptPhase, given, builderVars, aptVars, pythonVars, SessionStages,
        AptStages, BuildStages, PythonStages, EndStages
<1>1. PrepTypes'
    BY DEF PrepTypes
<1>2. TouchInv'
    BY DEF TouchInv
<1>3. SessionInv'
    BY DEF PrepTypes, SessionInv, CachedFits
<1>4. AptInv'
    BY ExaminedFrame DEF AptInv, SessionInv
<1>5. SourcesInv'
    BY DEF SourcesInv
<1>6. HouseInv'
    BY ResolvedFrame DEF HouseInv, SessionInv, TreesObserved
<1>7. PassInv'
    BY ResolvedFrame DEF PassInv
<1> QED BY <1>1, <1>2, <1>3, <1>4, <1>5, <1>6, <1>7

LEMMA ReadBasePackageStateKeeps == ASSUME PrepInv, ReadBasePackageState PROVE PrepInv'
<1> USE DEF PrepInv, ReadBasePackageState, Goto, AptPhase, given, builderVars, aptVars, pythonVars,
        SessionStages, AptStages, BuildStages, PythonStages, EndStages
<1>1. PrepTypes'
    BY DEF PrepTypes
<1>2. TouchInv'
    BY DEF TouchInv
<1>3. SessionInv'
    BY DEF PrepTypes, SessionInv, CachedFits
<1>4. AptInv'
    BY ExaminedFrame DEF AptInv, SessionInv
<1>5. SourcesInv'
    BY DEF SourcesInv
<1>6. HouseInv'
    BY ResolvedFrame DEF HouseInv, SessionInv, TreesObserved
<1>7. PassInv'
    BY ResolvedFrame DEF PassInv
<1> QED BY <1>1, <1>2, <1>3, <1>4, <1>5, <1>6, <1>7

LEMMA DownloadPackagesKeeps == ASSUME PrepInv, DownloadPackages PROVE PrepInv'
<1> USE DEF PrepInv, DownloadPackages, Goto, AptPhase, given, builderVars, aptVars, pythonVars,
        SessionStages, AptStages, BuildStages, PythonStages, EndStages
<1>1. PrepTypes'
    BY DEF PrepTypes
<1>2. TouchInv'
    BY DEF TouchInv
<1>3. SessionInv'
    BY DEF PrepTypes, SessionInv, CachedFits
<1>4. AptInv'
    <2>1. PICK dropped \in SUBSET shelf, rewritten \in SUBSET shelf,
               new \in SUBSET {File(d, 2, "new", 0) : d \in Debs} :
            shelf' = {IF f \in rewritten THEN [f EXCEPT !.body = 1] ELSE f : f \in shelf \ dropped} \cup new
        OBVIOUS
    <2>2. ASSUME NEW f \in shelf PROVE [f EXCEPT !.body = 1] \in Archives
        BY DEF AptInv, Archives
    <2>3. new \subseteq Archives
        BY DEF File, Archives
    <2>4. shelf' \subseteq Archives
        BY <2>1, <2>2, <2>3 DEF AptInv
    <2> QED BY <2>4, ExaminedFrame DEF AptInv, SessionInv
<1>5. SourcesInv'
    BY DEF SourcesInv
<1>6. HouseInv'
    BY ResolvedFrame DEF HouseInv, SessionInv, TreesObserved
<1>7. PassInv'
    BY ResolvedFrame DEF PassInv
<1> QED BY <1>1, <1>2, <1>3, <1>4, <1>5, <1>6, <1>7

LEMMA InventoryArchivesKeeps == ASSUME PrepInv, InventoryArchives PROVE PrepInv'
<1> USE DEF PrepInv, InventoryArchives, Goto, AptPhase, given, builderVars, aptVars, pythonVars,
        SessionStages, AptStages, BuildStages, PythonStages, EndStages
<1>1. PrepTypes'
    BY DEF PrepTypes
<1>2. TouchInv'
    BY DEF TouchInv
<1>3. SessionInv'
    BY DEF PrepTypes, SessionInv, CachedFits
<1>4. AptInv'
    BY ExaminedFrame DEF AptInv, SessionInv
<1>5. SourcesInv'
    BY DEF SourcesInv
<1>6. HouseInv'
    BY ResolvedFrame DEF HouseInv, SessionInv, TreesObserved
<1>7. PassInv'
    BY ResolvedFrame DEF PassInv
<1> QED BY <1>1, <1>2, <1>3, <1>4, <1>5, <1>6, <1>7

LEMMA InspectArchivesKeeps == ASSUME PrepInv, InspectArchives PROVE PrepInv'
<1> USE DEF PrepInv, InspectArchives, Goto, AptPhase, given, builderVars, aptVars, pythonVars, SessionStages,
        AptStages, BuildStages, PythonStages, EndStages
<1>1. PrepTypes'
    BY DEF PrepTypes
<1>2. TouchInv'
    BY DEF TouchInv
<1>3. SessionInv'
    BY DEF PrepTypes, SessionInv, CachedFits
<1>4. AptInv'
    <2>1. /\ stage = "inspect" /\ stage' = "publish" /\ outcome = "none" /\ stored = {}
          /\ UNCHANGED <<node, outcome, plan, shelf, listing, stored, manifest>>
        BY DEF SessionInv, AptInv
    <2>2. /\ examined' = {f \in listing : Selected(f)}
          /\ \A d \in plan : Cardinality({f \in listing : Selected(f) /\ f.deb = d}) = 1
        OBVIOUS
    <2>3. ExaminedIsPlan'
        BY <2>1, <2>2 DEF ExaminedIsPlan, Selected
    <2> QED BY <2>1, <2>3 DEF AptInv
<1>5. SourcesInv'
    BY DEF SourcesInv
<1>6. HouseInv'
    BY ResolvedFrame DEF HouseInv, SessionInv, TreesObserved
<1>7. PassInv'
    BY ResolvedFrame DEF PassInv
<1> QED BY <1>1, <1>2, <1>3, <1>4, <1>5, <1>6, <1>7

LEMMA PublishBundleArtifactsKeeps == ASSUME PrepInv, PublishBundleArtifacts PROVE PrepInv'
<1> USE DEF PrepInv, PublishBundleArtifacts, Goto, AptPhase, given, builderVars, aptVars, pythonVars,
        SessionStages, AptStages, BuildStages, PythonStages, EndStages
<1>1. PrepTypes'
    BY DEF PrepTypes
<1>2. TouchInv'
    BY DEF TouchInv
<1>3. SessionInv'
    BY DEF PrepTypes, SessionInv, CachedFits
<1>4. AptInv'
    BY ExaminedFrame DEF AptInv, SessionInv
<1>5. SourcesInv'
    BY DEF SourcesInv
<1>6. HouseInv'
    BY ResolvedFrame DEF HouseInv, SessionInv, TreesObserved
<1>7. PassInv'
    BY ResolvedFrame DEF PassInv
<1> QED BY <1>1, <1>2, <1>3, <1>4, <1>5, <1>6, <1>7

LEMMA PublishResolvedBundleKeeps == ASSUME PrepInv, PublishResolvedBundle PROVE PrepInv'
<1> USE DEF PrepInv, PublishResolvedBundle, Goto, given, builderVars, aptVars, pythonVars, SessionStages,
        AptStages, BuildStages, PythonStages, EndStages
<1>1. PrepTypes'
    BY DEF PrepTypes
<1>2. TouchInv'
    BY DEF TouchInv
<1>3. SessionInv'
    BY DEF PrepTypes, SessionInv, CachedFits
<1>4. AptInv'
    BY ExaminedFrame DEF AptInv, SessionInv
<1>5. SourcesInv'
    BY DEF SourcesInv
<1>6. HouseInv'
    BY ResolvedFrame DEF HouseInv, SessionInv, TreesObserved
<1>7. PassInv'
    BY ResolvedFrame DEF PassInv
<1> QED BY <1>1, <1>2, <1>3, <1>4, <1>5, <1>6, <1>7

LEMMA ArchiveChangesKeeps == ASSUME PrepInv, ArchiveChanges PROVE PrepInv'
<1> USE DEF PrepInv, ArchiveChanges, given, builderVars, aptVars, pythonVars, SessionStages, AptStages,
        BuildStages, PythonStages, EndStages
<1>1. PrepTypes'
    BY DEF PrepTypes
<1>2. TouchInv'
    <2>1. touches + 1 \in 0..MaxTouches /\ touches \in Nat
        BY PreparationBounds DEF TouchInv
    <2> QED BY <2>1 DEF TouchInv
<1>3. SessionInv'
    BY DEF PrepTypes, SessionInv, CachedFits
<1>4. AptInv'
    <2>1. PICK f \in shelf : shelf' = (shelf \ {f}) \cup {[f EXCEPT !.body = 1 - f.body]}
        OBVIOUS
    <2>2. f \in Archives
        BY DEF AptInv
    <2>3. 1 - f.body \in {0, 1}
        BY <2>2 DEF Archives
    <2>4. [f EXCEPT !.body = 1 - f.body] \in Archives
        BY <2>2, <2>3 DEF Archives
    <2>5. shelf' \subseteq Archives
        BY <2>1, <2>4 DEF AptInv
    <2> QED BY <2>5, ExaminedFrame DEF AptInv, SessionInv
<1>5. SourcesInv'
    BY DEF SourcesInv
<1>6. HouseInv'
    BY ResolvedFrame DEF HouseInv, SessionInv, TreesObserved
<1>7. PassInv'
    BY ResolvedFrame DEF PassInv
<1> QED BY <1>1, <1>2, <1>3, <1>4, <1>5, <1>6, <1>7

LEMMA SelectInterpreterKeeps == ASSUME PrepInv, SelectInterpreter PROVE PrepInv'
<1> USE DEF PrepInv, SelectInterpreter, Goto, PythonPhase, given, builderVars, aptVars, SessionStages,
        AptStages, BuildStages, PythonStages, EndStages
<1>1. PrepTypes'
    BY DEF PrepTypes
<1>2. TouchInv'
    BY DEF TouchInv
<1>3. SessionInv'
    BY DEF PrepTypes, SessionInv, CachedFits
<1>4. AptInv'
    BY ExaminedFrame DEF AptInv, SessionInv
<1>5. SourcesInv'
    BY DEF SourcesInv
<1>6. HouseInv'
    <2>1. want' \subseteq Locals /\ stage' \in {"resolve", "observe"} /\ outcome' = "none"
        BY PreparationBounds DEF SessionInv
    <2> QED BY <2>1 DEF HouseInv
<1>7. PassInv'
    <2>1. Resolved' = Resolved /\ passes' = passes /\ passes = 0
        BY ResolvedFrame DEF PassInv
    <2>2. passes <= Cardinality(Resolved)
        BY <2>1, ResolvedFinite
    <2>3. \/ stage' = "resolve"
          \/ stage' = "observe" /\ want' # {} /\ want' = Direct \ Resolved
        OBVIOUS
    <2> QED BY <2>1, <2>2, <2>3 DEF PassInv
<1> QED BY <1>1, <1>2, <1>3, <1>4, <1>5, <1>6, <1>7

LEMMA ResolveWheelsKeeps == ASSUME PrepInv, ResolveWheels PROVE PrepInv'
<1> USE DEF PrepInv, ResolveWheels, Goto, PythonPhase, given, builderVars, aptVars, SessionStages, AptStages,
        BuildStages, PythonStages, EndStages
<1>1. PrepTypes'
    BY DEF PrepTypes
<1>2. TouchInv'
    BY DEF TouchInv
<1>3. SessionInv'
    BY DEF PrepTypes, SessionInv, CachedFits
<1>4. AptInv'
    BY ExaminedFrame DEF AptInv, SessionInv
<1>5. SourcesInv'
    BY DEF SourcesInv
<1>6. HouseInv'
    <2>1. PICK closure \in SUBSET Locals :
            /\ Direct \subseteq closure
            /\ wheelhouse' = {t \in sources : t.dist \in closure} \cup
                   {[dist |-> d, kind |-> "index", digest |-> 0, tree |-> 0] : d \in closure \ Resolved}
        OBVIOUS
    <2>2. /\ stage' = "closure" /\ outcome' = "none" /\ Resolved' = Resolved
          /\ UNCHANGED <<want, sources>>
        BY ResolvedFrame DEF SessionInv
    <2>3. ASSUME NEW w \in wheelhouse'
          PROVE  /\ w \in sources \/ w.dist \notin Resolved
                 /\ w \in Wheels({"index", "sdist", "wheel"})
        <3>1. CASE w \in sources
            BY <3>1 DEF SourcesInv, Wheels
        <3>2. CASE w \notin sources
            <4>1. PICK d \in closure \ Resolved :
                    w = [dist |-> d, kind |-> "index", digest |-> 0, tree |-> 0]
                BY <2>1, <3>2
            <4> QED BY <4>1 DEF Wheels
        <3> QED BY <3>1, <3>2
    <2>4. ASSUME NEW d \in Direct PROVE \E w \in wheelhouse' : w.dist = d
        <3>1. CASE d \in Resolved
            <4>1. PICK t \in sources : t.dist = d
                BY <3>1 DEF Resolved
            <4>2. t \in wheelhouse'
                BY <2>1, <4>1
            <4> QED BY <4>1, <4>2
        <3>2. CASE d \notin Resolved
            <4> DEFINE w == [dist |-> d, kind |-> "index", digest |-> 0, tree |-> 0]
            <4>1. w \in wheelhouse' /\ w.dist = d
                BY <2>1, <3>2
            <4> QED BY <4>1
        <3> QED BY <3>1, <3>2
    <2>5. Direct \subseteq {w.dist : w \in wheelhouse'}
        BY <2>4
    <2> QED BY <2>2, <2>3, <2>5 DEF HouseInv
<1>7. PassInv'
    <2>1. Resolved' = Resolved /\ passes' = passes + 1 /\ stage = "resolve" /\ stage' = "closure"
        BY ResolvedFrame
    <2>2. passes \in Nat /\ passes <= Cardinality(Resolved) /\ Cardinality(Resolved) \in Nat
        BY <2>1, ResolvedFinite DEF PassInv
    <2>3. passes + 1 \in Nat /\ passes + 1 <= Cardinality(Resolved) + 1
        BY <2>2
    <2> QED BY <2>1, <2>3 DEF PassInv
<1> QED BY <1>1, <1>2, <1>3, <1>4, <1>5, <1>6, <1>7

LEMMA InspectClosureKeeps == ASSUME PrepInv, InspectClosure PROVE PrepInv'
<1> USE DEF PrepInv, InspectClosure, Goto, PythonPhase, given, builderVars, aptVars, SessionStages,
        AptStages, BuildStages, PythonStages, EndStages
<1>1. PrepTypes'
    BY DEF PrepTypes
<1>2. TouchInv'
    BY DEF TouchInv
<1>3. SessionInv'
    BY DEF PrepTypes, SessionInv, CachedFits
<1>4. AptInv'
    BY ExaminedFrame DEF AptInv, SessionInv
<1>5. SourcesInv'
    BY DEF SourcesInv
<1>6. HouseInv'
    <2> DEFINE unresolved == {w.dist : w \in wheelhouse} \ Resolved
    <2>1. /\ stage = "closure" /\ outcome' = outcome /\ outcome = "none" /\ Resolved' = Resolved /\ sources' = sources
          /\ want' = unresolved
          /\ \/ unresolved = {} /\ stage' = "stop" /\ wheelhouse' = wheelhouse
             \/ stage' = "observe" /\ wheelhouse' = {}
        BY ResolvedFrame DEF SessionInv
    <2>2. want' \subseteq Locals
        BY <2>1 DEF HouseInv, Wheels
    <2>3. ASSUME unresolved = {} PROVE wheelhouse \subseteq sources
        <3>1. ASSUME NEW w \in wheelhouse PROVE w \in sources
            <4>1. w.dist \in Resolved
                BY <2>3
            <4> QED BY <2>1, <4>1 DEF HouseInv
        <3> QED BY <3>1
    <2> HIDE DEF unresolved
    <2> QED BY <2>1, <2>2, <2>3 DEF HouseInv
<1>7. PassInv'
    BY ResolvedFrame DEF PassInv
<1> QED BY <1>1, <1>2, <1>3, <1>4, <1>5, <1>6, <1>7

LEMMA ObserveSourcesKeeps == ASSUME PrepInv, ObserveSources PROVE PrepInv'
<1> USE DEF PrepInv, ObserveSources, Goto, PythonPhase, given, builderVars, aptVars, SessionStages,
        AptStages, BuildStages, PythonStages, EndStages
<1>1. PrepTypes'
    BY DEF PrepTypes
<1>2. TouchInv'
    BY DEF TouchInv
<1>3. SessionInv'
    BY DEF PrepTypes, SessionInv, CachedFits
<1>4. AptInv'
    BY ExaminedFrame DEF AptInv, SessionInv
<1>5. SourcesInv'
    BY DEF SourcesInv
<1>6. HouseInv'
    <2>1. /\ stage' = "snapshot" /\ outcome' = "none" /\ UNCHANGED <<want, sources, wheelhouse, checkout>>
          /\ observed' = [d \in want |-> checkout[d]] /\ want \subseteq Locals
        BY DEF SessionInv, HouseInv
    <2>2. TreesObserved'
        BY <2>1 DEF TreesObserved, TouchInv
    <2> QED BY <2>1, <2>2 DEF HouseInv
<1>7. PassInv'
    BY ResolvedFrame DEF PassInv
<1> QED BY <1>1, <1>2, <1>3, <1>4, <1>5, <1>6, <1>7

LEMMA StageSnapshotsKeeps == ASSUME PrepInv, StageSnapshots PROVE PrepInv'
<1> USE DEF PrepInv, StageSnapshots, Goto, PythonPhase, given, builderVars, aptVars, SessionStages,
        AptStages, BuildStages, PythonStages, EndStages
<1>1. PrepTypes'
    BY DEF PrepTypes
<1>2. TouchInv'
    BY DEF TouchInv
<1>3. SessionInv'
    BY DEF PrepTypes, SessionInv, CachedFits
<1>4. AptInv'
    BY ExaminedFrame DEF AptInv, SessionInv
<1>5. SourcesInv'
    BY DEF SourcesInv
<1>6. HouseInv'
    BY ResolvedFrame DEF HouseInv, SessionInv, TreesObserved
<1>7. PassInv'
    BY ResolvedFrame DEF PassInv
<1> QED BY <1>1, <1>2, <1>3, <1>4, <1>5, <1>6, <1>7

LEMMA OpenBuilderKeeps == ASSUME PrepInv, OpenBuilder PROVE PrepInv'
<1> USE DEF PrepInv, OpenBuilder, Goto, PythonPhase, Builds, given, builderVars, aptVars, pythonVars,
        SessionStages, AptStages, BuildStages, PythonStages, EndStages
<1>1. PrepTypes'
    BY DEF PrepTypes
<1>2. TouchInv'
    BY DEF TouchInv
<1>3. SessionInv'
    BY DEF PrepTypes, SessionInv, CachedFits
<1>4. AptInv'
    BY ExaminedFrame DEF AptInv, SessionInv
<1>5. SourcesInv'
    BY DEF SourcesInv
<1>6. HouseInv'
    BY ResolvedFrame DEF HouseInv, SessionInv, TreesObserved
<1>7. PassInv'
    BY ResolvedFrame DEF PassInv
<1> QED BY <1>1, <1>2, <1>3, <1>4, <1>5, <1>6, <1>7

LEMMA BuildSourceDistributionsKeeps == ASSUME PrepInv, BuildSourceDistributions PROVE PrepInv'
<1> USE DEF PrepInv, BuildSourceDistributions, Goto, PythonPhase, Builds, given, builderVars, aptVars,
        SessionStages, AptStages, BuildStages, PythonStages, EndStages
<1>1. PrepTypes'
    BY DEF PrepTypes
<1>2. TouchInv'
    BY DEF TouchInv
<1>3. SessionInv'
    BY DEF PrepTypes, SessionInv, CachedFits
<1>4. AptInv'
    BY ExaminedFrame DEF AptInv, SessionInv
<1>5. SourcesInv'
    BY DEF SourcesInv
<1>6. HouseInv'
    <2>1. PICK got \in SUBSET want :
            wheelhouse' = {[dist |-> d, kind |-> "sdist", digest |-> observed[d], tree |-> copied[d]] : d \in got}
        OBVIOUS
    <2>2. /\ stage = "sdist" /\ stage' = "retain" /\ outcome' = "none"
          /\ UNCHANGED <<want, observed, copied, checkout>> /\ want \subseteq Locals
        BY DEF SessionInv, HouseInv
    <2>3. TreesObserved /\ \A d \in want : copied[d] = observed[d]
        BY <2>2 DEF HouseInv
    <2>4. ASSUME NEW w \in wheelhouse'
          PROVE  /\ w \in Wheels({"index", "sdist", "wheel"})
                 /\ w.kind = "sdist" /\ w.dist \in want
                 /\ w.digest = observed[w.dist] /\ w.tree = copied[w.dist]
        <3>1. PICK d \in got :
                w = [dist |-> d, kind |-> "sdist", digest |-> observed[d], tree |-> copied[d]]
            BY <2>1
        <3>2. d \in Locals /\ observed[d] \in Nat /\ copied[d] \in Nat
            BY <2>2, <2>3 DEF TreesObserved
        <3> QED BY <3>1, <3>2 DEF Wheels
    <2>5. TreesObserved'
        BY <2>2, <2>3 DEF TreesObserved
    <2> QED BY <2>2, <2>3, <2>4, <2>5 DEF HouseInv
<1>7. PassInv'
    BY ResolvedFrame DEF PassInv
<1> QED BY <1>1, <1>2, <1>3, <1>4, <1>5, <1>6, <1>7

LEMMA RetainDistributionsKeeps == ASSUME PrepInv, RetainDistributions PROVE PrepInv'
<1> USE DEF PrepInv, RetainDistributions, Goto, PythonPhase, given, builderVars, aptVars, SessionStages,
        AptStages, BuildStages, PythonStages, EndStages
<1>1. PrepTypes'
    BY DEF PrepTypes
<1>2. TouchInv'
    BY DEF TouchInv
<1>3. SessionInv'
    BY DEF PrepTypes, SessionInv, CachedFits
<1>4. AptInv'
    BY ExaminedFrame DEF AptInv, SessionInv
<1>5. SourcesInv'
    BY DEF SourcesInv
<1>6. HouseInv'
    BY ResolvedFrame DEF HouseInv, SessionInv, TreesObserved
<1>7. PassInv'
    BY ResolvedFrame DEF PassInv
<1> QED BY <1>1, <1>2, <1>3, <1>4, <1>5, <1>6, <1>7

LEMMA BuildSourceWheelsKeeps == ASSUME PrepInv, BuildSourceWheels PROVE PrepInv'
<1> USE DEF PrepInv, BuildSourceWheels, Goto, PythonPhase, Builds, given, builderVars, aptVars,
        SessionStages, AptStages, BuildStages, PythonStages, EndStages
<1>1. PrepTypes'
    BY DEF PrepTypes
<1>2. TouchInv'
    BY DEF TouchInv
<1>3. SessionInv'
    BY DEF PrepTypes, SessionInv, CachedFits
<1>4. AptInv'
    BY ExaminedFrame DEF AptInv, SessionInv
<1>5. SourcesInv'
    BY DEF SourcesInv
<1>6. HouseInv'
    <2>1. PICK got \in SUBSET want :
            wheelhouse' = {[dist |-> d, kind |-> "wheel", digest |-> observed[d], tree |-> copied[d]] : d \in got}
        OBVIOUS
    <2>2. /\ stage = "wheel" /\ stage' = "wheels" /\ outcome' = "none"
          /\ UNCHANGED <<want, observed, copied, checkout>> /\ want \subseteq Locals
        BY DEF SessionInv, HouseInv
    <2>3. TreesObserved /\ \A d \in want : copied[d] = observed[d]
        BY <2>2 DEF HouseInv
    <2>4. ASSUME NEW w \in wheelhouse'
          PROVE  /\ w \in Wheels({"index", "sdist", "wheel"})
                 /\ w.kind = "wheel" /\ w.dist \in want
                 /\ w.digest = observed[w.dist] /\ w.tree = copied[w.dist]
        <3>1. PICK d \in got :
                w = [dist |-> d, kind |-> "wheel", digest |-> observed[d], tree |-> copied[d]]
            BY <2>1
        <3>2. d \in Locals /\ observed[d] \in Nat /\ copied[d] \in Nat
            BY <2>2, <2>3 DEF TreesObserved
        <3> QED BY <3>1, <3>2 DEF Wheels
    <2>5. TreesObserved'
        BY <2>2, <2>3 DEF TreesObserved
    <2> QED BY <2>2, <2>3, <2>4, <2>5 DEF HouseInv
<1>7. PassInv'
    BY ResolvedFrame DEF PassInv
<1> QED BY <1>1, <1>2, <1>3, <1>4, <1>5, <1>6, <1>7

LEMMA PublishSourceWheelsKeeps == ASSUME PrepInv, PublishSourceWheels PROVE PrepInv'
<1> USE DEF PrepInv, PublishSourceWheels, Goto, PythonPhase, given, builderVars, aptVars, SessionStages,
        AptStages, BuildStages, PythonStages, EndStages
<1>1. PrepTypes'
    BY DEF PrepTypes
<1>2. TouchInv'
    BY DEF TouchInv
<1>3. SessionInv'
    BY DEF PrepTypes, SessionInv, CachedFits
<1>4. AptInv'
    BY ExaminedFrame DEF AptInv, SessionInv
<1>5. SourcesInv'
    <2>1. /\ stage = "wheels" /\ {a.dist : a \in wheelhouse} = want /\ checkout' = checkout
          /\ sources' = {t \in sources : t.dist \notin want} \cup wheelhouse
        OBVIOUS
    <2>2. /\ TreesObserved /\ want \subseteq Locals
          /\ \A d \in want : copied[d] = observed[d]
          /\ \A w \in wheelhouse : /\ w.kind = "wheel" /\ w.dist \in want
                                   /\ w.digest = observed[w.dist] /\ w.tree = copied[w.dist]
          /\ wheelhouse \subseteq Wheels({"index", "sdist", "wheel"})
        BY <2>1 DEF HouseInv
    <2>3. ASSUME NEW w \in wheelhouse
          PROVE  w \in Wheels({"wheel"}) /\ w.tree = w.digest /\ w.tree <= checkout[w.dist]
        BY <2>2 DEF TreesObserved, Wheels
    <2>4. ASSUME NEW w \in wheelhouse, NEW x \in wheelhouse, w.dist = x.dist PROVE w = x
        BY <2>2, <2>4 DEF Wheels
    <2>5. ASSUME NEW t \in sources'
          PROVE  t \in Wheels({"wheel"}) /\ t.tree = t.digest /\ t.tree <= checkout[t.dist]
        BY <2>1, <2>3 DEF SourcesInv
    <2>6. ASSUME NEW t \in sources', NEW u \in sources', t.dist = u.dist PROVE t = u
        BY <2>1, <2>2, <2>4, <2>6 DEF SourcesInv
    <2> QED BY <2>1, <2>5, <2>6 DEF SourcesInv
<1>6. HouseInv'
    BY ResolvedFrame DEF HouseInv, SessionInv, TreesObserved
<1>7. PassInv'
    <2>1. /\ stage = "wheels" /\ {a.dist : a \in wheelhouse} = want /\ passes' = passes
          /\ sources' = {t \in sources : t.dist \notin want} \cup wheelhouse
          /\ stage' \in {"builderClose", "resolve"}
        OBVIOUS
    <2>2. Resolved' = Resolved \cup want
        BY <2>1 DEF Resolved
    <2>3. want # {} /\ want \cap Resolved = {} /\ want \subseteq Locals
        BY <2>1 DEF PassInv, HouseInv
    <2>4. PICK d \in want : d \notin Resolved
        BY <2>3
    <2>5. /\ IsFiniteSet(Resolved) /\ Cardinality(Resolved) \in Nat
          /\ Resolved \cup want \subseteq Locals
        BY <2>3, ResolvedFinite
    <2>6. IsFiniteSet(Resolved \cup want)
        BY <2>5, PreparationBounds, FS_Subset
    <2>7. Cardinality(Resolved \cup {d}) = Cardinality(Resolved) + 1
        BY <2>4, <2>5, FS_AddElement
    <2>8. Cardinality(Resolved \cup {d}) <= Cardinality(Resolved \cup want)
          /\ Cardinality(Resolved \cup want) \in Nat
        BY <2>4, <2>6, FS_Subset, FS_CardinalityType
    <2>9. passes \in Nat /\ passes <= Cardinality(Resolved) + 1
        BY DEF PassInv
    <2>10. passes <= Cardinality(Resolved') /\ passes <= Cardinality(Resolved') + 1
        BY <2>2, <2>5, <2>7, <2>8, <2>9
    <2> QED BY <2>1, <2>9, <2>10 DEF PassInv
<1> QED BY <1>1, <1>2, <1>3, <1>4, <1>5, <1>6, <1>7

\* What a cleanup of the source builder leaves.
LEMMA BuilderCleaned ==
    ASSUME NEW left, CleanUpBuilder(left)
    PROVE  builder' = left /\ ~builderRoom' /\ builderRoom' \in BOOLEAN /\ builderImage' \in BOOLEAN
BY DEF CleanUpBuilder

LEMMA OpenBuilderFailsKeeps == ASSUME PrepInv, OpenBuilderFails PROVE PrepInv'
<1>1. /\ stage = "builder" /\ stage' = "close" /\ outcome' = "failed"
      /\ UNCHANGED <<node, hasCached, cachedFits, aborted, helper, room, ambiguous>>
      /\ UNCHANGED <<plan, shelf, listing, examined, stored, manifest>>
      /\ UNCHANGED <<checkout, want, observed, copied, sources, wheelhouse, passes, touches>>
    BY DEF PrepInv, SessionInv, BuildStages, OpenBuilderFails, Leave, given, aptVars, pythonVars
<1>2. /\ builder' \in {"none", "left"} /\ ~builderRoom' /\ builderRoom' \in BOOLEAN /\ builderImage' \in BOOLEAN
      /\ rmFailed' \in BOOLEAN /\ builderLost' \in BOOLEAN
      /\ builder' = "left" => rmFailed' \/ builderLost'
      /\ builderLost' => builder' = "left"
    <2>0. ~rmFailed /\ ~builderLost /\ rmFailed \in BOOLEAN /\ builderLost \in BOOLEAN
        BY <1>1 DEF PrepInv, PrepTypes, SessionInv, PythonStages, EndStages
    <2>1. CASE CleanUpBuilder("none") /\ UNCHANGED <<rmFailed, builderLost>>
        BY <2>0, <2>1, BuilderCleaned
    <2>2. CASE CleanUpBuilder("left") /\ rmFailed' = TRUE /\ UNCHANGED builderLost
        BY <2>0, <2>2, BuilderCleaned
    <2>3. CASE CleanUpBuilder("left") /\ builderLost' = TRUE /\ UNCHANGED rmFailed
        BY <2>0, <2>3, BuilderCleaned
    <2> QED BY <2>1, <2>2, <2>3 DEF OpenBuilderFails
<1> USE DEF PrepInv, SessionStages, AptStages, BuildStages, PythonStages, EndStages
<1>3. PrepTypes' /\ TouchInv'
    BY <1>1, <1>2 DEF PrepTypes, TouchInv
<1>4. SessionInv'
    BY <1>1, <1>2 DEF PrepTypes, SessionInv, CachedFits
<1>5. AptInv'
    BY <1>1, ExaminedFrame DEF AptInv, SessionInv
<1>6. SourcesInv' /\ HouseInv'
    BY <1>1, ResolvedFrame DEF SourcesInv, HouseInv, SessionInv, TreesObserved
<1>7. PassInv'
    BY <1>1, ResolvedFrame DEF PassInv
<1> QED BY <1>3, <1>4, <1>5, <1>6, <1>7

LEMMA CloseBuilderKeeps == ASSUME PrepInv, CloseBuilder PROVE PrepInv'
<1>1. /\ stage = "builderClose"
      /\ outcome' = IF builder' = "left" \/ builderImage' THEN "failed" ELSE outcome
      /\ stage' = IF outcome' = "failed" THEN "close" ELSE "resolve"
      /\ UNCHANGED <<node, hasCached, cachedFits, aborted, helper, room, ambiguous, builderLost>>
      /\ UNCHANGED <<plan, shelf, listing, examined, stored, manifest>>
      /\ UNCHANGED <<checkout, want, observed, copied, sources, wheelhouse, passes, touches>>
    BY DEF CloseBuilder, Goto, given, aptVars, pythonVars
<1>2. /\ builder' \in {"none", "left"} /\ ~builderRoom' /\ builderRoom' \in BOOLEAN /\ builderImage' \in BOOLEAN
      /\ rmFailed' \in BOOLEAN /\ (builder' = "left" <=> rmFailed')
    <2>0. ~rmFailed /\ rmFailed \in BOOLEAN
        BY <1>1 DEF PrepInv, PrepTypes, SessionInv
    <2>1. CASE CleanUpBuilder("none") /\ UNCHANGED rmFailed
        BY <2>0, <2>1, BuilderCleaned
    <2>2. CASE CleanUpBuilder("left") /\ rmFailed' = TRUE
        BY <2>0, <2>2, BuilderCleaned
    <2> QED BY <2>1, <2>2 DEF CloseBuilder
<1>a. ~builderLost /\ outcome \in {"none", "failed"}
    BY <1>1 DEF PrepInv, SessionInv
<1> USE DEF PrepInv, SessionStages, AptStages, BuildStages, PythonStages, EndStages
<1>3. PrepTypes' /\ TouchInv'
    BY <1>1, <1>2, <1>a DEF PrepTypes, TouchInv
<1>4. SessionInv'
    BY <1>1, <1>2, <1>a DEF PrepTypes, SessionInv, CachedFits
<1>5. AptInv'
    BY <1>1, <1>a, ExaminedFrame DEF AptInv, SessionInv
<1>6. SourcesInv' /\ HouseInv'
    BY <1>1, <1>a, ResolvedFrame DEF SourcesInv, HouseInv, SessionInv, TreesObserved
<1>7. PassInv'
    <2>1. Resolved' = Resolved /\ passes' = passes /\ stage = "builderClose"
          /\ \/ outcome = "none" /\ stage' = "resolve" /\ outcome' = "none"
             \/ stage' = "close"
        BY <1>1, <1>a, ResolvedFrame
    <2> QED BY <2>1 DEF PassInv
<1> QED BY <1>3, <1>4, <1>5, <1>6, <1>7

LEMMA StopHelperKeeps == ASSUME PrepInv, StopHelper PROVE PrepInv'
<1> USE DEF PrepInv, StopHelper, Goto, given, builderVars, aptVars, pythonVars, SessionStages, AptStages,
        BuildStages, PythonStages, EndStages
<1>1. PrepTypes'
    BY DEF PrepTypes
<1>2. TouchInv'
    BY DEF TouchInv
<1>3. SessionInv'
    BY DEF PrepTypes, SessionInv, CachedFits
<1>4. AptInv'
    BY ExaminedFrame DEF AptInv, SessionInv
<1>5. SourcesInv'
    BY DEF SourcesInv
<1>6. HouseInv'
    BY ResolvedFrame DEF HouseInv, SessionInv, TreesObserved
<1>7. PassInv'
    BY ResolvedFrame DEF PassInv
<1> QED BY <1>1, <1>2, <1>3, <1>4, <1>5, <1>6, <1>7

LEMMA IngestWheelsKeeps == ASSUME PrepInv, IngestWheels PROVE PrepInv'
<1> USE DEF PrepInv, IngestWheels, Goto, given, builderVars, aptVars, pythonVars, SessionStages, AptStages,
        BuildStages, PythonStages, EndStages
<1>1. PrepTypes'
    BY DEF PrepTypes
<1>2. TouchInv'
    BY DEF TouchInv
<1>3. SessionInv'
    BY DEF PrepTypes, SessionInv, CachedFits
<1>4. AptInv'
    BY ExaminedFrame DEF AptInv, SessionInv
<1>5. SourcesInv'
    BY DEF SourcesInv
<1>6. HouseInv'
    BY ResolvedFrame DEF HouseInv, SessionInv, TreesObserved
<1>7. PassInv'
    BY ResolvedFrame DEF PassInv
<1> QED BY <1>1, <1>2, <1>3, <1>4, <1>5, <1>6, <1>7

LEMMA DeveloperEditsKeeps == ASSUME PrepInv, NEW d \in Locals, DeveloperEdits(d) PROVE PrepInv'
<1>1. /\ touches < MaxTouches /\ touches' = touches + 1
      /\ checkout' = [checkout EXCEPT ![d] = checkout[d] + 1]
      /\ UNCHANGED <<node, stage, outcome, hasCached, cachedFits, aborted, helper, builder, builderRoom,
                     builderImage, builderLost, room, rmFailed, ambiguous, plan, shelf, listing, examined, stored, manifest,
                     want, observed, copied, sources, wheelhouse, passes>>
    BY DEF DeveloperEdits, given, builderVars, aptVars, pythonVars
<1>2. touches + 1 \in 0..MaxTouches /\ touches \in Nat
    BY <1>1, PreparationBounds DEF PrepInv, TouchInv
<1>3. checkout' \in [Locals -> Nat] /\ \A e \in Locals : checkout[e] <= checkout'[e] /\ checkout'[e] <= touches'
    BY <1>1, <1>2 DEF PrepInv, TouchInv
<1>4. PrepTypes' /\ SessionInv'
    BY <1>1 DEF PrepInv, PrepTypes, SessionInv, CachedFits
<1>5. TouchInv'
    BY <1>1, <1>2, <1>3 DEF TouchInv
<1>6. AptInv'
    BY <1>1, ExaminedFrame DEF PrepInv, AptInv
<1>7. SourcesInv'
    <2>1. ASSUME NEW t \in sources PROVE t.tree <= checkout'[t.dist]
        <3>1. t.dist \in Locals /\ t.tree \in Nat /\ t.tree <= checkout[t.dist]
            BY DEF PrepInv, SourcesInv, Wheels
        <3>2. checkout[t.dist] \in Nat /\ checkout'[t.dist] \in Nat /\ checkout[t.dist] <= checkout'[t.dist]
            BY <1>3, <3>1 DEF PrepInv, TouchInv
        <3> QED BY <3>1, <3>2
    <2> QED BY <1>1, <2>1 DEF PrepInv, SourcesInv
<1>8. HouseInv'
    <2>1. ASSUME TreesObserved PROVE TreesObserved'
        <3> SUFFICES ASSUME NEW e \in want
                     PROVE  observed[e] \in Nat /\ observed[e] <= checkout'[e]
            BY <1>1 DEF TreesObserved
        <3>1. e \in Locals /\ observed[e] \in Nat /\ observed[e] <= checkout[e]
            BY <2>1 DEF PrepInv, HouseInv, TreesObserved
        <3>2. checkout[e] \in Nat /\ checkout'[e] \in Nat /\ checkout[e] <= checkout'[e]
            BY <1>3, <3>1 DEF PrepInv, TouchInv
        <3> QED BY <3>1, <3>2
    <2> QED BY <1>1, <2>1, ResolvedFrame DEF PrepInv, HouseInv
<1>9. PassInv'
    BY <1>1, ResolvedFrame DEF PrepInv, PassInv
<1> QED BY <1>4, <1>5, <1>6, <1>7, <1>8, <1>9 DEF PrepInv

LEMMA PrepStutters == ASSUME PrepInv, UNCHANGED prepVars PROVE PrepInv'
<1>1. UNCHANGED <<node, stage, outcome, hasCached, cachedFits, aborted, helper, builder, builderRoom,
                  builderImage, builderLost, room, rmFailed, ambiguous, plan, shelf, listing, examined, stored, manifest,
                  checkout, want, observed, copied, sources, wheelhouse, passes, touches>>
    BY DEF prepVars
<1>2. PrepTypes' /\ SessionInv' /\ TouchInv'
    BY <1>1 DEF PrepInv, PrepTypes, SessionInv, CachedFits, TouchInv
<1>3. AptInv'
    BY <1>1, ExaminedFrame DEF PrepInv, AptInv
<1>4. SourcesInv' /\ HouseInv' /\ PassInv'
    BY <1>1, ResolvedFrame DEF PrepInv, SourcesInv, HouseInv, PassInv, TreesObserved
<1> QED BY <1>2, <1>3, <1>4 DEF PrepInv

LEMMA PrepStarts == PrepInit => PrepInv
<1> SUFFICES ASSUME NEW kind \in {"apt", "python"}, NEW cached \in BOOLEAN, NEW matching \in BOOLEAN,
                    NEW seeds \in IF kind = "apt" THEN {t \in SUBSET Seeds : Cardinality(t) <= 2} ELSE {{}},
                    matching => cached, PreparationOf(kind, cached, matching, seeds)
             PROVE  PrepInv
    BY DEF PrepInit
<1> USE DEF PreparationOf, SessionStages, AptStages, BuildStages, PythonStages, EndStages
<1>1. seeds \subseteq Seeds
    <2>1. CASE kind = "apt"
        BY <2>1
    <2>2. CASE kind # "apt"
        BY <2>2
    <2> QED BY <2>1, <2>2
<1>2. Seeds \subseteq Archives
    BY DEF Seeds, File, Archives
<1>3. PrepTypes /\ SessionInv
    BY DEF PrepTypes, SessionInv, CachedFits
<1>4. TouchInv
    BY PreparationBounds DEF TouchInv
<1>5. AptInv
    BY <1>1, <1>2 DEF AptInv
<1>6. SourcesInv /\ HouseInv
    BY DEF SourcesInv, HouseInv
<1>7. Resolved = {}
    BY DEF Resolved
<1>8. PassInv
    BY <1>7, FS_EmptySet DEF PassInv
<1> QED BY <1>3, <1>4, <1>5, <1>6, <1>8 DEF PrepInv

LEMMA PrepStep == PrepInv /\ [PrepNext]_prepVars => PrepInv'
<1> SUFFICES ASSUME PrepInv, [PrepNext]_prepVars PROVE PrepInv'
    OBVIOUS
<1>1. CASE PrepNext
    BY <1>1, MakeRoomKeeps, CreateHelperKeeps, StartHelperKeeps, ValidateCachedKeeps,
       ResolveFreshKeeps, PhaseFailsKeeps, CloseHelperKeeps, SweepRoomKeeps, InterruptedKeeps,
       ProbeBaseProfileKeeps, RefreshIndexesKeeps, PlanPackagesKeeps, ReadBasePackageStateKeeps,
       DownloadPackagesKeeps, InventoryArchivesKeeps, InspectArchivesKeeps,
       PublishBundleArtifactsKeeps, PublishResolvedBundleKeeps, ArchiveChangesKeeps,
       SelectInterpreterKeeps, ResolveWheelsKeeps, InspectClosureKeeps, ObserveSourcesKeeps,
       StageSnapshotsKeeps, OpenBuilderKeeps, OpenBuilderFailsKeeps, BuildSourceDistributionsKeeps,
       RetainDistributionsKeeps, BuildSourceWheelsKeeps, PublishSourceWheelsKeeps,
       CloseBuilderKeeps, StopHelperKeeps, IngestWheelsKeeps, DeveloperEditsKeeps
       DEF PrepNext
<1>2. CASE UNCHANGED prepVars
    BY <1>2, PrepStutters
<1> QED BY <1>1, <1>2

\* The examination found exactly one archive of each selected package.
LEMMA OneArchive ==
    ASSUME PrepInv, ExaminedIsPlan, NEW d \in plan
    PROVE  \E f \in examined : f.deb = d /\ \A g \in examined : g.deb = d => g = f
<1> DEFINE X == {f \in listing : Selected(f) /\ f.deb = d}
           F == {File(d, 2, "seed", 0), File(d, 2, "seed", 1), File(d, 2, "new", 0), File(d, 2, "new", 1)}
<1>1. X \subseteq F
    <2> SUFFICES ASSUME NEW f \in X PROVE f \in F
        OBVIOUS
    <2>1. f \in Archives /\ f.deb = d /\ f.version = 2
        BY DEF PrepInv, AptInv, Selected
    <2>2. f = File(d, 2, f.origin, f.body) /\ f.origin \in {"seed", "new"} /\ f.body \in {0, 1}
        BY <2>1 DEF Archives, File
    <2> QED BY <2>2
<1>2. IsFiniteSet(F)
    <2>1. IsFiniteSet({}) /\ \A S : \A x : IsFiniteSet(S) => IsFiniteSet(S \cup {x})
        BY FS_EmptySet, FS_AddElement
    <2>2. IsFiniteSet({} \cup {File(d, 2, "seed", 0)})
        BY <2>1
    <2>3. IsFiniteSet(({} \cup {File(d, 2, "seed", 0)}) \cup {File(d, 2, "seed", 1)})
        BY <2>1, <2>2
    <2>4. IsFiniteSet((({} \cup {File(d, 2, "seed", 0)}) \cup {File(d, 2, "seed", 1)}) \cup {File(d, 2, "new", 0)})
        BY <2>1, <2>3
    <2>5. IsFiniteSet(((({} \cup {File(d, 2, "seed", 0)}) \cup {File(d, 2, "seed", 1)}) \cup {File(d, 2, "new", 0)})
                        \cup {File(d, 2, "new", 1)})
        BY <2>1, <2>4
    <2>6. F = ((({} \cup {File(d, 2, "seed", 0)}) \cup {File(d, 2, "seed", 1)}) \cup {File(d, 2, "new", 0)})
                        \cup {File(d, 2, "new", 1)}
        OBVIOUS
    <2> HIDE DEF F
    <2> QED BY <2>5, <2>6
<1> HIDE DEF F
<1>3. IsFiniteSet(X)
    BY <1>1, <1>2, FS_Subset
<1>4. Cardinality(X) = 1 /\ examined = {f \in listing : Selected(f)}
    BY DEF ExaminedIsPlan
<1> HIDE DEF X
<1>5. PICK f : X = {f}
    BY <1>3, <1>4, FS_Singleton
<1>6. f \in examined /\ f.deb = d /\ \A g \in examined : g.deb = d => g = f
    BY <1>4, <1>5 DEF X
<1> QED BY <1>6

\* So there are as many archives as selected packages, and none of anything else.
LEMMA ArchivesMatchPlan ==
    ASSUME PrepInv, ExaminedIsPlan
    PROVE  {f.deb : f \in examined} = plan /\ Cardinality(examined) = Cardinality(plan)
<1>1. \A f \in examined : f.deb \in plan
    BY DEF ExaminedIsPlan, Selected
<1>2. {f.deb : f \in examined} = plan
    BY <1>1, OneArchive
<1>3. IsFiniteSet(plan)
    BY PreparationBounds, FS_Subset DEF PrepInv, AptInv
<1> DEFINE pick == [d \in plan |-> CHOOSE f \in examined : f.deb = d]
<1>4. \A d \in plan : pick[d] \in examined /\ pick[d].deb = d
    BY OneArchive
<1>5. \A f \in examined : f.deb \in plan /\ pick[f.deb] = f
    BY <1>1, <1>4, OneArchive
<1>6. pick \in Bijection(plan, examined)
    <2>1. pick \in [plan -> examined]
        BY <1>4
    <2>2. pick \in Injection(plan, examined)
        BY <1>4, <2>1 DEF Injection, IsInjective
    <2>3. pick \in Surjection(plan, examined)
        BY <1>5, <2>1 DEF Surjection
    <2> QED BY <2>2, <2>3 DEF Bijection
<1> HIDE DEF pick
<1>7. Cardinality(examined) = Cardinality(plan)
    <2>1. ExistsBijection(plan, examined)
        BY <1>6 DEF ExistsBijection
    <2> QED BY <1>3, <2>1, FS_Bijection
<1> QED BY <1>2, <1>7

LEMMA PrepInvSound == PrepInv => PreparationSound
<1> SUFFICES ASSUME PrepInv PROVE PreparationSound
    OBVIOUS
<1>1. PrepTypeOK
    <2>1. checkout \in [Locals -> 0..MaxTouches]
        BY PreparationBounds DEF PrepInv, TouchInv
    <2> QED BY <2>1 DEF PrepTypeOK, PrepInv, PrepTypes, TouchInv, AptInv, HouseInv
<1>2. HelpersAccounted
    BY DEF HelpersAccounted, PrepInv, PrepTypes, SessionInv, BuildStages, EndStages
<1>3. CachedFits
    BY DEF PrepInv, SessionInv
<1>4. BundleIsPlan
    <2> SUFFICES ASSUME node = "apt", outcome = "fresh"
                 PROVE  /\ manifest \subseteq stored
                        /\ {f.deb : f \in manifest} = plan /\ Cardinality(manifest) = Cardinality(plan)
                        /\ \A f \in manifest : f \in listing /\ f.version = 2
                        /\ \A f \in stored : f \in examined
        BY DEF BundleIsPlan
    <2>1. ExaminedIsPlan /\ manifest = examined /\ examined \subseteq stored /\ stored \subseteq examined
        BY DEF PrepInv, AptInv
    <2>2. \A f \in examined : f \in listing /\ f.version = 2
        BY <2>1 DEF ExaminedIsPlan, Selected
    <2> QED BY <2>1, <2>2, ArchivesMatchPlan
<1>5. ClosureIsLocal
    <2>1. passes <= Cardinality(Locals) + 1
        <3>1. passes \in Nat /\ passes <= Cardinality(Resolved) + 1
            BY DEF PrepInv, PassInv
        <3> QED BY <3>1, ResolvedFinite
    <2>2. stage = "ingest" => helper = "killed" /\ builder # "running"
        BY DEF PrepInv, SessionInv, BuildStages
    <2>3. ASSUME node = "python", stage \in {"stop", "ingest"} \/ outcome = "fresh"
          PROVE  /\ Direct \subseteq {w.dist : w \in wheelhouse}
                 /\ \A w \in wheelhouse : w \in sources /\ w.kind = "wheel"
                 /\ \A w, x \in wheelhouse : w.dist = x.dist => w = x
        BY <2>3 DEF PrepInv, HouseInv, SourcesInv, Wheels
    <2>4. \A t \in sources : t.tree = t.digest /\ t.tree <= checkout[t.dist]
        BY DEF PrepInv, SourcesInv
    <2> QED BY <2>1, <2>2, <2>3, <2>4 DEF ClosureIsLocal
<1> QED BY <1>1, <1>2, <1>3, <1>4, <1>5 DEF PreparationSound

\* In every behaviour of a node's preparation, for every finite set of packages and of
\* overrides: no helper or builder is left behind unreported, a cached node is used only when
\* it fits, a published bundle is the plan with every archive examined and stored, and an
\* ingested wheelhouse is closed over wheels built here from the trees that were observed, in
\* at most one pass per override and one more (Prepare of the apt and the Python node preparer,
\* InspectArchives, materializeLocalOverrides).
THEOREM PreparationStaysSound == PrepSpec => []PreparationSound
<1>1. PrepSpec => []PrepInv
    BY PrepStarts, PrepStep, PTL DEF PrepSpec
<1> QED BY <1>1, PrepInvSound, PTL

=============================================================================
