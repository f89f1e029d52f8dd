------------------------ MODULE SessionServiceProofs ------------------------
(***************************************************************************)
(* What a controlled session rests on.                                     *)
(*                                                                         *)
(* OwnershipSafe of SessionOwnership.  It is not inductive: whether a      *)
(* record may be dropped depends on the handles the supervisor still has   *)
(* and on which cleanup succeeded, and whether another command may be      *)
(* admitted on the lock and the queue entry.  OwnershipInv says what both  *)
(* stand for at each stage.                                                *)
(*                                                                         *)
(* BrokerSound of SessionBroker.  The host, the client and the broker each *)
(* have a view of the session, one step apart.  HostInv and ViewInv order  *)
(* the views, OpenInv and ChannelInv say what is open, and CountInv        *)
(* accounts for every input and output that is under way.                  *)
(*                                                                         *)
(* Last, its containers and their network.  PlanSound of SessionPlan       *)
(* follows from the order of paths (two above one path are on one line,    *)
(* and paths keep their order when they are moved), for mounts anywhere.   *)
(* NetworkSound of SessionNetwork has two parts: the packet filter, whose  *)
(* rules are taken list by list (RulesInTurn), and NetInv, which counts    *)
(* the faults it takes to lose the network's identity and says where the   *)
(* containers are.                                                         *)
(***************************************************************************)
EXTENDS SessionOwnership, SessionBroker, SessionNetwork, SequenceTheorems, TLAPS

-----------------------------------------------------------------------------
(* Ownership: the inductive invariant                                       *)

\* The stages in which the resources of a session are created.
Creation == {"network", "channel", "controller", "workload", "commit"}

OwnershipTypes ==
    /\ step \in OwnershipStages
    /\ exists \subseteq Resources /\ handles \subseteq Resources
    /\ owned \in BOOLEAN /\ entry \in BOOLEAN /\ locked \in BOOLEAN
    /\ wrote \in BOOLEAN /\ released \in BOOLEAN /\ verified \in BOOLEAN
    /\ incomplete \in BOOLEAN /\ preOK \in BOOLEAN /\ tailOK \in BOOLEAN
    /\ replaced \in BOOLEAN
    /\ watchdog \in {"none", "armed", "exited"}

\* The operation lock is held by a supervisor that lives and has not released it.
LockInv ==
    /\ Alive => (locked <=> ~released)
    /\ ~Alive => ~locked

\* Before the plan is recorded nothing exists, and while the session is prepared whatever
\* exists has a handle and an owner on record.
StageInv ==
    /\ step = "plan" => exists = {} /\ handles = {} /\ ~released /\ ~verified /\ ~incomplete
    /\ step \in Creation =>
          /\ owned /\ wrote /\ exists \subseteq handles
          /\ ~released /\ ~verified /\ ~incomplete
    /\ step \in {"arm", "start", "live"} => released

\* Nothing exists that the supervisor has no handle for, once it has the right to release
\* the lock or the preparation rolled back.
HandleInv ==
    /\ Alive /\ ~wrote => exists = {}
    /\ Alive /\ (released \/ ("network" \notin handles /\ (verified \/ incomplete)))
          => exists \subseteq handles

\* The entry of the session stays in the queue while it holds the lock, and a supervisor
\* that lost its entry has no container left.
EntryInv ==
    /\ Alive /\ ~released => entry /\ ~replaced
    /\ Alive /\ ~entry => exists \cap Containers = {}

\* What a cleanup that succeeded was given a handle for is gone.
CleanedInv ==
    /\ step \in {"tail", "disarm", "finish"} /\ preOK /\ "workload" \in handles
          => "workload" \notin exists
    /\ step \in {"disarm", "finish"} /\ tailOK
          => exists \cap handles \cap {"channel", "controller", "network"} = {}

\* The inductive invariant.
OwnershipInv ==
    /\ OwnershipTypes /\ LockInv /\ StageInv /\ HandleInv /\ EntryInv /\ CleanedInv
    /\ OwnershipCoversResources /\ ReplacementWaitsForCleanup

LEMMA CreatingNames ==
    /\ DOMAIN Creating = {"network", "channel", "controller", "workload"}
    /\ \A s \in DOMAIN Creating : Creating[s] = s
BY DEF Creating

LEMMA RecordPlanKeeps ==
    ASSUME OwnershipInv, RecordPlan PROVE OwnershipInv'
<1> USE CreatingNames DEF OwnershipInv, OwnershipTypes, Alive, Containers, Resources,
        OwnershipStages, Creation, verdicts, RecordPlan, Fail
<1>1. OwnershipTypes'
    <2>1. step' \in OwnershipStages /\ exists' \subseteq Resources /\ handles' \subseteq Resources
        OBVIOUS
    <2>2. {owned', entry', locked', wrote', released'} \subseteq BOOLEAN
        OBVIOUS
    <2>3. {verified', incomplete', preOK', tailOK', replaced'} \subseteq BOOLEAN
        OBVIOUS
    <2>4. watchdog' \in {"none", "armed", "exited"}
        OBVIOUS
    <2> QED BY <2>1, <2>2, <2>3, <2>4
<1>2. LockInv'
    BY DEF LockInv
<1>3. StageInv'
    BY DEF StageInv
<1>4. HandleInv'
    BY DEF StageInv, HandleInv
<1>5. EntryInv'
    BY DEF EntryInv
<1>6. CleanedInv'
    BY DEF CleanedInv
<1>7. OwnershipCoversResources'
    BY DEF OwnershipCoversResources, StageInv
<1>8. ReplacementWaitsForCleanup'
    BY DEF ReplacementWaitsForCleanup, ReplacementMeetsNoContainer, PartialWithNetwork
<1> QED BY <1>1, <1>2, <1>3, <1>4, <1>5, <1>6, <1>7, <1>8

LEMMA CreateRefusedKeeps ==
    ASSUME OwnershipInv, CreateRefused PROVE OwnershipInv'
<1> USE CreatingNames DEF OwnershipInv, OwnershipTypes, Alive, Containers, Resources,
        OwnershipStages, Creation, verdicts, durable, CreateRefused, Fail
<1>1. OwnershipTypes'
    OBVIOUS
<1>2. LockInv'
    BY DEF LockInv
<1>3. StageInv'
    BY DEF StageInv
<1>4. HandleInv'
    BY DEF StageInv, HandleInv
<1>5. EntryInv'
    BY DEF EntryInv
<1>6. CleanedInv'
    BY DEF CleanedInv
<1>7. OwnershipCoversResources'
    BY DEF OwnershipCoversResources, PartialWithNetwork
<1>8. ReplacementWaitsForCleanup'
    BY DEF ReplacementWaitsForCleanup, ReplacementMeetsNoContainer, PartialWithNetwork
<1> QED BY <1>1, <1>2, <1>3, <1>4, <1>5, <1>6, <1>7, <1>8

LEMMA CreateAmbiguousKeeps ==
    ASSUME OwnershipInv, CreateAmbiguous PROVE OwnershipInv'
<1> USE CreatingNames DEF OwnershipInv, OwnershipTypes, Alive, Containers, Resources,
        OwnershipStages, Creation, flags, verdicts, durable, CreateAmbiguous, Fail
<1>1. OwnershipTypes'
    OBVIOUS
<1>2. LockInv'
    BY DEF LockInv
<1>3. StageInv'
    BY DEF StageInv
<1>4. HandleInv'
    BY DEF StageInv, HandleInv
<1>5. EntryInv'
    BY DEF StageInv, EntryInv
<1>6. CleanedInv'
    BY DEF CleanedInv
<1>7. OwnershipCoversResources'
    BY DEF OwnershipCoversResources, StageInv
<1>8. ReplacementWaitsForCleanup'
    BY DEF ReplacementWaitsForCleanup, ReplacementMeetsNoContainer, EntryInv, StageInv
<1> QED BY <1>1, <1>2, <1>3, <1>4, <1>5, <1>6, <1>7, <1>8

LEMMA CreateRolledBackKeeps ==
    ASSUME OwnershipInv, CreateRolledBack PROVE OwnershipInv'
<1> USE CreatingNames DEF OwnershipInv, OwnershipTypes, Alive, Containers, Resources,
        OwnershipStages, Creation, verdicts, durable, CreateRolledBack, Fail
<1>1. OwnershipTypes'
    <2>1. step' \in OwnershipStages /\ exists' \subseteq Resources /\ handles' \subseteq Resources
        OBVIOUS
    <2>2. {owned', entry', locked', wrote', released'} \subseteq BOOLEAN
        OBVIOUS
    <2>3. {verified', incomplete', preOK', tailOK', replaced'} \subseteq BOOLEAN
        OBVIOUS
    <2>4. watchdog' \in {"none", "armed", "exited"}
        OBVIOUS
    <2> QED BY <2>1, <2>2, <2>3, <2>4
<1>2. LockInv'
    BY DEF LockInv
<1>3. StageInv'
    BY DEF StageInv
<1>4. HandleInv'
    <2>1. step' = "pre" /\ owned /\ wrote' = wrote /\ wrote /\ ~released' /\ ~incomplete'
        BY DEF StageInv
    <2>2. verified' => exists' \subseteq handles'
        BY DEF StageInv
    <2> QED BY <2>1, <2>2 DEF HandleInv
<1>5. EntryInv'
    BY DEF StageInv, EntryInv
<1>6. CleanedInv'
    BY DEF CleanedInv
<1>7. OwnershipCoversResources'
    BY DEF OwnershipCoversResources, StageInv
<1>8. ReplacementWaitsForCleanup'
    BY DEF ReplacementWaitsForCleanup, ReplacementMeetsNoContainer, EntryInv, StageInv
<1> QED BY <1>1, <1>2, <1>3, <1>4, <1>5, <1>6, <1>7, <1>8

LEMMA ControllerUnrecordedKeeps ==
    ASSUME OwnershipInv, ControllerUnrecorded PROVE OwnershipInv'
<1> USE CreatingNames DEF OwnershipInv, OwnershipTypes, Alive, Containers, Resources,
        OwnershipStages, Creation, verdicts, durable, ControllerUnrecorded, Fail
<1>1. OwnershipTypes'
    OBVIOUS
<1>2. LockInv'
    BY DEF LockInv
<1>3. StageInv'
    BY DEF StageInv
<1>4. HandleInv'
    BY DEF StageInv, HandleInv
<1>5. EntryInv'
    BY DEF StageInv, EntryInv
<1>6. CleanedInv'
    BY DEF CleanedInv
<1>7. OwnershipCoversResources'
    BY DEF OwnershipCoversResources, StageInv
<1>8. ReplacementWaitsForCleanup'
    BY DEF ReplacementWaitsForCleanup, ReplacementMeetsNoContainer, EntryInv, StageInv
<1> QED BY <1>1, <1>2, <1>3, <1>4, <1>5, <1>6, <1>7, <1>8

LEMMA ChannelFailsKeeps ==
    ASSUME OwnershipInv, ChannelFails PROVE OwnershipInv'
<1> USE CreatingNames DEF OwnershipInv, OwnershipTypes, Alive, Containers, Resources,
        OwnershipStages, Creation, verdicts, durable, ChannelFails, Fail
<1>1. OwnershipTypes'
    OBVIOUS
<1>2. LockInv'
    BY DEF LockInv
<1>3. StageInv'
    BY DEF StageInv
<1>4. HandleInv'
    BY DEF StageInv, HandleInv
<1>5. EntryInv'
    BY DEF EntryInv
<1>6. CleanedInv'
    BY DEF CleanedInv
<1>7. OwnershipCoversResources'
    BY DEF OwnershipCoversResources, StageInv
<1>8. ReplacementWaitsForCleanup'
    BY DEF ReplacementWaitsForCleanup, ReplacementMeetsNoContainer, PartialWithNetwork
<1> QED BY <1>1, <1>2, <1>3, <1>4, <1>5, <1>6, <1>7, <1>8

LEMMA CreateKeeps ==
    ASSUME OwnershipInv, Create PROVE OwnershipInv'
<1> USE CreatingNames DEF OwnershipInv, OwnershipTypes, Alive, Containers, Resources,
        OwnershipStages, Creation, flags, verdicts, durable, Create, Fail
<1>0. step \in {"network", "channel", "controller", "workload"} /\ Creating[step] = step
    OBVIOUS
<1>1. OwnershipTypes'
    <2>1. exists' \subseteq Resources /\ handles' \subseteq Resources
        BY <1>0
    <2>2. step' \in {"channel", "controller", "workload", "commit", "pre"}
        BY <1>0
    <2> QED BY <2>1, <2>2
<1>2. LockInv'
    BY DEF LockInv
<1>3. StageInv'
    <2>1. step' \in {"channel", "controller", "workload", "commit", "pre"}
        BY <1>0
    <2>2. exists' \subseteq handles'
        BY <1>0 DEF StageInv
    <2>3. step \in Creation
        BY <1>0
    <2> QED BY <2>1, <2>2, <2>3 DEF StageInv
<1>4. HandleInv'
    BY DEF StageInv, HandleInv
<1>5. EntryInv'
    BY DEF StageInv, EntryInv
<1>6. CleanedInv'
    BY DEF CleanedInv
<1>7. OwnershipCoversResources'
    BY DEF OwnershipCoversResources, StageInv
<1>8. ReplacementWaitsForCleanup'
    BY DEF ReplacementWaitsForCleanup, ReplacementMeetsNoContainer, EntryInv, StageInv
<1> QED BY <1>1, <1>2, <1>3, <1>4, <1>5, <1>6, <1>7, <1>8

LEMMA CommitKeeps ==
    ASSUME OwnershipInv, Commit PROVE OwnershipInv'
<1> USE CreatingNames DEF OwnershipInv, OwnershipTypes, Alive, Containers, Resources,
        OwnershipStages, Creation, verdicts, durable, Commit, Fail
<1>1. OwnershipTypes'
    <2>1. step' \in OwnershipStages /\ exists' \subseteq Resources /\ handles' \subseteq Resources
        OBVIOUS
    <2>2. {owned', entry', locked', wrote', released'} \subseteq BOOLEAN
        OBVIOUS
    <2>3. {verified', incomplete', preOK', tailOK', replaced'} \subseteq BOOLEAN
        OBVIOUS
    <2>4. watchdog' \in {"none", "armed", "exited"}
        OBVIOUS
    <2> QED BY <2>1, <2>2, <2>3, <2>4
<1>2. LockInv'
    BY DEF LockInv
<1>3. StageInv'
    BY DEF StageInv
<1>4. HandleInv'
    BY DEF StageInv, HandleInv
<1>5. EntryInv'
    BY DEF EntryInv
<1>6. CleanedInv'
    BY DEF CleanedInv
<1>7. OwnershipCoversResources'
    BY DEF OwnershipCoversResources, PartialWithNetwork
<1>8. ReplacementWaitsForCleanup'
    BY DEF ReplacementWaitsForCleanup, ReplacementMeetsNoContainer, PartialWithNetwork
<1> QED BY <1>1, <1>2, <1>3, <1>4, <1>5, <1>6, <1>7, <1>8

LEMMA ArmKeeps ==
    ASSUME OwnershipInv, Arm PROVE OwnershipInv'
<1> USE CreatingNames DEF OwnershipInv, OwnershipTypes, Alive, Containers, Resources,
        OwnershipStages, Creation, flags, verdicts, durable, Arm, Fail
<1>1. OwnershipTypes'
    OBVIOUS
<1>2. LockInv'
    BY DEF LockInv
<1>3. StageInv'
    BY DEF StageInv
<1>4. HandleInv'
    BY DEF HandleInv
<1>5. EntryInv'
    BY DEF EntryInv
<1>6. CleanedInv'
    BY DEF CleanedInv
<1>7. OwnershipCoversResources'
    BY DEF OwnershipCoversResources, PartialWithNetwork
<1>8. ReplacementWaitsForCleanup'
    BY DEF ReplacementWaitsForCleanup, ReplacementMeetsNoContainer, PartialWithNetwork
<1> QED BY <1>1, <1>2, <1>3, <1>4, <1>5, <1>6, <1>7, <1>8

LEMMA StartSessionKeeps ==
    ASSUME OwnershipInv, StartSession PROVE OwnershipInv'
<1> USE CreatingNames DEF OwnershipInv, OwnershipTypes, Alive, Containers, Resources,
        OwnershipStages, Creation, flags, verdicts, durable, StartSession, Fail
<1>1. OwnershipTypes'
    <2>1. exists' \subseteq Resources
        OBVIOUS
    <2> QED BY <2>1
<1>2. LockInv'
    BY DEF LockInv
<1>3. StageInv'
    BY DEF StageInv
<1>4. HandleInv'
    BY DEF HandleInv
<1>5. EntryInv'
    BY DEF EntryInv
<1>6. CleanedInv'
    BY DEF CleanedInv
<1>7. OwnershipCoversResources'
    BY DEF OwnershipCoversResources, PartialWithNetwork
<1>8. ReplacementWaitsForCleanup'
    BY DEF ReplacementWaitsForCleanup, ReplacementMeetsNoContainer, PartialWithNetwork
<1> QED BY <1>1, <1>2, <1>3, <1>4, <1>5, <1>6, <1>7, <1>8

LEMMA SessionEndsKeeps ==
    ASSUME OwnershipInv, SessionEnds PROVE OwnershipInv'
<1> USE CreatingNames DEF OwnershipInv, OwnershipTypes, Alive, Containers, Resources,
        OwnershipStages, Creation, flags, verdicts, durable, SessionEnds
<1>1. OwnershipTypes'
    OBVIOUS
<1>2. LockInv'
    BY DEF LockInv
<1>3. StageInv'
    BY DEF StageInv
<1>4. HandleInv'
    BY DEF HandleInv
<1>5. EntryInv'
    BY DEF EntryInv
<1>6. CleanedInv'
    BY DEF CleanedInv
<1>7. OwnershipCoversResources'
    BY DEF OwnershipCoversResources, PartialWithNetwork
<1>8. ReplacementWaitsForCleanup'
    BY DEF ReplacementWaitsForCleanup, ReplacementMeetsNoContainer, PartialWithNetwork
<1> QED BY <1>1, <1>2, <1>3, <1>4, <1>5, <1>6, <1>7, <1>8

LEMMA PreCleanupKeeps ==
    ASSUME OwnershipInv, PreCleanup PROVE OwnershipInv'
<1> USE CreatingNames DEF OwnershipInv, OwnershipTypes, Alive, Containers, Resources,
        OwnershipStages, Creation, durable, PreCleanup, CleanUp
<1>1. OwnershipTypes'
    OBVIOUS
<1>2. LockInv'
    BY DEF LockInv
<1>3. StageInv'
    BY DEF StageInv
<1>4. HandleInv'
    BY DEF HandleInv
<1>5. EntryInv'
    BY DEF EntryInv
<1>6. CleanedInv'
    <2>1. step' = "tail" /\ handles' = handles
        OBVIOUS
    <2>2. ASSUME "workload" \in handles, preOK' PROVE "workload" \notin exists'
        <3> DEFINE ts == handles \cap {"workload", "network"}
        <3>1. PICK errs \in SUBSET ts : CleanUp(ts, errs) /\ preOK' \in {errs = {}, errs = {} /\ ts = {}}
            BY <2>2
        <3>2. errs = {}
            BY <2>2, <3>1
        <3> QED BY <2>2, <3>1, <3>2 DEF CleanUp
    <2> HIDE DEF PreCleanup
    <2> QED BY <2>1, <2>2 DEF CleanedInv
<1>7. OwnershipCoversResources'
    BY DEF OwnershipCoversResources, PartialWithNetwork
<1>8. ReplacementWaitsForCleanup'
    BY DEF ReplacementWaitsForCleanup, ReplacementMeetsNoContainer, PartialWithNetwork
<1> QED BY <1>1, <1>2, <1>3, <1>4, <1>5, <1>6, <1>7, <1>8

LEMMA TailCleanupKeeps ==
    ASSUME OwnershipInv, TailCleanup PROVE OwnershipInv'
<1> USE CreatingNames DEF OwnershipInv, OwnershipTypes, Alive, Containers, Resources,
        OwnershipStages, Creation, durable, TailCleanup, CleanUp
<1>1. OwnershipTypes'
    OBVIOUS
<1>2. LockInv'
    BY DEF LockInv
<1>3. StageInv'
    BY DEF StageInv
<1>4. HandleInv'
    BY DEF HandleInv
<1>5. EntryInv'
    BY DEF EntryInv
<1>6. CleanedInv'
    BY DEF CleanedInv
<1>7. OwnershipCoversResources'
    BY DEF OwnershipCoversResources, PartialWithNetwork
<1>8. ReplacementWaitsForCleanup'
    BY DEF ReplacementWaitsForCleanup, ReplacementMeetsNoContainer, PartialWithNetwork
<1> QED BY <1>1, <1>2, <1>3, <1>4, <1>5, <1>6, <1>7, <1>8

LEMMA DisarmKeeps ==
    ASSUME OwnershipInv, Disarm PROVE OwnershipInv'
<1> USE CreatingNames DEF OwnershipInv, OwnershipTypes, Alive, Containers, Resources,
        OwnershipStages, Creation, flags, durable, Disarm, Removable
<1>1. OwnershipTypes'
    OBVIOUS
<1>2. LockInv'
    BY DEF LockInv
<1>3. StageInv'
    BY DEF StageInv
<1>4. HandleInv'
    BY DEF HandleInv
<1>5. EntryInv'
    BY DEF EntryInv
<1>6. CleanedInv'
    BY DEF CleanedInv
<1>7. OwnershipCoversResources'
    BY DEF OwnershipCoversResources, PartialWithNetwork
<1>8. ReplacementWaitsForCleanup'
    BY DEF ReplacementWaitsForCleanup, ReplacementMeetsNoContainer, PartialWithNetwork
<1> QED BY <1>1, <1>2, <1>3, <1>4, <1>5, <1>6, <1>7, <1>8

LEMMA FinishSessionKeeps ==
    ASSUME OwnershipInv, FinishSession PROVE OwnershipInv'
<1> USE CreatingNames DEF OwnershipInv, OwnershipTypes, Alive, Containers, Resources,
        OwnershipStages, Creation, flags, verdicts, durable, FinishSession, CanComplete
<1>1. OwnershipTypes'
    OBVIOUS
<1>2. LockInv'
    BY DEF LockInv
<1>3. StageInv'
    BY DEF StageInv
<1>4. HandleInv'
    BY DEF HandleInv
<1>5. EntryInv'
    BY DEF EntryInv
<1>6. CleanedInv'
    BY DEF CleanedInv
<1>7. OwnershipCoversResources'
    BY DEF OwnershipCoversResources, PartialWithNetwork, HandleInv, CleanedInv
<1>8. ReplacementWaitsForCleanup'
    BY DEF ReplacementWaitsForCleanup, ReplacementMeetsNoContainer, PartialWithNetwork
<1> QED BY <1>1, <1>2, <1>3, <1>4, <1>5, <1>6, <1>7, <1>8

LEMMA SupervisorCrashKeeps ==
    ASSUME OwnershipInv, SupervisorCrash PROVE OwnershipInv'
<1> USE CreatingNames DEF OwnershipInv, OwnershipTypes, Alive, Containers, Resources,
        OwnershipStages, Creation, flags, verdicts, durable, SupervisorCrash
<1>1. OwnershipTypes'
    <2>1. exists' \subseteq Resources
        OBVIOUS
    <2> QED BY <2>1
<1>2. LockInv'
    BY DEF LockInv
<1>3. StageInv'
    BY DEF StageInv
<1>4. HandleInv'
    BY DEF HandleInv
<1>5. EntryInv'
    BY DEF EntryInv
<1>6. CleanedInv'
    BY DEF CleanedInv
<1>7. OwnershipCoversResources'
    BY DEF OwnershipCoversResources, PartialWithNetwork, StageInv
<1>8. ReplacementWaitsForCleanup'
    BY DEF ReplacementWaitsForCleanup, ReplacementMeetsNoContainer, PartialWithNetwork,
       EntryInv, StageInv
<1> QED BY <1>1, <1>2, <1>3, <1>4, <1>5, <1>6, <1>7, <1>8

LEMMA WatchdogAttemptKeeps ==
    ASSUME OwnershipInv, WatchdogAttempt PROVE OwnershipInv'
<1> USE CreatingNames DEF OwnershipInv, OwnershipTypes, Alive, Containers, Resources,
        OwnershipStages, Creation, flags, verdicts, durable, WatchdogAttempt, Removable
<1>1. OwnershipTypes'
    OBVIOUS
<1>2. LockInv'
    BY DEF LockInv
<1>3. StageInv'
    BY DEF StageInv
<1>4. HandleInv'
    BY DEF HandleInv
<1>5. EntryInv'
    BY DEF EntryInv
<1>6. CleanedInv'
    BY DEF CleanedInv
<1>7. OwnershipCoversResources'
    BY DEF OwnershipCoversResources, PartialWithNetwork
<1>8. ReplacementWaitsForCleanup'
    BY DEF ReplacementWaitsForCleanup, ReplacementMeetsNoContainer, PartialWithNetwork
<1> QED BY <1>1, <1>2, <1>3, <1>4, <1>5, <1>6, <1>7, <1>8

LEMMA WatchdogDiesKeeps ==
    ASSUME OwnershipInv, WatchdogDies PROVE OwnershipInv'
<1> USE CreatingNames DEF OwnershipInv, OwnershipTypes, Alive, Containers, Resources,
        OwnershipStages, Creation, flags, verdicts, durable, WatchdogDies
<1>1. OwnershipTypes'
    OBVIOUS
<1>2. LockInv'
    BY DEF LockInv
<1>3. StageInv'
    BY DEF StageInv
<1>4. HandleInv'
    BY DEF HandleInv
<1>5. EntryInv'
    BY DEF EntryInv
<1>6. CleanedInv'
    BY DEF CleanedInv
<1>7. OwnershipCoversResources'
    BY DEF OwnershipCoversResources, PartialWithNetwork
<1>8. ReplacementWaitsForCleanup'
    BY DEF ReplacementWaitsForCleanup, ReplacementMeetsNoContainer, PartialWithNetwork
<1> QED BY <1>1, <1>2, <1>3, <1>4, <1>5, <1>6, <1>7, <1>8

LEMMA StopSessionKeeps ==
    ASSUME OwnershipInv, StopSession PROVE OwnershipInv'
<1> USE CreatingNames DEF OwnershipInv, OwnershipTypes, Alive, Containers, Resources,
        OwnershipStages, Creation, flags, verdicts, StopSession
<1>1. OwnershipTypes'
    <2>1. step' \in OwnershipStages /\ exists' \subseteq Resources /\ handles' \subseteq Resources
        OBVIOUS
    <2>2. {owned', entry', locked', wrote', released'} \subseteq BOOLEAN
        OBVIOUS
    <2>3. {verified', incomplete', preOK', tailOK', replaced'} \subseteq BOOLEAN
        OBVIOUS
    <2>4. watchdog' \in {"none", "armed", "exited"}
        OBVIOUS
    <2> QED BY <2>1, <2>2, <2>3, <2>4
<1>2. LockInv'
    BY DEF LockInv
<1>3. StageInv'
    BY DEF StageInv
<1>4. HandleInv'
    BY DEF HandleInv
<1>5. EntryInv'
    BY DEF LockInv, EntryInv
<1>6. CleanedInv'
    BY DEF CleanedInv
<1>7. OwnershipCoversResources'
    BY DEF OwnershipCoversResources, PartialWithNetwork
<1>8. ReplacementWaitsForCleanup'
    BY DEF ReplacementWaitsForCleanup, ReplacementMeetsNoContainer
<1> QED BY <1>1, <1>2, <1>3, <1>4, <1>5, <1>6, <1>7, <1>8

LEMMA NextCommandKeeps ==
    ASSUME OwnershipInv, NextCommand PROVE OwnershipInv'
<1> USE CreatingNames DEF OwnershipInv, OwnershipTypes, Alive, Containers, Resources,
        OwnershipStages, Creation, flags, verdicts, durable, NextCommand, Removable
<1>1. OwnershipTypes'
    OBVIOUS
<1>2. LockInv'
    BY DEF LockInv
<1>3. StageInv'
    BY DEF StageInv
<1>4. HandleInv'
    BY DEF HandleInv
<1>5. EntryInv'
    BY DEF EntryInv
<1>6. CleanedInv'
    BY DEF CleanedInv
<1>7. OwnershipCoversResources'
    BY DEF OwnershipCoversResources, PartialWithNetwork
<1>8. ReplacementWaitsForCleanup'
    BY DEF OwnershipCoversResources, ReplacementWaitsForCleanup,
       ReplacementMeetsNoContainer, PartialWithNetwork, EntryInv
<1> QED BY <1>1, <1>2, <1>3, <1>4, <1>5, <1>6, <1>7, <1>8

LEMMA OwnershipStutters ==
    ASSUME OwnershipInv, UNCHANGED ownershipVars PROVE OwnershipInv'
BY DEF ownershipVars, flags, verdicts, durable, OwnershipInv, OwnershipTypes, LockInv, StageInv,
       HandleInv, EntryInv, CleanedInv, OwnershipCoversResources, ReplacementWaitsForCleanup,
       ReplacementMeetsNoContainer, PartialWithNetwork, Alive

LEMMA OwnershipStep ==
    ASSUME OwnershipInv, [OwnershipNext]_ownershipVars PROVE OwnershipInv'
<1>1. CASE RecordPlan
    BY <1>1, RecordPlanKeeps
<1>2. CASE CreateRefused
    BY <1>2, CreateRefusedKeeps
<1>3. CASE CreateAmbiguous
    BY <1>3, CreateAmbiguousKeeps
<1>4. CASE CreateRolledBack
    BY <1>4, CreateRolledBackKeeps
<1>5. CASE ControllerUnrecorded
    BY <1>5, ControllerUnrecordedKeeps
<1>6. CASE ChannelFails
    BY <1>6, ChannelFailsKeeps
<1>7. CASE Create
    BY <1>7, CreateKeeps
<1>8. CASE Commit
    BY <1>8, CommitKeeps
<1>9. CASE Arm
    BY <1>9, ArmKeeps
<1>10. CASE StartSession
    BY <1>10, StartSessionKeeps
<1>11. CASE SessionEnds
    BY <1>11, SessionEndsKeeps
<1>12. CASE PreCleanup
    BY <1>12, PreCleanupKeeps
<1>13. CASE TailCleanup
    BY <1>13, TailCleanupKeeps
<1>14. CASE Disarm
    BY <1>14, DisarmKeeps
<1>15. CASE FinishSession
    BY <1>15, FinishSessionKeeps
<1>16. CASE SupervisorCrash
    BY <1>16, SupervisorCrashKeeps
<1>17. CASE WatchdogAttempt
    BY <1>17, WatchdogAttemptKeeps
<1>18. CASE WatchdogDies
    BY <1>18, WatchdogDiesKeeps
<1>19. CASE StopSession
    BY <1>19, StopSessionKeeps
<1>20. CASE NextCommand
    BY <1>20, NextCommandKeeps
<1>21. CASE UNCHANGED ownershipVars
    BY <1>21, OwnershipStutters
<1> QED
    BY <1>1, <1>2, <1>3, <1>4, <1>5, <1>6, <1>7, <1>8, <1>9, <1>10, <1>11, <1>12, <1>13, <1>14,
       <1>15, <1>16, <1>17, <1>18, <1>19, <1>20, <1>21 DEF OwnershipNext, Prepare

LEMMA OwnershipStarts == OwnershipInit => OwnershipInv
BY DEF OwnershipInit, OwnershipInv, OwnershipTypes, OwnershipStages, LockInv, StageInv,
   HandleInv,
       EntryInv, CleanedInv, OwnershipCoversResources, ReplacementWaitsForCleanup,
       ReplacementMeetsNoContainer, PartialWithNetwork, Alive, Creation

LEMMA OwnershipInvIsSafe == OwnershipInv => OwnershipSafe
<1> SUFFICES ASSUME OwnershipInv PROVE OwnershipSafe
    OBVIOUS
<1>1. {owned, entry, locked, wrote, released, verified, incomplete, preOK, tailOK, replaced}
         \subseteq BOOLEAN
    BY DEF OwnershipInv, OwnershipTypes
<1>2. OwnershipTypeOK
    BY <1>1 DEF OwnershipInv, OwnershipTypes, LockInv, OwnershipTypeOK
<1> QED BY <1>2 DEF OwnershipInv, OwnershipSafe

\* Through every failure of a preparation, every failed cleanup and every crash of the
\* supervisor and its watchdog: what a session created is covered by its ownership record
\* until it is gone, and no other command is admitted beside its containers, except after
\* the preparation that failed with the network in place (prepare, cleanupWorkload,
\* cleanupDeliveryTail, cleanupControlledSessionAfterParentLossV1 and the recovery).
THEOREM OwnershipIsSafe == OwnershipSpec => []OwnershipSafe
<1>1. OwnershipInit => OwnershipInv
    BY OwnershipStarts
<1>2. OwnershipInv /\ [OwnershipNext]_ownershipVars => OwnershipInv'
    BY OwnershipStep
<1>3. OwnershipInv => OwnershipSafe
    BY OwnershipInvIsSafe
<1> QED BY <1>1, <1>2, <1>3, PTL DEF OwnershipSpec

-----------------------------------------------------------------------------
(* The broker: the inductive invariant                                      *)

\* The records of the channel, its two ends, the broker and what is attached to it.
ChannelRecords ==
    [claim : {"none", "accepted", "retired", "stored", "claimed", "failed"}, closed : BOOLEAN,
     path : BOOLEAN, connection : {"none", "open", "closed"}, stored : BOOLEAN]

HostRecords ==
    [sent : SUBSET LifecycleEvents, outputs : Nat, exited : BOOLEAN, drained : BOOLEAN,
     got : SUBSET (PublicRequests \cup Granted), inputs : Nat]

ClientRecords ==
    [opened : BOOLEAN, held : LifecycleEvents \cup {NoEvent, "opened", "output"},
     ready : BOOLEAN, terminated : BOOLEAN]

Causes ==
    {"none", "transport", "attach-timeout", "buffer", "not-granted", "typed-refused", "overtaken",
     "rejected", "out-of-order", "public-stream", "terminal", "canceled"}

BrokerRecords ==
    [at : {"setup", "loop", "returned", "failed"}, terminal : BOOLEAN, operations : SUBSET Granted,
     seen : SUBSET LifecycleEvents, complete : BOOLEAN, acknowledged : BOOLEAN, ended : BOOLEAN,
     resize : BOOLEAN, pending : 0..MaxPending, taken : Nat, output : {"none", "pending"},
     cause : Causes]

AttachmentRecords ==
    [state : {"starting", "attached", "gone"}, typed : Nat, flight : {NoEvent, "input", "resize"},
     shown : Nat, end : BOOLEAN]

StreamRecords ==
    [flight : PublicRequests \cup {NoEvent}, requests : Nat,
     events : SUBSET (LifecycleEvents \cup {"opened"}), open : BOOLEAN]

BrokerTypes ==
    /\ channel \in ChannelRecords /\ hostEnd \in HostRecords /\ client \in ClientRecords
    /\ broker \in BrokerRecords /\ attachment \in AttachmentRecords /\ stream \in StreamRecords

\* The stages of the claim, and what a closed channel keeps
ChannelInv ==
    /\ channel.closed => ~channel.path
    /\ channel.claim = "none" => channel.connection = "none"
    /\ channel.claim \in {"none", "accepted", "retired"} => ~channel.stored
    /\ channel.claim \in {"accepted", "retired"} => channel.connection = "open"
    /\ channel.claim \in {"stored", "claimed"} => channel.stored /\ channel.connection # "none"
    /\ channel.stored /\ channel.closed => channel.connection # "open"
    /\ channel.claim = "failed" => channel.connection # "open"

\* What the host sent is in its order, and the client's flags follow it.
HostInv ==
    /\ hostEnd.drained => "outputs-finalized" \in hostEnd.sent
    /\ "outputs-finalized" \in hostEnd.sent => "terminating" \in hostEnd.sent
    /\ hostEnd.drained /\ "ready" \in hostEnd.sent => hostEnd.exited
    /\ {"ready", "terminated"} \subseteq hostEnd.sent => "outputs-finalized" \in hostEnd.sent
    /\ client.ready <=> "ready" \in hostEnd.sent
    /\ client.terminated <=> "terminated" \in hostEnd.sent

\* Where the opened event is, and that nothing happens before it
OpenInv ==
    /\ client.opened \/ client.held # NoEvent => channel.claim = "claimed"
    /\ ~client.opened => client.held \in {NoEvent, "opened"}
    /\ client.opened => client.held # "opened"
    /\ broker.at = "loop" => client.opened
    /\ broker.at = "setup" =>
          /\ hostEnd.sent = {} /\ broker.seen = {} /\ client.held \in {NoEvent, "opened"}
          /\ ~attachment.end

\* The event under way, and what the broker has seen of what the host sent
ViewInv ==
    broker.at = "loop" =>
        /\ client.held \in LifecycleEvents =>
              client.held \in hostEnd.sent /\ client.held \notin broker.seen
        /\ client.held = "ready" => "terminating" \notin hostEnd.sent
        /\ client.held = "output" => hostEnd.sent \cap {"outputs-finalized", "terminated"} = {}
        /\ client.held = "workload-exit" => "outputs-finalized" \notin hostEnd.sent
        /\ "terminated" \in broker.seen => client.held = NoEvent
        /\ hostEnd.sent \subseteq broker.seen \cup {client.held}
        /\ broker.seen \subseteq hostEnd.sent \cup {"outputs-finalized"}
        /\ "outputs-finalized" \in broker.seen =>
              /\ broker.ended
              /\ "outputs-finalized" \in hostEnd.sent \/ "terminated" \in broker.seen

\* Nobody was told of an acknowledgement or an end that is not one.
ShownInv ==
    /\ "terminated" \in broker.seen => "terminated" \in stream.events
    /\ broker.acknowledged => "terminated" \in broker.seen /\ "acknowledge" \in hostEnd.got
    /\ AcknowledgedWasShown
    /\ SuccessEarned

\* The output that is between the host and the terminal.
Waiting == (IF broker.output = "pending" THEN 1 ELSE 0) + (IF client.held = "output" THEN 1 ELSE 0)

\* What was typed is delivered or pending, what was put out is shown or waiting.
CountInv ==
    /\ Running => broker.taken = hostEnd.inputs + broker.pending
    /\ Running /\ "ready" \in broker.seen => broker.pending = 0
    /\ Running => hostEnd.outputs = attachment.shown + Waiting
    /\ attachment.end => attachment.shown = hostEnd.outputs
    /\ Running /\ attachment.end => hostEnd.sent \cap {"outputs-finalized", "terminated"} # {}

\* Why the broker failed.
CauseInv ==
    /\ broker.cause # "none" => broker.at = "failed"
    /\ OrderAgrees /\ RefusalsAreLate

\* The inductive invariant.
BrokerInv ==
    BrokerTypes /\ ChannelInv /\ HostInv /\ OpenInv /\ ViewInv /\ ShownInv /\ CountInv /\ CauseInv

-----------------------------------------------------------------------------
LEMMA BrokerTyped ==
    BrokerInv =>
        /\ channel \in ChannelRecords /\ hostEnd \in HostRecords /\ client \in ClientRecords
        /\ broker \in BrokerRecords /\ attachment \in AttachmentRecords /\ stream \in StreamRecords
BY DEF BrokerInv, BrokerTypes

\* The broker gives up for cause c while it handles a request or an event.
LEMMA FailedKeeps ==
    ASSUME BrokerInv, NEW c \in Causes \ {"none", "typed-refused"}, Fails(c), channel' = channel,
           hostEnd' \in HostRecords, hostEnd'.sent = hostEnd.sent, hostEnd'.exited = hostEnd.exited,
           hostEnd'.drained = hostEnd.drained, hostEnd'.outputs = hostEnd.outputs,
           hostEnd.got \subseteq hostEnd'.got, hostEnd'.got \subseteq hostEnd.got \cup {"resize"},
           client' \in ClientRecords, client'.held \in {client.held, NoEvent},
           client'.opened = client.opened, client'.ready = client.ready,
           client'.terminated = client.terminated,
           attachment' \in AttachmentRecords, attachment'.shown = attachment.shown,
           attachment'.end = attachment.end,
           stream' \in StreamRecords, stream.events \subseteq stream'.events,
           c = "out-of-order" => ExitOmitted,
           c = "overtaken" => client.terminated /\ ~Seen("terminated")
    PROVE  BrokerInv'
<1>1. /\ broker' \in BrokerRecords /\ broker'.at = "failed" /\ broker'.cause = c
      /\ broker'.seen = broker.seen /\ broker'.acknowledged = broker.acknowledged
    BY BrokerTyped DEF Fails, BrokerRecords
<1>2. BrokerTypes'
    BY <1>1 DEF BrokerInv, BrokerTypes
<1>3. ChannelInv'
    BY DEF BrokerInv, ChannelInv
<1>4. HostInv'
    BY DEF BrokerInv, HostInv
<1>5. OpenInv'
    BY <1>1 DEF BrokerInv, OpenInv, NoEvent
<1>6. ViewInv'
    BY <1>1 DEF ViewInv
<1>7. ShownInv'
    BY <1>1 DEF BrokerInv, ShownInv, AcknowledgedWasShown, SuccessEarned
<1>8. CountInv'
    BY <1>1 DEF BrokerInv, CountInv, Running
<1>9. CauseInv'
    BY <1>1 DEF BrokerInv, CauseInv, OrderAgrees, RefusalsAreLate, ExitOmitted, Seen
<1> QED BY <1>2, <1>3, <1>4, <1>5, <1>6, <1>7, <1>8, <1>9 DEF BrokerInv

\* The broker gives up without having told anyone anything.
LEMMA FailsAloneKeeps ==
    ASSUME BrokerInv, NEW c \in Causes \ {"none", "typed-refused", "out-of-order", "overtaken"},
           Fails(c), UNCHANGED <<channel, hostEnd, client, stream>>,
           UNCHANGED attachment \/ attachment' = [attachment EXCEPT !.flight = NoEvent]
    PROVE  BrokerInv'
<1>1. /\ attachment' \in AttachmentRecords /\ attachment'.shown = attachment.shown
      /\ attachment'.end = attachment.end
    BY BrokerTyped DEF AttachmentRecords
<1> QED BY <1>1, BrokerTyped, FailedKeeps

LEMMA ClientOpensKeeps ==
    ASSUME BrokerInv, ClientOpens PROVE BrokerInv'
<1>1. /\ client' \in ClientRecords /\ client'.opened = TRUE /\ client'.held = NoEvent
      /\ client'.ready = client.ready /\ client'.terminated = client.terminated
    BY BrokerTyped DEF ClientRecords, LifecycleEvents, NoEvent, ClientOpens
<1>2. /\ stream' \in StreamRecords /\ stream'.events = stream.events \cup {"opened"}
    BY BrokerTyped DEF StreamRecords, PublicRequests, NoEvent, LifecycleEvents, ClientOpens
<1>3. UNCHANGED <<channel, hostEnd, broker, attachment>>
    BY BrokerTyped DEF ClientOpens
<1>4. BrokerTypes'
    BY <1>1, <1>2, <1>3 DEF BrokerInv, BrokerTypes
<1>5. ChannelInv'
    BY <1>1, <1>2, <1>3, BrokerTyped DEF BrokerInv, ChannelInv
<1>6. HostInv'
    BY <1>1, <1>2, <1>3, BrokerTyped DEF BrokerInv, HostInv
<1>7. OpenInv'
    BY <1>1, <1>2, <1>3, BrokerTyped DEF BrokerInv, OpenInv, ClientOpens, NoEvent
<1>8. ViewInv'
    BY <1>1, <1>2, <1>3, BrokerTyped DEF BrokerInv, ViewInv, ClientOpens
<1>9. ShownInv'
    BY <1>1, <1>2, <1>3, BrokerTyped DEF BrokerInv, ShownInv, AcknowledgedWasShown,
       SuccessEarned
<1>10. CountInv'
    BY <1>1, <1>2, <1>3, BrokerTyped DEF BrokerInv, CountInv, Waiting, Running, NoEvent,
       ClientOpens
<1>11. CauseInv'
    BY <1>1, <1>2, <1>3, BrokerTyped DEF BrokerInv, CauseInv, OrderAgrees, RefusalsAreLate,
       ExitOmitted, Seen
<1> QED BY <1>4, <1>5, <1>6, <1>7, <1>8, <1>9, <1>10, <1>11 DEF BrokerInv

LEMMA AcceptTerminalKeeps ==
    ASSUME BrokerInv, AcceptTerminal PROVE BrokerInv'
<1>1. CASE Fails("attach-timeout") /\ UNCHANGED attachment
    BY <1>1, FailsAloneKeeps DEF AcceptTerminal, Causes
<1>2. CASE /\ broker' = [broker EXCEPT !.terminal = TRUE]
           /\ attachment' = [attachment EXCEPT !.state = "attached"]
    <2>1. /\ broker' \in BrokerRecords /\ broker'.at = broker.at /\ broker'.seen = broker.seen
          /\ broker'.acknowledged = broker.acknowledged /\ broker'.ended = broker.ended
          /\ broker'.pending = broker.pending /\ broker'.taken = broker.taken
          /\ broker'.output = broker.output /\ broker'.cause = broker.cause
        BY <1>2, BrokerTyped DEF BrokerRecords, Granted, LifecycleEvents, Causes
    <2>2. /\ attachment' \in AttachmentRecords /\ attachment'.shown = attachment.shown
          /\ attachment'.end = attachment.end
        BY <1>2, BrokerTyped DEF AttachmentRecords, NoEvent
    <2>3. UNCHANGED <<channel, hostEnd, client, stream>>
        BY <1>2, BrokerTyped DEF AcceptTerminal
    <2>4. BrokerTypes'
        BY <2>1, <2>2, <2>3 DEF BrokerInv, BrokerTypes
    <2>5. ChannelInv'
        BY <2>1, <2>2, <2>3, <1>2, BrokerTyped DEF BrokerInv, ChannelInv
    <2>6. HostInv'
        BY <2>1, <2>2, <2>3, <1>2, BrokerTyped DEF BrokerInv, HostInv
    <2>7. OpenInv'
        BY <2>1, <2>2, <2>3, <1>2, BrokerTyped DEF BrokerInv, OpenInv
    <2>8. ViewInv'
        BY <2>1, <2>2, <2>3, <1>2, BrokerTyped DEF BrokerInv, ViewInv
    <2>9. ShownInv'
        BY <2>1, <2>2, <2>3, <1>2, BrokerTyped DEF BrokerInv, ShownInv, AcknowledgedWasShown,
           SuccessEarned
    <2>10. CountInv'
        BY <2>1, <2>2, <2>3, <1>2, BrokerTyped DEF BrokerInv, CountInv, Waiting, Running
    <2>11. CauseInv'
        BY <2>1, <2>2, <2>3, <1>2, BrokerTyped DEF BrokerInv, CauseInv, OrderAgrees,
           RefusalsAreLate, ExitOmitted, Seen
    <2> QED BY <2>4, <2>5, <2>6, <2>7, <2>8, <2>9, <2>10, <2>11 DEF BrokerInv
<1> QED BY <1>1, <1>2 DEF AcceptTerminal

\* What the terminal sent is taken from it and kept.
LEMMA BufferKeeps ==
    ASSUME BrokerInv, NEW kind \in {"input", "resize"}, Running, ~Seen("ready"), Buffer(kind),
           attachment' = [attachment EXCEPT !.flight = NoEvent],
           UNCHANGED <<channel, hostEnd, client, stream>>
    PROVE  BrokerInv'
<1>1. CASE Fails("buffer")
    BY <1>1, FailsAloneKeeps DEF Causes
<1>2. CASE broker' = [broker EXCEPT !.resize = TRUE]
    <2>1. /\ broker' \in BrokerRecords /\ broker'.at = broker.at /\ broker'.seen = broker.seen
          /\ broker'.acknowledged = broker.acknowledged /\ broker'.ended = broker.ended
          /\ broker'.pending = broker.pending /\ broker'.taken = broker.taken
          /\ broker'.output = broker.output /\ broker'.cause = broker.cause
        BY <1>2, BrokerTyped DEF BrokerRecords, Granted, LifecycleEvents, Causes
    <2>2. /\ attachment' \in AttachmentRecords /\ attachment'.shown = attachment.shown
          /\ attachment'.end = attachment.end
        BY <1>2, BrokerTyped DEF AttachmentRecords, NoEvent
    <2>3. UNCHANGED <<channel, hostEnd, client, stream>>
        BY <1>2, BrokerTyped
    <2>4. BrokerTypes'
        BY <2>1, <2>2, <2>3 DEF BrokerInv, BrokerTypes
    <2>5. ChannelInv'
        BY <2>1, <2>2, <2>3, <1>2, BrokerTyped DEF BrokerInv, ChannelInv
    <2>6. HostInv'
        BY <2>1, <2>2, <2>3, <1>2, BrokerTyped DEF BrokerInv, HostInv
    <2>7. OpenInv'
        BY <2>1, <2>2, <2>3, <1>2, BrokerTyped DEF BrokerInv, OpenInv
    <2>8. ViewInv'
        BY <2>1, <2>2, <2>3, <1>2, BrokerTyped DEF BrokerInv, ViewInv
    <2>9. ShownInv'
        BY <2>1, <2>2, <2>3, <1>2, BrokerTyped DEF BrokerInv, ShownInv, AcknowledgedWasShown,
           SuccessEarned
    <2>10. CountInv'
        BY <2>1, <2>2, <2>3, <1>2, BrokerTyped DEF BrokerInv, CountInv, Waiting
    <2>11. CauseInv'
        BY <2>1, <2>2, <2>3, <1>2, BrokerTyped DEF BrokerInv, CauseInv, OrderAgrees,
           RefusalsAreLate, ExitOmitted, Seen
    <2> QED BY <2>4, <2>5, <2>6, <2>7, <2>8, <2>9, <2>10, <2>11 DEF BrokerInv
<1>3. CASE BufferFits /\ broker' = [broker EXCEPT !.pending = @ + 1, !.taken = @ + 1]
    <2>0. broker.pending + 1 \in 0..MaxPending /\ broker.taken + 1 \in Nat
        BY <1>3, BrokerTyped, BrokerBounds DEF BufferFits, BrokerRecords
    <2>1. /\ broker' \in BrokerRecords /\ broker'.at = broker.at /\ broker'.seen = broker.seen
          /\ broker'.acknowledged = broker.acknowledged /\ broker'.ended = broker.ended
          /\ broker'.pending = broker.pending + 1 /\ broker'.taken = broker.taken + 1
          /\ broker'.output = broker.output /\ broker'.cause = broker.cause
        BY <1>3, <2>0, BrokerTyped DEF BrokerRecords, Granted, LifecycleEvents
    <2>2. /\ attachment' \in AttachmentRecords /\ attachment'.shown = attachment.shown
          /\ attachment'.end = attachment.end
        BY <1>3, <2>0, BrokerTyped DEF AttachmentRecords, NoEvent
    <2>3. UNCHANGED <<channel, hostEnd, client, stream>>
        BY <1>3, <2>0, BrokerTyped
    <2>4. BrokerTypes'
        BY <2>1, <2>2, <2>3 DEF BrokerInv, BrokerTypes
    <2>5. ChannelInv'
        BY <2>1, <2>2, <2>3, <1>3, <2>0, BrokerTyped DEF BrokerInv, ChannelInv
    <2>6. HostInv'
        BY <2>1, <2>2, <2>3, <1>3, <2>0, BrokerTyped DEF BrokerInv, HostInv
    <2>7. OpenInv'
        BY <2>1, <2>2, <2>3, <1>3, <2>0, BrokerTyped DEF BrokerInv, OpenInv
    <2>8. ViewInv'
        BY <2>1, <2>2, <2>3, <1>3, <2>0, BrokerTyped DEF BrokerInv, ViewInv
    <2>9. ShownInv'
        BY <2>1, <2>2, <2>3, <1>3, <2>0, BrokerTyped DEF BrokerInv, ShownInv,
           AcknowledgedWasShown, SuccessEarned
    <2>10. CountInv'
        BY <2>1, <2>2, <2>3, <1>3, <2>0, BrokerTyped DEF BrokerInv, CountInv, Waiting, Seen,
           HostRecords, BrokerRecords
    <2>11. CauseInv'
        BY <2>1, <2>2, <2>3, <1>3, <2>0, BrokerTyped DEF BrokerInv, CauseInv, OrderAgrees,
           RefusalsAreLate, ExitOmitted, Seen
    <2> QED BY <2>4, <2>5, <2>6, <2>7, <2>8, <2>9, <2>10, <2>11 DEF BrokerInv
<1> QED BY <1>1, <1>2, <1>3 DEF Buffer

LEMMA BufferSetupKeeps ==
    ASSUME BrokerInv, BufferSetup PROVE BrokerInv'
<1>1. attachment.flight \in {"input", "resize"}
    BY BrokerTyped DEF BufferSetup, AttachmentRecords, NoEvent
<1>2. Running /\ ~Seen("ready")
    BY DEF BufferSetup, Running, Seen, BrokerInv, OpenInv
<1> QED BY <1>1, <1>2, BufferKeeps DEF BufferSetup

LEMMA BeginLoopKeeps ==
    ASSUME BrokerInv, BeginLoop PROVE BrokerInv'
<1>1. CASE Fails("not-granted")
    BY <1>1, FailsAloneKeeps DEF BeginLoop, Causes
<1>2. CASE broker' = [broker EXCEPT !.at = "loop"]
    <2>1. /\ broker' \in BrokerRecords /\ broker'.at = "loop" /\ broker'.seen = broker.seen
          /\ broker'.acknowledged = broker.acknowledged /\ broker'.ended = broker.ended
          /\ broker'.pending = broker.pending /\ broker'.taken = broker.taken
          /\ broker'.output = broker.output /\ broker'.cause = broker.cause
        BY <1>2, BrokerTyped DEF BrokerRecords, Granted, LifecycleEvents, Causes
    <2>2. UNCHANGED <<channel, hostEnd, client, attachment, stream>>
        BY <1>2, BrokerTyped DEF BeginLoop
    <2>3. BrokerTypes'
        BY <2>1, <2>2 DEF BrokerInv, BrokerTypes
    <2>4. ChannelInv'
        BY <2>1, <2>2, <1>2, BrokerTyped DEF BrokerInv, ChannelInv
    <2>5. HostInv'
        BY <2>1, <2>2, <1>2, BrokerTyped DEF BrokerInv, HostInv
    <2>6. OpenInv'
        BY <2>1, <2>2, <1>2, BrokerTyped DEF BrokerInv, OpenInv, BeginLoop
    <2>7. ViewInv'
        BY <2>1, <2>2, <1>2, BrokerTyped DEF BrokerInv, ViewInv, OpenInv, LifecycleEvents,
           NoEvent, BeginLoop
    <2>8. ShownInv'
        BY <2>1, <2>2, <1>2, BrokerTyped DEF BrokerInv, ShownInv, AcknowledgedWasShown,
           SuccessEarned
    <2>9. CountInv'
        BY <2>1, <2>2, <1>2, BrokerTyped DEF BrokerInv, CountInv, Waiting, Running, BeginLoop
    <2>10. CauseInv'
        BY <2>1, <2>2, <1>2, BrokerTyped DEF BrokerInv, CauseInv, OrderAgrees, RefusalsAreLate,
           BeginLoop
    <2> QED BY <2>3, <2>4, <2>5, <2>6, <2>7, <2>8, <2>9, <2>10 DEF BrokerInv
<1> QED BY <1>1, <1>2 DEF BeginLoop

LEMMA WriteOutputKeeps ==
    ASSUME BrokerInv, WriteOutput PROVE BrokerInv'
<1>1. CASE Fails("terminal") /\ UNCHANGED attachment
    BY <1>1, FailsAloneKeeps DEF WriteOutput, Causes
<1>2. CASE /\ attachment' = [attachment EXCEPT !.shown = @ + 1]
           /\ broker' = [broker EXCEPT !.output = "none"]
    <2>1. /\ broker' \in BrokerRecords /\ broker'.at = broker.at /\ broker'.seen = broker.seen
          /\ broker'.acknowledged = broker.acknowledged /\ broker'.ended = broker.ended
          /\ broker'.pending = broker.pending /\ broker'.taken = broker.taken
          /\ broker'.output = "none" /\ broker'.cause = broker.cause
        BY <1>2, BrokerTyped DEF BrokerRecords, Granted, LifecycleEvents, Causes
    <2>2. /\ attachment' \in AttachmentRecords /\ attachment'.shown = attachment.shown + 1
          /\ attachment'.end = attachment.end
        BY <1>2, BrokerTyped DEF AttachmentRecords, NoEvent
    <2>3. UNCHANGED <<channel, hostEnd, client, stream>>
        BY <1>2, BrokerTyped DEF WriteOutput
    <2>4. BrokerTypes'
        BY <2>1, <2>2, <2>3 DEF BrokerInv, BrokerTypes
    <2>5. ChannelInv'
        BY <2>1, <2>2, <2>3, <1>2, BrokerTyped DEF BrokerInv, ChannelInv
    <2>6. HostInv'
        BY <2>1, <2>2, <2>3, <1>2, BrokerTyped DEF BrokerInv, HostInv
    <2>7. OpenInv'
        BY <2>1, <2>2, <2>3, <1>2, BrokerTyped DEF BrokerInv, OpenInv
    <2>8. ViewInv'
        BY <2>1, <2>2, <2>3, <1>2, BrokerTyped DEF BrokerInv, ViewInv
    <2>9. ShownInv'
        BY <2>1, <2>2, <2>3, <1>2, BrokerTyped DEF BrokerInv, ShownInv, AcknowledgedWasShown,
           SuccessEarned
    <2>10. CountInv'
        BY <2>1, <2>2, <2>3, <1>2, BrokerTyped DEF BrokerInv, CountInv, Waiting, Running,
           WriteOutput, AttachmentRecords
    <2>11. CauseInv'
        BY <2>1, <2>2, <2>3, <1>2, BrokerTyped DEF BrokerInv, CauseInv, OrderAgrees,
           RefusalsAreLate, ExitOmitted, Seen
    <2> QED BY <2>4, <2>5, <2>6, <2>7, <2>8, <2>9, <2>10, <2>11 DEF BrokerInv
<1> QED BY <1>1, <1>2 DEF WriteOutput

LEMMA HostClosedKeeps ==
    ASSUME BrokerInv, HostClosed PROVE BrokerInv'
<1>1. CASE Fails("transport")
    BY <1>1, FailsAloneKeeps DEF HostClosed, Causes
<1>2. CASE broker.acknowledged /\ broker' = [broker EXCEPT !.at = "returned"]
    <2>0. channel.connection = "closed"
        BY BrokerTyped DEF HostClosed, Connected, Running, BrokerInv, OpenInv, ChannelInv,
           ChannelRecords
    <2>1. /\ broker' \in BrokerRecords /\ broker'.at = "returned" /\ broker'.seen = broker.seen
          /\ broker'.acknowledged = broker.acknowledged /\ broker'.ended = broker.ended
          /\ broker'.pending = broker.pending /\ broker'.taken = broker.taken
          /\ broker'.output = broker.output /\ broker'.cause = broker.cause
        BY <1>2, <2>0, BrokerTyped DEF BrokerRecords, Granted, LifecycleEvents
    <2>2. UNCHANGED <<channel, hostEnd, client, attachment, stream>>
        BY <1>2, <2>0, BrokerTyped DEF HostClosed
    <2>3. BrokerTypes'
        BY <2>1, <2>2 DEF BrokerInv, BrokerTypes
    <2>4. ChannelInv'
        BY <2>1, <2>2, <1>2, <2>0, BrokerTyped DEF BrokerInv, ChannelInv
    <2>5. HostInv'
        BY <2>1, <2>2, <1>2, <2>0, BrokerTyped DEF BrokerInv, HostInv
    <2>6. OpenInv'
        BY <2>1, <2>2, <1>2, <2>0, BrokerTyped DEF BrokerInv, OpenInv
    <2>7. ViewInv'
        BY <2>1, <2>2, <1>2, <2>0, BrokerTyped DEF BrokerInv, ViewInv
    <2>8. ShownInv'
        BY <2>1, <2>2, <1>2, <2>0, BrokerTyped DEF BrokerInv, ShownInv, AcknowledgedWasShown,
           SuccessEarned
    <2>9. CountInv'
        BY <2>1, <2>2, <1>2, <2>0, BrokerTyped DEF BrokerInv, CountInv, Running
    <2>10. CauseInv'
        BY <2>1, <2>2, <1>2, <2>0, BrokerTyped DEF BrokerInv, CauseInv, OrderAgrees,
           RefusalsAreLate, HostClosed
    <2> QED BY <2>3, <2>4, <2>5, <2>6, <2>7, <2>8, <2>9, <2>10 DEF BrokerInv
<1> QED BY <1>1, <1>2 DEF HostClosed

\* The other ends: an error, and nothing else
LEMMA EndingsKeep ==
    ASSUME BrokerInv, OpenFails \/ TerminalEnds \/ StreamEnds \/ InputBreaks \/ BrokerCanceled
    PROVE  BrokerInv'
<1>1. CASE OpenFails
    BY <1>1, FailsAloneKeeps DEF OpenFails, Causes
<1>2. CASE TerminalEnds
    BY <1>2, FailsAloneKeeps DEF TerminalEnds, Causes
<1>3. CASE StreamEnds
    BY <1>3, FailsAloneKeeps DEF StreamEnds, Causes
<1>4. CASE InputBreaks
    BY <1>4, FailsAloneKeeps DEF InputBreaks, Causes
<1>5. CASE BrokerCanceled
    BY <1>5, FailsAloneKeeps DEF BrokerCanceled, Causes
<1> QED BY <1>1, <1>2, <1>3, <1>4, <1>5

-----------------------------------------------------------------------------
\* A step of the channel alone: a claim stays claimed, a closed connection closed.
LEMMA ChannelStepKeeps ==
    ASSUME BrokerInv, channel' \in ChannelRecords, ChannelInv',
           UNCHANGED <<hostEnd, client, broker, attachment, stream>>,
           channel.claim = "claimed" => channel'.claim = "claimed",
           channel.connection = "closed" => channel'.connection = "closed"
    PROVE  BrokerInv'
<1>1. BrokerTypes'
    BY DEF BrokerInv, BrokerTypes
<1>2. HostInv'
    BY DEF BrokerInv, HostInv
<1>3. OpenInv'
    BY DEF BrokerInv, OpenInv
<1>4. ViewInv'
    BY DEF BrokerInv, ViewInv
<1>5. ShownInv'
    BY DEF BrokerInv, ShownInv, AcknowledgedWasShown, SuccessEarned
<1>6. CountInv'
    BY DEF BrokerInv, CountInv, Waiting, Running
<1>7. CauseInv'
    BY DEF BrokerInv, CauseInv, OrderAgrees, RefusalsAreLate, ExitOmitted, Seen
<1> QED BY <1>1, <1>2, <1>3, <1>4, <1>5, <1>6, <1>7 DEF BrokerInv

LEMMA ClaimFailedIs ==
    ASSUME channel \in ChannelRecords, channel' = ClaimFailed
    PROVE  /\ channel' \in ChannelRecords /\ channel'.claim = "failed" /\ channel'.closed
           /\ ~channel'.path /\ channel'.connection = "closed" /\ channel'.stored = channel.stored
BY DEF ClaimFailed, ChannelRecords

LEMMA ClaimAcceptKeeps ==
    ASSUME BrokerInv, ClaimAccept PROVE BrokerInv'
<1>1. /\ channel' \in ChannelRecords /\ channel'.stored = channel.stored
      /\ \/ /\ channel'.claim = "accepted" /\ channel'.connection = "open"
            /\ channel'.closed = channel.closed /\ channel'.path = channel.path
         \/ /\ channel'.claim = "failed" /\ channel'.closed /\ ~channel'.path
            /\ channel'.connection = channel.connection
    BY BrokerTyped DEF ClaimAccept, ChannelRecords
<1>2. channel.claim = "none" /\ UNCHANGED <<hostEnd, client, broker, attachment, stream>>
    BY DEF ClaimAccept, ChannelLeft
<1>3. ChannelInv'
    BY <1>1, <1>2 DEF BrokerInv, ChannelInv
<1> QED BY <1>1, <1>2, <1>3, ChannelStepKeeps DEF BrokerInv, ChannelInv

LEMMA ClaimRetireKeeps ==
    ASSUME BrokerInv, ClaimRetire PROVE BrokerInv'
<1>1. /\ channel' \in ChannelRecords /\ channel'.stored = channel.stored
      /\ \/ /\ channel'.claim = "retired" /\ channel'.connection = channel.connection
            /\ channel'.closed = channel.closed /\ ~channel'.path
         \/ /\ channel'.claim = "failed" /\ channel'.closed /\ ~channel'.path
            /\ channel'.connection = "closed"
    <2>1. CASE channel' = ClaimFailed
        BY <2>1, BrokerTyped, ClaimFailedIs
    <2>2. CASE channel' = [channel EXCEPT !.claim = "retired", !.path = FALSE]
        BY <2>2, BrokerTyped DEF ChannelRecords
    <2> QED BY <2>1, <2>2 DEF ClaimRetire
<1>2. channel.claim = "accepted" /\ UNCHANGED <<hostEnd, client, broker, attachment, stream>>
    BY DEF ClaimRetire, ChannelLeft
<1>3. ChannelInv'
    BY <1>1, <1>2 DEF BrokerInv, ChannelInv
<1> QED BY <1>1, <1>2, <1>3, ChannelStepKeeps DEF BrokerInv, ChannelInv

LEMMA ClaimStoreKeeps ==
    ASSUME BrokerInv, ClaimStore PROVE BrokerInv'
<1>1. /\ channel' \in ChannelRecords /\ channel'.closed = channel.closed
      /\ channel'.path = channel.path
      /\ \/ /\ channel.closed /\ channel'.claim = "failed" /\ channel'.connection = "closed"
            /\ channel'.stored = channel.stored
         \/ /\ ~channel.closed /\ channel'.claim = "stored" /\ channel'.stored
            /\ channel'.connection = channel.connection
    BY BrokerTyped DEF ClaimStore, ChannelRecords
<1>2. channel.claim = "retired" /\ UNCHANGED <<hostEnd, client, broker, attachment, stream>>
    BY DEF ClaimStore, ChannelLeft
<1>3. ChannelInv'
    BY <1>1, <1>2 DEF BrokerInv, ChannelInv
<1> QED BY <1>1, <1>2, <1>3, ChannelStepKeeps DEF BrokerInv, ChannelInv

LEMMA CloseChannelKeeps ==
    ASSUME BrokerInv, CloseChannel PROVE BrokerInv'
<1>1. /\ channel' \in ChannelRecords /\ channel'.closed /\ ~channel'.path
      /\ channel'.claim = channel.claim /\ channel'.stored = channel.stored
      /\ channel'.connection = IF channel.stored THEN "closed" ELSE channel.connection
    BY BrokerTyped DEF CloseChannel, ChannelRecords
<1>2. UNCHANGED <<hostEnd, client, broker, attachment, stream>>
    BY DEF CloseChannel, ChannelLeft
<1>3. ChannelInv'
    BY <1>1 DEF BrokerInv, ChannelInv
<1> QED BY <1>1, <1>2, <1>3, ChannelStepKeeps

LEMMA ClaimOpenKeeps ==
    ASSUME BrokerInv, ClaimOpen PROVE BrokerInv'
<1>0. channel.claim = "stored"
    BY DEF ClaimOpen
<1>1. CASE channel.connection # "open"
    <2>1. channel' = ClaimFailed /\ UNCHANGED <<hostEnd, client, broker, attachment, stream>>
        BY <1>1 DEF ClaimOpen
    <2>2. /\ channel' \in ChannelRecords /\ channel'.claim = "failed" /\ channel'.closed
          /\ ~channel'.path /\ channel'.connection = "closed" /\ channel'.stored = channel.stored
        BY <2>1, BrokerTyped, ClaimFailedIs
    <2>3. ChannelInv'
        BY <2>2 DEF BrokerInv, ChannelInv
    <2> QED BY <1>0, <2>1, <2>2, <2>3, ChannelStepKeeps
<1>2. CASE channel.connection = "open"
    <2>0. ~client.opened /\ client.held = NoEvent /\ broker.at # "loop"
        BY <1>0 DEF BrokerInv, OpenInv
    <2>1. /\ channel' \in ChannelRecords /\ channel'.claim = "claimed"
          /\ channel'.closed = channel.closed /\ channel'.path = channel.path
          /\ channel'.connection = channel.connection /\ channel'.stored = channel.stored
        BY <1>0, <1>2, <2>0, BrokerTyped DEF ChannelRecords, ClaimOpen
    <2>2. /\ client' \in ClientRecords /\ client'.opened = client.opened
          /\ client'.held = "opened" /\ client'.ready = client.ready
          /\ client'.terminated = client.terminated
        BY <1>0, <1>2, <2>0, BrokerTyped DEF ClientRecords, LifecycleEvents, ClaimOpen
    <2>3. UNCHANGED <<hostEnd, broker, attachment, stream>>
        BY <1>0, <1>2, <2>0, BrokerTyped DEF ClaimOpen
    <2>4. BrokerTypes'
        BY <2>1, <2>2, <2>3 DEF BrokerInv, BrokerTypes
    <2>5. ChannelInv'
        BY <2>1, <2>2, <2>3, <1>0, <1>2, <2>0 DEF BrokerInv, ChannelInv
    <2>6. HostInv'
        BY <2>1, <2>2, <2>3, <1>0, <1>2, <2>0 DEF BrokerInv, HostInv
    <2>7. OpenInv'
        BY <2>1, <2>2, <2>3, <1>0, <1>2, <2>0 DEF BrokerInv, OpenInv
    <2>8. ViewInv'
        BY <2>1, <2>2, <2>3, <1>0, <1>2, <2>0 DEF ViewInv
    <2>9. ShownInv'
        BY <2>1, <2>2, <2>3, <1>0, <1>2, <2>0 DEF BrokerInv, ShownInv, AcknowledgedWasShown,
           SuccessEarned
    <2>10. CountInv'
        BY <2>1, <2>2, <2>3, <1>0, <1>2, <2>0 DEF BrokerInv, CountInv, Waiting, Running, NoEvent
    <2>11. CauseInv'
        BY <2>1, <2>2, <2>3, <1>0, <1>2, <2>0 DEF BrokerInv, CauseInv, OrderAgrees,
           RefusalsAreLate, ExitOmitted, Seen
    <2> QED BY <2>4, <2>5, <2>6, <2>7, <2>8, <2>9, <2>10, <2>11 DEF BrokerInv
<1> QED BY <1>1, <1>2

-----------------------------------------------------------------------------
LEMMA HostSendsKeeps ==
    ASSUME BrokerInv, HostSends PROVE BrokerInv'
<1>1. PICK e \in LifecycleEvents, drained \in BOOLEAN :
        /\ MayAnnounce(e) /\ Reads(e)
        /\ drained => e = "outputs-finalized" /\ ("ready" \in hostEnd.sent => hostEnd.exited)
        /\ hostEnd' = [hostEnd EXCEPT !.sent = @ \cup {e}, !.exited = @ \/ e = "workload-exit",
                                      !.drained = @ \/ drained]
    BY DEF HostSends
<1>2. /\ broker.at = "loop" /\ client.held = NoEvent /\ UNCHANGED <<channel, broker, attachment, stream>>
      /\ client' = [client EXCEPT !.held = e, !.ready = @ \/ e = "ready",
                                  !.terminated = @ \/ e = "terminated"]
    BY <1>1 DEF Reads
<1>3. /\ client' \in ClientRecords /\ client'.held = e /\ client'.opened = client.opened
      /\ client'.ready <=> client.ready \/ e = "ready"
      /\ client'.terminated <=> client.terminated \/ e = "terminated"
    <2> DEFINE rdy == client.ready \/ e = "ready"
               trm == client.terminated \/ e = "terminated"
    <2>1. client' = [client EXCEPT !.held = e, !.ready = rdy, !.terminated = trm]
        BY <1>2
    <2>2. rdy \in BOOLEAN /\ trm \in BOOLEAN
        BY BrokerTyped DEF ClientRecords
    <2>3. /\ rdy <=> client.ready \/ e = "ready"
          /\ trm <=> client.terminated \/ e = "terminated"
        OBVIOUS
    <2> HIDE DEF rdy, trm
    <2>4. /\ client' \in ClientRecords /\ client'.held = e /\ client'.opened = client.opened
          /\ client'.ready = rdy /\ client'.terminated = trm
        BY <2>1, <2>2, BrokerTyped DEF ClientRecords
    <2> QED BY <2>3, <2>4
<1>4. /\ hostEnd' \in HostRecords /\ hostEnd'.sent = hostEnd.sent \cup {e}
      /\ hostEnd'.exited <=> hostEnd.exited \/ e = "workload-exit"
      /\ hostEnd'.drained <=> hostEnd.drained \/ drained
      /\ hostEnd'.outputs = hostEnd.outputs /\ hostEnd'.got = hostEnd.got
      /\ hostEnd'.inputs = hostEnd.inputs
    <2> DEFINE ext == hostEnd.exited \/ e = "workload-exit"
               drn == hostEnd.drained \/ drained
    <2>1. hostEnd' = [hostEnd EXCEPT !.sent = hostEnd.sent \cup {e}, !.exited = ext, !.drained = drn]
        BY <1>1
    <2>2. ext \in BOOLEAN /\ drn \in BOOLEAN
        BY BrokerTyped DEF HostRecords
    <2>3. /\ ext <=> hostEnd.exited \/ e = "workload-exit"
          /\ drn <=> hostEnd.drained \/ drained
        OBVIOUS
    <2> HIDE DEF ext, drn
    <2>4. /\ hostEnd' \in HostRecords /\ hostEnd'.sent = hostEnd.sent \cup {e}
          /\ hostEnd'.exited = ext /\ hostEnd'.drained = drn
          /\ hostEnd'.outputs = hostEnd.outputs /\ hostEnd'.got = hostEnd.got
          /\ hostEnd'.inputs = hostEnd.inputs
        BY <2>1, <2>2, BrokerTyped DEF HostRecords
    <2> QED BY <2>3, <2>4
<1>5. /\ e \notin hostEnd.sent /\ "terminated" \notin hostEnd.sent
      /\ e = "ready" => "terminating" \notin hostEnd.sent
      /\ e = "workload-exit" => "ready" \in hostEnd.sent /\ "outputs-finalized" \notin hostEnd.sent
      /\ e = "outputs-finalized" => "terminating" \in hostEnd.sent
      /\ e = "terminated" => ("ready" \in hostEnd.sent => "outputs-finalized" \in hostEnd.sent)
    BY <1>1 DEF MayAnnounce
<1>6. BrokerTypes'
    BY <1>2, <1>3, <1>4 DEF BrokerInv, BrokerTypes
<1>7. ChannelInv'
    BY <1>2 DEF BrokerInv, ChannelInv
<1>8. HostInv'
    BY <1>1, <1>3, <1>4, <1>5 DEF BrokerInv, HostInv
<1>9. OpenInv'
    BY <1>2, <1>3 DEF BrokerInv, OpenInv, LifecycleEvents
<1>10. ViewInv'
    <2>1. e \in {"ready", "workload-exit", "terminating", "outputs-finalized", "terminated"}
        BY DEF LifecycleEvents
    <2>2. e \notin broker.seen /\ "terminated" \notin broker.seen
        BY <1>2, <1>5, <2>1 DEF BrokerInv, ViewInv, HostInv
    <2>3. hostEnd'.sent \subseteq broker'.seen \cup {client'.held}
        BY <1>2, <1>3, <1>4, BrokerTyped DEF BrokerInv, ViewInv, HostRecords, LifecycleEvents,
           NoEvent
    <2> QED BY <1>2, <1>3, <1>4, <1>5, <2>1, <2>2, <2>3 DEF BrokerInv, ViewInv
<1>11. ShownInv'
    BY <1>2, <1>4 DEF BrokerInv, ShownInv, AcknowledgedWasShown, SuccessEarned
<1>12. CountInv'
    BY <1>2, <1>3, <1>4 DEF BrokerInv, CountInv, Waiting, Running, LifecycleEvents, NoEvent
<1>13. CauseInv'
    BY <1>2 DEF BrokerInv, CauseInv, OrderAgrees, RefusalsAreLate
<1> QED BY <1>6, <1>7, <1>8, <1>9, <1>10, <1>11, <1>12, <1>13 DEF BrokerInv

LEMMA HostOutputsKeeps ==
    ASSUME BrokerInv, HostOutputs PROVE BrokerInv'
<1>0. /\ broker.at = "loop" /\ client.held = NoEvent
      /\ client' = [client EXCEPT !.held = "output"]
      /\ hostEnd.sent \cap {"outputs-finalized", "terminated"} = {}
      /\ UNCHANGED <<channel, broker, attachment, stream>>
    <2>1. client.ready \in BOOLEAN /\ client.terminated \in BOOLEAN
        BY BrokerTyped DEF ClientRecords
    <2>2. client' = [client EXCEPT !.held = "output", !.ready = client.ready,
                                   !.terminated = client.terminated]
        BY <2>1 DEF HostOutputs, Reads
    <2> QED BY <2>2, BrokerTyped DEF HostOutputs, Reads, ClientRecords
<1>1. /\ hostEnd' \in HostRecords /\ hostEnd'.sent = hostEnd.sent
      /\ hostEnd'.outputs = hostEnd.outputs + 1 /\ hostEnd'.exited = hostEnd.exited
      /\ hostEnd'.drained = hostEnd.drained /\ hostEnd'.got = hostEnd.got
      /\ hostEnd'.inputs = hostEnd.inputs
    BY <1>0, BrokerTyped DEF HostRecords, LifecycleEvents, PublicRequests, Granted, HostOutputs
<1>2. /\ client' \in ClientRecords /\ client'.opened = client.opened /\ client'.held = "output"
      /\ client'.ready = client.ready /\ client'.terminated = client.terminated
    BY <1>0, BrokerTyped DEF ClientRecords, LifecycleEvents, NoEvent, HostOutputs
<1>3. UNCHANGED <<channel, broker, attachment, stream>>
    BY <1>0, BrokerTyped DEF HostOutputs
<1>4. BrokerTypes'
    BY <1>1, <1>2, <1>3 DEF BrokerInv, BrokerTypes
<1>5. ChannelInv'
    BY <1>1, <1>2, <1>3, <1>0, BrokerTyped DEF BrokerInv, ChannelInv
<1>6. HostInv'
    BY <1>1, <1>2, <1>3, <1>0, BrokerTyped DEF BrokerInv, HostInv
<1>7. OpenInv'
    BY <1>1, <1>2, <1>3, <1>0, BrokerTyped DEF BrokerInv, OpenInv
<1>8. ViewInv'
    BY <1>1, <1>2, <1>3, <1>0, BrokerTyped DEF BrokerInv, ViewInv, LifecycleEvents, NoEvent,
       HostRecords
<1>9. ShownInv'
    BY <1>1, <1>2, <1>3, <1>0, BrokerTyped DEF BrokerInv, ShownInv, AcknowledgedWasShown,
       SuccessEarned
<1>10. CountInv'
    BY <1>1, <1>2, <1>3, <1>0, BrokerTyped DEF BrokerInv, CountInv, Waiting, Running, NoEvent,
       AttachmentRecords
<1>11. CauseInv'
    BY <1>1, <1>2, <1>3, <1>0, BrokerTyped DEF BrokerInv, CauseInv, OrderAgrees, RefusalsAreLate
<1> QED BY <1>4, <1>5, <1>6, <1>7, <1>8, <1>9, <1>10, <1>11 DEF BrokerInv

LEMMA LateExitKeeps ==
    ASSUME BrokerInv, LateExit PROVE BrokerInv'
<1>1. /\ hostEnd' \in HostRecords /\ hostEnd'.sent = hostEnd.sent
      /\ hostEnd'.outputs = hostEnd.outputs /\ hostEnd'.exited = TRUE
      /\ hostEnd'.drained = hostEnd.drained /\ hostEnd'.got = hostEnd.got
      /\ hostEnd'.inputs = hostEnd.inputs
    BY BrokerTyped DEF HostRecords, LifecycleEvents, PublicRequests, Granted, LateExit
<1>2. UNCHANGED <<channel, client, broker, attachment, stream>>
    BY BrokerTyped DEF LateExit
<1>3. BrokerTypes'
    BY <1>1, <1>2 DEF BrokerInv, BrokerTypes
<1>4. ChannelInv'
    BY <1>1, <1>2, BrokerTyped DEF BrokerInv, ChannelInv
<1>5. HostInv'
    BY <1>1, <1>2, BrokerTyped DEF BrokerInv, HostInv
<1>6. OpenInv'
    BY <1>1, <1>2, BrokerTyped DEF BrokerInv, OpenInv
<1>7. ViewInv'
    BY <1>1, <1>2, BrokerTyped DEF BrokerInv, ViewInv, OpenInv
<1>8. ShownInv'
    BY <1>1, <1>2, BrokerTyped DEF BrokerInv, ShownInv, AcknowledgedWasShown, SuccessEarned
<1>9. CountInv'
    BY <1>1, <1>2, BrokerTyped DEF BrokerInv, CountInv, Waiting, Running
<1>10. CauseInv'
    BY <1>1, <1>2, BrokerTyped DEF BrokerInv, CauseInv, OrderAgrees, RefusalsAreLate,
       ExitOmitted, Seen
<1> QED BY <1>3, <1>4, <1>5, <1>6, <1>7, <1>8, <1>9, <1>10 DEF BrokerInv

LEMMA TypeKeeps ==
    ASSUME BrokerInv, Type PROVE BrokerInv'
<1>0. PICK kind \in {"input", "resize"} :
        attachment' = [attachment EXCEPT !.flight = kind, !.typed = attachment.typed + 1]
    BY DEF Type
<1>a. attachment.typed + 1 \in Nat
    BY BrokerTyped DEF AttachmentRecords
<1>1. /\ attachment' \in AttachmentRecords /\ attachment'.shown = attachment.shown
      /\ attachment'.end = attachment.end
    BY <1>0, <1>a, BrokerTyped DEF AttachmentRecords, NoEvent
<1>2. UNCHANGED <<channel, hostEnd, client, broker, stream>>
    BY <1>0, <1>a, BrokerTyped DEF Type
<1>3. BrokerTypes'
    BY <1>1, <1>2 DEF BrokerInv, BrokerTypes
<1>4. ChannelInv'
    BY <1>1, <1>2, <1>0, <1>a, BrokerTyped DEF BrokerInv, ChannelInv
<1>5. HostInv'
    BY <1>1, <1>2, <1>0, <1>a, BrokerTyped DEF BrokerInv, HostInv
<1>6. OpenInv'
    BY <1>1, <1>2, <1>0, <1>a, BrokerTyped DEF BrokerInv, OpenInv
<1>7. ViewInv'
    BY <1>1, <1>2, <1>0, <1>a, BrokerTyped DEF BrokerInv, ViewInv
<1>8. ShownInv'
    BY <1>1, <1>2, <1>0, <1>a, BrokerTyped DEF BrokerInv, ShownInv, AcknowledgedWasShown,
       SuccessEarned
<1>9. CountInv'
    BY <1>1, <1>2, <1>0, <1>a, BrokerTyped DEF BrokerInv, CountInv, Waiting, Running
<1>10. CauseInv'
    BY <1>1, <1>2, <1>0, <1>a, BrokerTyped DEF BrokerInv, CauseInv, OrderAgrees,
       RefusalsAreLate, ExitOmitted, Seen
<1> QED BY <1>3, <1>4, <1>5, <1>6, <1>7, <1>8, <1>9, <1>10 DEF BrokerInv

LEMMA AttachmentLeavesKeeps ==
    ASSUME BrokerInv, AttachmentLeaves PROVE BrokerInv'
<1>1. /\ attachment' \in AttachmentRecords /\ attachment'.shown = attachment.shown
      /\ attachment'.end = attachment.end
    BY BrokerTyped DEF AttachmentRecords, NoEvent, AttachmentLeaves
<1>2. UNCHANGED <<channel, hostEnd, client, broker, stream>>
    BY BrokerTyped DEF AttachmentLeaves
<1>3. BrokerTypes'
    BY <1>1, <1>2 DEF BrokerInv, BrokerTypes
<1>4. ChannelInv'
    BY <1>1, <1>2, BrokerTyped DEF BrokerInv, ChannelInv
<1>5. HostInv'
    BY <1>1, <1>2, BrokerTyped DEF BrokerInv, HostInv
<1>6. OpenInv'
    BY <1>1, <1>2, BrokerTyped DEF BrokerInv, OpenInv
<1>7. ViewInv'
    BY <1>1, <1>2, BrokerTyped DEF BrokerInv, ViewInv, OpenInv
<1>8. ShownInv'
    BY <1>1, <1>2, BrokerTyped DEF BrokerInv, ShownInv, AcknowledgedWasShown, SuccessEarned
<1>9. CountInv'
    BY <1>1, <1>2, BrokerTyped DEF BrokerInv, CountInv, Waiting, Running
<1>10. CauseInv'
    BY <1>1, <1>2, BrokerTyped DEF BrokerInv, CauseInv, OrderAgrees, RefusalsAreLate,
       ExitOmitted, Seen
<1> QED BY <1>3, <1>4, <1>5, <1>6, <1>7, <1>8, <1>9, <1>10 DEF BrokerInv

LEMMA ControllerAsksKeeps ==
    ASSUME BrokerInv, ControllerAsks PROVE BrokerInv'
<1>0. PICK kind \in PublicRequests :
        stream' = [stream EXCEPT !.flight = kind, !.requests = stream.requests + 1]
    BY DEF ControllerAsks
<1>a. stream.requests + 1 \in Nat
    BY BrokerTyped DEF StreamRecords
<1>1. /\ stream' \in StreamRecords /\ stream'.events = stream.events
    BY <1>0, <1>a, BrokerTyped DEF StreamRecords, PublicRequests, NoEvent
<1>2. UNCHANGED <<channel, hostEnd, client, broker, attachment>>
    BY <1>0, <1>a, BrokerTyped DEF ControllerAsks
<1>3. BrokerTypes'
    BY <1>1, <1>2 DEF BrokerInv, BrokerTypes
<1>4. ChannelInv'
    BY <1>1, <1>2, <1>0, <1>a, BrokerTyped DEF BrokerInv, ChannelInv
<1>5. HostInv'
    BY <1>1, <1>2, <1>0, <1>a, BrokerTyped DEF BrokerInv, HostInv
<1>6. OpenInv'
    BY <1>1, <1>2, <1>0, <1>a, BrokerTyped DEF BrokerInv, OpenInv
<1>7. ViewInv'
    BY <1>1, <1>2, <1>0, <1>a, BrokerTyped DEF BrokerInv, ViewInv
<1>8. ShownInv'
    BY <1>1, <1>2, <1>0, <1>a, BrokerTyped DEF BrokerInv, ShownInv, AcknowledgedWasShown,
       SuccessEarned
<1>9. CountInv'
    BY <1>1, <1>2, <1>0, <1>a, BrokerTyped DEF BrokerInv, CountInv, Waiting, Running
<1>10. CauseInv'
    BY <1>1, <1>2, <1>0, <1>a, BrokerTyped DEF BrokerInv, CauseInv, OrderAgrees,
       RefusalsAreLate, ExitOmitted, Seen
<1> QED BY <1>3, <1>4, <1>5, <1>6, <1>7, <1>8, <1>9, <1>10 DEF BrokerInv

LEMMA ControllerClosesKeeps ==
    ASSUME BrokerInv, ControllerCloses PROVE BrokerInv'
<1>1. /\ stream' \in StreamRecords /\ stream'.events = stream.events
    BY BrokerTyped DEF StreamRecords, PublicRequests, NoEvent, LifecycleEvents, ControllerCloses
<1>2. UNCHANGED <<channel, hostEnd, client, broker, attachment>>
    BY BrokerTyped DEF ControllerCloses
<1>3. BrokerTypes'
    BY <1>1, <1>2 DEF BrokerInv, BrokerTypes
<1>4. ChannelInv'
    BY <1>1, <1>2, BrokerTyped DEF BrokerInv, ChannelInv
<1>5. HostInv'
    BY <1>1, <1>2, BrokerTyped DEF BrokerInv, HostInv
<1>6. OpenInv'
    BY <1>1, <1>2, BrokerTyped DEF BrokerInv, OpenInv
<1>7. ViewInv'
    BY <1>1, <1>2, BrokerTyped DEF BrokerInv, ViewInv, OpenInv
<1>8. ShownInv'
    BY <1>1, <1>2, BrokerTyped DEF BrokerInv, ShownInv, AcknowledgedWasShown, SuccessEarned
<1>9. CountInv'
    BY <1>1, <1>2, BrokerTyped DEF BrokerInv, CountInv, Waiting, Running
<1>10. CauseInv'
    BY <1>1, <1>2, BrokerTyped DEF BrokerInv, CauseInv, OrderAgrees, RefusalsAreLate,
       ExitOmitted, Seen
<1> QED BY <1>3, <1>4, <1>5, <1>6, <1>7, <1>8, <1>9, <1>10 DEF BrokerInv

-----------------------------------------------------------------------------
LEMMA TerminalRequestKeeps ==
    ASSUME BrokerInv, TerminalRequest PROVE BrokerInv'
<1> DEFINE kind == attachment.flight
<1>0. /\ broker.at = "loop" /\ kind \in {"input", "resize"} /\ Running
      /\ attachment' = [attachment EXCEPT !.flight = NoEvent]
      /\ UNCHANGED <<channel, client, stream>>
    BY BrokerTyped DEF TerminalRequest, AttachmentRecords, NoEvent, Running
<1>1. CASE UNCHANGED <<broker, hostEnd>>
    <2>1. /\ attachment' \in AttachmentRecords /\ attachment'.shown = attachment.shown
          /\ attachment'.end = attachment.end
        BY <1>0, <1>1, BrokerTyped DEF AttachmentRecords, NoEvent
    <2>2. UNCHANGED <<channel, hostEnd, client, broker, stream>>
        BY <1>0, <1>1, BrokerTyped
    <2>3. BrokerTypes'
        BY <2>1, <2>2 DEF BrokerInv, BrokerTypes
    <2>4. ChannelInv'
        BY <2>1, <2>2, <1>0, <1>1, BrokerTyped DEF BrokerInv, ChannelInv
    <2>5. HostInv'
        BY <2>1, <2>2, <1>0, <1>1, BrokerTyped DEF BrokerInv, HostInv
    <2>6. OpenInv'
        BY <2>1, <2>2, <1>0, <1>1, BrokerTyped DEF BrokerInv, OpenInv
    <2>7. ViewInv'
        BY <2>1, <2>2, <1>0, <1>1, BrokerTyped DEF BrokerInv, ViewInv
    <2>8. ShownInv'
        BY <2>1, <2>2, <1>0, <1>1, BrokerTyped DEF BrokerInv, ShownInv, AcknowledgedWasShown,
           SuccessEarned
    <2>9. CountInv'
        BY <2>1, <2>2, <1>0, <1>1, BrokerTyped DEF BrokerInv, CountInv, Waiting
    <2>10. CauseInv'
        BY <2>1, <2>2, <1>0, <1>1, BrokerTyped DEF BrokerInv, CauseInv, OrderAgrees,
           RefusalsAreLate
    <2> QED BY <2>3, <2>4, <2>5, <2>6, <2>7, <2>8, <2>9, <2>10 DEF BrokerInv
<1>2. CASE Fails("not-granted") /\ UNCHANGED hostEnd
    BY <1>0, <1>2, FailsAloneKeeps DEF Causes
<1>3. CASE ~Seen("ready") /\ Buffer(kind) /\ UNCHANGED hostEnd
    BY <1>0, <1>3, BufferKeeps
<1>4. CASE /\ ~DropsTyped /\ Seen("ready") /\ kind = "input"
           /\ WriteHost(kind, [hostEnd EXCEPT !.inputs = @ + 1], [broker EXCEPT !.taken = @ + 1],
                        "typed-refused")
    <2>1. Writable(kind)
        BY <1>0, <1>4 DEF Writable, DropsTyped, Seen, BrokerInv, HostInv, ViewInv
    <2>2. CASE Fails("transport") /\ UNCHANGED hostEnd
        BY <1>0, <2>2, FailsAloneKeeps DEF Causes
    <2>3. CASE /\ hostEnd' = [hostEnd EXCEPT !.inputs = @ + 1]
               /\ broker' = [broker EXCEPT !.taken = @ + 1]
        <3>1. /\ hostEnd' \in HostRecords /\ hostEnd'.sent = hostEnd.sent
              /\ hostEnd'.outputs = hostEnd.outputs /\ hostEnd'.exited = hostEnd.exited
              /\ hostEnd'.drained = hostEnd.drained /\ hostEnd'.got = hostEnd.got
              /\ hostEnd'.inputs = hostEnd.inputs + 1
            BY <1>0, <1>4, <2>3, BrokerTyped DEF HostRecords, LifecycleEvents
        <3>2. /\ broker' \in BrokerRecords /\ broker'.at = broker.at
              /\ broker'.seen = broker.seen /\ broker'.acknowledged = broker.acknowledged
              /\ broker'.ended = broker.ended /\ broker'.pending = broker.pending
              /\ broker'.taken = broker.taken + 1 /\ broker'.output = broker.output
              /\ broker'.cause = broker.cause
            BY <1>0, <1>4, <2>3, BrokerTyped DEF BrokerRecords, Granted
        <3>3. /\ attachment' \in AttachmentRecords /\ attachment'.shown = attachment.shown
              /\ attachment'.end = attachment.end
            BY <1>0, <1>4, <2>3, BrokerTyped DEF AttachmentRecords, NoEvent
        <3>4. UNCHANGED <<channel, client, stream>>
            BY <1>0, <1>4, <2>3, BrokerTyped
        <3>5. BrokerTypes'
            BY <3>1, <3>2, <3>3, <3>4 DEF BrokerInv, BrokerTypes
        <3>6. ChannelInv'
            BY <3>1, <3>2, <3>3, <3>4, <1>0, <1>4 DEF BrokerInv, ChannelInv
        <3>7. HostInv'
            BY <3>1, <3>2, <3>3, <3>4, <1>0, <1>4 DEF BrokerInv, HostInv
        <3>8. OpenInv'
            BY <3>1, <3>2, <3>3, <3>4, <1>0, <1>4 DEF BrokerInv, OpenInv
        <3>9. ViewInv'
            BY <3>1, <3>2, <3>3, <3>4, <1>0, <1>4 DEF BrokerInv, ViewInv
        <3>10. ShownInv'
            BY <3>1, <3>2, <3>3, <3>4, <1>0, <1>4 DEF BrokerInv, ShownInv, AcknowledgedWasShown,
               SuccessEarned
        <3>11. CountInv'
            BY <3>1, <3>2, <3>3, <3>4, <1>0, <1>4, BrokerTyped DEF BrokerInv, CountInv, Waiting,
               Seen, HostRecords
        <3>12. CauseInv'
            BY <3>1, <3>2, <3>3, <3>4, <1>0, <1>4 DEF BrokerInv, CauseInv, OrderAgrees,
               RefusalsAreLate
        <3> QED BY <3>5, <3>6, <3>7, <3>8, <3>9, <3>10, <3>11, <3>12 DEF BrokerInv
    <2> QED BY <1>4, <2>1, <2>2, <2>3 DEF WriteHost
<1>5. CASE /\ ~DropsTyped /\ Seen("ready") /\ kind = "resize"
           /\ WriteHost(kind, Got(kind), broker, "typed-refused")
    <2>1. Writable(kind)
        BY <1>0, <1>5 DEF Writable, DropsTyped, Seen, BrokerInv, HostInv, ViewInv
    <2>2. CASE Fails("transport") /\ UNCHANGED hostEnd
        BY <1>0, <2>2, FailsAloneKeeps DEF Causes
    <2>3. CASE hostEnd' = Got("resize") /\ broker' = broker
        <3>1. /\ hostEnd' \in HostRecords /\ hostEnd'.sent = hostEnd.sent
              /\ hostEnd'.outputs = hostEnd.outputs /\ hostEnd'.exited = hostEnd.exited
              /\ hostEnd'.drained = hostEnd.drained
              /\ hostEnd'.got = hostEnd.got \cup {"resize"} /\ hostEnd'.inputs = hostEnd.inputs
            BY <1>0, <2>3, BrokerTyped DEF HostRecords, LifecycleEvents, PublicRequests, Got
        <3>2. /\ attachment' \in AttachmentRecords /\ attachment'.shown = attachment.shown
              /\ attachment'.end = attachment.end
            BY <1>0, <2>3, BrokerTyped DEF AttachmentRecords, NoEvent
        <3>3. UNCHANGED <<channel, client, broker, stream>>
            BY <1>0, <2>3, BrokerTyped
        <3>4. BrokerTypes'
            BY <3>1, <3>2, <3>3 DEF BrokerInv, BrokerTypes
        <3>5. ChannelInv'
            BY <3>1, <3>2, <3>3, <1>0, <2>3, BrokerTyped DEF BrokerInv, ChannelInv
        <3>6. HostInv'
            BY <3>1, <3>2, <3>3, <1>0, <2>3, BrokerTyped DEF BrokerInv, HostInv
        <3>7. OpenInv'
            BY <3>1, <3>2, <3>3, <1>0, <2>3, BrokerTyped DEF BrokerInv, OpenInv
        <3>8. ViewInv'
            BY <3>1, <3>2, <3>3, <1>0, <2>3, BrokerTyped DEF BrokerInv, ViewInv
        <3>9. ShownInv'
            BY <3>1, <3>2, <3>3, <1>0, <2>3, BrokerTyped DEF BrokerInv, ShownInv,
               AcknowledgedWasShown, SuccessEarned
        <3>10. CountInv'
            BY <3>1, <3>2, <3>3, <1>0, <2>3, BrokerTyped DEF BrokerInv, CountInv, Waiting
        <3>11. CauseInv'
            BY <3>1, <3>2, <3>3, <1>0, <2>3, BrokerTyped DEF BrokerInv, CauseInv, OrderAgrees,
               RefusalsAreLate
        <3> QED BY <3>4, <3>5, <3>6, <3>7, <3>8, <3>9, <3>10, <3>11 DEF BrokerInv
    <2> QED BY <1>5, <2>1, <2>2, <2>3 DEF WriteHost
<1> QED BY <1>0, <1>1, <1>2, <1>3, <1>4, <1>5 DEF TerminalRequest

LEMMA PublicRequestKeeps ==
    ASSUME BrokerInv, PublicRequest PROVE BrokerInv'
<1> DEFINE kind == stream.flight
           cpl == broker.complete \/ kind = "complete"
           ack == broker.acknowledged \/ kind = "acknowledge"
<1>0. /\ broker.at = "loop" /\ kind \in PublicRequests
      /\ stream' = [stream EXCEPT !.flight = NoEvent]
      /\ UNCHANGED <<channel, client, attachment>>
    BY BrokerTyped DEF PublicRequest, StreamRecords, NoEvent
<1>1. stream' \in StreamRecords /\ stream'.events = stream.events
    BY <1>0, BrokerTyped DEF StreamRecords
<1>2. cpl \in BOOLEAN /\ ack \in BOOLEAN /\ (ack <=> broker.acknowledged \/ kind = "acknowledge")
    BY BrokerTyped DEF BrokerRecords
<1>3. ASSUME NEW c \in {"rejected", "transport"}, Fails(c), UNCHANGED hostEnd PROVE BrokerInv'
    BY <1>0, <1>1, <1>3, BrokerTyped, FailedKeeps DEF Causes
<1>4. CASE PublicAllowed(kind) /\ ~Writable(kind) /\ Fails("overtaken") /\ UNCHANGED hostEnd
    <2>1. client.terminated /\ ~Seen("terminated")
        BY <1>0, <1>4 DEF PublicAllowed, Writable, Seen, BrokerInv, HostInv, ViewInv
    <2> QED BY <1>0, <1>1, <1>4, <2>1, BrokerTyped, FailedKeeps DEF Causes
<1>5. CASE /\ PublicAllowed(kind) /\ hostEnd' = Got(kind)
           /\ broker' = [broker EXCEPT !.complete = cpl, !.acknowledged = ack]
    <2>0. kind = "acknowledge" => "terminated" \in broker.seen
        BY <1>5 DEF PublicAllowed, Seen
    <2> HIDE DEF cpl, ack
    <2>1. /\ hostEnd' \in HostRecords /\ hostEnd'.sent = hostEnd.sent
          /\ hostEnd'.outputs = hostEnd.outputs /\ hostEnd'.exited = hostEnd.exited
          /\ hostEnd'.drained = hostEnd.drained /\ hostEnd'.got = hostEnd.got \cup {kind}
          /\ hostEnd'.inputs = hostEnd.inputs
        BY <1>0, <1>1, <1>2, <1>5, <2>0, BrokerTyped DEF HostRecords, Got
    <2>2. /\ broker' \in BrokerRecords /\ broker'.at = broker.at /\ broker'.seen = broker.seen
          /\ broker'.acknowledged = ack /\ broker'.ended = broker.ended
          /\ broker'.pending = broker.pending /\ broker'.taken = broker.taken
          /\ broker'.output = broker.output /\ broker'.cause = broker.cause
        BY <1>0, <1>1, <1>2, <1>5, <2>0, BrokerTyped DEF BrokerRecords
    <2>3. UNCHANGED <<channel, client, attachment>>
        BY <1>0, <1>1, <1>2, <1>5, <2>0, BrokerTyped
    <2>4. BrokerTypes'
        BY <1>1, <2>1, <2>2, <2>3 DEF BrokerInv, BrokerTypes
    <2>5. ChannelInv'
        BY <2>1, <2>2, <2>3, <1>0, <1>1, <1>2 DEF BrokerInv, ChannelInv
    <2>6. HostInv'
        BY <2>1, <2>2, <2>3, <1>0, <1>1, <1>2 DEF BrokerInv, HostInv
    <2>7. OpenInv'
        BY <2>1, <2>2, <2>3, <1>0, <1>1, <1>2 DEF BrokerInv, OpenInv
    <2>8. ViewInv'
        BY <2>1, <2>2, <2>3, <1>0, <1>1, <1>2 DEF BrokerInv, ViewInv
    <2>9. ShownInv'
        BY <2>1, <2>2, <2>3, <1>0, <1>1, <1>2, <2>0 DEF BrokerInv, ShownInv,
           AcknowledgedWasShown, SuccessEarned
    <2>10. CountInv'
        BY <2>1, <2>2, <2>3, <1>0, <1>1, <1>2 DEF BrokerInv, CountInv, Waiting, Running
    <2>11. CauseInv'
        BY <2>1, <2>2, <2>3, <1>0, <1>1, <1>2 DEF BrokerInv, CauseInv, OrderAgrees,
           RefusalsAreLate
    <2> QED BY <2>4, <2>5, <2>6, <2>7, <2>8, <2>9, <2>10, <2>11 DEF BrokerInv
<1> QED BY <1>0, <1>3, <1>4, <1>5 DEF PublicRequest, WriteHost

-----------------------------------------------------------------------------
LEMMA EventsAgree ==
    ASSUME BrokerInv, broker.at = "loop", client.held \in LifecycleEvents \cup {"output"},
           ~EventInOrder(client.held)
    PROVE  ExitOmitted
<1> DEFINE e == client.held
           sent == hostEnd.sent
           seen == broker.seen
<1>1. /\ "terminated" \notin seen
      /\ e # "output" => e \in sent /\ e \notin seen
      /\ sent \subseteq seen \cup {e} /\ seen \subseteq sent \cup {"outputs-finalized"}
      /\ "outputs-finalized" \in seen => broker.ended /\ "outputs-finalized" \in sent
    BY DEF BrokerInv, ViewInv, LifecycleEvents, NoEvent
<1>2. CASE e = "ready"
    <2>1. "terminating" \notin sent
        BY <1>2 DEF BrokerInv, ViewInv
    <2> QED BY <1>1, <1>2, <2>1 DEF EventInOrder, Seen
<1>3. CASE e = "output"
    <2>1. "outputs-finalized" \notin sent
        BY <1>3 DEF BrokerInv, ViewInv
    <2> QED BY <1>1, <1>3, <2>1 DEF EventInOrder, Seen
<1>4. CASE e = "workload-exit"
    <2>1. "outputs-finalized" \notin sent
        BY <1>4 DEF BrokerInv, ViewInv
    <2> QED BY <1>1, <1>4, <2>1 DEF EventInOrder, Seen
<1>5. CASE e = "terminating"
    BY <1>1, <1>5 DEF EventInOrder, Seen
<1>6. CASE e = "outputs-finalized"
    <2>1. "terminating" \in seen
        BY <1>1, <1>6 DEF BrokerInv, HostInv
    <2>2. "ready" \in seen /\ "workload-exit" \notin seen /\ hostEnd.drained
        BY <1>1, <1>6, <2>1 DEF EventInOrder, Seen
    <2>3. "ready" \in sent /\ "workload-exit" \notin sent
        BY <1>1, <1>6, <2>2
    <2> QED BY <2>2, <2>3 DEF ExitOmitted, BrokerInv, HostInv
<1>7. CASE e = "terminated"
    <2>1. "ready" \in seen => "outputs-finalized" \in seen /\ "terminating" \in seen
        BY <1>1, <1>7 DEF BrokerInv, HostInv
    <2> QED BY <1>1, <1>7, <2>1 DEF EventInOrder, Seen
<1> QED BY <1>2, <1>3, <1>4, <1>5, <1>6, <1>7 DEF LifecycleEvents

LEMMA SizedFields ==
    ASSUME BrokerInv
    PROVE  /\ Sized \in HostRecords /\ Sized.sent = hostEnd.sent /\ Sized.outputs = hostEnd.outputs
           /\ Sized.exited = hostEnd.exited /\ Sized.drained = hostEnd.drained
           /\ Sized.inputs = hostEnd.inputs
           /\ hostEnd.got \subseteq Sized.got /\ Sized.got \subseteq hostEnd.got \cup {"resize"}
BY BrokerTyped DEF Sized, Got, HostRecords, PublicRequests

\* The event leaves the hand-over between the client and the broker.
LEMMA TakenEvent ==
    ASSUME BrokerInv, ApplyEvent
    PROVE  /\ broker.at = "loop" /\ broker.output = "none" /\ UNCHANGED channel
           /\ client.held \in LifecycleEvents \cup {"output"}
           /\ client' \in ClientRecords /\ client'.held = NoEvent /\ client'.opened = client.opened
           /\ client'.ready = client.ready /\ client'.terminated = client.terminated
<1>1. broker.at = "loop" /\ broker.output = "none" /\ UNCHANGED channel /\ client.held # NoEvent
    BY DEF ApplyEvent, TakesEvents
<1>2. client.held \in LifecycleEvents \cup {"output"}
    BY <1>1, BrokerTyped DEF BrokerInv, OpenInv, ClientRecords
<1> QED BY <1>1, <1>2, BrokerTyped DEF ApplyEvent, ClientRecords

LEMMA FailsEventKeeps ==
    ASSUME BrokerInv, ApplyEvent, NEW c \in Causes \ {"none", "typed-refused", "overtaken"}, Fails(c),
           c = "out-of-order" => ~EventInOrder(client.held),
           hostEnd' \in {hostEnd, Sized}, UNCHANGED attachment,
           UNCHANGED stream \/ \E e \in LifecycleEvents : PublishEvent(e)
    PROVE  BrokerInv'
<1>1. stream' \in StreamRecords /\ stream.events \subseteq stream'.events
    BY BrokerTyped DEF PublishEvent, StreamRecords
<1>2. c = "out-of-order" => ExitOmitted
    BY TakenEvent, EventsAgree
<1>3. /\ hostEnd' \in HostRecords /\ hostEnd'.sent = hostEnd.sent /\ hostEnd'.exited = hostEnd.exited
      /\ hostEnd'.drained = hostEnd.drained /\ hostEnd'.outputs = hostEnd.outputs
      /\ hostEnd.got \subseteq hostEnd'.got /\ hostEnd'.got \subseteq hostEnd.got \cup {"resize"}
    BY BrokerTyped, SizedFields
<1> QED BY <1>1, <1>2, <1>3, BrokerTyped, TakenEvent, FailedKeeps

LEMMA OutputEventKeeps ==
    ASSUME BrokerInv, ApplyEvent, client.held = "output", broker' = [broker EXCEPT !.output = "pending"],
           UNCHANGED <<hostEnd, attachment, stream>>
    PROVE  BrokerInv'
<1>1. /\ broker' \in BrokerRecords /\ broker'.at = broker.at /\ broker'.seen = broker.seen
      /\ broker'.acknowledged = broker.acknowledged /\ broker'.ended = broker.ended
      /\ broker'.pending = broker.pending /\ broker'.taken = broker.taken
      /\ broker'.output = "pending" /\ broker'.cause = broker.cause
    BY BrokerTyped, TakenEvent DEF BrokerRecords, Granted, LifecycleEvents, Causes
<1>2. UNCHANGED <<channel, hostEnd, attachment, stream>>
    BY BrokerTyped, TakenEvent
<1>3. BrokerTypes'
    BY TakenEvent, <1>1, <1>2 DEF BrokerInv, BrokerTypes
<1>4. ChannelInv'
    BY <1>1, <1>2, BrokerTyped, TakenEvent DEF BrokerInv, ChannelInv
<1>5. HostInv'
    BY <1>1, <1>2, BrokerTyped, TakenEvent DEF BrokerInv, HostInv
<1>6. OpenInv'
    BY <1>1, <1>2, BrokerTyped, TakenEvent DEF BrokerInv, OpenInv, NoEvent
<1>7. ViewInv'
    BY <1>1, <1>2, BrokerTyped, TakenEvent DEF BrokerInv, ViewInv, LifecycleEvents, NoEvent,
       HostRecords
<1>8. ShownInv'
    BY <1>1, <1>2, BrokerTyped, TakenEvent DEF BrokerInv, ShownInv, AcknowledgedWasShown,
       SuccessEarned
<1>9. CountInv'
    BY <1>1, <1>2, BrokerTyped, TakenEvent DEF BrokerInv, CountInv, Waiting, Running, NoEvent
<1>10. CauseInv'
    BY <1>1, <1>2, BrokerTyped, TakenEvent DEF BrokerInv, CauseInv, OrderAgrees, RefusalsAreLate
<1> QED BY <1>3, <1>4, <1>5, <1>6, <1>7, <1>8, <1>9, <1>10 DEF BrokerInv

LEMMA ReadyEventKeeps ==
    ASSUME BrokerInv, ApplyEvent, client.held = "ready", ApplyReady, UNCHANGED attachment
    PROVE  BrokerInv'
<1>1. CASE /\ Fails(IF Writable("resize") THEN "transport" ELSE "typed-refused")
           /\ \/ UNCHANGED <<hostEnd, stream>>
              \/ hostEnd' = Sized /\ (PublishEvent("ready") \/ UNCHANGED stream)
    <2>1. Writable("resize")
        <3>1. "ready" \in hostEnd.sent /\ "ready" \notin broker.seen /\ "terminated" \notin hostEnd.sent
            BY TakenEvent DEF BrokerInv, ViewInv, LifecycleEvents, NoEvent
        <3> QED BY <3>1 DEF Writable, BrokerInv, HostInv
    <2>2. Fails("transport") /\ "transport" \in Causes
        BY <1>1, <2>1 DEF Causes
    <2>3. UNCHANGED stream \/ \E e \in LifecycleEvents : PublishEvent(e)
        BY <1>1 DEF LifecycleEvents
    <2> QED BY <1>1, <2>2, <2>3, FailsEventKeeps
<1>2. CASE /\ broker' = [broker EXCEPT !.seen = @ \cup {"ready"}, !.resize = FALSE, !.pending = 0]
           /\ hostEnd' = [Sized EXCEPT !.inputs = @ + broker.pending]
           /\ PublishEvent("ready")
    <2> DEFINE inputs == Sized.inputs + broker.pending
    <2>0. hostEnd' = [Sized EXCEPT !.inputs = inputs]
        BY <1>2
    <2>a. inputs \in Nat /\ inputs = hostEnd.inputs + broker.pending /\ 0 \in 0..MaxPending
        BY BrokerTyped, SizedFields, BrokerBounds DEF HostRecords, BrokerRecords
    <2>b. /\ hostEnd' \in HostRecords /\ hostEnd'.sent = hostEnd.sent
          /\ hostEnd'.outputs = hostEnd.outputs /\ hostEnd'.exited = hostEnd.exited
          /\ hostEnd'.drained = hostEnd.drained /\ hostEnd'.inputs = inputs
          /\ hostEnd.got \subseteq hostEnd'.got /\ hostEnd'.got \subseteq hostEnd.got \cup {"resize"}
        <3> HIDE DEF inputs
        <3> QED BY <2>0, <2>a, SizedFields DEF HostRecords
    <2> HIDE DEF inputs
    <2>1. /\ broker' \in BrokerRecords /\ broker'.at = broker.at
          /\ broker'.seen = broker.seen \cup {"ready"}
          /\ broker'.acknowledged = broker.acknowledged /\ broker'.ended = broker.ended
          /\ broker'.pending = 0 /\ broker'.taken = broker.taken
          /\ broker'.output = broker.output /\ broker'.cause = broker.cause
        BY <1>2, <2>a, <2>b, BrokerTyped, TakenEvent DEF BrokerRecords, LifecycleEvents
    <2>2. /\ stream' \in StreamRecords /\ stream'.events = stream.events \cup {"ready"}
        BY <1>2, <2>a, <2>b, BrokerTyped, TakenEvent DEF StreamRecords, PublishEvent
    <2>3. UNCHANGED <<channel, attachment>>
        BY <1>2, <2>a, <2>b, BrokerTyped, TakenEvent
    <2>4. BrokerTypes'
        BY <2>b, TakenEvent, <2>1, <2>2, <2>3 DEF BrokerInv, BrokerTypes
    <2>5. ChannelInv'
        BY <2>1, <2>2, <2>3, <1>2, <2>a, <2>b DEF BrokerInv, ChannelInv
    <2>6. HostInv'
        BY <2>1, <2>2, <2>3, <1>2, <2>a, <2>b, TakenEvent DEF BrokerInv, HostInv
    <2>7. OpenInv'
        BY <2>1, <2>2, <2>3, <1>2, <2>a, <2>b, TakenEvent DEF BrokerInv, OpenInv, NoEvent
    <2>8. ViewInv'
        BY <2>1, <2>2, <2>3, <1>2, <2>a, <2>b, TakenEvent DEF BrokerInv, ViewInv,
           LifecycleEvents, NoEvent
    <2>9. ShownInv'
        BY <2>1, <2>2, <2>3, <1>2, <2>a, <2>b DEF BrokerInv, ShownInv, AcknowledgedWasShown,
           SuccessEarned
    <2>10. CountInv'
        BY <2>1, <2>2, <2>3, <1>2, <2>a, <2>b, TakenEvent DEF BrokerInv, CountInv, Waiting,
           Running, NoEvent
    <2>11. CauseInv'
        BY <2>1, <2>2, <2>3, <1>2, <2>a, <2>b, TakenEvent DEF BrokerInv, CauseInv, OrderAgrees,
           RefusalsAreLate
    <2> QED BY <2>4, <2>5, <2>6, <2>7, <2>8, <2>9, <2>10, <2>11 DEF BrokerInv
<1> QED BY <1>1, <1>2 DEF ApplyReady

\* The terminal has its end, after all of the output.
LEMMA EndEventKeeps ==
    ASSUME BrokerInv, ApplyEvent, NEW e \in {"outputs-finalized", "terminated"}, client.held = e,
           attachment' = [attachment EXCEPT !.end = TRUE],
           broker' = [broker EXCEPT !.seen = @ \cup {e, "outputs-finalized"}, !.ended = TRUE],
           PublishEvent(e), UNCHANGED hostEnd
    PROVE  BrokerInv'
<1>1. /\ broker' \in BrokerRecords /\ broker'.at = broker.at
      /\ broker'.seen = broker.seen \cup {e, "outputs-finalized"}
      /\ broker'.acknowledged = broker.acknowledged /\ broker'.ended = TRUE
      /\ broker'.pending = broker.pending /\ broker'.taken = broker.taken
      /\ broker'.output = broker.output /\ broker'.cause = broker.cause
    BY BrokerTyped, TakenEvent DEF BrokerRecords, Granted, LifecycleEvents, Causes
<1>2. /\ attachment' \in AttachmentRecords /\ attachment'.shown = attachment.shown
      /\ attachment'.end = TRUE
    BY BrokerTyped, TakenEvent DEF AttachmentRecords, NoEvent
<1>3. /\ stream' \in StreamRecords /\ stream'.events = stream.events \cup {e}
    BY BrokerTyped, TakenEvent DEF StreamRecords, PublishEvent, PublicRequests, NoEvent
<1>4. UNCHANGED <<channel, hostEnd>>
    BY BrokerTyped, TakenEvent
<1>5. BrokerTypes'
    BY TakenEvent, <1>1, <1>2, <1>3, <1>4 DEF BrokerInv, BrokerTypes
<1>6. ChannelInv'
    BY <1>1, <1>2, <1>3, <1>4, BrokerTyped, TakenEvent DEF BrokerInv, ChannelInv
<1>7. HostInv'
    BY <1>1, <1>2, <1>3, <1>4, BrokerTyped, TakenEvent DEF BrokerInv, HostInv
<1>8. OpenInv'
    BY <1>1, <1>2, <1>3, <1>4, BrokerTyped, TakenEvent DEF BrokerInv, OpenInv, NoEvent
<1>9. ViewInv'
    BY <1>1, <1>2, <1>3, <1>4, BrokerTyped, TakenEvent DEF BrokerInv, ViewInv, LifecycleEvents,
       NoEvent
<1>10. ShownInv'
    BY <1>1, <1>2, <1>3, <1>4, BrokerTyped, TakenEvent DEF BrokerInv, ShownInv,
       AcknowledgedWasShown, SuccessEarned
<1>11. CountInv'
    BY <1>1, <1>2, <1>3, <1>4, BrokerTyped, TakenEvent DEF BrokerInv, CountInv, Waiting,
       Running, ViewInv, NoEvent, AttachmentRecords
<1>12. CauseInv'
    BY <1>1, <1>2, <1>3, <1>4, BrokerTyped, TakenEvent DEF BrokerInv, CauseInv, OrderAgrees,
       RefusalsAreLate
<1> QED BY <1>5, <1>6, <1>7, <1>8, <1>9, <1>10, <1>11, <1>12 DEF BrokerInv

LEMMA PlainEventKeeps ==
    ASSUME BrokerInv, ApplyEvent, NEW e \in {"workload-exit", "terminating", "terminated"},
           client.held = e, broker' = [broker EXCEPT !.seen = @ \cup {e}],
           PublishEvent(e), UNCHANGED <<hostEnd, attachment>>
    PROVE  BrokerInv'
<1>1. /\ broker' \in BrokerRecords /\ broker'.at = broker.at
      /\ broker'.seen = broker.seen \cup {e} /\ broker'.acknowledged = broker.acknowledged
      /\ broker'.ended = broker.ended /\ broker'.pending = broker.pending
      /\ broker'.taken = broker.taken /\ broker'.output = broker.output
      /\ broker'.cause = broker.cause
    BY BrokerTyped, TakenEvent DEF BrokerRecords, Granted, LifecycleEvents, Causes
<1>2. /\ stream' \in StreamRecords /\ stream'.events = stream.events \cup {e}
    BY BrokerTyped, TakenEvent DEF StreamRecords, PublishEvent, PublicRequests, NoEvent
<1>3. UNCHANGED <<channel, hostEnd, attachment>>
    BY BrokerTyped, TakenEvent
<1>4. BrokerTypes'
    BY TakenEvent, <1>1, <1>2, <1>3 DEF BrokerInv, BrokerTypes
<1>5. ChannelInv'
    BY <1>1, <1>2, <1>3, BrokerTyped, TakenEvent DEF BrokerInv, ChannelInv
<1>6. HostInv'
    BY <1>1, <1>2, <1>3, BrokerTyped, TakenEvent DEF BrokerInv, HostInv
<1>7. OpenInv'
    BY <1>1, <1>2, <1>3, BrokerTyped, TakenEvent DEF BrokerInv, OpenInv, NoEvent
<1>8. ViewInv'
    BY <1>1, <1>2, <1>3, BrokerTyped, TakenEvent DEF BrokerInv, ViewInv, LifecycleEvents,
       NoEvent
<1>9. ShownInv'
    BY <1>1, <1>2, <1>3, BrokerTyped, TakenEvent DEF BrokerInv, ShownInv, AcknowledgedWasShown,
       SuccessEarned
<1>10. CountInv'
    BY <1>1, <1>2, <1>3, BrokerTyped, TakenEvent DEF BrokerInv, CountInv, Waiting, Running,
       NoEvent
<1>11. CauseInv'
    BY <1>1, <1>2, <1>3, BrokerTyped, TakenEvent DEF BrokerInv, CauseInv, OrderAgrees,
       RefusalsAreLate
<1> QED BY <1>4, <1>5, <1>6, <1>7, <1>8, <1>9, <1>10, <1>11 DEF BrokerInv

LEMMA ApplyEventKeeps ==
    ASSUME BrokerInv, ApplyEvent PROVE BrokerInv'
<1> DEFINE e == client.held
<1>0. e \in {"ready", "workload-exit", "terminating", "outputs-finalized", "terminated", "output"}
    BY TakenEvent DEF LifecycleEvents
<1>1. CASE ~EventInOrder(e) /\ Fails("out-of-order") /\ UNCHANGED <<hostEnd, attachment, stream>>
    BY <1>1, FailsEventKeeps DEF Causes
<1>2. CASE Fails("public-stream") /\ UNCHANGED <<hostEnd, attachment, stream>>
    BY <1>2, FailsEventKeeps DEF Causes
<1>3. CASE CASE e = "output" ->
                    broker' = [broker EXCEPT !.output = "pending"] /\ UNCHANGED <<hostEnd, attachment, stream>>
             [] e = "ready" -> ApplyReady /\ UNCHANGED attachment
             [] e = "outputs-finalized" -> EndTerminal(e) /\ PublishEvent(e) /\ UNCHANGED hostEnd
             [] e = "terminated" /\ ~broker.ended ->
                  /\ EndTerminal(e) /\ UNCHANGED hostEnd
                  /\ IF broker'.at = "loop" THEN PublishEvent(e) ELSE UNCHANGED stream
             [] OTHER -> /\ broker' = [broker EXCEPT !.seen = @ \cup {e}]
                         /\ PublishEvent(e) /\ UNCHANGED <<hostEnd, attachment>>
    <2>1. CASE e = "output"
        BY <1>3, <2>1, OutputEventKeeps
    <2>2. CASE e = "ready"
        BY <1>3, <2>2, ReadyEventKeeps
    <2>3. CASE e = "outputs-finalized"
        <3>1. EndTerminal(e) /\ PublishEvent(e) /\ UNCHANGED hostEnd
            BY <1>3, <2>3
        <3>2. CASE Fails("terminal") /\ UNCHANGED attachment
            BY <2>3, <3>1, <3>2, FailsEventKeeps DEF Causes, LifecycleEvents
        <3> QED BY <2>3, <3>1, <3>2, EndEventKeeps DEF EndTerminal
    <2>4. CASE e = "terminated" /\ ~broker.ended
        <3>1. /\ EndTerminal(e) /\ UNCHANGED hostEnd
              /\ IF broker'.at = "loop" THEN PublishEvent(e) ELSE UNCHANGED stream
            BY <1>3, <2>4
        <3>2. CASE Fails("terminal") /\ UNCHANGED attachment
            BY <2>4, <3>1, <3>2, FailsEventKeeps DEF Causes, LifecycleEvents
        <3>3. CASE /\ attachment' = [attachment EXCEPT !.end = TRUE]
                   /\ broker' = [broker EXCEPT !.seen = @ \cup {e, "outputs-finalized"}, !.ended = TRUE]
            <4>1. broker'.at = "loop"
                BY <3>3, BrokerTyped, TakenEvent DEF BrokerRecords
            <4> QED BY <2>4, <3>1, <3>3, <4>1, EndEventKeeps
        <3> QED BY <3>1, <3>2, <3>3 DEF EndTerminal
    <2>5. CASE e \in {"workload-exit", "terminating"} \/ (e = "terminated" /\ broker.ended)
        <3>1. /\ broker' = [broker EXCEPT !.seen = @ \cup {e}]
              /\ PublishEvent(e) /\ UNCHANGED <<hostEnd, attachment>>
            BY <1>3, <2>5
        <3> QED BY <2>5, <3>1, PlainEventKeeps
    <2> QED BY <1>0, <2>1, <2>2, <2>3, <2>4, <2>5
<1> QED BY <1>1, <1>2, <1>3 DEF ApplyEvent

-----------------------------------------------------------------------------
LEMMA BrokerStart == BrokerInit => BrokerInv
<1> SUFFICES ASSUME BrokerInit PROVE BrokerInv
    OBVIOUS
<1>1. PICK operations \in {Granted, Granted \ {"input"}} :
        broker = [at |-> "setup", terminal |-> FALSE, operations |-> operations, seen |-> {},
                  complete |-> FALSE, acknowledged |-> FALSE, ended |-> FALSE,
                  resize |-> FALSE, pending |-> 0, taken |-> 0, output |-> "none", cause |-> "none"]
    BY DEF BrokerInit
<1>2. 0 \in 0..MaxPending
    BY BrokerBounds
<1>3. broker \in BrokerRecords
    BY <1>1, <1>2 DEF BrokerRecords, Causes
<1>4. BrokerTypes
    BY <1>3 DEF BrokerInit, BrokerTypes, ChannelRecords, HostRecords, ClientRecords,
       AttachmentRecords, StreamRecords
<1>5. ChannelInv /\ HostInv
    BY DEF BrokerInit, ChannelInv, HostInv
<1>6. OpenInv /\ ViewInv
    BY <1>1 DEF BrokerInit, OpenInv, ViewInv
<1>7. ShownInv
    BY <1>1 DEF BrokerInit, ShownInv, AcknowledgedWasShown, SuccessEarned
<1>8. CountInv
    BY <1>1 DEF BrokerInit, CountInv, Waiting, NoEvent
<1>9. CauseInv
    BY <1>1 DEF CauseInv, OrderAgrees, RefusalsAreLate
<1> QED BY <1>4, <1>5, <1>6, <1>7, <1>8, <1>9 DEF BrokerInv

LEMMA BrokerStep == BrokerInv /\ [BrokerNext]_brokerVars => BrokerInv'
<1> SUFFICES ASSUME BrokerInv, [BrokerNext]_brokerVars PROVE BrokerInv'
    OBVIOUS
<1>1. CASE UNCHANGED brokerVars
    BY <1>1, BrokerTyped, ChannelStepKeeps DEF brokerVars, BrokerInv, ChannelInv
<1>2. CASE BrokerSteps
    BY <1>2, ClientOpensKeeps, AcceptTerminalKeeps, BufferSetupKeeps, BeginLoopKeeps,
       TerminalRequestKeeps, PublicRequestKeeps, ApplyEventKeeps, WriteOutputKeeps,
       HostClosedKeeps, EndingsKeep DEF BrokerSteps
<1>3. CASE ClaimSteps
    BY <1>3, ClaimAcceptKeeps, ClaimRetireKeeps, ClaimStoreKeeps, ClaimOpenKeeps DEF ClaimSteps
<1>4. CASE CloseChannel \/ HostSends \/ HostOutputs \/ LateExit \/ InputBreaks \/ BrokerCanceled
    BY <1>4, CloseChannelKeeps, HostSendsKeeps, HostOutputsKeeps, LateExitKeeps, EndingsKeep
<1>5. CASE Type \/ AttachmentLeaves \/ ControllerAsks \/ ControllerCloses
    BY <1>5, TypeKeeps, AttachmentLeavesKeeps, ControllerAsksKeeps, ControllerClosesKeeps
<1> QED BY <1>1, <1>2, <1>3, <1>4, <1>5 DEF BrokerNext

LEMMA BrokerInvSound == BrokerInv => BrokerSound
<1> SUFFICES ASSUME BrokerInv PROVE BrokerSound
    OBVIOUS
<1>1. BrokerTypeOK
    BY BrokerTyped DEF BrokerTypeOK, BrokerRecords, ClientRecords
<1>2. TypedIsDelivered
    BY BrokerTyped DEF BrokerInv, CountInv, TypedIsDelivered, Running, Seen, HostRecords
<1>3. EndAfterOutput
    BY DEF BrokerInv, CountInv, EndAfterOutput
<1>4. SuccessEarned /\ AcknowledgedWasShown
    BY DEF BrokerInv, ShownInv
<1>5. ClosedChannelDrops
    BY DEF BrokerInv, ChannelInv, ClosedChannelDrops
<1>6. OrderAgrees /\ RefusalsAreLate
    BY DEF BrokerInv, CauseInv
<1> QED BY <1>1, <1>2, <1>3, <1>4, <1>5, <1>6 DEF BrokerSound

\* For every number of outputs and inputs, every limit of the buffer and every set of
\* granted operations: what is typed reaches the host once and in order, the terminal has its
\* end after all of the output, success and acknowledgement are reported only when they
\* happened, a closed channel keeps no connection, and where the views of channel, client and
\* broker differ nothing is refused for it (Claim, applyRequest, applyHostEvent,
\* RunControllerBrokerV1).
THEOREM BrokerSoundness == BrokerSpec => []BrokerSound
<1>1. BrokerSpec => []BrokerInv
    BY BrokerStart, BrokerStep, PTL DEF BrokerSpec
<1> QED BY <1>1, BrokerInvSound, PTL

-----------------------------------------------------------------------------
(* Plans: the order of paths                                                *)

Path == Seq(Elements)

\* One path above another, element by element.
LEMMA PrefixPoints ==
    ASSUME NEW s \in Path, NEW t \in Path
    PROVE  Encloses(s, t) <=> Len(s) <= Len(t) /\ \A i \in 1..Len(s) : s[i] = t[i]
  <1>0. Len(s) \in Nat /\ Len(t) \in Nat
    BY DEF Path
  <1>1. SUFFICES ASSUME Len(s) <= Len(t)
                 PROVE  SubSeq(s, 1, Len(s)) = SubSeq(t, 1, Len(s)) <=> \A i \in 1..Len(s) : s[i] = t[i]
    BY <1>1 DEF Encloses, Paths!IsPrefix
  <1>2. SubSeq(s, 1, Len(s)) = s
    BY SubSeqFull DEF Path
  <1>3. \A i \in 1..Len(s) : t[i] \in Elements
    BY <1>0, <1>1, ElementOfSeq DEF Path
  <1>4. SubSeq(t, 1, Len(s)) \in Path /\ Len(SubSeq(t, 1, Len(s))) = Len(s)
        /\ \A i \in 1..Len(s) : SubSeq(t, 1, Len(s))[i] = t[i]
    <2> DEFINE n == Len(s)
    <2>1. n \in Nat /\ \A i \in 1..n : t[i] \in Elements
      BY <1>0, <1>3
    <2>2. /\ SubSeq(t, 1, n) \in Seq(Elements)
          /\ Len(SubSeq(t, 1, n)) = IF 1 <= n THEN n - 1 + 1 ELSE 0
          /\ \A i \in 1..(n - 1 + 1) : SubSeq(t, 1, n)[i] = t[1 + i - 1]
      BY <2>1, SubSeqProperties
    <2> HIDE DEF n
    <2>3. SubSeq(t, 1, n) \in Path /\ Len(SubSeq(t, 1, n)) = n /\ \A i \in 1..n : SubSeq(t, 1, n)[i] = t[i]
      BY <2>1, <2>2 DEF Path
    <2> QED BY <2>3 DEF n
  <1>5. ASSUME \A i \in 1..Len(s) : s[i] = t[i] PROVE s = SubSeq(t, 1, Len(s))
    BY <1>4, <1>5, SeqEqual DEF Path
  <1> QED BY <1>2, <1>4, <1>5

\* Two paths above one and the same are on one line.
LEMMA EnclosingPaths ==
    ASSUME NEW s \in Path, NEW t \in Path, NEW u \in Path, Encloses(s, u), Encloses(t, u)
    PROVE  Encloses(s, t) \/ Encloses(t, s)
  <1>0. Len(s) \in Nat /\ Len(t) \in Nat /\ Len(u) \in Nat
    BY DEF Path
  <1>1. /\ Len(s) <= Len(u) /\ \A i \in 1..Len(s) : s[i] = u[i]
        /\ Len(t) <= Len(u) /\ \A i \in 1..Len(t) : t[i] = u[i]
    BY PrefixPoints
  <1>2. CASE Len(s) <= Len(t)
    <2>1. \A i \in 1..Len(s) : s[i] = t[i]
      BY <1>0, <1>1, <1>2
    <2> QED BY <2>1, <1>2, PrefixPoints
  <1>3. CASE Len(t) <= Len(s)
    <2>1. \A i \in 1..Len(t) : t[i] = s[i]
      BY <1>0, <1>1, <1>3
    <2> QED BY <2>1, <1>3, PrefixPoints
  <1> QED BY <1>0, <1>2, <1>3

\* What lies below a path lies below what is above it.
LEMMA EnclosesTransitive ==
    ASSUME NEW s \in Path, NEW t \in Path, NEW u \in Path, Encloses(s, t), Encloses(t, u)
    PROVE  Encloses(s, u)
  <1>0. Len(s) \in Nat /\ Len(t) \in Nat /\ Len(u) \in Nat
    BY DEF Path
  <1>1. /\ Len(s) <= Len(t) /\ \A i \in 1..Len(s) : s[i] = t[i]
        /\ Len(t) <= Len(u) /\ \A i \in 1..Len(t) : t[i] = u[i]
    BY PrefixPoints
  <1>2. Len(s) <= Len(u) /\ \A i \in 1..Len(s) : s[i] = u[i]
    BY <1>0, <1>1
  <1> QED BY <1>2, PrefixPoints

\* A path with more elements lies below the path.
LEMMA ExtensionIsBelow ==
    ASSUME NEW s \in Path, NEW x \in Path
    PROVE  s \o x \in Path /\ Encloses(s, s \o x)
  <1>1. /\ s \o x \in Path /\ Len(s \o x) = Len(s) + Len(x) /\ Len(s) \in Nat /\ Len(x) \in Nat
        /\ \A i \in 1..Len(s) + Len(x) : (s \o x)[i] = IF i <= Len(s) THEN s[i] ELSE x[i - Len(s)]
    BY ConcatProperties DEF Path
  <1>2. Len(s) <= Len(s \o x) /\ \A i \in 1..Len(s) : s[i] = (s \o x)[i]
    BY <1>1
  <1> QED BY <1>1, <1>2, PrefixPoints

\* What overlaps something below a path overlaps the path.
LEMMA OverlapFromBelow ==
    ASSUME NEW s \in Path, NEW x \in Path, NEW p \in Path, Overlap(s \o x, p)
    PROVE  Overlap(s, p)
  <1>1. s \o x \in Path /\ Encloses(s, s \o x)
    BY ExtensionIsBelow
  <1>2. CASE Encloses(s \o x, p)
    BY <1>1, <1>2, EnclosesTransitive DEF Overlap
  <1>3. CASE Encloses(p, s \o x)
    BY <1>1, <1>3, EnclosingPaths DEF Overlap
  <1> QED BY <1>2, <1>3 DEF Overlap

\* What is left of a path below another, element by element.
LEMMA BelowPoints ==
    ASSUME NEW s \in Path, NEW t \in Path, Encloses(s, t)
    PROVE  /\ Below(s, t) \in Path /\ Len(Below(s, t)) = Len(t) - Len(s)
           /\ \A i \in 1..Len(t) - Len(s) : Below(s, t)[i] = t[Len(s) + i]
  <1>0. Len(s) \in Nat /\ Len(t) \in Nat /\ Len(s) <= Len(t)
    BY PrefixPoints DEF Path
  <1> DEFINE m == Len(s) + 1
             n == Len(t)
  <1>1. m \in Int /\ n \in Int /\ \A i \in m..n : t[i] \in Elements
    BY <1>0, ElementOfSeq DEF Path
  <1>2. /\ SubSeq(t, m, n) \in Seq(Elements)
        /\ Len(SubSeq(t, m, n)) = IF m <= n THEN n - m + 1 ELSE 0
        /\ \A i \in 1..(n - m + 1) : SubSeq(t, m, n)[i] = t[m + i - 1]
    <2> HIDE DEF m, n
    <2> QED BY <1>1, SubSeqProperties
  <1>3. Below(s, t) = SubSeq(t, m, n)
    BY DEF Below
  <1>4. n - m + 1 = Len(t) - Len(s) /\ (m <= n \/ Len(t) = Len(s))
    BY <1>0
  <1>5. \A i \in 1..Len(t) - Len(s) : m + i - 1 = Len(s) + i
    BY <1>0
  <1> QED BY <1>0, <1>2, <1>3, <1>4, <1>5 DEF Path

\* Two paths keep their order when both are put below another.
LEMMA PathsPutBelow ==
    ASSUME NEW a \in Path, NEW b \in Path, NEW at \in Path, Encloses(a, b)
    PROVE  at \o a \in Path /\ at \o b \in Path /\ Encloses(at \o a, at \o b)
  <1>1. /\ Len(a) \in Nat /\ Len(b) \in Nat /\ Len(at) \in Nat
        /\ Len(a) <= Len(b) /\ \A i \in 1..Len(a) : a[i] = b[i]
    BY PrefixPoints DEF Path
  <1>2. /\ at \o a \in Path /\ Len(at \o a) = Len(at) + Len(a)
        /\ \A i \in 1..Len(at) + Len(a) : (at \o a)[i] = IF i <= Len(at) THEN at[i] ELSE a[i - Len(at)]
    BY ConcatProperties DEF Path
  <1>3. /\ at \o b \in Path /\ Len(at \o b) = Len(at) + Len(b)
        /\ \A i \in 1..Len(at) + Len(b) : (at \o b)[i] = IF i <= Len(at) THEN at[i] ELSE b[i - Len(at)]
    BY ConcatProperties DEF Path
  <1>4. Len(at \o a) <= Len(at \o b)
    BY <1>1, <1>2, <1>3
  <1>5. ASSUME NEW i \in 1..Len(at \o a) PROVE (at \o a)[i] = (at \o b)[i]
    <2>1. i \in 1..Len(at) + Len(a) /\ i \in 1..Len(at) + Len(b)
      BY <1>1, <1>2, <1>3
    <2>2. CASE i <= Len(at)
      BY <2>1, <2>2, <1>2, <1>3
    <2>3. CASE ~(i <= Len(at))
      <3>1. i - Len(at) \in 1..Len(a)
        BY <2>1, <2>3, <1>1
      <3> QED BY <2>1, <2>3, <3>1, <1>1, <1>2, <1>3
    <2> QED BY <2>2, <2>3
  <1> QED BY <1>2, <1>3, <1>4, <1>5, PrefixPoints

\* ... and when what is above both is taken away.
LEMMA PathsTakenFrom ==
    ASSUME NEW s \in Path, NEW t \in Path, NEW u \in Path, Encloses(s, t), Encloses(t, u)
    PROVE  /\ Encloses(s, u) /\ Below(s, t) \in Path /\ Below(s, u) \in Path
           /\ Encloses(Below(s, t), Below(s, u))
  <1>0. Encloses(s, u) /\ Len(s) \in Nat /\ Len(t) \in Nat /\ Len(u) \in Nat
    BY EnclosesTransitive DEF Path
  <1>1. Len(s) <= Len(t) /\ Len(t) <= Len(u) /\ \A i \in 1..Len(t) : t[i] = u[i]
    BY PrefixPoints
  <1> DEFINE a == Below(s, t)
             b == Below(s, u)
  <1>2. /\ a \in Path /\ Len(a) = Len(t) - Len(s) /\ \A i \in 1..Len(t) - Len(s) : a[i] = t[Len(s) + i]
        /\ b \in Path /\ Len(b) = Len(u) - Len(s) /\ \A i \in 1..Len(u) - Len(s) : b[i] = u[Len(s) + i]
    BY <1>0, BelowPoints
  <1> HIDE DEF a, b
  <1>3. ASSUME NEW i \in 1..Len(a) PROVE a[i] = b[i]
    <2>1. i \in 1..Len(t) - Len(s) /\ i \in 1..Len(u) - Len(s) /\ Len(s) + i \in 1..Len(t)
      BY <1>0, <1>1, <1>2
    <2> QED BY <2>1, <1>1, <1>2
  <1>4. Len(a) <= Len(b)
    BY <1>0, <1>1, <1>2
  <1>5. Encloses(a, b)
    BY <1>2, <1>3, <1>4, PrefixPoints
  <1> QED BY <1>0, <1>2, <1>5 DEF a, b

\* Paths that differ somewhere do not overlap.
LEMMA DifferentPaths ==
    ASSUME NEW s \in Path, NEW t \in Path, NEW i \in 1..Len(s), i \in 1..Len(t), s[i] # t[i]
    PROVE  ~Overlap(s, t)
  BY PrefixPoints DEF Overlap

-----------------------------------------------------------------------------

\* The short paths of the model, written out.
LEMMA ShortPaths ==
    /\ \A a \in Elements : <<a>> \in Path /\ Len(<<a>>) = 1 /\ <<a>>[1] = a
    /\ \A a, b \in Elements : <<a, b>> \in Path /\ Len(<<a, b>>) = 2 /\ <<a, b>>[1] = a /\ <<a, b>>[2] = b
    /\ \A a, b, c \in Elements : <<a, b, c>> \in Path /\ Len(<<a, b, c>>) = 3
    /\ \A a, b, c, d \in Elements : <<a, b, c, d>> \in Path /\ Len(<<a, b, c, d>>) = 4
  BY DEF Path

\* The names of the model.
LEMMA Names ==
    {"link", "c", "w", "meta", "env", "session", "socket", "prefixes", "x",
     "run", "output", "bin", "opt", "app", "probe", "reploy", "volume"} \subseteq Elements
  BY DEF Elements

\* Links stand for paths, and neither deployment lies behind one.
LEMMA CanonicalPaths ==
    /\ \A p \in Path : Canonical(p) \in Path
    /\ \A r \in Roles : Root(r) \in Path /\ Canonical(Root(r)) = Root(r)
  <1>0. <<"link">> \in Path /\ Len(<<"link">>) = 1 /\ LinkTo \in Path
    <2>1. LinkTo \in Path
      BY PlanPaths DEF Path, GivenPaths
    <2> QED BY <2>1, Names, ShortPaths
  <1>1. ASSUME NEW p \in Path PROVE Canonical(p) \in Path
    <2>1. CASE Encloses(<<"link">>, p)
      BY <1>0, <2>1, BelowPoints, ExtensionIsBelow DEF Canonical
    <2>2. CASE ~Encloses(<<"link">>, p)
      BY <2>2 DEF Canonical
    <2> QED BY <2>1, <2>2
  <1>2. ASSUME NEW r \in Roles PROVE Root(r) \in Path /\ Canonical(Root(r)) = Root(r)
    <2>1. Root(r) \in Path /\ Len(Root(r)) = 1 /\ Root(r)[1] # "link"
      <3>1. Root(r) = <<"c">> \/ Root(r) = <<"w">>
        BY DEF Root
      <3> QED BY <3>1, Names, ShortPaths
    <2>2. ~Encloses(<<"link">>, Root(r))
      BY <1>0, <2>1, PrefixPoints
    <2> QED BY <2>1, <2>2 DEF Canonical
  <1> QED BY <1>1, <1>2

\* What is protected is at a path.
LEMMA ProtectedArePaths ==
    \A p \in Protected : p.path \in Path
  <1> SUFFICES ASSUME NEW p \in Protected PROVE p.path \in Path
    OBVIOUS
  <1>1. PICK r \in Roles, n \in {"meta", "env"} : p.path = Canonical(Root(r)) \o <<n>>
    BY DEF Protected
  <1>2. <<n>> \in Path
    BY Names, ShortPaths
  <1> QED BY <1>1, <1>2, CanonicalPaths, ExtensionIsBelow

\* Whatever is private lies at or below a protected path.
LEMMA PrivateIsProtected ==
    ASSUME NEW f \in PrivateFiles
    PROVE  f \in Path /\ \E p \in Protected : Encloses(p.path, f)
  <1>1. CASE \E p \in Protected : f = p.path
    <2> PICK p \in Protected : f = p.path
      BY <1>1
    <2>1. f \in Path
      BY ProtectedArePaths
    <2>2. Encloses(p.path, f)
      BY <2>1, PrefixPoints DEF Path
    <2> QED BY <2>1, <2>2
  <1>2. CASE \E p \in Protected : f = p.path \o <<"x">>
    <2> PICK p \in Protected : f = p.path \o <<"x">>
      BY <1>2
    <2>1. p.path \in Path /\ <<"x">> \in Path
      BY ProtectedArePaths, Names, ShortPaths
    <2> QED BY <2>1, ExtensionIsBelow
  <1>3. CASE f \in {ChannelHost, ChannelHost \o <<"socket">>}
    <2> DEFINE at == Root("workload")
    <2>1. /\ at \in Path /\ Canonical(at) = at
          /\ <<"meta">> \in Path /\ <<"meta", "session">> \in Path /\ <<"socket">> \in Path
          /\ Encloses(<<"meta">>, <<"meta", "session">>)
      <3>1. at \in Path /\ Canonical(at) = at
        BY CanonicalPaths DEF Roles
      <3>2. /\ <<"meta">> \in Path /\ <<"meta", "session">> \in Path /\ <<"socket">> \in Path
            /\ Len(<<"meta">>) = 1 /\ Len(<<"meta", "session">>) = 2
            /\ <<"meta">>[1] = "meta" /\ <<"meta", "session">>[1] = "meta"
        BY Names, ShortPaths
      <3>3. Encloses(<<"meta">>, <<"meta", "session">>)
        BY <3>2, PrefixPoints
      <3> QED BY <3>1, <3>2, <3>3
    <2>2. at \o <<"meta">> \in Path /\ ChannelHost \in Path /\ Encloses(at \o <<"meta">>, ChannelHost)
      BY <2>1, PathsPutBelow DEF ChannelHost
    <2>3. ChannelHost \o <<"socket">> \in Path /\ Encloses(ChannelHost, ChannelHost \o <<"socket">>)
      BY <2>1, <2>2, ExtensionIsBelow
    <2>4. f \in Path /\ Encloses(at \o <<"meta">>, f)
      BY <1>3, <2>2, <2>3, EnclosesTransitive
    <2>5. [path |-> Canonical(at) \o <<"meta">>, kind |-> "dir"] \in Protected
      BY DEF Protected, Roles
    <2> QED BY <2>1, <2>4, <2>5
  <1> QED BY <1>1, <1>2, <1>3 DEF PrivateFiles

\* What a mount shows of a protected path, a mask of the mount hides.
LEMMA MaskHides ==
    ASSUME NEW mounts, NEW m \in mounts, m.type = "bind", m.source \in Path, m.target \in Path,
           NEW f \in PrivateFiles, NEW c \in Appears(m, f)
    PROVE  \E k \in Masks(mounts) : Encloses(k.target, c)
  <1> DEFINE source == Canonical(m.source)
  <1>1. f \in Path /\ source \in Path /\ Encloses(source, f) /\ c = m.target \o Below(source, f)
    BY PrivateIsProtected, CanonicalPaths DEF Appears
  <1>2. PICK p \in Protected : Encloses(p.path, f)
    BY PrivateIsProtected
  <1>3. p.path \in Path
    BY ProtectedArePaths
  <1>4. MaskTargets(m, p) \subseteq Masks(mounts)
    BY DEF Masks
  <1> HIDE DEF source
  <1>5. CASE Encloses(source, p.path)
    <2> DEFINE k == [target |-> m.target \o Below(source, p.path), kind |-> p.kind]
    <2>1. k \in MaskTargets(m, p)
      BY <1>5 DEF MaskTargets, source
    <2>2. Encloses(m.target \o Below(source, p.path), m.target \o Below(source, f))
      BY <1>1, <1>2, <1>3, <1>5, PathsTakenFrom, PathsPutBelow
    <2> QED BY <1>1, <1>4, <2>1, <2>2
  <1>6. CASE ~Encloses(source, p.path)
    <2> DEFINE k == [target |-> m.target, kind |-> m.kind]
    <2>1. Encloses(p.path, source)
      BY <1>1, <1>2, <1>3, <1>6, EnclosingPaths
    <2>2. k \in MaskTargets(m, p)
      BY <1>6, <2>1 DEF MaskTargets, source
    <2>3. Below(source, f) \in Path
      BY <1>1, BelowPoints
    <2>4. Encloses(m.target, m.target \o Below(source, f))
      BY <2>3, ExtensionIsBelow
    <2> QED BY <1>1, <1>4, <2>2, <2>4
  <1> QED BY <1>5, <1>6

\* A mask lies within the mount that needs it.
LEMMA MaskWithinMount ==
    ASSUME NEW mounts, \A m \in mounts : m.source \in Path /\ m.target \in Path,
           NEW k \in Masks(mounts), NEW p \in Path, Overlap(k.target, p)
    PROVE  \E m \in mounts : Overlap(m.target, p)
  <1>1. PICK m \in mounts, q \in Protected : k \in MaskTargets(m, q)
    BY DEF Masks
  <1> DEFINE source == Canonical(m.source)
  <1>2. source \in Path /\ q.path \in Path
    BY CanonicalPaths, ProtectedArePaths
  <1> HIDE DEF source
  <1>3. CASE Encloses(source, q.path)
    <2>1. k.target = m.target \o Below(source, q.path)
      <3> DEFINE at == m.target \o Below(source, q.path)
      <3>1. MaskTargets(m, q) = {[target |-> at, kind |-> q.kind]}
        BY <1>3 DEF MaskTargets, source
      <3> HIDE DEF at
      <3>2. k.target = at
        BY <1>1, <3>1
      <3> QED BY <3>2 DEF at
    <2>2. Below(source, q.path) \in Path
      BY <1>2, <1>3, BelowPoints
    <2> QED BY <2>1, <2>2, OverlapFromBelow
  <1>4. CASE ~Encloses(source, q.path)
    <2>1. k.target = m.target
      BY <1>1, <1>4 DEF MaskTargets, source
    <2> QED BY <2>1
  <1> QED BY <1>3, <1>4

-----------------------------------------------------------------------------
(* Requests and their mounts                                                *)

MountFits(m) == m.source \in Path /\ m.target \in Path

\* A request has at most two mounts, of different names, between paths.
LEMMA RequestMounts ==
    ASSUME NEW q \in Requests
    PROVE  /\ \A m \in q.mounts : MountFits(m) /\ m.name \in {"data", "more"}
           /\ \A a, b \in q.mounts : a # b => a.name # b.name
           /\ q.output \in Path /\ q.role \in Roles /\ q.endpoints \in BOOLEAN
  <1>1. /\ MountSources \subseteq Path /\ MountTargets \subseteq Path
        /\ <<>> \in Path /\ <<"volume">> \in Path
    <2>1. MountSources \subseteq Path /\ MountTargets \subseteq Path
      BY PlanPaths DEF Path, GivenPaths
    <2>2. <<>> \in Path
      BY EmptySeq DEF Path
    <2> QED BY <2>1, <2>2, Names, ShortPaths
  <1>2. ASSUME NEW m \in PlainMounts PROVE MountFits(m) /\ m.name = "data"
    BY <1>1 DEF PlainMounts, Bind, MountFits
  <1>3. ASSUME NEW m \in MoreMounts PROVE MountFits(m) /\ m.name = "more"
    BY <1>1 DEF MoreMounts, Bind, MountFits
  <1>4. /\ \/ q.mounts = {} \/ (\E m \in PlainMounts : q.mounts = {m})
           \/ (\E m \in MoreMounts : q.mounts = {m})
           \/ (\E m \in PlainMounts, n \in MoreMounts : q.mounts = {m, n})
        /\ q.output \in {<<>>} \cup MountSources /\ q.role \in Roles /\ q.endpoints \in BOOLEAN
    BY DEF Requests
  <1>5. q.output \in Path
    BY <1>1, <1>4
  <1>6. CASE q.mounts = {}
    BY <1>4, <1>5, <1>6
  <1>7. ASSUME NEW m \in PlainMounts \cup MoreMounts, q.mounts = {m}
        PROVE  /\ \A k \in q.mounts : MountFits(k) /\ k.name \in {"data", "more"}
               /\ \A a, b \in q.mounts : a # b => a.name # b.name
    BY <1>2, <1>3, <1>7
  <1>8. ASSUME NEW m \in PlainMounts, NEW n \in MoreMounts, q.mounts = {m, n}
        PROVE  /\ \A k \in q.mounts : MountFits(k) /\ k.name \in {"data", "more"}
               /\ \A a, b \in q.mounts : a # b => a.name # b.name
    BY <1>2, <1>3, <1>8
  <1> QED BY <1>4, <1>5, <1>6, <1>7, <1>8

Places == {ChannelTarget, PrefixesTarget, OutputTarget}

\* The places of the session lie apart, and apart from what is protected.
LEMMA PlacesApart ==
    /\ Places \cup ProtectedPaths \subseteq Path
    /\ \A s \in Places, t \in Places \cup ProtectedPaths : s # t => ~Overlap(s, t)
  <1>1. /\ ChannelTarget \in Path /\ Len(ChannelTarget) = 2 /\ ChannelTarget[1] = "run" /\ ChannelTarget[2] = "session"
        /\ PrefixesTarget \in Path /\ Len(PrefixesTarget) = 2 /\ PrefixesTarget[1] = "run" /\ PrefixesTarget[2] = "prefixes"
        /\ OutputTarget \in Path /\ Len(OutputTarget) = 1 /\ OutputTarget[1] = "output"
    BY Names, ShortPaths DEF ChannelTarget, PrefixesTarget, OutputTarget
  <1>2. ASSUME NEW t \in ProtectedPaths
        PROVE  t \in Path /\ Len(t) \in {1, 2} /\ t[1] \in {"bin", "opt", "probe", "reploy"}
    <2>1. t = <<"bin", "app">> \/ t = <<"opt", "app">> \/ t = <<"probe">> \/ t = <<"reploy">>
      BY DEF ProtectedPaths, ExecutablePaths
    <2> QED BY <2>1, Names, ShortPaths
  <1>3. ASSUME NEW s \in Places, NEW t \in ProtectedPaths PROVE ~Overlap(s, t)
    <2>1. s \in Path /\ 1 \in 1..Len(s) /\ 1 \in 1..Len(t) /\ s[1] # t[1]
      BY <1>1, <1>2 DEF Places
    <2> QED BY <1>2, <2>1, DifferentPaths
  <1>4. ~Overlap(ChannelTarget, PrefixesTarget) /\ ~Overlap(PrefixesTarget, ChannelTarget)
    <2>1. 2 \in 1..Len(ChannelTarget) /\ 2 \in 1..Len(PrefixesTarget) /\ ChannelTarget[2] # PrefixesTarget[2]
      BY <1>1
    <2> QED BY <1>1, <2>1, DifferentPaths
  <1>5. ASSUME NEW s \in {ChannelTarget, PrefixesTarget} PROVE ~Overlap(s, OutputTarget) /\ ~Overlap(OutputTarget, s)
    <2>1. s \in Path /\ 1 \in 1..Len(s) /\ 1 \in 1..Len(OutputTarget) /\ s[1] # OutputTarget[1]
      BY <1>1
    <2> QED BY <1>1, <2>1, DifferentPaths
  <1>6. Places \cup ProtectedPaths \subseteq Path
    BY <1>1, <1>2 DEF Places
  <1>7. ASSUME NEW s \in Places, NEW t \in Places, s # t PROVE ~Overlap(s, t)
    BY <1>4, <1>5, <1>7 DEF Places
  <1> QED BY <1>3, <1>6, <1>7

\* The mounts of a request and its output are none of the session's own.
LEMMA OwnMountsFit ==
    ASSUME NEW q \in Requests
    PROVE  \A m \in OwnMounts(q) : MountFits(m) /\ m \notin {ChannelMount, PrefixesMount}
                                   /\ (m \in q.mounts \/ m.target = OutputTarget)
  <1>1. ASSUME NEW m \in OwnMounts(q)
        PROVE  m \in q.mounts \/ m = Bind("controller-output", q.output, "dir", OutputTarget)
    BY <1>1 DEF OwnMounts
  <1>2. ASSUME NEW m \in OwnMounts(q), m \in q.mounts
        PROVE  MountFits(m) /\ m \notin {ChannelMount, PrefixesMount}
    BY <1>2, RequestMounts DEF ChannelMount, PrefixesMount, Bind
  <1> DEFINE o == Bind("controller-output", q.output, "dir", OutputTarget)
  <1>3. MountFits(o) /\ o \notin {ChannelMount, PrefixesMount} /\ o.target = OutputTarget
    BY RequestMounts, PlacesApart DEF MountFits, Bind, ChannelMount, PrefixesMount, Places
  <1> QED BY <1>1, <1>2, <1>3

-----------------------------------------------------------------------------
(* The plan                                                                 *)

\* What the planner lets through, and what it answers.
Admitted(q) ==
    LET p == ContainerPlan(q) IN
    /\ q.output # <<>> => q.role = "controller"
    /\ PolicyAllows(q.mounts)
    /\ MasksAgree(p.masks)
    /\ PlanValid(q, p)

PlanInv ==
    /\ request \in Requests
    /\ \/ plan = NoPlan
       \/ plan = IF Admitted(request) THEN ContainerPlan(request) ELSE [status |-> "refused"]

\* The fields of an assembled plan.
LEMMA PlannedFields ==
    ASSUME NEW q
    PROVE  LET p == ContainerPlan(q) IN
           /\ p.status = "planned" /\ p.role = q.role
           /\ p.mounts = OwnMounts(q) \cup SessionMounts(q) /\ p.masks = Masks(OwnMounts(q))
           /\ p.network = DockerNetworkMode(q.grants) /\ p.create = CreateNetwork(q.grants, q.endpoints)
           /\ p.capabilities = SetupCapabilities(q.uid, InstallsNetworkPolicy(q.grants, q.endpoints))
           /\ p.installs = InstallsNetworkPolicy(q.grants, q.endpoints)
           /\ p.channelSocket = (q.role = "controller")
  BY DEF ContainerPlan

\* Private files are hidden in every plan that is assembled.
LEMMA PrivateHidden ==
    ASSUME NEW q \in Requests, NEW m \in OwnMounts(q) \cup SessionMounts(q),
           m \notin {ChannelMount, PrefixesMount}, m.type = "bind",
           NEW f \in PrivateFiles, NEW c \in Appears(m, f)
    PROVE  \E k \in Masks(OwnMounts(q)) : Encloses(k.target, c)
  <1>1. m \in OwnMounts(q)
    BY DEF SessionMounts
  <1>2. m.source \in Path /\ m.target \in Path
    BY <1>1, OwnMountsFit DEF MountFits
  <1> QED BY <1>1, <1>2, MaskHides

\* No mount and no mask of an admitted plan lies over what must not be covered.
LEMMA NothingOver ==
    ASSUME NEW q \in Requests, Admitted(q)
    PROVE  /\ \A m \in OwnMounts(q), p \in ProtectedPaths \cup SessionTargets(q) : ~Overlap(m.target, p)
           /\ \A m \in SessionMounts(q), p \in ProtectedPaths : ~Overlap(m.target, p)
  <1> DEFINE P == ContainerPlan(q)
  <1>0. /\ P.role = q.role /\ P.mounts = OwnMounts(q) \cup SessionMounts(q)
        /\ PolicyAllows(q.mounts) /\ PlanValid(q, P) /\ q.role \in Roles
    BY PlannedFields, RequestMounts DEF Admitted
  <1> HIDE DEF P
  <1>1. ChannelMount.target = ChannelTarget /\ PrefixesMount.target = PrefixesTarget
    BY DEF ChannelMount, PrefixesMount, Bind
  <1>2. ASSUME NEW m \in OwnMounts(q), NEW p \in ProtectedPaths PROVE ~Overlap(m.target, p)
    <2>1. CASE m \in q.mounts
      BY <1>0, <2>1 DEF PolicyAllows
    <2>2. CASE m.target = OutputTarget
      <3>1. OutputTarget \in Places /\ OutputTarget # p
        BY DEF Places, OutputTarget, ProtectedPaths, ExecutablePaths
      <3> QED BY <2>2, <3>1, PlacesApart
    <2> QED BY <2>1, <2>2, OwnMountsFit
  <1>3. ASSUME NEW m \in OwnMounts(q) PROVE ~Overlap(m.target, ChannelTarget)
    <2>1. CASE q.role = "controller"
      <3>1. ChannelMount \in P.mounts /\ MountsValid(P.mounts) /\ m \in P.mounts /\ m # ChannelMount
        BY <1>0, <2>1, OwnMountsFit DEF PlanValid
      <3> QED BY <1>1, <3>1 DEF MountsValid
    <2>2. CASE q.role = "workload"
      <3>1. ~ExposesChannel(P) /\ m \in P.mounts
        BY <1>0, <2>2 DEF PlanValid
      <3> QED BY <3>1 DEF ExposesChannel
    <2> QED BY <1>0, <2>1, <2>2 DEF Roles
  <1>4. ASSUME NEW m \in OwnMounts(q), q.endpoints PROVE ~Overlap(m.target, PrefixesTarget)
    <2>1. PrefixesMount \in P.mounts /\ MountsValid(P.mounts) /\ m \in P.mounts /\ m # PrefixesMount
      BY <1>0, <1>4, OwnMountsFit DEF PlanValid
    <2> QED BY <1>1, <2>1 DEF MountsValid
  <1>5. ASSUME NEW m \in SessionMounts(q), NEW p \in ProtectedPaths PROVE ~Overlap(m.target, p)
    <2>1. m.target \in {ChannelTarget, PrefixesTarget}
      BY <1>1 DEF SessionMounts
    <2>2. m.target \in Places /\ m.target # p
      BY <2>1 DEF Places, ChannelTarget, PrefixesTarget, ProtectedPaths, ExecutablePaths
    <2> QED BY <2>2, PlacesApart
  <1> QED BY <1>2, <1>3, <1>4, <1>5 DEF SessionTargets

\* The final validation accepts what is assembled from mounts that are allowed.
LEMMA AssemblyAccepted ==
    ASSUME NEW q \in Requests, q.output # <<>> => q.role = "controller",
           PolicyAllows(q.mounts), MasksAgree(Masks(OwnMounts(q))),
           \A m \in q.mounts, t \in Places : ~Overlap(m.target, t)
    PROVE  Admitted(q)
  <1> DEFINE P == ContainerPlan(q)
             O == Bind("controller-output", q.output, "dir", OutputTarget)
  <1>1. /\ P.role = q.role /\ P.mounts = OwnMounts(q) \cup SessionMounts(q)
        /\ P.masks = Masks(OwnMounts(q)) /\ P.network = DockerNetworkMode(q.grants)
        /\ P.capabilities = SetupCapabilities(q.uid, InstallsNetworkPolicy(q.grants, q.endpoints))
        /\ P.channelSocket = (q.role = "controller") /\ q.role \in Roles /\ q.endpoints \in BOOLEAN
    BY PlannedFields, RequestMounts
  <1> HIDE DEF P
  <1>2. /\ ChannelMount.target = ChannelTarget /\ PrefixesMount.target = PrefixesTarget /\ O.target = OutputTarget
        /\ ChannelMount.name = "session-channel" /\ PrefixesMount.name = "session-network-prefixes"
        /\ O.name = "controller-output"
    BY DEF ChannelMount, PrefixesMount, Bind
  <1>3. OwnMounts(q) = q.mounts \cup (IF q.output = <<>> THEN {} ELSE {O})
    BY DEF OwnMounts
  <1> HIDE DEF O
  <1>4. ASSUME NEW a \in q.mounts \cup {O, ChannelMount, PrefixesMount},
               NEW b \in q.mounts \cup {O, ChannelMount, PrefixesMount}, a # b
        PROVE  a.name # b.name /\ ~Overlap(a.target, b.target)
    <2>1. a.name # b.name
      BY <1>2, <1>4, RequestMounts
    <2>2. CASE a \in q.mounts /\ b \in q.mounts
      BY <1>4, <2>1, <2>2 DEF PolicyAllows
    <2>3. ASSUME NEW m \in q.mounts, NEW t \in Places PROVE ~Overlap(m.target, t) /\ ~Overlap(t, m.target)
      BY <2>3 DEF Overlap
    <2>4. \A m \in {O, ChannelMount, PrefixesMount} : m.target \in Places
      BY <1>2 DEF Places
    <2>5. CASE a \in {O, ChannelMount, PrefixesMount} /\ b \in {O, ChannelMount, PrefixesMount}
      <3>1. a.target # b.target
        BY <1>2, <1>4, <2>5 DEF ChannelTarget, PrefixesTarget, OutputTarget
      <3> QED BY <2>1, <2>4, <2>5, <3>1, PlacesApart
    <2> QED BY <2>1, <2>2, <2>3, <2>4, <2>5
  <1>5. SessionMounts(q) \subseteq {ChannelMount, PrefixesMount} /\ OwnMounts(q) \subseteq q.mounts \cup {O}
    BY <1>3 DEF SessionMounts
  <1>6. MountsValid(P.mounts)
    BY <1>1, <1>4, <1>5 DEF MountsValid
  <1>7. Canonical(Root("controller")) # Canonical(Root("workload"))
    <2>1. Canonical(Root("controller")) = Root("controller") /\ Canonical(Root("workload")) = Root("workload")
      BY CanonicalPaths DEF Roles
    <2>2. Root("controller")[1] = "c" /\ Root("workload")[1] = "w"
      BY DEF Root
    <2> QED BY <2>1, <2>2
  <1>8. (PrefixesMount \in P.mounts) = q.endpoints
    <2>1. PrefixesMount # ChannelMount
      BY <1>2
    <2>2. PrefixesMount \in SessionMounts(q) <=> q.endpoints
      BY <2>1 DEF SessionMounts
    <2>3. PrefixesMount \notin OwnMounts(q)
      BY OwnMountsFit
    <2> QED BY <1>1, <2>2, <2>3
  <1>9. q.role = "controller" => P.channelSocket /\ ChannelMount \in P.mounts
    BY <1>1 DEF SessionMounts
  <1>13. ASSUME NEW m \in q.mounts PROVE ~Overlap(m.target, ChannelTarget) /\ m.target # OutputTarget
    <2>1. ~Overlap(m.target, ChannelTarget) /\ ~Overlap(m.target, OutputTarget)
      BY DEF Places
    <2>2. OutputTarget \in Path /\ Encloses(OutputTarget, OutputTarget)
      BY PlacesApart, PrefixPoints DEF Places, Path
    <2> QED BY <2>1, <2>2 DEF Overlap
  <1>14. OutputFixed(P)
    <2>1. ASSUME NEW m \in P.mounts, m.target = OutputTarget PROVE m = O /\ q.output # <<>>
      <3>1. m \notin q.mounts
        BY <1>13, <2>1
      <3>2. ChannelTarget # OutputTarget /\ PrefixesTarget # OutputTarget
        BY DEF ChannelTarget, PrefixesTarget, OutputTarget
      <3>3. m \notin SessionMounts(q)
        BY <1>2, <1>5, <2>1, <3>2
      <3> QED BY <1>1, <1>3, <2>1, <3>1, <3>3
    <2>2. O.source = q.output /\ O = Bind("controller-output", O.source, "dir", OutputTarget)
      BY DEF O, Bind
    <2> QED BY <1>1, <2>1, <2>2 DEF OutputFixed
  <1>10. ASSUME q.role = "workload" PROVE ~ExposesChannel(P)
    <2>1. P.mounts \subseteq q.mounts \cup {PrefixesMount} /\ ~P.channelSocket
      BY <1>1, <1>3, <1>10 DEF SessionMounts
    <2>2. ASSUME NEW m \in P.mounts PROVE ~Overlap(m.target, ChannelTarget)
      <3>1. CASE m \in q.mounts
        BY <1>13, <3>1
      <3>2. CASE m = PrefixesMount
        <4>1. PrefixesTarget # ChannelTarget
          BY DEF ChannelTarget, PrefixesTarget
        <4> QED BY <1>2, <3>2, <4>1, PlacesApart DEF Places
      <3> QED BY <2>1, <3>1, <3>2
    <2> QED BY <2>1, <2>2 DEF ExposesChannel
  <1>11. MasksMatch(P)
    <2> DEFINE added == (IF P.role = "controller" THEN {ChannelMount} ELSE {}) \cup {PrefixesMount}
    <2>1. P.mounts \ added = OwnMounts(q)
      BY <1>1, OwnMountsFit DEF SessionMounts
    <2> QED BY <1>1, <2>1 DEF MasksMatch
  <1>12. PlanValid(q, P)
    BY <1>1, <1>6, <1>7, <1>8, <1>9, <1>10, <1>11, <1>14 DEF PlanValid
  <1> QED BY <1>1, <1>12 DEF Admitted, P

\* The invariant gives what the run checks.
LEMMA PlanInvSound ==
    PlanInv => PlanSound
  <1> SUFFICES ASSUME PlanInv PROVE PlanSound
    OBVIOUS
  <1>0. request \in Requests
    BY DEF PlanInv
  <1>1. CASE plan = NoPlan
    BY <1>1 DEF NoPlan, PlanSound, PrivateFilesHidden, NothingCovered, NetworksFiltered, AssembledIsAccepted
  <1>2. CASE Admitted(request) /\ plan = ContainerPlan(request)
    <2>1. /\ plan.status = "planned" /\ plan.mounts = OwnMounts(request) \cup SessionMounts(request)
          /\ plan.masks = Masks(OwnMounts(request))
          /\ plan.network = DockerNetworkMode(request.grants)
          /\ plan.create = CreateNetwork(request.grants, request.endpoints)
          /\ plan.capabilities =
               SetupCapabilities(request.uid, InstallsNetworkPolicy(request.grants, request.endpoints))
          /\ plan.installs = InstallsNetworkPolicy(request.grants, request.endpoints)
      BY <1>2, PlannedFields
    <2>2. PrivateFilesHidden
      BY <1>0, <2>1, PrivateHidden DEF PrivateFilesHidden
    <2>3. NothingCovered
      <3>1. ASSUME NEW k \in plan.masks, NEW p \in ProtectedPaths \cup SessionTargets(request)
            PROVE  ~Overlap(k.target, p)
        <4>1. p \in Path
          BY PlacesApart DEF SessionTargets, Places
        <4>2. \A m \in OwnMounts(request) : m.source \in Path /\ m.target \in Path
          BY <1>0, OwnMountsFit DEF MountFits
        <4> QED BY <1>0, <1>2, <2>1, <4>1, <4>2, MaskWithinMount, NothingOver
      <3>2. \A m \in plan.mounts, p \in ProtectedPaths : ~Overlap(m.target, p)
        BY <1>0, <1>2, <2>1, NothingOver
      <3> QED BY <3>1, <3>2 DEF NothingCovered
    <2>4. NetworksFiltered
      BY <2>1 DEF NetworksFiltered, DockerNetworkMode, CreateNetwork, SetupCapabilities, InstallsNetworkPolicy,
                  NeedsOrdinaryNetwork
    <2>5. AssembledIsAccepted
      BY <2>1 DEF AssembledIsAccepted
    <2> QED BY <2>2, <2>3, <2>4, <2>5 DEF PlanSound
  <1>3. CASE ~Admitted(request) /\ plan = [status |-> "refused"]
    <2>1. plan.status = "refused"
      BY <1>3
    <2>2. AssembledIsAccepted
      <3>1. request.role \in Roles
        BY <1>0, RequestMounts
      <3> QED BY <1>0, <1>3, <3>1, AssemblyAccepted DEF AssembledIsAccepted, Places, Roles
    <2> QED BY <2>1, <2>2 DEF PlanSound, PrivateFilesHidden, NothingCovered, NetworksFiltered
  <1> QED BY <1>1, <1>2, <1>3 DEF PlanInv

\* For any mounts a runtime plan asks for, anywhere in the host and the
\* container, and wherever the host's link points: a planned session shows no
\* private file, covers nothing it needs, filters every network it has, and is
\* refused only for what the request asks (controlled_session_plan.go).
THEOREM PlanStaysSound == PlanSpec => []PlanSound
  <1>1. PlanInit => PlanInv
    BY DEF PlanInit, PlanInv
  <1>2. PlanInv /\ [PlanNext]_planVars => PlanInv'
    BY DEF PlanInv, PlanNext, PlanSession, Admitted, planVars
  <1> QED BY <1>1, <1>2, PlanInvSound, PTL DEF PlanSpec

-----------------------------------------------------------------------------
(* The packet filter                                                        *)

RuleRecords == [on : SUBSET Packets, verdict : {"accept", "drop"}]

\* No rule of a list matches; the first one that does accepts; if one matches, there is a first.
Misses(rules, p) == \A i \in 1..Len(rules) : p \notin rules[i].on
FirstAt(rules, p, i) == p \in rules[i].on /\ \A j \in 1..Len(rules) : j < i => p \notin rules[j].on
Accepts(rules, p) == \E i \in 1..Len(rules) : FirstAt(rules, p, i) /\ rules[i].verdict = "accept"
HasFirst(rules, p) == Misses(rules, p) \/ \E i \in 1..Len(rules) : FirstAt(rules, p, i)

RuleList(rules, p) == rules \in Seq(RuleRecords) /\ HasFirst(rules, p)

\* Lists of no, one, two and five rules.
LEMMA NoRule ==
    ASSUME NEW p
    PROVE  RuleList(<<>>, p) /\ Misses(<<>>, p) /\ ~Accepts(<<>>, p)
  <1>1. <<>> \in Seq(RuleRecords) /\ Len(<<>>) = 0
    BY EmptySeq
  <1>2. 1..Len(<<>>) = {}
    BY <1>1
  <1> QED BY <1>1, <1>2 DEF RuleList, HasFirst, Misses, Accepts

LEMMA OneRule ==
    ASSUME NEW a \in RuleRecords, NEW p
    PROVE  /\ RuleList(<<a>>, p) /\ (Misses(<<a>>, p) <=> p \notin a.on)
           /\ (Accepts(<<a>>, p) <=> p \in a.on /\ a.verdict = "accept")
  <1> DEFINE s == <<a>>
  <1>1. s \in Seq(RuleRecords) /\ Len(s) = 1 /\ s[1] = a /\ 1..Len(s) = {1}
    OBVIOUS
  <1> HIDE DEF s
  <1>2. /\ RuleList(s, p) /\ (Misses(s, p) <=> p \notin a.on)
        /\ (Accepts(s, p) <=> p \in a.on /\ a.verdict = "accept")
    BY <1>1 DEF RuleList, HasFirst, Misses, Accepts, FirstAt
  <1> QED BY <1>2 DEF s

LEMMA TwoRules ==
    ASSUME NEW a \in RuleRecords, NEW b \in RuleRecords, NEW p
    PROVE  /\ RuleList(<<a, b>>, p) /\ (Misses(<<a, b>>, p) <=> p \notin a.on /\ p \notin b.on)
           /\ (Accepts(<<a, b>>, p) <=> IF p \in a.on THEN a.verdict = "accept" ELSE p \in b.on /\ b.verdict = "accept")
  <1> DEFINE s == <<a, b>>
  <1>1. s \in Seq(RuleRecords) /\ Len(s) = 2 /\ s[1] = a /\ s[2] = b /\ 1..Len(s) = {1, 2}
    OBVIOUS
  <1> HIDE DEF s
  <1>2. /\ RuleList(s, p) /\ (Misses(s, p) <=> p \notin a.on /\ p \notin b.on)
        /\ (Accepts(s, p) <=> IF p \in a.on THEN a.verdict = "accept" ELSE p \in b.on /\ b.verdict = "accept")
    BY <1>1 DEF RuleList, HasFirst, Misses, Accepts, FirstAt
  <1> QED BY <1>2 DEF s

LEMMA FiveRules ==
    ASSUME NEW a \in RuleRecords, NEW b \in RuleRecords, NEW c \in RuleRecords, NEW d \in RuleRecords,
           NEW e \in RuleRecords, NEW p
    PROVE  /\ RuleList(<<a, b, c, d, e>>, p)
           /\ (Accepts(<<a, b, c, d, e>>, p) <=>
                 IF p \in a.on THEN a.verdict = "accept"
                 ELSE IF p \in b.on THEN b.verdict = "accept"
                 ELSE IF p \in c.on THEN c.verdict = "accept"
                 ELSE IF p \in d.on THEN d.verdict = "accept"
                 ELSE p \in e.on /\ e.verdict = "accept")
  <1> DEFINE s == <<a, b, c, d, e>>
  <1>1. /\ s \in Seq(RuleRecords) /\ Len(s) = 5 /\ 1..Len(s) = {1, 2, 3, 4, 5}
        /\ s[1] = a /\ s[2] = b /\ s[3] = c /\ s[4] = d /\ s[5] = e
    OBVIOUS
  <1> HIDE DEF s
  <1>2. \A i \in 1..Len(s) : FirstAt(s, p, i) <=>
            \/ i = 1 /\ p \in a.on
            \/ i = 2 /\ p \notin a.on /\ p \in b.on
            \/ i = 3 /\ p \notin a.on /\ p \notin b.on /\ p \in c.on
            \/ i = 4 /\ p \notin a.on /\ p \notin b.on /\ p \notin c.on /\ p \in d.on
            \/ i = 5 /\ p \notin a.on /\ p \notin b.on /\ p \notin c.on /\ p \notin d.on /\ p \in e.on
    BY <1>1 DEF FirstAt
  <1>3. RuleList(s, p)
    BY <1>1, <1>2 DEF RuleList, HasFirst, Misses
  <1>4. Accepts(s, p) <=>
                 IF p \in a.on THEN a.verdict = "accept"
                 ELSE IF p \in b.on THEN b.verdict = "accept"
                 ELSE IF p \in c.on THEN c.verdict = "accept"
                 ELSE IF p \in d.on THEN d.verdict = "accept"
                 ELSE p \in e.on /\ e.verdict = "accept"
    BY <1>1, <1>2 DEF Accepts
  <1> QED BY <1>3, <1>4 DEF s

\* One list of rules after another.
LEMMA RulesInTurn ==
    ASSUME NEW s, NEW t, NEW p, RuleList(s, p), RuleList(t, p)
    PROVE  /\ RuleList(s \o t, p) /\ (Misses(s \o t, p) <=> Misses(s, p) /\ Misses(t, p))
           /\ (Accepts(s \o t, p) <=> Accepts(s, p) \/ (Misses(s, p) /\ Accepts(t, p)))
  <1> DEFINE u == s \o t
             m == Len(s)
             n == Len(t)
  <1>1. /\ u \in Seq(RuleRecords) /\ Len(u) = m + n /\ m \in Nat /\ n \in Nat
        /\ \A i \in 1..m + n : u[i] = IF i <= m THEN s[i] ELSE t[i - m]
    BY ConcatProperties DEF RuleList
  <1>2. \A i \in 1..m : i \in 1..m + n /\ u[i] = s[i]
    BY <1>1
  <1>3. \A i \in 1..n : m + i \in 1..m + n /\ u[m + i] = t[i]
    BY <1>1
  <1>4. \A i \in 1..m + n : i \in 1..m \/ (i - m \in 1..n /\ u[i] = t[i - m])
    BY <1>1
  <1>5. Misses(u, p) <=> Misses(s, p) /\ Misses(t, p)
    <2> HIDE DEF u
    <2>1. Misses(u, p) => Misses(s, p) /\ Misses(t, p)
      BY <1>1, <1>2, <1>3 DEF Misses
    <2>2. Misses(s, p) /\ Misses(t, p) => Misses(u, p)
      BY <1>1, <1>2, <1>4 DEF Misses
    <2> QED BY <2>1, <2>2
  <1> HIDE DEF u
  <1>6. \A i \in 1..m : FirstAt(u, p, i) <=> FirstAt(s, p, i)
    <2> TAKE i \in 1..m
    <2>1. ASSUME FirstAt(u, p, i) PROVE FirstAt(s, p, i)
      BY <1>1, <1>2, <2>1 DEF FirstAt
    <2>2. ASSUME FirstAt(s, p, i) PROVE FirstAt(u, p, i)
      <3>1. ASSUME NEW j \in 1..Len(u), j < i PROVE p \notin u[j].on
        <4>1. j \in 1..m
          BY <1>1, <3>1
        <4> QED BY <1>2, <2>2, <3>1, <4>1 DEF FirstAt
      <3> QED BY <1>2, <2>2, <3>1 DEF FirstAt
    <2> QED BY <2>1, <2>2
  <1>7. \A i \in 1..n : FirstAt(u, p, m + i) <=> Misses(s, p) /\ FirstAt(t, p, i)
    <2> TAKE i \in 1..n
    <2>1. ASSUME FirstAt(u, p, m + i) PROVE Misses(s, p) /\ FirstAt(t, p, i)
      <3>1. ASSUME NEW j \in 1..m PROVE p \notin s[j].on
        <4>1. j < m + i /\ j \in 1..Len(u)
          BY <1>1
        <4> QED BY <1>2, <2>1, <4>1 DEF FirstAt
      <3>2. ASSUME NEW j \in 1..n, j < i PROVE p \notin t[j].on
        <4>1. m + j < m + i /\ m + j \in 1..Len(u)
          BY <1>1, <3>2
        <4> QED BY <1>3, <2>1, <4>1 DEF FirstAt
      <3> QED BY <1>3, <2>1, <3>1, <3>2 DEF FirstAt, Misses
    <2>2. ASSUME Misses(s, p), FirstAt(t, p, i) PROVE FirstAt(u, p, m + i)
      <3>1. ASSUME NEW j \in 1..Len(u), j < m + i PROVE p \notin u[j].on
        <4>1. CASE j \in 1..m
          BY <1>2, <2>2, <4>1 DEF Misses
        <4>2. CASE j - m \in 1..n /\ u[j] = t[j - m]
          <5>1. j - m < i
            BY <1>1, <3>1
          <5> QED BY <2>2, <4>2, <5>1 DEF FirstAt
        <4> QED BY <1>1, <1>4, <4>1, <4>2
      <3> QED BY <1>3, <2>2, <3>1 DEF FirstAt
    <2> QED BY <2>1, <2>2
  <1>8. HasFirst(u, p)
    <2>1. CASE Misses(s, p) /\ Misses(t, p)
      BY <1>5, <2>1 DEF HasFirst
    <2>2. ASSUME NEW i \in 1..m, FirstAt(s, p, i) PROVE HasFirst(u, p)
      BY <1>1, <1>2, <1>6, <2>2 DEF HasFirst
    <2>3. ASSUME Misses(s, p), NEW i \in 1..n, FirstAt(t, p, i) PROVE HasFirst(u, p)
      <3>1. m + i \in 1..Len(u) /\ FirstAt(u, p, m + i)
        BY <1>1, <1>3, <1>7, <2>3
      <3> QED BY <3>1 DEF HasFirst
    <2> QED BY <2>1, <2>2, <2>3 DEF RuleList, HasFirst
  <1>9. ASSUME Accepts(u, p) PROVE Accepts(s, p) \/ (Misses(s, p) /\ Accepts(t, p))
    <2>1. PICK i \in 1..Len(u) : FirstAt(u, p, i) /\ u[i].verdict = "accept"
      BY <1>9 DEF Accepts
    <2>2. CASE i \in 1..m
      BY <1>2, <1>6, <2>1, <2>2 DEF Accepts
    <2>3. CASE i - m \in 1..n /\ u[i] = t[i - m]
      <3>1. i = m + (i - m)
        BY <1>1
      <3>2. Misses(s, p) /\ FirstAt(t, p, i - m)
        BY <1>7, <2>1, <2>3, <3>1
      <3> QED BY <2>1, <2>3, <3>2 DEF Accepts
    <2> QED BY <1>1, <1>4, <2>2, <2>3
  <1>10. ASSUME Accepts(s, p) PROVE Accepts(u, p)
    BY <1>1, <1>2, <1>6, <1>10 DEF Accepts
  <1>11. ASSUME Misses(s, p), Accepts(t, p) PROVE Accepts(u, p)
    <2>1. PICK i \in 1..n : FirstAt(t, p, i) /\ t[i].verdict = "accept"
      BY <1>11 DEF Accepts
    <2>2. m + i \in 1..Len(u) /\ FirstAt(u, p, m + i) /\ u[m + i].verdict = "accept"
      BY <1>1, <1>3, <1>7, <1>11, <2>1
    <2> QED BY <2>2 DEF Accepts
  <1> QED BY <1>1, <1>5, <1>8, <1>9, <1>10, <1>11 DEF RuleList, u

\* What the chain of a container does with a packet is what its first matching rule says.
LEMMA FirstRuleDecides ==
    ASSUME NEW g, NEW p, NEW resolver, NEW session,
           RuleList(OutputRules(g, p.to.family, resolver, session), p)
    PROVE  Leaves(g, p, resolver, session) <=> Accepts(OutputRules(g, p.to.family, resolver, session), p)
  <1> DEFINE rules == OutputRules(g, p.to.family, resolver, session)
             hits == {i \in DOMAIN rules : p \in rules[i].on}
             first == CHOOSE i \in hits : \A j \in hits : i <= j
  <1>1. Leaves(g, p, resolver, session) <=> hits # {} /\ rules[first].verdict = "accept"
    BY DEF Leaves
  <1>2. DOMAIN rules = 1..Len(rules) /\ Len(rules) \in Nat
    BY LenProperties DEF RuleList
  <1>3. HasFirst(rules, p)
    BY DEF RuleList
  <1> HIDE DEF rules
  <1>4. hits = {i \in 1..Len(rules) : p \in rules[i].on}
    BY <1>2
  <1>5. \A i \in 1..Len(rules) : FirstAt(rules, p, i) => i \in hits /\ \A j \in hits : i <= j
    BY <1>2, <1>4 DEF FirstAt
  <1>6. ASSUME NEW i \in 1..Len(rules), FirstAt(rules, p, i) PROVE first = i
    <2>1. i \in hits /\ \A j \in hits : i <= j
      BY <1>5, <1>6
    <2>2. first \in hits /\ \A j \in hits : first <= j
      BY <2>1
    <2> HIDE DEF first, hits
    <2>3. first <= i /\ i <= first /\ first \in Nat /\ i \in Nat
      BY <1>2, <1>4, <2>1, <2>2
    <2> QED BY <2>3
  <1> HIDE DEF first, hits
  <1>7. CASE Misses(rules, p)
    BY <1>1, <1>4, <1>7 DEF Misses, Accepts, FirstAt, rules
  <1>8. ASSUME NEW i \in 1..Len(rules), FirstAt(rules, p, i)
        PROVE  (hits # {} /\ rules[first].verdict = "accept") <=> Accepts(rules, p)
    <2>1. first = i /\ hits # {}
      BY <1>5, <1>6, <1>8
    <2>2. \A k \in 1..Len(rules) : FirstAt(rules, p, k) => k = i
      BY <1>6, <2>1
    <2> QED BY <1>8, <2>1, <2>2 DEF Accepts
  <1> QED BY <1>1, <1>3, <1>7, <1>8 DEF HasFirst, rules

\* The chain of a session's container lets through what the grants allow.
LEMMA ChainFollowsGrants ==
    ASSUME NEW g, NEW p \in Packets, NEW resolver
    PROVE  Leaves(g, p, resolver, TRUE) <=> MayLeave(g, p, resolver)
  <1> DEFINE names == [on |-> {q \in Packets : q.to = resolver /\ q.port = "dns"}, verdict |-> "accept"]
             embedded == [on |-> {q \in Packets : "embedded" \in q.to.in}, verdict |-> "drop"]
             lo == [on |-> {q \in Packets : "lo" \in q.to.in}, verdict |-> "accept"]
             reply == [on |-> {q \in Packets : q.flow = "reply"}, verdict |-> "accept"]
             neighbour == [on |-> {q \in Packets : "neighbour" \in q.to.in}, verdict |-> "accept"]
             peer == [on |-> {q \in Packets : TRUE /\ "peer" \in q.to.in}, verdict |-> "accept"]
             ambiguous == [on |-> {q \in Packets : "ambiguous" \in q.to.in}, verdict |-> Verdict(AllowsAmbiguous(g))]
             exception == [on |-> {q \in Packets : "exception" \in q.to.in}, verdict |-> Verdict("public" \in g)]
             local == [on |-> {q \in Packets : "local" \in q.to.in}, verdict |-> Verdict("local" \in g)]
             public == [on |-> {q \in Packets : "public" \in g}, verdict |-> "accept"]
             A == IF AllowsDNS(g) THEN <<names>> ELSE <<>>
             B == IF p.to.family = 4 THEN <<embedded>> ELSE <<>>
             C == <<lo, reply>>
             D == IF p.to.family = 6 THEN <<neighbour>> ELSE <<>>
             E == <<peer, ambiguous, exception, local, public>>
             all == (((A \o B) \o C) \o D) \o E
  <1>1. OutputRules(g, p.to.family, resolver, TRUE) = all
    BY DEF OutputRules
  <1>2. /\ names \in RuleRecords /\ embedded \in RuleRecords /\ lo \in RuleRecords /\ reply \in RuleRecords
        /\ neighbour \in RuleRecords /\ peer \in RuleRecords /\ ambiguous \in RuleRecords
        /\ exception \in RuleRecords /\ local \in RuleRecords /\ public \in RuleRecords
    BY DEF RuleRecords, Verdict
  <1>3. /\ p \in names.on <=> p.to = resolver /\ p.port = "dns"
        /\ p \in embedded.on <=> "embedded" \in p.to.in
        /\ p \in lo.on <=> "lo" \in p.to.in
        /\ p \in reply.on <=> p.flow = "reply"
        /\ p \in neighbour.on <=> "neighbour" \in p.to.in
        /\ p \in peer.on <=> "peer" \in p.to.in
        /\ p \in ambiguous.on <=> "ambiguous" \in p.to.in
        /\ p \in exception.on <=> "exception" \in p.to.in
        /\ p \in local.on <=> "local" \in p.to.in
        /\ p \in public.on <=> "public" \in g
    OBVIOUS
  <1>4. /\ names.verdict = "accept" /\ embedded.verdict = "drop" /\ lo.verdict = "accept"
        /\ reply.verdict = "accept" /\ neighbour.verdict = "accept" /\ peer.verdict = "accept"
        /\ ambiguous.verdict = "accept" <=> AllowsAmbiguous(g)
        /\ exception.verdict = "accept" <=> "public" \in g
        /\ local.verdict = "accept" <=> "local" \in g
        /\ public.verdict = "accept"
    BY DEF Verdict
  <1> HIDE DEF names, embedded, lo, reply, neighbour, peer, ambiguous, exception, local, public
  <1>5. /\ RuleList(A, p) /\ (Misses(A, p) <=> ~(AllowsDNS(g) /\ p \in names.on))
        /\ (Accepts(A, p) <=> AllowsDNS(g) /\ p \in names.on)
    BY <1>2, <1>4, NoRule, OneRule
  <1>6. /\ RuleList(B, p) /\ (Misses(B, p) <=> ~(p.to.family = 4 /\ p \in embedded.on)) /\ ~Accepts(B, p)
    BY <1>2, <1>4, NoRule, OneRule
  <1>7. /\ RuleList(C, p) /\ (Misses(C, p) <=> p \notin lo.on /\ p \notin reply.on)
        /\ (Accepts(C, p) <=> p \in lo.on \/ p \in reply.on)
    BY <1>2, <1>4, TwoRules
  <1>8. /\ RuleList(D, p) /\ (Misses(D, p) <=> ~(p.to.family = 6 /\ p \in neighbour.on))
        /\ (Accepts(D, p) <=> p.to.family = 6 /\ p \in neighbour.on)
    BY <1>2, <1>4, NoRule, OneRule
  <1>9. /\ RuleList(E, p)
        /\ (Accepts(E, p) <=>
              IF p \in peer.on THEN TRUE
              ELSE IF p \in ambiguous.on THEN AllowsAmbiguous(g)
              ELSE IF p \in exception.on THEN "public" \in g
              ELSE IF p \in local.on THEN "local" \in g
              ELSE p \in public.on)
    BY <1>2, <1>4, FiveRules
  <1> HIDE DEF A, B, C, D, E
  <1>10. /\ RuleList(A \o B, p) /\ (Misses(A \o B, p) <=> Misses(A, p) /\ Misses(B, p))
         /\ (Accepts(A \o B, p) <=> Accepts(A, p) \/ (Misses(A, p) /\ Accepts(B, p)))
    BY <1>5, <1>6, RulesInTurn
  <1>11. /\ RuleList((A \o B) \o C, p) /\ (Misses((A \o B) \o C, p) <=> Misses(A \o B, p) /\ Misses(C, p))
         /\ (Accepts((A \o B) \o C, p) <=> Accepts(A \o B, p) \/ (Misses(A \o B, p) /\ Accepts(C, p)))
    BY <1>7, <1>10, RulesInTurn
  <1>12. /\ RuleList(((A \o B) \o C) \o D, p)
         /\ (Misses(((A \o B) \o C) \o D, p) <=> Misses((A \o B) \o C, p) /\ Misses(D, p))
         /\ (Accepts(((A \o B) \o C) \o D, p) <=>
               Accepts((A \o B) \o C, p) \/ (Misses((A \o B) \o C, p) /\ Accepts(D, p)))
    BY <1>8, <1>11, RulesInTurn
  <1>13. /\ RuleList(all, p)
         /\ (Accepts(all, p) <=>
               Accepts(((A \o B) \o C) \o D, p) \/ (Misses(((A \o B) \o C) \o D, p) /\ Accepts(E, p)))
    BY <1>9, <1>12, RulesInTurn
  <1>14. Leaves(g, p, resolver, TRUE) <=> Accepts(all, p)
    BY <1>1, <1>13, FirstRuleDecides
  <1>15. ("embedded" \in p.to.in => p.to.family = 4) /\ ("neighbour" \in p.to.in => p.to.family = 6)
    <2>1. p.to \in Destinations
      BY DEF Packets
    <2> QED BY <2>1 DEF Destinations
  <1>16. MayLeave(g, p, resolver) <=>
            \/ AllowsDNS(g) /\ p.to = resolver /\ p.port = "dns"
            \/ /\ "embedded" \notin p.to.in
               /\ \/ p.flow = "reply" \/ "lo" \in p.to.in \/ "peer" \in p.to.in \/ "neighbour" \in p.to.in
                  \/ IF "ambiguous" \in p.to.in THEN AllowsAmbiguous(g)
                     ELSE IF "local" \in p.to.in /\ "exception" \notin p.to.in THEN "local" \in g
                     ELSE "public" \in g
    BY DEF MayLeave
  <1>17. Accepts(all, p) <=>
            \/ AllowsDNS(g) /\ p \in names.on
            \/ /\ ~(p.to.family = 4 /\ p \in embedded.on)
               /\ \/ p \in lo.on \/ p \in reply.on \/ (p.to.family = 6 /\ p \in neighbour.on)
                  \/ Accepts(E, p)
    BY <1>5, <1>6, <1>7, <1>8, <1>10, <1>11, <1>12, <1>13
  <1> HIDE DEF all
  <1> QED BY <1>3, <1>9, <1>14, <1>15, <1>16, <1>17

-----------------------------------------------------------------------------
(* The network: the inductive invariant                                     *)

\* The steps up to the start of the controller, those around the starts with
\* both containers in their places, and those of the way out.
PreparationSteps ==
    {"allocate", "refused", "record", "inspect", "rollback", "rollback-record", "retry", "create",
     "attach", "connect-controller", "connect-workload", "verify", "start-controller"}
SettledSteps == {"verify", "start-controller", "verify-again", "start-workload", "verify-started", "running"}
NetSteps == PreparationSteps \cup SettledSteps \cup {"cleanup", "network", "disconnect", "ended"}

Boxes == [running : BOOLEAN, nets : SUBSET {"session", "bridge"}, app : BOOLEAN]

NetTypes ==
    /\ netStep \in NetSteps
    /\ selected \subseteq Roles /\ listed \subseteq Roles /\ dockerFaults \in Nat
    /\ boxes \in [Roles -> Boxes]

\* Who holds the identity of the network, and how many faults it took to lose it.
IdentityInv ==
    /\ netStep \in {"allocate", "refused"} => net = NoNet
    /\ guest => net # NoNet /\ dockerFaults >= 1
    /\ netStep \notin {"allocate", "refused", "record", "rollback-record", "retry", "ended"} => recorded
    /\ netStep = "rollback-record" => dockerFaults >= 1 /\ (guest => dockerFaults >= 2)
    /\ netStep = "retry" /\ net # NoNet => dockerFaults >= 2
    /\ netStep = "ended" /\ net # NoNet => recorded \/ ~known \/ dockerFaults >= 3

\* Where the containers are.
BoxesInv ==
    /\ ~meddled /\ netStep = "connect-workload" => boxes["controller"].nets = PlannedNets("controller")
    /\ ~meddled /\ netStep \in SettledSteps => \A r \in Roles : boxes[r].nets = PlannedNets(r)
    /\ \A r \in Roles : boxes[r].app =>
          /\ netStep \notin PreparationSteps
          /\ ~meddled /\ netStep # "ended" => boxes[r].nets = PlannedNets(r)

NetInv == NetTypes /\ IdentityInv /\ BoxesInv

\* The invariant gives what the run checks.
LEMMA NetInvSound ==
    NetInv => NetworkSound
  <1> SUFFICES ASSUME NetInv PROVE NetworkSound
    OBVIOUS
  <1>1. NetworkAccounted
    BY DEF NetInv, NetTypes, IdentityInv, NetworkAccounted, Roles
  <1>2. FilterFollowsGrants
    BY ChainFollowsGrants DEF FilterFollowsGrants
  <1>3. OnlyPlannedNets
    BY DEF NetInv, BoxesInv, OnlyPlannedNets
  <1> QED BY <1>1, <1>2, <1>3 DEF NetworkSound

\* The first states.
LEMMA NetInitFits == NetInit => NetInv
  <1> SUFFICES ASSUME NetInit PROVE NetInv
    OBVIOUS
  <1>1. /\ net = NoNet /\ selected = {} /\ boxes = [r \in Roles |-> Box]
        /\ guest = FALSE /\ listed = {} /\ netStep = "allocate" /\ dockerFaults = 0
    BY DEF NetInit, NetOf
  <1>2. boxes \in [Roles -> Boxes] /\ \A r \in Roles : ~boxes[r].app
    BY <1>1 DEF Box, Boxes
  <1> QED BY <1>1, <1>2 DEF NetInv, NetTypes, IdentityInv, BoxesInv, NetSteps, PreparationSteps, SettledSteps

USE DEF NetSteps, PreparationSteps, SettledSteps, Hold, Chosen, Forget, DockerFault

\* One lemma per action: the choice of a subnet.
LEMMA AllocateFits == NetInv /\ Allocate => NetInv'
  <1> SUFFICES ASSUME NetInv, Allocate PROVE NetInv'
    OBVIOUS
  <1>1. ~guest /\ net = NoNet
    BY DEF NetInv, IdentityInv, Allocate
  <1>2. NetTypes'
    BY DEF NetInv, NetTypes, Allocate
  <1>3. IdentityInv'
    BY <1>1 DEF NetInv, NetTypes, IdentityInv, Allocate
  <1>4. BoxesInv'
    BY DEF NetInv, BoxesInv, Allocate, PlannedNets
  <1> QED BY <1>2, <1>3, <1>4 DEF NetInv

\* A step that leaves the containers alone and does not settle anything.
LEMMA BoxesKept ==
    ASSUME NetInv, UNCHANGED <<boxes, grants, meddled>>,
           netStep' \in SettledSteps => netStep \in SettledSteps,
           netStep' = "connect-workload" => netStep = "connect-workload",
           netStep' \in PreparationSteps => netStep \in PreparationSteps,
           netStep = "ended" => netStep' = "ended"
    PROVE  BoxesInv'
  <1>1. \A r \in Roles : boxes'[r] = boxes[r] /\ PlannedNets(r)' = PlannedNets(r)
    BY DEF PlannedNets
  <1>2. "controller" \in Roles
    BY DEF Roles
  <1> HIDE DEF SettledSteps, PreparationSteps
  <1> QED BY <1>1, <1>2 DEF NetInv, BoxesInv

\* The record, the inspection and the way back.
LEMMA RecordNetworkFits == NetInv /\ RecordNetwork => NetInv'
  <1> SUFFICES ASSUME NetInv, RecordNetwork PROVE NetInv'
    OBVIOUS
  <1>1. NetTypes'
    BY DEF NetInv, NetTypes, RecordNetwork
  <1>2. IdentityInv'
    BY DEF NetInv, NetTypes, IdentityInv, RecordNetwork
  <1>3. BoxesInv'
    BY BoxesKept DEF RecordNetwork
  <1> QED BY <1>1, <1>2, <1>3 DEF NetInv

LEMMA InspectCreatedFits == NetInv /\ InspectCreated => NetInv'
  <1> SUFFICES ASSUME NetInv, InspectCreated PROVE NetInv'
    OBVIOUS
  <1>1. NetTypes'
    BY DEF NetInv, NetTypes, InspectCreated
  <1>2. IdentityInv'
    BY DEF NetInv, NetTypes, IdentityInv, InspectCreated
  <1>3. BoxesInv'
    BY BoxesKept DEF InspectCreated
  <1> QED BY <1>1, <1>2, <1>3 DEF NetInv

LEMMA RollbackFits == NetInv /\ Rollback => NetInv'
  <1> SUFFICES ASSUME NetInv, Rollback PROVE NetInv'
    OBVIOUS
  <1>1. NetTypes'
    BY DEF NetInv, NetTypes, Rollback
  <1>2. IdentityInv'
    BY DEF NetInv, NetTypes, IdentityInv, Rollback
  <1>3. BoxesInv'
    BY BoxesKept DEF Rollback
  <1> QED BY <1>1, <1>2, <1>3 DEF NetInv

LEMMA RetryRecordFits == NetInv /\ RetryRecord => NetInv'
  <1> SUFFICES ASSUME NetInv, RetryRecord PROVE NetInv'
    OBVIOUS
  <1>1. NetTypes'
    BY DEF NetInv, NetTypes, RetryRecord
  <1>2. IdentityInv'
    BY DEF NetInv, NetTypes, IdentityInv, RetryRecord
  <1>3. BoxesInv'
    BY BoxesKept DEF RetryRecord
  <1> QED BY <1>1, <1>2, <1>3 DEF NetInv

\* The containers, their attachment and their start.
LEMMA CreateContainersFits == NetInv /\ CreateContainers => NetInv'
  <1> SUFFICES ASSUME NetInv, CreateContainers PROVE NetInv'
    OBVIOUS
  <1>1. \A r \in Roles : CreateNetwork(grants[r], TRUE) = "bridge"
    BY DEF CreateNetwork, DockerNetworkMode
  <1>0. /\ UNCHANGED <<net, known, recorded, selected, listed, guest>> /\ netStep = "create"
        /\ netStep' \in {"attach", "cleanup"} /\ (UNCHANGED dockerFaults \/ DockerFault)
    BY DEF CreateContainers
  <1>2. NetTypes'
    <2>1. boxes' \in [Roles -> Boxes]
      <3>1. \A r \in Roles : [Box EXCEPT !.nets = {CreateNetwork(grants[r], TRUE)}] \in Boxes
        BY <1>1 DEF Box, Boxes
      <3> QED BY <3>1 DEF NetInv, NetTypes, CreateContainers
    <2> QED BY <1>0, <2>1 DEF NetInv, NetTypes
  <1>3. IdentityInv'
    BY <1>0 DEF NetInv, NetTypes, IdentityInv
  <1>4. \A r \in Roles : ~boxes'[r].app
    BY DEF NetInv, NetTypes, BoxesInv, CreateContainers, Box
  <1>5. netStep' \in {"attach", "cleanup"}
    BY DEF CreateContainers
  <1> QED BY <1>2, <1>3, <1>4, <1>5 DEF NetInv, BoxesInv

LEMMA AttachFits == NetInv /\ Attach => NetInv'
  <1> SUFFICES ASSUME NetInv, Attach PROVE NetInv'
    OBVIOUS
  <1>1. NetTypes'
    BY DEF NetInv, NetTypes, Attach
  <1>2. IdentityInv'
    BY DEF NetInv, NetTypes, IdentityInv, Attach
  <1>3. BoxesInv'
    BY BoxesKept DEF Attach
  <1> QED BY <1>1, <1>2, <1>3 DEF NetInv

LEMMA ConnectFits == ASSUME NEW r \in Roles, NetInv, Connect(r) PROVE NetInv'
  <1>1. netStep = (IF r = "controller" THEN "connect-controller" ELSE "connect-workload")
    BY DEF Connect, Connecting
  <1>2. netStep' \in {AfterConnect(r), "cleanup"}
    BY DEF Connect
  <1>3. PICK n \in SUBSET {"session", "bridge"} :
           boxes' = [boxes EXCEPT ![r].nets = n] /\ (netStep' # "cleanup" => n = PlannedNets(r))
    <2>1. boxes[r].nets \in SUBSET {"session", "bridge"}
      BY DEF NetInv, NetTypes, Boxes
    <2> DEFINE joined == boxes[r].nets \cup {"session"}
               settled == IF DockerNetworkMode(grants[r]) = "none" THEN joined \ {"bridge"} ELSE joined
    <2>2. joined \in SUBSET {"session", "bridge"} /\ settled \in SUBSET {"session", "bridge"}
      BY <2>1
    <2>3. \/ boxes' = [boxes EXCEPT ![r].nets = settled] /\ settled = PlannedNets(r)
          \/ boxes' = [boxes EXCEPT ![r].nets = settled] /\ netStep' = "cleanup"
          \/ /\ netStep' = "cleanup"
             /\ \E n \in {boxes[r].nets, joined, settled} : boxes' = [boxes EXCEPT ![r].nets = n]
      BY DEF Connect
    <2> HIDE DEF joined, settled
    <2> QED BY <2>1, <2>2, <2>3
  <1>4. NetTypes'
    <2>1. boxes' \in [Roles -> Boxes]
      BY <1>3 DEF NetInv, NetTypes, Boxes
    <2>2. UNCHANGED <<selected, listed>> /\ (UNCHANGED dockerFaults \/ DockerFault)
      BY DEF Connect
    <2> QED BY <1>2, <2>1, <2>2 DEF NetInv, NetTypes, AfterConnect
  <1>5. IdentityInv'
    BY <1>1, <1>2 DEF NetInv, NetTypes, IdentityInv, Connect, AfterConnect
  <1>6. \A x \in Roles : ~boxes[x].app /\ ~boxes'[x].app
    BY <1>1, <1>3 DEF NetInv, NetTypes, BoxesInv
  <1>7. \A x \in Roles : PlannedNets(x)' = PlannedNets(x)
    BY DEF Connect, PlannedNets
  <1>8. \A x \in Roles : x # r => boxes'[x] = boxes[x]
    BY <1>3 DEF NetInv, NetTypes
  <1>9. meddled' = meddled /\ (netStep' # "cleanup" => boxes'[r].nets = PlannedNets(r))
    BY <1>3 DEF NetInv, NetTypes, Connect
  <1>10. BoxesInv'
    BY <1>1, <1>2, <1>6, <1>7, <1>8, <1>9 DEF NetInv, BoxesInv, AfterConnect, Roles
  <1> QED BY <1>4, <1>5, <1>10 DEF NetInv

LEMMA VerifyNetworkFits == NetInv /\ VerifyNetwork => NetInv'
  <1> SUFFICES ASSUME NetInv, VerifyNetwork PROVE NetInv'
    OBVIOUS
  <1>1. NetTypes'
    BY DEF NetInv, NetTypes, VerifyNetwork
  <1>2. IdentityInv'
    BY DEF NetInv, NetTypes, IdentityInv, VerifyNetwork
  <1>3. BoxesInv'
    BY BoxesKept DEF VerifyNetwork
  <1> QED BY <1>1, <1>2, <1>3 DEF NetInv

LEMMA StartFits == ASSUME NEW r \in Roles, NetInv, Start(r) PROVE NetInv'
  <1>1. netStep = (IF r = "controller" THEN "start-controller" ELSE "start-workload")
    BY DEF Start
  <1>2. netStep' \in {AfterStart(r), "cleanup"}
    BY DEF Start
  <1>3. NetTypes'
    <2>1. boxes' \in [Roles -> Boxes]
      BY DEF NetInv, NetTypes, Start, Boxes
    <2>2. UNCHANGED <<selected, listed>> /\ (UNCHANGED dockerFaults \/ DockerFault)
      BY DEF Start
    <2> QED BY <1>2, <2>1, <2>2 DEF NetInv, NetTypes, AfterStart
  <1>4. IdentityInv'
    BY <1>1, <1>2 DEF NetInv, NetTypes, IdentityInv, Start, AfterStart
  <1>5. \A x \in Roles : boxes'[x].nets = boxes[x].nets /\ PlannedNets(x)' = PlannedNets(x)
    <2> DEFINE a == "session" \in boxes[r].nets
    <2>1. boxes' = [boxes EXCEPT ![r].running = a, ![r].app = a] \/ boxes' = boxes
      BY DEF Start
    <2> HIDE DEF a
    <2>2. \A x \in Roles : boxes'[x].nets = boxes[x].nets
      BY <2>1 DEF NetInv, NetTypes, Boxes
    <2>3. \A x \in Roles : PlannedNets(x)' = PlannedNets(x)
      BY DEF Start, PlannedNets
    <2> QED BY <2>2, <2>3
  <1>6. meddled' = meddled
    BY DEF Start
  <1>7. ~meddled => \A x \in Roles : boxes[x].nets = PlannedNets(x)
    BY <1>1 DEF NetInv, BoxesInv
  <1>8. BoxesInv'
    BY <1>2, <1>5, <1>6, <1>7 DEF BoxesInv, AfterStart, Roles
  <1> QED BY <1>3, <1>4, <1>8 DEF NetInv

LEMMA VerifyStartedFits == NetInv /\ VerifyStarted => NetInv'
  <1> SUFFICES ASSUME NetInv, VerifyStarted PROVE NetInv'
    OBVIOUS
  <1>1. NetTypes'
    BY DEF NetInv, NetTypes, VerifyStarted
  <1>2. IdentityInv'
    BY DEF NetInv, NetTypes, IdentityInv, VerifyStarted
  <1>3. BoxesInv'
    BY BoxesKept DEF VerifyStarted
  <1> QED BY <1>1, <1>2, <1>3 DEF NetInv

\* The end and the cleanup.
LEMMA EndSessionFits == NetInv /\ EndSession => NetInv'
  <1> SUFFICES ASSUME NetInv, EndSession PROVE NetInv'
    OBVIOUS
  <1>1. NetTypes'
    BY DEF NetInv, NetTypes, EndSession
  <1>2. IdentityInv'
    BY DEF NetInv, NetTypes, IdentityInv, EndSession
  <1>3. BoxesInv'
    BY BoxesKept DEF EndSession
  <1> QED BY <1>1, <1>2, <1>3 DEF NetInv

LEMMA RemoveContainersFits == NetInv /\ RemoveContainers => NetInv'
  <1> SUFFICES ASSUME NetInv, RemoveContainers PROVE NetInv'
    OBVIOUS
  <1>1. boxes' \in [Roles -> Boxes]
    <2>1. Box \in Boxes
      BY DEF Box, Boxes
    <2> QED BY <2>1 DEF NetInv, NetTypes, RemoveContainers
  <1>2. \A x \in Roles : boxes'[x] = boxes[x] \/ ~boxes'[x].app
    BY DEF NetInv, NetTypes, RemoveContainers, Box
  <1>3. NetTypes'
    BY <1>1 DEF NetInv, NetTypes, RemoveContainers
  <1>4. IdentityInv'
    BY DEF NetInv, NetTypes, IdentityInv, RemoveContainers
  <1>5. BoxesInv'
    BY <1>2 DEF NetInv, BoxesInv, RemoveContainers, PlannedNets
  <1> QED BY <1>3, <1>4, <1>5 DEF NetInv

LEMMA InspectForCleanupFits == NetInv /\ InspectForCleanup => NetInv'
  <1> SUFFICES ASSUME NetInv, InspectForCleanup PROVE NetInv'
    OBVIOUS
  <1>1. NetTypes'
    BY DEF NetInv, NetTypes, InspectForCleanup
  <1>2. IdentityInv'
    BY DEF NetInv, NetTypes, IdentityInv, InspectForCleanup
  <1>3. BoxesInv'
    BY BoxesKept DEF InspectForCleanup
  <1> QED BY <1>1, <1>2, <1>3 DEF NetInv

LEMMA RemoveNetworkFits == NetInv /\ RemoveNetwork => NetInv'
  <1> SUFFICES ASSUME NetInv, RemoveNetwork PROVE NetInv'
    OBVIOUS
  <1>1. PICK gone \in SUBSET listed :
          /\ boxes' = [r \in Roles |-> IF r \in gone THEN [boxes[r] EXCEPT !.nets = @ \ {"session"}] ELSE boxes[r]]
          /\ guest' = (guest /\ "guest" \notin gone)
          /\ net' = NoNet => ~guest' \/ net = NoNet
          /\ dockerFaults' = dockerFaults \/ DockerFault
    BY DEF RemoveNetwork
  <1>2. guest' <=> guest
    BY <1>1 DEF NetInv, NetTypes, Roles
  <1>3. NetTypes'
    <2>1. boxes' \in [Roles -> Boxes]
      BY <1>1 DEF NetInv, NetTypes, Boxes
    <2>2. UNCHANGED <<selected, listed>> /\ netStep' = "ended"
      BY DEF RemoveNetwork
    <2> QED BY <1>1, <2>1, <2>2 DEF NetInv, NetTypes
  <1>4. IdentityInv'
    BY <1>1, <1>2 DEF NetInv, NetTypes, IdentityInv, RemoveNetwork
  <1>5. \A r \in Roles : boxes'[r].app = boxes[r].app
    BY <1>1 DEF NetInv, NetTypes
  <1>6. BoxesInv'
    BY <1>5 DEF NetInv, BoxesInv, RemoveNetwork
  <1> QED BY <1>3, <1>4, <1>6 DEF NetInv

\* What others do.
LEMMA EndsFits == ASSUME NEW r \in Roles, NetInv, Ends(r) PROVE NetInv'
  <1>1. NetTypes'
    <2>1. boxes' \in [Roles -> Boxes]
      BY DEF NetInv, NetTypes, Ends, Boxes
    <2> QED BY <2>1 DEF NetInv, NetTypes, Ends
  <1>2. IdentityInv'
    BY DEF NetInv, IdentityInv, Ends
  <1>3. \A x \in Roles : /\ boxes'[x].nets = boxes[x].nets /\ (boxes'[x].app => boxes[x].app)
                         /\ PlannedNets(x)' = PlannedNets(x)
    BY DEF NetInv, NetTypes, Ends, PlannedNets
  <1>4. BoxesInv'
    BY <1>3 DEF NetInv, BoxesInv, Ends, Roles
  <1> QED BY <1>1, <1>2, <1>4 DEF NetInv

LEMMA GuestJoinsFits == NetInv /\ GuestJoins => NetInv'
  <1> SUFFICES ASSUME NetInv, GuestJoins PROVE NetInv'
    OBVIOUS
  <1>1. NetTypes'
    BY DEF NetInv, NetTypes, GuestJoins
  <1>2. IdentityInv'
    BY DEF NetInv, NetTypes, IdentityInv, GuestJoins
  <1>3. BoxesInv'
    BY BoxesKept DEF GuestJoins
  <1> QED BY <1>1, <1>2, <1>3 DEF NetInv

LEMMA MeddleFits == NetInv /\ Meddle => NetInv'
  <1> SUFFICES ASSUME NetInv, Meddle PROVE NetInv'
    OBVIOUS
  <1>1. PICK r \in Roles, n \in SUBSET {"session", "bridge"} : boxes' = [boxes EXCEPT ![r].nets = n]
    BY DEF Meddle
  <1>0. /\ UNCHANGED <<net, known, recorded, selected, guest, listed, netStep>> /\ meddled' = TRUE
        /\ dockerFaults' = dockerFaults + 1 /\ netStep \notin {"create", "ended"}
    BY DEF Meddle
  <1>2. NetTypes'
    <2>1. boxes' \in [Roles -> Boxes]
      BY <1>1 DEF NetInv, NetTypes, Boxes
    <2> QED BY <1>0, <2>1 DEF NetInv, NetTypes
  <1>3. IdentityInv'
    BY <1>0 DEF NetInv, NetTypes, IdentityInv
  <1>4. \A x \in Roles : boxes'[x].app = boxes[x].app
    BY <1>1 DEF NetInv, NetTypes
  <1>5. BoxesInv'
    BY <1>0, <1>4 DEF NetInv, BoxesInv
  <1> QED BY <1>2, <1>3, <1>5 DEF NetInv

LEMMA NetStands == NetInv /\ UNCHANGED netVars => NetInv'
  <1> SUFFICES ASSUME NetInv, UNCHANGED netVars PROVE NetInv'
    OBVIOUS
  <1>1. NetTypes'
    BY DEF NetInv, NetTypes, netVars
  <1>2. IdentityInv'
    BY DEF NetInv, IdentityInv, netVars
  <1>3. BoxesInv'
    BY BoxesKept DEF netVars
  <1> QED BY <1>1, <1>2, <1>3 DEF NetInv

\* For any pools, any number of attempts and any number of faults and
\* interferences: the network of a session is never taken from under somebody
\* else's container, its identity is lost only with three failures, and the
\* applications start in the networks and behind the filter of their grants
\* (controlled_session_network.go, network_firewall_linux.go).
THEOREM NetworkStaysSound == NetSpec => []NetworkSound
  <1>1. NetInv /\ [NetNext]_netVars => NetInv'
    BY AllocateFits, RecordNetworkFits, InspectCreatedFits, RollbackFits, RetryRecordFits, CreateContainersFits,
       AttachFits, ConnectFits, VerifyNetworkFits, StartFits, VerifyStartedFits, EndSessionFits,
       RemoveContainersFits, InspectForCleanupFits, RemoveNetworkFits, EndsFits, GuestJoinsFits, MeddleFits,
       NetStands DEF NetNext
  <1> QED BY <1>1, NetInitFits, NetInvSound, PTL DEF NetSpec

=============================================================================
