----------------------- MODULE WorkloadLifecycleProofs -----------------------
(***************************************************************************)
(* WorkloadSound of WorkloadLifecycle holds for any number of commands,    *)
(* process starts, kills and manual restarts.                              *)
(***************************************************************************)
EXTENDS WorkloadLifecycle, TLAPS

-----------------------------------------------------------------------------
(* Types                                                                    *)

Kinds == {"before_stop", "stop", "after_stop", "before_start", "start", "after_start"}

Views == [id : Nat, at : Nat, up : BOOLEAN]

Evidence ==
    [state : {"absent", "starting", "up", "stopping", "down"}, runtime : Runtimes, id : Nat,
     at : Nat, claimed : BOOLEAN, complete : BOOLEAN, handoff : BOOLEAN]

Inputs == [runtime : Runtimes, private : BOOLEAN]

Containers ==
    [id : Nat, at : Nat, up : BOOLEAN, hand : BOOLEAN, live : BOOLEAN, got : Nat, made : Inputs]

StageNames ==
    {"idle", "boot", "init", "prepare", "next", "stopping", "awaiting", "launch", "look", "inject",
     "prove", "commit", "cleanup", "rollback", "halt", "halted", "stopOwned", "ready"}

Ops ==
    [stage : StageNames, action : {"up", "down", "restart"}, todo : Seq(Kinds), private : BOOLEAN,
     rec : Evidence, seen : Views, reused : BOOLEAN, changed : BOOLEAN, mine : Views,
     owned : BOOLEAN, failed : BOOLEAN, retried : BOOLEAN]

\* WorkloadLifecycleV1.Validate
Valid(r) ==
    /\ r.id = 0 => ~r.claimed /\ ~r.handoff /\ ~r.complete /\ r.at = 0 /\ r.state # "up"
    /\ r.state = "up" => r.complete
    /\ r.handoff => r.claimed

\* Start times and IDs are numbers that were handed out.
HandedOut(v) == v.id <= starts /\ v.at <= starts

-----------------------------------------------------------------------------
(* The inductive invariant: what all actors share                           *)

\* What is needed to call a process up.
Earned(r) ==
    SameProcess(r, container) =>
        /\ container.hand \/ container.made.runtime = r.runtime
        /\ container.live
        /\ r.claimed => r.handoff /\ container.got = 1

Kernel ==
    /\ starts \in Nat /\ starts <= MaxStarts
    /\ files \in Inputs /\ wanted \in Runtimes /\ envPresent \in BOOLEAN /\ managed \in BOOLEAN
    /\ workloadLock \in Actors \cup {"free"}
    /\ op \in [Actors -> Ops]

RecordFine == record \in Evidence /\ HandedOut(record) /\ Valid(record)

ContainerFine ==
    /\ container \in Containers /\ HandedOut(container) /\ container.got <= 1
    /\ container.id = 0 => container = NoContainer

RecordTrue == (record.state = "up" => Earned(record)) /\ DownMeansStopped

Shared == Kernel /\ RecordFine /\ ContainerFine /\ RecordTrue

-----------------------------------------------------------------------------
(* What is true of an actor, by the stage it is in                          *)

OpTypes(o) ==
    HandedOut(o.rec) /\ Valid(o.rec) /\ HandedOut(o.seen) /\ HandedOut(o.mine)

\* The service holds the lock from its preparation until it is ready; a command
\* from the attempt to start until that attempt is over.
LockFits(a, o) ==
    /\ a = "service" /\ o.stage \notin {"idle", "boot", "ready"} => workloadLock = "service"
    /\ a = "cli" /\ o.stage \in {"launch", "look", "inject", "prove", "cleanup", "halt", "halted",
                                 "stopOwned"} => workloadLock = "cli"

\* Only systemd runs the service, and only the service starts what it manages;
\* stopping is for commands.
RoleFits(a, o) ==
    /\ a = "service" =>
         /\ ~managed => o.stage = "idle"
         /\ o.stage \notin {"stopping", "awaiting", "stopOwned", "cleanup", "halt"}
         /\ o.action # "down"
    /\ a = "cli" /\ managed => o.stage \notin {"launch", "look", "inject", "prove"}

Ahead(o, kind) == \E i \in 1..Len(o.todo) : o.todo[i] = kind

\* Stops come before starts, and only commands plan them.
PlanFits(a, o) ==
    /\ \A i, j \in 1..Len(o.todo) : o.todo[i] = "start" /\ o.todo[j] = "stop" => j < i
    /\ a = "service" => ~Ahead(o, "stop")
    /\ o.stage \in {"launch", "look", "inject", "prove", "cleanup", "awaiting"} =>
         o.todo # <<>> /\ Head(o.todo) = "start"
    /\ o.stage = "stopping" => o.todo # <<>> /\ Head(o.todo) = "stop"

\* The starter of processes: the service of a managed deployment, else the command.
Starter(a) == a = "service" \/ ~managed

\* The inputs published are the ones a starter is going to use.
FilesFit(a, o) ==
    Starter(a) =>
        /\ o.stage \in {"init", "prepare"} => files = [runtime |-> wanted, private |-> FALSE]
        /\ \/ o.stage \in {"next", "stopping"} /\ Ahead(o, "start")
           \/ o.stage \in {"launch", "look", "inject", "prove", "cleanup"}
           => files = [runtime |-> wanted, private |-> o.private]

\* Nothing is left to stop: what runs now was started since the actor looked.
Starting(o) ==
    \/ o.stage = "prepare" /\ ~o.seen.up
    \/ o.stage \in {"next", "awaiting"} /\ o.action # "down" /\ ~Ahead(o, "stop")
    \/ o.stage \in {"launch", "look", "inject", "prove"}

\* What a record says of a process that runs is true of it.
Fits(r) ==
    SameProcess(r, container) /\ container.up =>
        /\ r.handoff => container.live /\ container.got = 1
        /\ r.claimed /\ ~r.handoff => ~container.live /\ container.made.private
        /\ r.runtime = wanted => container.hand \/ container.made.runtime = wanted

RecordFits(o) == Starting(o) => Fits(record)

\* A process that was not there when the attempt began is new, and made of the
\* inputs that are wanted or restarted by hand.
NewProcess(o) ==
    ~SameProcess(o.mine, container) =>
        /\ container.got = 0
        /\ container.made.private => ~container.live
        /\ container.id = 0 \/ container.hand \/ container.made.runtime = wanted

Claim(o) ==
    [StartingRecord(wanted) EXCEPT !.id = o.mine.id, !.at = o.mine.at, !.claimed = o.private]

OwnMade(o) == SameProcess(o.mine, container) => container.hand \/ container.made.runtime = wanted

\* The attempt to start a process.
AttemptFits(o) ==
    /\ o.stage \in {"launch", "look", "prove"} => record = StartingRecord(wanted)
    /\ o.stage \in {"launch", "look"} => ~o.mine.up /\ NewProcess(o)
    /\ o.stage = "look" /\ ~o.failed => container.made = files
    /\ o.stage \in {"inject", "prove"} => o.rec = Claim(o) /\ o.mine.id # 0 /\ OwnMade(o)
    /\ o.stage = "inject" => container.got = 0 /\ record = o.rec /\ o.private
    /\ o.stage = "prove" => ~o.private
    /\ o.stage = "commit" => o.rec.id # 0 /\ Earned(o.rec)
    /\ o.stage \in {"halt", "halted"} => SameProcess(o.rec, o.mine)
    /\ o.owned /\ o.stage \notin {"launch", "look"} => o.mine.id # 0

\* What the service owns it started with the inputs that are wanted, and the
\* record names nothing else.
OwnFits(a, o) ==
    a = "service" /\ o.owned /\ o.stage \notin {"launch", "look"} =>
        /\ o.stage \notin {"idle", "boot", "ready"}
        /\ OwnMade(o)
        /\ record # NoRecord
        /\ record.id = 0 \/ SameProcess(record, o.mine)

OpFits(a, o) ==
    /\ OpTypes(o) /\ LockFits(a, o) /\ RoleFits(a, o) /\ PlanFits(a, o) /\ FilesFit(a, o)
    /\ RecordFits(o) /\ AttemptFits(o) /\ OwnFits(a, o)

WorkloadInv == Shared /\ \A a \in Actors : OpFits(a, op[a])

-----------------------------------------------------------------------------
(* Records and plans                                                        *)

LEMMA FieldsOfOps ==
    ASSUME NEW o \in Ops
    PROVE  /\ o.stage \in StageNames /\ o.action \in {"up", "down", "restart"} /\ o.todo \in Seq(Kinds)
           /\ o.private \in BOOLEAN /\ o.rec \in Evidence /\ o.seen \in Views /\ o.mine \in Views
           /\ o.reused \in BOOLEAN /\ o.changed \in BOOLEAN /\ o.owned \in BOOLEAN
           /\ o.failed \in BOOLEAN /\ o.retried \in BOOLEAN
BY DEF Ops

\* The operation of one actor is replaced.
LEMMA OpReplaced ==
    ASSUME op \in [Actors -> Ops], NEW a \in Actors, NEW v \in Ops, op' = [op EXCEPT ![a] = v]
    PROVE  /\ op' \in [Actors -> Ops] /\ op'[a] = v
           /\ \A b \in Actors : b # a => op'[b] = op[b]
BY DEF Actors

LEMMA StageSet ==
    ASSUME NEW o \in Ops, NEW s \in StageNames
    PROVE  LET v == [o EXCEPT !.stage = s] IN
           /\ v \in Ops /\ v.stage = s /\ v.action = o.action /\ v.todo = o.todo /\ v.private = o.private
           /\ v.rec = o.rec /\ v.seen = o.seen /\ v.reused = o.reused /\ v.changed = o.changed
           /\ v.mine = o.mine /\ v.owned = o.owned /\ v.failed = o.failed /\ v.retried = o.retried
BY DEF Ops

LEMMA NothingFits ==
    /\ NoInputs \in Inputs /\ NoContainer \in Containers /\ NoRecord \in Evidence
    /\ Inspect(NoContainer) \in Views /\ IdleOp \in Ops
    /\ \A r \in Runtimes : StartingRecord(r) \in Evidence /\ Valid(StartingRecord(r)) /\ StartingRecord(r).id = 0
    /\ Valid(NoRecord) /\ NoRecord.id = 0 /\ NoRecord.at = 0 /\ NoRecord.state = "absent"
    /\ NoContainer.id = 0 /\ NoContainer.at = 0 /\ ~NoContainer.up /\ NoContainer.got = 0
<1>1. NoInputs \in Inputs
  BY DEF NoInputs, Inputs, Runtimes
<1>2. NoContainer \in Containers /\ NoContainer.id = 0 /\ NoContainer.at = 0 /\ NoContainer.up = FALSE /\ NoContainer.got = 0
  BY <1>1 DEF NoContainer, Containers
<1>3. NoRecord \in Evidence /\ NoRecord.id = 0 /\ NoRecord.at = 0 /\ NoRecord.state = "absent" /\ Valid(NoRecord)
  <2> DEFINE s == StartingRecord(1)
  <2>1. s \in Evidence /\ s.id = 0 /\ s.at = 0 /\ ~s.claimed /\ ~s.complete /\ ~s.handoff
    BY DEF StartingRecord, Evidence, Runtimes
  <2>2. NoRecord = [s EXCEPT !.state = "absent"]
    BY DEF NoRecord
  <2> HIDE DEF s
  <2>3. NoRecord \in Evidence /\ NoRecord.state = "absent" /\ NoRecord.id = s.id /\ NoRecord.at = s.at
        /\ NoRecord.claimed = s.claimed /\ NoRecord.complete = s.complete /\ NoRecord.handoff = s.handoff
    BY <2>1, <2>2 DEF Evidence
  <2> QED BY <2>1, <2>3 DEF Valid
<1>4. Inspect(NoContainer) \in Views
  BY DEF NoContainer, Inspect, Views
<1>5. IdleOp \in Ops
  BY <1>3, <1>4 DEF IdleOp, Ops, StageNames
<1>6. \A r \in Runtimes : StartingRecord(r) \in Evidence /\ Valid(StartingRecord(r)) /\ StartingRecord(r).id = 0
  BY DEF StartingRecord, Evidence, Valid
<1> QED BY <1>1, <1>2, <1>3, <1>4, <1>5, <1>6

\* What is ahead of a plan after its first operation was done.
LEMMA PlanTail ==
    ASSUME NEW s \in Seq(Kinds), s # <<>>
    PROVE  /\ Tail(s) \in Seq(Kinds)
           /\ \A k : (\E i \in 1..Len(Tail(s)) : Tail(s)[i] = k) => \E i \in 1..Len(s) : s[i] = k
           /\ \A k : (\E i \in 1..Len(s) : s[i] = k) /\ Head(s) # k => \E i \in 1..Len(Tail(s)) : Tail(s)[i] = k
           /\ (\A i, j \in 1..Len(s) : s[i] = "start" /\ s[j] = "stop" => j < i) =>
                /\ \A i, j \in 1..Len(Tail(s)) : Tail(s)[i] = "start" /\ Tail(s)[j] = "stop" => j < i
                /\ Head(s) = "start" => \A j \in 1..Len(s) : s[j] # "stop"
<1>1. Tail(s) \in Seq(Kinds) /\ Len(Tail(s)) = Len(s) - 1 /\ Len(s) \in Nat /\ Len(s) > 0 /\ Head(s) = s[1]
  OBVIOUS
<1>2. \A i \in 1..Len(Tail(s)) : Tail(s)[i] = s[i + 1] /\ i + 1 \in 1..Len(s)
  BY <1>1
<1>3. \A i \in 1..Len(s) : i = 1 \/ (i - 1 \in 1..Len(Tail(s)) /\ Tail(s)[i - 1] = s[i])
  BY <1>1, <1>2
<1>4. ASSUME NEW k, \E i \in 1..Len(Tail(s)) : Tail(s)[i] = k PROVE \E i \in 1..Len(s) : s[i] = k
  BY <1>2, <1>4
<1>5. ASSUME NEW k, \E i \in 1..Len(s) : s[i] = k, Head(s) # k PROVE \E i \in 1..Len(Tail(s)) : Tail(s)[i] = k
  BY <1>1, <1>3, <1>5
<1>6. ASSUME \A i, j \in 1..Len(s) : s[i] = "start" /\ s[j] = "stop" => j < i
      PROVE  /\ \A i, j \in 1..Len(Tail(s)) : Tail(s)[i] = "start" /\ Tail(s)[j] = "stop" => j < i
             /\ Head(s) = "start" => \A j \in 1..Len(s) : s[j] # "stop"
  <2>1. ASSUME NEW i \in 1..Len(Tail(s)), NEW j \in 1..Len(Tail(s)), Tail(s)[i] = "start", Tail(s)[j] = "stop"
        PROVE  j < i
    <3>1. j + 1 < i + 1
      BY <2>1, <1>2, <1>6
    <3> QED BY <3>1
  <2>2. ASSUME Head(s) = "start", NEW j \in 1..Len(s), s[j] = "stop" PROVE FALSE
    <3>1. 1 \in 1..Len(s) /\ s[1] = "start"
      BY <1>1, <2>2
    <3>2. j < 1
      BY <3>1, <2>2, <1>6
    <3> QED BY <3>2
  <2> QED BY <2>1, <2>2
<1> QED BY <1>1, <1>4, <1>5, <1>6

-----------------------------------------------------------------------------
(* What a step leaves alone                                                 *)

\* Nothing an actor relies on has changed.
LEMMA Undisturbed ==
    ASSUME NEW b \in Actors, OpFits(b, op[b]), op'[b] = op[b],
           UNCHANGED <<record, container, world, starts>>, workloadLock = b => workloadLock' = b
    PROVE  OpFits(b, op[b])'
BY DEF OpFits, OpTypes, HandedOut, LockFits, RoleFits, PlanFits, Ahead, FilesFit, Starter, RecordFits,
       Starting, Fits, AttemptFits, NewProcess, Claim, OwnMade, Earned, OwnFits, SameProcess, world

\* A service that is not at work relies on nothing.
LEMMA ServiceAway ==
    ASSUME Kernel, starts' \in Nat, starts <= starts', managed' = managed,
           OpFits("service", op["service"]), op'["service"] = op["service"],
           op["service"].stage \in {"idle", "boot", "ready"}
    PROVE  OpFits("service", op["service"])'
<1> DEFINE o == op["service"]
<1>1. o \in Ops /\ o.rec \in Evidence /\ o.seen \in Views /\ o.mine \in Views
  BY FieldsOfOps DEF Kernel, Actors
<1>2. o.rec.id \in Nat /\ o.rec.at \in Nat /\ o.seen.id \in Nat /\ o.seen.at \in Nat /\ o.mine.id \in Nat /\ o.mine.at \in Nat
  BY <1>1 DEF Evidence, Views
<1>3. OpTypes(o)'
  BY <1>2 DEF OpFits, OpTypes, HandedOut, Kernel
<1>4. LockFits("service", o)'
  BY DEF LockFits
<1>5. RoleFits("service", o)'
  BY DEF RoleFits, OpFits
<1>6. PlanFits("service", o)'
  BY DEF PlanFits, OpFits, Ahead
<1>7. FilesFit("service", o)' /\ RecordFits(o)'
  BY DEF FilesFit, RecordFits, Starting
<1>8. AttemptFits(o)' /\ OwnFits("service", o)'
  BY DEF AttemptFits, OwnFits, OpFits
<1> QED BY <1>3, <1>4, <1>5, <1>6, <1>7, <1>8 DEF OpFits

\* The command of a managed deployment relies, while the service works, on what
\* the record says of a process that runs and on what it is about to confirm.
LEMMA CommandAway ==
    ASSUME Kernel, starts' \in Nat, starts <= starts', managed, managed' = managed,
           OpFits("cli", op["cli"]), op'["cli"] = op["cli"],
           workloadLock # "cli" \/ workloadLock' = workloadLock,
           Starting(op["cli"]) => Fits(record)',
           op["cli"].stage = "commit" => Earned(op["cli"].rec)'
    PROVE  OpFits("cli", op["cli"])'
<1> DEFINE o == op["cli"]
<1>1. o \in Ops /\ o.rec \in Evidence /\ o.seen \in Views /\ o.mine \in Views
  BY FieldsOfOps DEF Kernel, Actors
<1>2. o.rec.id \in Nat /\ o.rec.at \in Nat /\ o.seen.id \in Nat /\ o.seen.at \in Nat /\ o.mine.id \in Nat /\ o.mine.at \in Nat
  BY <1>1 DEF Evidence, Views
<1>3. OpTypes(o)'
  BY <1>2 DEF OpFits, OpTypes, HandedOut, Kernel
<1>4. o.stage \notin {"launch", "look", "inject", "prove"}
  BY DEF RoleFits, OpFits
<1>5. LockFits("cli", o)'
  BY DEF LockFits, OpFits
<1>6. RoleFits("cli", o)' /\ PlanFits("cli", o)' /\ FilesFit("cli", o)'
  BY DEF RoleFits, PlanFits, FilesFit, Starter, OpFits, Ahead
<1>7. RecordFits(o)'
  BY DEF RecordFits, Starting, Ahead
<1>8. AttemptFits(o)' /\ OwnFits("cli", o)'
  BY <1>4 DEF AttemptFits, OwnFits, OpFits, SameProcess
<1> QED BY <1>3, <1>5, <1>6, <1>7, <1>8 DEF OpFits

\* An actor that is done, or a service that reports its process.
LEMMA AtRest ==
    ASSUME NEW a \in Actors, starts' \in Nat,
           \/ op'[a] = IdleOp
           \/ op'[a] = [IdleOp EXCEPT !.stage = "ready"] /\ a = "service" /\ managed'
    PROVE  OpFits(a, op[a])' /\ op'[a] \in Ops
<1> DEFINE o == op'[a]
<1>1. o \in Ops
  <2>1. IdleOp \in Ops /\ "ready" \in StageNames
    BY NothingFits DEF StageNames
  <2>2. [IdleOp EXCEPT !.stage = "ready"] \in Ops
    BY <2>1, StageSet
  <2> QED BY <2>1, <2>2
<1>2. /\ o.stage \in {"idle", "ready"} /\ (o.stage = "ready" => a = "service" /\ managed')
      /\ o.rec = NoRecord /\ o.seen = Inspect(NoContainer) /\ o.mine = Inspect(NoContainer)
      /\ o.todo = <<>> /\ o.owned = FALSE /\ o.action = "up"
  BY DEF IdleOp
<1>3. Inspect(NoContainer).id = 0 /\ Inspect(NoContainer).at = 0
  BY DEF Inspect, NoContainer
<1> HIDE DEF o
<1>4. OpTypes(op[a])'
  BY <1>2, <1>3, NothingFits DEF OpTypes, HandedOut, o
<1>5. LockFits(a, op[a])' /\ RoleFits(a, op[a])' /\ RecordFits(op[a])' /\ AttemptFits(op[a])' /\ OwnFits(a, op[a])'
  BY <1>2 DEF o, LockFits, RoleFits, RecordFits, Starting, AttemptFits, OwnFits, Actors
<1>6. PlanFits(a, op[a])' /\ FilesFit(a, op[a])'
  BY <1>2 DEF o, PlanFits, FilesFit, Ahead
<1> QED BY <1>1, <1>4, <1>5, <1>6 DEF OpFits, o

\* The shared state of a step that changes neither record nor container.
LEMMA SharedKept ==
    ASSUME Shared, Kernel', UNCHANGED <<record, container>>, starts' = starts
    PROVE  Shared'
BY DEF Shared, RecordFine, ContainerFine, RecordTrue, Earned, HandedOut, SameProcess, DownMeansStopped

\* A container that is removed, or left as it is.
LEMMA ContainerStops ==
    ASSUME Shared, Kernel', record' = record, starts' = starts, container' \in {NoContainer, container}
    PROVE  Shared'
<1>1. CASE container' = container
  BY <1>1, SharedKept
<1>2. CASE container' = NoContainer
  <2>1. RecordFine' /\ ContainerFine'
    BY <1>2, NothingFits DEF Shared, RecordFine, ContainerFine, HandedOut, Kernel
  <2>2. RecordTrue'
    BY <1>2, NothingFits DEF Shared, RecordTrue, RecordFine, Valid, Earned, SameProcess, DownMeansStopped
  <2> QED BY <2>1, <2>2 DEF Shared
<1> QED BY <1>1, <1>2

LEMMA KernelKept ==
    ASSUME Kernel, op' \in [Actors -> Ops], UNCHANGED <<world, starts>>,
           workloadLock' \in Actors \cup {"free"}
    PROVE  Kernel'
BY DEF Kernel, world

\* A service without the lock is not at work, and one at work is systemd's.
LEMMA ServiceStages ==
    ASSUME OpFits("service", op["service"])
    PROVE  /\ workloadLock # "service" => op["service"].stage \in {"idle", "boot", "ready"}
           /\ op["service"].stage # "idle" => managed
BY DEF OpFits, LockFits, RoleFits

\* Both actors are described by their stages.
LEMMA BothFit ==
    ASSUME Shared', OpFits("cli", op["cli"])', OpFits("service", op["service"])'
    PROVE  WorkloadInv'
BY DEF WorkloadInv, Actors

LEMMA InNext ==
    ASSUME NEW a \in Actors, op'[a].stage = "next", OpTypes(op[a])',
           a = "service" => managed' /\ workloadLock' = "service" /\ op'[a].action # "down",
           \A i, j \in 1..Len(op'[a].todo) : op'[a].todo[i] = "start" /\ op'[a].todo[j] = "stop" => j < i,
           a = "service" => ~Ahead(op'[a], "stop"),
           Starter(a)' /\ Ahead(op'[a], "start") => files' = [runtime |-> wanted', private |-> op'[a].private],
           Starting(op[a])' => Fits(record)',
           op'[a].owned => op'[a].mine.id # 0,
           OwnFits(a, op[a])'
    PROVE  OpFits(a, op[a])'
<1>1. LockFits(a, op[a])' /\ RoleFits(a, op[a])' /\ RecordFits(op[a])' /\ AttemptFits(op[a])'
  BY DEF LockFits, RoleFits, RecordFits, AttemptFits
<1>2. PlanFits(a, op[a])' /\ FilesFit(a, op[a])'
  BY DEF PlanFits, FilesFit, Ahead
<1> QED BY <1>1, <1>2 DEF OpFits

\* A command may clean up at once; then the lock is its own.
LEMMA InRollback ==
    ASSUME NEW a \in Actors, op'[a].stage = "rollback", OpTypes(op[a])',
           a = "service" => managed' /\ workloadLock' = "service" /\ op'[a].action # "down",
           PlanFits(a, op[a]), op'[a].todo = op[a].todo,
           op'[a].owned => op'[a].mine.id # 0,
           OwnFits(a, op[a])'
    PROVE  OpFits(a, op[a])'
<1>1. LockFits(a, op[a])' /\ RoleFits(a, op[a])' /\ RecordFits(op[a])' /\ AttemptFits(op[a])' /\ FilesFit(a, op[a])'
  BY DEF LockFits, RoleFits, RecordFits, AttemptFits, Starting, FilesFit
<1>2. PlanFits(a, op[a])'
  BY DEF PlanFits, Ahead
<1> QED BY <1>1, <1>2 DEF OpFits

LEMMA InCleanup ==
    ASSUME op'["cli"].stage = "cleanup", OpTypes(op["cli"])', workloadLock' = "cli",
           op'["cli"].todo = op["cli"].todo, op'["cli"].private = op["cli"].private,
           OpFits("cli", op["cli"]), op["cli"].stage \in {"look", "inject", "prove"},
           UNCHANGED <<files, wanted, managed>>,
           op'["cli"].owned => op'["cli"].mine.id # 0
    PROVE  OpFits("cli", op["cli"])'
<1>1. LockFits("cli", op["cli"])' /\ RoleFits("cli", op["cli"])' /\ RecordFits(op["cli"])' /\ AttemptFits(op["cli"])'
      /\ OwnFits("cli", op["cli"])'
  BY DEF LockFits, RoleFits, RecordFits, AttemptFits, Starting, OwnFits
<1>2. PlanFits("cli", op["cli"])'
  BY DEF PlanFits, Ahead, OpFits
<1>3. FilesFit("cli", op["cli"])'
  BY DEF FilesFit, Starter, OpFits
<1> QED BY <1>1, <1>2, <1>3 DEF OpFits

\* An operation of the plan succeeded.
LEMMA Advanced ==
    ASSUME Kernel, NEW a \in Actors, OpFits(a, op[a]), op[a].todo # <<>>,
           op'[a].stage = "next", op'[a].todo = Tail(op[a].todo),
           op'[a].action = op[a].action, op'[a].private = op[a].private,
           UNCHANGED <<files, wanted, managed>>,
           \/ op[a].stage \in {"next", "stopping", "inject", "prove"}
           \/ op[a].stage = "awaiting" /\ managed /\ a = "cli",
           a = "service" => workloadLock' = "service",
           OpTypes(op[a])',
           Starting(op[a])' => Fits(record)',
           op'[a].owned => op'[a].mine.id # 0,
           OwnFits(a, op[a])'
    PROVE  OpFits(a, op[a])'
<1> DEFINE s == op[a].todo
<1>1. s \in Seq(Kinds)
  BY FieldsOfOps DEF Kernel
<1>2. \A i, j \in 1..Len(s) : s[i] = "start" /\ s[j] = "stop" => j < i
  BY DEF OpFits, PlanFits
<1>3. /\ \A i, j \in 1..Len(Tail(s)) : Tail(s)[i] = "start" /\ Tail(s)[j] = "stop" => j < i
      /\ \A k : (\E i \in 1..Len(Tail(s)) : Tail(s)[i] = k) => \E i \in 1..Len(s) : s[i] = k
  BY <1>1, <1>2, PlanTail
<1>4. a = "service" => ~Ahead(op'[a], "stop")
  BY <1>3 DEF OpFits, PlanFits, Ahead
<1>5. a = "service" => managed' /\ op'[a].action # "down"
  BY DEF OpFits, RoleFits
<1>6. ASSUME Starter(a)', Ahead(op'[a], "start") PROVE files' = [runtime |-> wanted', private |-> op'[a].private]
  <2>1. Ahead(op[a], "start") /\ Starter(a)
    BY <1>3, <1>6 DEF Ahead, Starter
  <2>2. op[a].stage \in {"next", "stopping", "inject", "prove"}
    BY <2>1 DEF Starter
  <2>3. files = [runtime |-> wanted, private |-> op[a].private]
    BY <2>1, <2>2 DEF OpFits, FilesFit
  <2> QED BY <2>3
<1>7. \A i, j \in 1..Len(op'[a].todo) : op'[a].todo[i] = "start" /\ op'[a].todo[j] = "stop" => j < i
  BY <1>3
<1> HIDE DEF s
<1> QED BY <1>4, <1>5, <1>6, <1>7, InNext

-----------------------------------------------------------------------------
(* The world around the actors                                              *)

\* The container changes by itself.
LEMMA ContainerMoves ==
    ASSUME Kernel, NEW b \in Actors, OpFits(b, op[b]),
           UNCHANGED <<record, world, op, workloadLock>>, starts' \in Nat, starts <= starts',
           container'.made = container.made, container.got = 0 => container'.got = 0,
           Fits(record) => Fits(record)',
           op[b].rec.id # 0 /\ Earned(op[b].rec) => Earned(op[b].rec)',
           NewProcess(op[b]) => NewProcess(op[b])',
           OwnMade(op[b]) => OwnMade(op[b])'
    PROVE  OpFits(b, op[b])'
<1> DEFINE o == op[b]
<1>1. o \in Ops /\ o.rec \in Evidence /\ o.seen \in Views /\ o.mine \in Views
  BY FieldsOfOps DEF Kernel
<1>2. o.rec.id \in Nat /\ o.rec.at \in Nat /\ o.seen.id \in Nat /\ o.seen.at \in Nat /\ o.mine.id \in Nat /\ o.mine.at \in Nat
  BY <1>1 DEF Evidence, Views
<1>3. OpTypes(o)'
  BY <1>2 DEF OpFits, OpTypes, HandedOut, Kernel
<1>4. LockFits(b, o)' /\ RoleFits(b, o)' /\ PlanFits(b, o)' /\ FilesFit(b, o)'
  BY DEF LockFits, RoleFits, PlanFits, FilesFit, Starter, OpFits, Ahead, world
<1>5. RecordFits(o)'
  BY DEF RecordFits, Starting, Ahead, OpFits
<1>6. AttemptFits(o)'
  BY DEF AttemptFits, OpFits, Claim, world, SameProcess
<1>7. OwnFits(b, o)'
  BY DEF OwnFits, OpFits, SameProcess
<1> QED BY <1>3, <1>4, <1>5, <1>6, <1>7 DEF OpFits

LEMMA ApplicationLaunchesKeeps ==
    ASSUME WorkloadInv, ApplicationLaunches
    PROVE  WorkloadInv'
<1>1. Shared /\ \A b \in Actors : OpFits(b, op[b])
  BY DEF WorkloadInv
<1>2. /\ container' \in Containers /\ container'.id = container.id /\ container'.at = container.at
      /\ container'.up = container.up /\ container'.hand = container.hand /\ container'.made = container.made
      /\ container'.live = TRUE /\ container'.got = container.got /\ container.id # 0
      /\ ~container.made.private
  <2>1. container \in Containers /\ container' = [container EXCEPT !.live = TRUE]
    BY <1>1 DEF ApplicationLaunches, Shared, ContainerFine
  <2>2. container.id # 0 /\ ~container.made.private
    BY <1>1, NothingFits DEF ApplicationLaunches, Shared, ContainerFine
  <2> QED BY <2>1, <2>2 DEF Containers
<1>3. UNCHANGED <<record, world, op, workloadLock, starts>>
  BY DEF ApplicationLaunches
<1>4. Shared'
  <2>1. Kernel'
    BY <1>1, <1>3 DEF Shared, Kernel, world
  <2>2. RecordFine' /\ ContainerFine'
    BY <1>1, <1>2, <1>3 DEF Shared, RecordFine, ContainerFine, HandedOut
  <2>3. RecordTrue'
    BY <1>1, <1>2, <1>3 DEF Shared, RecordTrue, Earned, SameProcess, DownMeansStopped
  <2> QED BY <2>1, <2>2, <2>3 DEF Shared
<1>5. ASSUME NEW b \in Actors PROVE OpFits(b, op[b])'
  <2>1. Fits(record) => Fits(record)'
    BY <1>2, <1>3 DEF Fits, SameProcess, world
  <2>2. Earned(op[b].rec) => Earned(op[b].rec)'
    BY <1>2, <1>3 DEF Earned, SameProcess
  <2>3. (NewProcess(op[b]) => NewProcess(op[b])') /\ (OwnMade(op[b]) => OwnMade(op[b])')
    BY <1>2, <1>3 DEF NewProcess, OwnMade, SameProcess, world
  <2>4. Kernel /\ OpFits(b, op[b]) /\ starts' \in Nat /\ starts <= starts'
    BY <1>1, <1>3 DEF Shared, Kernel
  <2> QED BY <1>2, <1>3, <2>1, <2>2, <2>3, <2>4, ContainerMoves
<1> QED BY <1>4, <1>5 DEF WorkloadInv

LEMMA ContainerExitsKeeps ==
    ASSUME WorkloadInv, ContainerExits
    PROVE  WorkloadInv'
<1>1. Shared /\ \A b \in Actors : OpFits(b, op[b])
  BY DEF WorkloadInv
<1>2. /\ container' \in Containers /\ container'.id = container.id /\ container'.at = container.at
      /\ container'.up = FALSE /\ container'.hand = container.hand /\ container'.made = container.made
      /\ container'.live = container.live /\ container'.got = container.got /\ container.id # 0
  <2>1. container \in Containers /\ container' = [container EXCEPT !.up = FALSE]
    BY <1>1 DEF ContainerExits, Shared, ContainerFine
  <2>2. container.id # 0
    BY <1>1, NothingFits DEF ContainerExits, Shared, ContainerFine
  <2> QED BY <2>1, <2>2 DEF Containers
<1>3. UNCHANGED <<record, world, op, workloadLock, starts>>
  BY DEF ContainerExits
<1>4. Shared'
  <2>1. Kernel'
    BY <1>1, <1>3 DEF Shared, Kernel, world
  <2>2. RecordFine' /\ ContainerFine'
    BY <1>1, <1>2, <1>3 DEF Shared, RecordFine, ContainerFine, HandedOut
  <2>3. RecordTrue'
    BY <1>1, <1>2, <1>3 DEF Shared, RecordTrue, Earned, SameProcess, DownMeansStopped
  <2> QED BY <2>1, <2>2, <2>3 DEF Shared
<1>5. ASSUME NEW b \in Actors PROVE OpFits(b, op[b])'
  <2>1. Fits(record) => Fits(record)'
    BY <1>2, <1>3 DEF Fits, SameProcess, world
  <2>2. Earned(op[b].rec) => Earned(op[b].rec)'
    BY <1>2, <1>3 DEF Earned, SameProcess
  <2>3. (NewProcess(op[b]) => NewProcess(op[b])') /\ (OwnMade(op[b]) => OwnMade(op[b])')
    BY <1>2, <1>3 DEF NewProcess, OwnMade, SameProcess, world
  <2>4. Kernel /\ OpFits(b, op[b]) /\ starts' \in Nat /\ starts <= starts'
    BY <1>1, <1>3 DEF Shared, Kernel
  <2> QED BY <1>2, <1>3, <2>1, <2>2, <2>3, <2>4, ContainerMoves
<1> QED BY <1>4, <1>5 DEF WorkloadInv

\* A process started just now is none that anybody has seen.
LEMMA ManualRestartKeeps ==
    ASSUME WorkloadInv, ManualRestart
    PROVE  WorkloadInv'
<1>1. Shared /\ \A b \in Actors : OpFits(b, op[b])
  BY DEF WorkloadInv
<1>2. /\ container' \in Containers /\ container'.id = container.id /\ container'.at = starts + 1
      /\ container'.up = TRUE /\ container'.hand = TRUE /\ container'.made = container.made
      /\ container'.live = FALSE /\ container'.got = 0 /\ container.id # 0
  <2> DEFINE c == Started(TRUE, container.made)
  <2>1. /\ c.id = container.id /\ c.at = starts + 1 /\ c.up = TRUE /\ c.made = container.made
        /\ c.live = FALSE /\ c.got = 0
    BY DEF Started
  <2>2. container.id \in Nat /\ container.made \in Inputs /\ starts + 1 \in Nat
    BY <1>1 DEF Shared, ContainerFine, Containers, Kernel
  <2>3. c \in Containers
    BY <2>2 DEF Started, Containers
  <2> HIDE DEF c
  <2>4. container' = [c EXCEPT !.hand = TRUE]
    BY DEF ManualRestart, c
  <2> QED BY <2>1, <2>3, <2>4 DEF Containers, ManualRestart
<1>3. UNCHANGED <<record, world, op, workloadLock>> /\ starts' = starts + 1 /\ starts < MaxStarts /\ starts \in Nat
  BY <1>1 DEF ManualRestart, Shared, Kernel
<1>4. starts' \in Nat /\ starts <= starts' /\ starts' <= MaxStarts
  BY <1>3, WorkloadBounds
<1>5. ASSUME NEW v, v.at \in Nat, v.at <= starts PROVE ~SameProcess(v, container')
  BY <1>2, <1>3, <1>5 DEF SameProcess
<1>6. record.at \in Nat /\ record.at <= starts
  BY <1>1 DEF Shared, RecordFine, HandedOut, Evidence
<1>7. Shared'
  <2>1. Kernel'
    BY <1>1, <1>3, <1>4 DEF Shared, Kernel, world
  <2>2. record.id \in Nat /\ record.id <= starts /\ container.id \in Nat /\ container.id <= starts
    BY <1>1 DEF Shared, RecordFine, HandedOut, Evidence, ContainerFine, Containers
  <2>3. RecordFine'
    BY <1>1, <1>3, <1>4, <1>6, <2>2 DEF Shared, RecordFine, HandedOut
  <2>4. ContainerFine'
    BY <1>2, <1>3, <2>2 DEF ContainerFine, HandedOut
  <2>5. RecordTrue'
    <3>1. ~SameProcess(record, container')
      BY <1>5, <1>6
    <3> QED BY <1>3, <3>1 DEF RecordTrue, Earned, SameProcess, DownMeansStopped
  <2> QED BY <2>1, <2>3, <2>4, <2>5 DEF Shared
<1>8. ASSUME NEW b \in Actors PROVE OpFits(b, op[b])'
  <2>1. Fits(record)'
    <3>1. ~SameProcess(record, container')
      BY <1>5, <1>6
    <3> QED BY <1>3, <3>1 DEF Fits, SameProcess
  <2>2. Earned(op[b].rec)'
    <3>1. op[b].rec.at \in Nat /\ op[b].rec.at <= starts
      BY <1>1, FieldsOfOps DEF Shared, Kernel, OpFits, OpTypes, HandedOut, Evidence
    <3>2. ~SameProcess(op[b].rec, container')
      BY <1>5, <3>1
    <3> QED BY <1>3, <3>2 DEF Earned, SameProcess
  <2>3. NewProcess(op[b])' /\ OwnMade(op[b])'
    BY <1>2, <1>3 DEF NewProcess, OwnMade
  <2>4. Kernel /\ OpFits(b, op[b])
    BY <1>1 DEF Shared
  <2> QED BY <1>2, <1>3, <1>4, <2>1, <2>2, <2>3, <2>4, ContainerMoves
<1> QED BY <1>7, <1>8 DEF WorkloadInv

LEMMA InputsChangeKeeps ==
    ASSUME WorkloadInv, InputsChange
    PROVE  WorkloadInv'
<1>1. Shared /\ \A b \in Actors : OpFits(b, op[b]) /\ op[b].stage \in {"idle", "ready"}
  BY DEF WorkloadInv, InputsChange
<1>2. UNCHANGED <<record, container, files, managed, op, workloadLock, starts>>
  BY DEF InputsChange
<1>3. wanted' \in Runtimes /\ envPresent' \in BOOLEAN
  <2>1. wanted \in Runtimes /\ envPresent \in BOOLEAN
    BY <1>1 DEF Shared, Kernel
  <2>2. wanted' \in Runtimes
    BY <2>1 DEF InputsChange, Runtimes
  <2>3. envPresent' \in BOOLEAN
    BY <2>1, Zenon DEF InputsChange
  <2> QED BY <2>2, <2>3
<1>4. Shared'
  <2>1. Kernel'
    BY <1>1, <1>2, <1>3 DEF Shared, Kernel
  <2> QED BY <1>1, <1>2, <2>1, SharedKept
<1>5. ASSUME NEW b \in Actors PROVE OpFits(b, op[b])'
  <2>1. OpTypes(op[b])' /\ LockFits(b, op[b])' /\ RoleFits(b, op[b])' /\ PlanFits(b, op[b])'
    BY <1>1, <1>2 DEF OpFits, OpTypes, LockFits, RoleFits, PlanFits, HandedOut, Ahead
  <2>2. FilesFit(b, op[b])' /\ RecordFits(op[b])' /\ AttemptFits(op[b])' /\ OwnFits(b, op[b])'
    BY <1>1, <1>2 DEF OpFits, FilesFit, RecordFits, Starting, AttemptFits, OwnFits
  <2> QED BY <2>1, <2>2 DEF OpFits
<1> QED BY <1>4, <1>5 DEF WorkloadInv

LEMMA KilledKeeps ==
    ASSUME WorkloadInv, NEW a \in Actors, Killed(a)
    PROVE  WorkloadInv'
<1>1. Shared /\ Kernel /\ \A b \in Actors : OpFits(b, op[b])
  BY DEF WorkloadInv, Shared
<1>2. /\ UNCHANGED <<record, container, world, starts>> /\ op' = [op EXCEPT ![a] = IdleOp]
      /\ workloadLock' \in {workloadLock, "free"}
      /\ workloadLock # a => workloadLock' = workloadLock
  BY DEF Killed
<1>3. /\ op' \in [Actors -> Ops] /\ op'[a] = IdleOp
      /\ \A b \in Actors : b # a => op'[b] = op[b]
  BY <1>1, <1>2, OpReplaced, NothingFits DEF Kernel
<1>4. Kernel'
  BY <1>1, <1>2, <1>3, KernelKept DEF Kernel
<1>5. Shared'
  BY <1>1, <1>2, <1>4, SharedKept
<1>6. OpFits(a, op[a])'
  BY <1>3, <1>4, AtRest DEF Kernel
<1>7. ASSUME NEW b \in Actors, b # a PROVE OpFits(b, op[b])'
  BY <1>1, <1>2, <1>3, <1>7, Undisturbed
<1> QED BY <1>5, <1>6, <1>7 DEF WorkloadInv

-----------------------------------------------------------------------------
(* The service process                                                      *)

\* The service that systemd starts has nothing yet.
LEMMA ServiceBoots ==
    ASSUME Kernel, OpFits("service", op["service"]), op["service"].stage = "idle", managed' = managed, managed,
           starts' = starts, op'["service"] = [op["service"] EXCEPT !.stage = "boot"]
    PROVE  OpFits("service", op["service"])' /\ op'["service"] \in Ops
<1> DEFINE o == op["service"]
           v == op'["service"]
<1>1. o \in Ops /\ "boot" \in StageNames
  BY DEF Kernel, Actors, StageNames
<1>2. /\ v \in Ops /\ v.stage = "boot" /\ v.action = o.action /\ v.todo = o.todo
      /\ v.rec = o.rec /\ v.seen = o.seen /\ v.mine = o.mine /\ v.owned = o.owned
  BY <1>1, StageSet
<1> HIDE DEF v
<1>3. OpTypes(op["service"])'
  BY <1>2 DEF OpFits, OpTypes, HandedOut, v
<1>4. LockFits("service", op["service"])' /\ RoleFits("service", op["service"])' /\ RecordFits(op["service"])'
  BY <1>2 DEF LockFits, RoleFits, RecordFits, Starting, OpFits, v
<1>5. PlanFits("service", op["service"])' /\ FilesFit("service", op["service"])'
  BY <1>2 DEF PlanFits, FilesFit, Ahead, OpFits, v
<1>6. AttemptFits(op["service"])' /\ OwnFits("service", op["service"])'
  BY <1>2 DEF AttemptFits, OwnFits, OpFits, v
<1> QED BY <1>2, <1>3, <1>4, <1>5, <1>6 DEF OpFits, v

LEMMA SystemdStartKeeps ==
    ASSUME WorkloadInv, SystemdStart
    PROVE  WorkloadInv'
<1>1. Shared /\ Kernel /\ OpFits("cli", op["cli"]) /\ OpFits("service", op["service"])
  BY DEF WorkloadInv, Shared, Actors
<1>2. /\ UNCHANGED <<record, container, world, workloadLock, starts>> /\ managed /\ managed' = managed
      /\ op' = [op EXCEPT !["service"] = [op["service"] EXCEPT !.stage = "boot"]]
      /\ op["service"].stage = "idle"
  BY DEF SystemdStart, world
<1>3. op'["service"] = [op["service"] EXCEPT !.stage = "boot"]
  BY <1>1, <1>2 DEF Kernel, Actors
<1>4. OpFits("service", op["service"])' /\ op'["service"] \in Ops
  BY <1>1, <1>2, <1>3, ServiceBoots
<1>5. op' \in [Actors -> Ops] /\ op'["cli"] = op["cli"]
  BY <1>1, <1>2, <1>3, <1>4 DEF Kernel, Actors
<1>6. Kernel'
  BY <1>1, <1>2, <1>5, KernelKept DEF Kernel
<1>7. Shared'
  BY <1>1, <1>2, <1>6, SharedKept
<1>8. OpFits("cli", op["cli"])'
  BY <1>1, <1>2, <1>5, Undisturbed DEF Actors
<1> QED BY <1>4, <1>7, <1>8, BothFit

LEMMA ServiceBootKeeps ==
    ASSUME WorkloadInv, ServiceBoot
    PROVE  WorkloadInv'
<1>1. /\ Shared /\ Kernel /\ OpFits("cli", op["cli"]) /\ OpFits("service", op["service"]) /\ managed
      /\ "cli" \in Actors /\ "service" \in Actors
  BY ServiceStages DEF WorkloadInv, Shared, Actors, ServiceBoot
<1>2. UNCHANGED <<record, container, wanted, envPresent, managed, starts>>
  BY DEF ServiceBoot
<1> DEFINE v == [IdleOp EXCEPT !.stage = "init", !.private = envPresent]
<1>3. /\ v \in Ops /\ v.stage = "init" /\ v.action = "up" /\ v.todo = <<>> /\ v.rec = NoRecord /\ v.owned = FALSE
      /\ v.seen = Inspect(NoContainer) /\ v.mine = Inspect(NoContainer)
  <2>1. "init" \in StageNames /\ envPresent \in BOOLEAN
    BY <1>1 DEF StageNames, Kernel
  <2>2. IdleOp \in Ops
    BY NothingFits
  <2>3. /\ IdleOp.action = "up" /\ IdleOp.todo = <<>> /\ IdleOp.rec = NoRecord /\ IdleOp.owned = FALSE
        /\ IdleOp.seen = Inspect(NoContainer) /\ IdleOp.mine = Inspect(NoContainer)
    BY DEF IdleOp
  <2> QED BY <2>1, <2>2, <2>3 DEF Ops
<1> HIDE DEF v
<1>4. CASE op' = [op EXCEPT !["service"] = IdleOp] /\ UNCHANGED <<files, workloadLock>>
  <2>1. op' \in [Actors -> Ops] /\ op'["service"] = IdleOp /\ op'["cli"] = op["cli"]
    BY <1>1, <1>4, OpReplaced, NothingFits DEF Kernel
  <2>2. Kernel'
    BY <1>1, <1>2, <1>4, <2>1, KernelKept DEF Kernel, world
  <2>3. Shared'
    BY <1>1, <1>2, <2>2, SharedKept
  <2>4. OpFits("service", op["service"])'
    BY <1>1, <2>1, <2>2, AtRest DEF Kernel
  <2>5. OpFits("cli", op["cli"])'
    BY <1>1, <1>2, <1>4, <2>1, Undisturbed DEF world
  <2> QED BY <2>3, <2>4, <2>5, BothFit
<1>5. CASE /\ workloadLock = "free" /\ workloadLock' = "service" /\ op' = [op EXCEPT !["service"] = v]
           /\ files' = [runtime |-> wanted, private |-> FALSE]
  <2>1. op' \in [Actors -> Ops] /\ op'["service"] = v /\ op'["cli"] = op["cli"]
    BY <1>1, <1>3, <1>5, OpReplaced DEF Kernel
  <2>2. Kernel'
    <3>1. files' \in Inputs
      BY <1>1, <1>5 DEF Inputs, Kernel
    <3> QED BY <1>1, <1>2, <1>5, <2>1, <3>1 DEF Kernel
  <2>3. Shared'
    BY <1>1, <1>2, <2>2, SharedKept
  <2>4. OpFits("service", op["service"])'
    <3>1. OpTypes(op["service"])'
      <4>1. Inspect(NoContainer).id = 0 /\ Inspect(NoContainer).at = 0
        BY DEF Inspect, NoContainer
      <4> QED BY <1>3, <2>1, <2>2, <4>1, NothingFits DEF OpTypes, HandedOut, Kernel
    <3>2. LockFits("service", op["service"])' /\ RoleFits("service", op["service"])' /\ RecordFits(op["service"])'
      BY <1>1, <1>2, <1>3, <1>5, <2>1 DEF LockFits, RoleFits, RecordFits, Starting
    <3>3. PlanFits("service", op["service"])' /\ FilesFit("service", op["service"])'
      BY <1>2, <1>3, <1>5, <2>1 DEF PlanFits, FilesFit, Ahead
    <3>4. AttemptFits(op["service"])' /\ OwnFits("service", op["service"])'
      BY <1>3, <2>1 DEF AttemptFits, OwnFits
    <3> QED BY <3>1, <3>2, <3>3, <3>4 DEF OpFits
  <2>5. OpFits("cli", op["cli"])'
    <3>1. Starting(op["cli"]) => Fits(record)'
      BY <1>1, <1>2 DEF OpFits, RecordFits, Fits, SameProcess
    <3>2. op["cli"].stage = "commit" => Earned(op["cli"].rec)'
      BY <1>1, <1>2, <2>1 DEF OpFits, AttemptFits, Earned, SameProcess
    <3>3. starts' \in Nat /\ starts <= starts'
      BY <1>1, <1>2 DEF Kernel
    <3> QED BY <1>1, <1>2, <1>5, <2>1, <3>1, <3>2, <3>3, CommandAway
  <2> QED BY <2>3, <2>4, <2>5, BothFit
<1> QED BY <1>4, <1>5 DEF ServiceBoot, v

LEMMA ServiceEndsKeeps ==
    ASSUME WorkloadInv, ServiceEnds
    PROVE  WorkloadInv'
<1>1. /\ Shared /\ Kernel /\ OpFits("cli", op["cli"]) /\ OpFits("service", op["service"]) /\ managed
      /\ "cli" \in Actors /\ "service" \in Actors
  BY ServiceStages DEF WorkloadInv, Shared, Actors, ServiceEnds
<1>2. /\ UNCHANGED <<record, world, workloadLock, starts>> /\ op' = [op EXCEPT !["service"] = IdleOp]
      /\ container' \in {NoContainer, container} /\ ~container.up /\ managed' = managed
  BY DEF ServiceEnds, StopOutcomes, world
<1>3. op' \in [Actors -> Ops] /\ op'["service"] = IdleOp /\ op'["cli"] = op["cli"]
  BY <1>1, <1>2, OpReplaced, NothingFits DEF Kernel
<1>4. Shared'
  <2>1. Kernel'
    BY <1>1, <1>2, <1>3, KernelKept DEF Kernel
  <2> QED BY <1>1, <1>2, <2>1, ContainerStops
<1>5. OpFits("service", op["service"])'
  BY <1>1, <1>3, <1>4, AtRest DEF Kernel, Shared
<1>6. OpFits("cli", op["cli"])'
  <2>1. ~container'.up
    BY <1>2, NothingFits
  <2>2. Fits(record)'
    BY <2>1 DEF Fits
  <2>3. op["cli"].stage = "commit" => Earned(op["cli"].rec)'
    BY <1>1, <1>2, <1>3, NothingFits DEF OpFits, AttemptFits, Earned, SameProcess
  <2>4. starts' \in Nat /\ starts <= starts'
    BY <1>1, <1>2 DEF Kernel
  <2> QED BY <1>1, <1>2, <1>3, <2>2, <2>3, <2>4, CommandAway
<1> QED BY <1>4, <1>5, <1>6, BothFit

LEMMA ServicePrepareKeeps ==
    ASSUME WorkloadInv, ServicePrepare
    PROVE  WorkloadInv'
<1> DEFINE o == op["service"]
<1>1. /\ Shared /\ Kernel /\ OpFits("cli", op["cli"]) /\ OpFits("service", o) /\ managed
      /\ "cli" \in Actors /\ "service" \in Actors /\ workloadLock = "service" /\ o.stage = "prepare" /\ o \in Ops
  <2>1. o.stage = "prepare"
    BY DEF ServicePrepare
  <2>2. Shared /\ Kernel /\ OpFits("cli", op["cli"]) /\ OpFits("service", o) /\ "cli" \in Actors /\ "service" \in Actors
    BY DEF WorkloadInv, Shared, Actors
  <2>3. managed /\ workloadLock = "service"
    BY <2>1, <2>2, ServiceStages
  <2> QED BY <2>1, <2>2, <2>3 DEF Kernel
<1>2. UNCHANGED <<record, container, wanted, envPresent, managed, starts>>
  BY DEF ServicePrepare
<1>3. files' \in Inputs /\ (~o.reused => files' = [runtime |-> wanted, private |-> o.private])
  <2>1. o.reused \in BOOLEAN /\ o.private \in BOOLEAN /\ o.rec.handoff \in BOOLEAN
    BY <1>1, FieldsOfOps DEF Evidence
  <2>2. files = [runtime |-> wanted, private |-> FALSE] /\ wanted \in Runtimes
    BY <1>1 DEF OpFits, FilesFit, Starter, Kernel
  <2>3. files' = [files EXCEPT !.private = IF o.reused THEN o.rec.handoff ELSE o.private]
    BY DEF ServicePrepare
  <2>4. files' = [runtime |-> wanted, private |-> IF o.reused THEN o.rec.handoff ELSE o.private]
    BY <2>2, <2>3
  <2>5. ASSUME NEW x \in BOOLEAN PROVE [runtime |-> wanted, private |-> x] \in Inputs
    BY <2>2 DEF Inputs
  <2>6. CASE o.reused
    BY <2>1, <2>4, <2>5, <2>6
  <2>7. CASE ~o.reused
    BY <2>1, <2>4, <2>5, <2>7
  <2> QED BY <2>6, <2>7
<1> DEFINE ends == workloadLock' = "free" /\ (op' = [op EXCEPT !["service"] = IdleOp]
                                              \/ op' = [op EXCEPT !["service"] = [IdleOp EXCEPT !.stage = "ready"]])
           starts1 == /\ ~o.reused /\ ~o.seen.up /\ workloadLock' = workloadLock
                      /\ op' = [op EXCEPT !["service"] = [[o EXCEPT !.stage = "next"] EXCEPT !.todo = StartPlan("service")]]
<1>4. ends \/ starts1
  <2>1. [op EXCEPT !["service"].stage = "next", !["service"].todo = StartPlan("service")]
        = [op EXCEPT !["service"] = [[o EXCEPT !.stage = "next"] EXCEPT !.todo = StartPlan("service")]]
    BY <1>1 DEF Kernel
  <2> QED BY <2>1 DEF ServicePrepare
<1>5. ASSUME op' \in [Actors -> Ops], op'["cli"] = op["cli"], workloadLock' \in {"service", "free"},
             OpFits("service", op["service"])'
      PROVE  WorkloadInv'
  <2>1. Kernel'
    BY <1>1, <1>2, <1>3, <1>5 DEF Kernel
  <2>2. Shared'
    BY <1>1, <1>2, <2>1, SharedKept
  <2>3. OpFits("cli", op["cli"])'
    <3>1. Starting(op["cli"]) => Fits(record)'
      BY <1>1, <1>2 DEF OpFits, RecordFits, Fits, SameProcess
    <3>2. op["cli"].stage = "commit" => Earned(op["cli"].rec)'
      BY <1>1, <1>2, <1>5 DEF OpFits, AttemptFits, Earned, SameProcess
    <3>3. starts' \in Nat /\ starts <= starts'
      BY <1>1, <1>2 DEF Kernel
    <3> QED BY <1>1, <1>2, <1>5, <3>1, <3>2, <3>3, CommandAway
  <2> QED BY <1>5, <2>2, <2>3, BothFit
<1>6. CASE ends
  <2>1. /\ op'["service"] \in {IdleOp, [IdleOp EXCEPT !.stage = "ready"]} /\ op'["cli"] = op["cli"]
        /\ op' = [op EXCEPT !["service"] = op'["service"]]
    BY <1>1, <1>6 DEF Kernel, Actors
  <2>2. OpFits("service", op["service"])' /\ op'["service"] \in Ops
    <3>1. starts' \in Nat /\ managed'
      BY <1>1, <1>2 DEF Kernel
    <3> QED BY <1>1, <2>1, <3>1, AtRest
  <2>3. op' \in [Actors -> Ops]
    BY <1>1, <2>1, <2>2, OpReplaced DEF Kernel
  <2> QED BY <1>5, <1>6, <2>1, <2>2, <2>3
<1>7. CASE starts1
  <2> DEFINE u == [o EXCEPT !.stage = "next"]
             p == StartPlan("service")
             v == [u EXCEPT !.todo = p]
  <2>1. p = <<"before_start", "start", "after_start">>
    BY DEF StartPlan
  <2>2. p \in Seq(Kinds)
    <3>1. <<"before_start", "start", "after_start">> \in Seq(Kinds)
      BY DEF Kinds
    <3> QED BY <2>1, <3>1
  <2>3. \A i \in 1..Len(p) : p[i] # "stop"
    BY <2>1
  <2>4. u \in Ops /\ u.stage = "next" /\ u.action = o.action /\ u.private = o.private /\ u.rec = o.rec
        /\ u.seen = o.seen /\ u.mine = o.mine /\ u.owned = o.owned
    <3>1. "next" \in StageNames
      BY DEF StageNames
    <3> QED BY <1>1, <3>1, StageSet
  <2> HIDE DEF u, p
  <2>5. v \in Ops /\ v.stage = "next" /\ v.action = o.action /\ v.private = o.private /\ v.rec = o.rec
        /\ v.seen = o.seen /\ v.mine = o.mine /\ v.owned = o.owned /\ v.todo = p
    BY <2>2, <2>4 DEF Ops
  <2>6. op' = [op EXCEPT !["service"] = v]
    BY <1>7 DEF p, u
  <2> HIDE DEF v
  <2>7. op' \in [Actors -> Ops] /\ op'["service"] = v /\ op'["cli"] = op["cli"]
    BY <1>1, <2>5, <2>6, OpReplaced DEF Kernel
  <2>8. OpFits("service", op["service"])'
    <3>1. OpTypes(op["service"])'
      BY <1>1, <1>2, <2>5, <2>7 DEF OpFits, OpTypes, HandedOut
    <3>2. managed' /\ workloadLock' = "service" /\ op'["service"].action # "down"
      BY <1>1, <1>2, <1>7, <2>5, <2>7 DEF OpFits, RoleFits
    <3>3. \A i, j \in 1..Len(op'["service"].todo) :
            op'["service"].todo[i] = "start" /\ op'["service"].todo[j] = "stop" => j < i
      BY <2>3, <2>5, <2>7
    <3>4. ~Ahead(op'["service"], "stop")
      BY <2>3, <2>5, <2>7 DEF Ahead
    <3>5. files' = [runtime |-> wanted', private |-> op'["service"].private]
      BY <1>2, <1>3, <1>7, <2>5, <2>7
    <3>6. Fits(record)'
      <4>1. Fits(record)
        BY <1>1, <1>7 DEF OpFits, RecordFits, Starting
      <4> QED BY <1>2, <4>1 DEF Fits, SameProcess
    <3>7. op'["service"].owned => op'["service"].mine.id # 0
      BY <1>1, <2>5, <2>7 DEF OpFits, AttemptFits
    <3>8. OwnFits("service", op["service"])'
      BY <1>1, <1>2, <2>5, <2>7 DEF OpFits, OwnFits, OwnMade, SameProcess
    <3> QED BY <1>1, <2>5, <2>7, <3>1, <3>2, <3>3, <3>4, <3>5, <3>6, <3>7, <3>8, InNext
  <2> QED BY <1>1, <1>5, <1>7, <2>7, <2>8
<1> QED BY <1>4, <1>6, <1>7

-----------------------------------------------------------------------------
(* The command                                                              *)

LEMMA AdmitCommandKeeps ==
    ASSUME WorkloadInv, NEW action \in {"up", "down", "restart"}, AdmitCommand(action)
    PROVE  WorkloadInv'
<1>1. /\ Shared /\ Kernel /\ OpFits("cli", op["cli"]) /\ OpFits("service", op["service"])
      /\ "cli" \in Actors /\ "service" \in Actors
  BY DEF WorkloadInv, Shared, Actors
<1>2. /\ UNCHANGED <<record, container, wanted, envPresent, managed, workloadLock, starts>> /\ workloadLock = "free"
      /\ files' = [runtime |-> wanted, private |-> FALSE]
  BY DEF AdmitCommand
<1> DEFINE x == envPresent /\ action # "down"
           v == [IdleOp EXCEPT !.stage = "init", !.action = action, !.private = x]
<1>3. /\ v \in Ops /\ v.stage = "init" /\ v.action = action /\ v.todo = <<>> /\ v.rec = NoRecord
      /\ v.owned = FALSE /\ v.seen = Inspect(NoContainer) /\ v.mine = Inspect(NoContainer)
  <2>1. "init" \in StageNames /\ x \in BOOLEAN
    BY DEF StageNames
  <2> HIDE DEF x
  <2>2. IdleOp \in Ops
    BY NothingFits
  <2>3. /\ IdleOp.todo = <<>> /\ IdleOp.rec = NoRecord /\ IdleOp.owned = FALSE
        /\ IdleOp.seen = Inspect(NoContainer) /\ IdleOp.mine = Inspect(NoContainer)
    BY DEF IdleOp
  <2> QED BY <2>1, <2>2, <2>3 DEF Ops
<1>4. op' = [op EXCEPT !["cli"] = v]
  BY DEF AdmitCommand
<1> HIDE DEF v
<1>5. op' \in [Actors -> Ops] /\ op'["cli"] = v /\ op'["service"] = op["service"]
  BY <1>1, <1>3, <1>4, OpReplaced DEF Kernel
<1>6. Kernel'
  <2>1. files' \in Inputs
    BY <1>1, <1>2 DEF Inputs, Kernel
  <2> QED BY <1>1, <1>2, <1>5, <2>1 DEF Kernel
<1>7. Shared'
  BY <1>1, <1>2, <1>6, SharedKept
<1>8. OpFits("cli", op["cli"])'
  <2>1. OpTypes(op["cli"])'
    <3>1. Inspect(NoContainer).id = 0 /\ Inspect(NoContainer).at = 0
      BY DEF Inspect, NoContainer
    <3> QED BY <1>3, <1>5, <1>6, <3>1, NothingFits DEF OpTypes, HandedOut, Kernel
  <2>2. LockFits("cli", op["cli"])' /\ RoleFits("cli", op["cli"])' /\ RecordFits(op["cli"])'
    BY <1>3, <1>5 DEF LockFits, RoleFits, RecordFits, Starting
  <2>3. PlanFits("cli", op["cli"])' /\ FilesFit("cli", op["cli"])'
    BY <1>2, <1>3, <1>5 DEF PlanFits, FilesFit, Ahead
  <2>4. AttemptFits(op["cli"])' /\ OwnFits("cli", op["cli"])'
    BY <1>3, <1>5 DEF AttemptFits, OwnFits
  <2> QED BY <2>1, <2>2, <2>3, <2>4 DEF OpFits
<1>9. OpFits("service", op["service"])'
  <2>1. op["service"].stage \in {"idle", "boot", "ready"}
    BY <1>1, <1>2, ServiceStages
  <2>2. starts' \in Nat /\ starts <= starts'
    BY <1>1, <1>2 DEF Kernel
  <2> QED BY <1>1, <1>2, <1>5, <2>1, <2>2, ServiceAway
<1> QED BY <1>7, <1>8, <1>9, BothFit

\* A state other than "up" and "down" claims nothing.
LEMMA StateSet ==
    ASSUME NEW r \in Evidence, NEW s \in {"starting", "stopping", "down"}
    PROVE  LET v == [r EXCEPT !.state = s] IN
           /\ v \in Evidence /\ v.state = s /\ v.runtime = r.runtime /\ v.id = r.id /\ v.at = r.at
           /\ v.claimed = r.claimed /\ v.complete = r.complete /\ v.handoff = r.handoff
           /\ (Valid(r) => Valid(v)) /\ v # NoRecord
<1> DEFINE v == [r EXCEPT !.state = s]
<1>1. /\ v \in Evidence /\ v.state = s /\ v.runtime = r.runtime /\ v.id = r.id /\ v.at = r.at
      /\ v.claimed = r.claimed /\ v.complete = r.complete /\ v.handoff = r.handoff
  BY DEF Evidence
<1> HIDE DEF v
<1>2. (Valid(r) => Valid(v)) /\ v # NoRecord
  BY <1>1, NothingFits DEF Valid
<1> QED BY <1>1, <1>2 DEF v

LEMMA AdmitStopOwnedKeeps ==
    ASSUME WorkloadInv, AdmitStopOwned
    PROVE  WorkloadInv'
<1>1. /\ Shared /\ Kernel /\ OpFits("cli", op["cli"]) /\ OpFits("service", op["service"])
      /\ "cli" \in Actors /\ "service" \in Actors
  BY DEF WorkloadInv, Shared, Actors
<1>2. /\ UNCHANGED <<container, world, starts>> /\ workloadLock = "free" /\ workloadLock' = "cli" /\ managed' = managed
      /\ record' \in {record, [record EXCEPT !.state = "stopping"]}
  BY DEF AdmitStopOwned, world
<1> DEFINE v == [IdleOp EXCEPT !.stage = "stopOwned", !.action = "down"]
<1>3. /\ v \in Ops /\ v.stage = "stopOwned" /\ v.action = "down" /\ v.todo = <<>> /\ v.rec = NoRecord
      /\ v.owned = FALSE /\ v.seen = Inspect(NoContainer) /\ v.mine = Inspect(NoContainer)
  <2>1. IdleOp \in Ops /\ "stopOwned" \in StageNames
    BY NothingFits DEF StageNames
  <2>2. /\ IdleOp.todo = <<>> /\ IdleOp.rec = NoRecord /\ IdleOp.owned = FALSE
        /\ IdleOp.seen = Inspect(NoContainer) /\ IdleOp.mine = Inspect(NoContainer)
    BY DEF IdleOp
  <2> QED BY <2>1, <2>2 DEF Ops
<1>4. op' = [op EXCEPT !["cli"] = v]
  BY DEF AdmitStopOwned
<1> HIDE DEF v
<1>5. op' \in [Actors -> Ops] /\ op'["cli"] = v /\ op'["service"] = op["service"]
  BY <1>1, <1>3, <1>4, OpReplaced DEF Kernel
<1>6. Kernel'
  BY <1>1, <1>2, <1>5, KernelKept
<1>7. Shared'
  <2>1. CASE record' = record
    BY <1>1, <1>2, <1>6, <2>1, SharedKept
  <2>2. CASE record' = [record EXCEPT !.state = "stopping"]
    <3>1. record \in Evidence /\ HandedOut(record) /\ Valid(record)
      BY <1>1 DEF Shared, RecordFine
    <3>2. record' \in Evidence /\ record'.state = "stopping" /\ record'.id = record.id /\ record'.at = record.at /\ Valid(record')
      BY <2>2, <3>1, StateSet
    <3>3. RecordFine' /\ ContainerFine'
      BY <1>1, <1>2, <3>1, <3>2 DEF Shared, RecordFine, ContainerFine, HandedOut, Valid
    <3>4. RecordTrue'
      BY <3>2 DEF RecordTrue, DownMeansStopped
    <3> QED BY <1>6, <3>3, <3>4 DEF Shared
  <2> QED BY <1>2, <2>1, <2>2
<1>8. OpFits("cli", op["cli"])'
  <2>1. OpTypes(op["cli"])'
    <3>1. Inspect(NoContainer).id = 0 /\ Inspect(NoContainer).at = 0
      BY DEF Inspect, NoContainer
    <3> QED BY <1>3, <1>5, <1>6, <3>1, NothingFits DEF OpTypes, HandedOut, Kernel
  <2>2. LockFits("cli", op["cli"])' /\ RoleFits("cli", op["cli"])' /\ RecordFits(op["cli"])'
    BY <1>2, <1>3, <1>5 DEF LockFits, RoleFits, RecordFits, Starting
  <2>3. PlanFits("cli", op["cli"])' /\ FilesFit("cli", op["cli"])'
    BY <1>3, <1>5 DEF PlanFits, FilesFit, Ahead
  <2>4. AttemptFits(op["cli"])' /\ OwnFits("cli", op["cli"])'
    BY <1>3, <1>5 DEF AttemptFits, OwnFits
  <2> QED BY <2>1, <2>2, <2>3, <2>4 DEF OpFits
<1>9. OpFits("service", op["service"])'
  <2>1. op["service"].stage \in {"idle", "boot", "ready"}
    BY <1>1, <1>2, ServiceStages
  <2>2. starts' \in Nat /\ starts <= starts'
    BY <1>1, <1>2 DEF Kernel
  <2> QED BY <1>1, <1>2, <1>5, <2>1, <2>2, ServiceAway
<1> QED BY <1>7, <1>8, <1>9, BothFit

-----------------------------------------------------------------------------
(* Steps of one actor that touch neither record nor container               *)

LEMMA Unfolded ==
    ASSUME WorkloadInv
    PROVE  /\ Shared /\ Kernel /\ OpFits("cli", op["cli"]) /\ OpFits("service", op["service"])
           /\ \A a \in Actors : OpFits(a, op[a]) /\ op[a] \in Ops
           /\ "cli" \in Actors /\ "service" \in Actors /\ op["cli"] \in Ops /\ op["service"] \in Ops
BY DEF WorkloadInv, Shared, Kernel, Actors

LEMMA AdvanceFields ==
    ASSUME NEW o \in Ops, o.todo # <<>>
    PROVE  LET v == AdvancePlan(o) IN
           /\ v \in Ops /\ v.stage = "next" /\ v.action = o.action /\ v.todo = Tail(o.todo) /\ v.private = o.private
           /\ v.rec = o.rec /\ v.seen = o.seen /\ v.mine = o.mine /\ v.owned = o.owned
<1>1. "next" \in StageNames /\ Tail(o.todo) \in Seq(Kinds)
  BY FieldsOfOps, PlanTail DEF StageNames
<1> QED BY <1>1 DEF AdvancePlan, Ops

LEMMA FailFields ==
    ASSUME NEW o \in Ops
    PROVE  LET v == FailPlan(o) IN
           /\ v \in Ops /\ v.stage = "rollback" /\ v.action = o.action /\ v.todo = o.todo /\ v.private = o.private
           /\ v.rec = o.rec /\ v.seen = o.seen /\ v.mine = o.mine /\ v.owned = o.owned
<1>1. "rollback" \in StageNames
  BY DEF StageNames
<1> QED BY <1>1 DEF FailPlan, Ops

LEMMA QuietStep ==
    ASSUME WorkloadInv, NEW a \in Actors, NEW v \in Ops, op' = [op EXCEPT ![a] = v],
           UNCHANGED <<record, container, world, workloadLock, starts>>
    PROVE  /\ op'[a] = v
           /\ OpFits(a, op[a])' => WorkloadInv'
<1>1. Shared /\ Kernel /\ \A b \in Actors : OpFits(b, op[b])
  BY Unfolded
<1>2. op' \in [Actors -> Ops] /\ op'[a] = v /\ \A b \in Actors : b # a => op'[b] = op[b]
  BY <1>1, OpReplaced DEF Kernel
<1>3. Kernel'
  BY <1>1, <1>2, KernelKept DEF Kernel
<1>4. Shared'
  BY <1>1, <1>3, SharedKept
<1>5. ASSUME NEW b \in Actors, b # a PROVE OpFits(b, op[b])'
  BY <1>1, <1>2, <1>5, Undisturbed
<1> QED BY <1>2, <1>4, <1>5 DEF WorkloadInv

\* The service while it executes its plan.
LEMMA ServiceAtWork ==
    ASSUME NEW a \in Actors, OpFits(a, op[a]), op[a].stage \notin {"idle", "boot", "ready"}
    PROVE  a = "service" => managed /\ workloadLock = "service" /\ op[a].action # "down"
BY DEF OpFits, LockFits, RoleFits

LEMMA PlanFailsKeeps ==
    ASSUME WorkloadInv, NEW a \in Actors, op[a].stage \notin {"idle", "boot", "ready", "launch", "look"},
           op' = [op EXCEPT ![a] = FailPlan(op[a])],
           UNCHANGED <<record, container, world, workloadLock, starts>>
    PROVE  WorkloadInv'
<1> DEFINE o == op[a]
           v == FailPlan(o)
<1>1. Kernel /\ OpFits(a, o) /\ o \in Ops
  BY Unfolded
<1>2. /\ v \in Ops /\ v.stage = "rollback" /\ v.action = o.action /\ v.todo = o.todo
      /\ v.rec = o.rec /\ v.seen = o.seen /\ v.mine = o.mine /\ v.owned = o.owned
  BY <1>1, FailFields
<1> HIDE DEF v
<1>3. op'[a] = v /\ (OpFits(a, op[a])' => WorkloadInv')
  BY <1>2, QuietStep DEF v
<1>4. OpTypes(op[a])'
  BY <1>1, <1>2, <1>3 DEF OpFits, OpTypes, HandedOut
<1>5. a = "service" => managed' /\ workloadLock' = "service" /\ op'[a].action # "down"
  BY <1>1, <1>2, <1>3, ServiceAtWork DEF world
<1>6. op'[a].owned => op'[a].mine.id # 0
  BY <1>1, <1>2, <1>3 DEF OpFits, AttemptFits
<1>7. OwnFits(a, op[a])'
  BY <1>1, <1>2, <1>3 DEF OpFits, OwnFits, OwnMade, SameProcess, world
<1>8. PlanFits(a, op[a]) /\ op'[a].todo = op[a].todo
  BY <1>1, <1>2, <1>3 DEF OpFits
<1>9. OpFits(a, op[a])'
  BY <1>2, <1>3, <1>4, <1>5, <1>6, <1>7, <1>8, InRollback
<1> QED BY <1>3, <1>9

LEMMA StartRefusedKeeps ==
    ASSUME WorkloadInv, NEW a \in Actors, StartRefused(a)
    PROVE  WorkloadInv'
<1>1. /\ op[a].stage = "next" /\ op' = [op EXCEPT ![a] = FailPlan(op[a])]
      /\ UNCHANGED <<record, container, world, workloadLock, starts>>
  BY Unfolded DEF StartRefused, IsNext, Kernel
<1> QED BY <1>1, PlanFailsKeeps

LEMMA PlanAdvancesKeeps ==
    ASSUME WorkloadInv, NEW a \in Actors, op[a].stage = "next", op[a].todo # <<>>, Head(op[a].todo) # "stop",
           op' = [op EXCEPT ![a] = AdvancePlan(op[a])],
           UNCHANGED <<record, container, world, workloadLock, starts>>
    PROVE  WorkloadInv'
<1> DEFINE o == op[a]
           v == AdvancePlan(o)
<1>1. Kernel /\ OpFits(a, o) /\ o \in Ops
  BY Unfolded
<1>2. /\ v \in Ops /\ v.stage = "next" /\ v.action = o.action /\ v.todo = Tail(o.todo) /\ v.private = o.private
      /\ v.rec = o.rec /\ v.seen = o.seen /\ v.mine = o.mine /\ v.owned = o.owned
  BY <1>1, AdvanceFields
<1> HIDE DEF v
<1>3. op'[a] = v /\ (OpFits(a, op[a])' => WorkloadInv')
  BY <1>2, QuietStep DEF v
<1>4. OpTypes(op[a])'
  BY <1>1, <1>2, <1>3 DEF OpFits, OpTypes, HandedOut
<1>5. a = "service" => workloadLock' = "service"
  BY <1>1, ServiceAtWork
<1>6. op'[a].owned => op'[a].mine.id # 0
  BY <1>1, <1>2, <1>3 DEF OpFits, AttemptFits
<1>7. OwnFits(a, op[a])'
  BY <1>1, <1>2, <1>3 DEF OpFits, OwnFits, OwnMade, SameProcess, world
<1>8. ASSUME Starting(op[a])' PROVE Fits(record)'
  <2>1. op'[a].action # "down" /\ ~Ahead(op'[a], "stop")
    BY <1>2, <1>3, <1>8 DEF Starting, Ahead
  <2>2. ~Ahead(o, "stop")
    <3>1. o.todo \in Seq(Kinds) /\ Head(o.todo) # "stop"
      BY <1>1, FieldsOfOps
    <3>2. (\E i \in 1..Len(o.todo) : o.todo[i] = "stop") => \E i \in 1..Len(Tail(o.todo)) : Tail(o.todo)[i] = "stop"
      BY <3>1, PlanTail
    <3> QED BY <1>2, <1>3, <2>1, <3>2 DEF Ahead
  <2>3. Fits(record)
    BY <1>1, <1>2, <1>3, <2>1, <2>2 DEF OpFits, RecordFits, Starting
  <2> QED BY <2>3 DEF Fits, SameProcess, world
<1>9. OpFits(a, op[a])'
  <2>1. UNCHANGED <<files, wanted, managed>>
    BY DEF world
  <2> QED BY <1>1, <1>2, <1>3, <1>4, <1>5, <1>6, <1>7, <1>8, <2>1, Advanced
<1> QED BY <1>3, <1>9

LEMMA RunHookKeeps ==
    ASSUME WorkloadInv, NEW a \in Actors, RunHook(a)
    PROVE  WorkloadInv'
<1>1. /\ op[a].stage = "next" /\ op[a].todo # <<>> /\ Head(op[a].todo) # "stop"
      /\ UNCHANGED <<record, container, world, workloadLock, starts>>
      /\ op' = [op EXCEPT ![a] = AdvancePlan(op[a])] \/ op' = [op EXCEPT ![a] = FailPlan(op[a])]
  BY Unfolded DEF RunHook, IsNext, Kernel
<1> QED BY <1>1, PlanFailsKeeps, PlanAdvancesKeeps

LEMMA InitializeKeeps ==
    ASSUME WorkloadInv, NEW a \in Actors, Initialize(a)
    PROVE  WorkloadInv'
<1> DEFINE o == op[a]
           done == Completed(record, container) /\ container.up
           r == IF SameProcess(record, container) /\ record # NoRecord THEN record ELSE StartingRecord(wanted)
           re == done /\ record.runtime = wanted
           ch == done /\ record.runtime # wanted
           v == [o EXCEPT !.stage = "prepare", !.seen = Inspect(container), !.rec = r, !.reused = re, !.changed = ch]
<1>1. Shared /\ Kernel /\ OpFits(a, o) /\ o \in Ops
  BY Unfolded
<1>2. /\ o.stage = "init" /\ op' = [op EXCEPT ![a] = v]
      /\ UNCHANGED <<record, container, world, workloadLock, starts>>
  BY <1>1 DEF Initialize, Kernel
<1>3. r \in Evidence /\ HandedOut(r) /\ Valid(r)
  <2>1. CASE r = record
    BY <1>1, <2>1 DEF Shared, RecordFine
  <2>2. CASE r = StartingRecord(wanted)
    <3>1. r \in Evidence /\ Valid(r) /\ r.id = 0
      BY <1>1, <2>2, NothingFits DEF Kernel
    <3>2. r.at = 0
      BY <2>2 DEF StartingRecord
    <3> QED BY <1>1, <3>1, <3>2 DEF HandedOut, Kernel
  <2> QED BY <2>1, <2>2
<1>4. Inspect(container) \in Views /\ Inspect(container).up = container.up /\ HandedOut(Inspect(container))
  BY <1>1 DEF Shared, ContainerFine, Containers, Inspect, Views, HandedOut
<1>5. re \in BOOLEAN /\ ch \in BOOLEAN /\ "prepare" \in StageNames
  BY DEF StageNames
<1> HIDE DEF r, re, ch
<1>6. /\ v \in Ops /\ v.stage = "prepare" /\ v.action = o.action /\ v.todo = o.todo /\ v.private = o.private
      /\ v.rec = r /\ v.seen = Inspect(container) /\ v.mine = o.mine /\ v.owned = o.owned
  BY <1>1, <1>3, <1>4, <1>5 DEF Ops
<1>7. op'[a] = v /\ (OpFits(a, op[a])' => WorkloadInv')
  BY <1>2, <1>6, QuietStep
<1> HIDE DEF v
<1>8. OpTypes(op[a])'
  BY <1>1, <1>2, <1>3, <1>4, <1>6, <1>7 DEF OpFits, OpTypes, HandedOut, Valid
<1>9. LockFits(a, op[a])' /\ RoleFits(a, op[a])' /\ PlanFits(a, op[a])'
  BY <1>1, <1>2, <1>6, <1>7 DEF OpFits, LockFits, RoleFits, PlanFits, Ahead, world
<1>10. FilesFit(a, op[a])'
  BY <1>1, <1>2, <1>6, <1>7 DEF OpFits, FilesFit, Starter, world
<1>11. RecordFits(op[a])'
  BY <1>2, <1>4, <1>6, <1>7 DEF RecordFits, Starting, Fits
<1>12. AttemptFits(op[a])' /\ OwnFits(a, op[a])'
  BY <1>1, <1>2, <1>6, <1>7 DEF OpFits, AttemptFits, OwnFits, OwnMade, SameProcess, world
<1> QED BY <1>7, <1>8, <1>9, <1>10, <1>11, <1>12 DEF OpFits

LEMMA CompleteCheckKeeps ==
    ASSUME WorkloadInv, NEW a \in Actors, CompleteCheck(a)
    PROVE  WorkloadInv'
<1> DEFINE o == op[a]
           v == [o EXCEPT !.rec = record, !.stage = "commit"]
           sound == /\ record.runtime = wanted /\ container.up /\ SameProcess(record, container)
                    /\ IF o.private THEN record.handoff ELSE container.live
<1>1. Shared /\ Kernel /\ OpFits(a, o) /\ o \in Ops
  BY Unfolded
<1>2. /\ o.stage = "next" /\ o.todo = <<>>
      /\ UNCHANGED <<record, container, world, workloadLock, starts>>
      /\ \/ op' = [op EXCEPT ![a] = IdleOp]
         \/ op' = [op EXCEPT ![a] = v] /\ o.action # "down" /\ sound
         \/ op' = [op EXCEPT ![a] = FailPlan(op[a])]
  BY <1>1 DEF CompleteCheck
<1>3. CASE op' = [op EXCEPT ![a] = FailPlan(op[a])]
  BY <1>2, <1>3, PlanFailsKeeps
<1>4. CASE op' = [op EXCEPT ![a] = IdleOp]
  <2>1. op'[a] = IdleOp /\ (OpFits(a, op[a])' => WorkloadInv')
    BY <1>2, <1>4, NothingFits, QuietStep
  <2>2. starts' \in Nat
    BY <1>1, <1>2 DEF Kernel
  <2> QED BY <2>1, <2>2, AtRest
<1>5. CASE op' = [op EXCEPT ![a] = v] /\ o.action # "down" /\ sound
  <2>1. /\ v \in Ops /\ v.stage = "commit" /\ v.action = o.action /\ v.todo = o.todo
        /\ v.rec = record /\ v.seen = o.seen /\ v.mine = o.mine /\ v.owned = o.owned
    <3>1. record \in Evidence /\ "commit" \in StageNames
      BY <1>1 DEF Shared, RecordFine, StageNames
    <3> QED BY <1>1, <3>1 DEF Ops
  <2>2. op'[a] = v /\ (OpFits(a, op[a])' => WorkloadInv')
    BY <1>2, <1>5, <2>1, QuietStep
  <2> HIDE DEF v
  <2>3. OpTypes(op[a])'
    BY <1>1, <1>2, <2>1, <2>2 DEF OpFits, OpTypes, HandedOut, Shared, RecordFine, Valid
  <2>4. LockFits(a, op[a])' /\ RoleFits(a, op[a])' /\ PlanFits(a, op[a])'
    BY <1>1, <1>2, <2>1, <2>2 DEF OpFits, LockFits, RoleFits, PlanFits, Ahead, world
  <2>5. FilesFit(a, op[a])' /\ RecordFits(op[a])'
    BY <2>1, <2>2 DEF FilesFit, RecordFits, Starting
  <2>6. record.id # 0
    <3>1. container.id # 0
      BY <1>1, <1>5, NothingFits DEF Shared, ContainerFine
    <3> QED BY <1>5, <3>1 DEF SameProcess
  <2>7. Earned(record)
    <3>1. Fits(record)
      <4>1. ~Ahead(o, "stop")
        BY <1>2 DEF Ahead
      <4> QED BY <1>1, <1>2, <1>5, <4>1 DEF OpFits, RecordFits, Starting
    <3>2. container.hand \/ container.made.runtime = record.runtime
      BY <1>5, <3>1 DEF Fits
    <3>3. container.live
      BY <1>5, <3>1 DEF Fits
    <3>4. record.claimed => record.handoff /\ container.got = 1
      BY <1>5, <3>1, <3>3 DEF Fits
    <3> QED BY <3>2, <3>3, <3>4 DEF Earned
  <2>8. AttemptFits(op[a])' /\ OwnFits(a, op[a])'
    <3>1. Earned(op[a].rec)'
      BY <1>2, <2>1, <2>2, <2>7 DEF Earned, SameProcess
    <3>2. op'[a].owned => op'[a].mine.id # 0
      BY <1>1, <1>2, <2>1, <2>2 DEF OpFits, AttemptFits
    <3>3. AttemptFits(op[a])'
      BY <2>1, <2>2, <2>6, <3>1, <3>2 DEF AttemptFits
    <3>4. OwnFits(a, op[a])'
      BY <1>1, <1>2, <2>1, <2>2 DEF OpFits, OwnFits, OwnMade, SameProcess, world
    <3> QED BY <3>3, <3>4
  <2> QED BY <2>2, <2>3, <2>4, <2>5, <2>8 DEF OpFits
<1> QED BY <1>2, <1>3, <1>4, <1>5

LEMMA ManagedStartedKeeps ==
    ASSUME WorkloadInv, ManagedStarted
    PROVE  WorkloadInv'
<1> DEFINE o == op["cli"]
           mine == Inspect(container)
           own == container.id # 0 /\ (container.id # o.seen.id \/ (~o.seen.up /\ container.at # o.seen.at))
           w == IF container.up THEN AdvancePlan(o) ELSE FailPlan(o)
           v == [w EXCEPT !.mine = mine, !.owned = own]
<1>1. Shared /\ Kernel /\ OpFits("cli", o) /\ o \in Ops /\ "cli" \in Actors
  BY Unfolded
<1>2. /\ managed /\ o.stage \in {"awaiting", "next"} /\ o.todo # <<>> /\ Head(o.todo) = "start"
      /\ UNCHANGED <<record, container, world, workloadLock, starts>>
      /\ op' = [op EXCEPT !["cli"] = v] \/ op' = [op EXCEPT !["cli"] = FailPlan(op["cli"])]
  BY <1>1 DEF ManagedStarted, IsNext, OpFits, PlanFits, Kernel
<1>3. CASE op' = [op EXCEPT !["cli"] = FailPlan(op["cli"])]
  BY <1>1, <1>2, <1>3, PlanFailsKeeps
<1>4. CASE op' = [op EXCEPT !["cli"] = v]
  <2>1. /\ w \in Ops /\ w.action = o.action /\ w.private = o.private /\ w.rec = o.rec /\ w.seen = o.seen
        /\ \/ w.stage = "next" /\ w.todo = Tail(o.todo)
           \/ w.stage = "rollback" /\ w.todo = o.todo
    BY <1>1, <1>2, AdvanceFields, FailFields
  <2>2. mine \in Views /\ HandedOut(mine) /\ (own => mine.id # 0) /\ own \in BOOLEAN
    BY <1>1 DEF Shared, ContainerFine, Containers, Inspect, Views, HandedOut
  <2> HIDE DEF w, mine, own
  <2>3. /\ v \in Ops /\ v.action = w.action /\ v.private = w.private /\ v.rec = w.rec /\ v.seen = w.seen
        /\ v.stage = w.stage /\ v.todo = w.todo /\ v.mine = mine /\ v.owned = own
    BY <2>1, <2>2 DEF Ops
  <2>4. op'["cli"] = v /\ (OpFits("cli", op["cli"])' => WorkloadInv')
    BY <1>1, <1>2, <1>4, <2>3, QuietStep
  <2> HIDE DEF v
  <2>5. OpTypes(op["cli"])'
    BY <1>1, <1>2, <2>1, <2>2, <2>3, <2>4 DEF OpFits, OpTypes, HandedOut, Valid
  <2>6. op'["cli"].owned => op'["cli"].mine.id # 0
    BY <2>2, <2>3, <2>4
  <2>7. OwnFits("cli", op["cli"])'
    BY DEF OwnFits
  <2>8. CASE w.stage = "rollback" /\ w.todo = o.todo
    <3>1. op'["cli"].stage = "rollback" /\ op'["cli"].todo = op["cli"].todo /\ PlanFits("cli", op["cli"])
      BY <1>1, <2>3, <2>4, <2>8 DEF OpFits
    <3>2. OpFits("cli", op["cli"])'
      BY <1>1, <2>5, <2>6, <2>7, <3>1, InRollback
    <3> QED BY <2>4, <3>2
  <2>9. CASE w.stage = "next" /\ w.todo = Tail(o.todo)
    <3>1. /\ op'["cli"].stage = "next" /\ op'["cli"].todo = Tail(op["cli"].todo)
          /\ op'["cli"].action = op["cli"].action /\ op'["cli"].private = op["cli"].private
      BY <2>1, <2>3, <2>4, <2>9
    <3>2. ASSUME Starting(op["cli"])' PROVE Fits(record)'
      <4>1. o.action # "down"
        BY <3>1, <3>2 DEF Starting
      <4>2. ~Ahead(o, "stop")
        <5>1. o.todo \in Seq(Kinds) /\ \A i, j \in 1..Len(o.todo) : o.todo[i] = "start" /\ o.todo[j] = "stop" => j < i
          BY <1>1, FieldsOfOps DEF OpFits, PlanFits
        <5> QED BY <1>2, <5>1, PlanTail DEF Ahead
      <4>3. Fits(record)
        BY <1>1, <1>2, <4>1, <4>2 DEF OpFits, RecordFits, Starting
      <4> QED BY <1>2, <4>3 DEF Fits, SameProcess, world
    <3>3. OpFits("cli", op["cli"])'
      <4>1. UNCHANGED <<files, wanted, managed>>
        BY <1>2 DEF world
      <4> QED BY <1>1, <1>2, <2>5, <2>6, <2>7, <3>1, <3>2, <4>1, Advanced
    <3> QED BY <2>4, <3>3
  <2> QED BY <2>1, <2>8, <2>9
<1> QED BY <1>2, <1>3, <1>4

LEMMA ManagedStartKeeps ==
    ASSUME WorkloadInv, ManagedStart
    PROVE  WorkloadInv'
<1> DEFINE o == op["cli"]
           v == [o EXCEPT !.stage = "awaiting"]
           s == [op["service"] EXCEPT !.stage = "boot"]
<1>1. /\ Shared /\ Kernel /\ OpFits("cli", o) /\ o \in Ops /\ "cli" \in Actors
      /\ OpFits("service", op["service"]) /\ op["service"] \in Ops
  BY Unfolded
<1>2. /\ managed /\ o.stage = "next" /\ o.todo # <<>> /\ Head(o.todo) = "start"
      /\ UNCHANGED <<record, container, world, workloadLock, starts>> /\ managed' = managed
      /\ op["service"].stage = "idle"
  BY DEF ManagedStart, IsNext, world
<1>3. op' \in [Actors -> Ops] /\ op'["cli"] = v /\ op'["service"] = s
  <2>1. v \in Ops /\ s \in Ops
    <3>1. "awaiting" \in StageNames /\ "boot" \in StageNames
      BY DEF StageNames
    <3> QED BY <1>1, <3>1, StageSet
  <2>2. op' = [[op EXCEPT !["cli"] = v] EXCEPT !["service"] = s]
    BY <1>1 DEF ManagedStart, Kernel, Actors
  <2> HIDE DEF v, s
  <2> QED BY <1>1, <2>1, <2>2 DEF Kernel, Actors
<1>4. /\ v.stage = "awaiting" /\ v.action = o.action /\ v.todo = o.todo
      /\ v.rec = o.rec /\ v.seen = o.seen /\ v.mine = o.mine /\ v.owned = o.owned
  <2>1. "awaiting" \in StageNames
    BY DEF StageNames
  <2> QED BY <1>1, <2>1, StageSet
<1>5. OpFits("service", op["service"])'
  BY <1>1, <1>2, <1>3, ServiceBoots
<1> HIDE DEF v, s
<1>6. Shared'
  <2>1. Kernel'
    BY <1>1, <1>2, <1>3, KernelKept DEF Kernel
  <2> QED BY <1>1, <1>2, <2>1, SharedKept
<1>7. OpFits("cli", op["cli"])'
  <2>1. OpTypes(op["cli"])'
    BY <1>1, <1>2, <1>3, <1>4 DEF OpFits, OpTypes, HandedOut
  <2>2. LockFits("cli", op["cli"])' /\ RoleFits("cli", op["cli"])' /\ PlanFits("cli", op["cli"])'
    BY <1>1, <1>2, <1>3, <1>4 DEF OpFits, LockFits, RoleFits, PlanFits
  <2>3. FilesFit("cli", op["cli"])'
    BY <1>3, <1>4 DEF FilesFit
  <2>4. RecordFits(op["cli"])'
    BY <1>1, <1>2, <1>3, <1>4 DEF OpFits, RecordFits, Starting, Ahead, Fits, SameProcess, world
  <2>5. AttemptFits(op["cli"])' /\ OwnFits("cli", op["cli"])'
    BY <1>1, <1>2, <1>3, <1>4 DEF OpFits, AttemptFits, OwnFits
  <2> QED BY <2>1, <2>2, <2>3, <2>4, <2>5 DEF OpFits
<1> QED BY <1>5, <1>6, <1>7, BothFit

-----------------------------------------------------------------------------
(* Stopping                                                                 *)

\* What the stop of a managed workload leaves of the service.
LEMMA ServiceStopped ==
    ASSUME Kernel, OpFits("service", op["service"]), NEW v \in Ops,
           op' = ServiceAfterStop([op EXCEPT !["cli"] = v]), starts' = starts, managed' = managed,
           ~managed => workloadLock # "service"
    PROVE  /\ op' \in [Actors -> Ops] /\ op'["cli"] = v
           /\ OpFits("service", op["service"])'
<1>1. "cli" \in Actors /\ "service" \in Actors /\ starts \in Nat /\ op \in [Actors -> Ops]
  BY DEF Kernel, Actors
<1>2. CASE managed
  <2>1. op' = [[op EXCEPT !["cli"] = v] EXCEPT !["service"] = IdleOp]
    BY <1>2 DEF ServiceAfterStop
  <2>2. op' \in [Actors -> Ops] /\ op'["cli"] = v /\ op'["service"] = IdleOp
    BY <1>1, <2>1, NothingFits DEF Actors
  <2> QED BY <1>1, <2>2, AtRest
<1>3. CASE ~managed
  <2>1. op' = [op EXCEPT !["cli"] = v]
    BY <1>3 DEF ServiceAfterStop
  <2>2. op' \in [Actors -> Ops] /\ op'["cli"] = v /\ op'["service"] = op["service"]
    BY <1>1, <2>1, OpReplaced
  <2>3. op["service"].stage \in {"idle", "boot", "ready"}
    BY <1>3, ServiceStages
  <2>4. starts' \in Nat /\ starts <= starts'
    BY <1>1
  <2> QED BY <2>2, <2>3, <2>4, ServiceAway
<1> QED BY <1>2, <1>3

\* "down" is recorded when nothing runs.
LEMMA DownRecorded ==
    ASSUME Shared, Kernel', starts' = starts, container' \in {NoContainer, container}, ~container'.up,
           NEW r \in Evidence, HandedOut(r), Valid(r), record' = [r EXCEPT !.state = "down"]
    PROVE  Shared' /\ Fits(record)'
<1>1. record' \in Evidence /\ record'.state = "down" /\ record'.id = r.id /\ record'.at = r.at /\ Valid(record')
  BY StateSet
<1>2. RecordFine'
  BY <1>1 DEF RecordFine, HandedOut, Valid
<1>3. ContainerFine'
  BY NothingFits DEF Shared, ContainerFine, HandedOut, Kernel
<1>4. RecordTrue' /\ Fits(record)'
  BY <1>1 DEF RecordTrue, DownMeansStopped, Fits
<1> QED BY <1>2, <1>3, <1>4 DEF Shared

LEMMA StopOwnedKeeps ==
    ASSUME WorkloadInv, StopOwned
    PROVE  WorkloadInv'
<1>1. /\ Shared /\ Kernel /\ OpFits("cli", op["cli"]) /\ OpFits("service", op["service"]) /\ "cli" \in Actors
  BY Unfolded
<1>2. workloadLock = "cli"
  BY <1>1 DEF StopOwned, OpFits, LockFits
<1>3. /\ UNCHANGED <<world, starts>> /\ managed' = managed /\ workloadLock' = "free"
      /\ op' = ServiceAfterStop([op EXCEPT !["cli"] = IdleOp])
      /\ container' \in {NoContainer, container}
      /\ record' = record \/ (record' = [record EXCEPT !.state = "down"] /\ ~container'.up)
  BY DEF StopOwned, StopOutcomes, world
<1>4. op' \in [Actors -> Ops] /\ op'["cli"] = IdleOp /\ OpFits("service", op["service"])'
  BY <1>1, <1>2, <1>3, NothingFits, ServiceStopped
<1>5. Kernel'
  BY <1>1, <1>3, <1>4, KernelKept
<1>6. Shared'
  <2>1. CASE record' = record
    BY <1>1, <1>3, <1>5, <2>1, ContainerStops
  <2>2. CASE record' = [record EXCEPT !.state = "down"] /\ ~container'.up
    <3>1. record \in Evidence /\ HandedOut(record) /\ Valid(record)
      BY <1>1 DEF Shared, RecordFine
    <3> QED BY <1>1, <1>3, <1>5, <2>2, <3>1, DownRecorded
  <2> QED BY <1>3, <2>1, <2>2
<1>7. OpFits("cli", op["cli"])'
  BY <1>1, <1>4, <1>5, AtRest DEF Kernel
<1> QED BY <1>4, <1>6, <1>7, BothFit

LEMMA StopRunKeeps ==
    ASSUME WorkloadInv, StopRun
    PROVE  WorkloadInv'
<1> DEFINE o == op["cli"]
           r == [o.rec EXCEPT !.state = "down"]
           u == [o EXCEPT !.rec = IF container'.up THEN o.rec ELSE r]
<1>1. /\ Shared /\ Kernel /\ OpFits("cli", o) /\ OpFits("service", op["service"]) /\ "cli" \in Actors /\ o \in Ops
  BY Unfolded
<1>2. /\ UNCHANGED <<world, starts>> /\ managed' = managed /\ workloadLock' = LockAfterStop
      /\ o.stage = "stopping" /\ (managed \/ MayLock("cli"))
      /\ container' \in {NoContainer, container}
      /\ record' = IF container'.up THEN record ELSE r
  BY DEF StopRun, StopOutcomes, world
<1>3. \/ op' = ServiceAfterStop([op EXCEPT !["cli"] = FailPlan(u)])
      \/ op' = ServiceAfterStop([op EXCEPT !["cli"] = AdvancePlan(u)]) /\ ~container'.up
  BY DEF StopRun
<1>4. o.rec \in Evidence /\ HandedOut(o.rec) /\ Valid(o.rec) /\ o.todo # <<>> /\ ~(o.owned /\ o.mine.id = 0)
  BY <1>1, <1>2, FieldsOfOps DEF OpFits, OpTypes, PlanFits, AttemptFits
<1>5. r \in Evidence /\ r.id = o.rec.id /\ r.at = o.rec.at /\ Valid(r)
  BY <1>4, StateSet
<1>6. /\ u \in Ops /\ u.stage = o.stage /\ u.action = o.action /\ u.todo = o.todo /\ u.private = o.private
      /\ u.seen = o.seen /\ u.mine = o.mine /\ u.owned = o.owned /\ u.rec \in {o.rec, r}
  <2> HIDE DEF r
  <2> QED BY <1>1, <1>4, <1>5 DEF Ops
<1>7. ~managed => workloadLock # "service"
  BY <1>2 DEF MayLock
<1>8. ASSUME NEW v \in Ops, op' = ServiceAfterStop([op EXCEPT !["cli"] = v])
      PROVE  op'["cli"] = v /\ (OpFits("cli", op["cli"])' => WorkloadInv') /\ (~container'.up => Fits(record)')
  <2>1. op' \in [Actors -> Ops] /\ op'["cli"] = v /\ OpFits("service", op["service"])'
    BY <1>1, <1>2, <1>7, <1>8, ServiceStopped
  <2>2. Kernel'
    <3>1. workloadLock' \in Actors \cup {"free"}
      BY <1>1, <1>2 DEF LockAfterStop, Kernel
    <3> QED BY <1>1, <1>2, <2>1, <3>1, KernelKept
  <2>3. Shared' /\ (~container'.up => Fits(record)')
    <3>1. CASE container'.up
      BY <1>1, <1>2, <2>2, <3>1, ContainerStops
    <3>2. CASE ~container'.up
      BY <1>1, <1>2, <1>4, <2>2, <3>2, DownRecorded
    <3> QED BY <3>1, <3>2
  <2> QED BY <2>1, <2>3, BothFit
<1> HIDE DEF r, u
<1>9. CASE op' = ServiceAfterStop([op EXCEPT !["cli"] = FailPlan(u)])
  <2> DEFINE v == FailPlan(u)
  <2>1. /\ v \in Ops /\ v.stage = "rollback" /\ v.action = u.action /\ v.todo = u.todo
        /\ v.rec = u.rec /\ v.seen = u.seen /\ v.mine = u.mine /\ v.owned = u.owned
    BY <1>6, FailFields
  <2>2. op'["cli"] = v /\ (OpFits("cli", op["cli"])' => WorkloadInv')
    BY <1>8, <1>9, <2>1
  <2> HIDE DEF v
  <2>3. OpTypes(op["cli"])'
    BY <1>1, <1>2, <1>4, <1>5, <1>6, <2>1, <2>2 DEF OpFits, OpTypes, HandedOut, Valid
  <2>4. PlanFits("cli", op["cli"]) /\ op'["cli"].todo = op["cli"].todo /\ (op'["cli"].owned => op'["cli"].mine.id # 0)
    BY <1>1, <1>4, <1>6, <2>1, <2>2 DEF OpFits
  <2>5. OwnFits("cli", op["cli"])'
    BY DEF OwnFits
  <2>6. OpFits("cli", op["cli"])'
    BY <1>1, <2>1, <2>2, <2>3, <2>4, <2>5, InRollback
  <2> QED BY <2>2, <2>6
<1>10. CASE op' = ServiceAfterStop([op EXCEPT !["cli"] = AdvancePlan(u)]) /\ ~container'.up
  <2> DEFINE v == AdvancePlan(u)
  <2>1. /\ v \in Ops /\ v.stage = "next" /\ v.action = u.action /\ v.todo = Tail(u.todo) /\ v.private = u.private
        /\ v.rec = u.rec /\ v.seen = u.seen /\ v.mine = u.mine /\ v.owned = u.owned
    BY <1>4, <1>6, AdvanceFields
  <2>2. op'["cli"] = v /\ (OpFits("cli", op["cli"])' => WorkloadInv') /\ Fits(record)'
    BY <1>8, <1>10, <2>1
  <2> HIDE DEF v
  <2>3. OpTypes(op["cli"])'
    BY <1>1, <1>2, <1>4, <1>5, <1>6, <2>1, <2>2 DEF OpFits, OpTypes, HandedOut, Valid
  <2>4. /\ op'["cli"].owned => op'["cli"].mine.id # 0
        /\ op'["cli"].todo = Tail(op["cli"].todo) /\ op'["cli"].action = op["cli"].action
        /\ op'["cli"].private = op["cli"].private /\ op'["cli"].stage = "next"
    BY <1>4, <1>6, <2>1, <2>2
  <2>5. OwnFits("cli", op["cli"])' /\ UNCHANGED <<files, wanted, managed>>
    BY <1>2 DEF OwnFits, world
  <2>6. OpFits("cli", op["cli"])'
    BY <1>1, <1>2, <1>4, <2>2, <2>3, <2>4, <2>5, Advanced
  <2> QED BY <2>2, <2>6
<1> QED BY <1>3, <1>9, <1>10

LEMMA StopRefusedKeeps ==
    ASSUME WorkloadInv, StopRefused
    PROVE  WorkloadInv'
<1>1. /\ "cli" \in Actors /\ op["cli"].stage = "next"
      /\ op' = [op EXCEPT !["cli"] = FailPlan(op["cli"])]
      /\ UNCHANGED <<record, container, world, workloadLock, starts>>
  BY Unfolded DEF StopRefused, IsNext, Kernel
<1> QED BY <1>1, PlanFailsKeeps

LEMMA StopBeginKeeps ==
    ASSUME WorkloadInv, StopBegin
    PROVE  WorkloadInv'
<1>0. PICK s \in {"stopping", "rollback"} : op' = [op EXCEPT !["cli"].rec = record', !["cli"].stage = s]
  BY DEF StopBegin
<1> DEFINE o == op["cli"]
           k == [o.rec EXCEPT !.state = "stopping"]
           r == record'
           v == [[o EXCEPT !.rec = r] EXCEPT !.stage = s]
<1>1. /\ Shared /\ Kernel /\ OpFits("cli", o) /\ OpFits("service", op["service"]) /\ "cli" \in Actors /\ o \in Ops
      /\ "service" \in Actors
  BY Unfolded
<1>2. /\ UNCHANGED <<container, world, workloadLock, starts>> /\ managed' = managed
      /\ o.stage = "next" /\ o.todo # <<>> /\ Head(o.todo) = "stop" /\ workloadLock # "service"
  BY DEF StopBegin, IsNext, world, MayLock
<1>3. o.rec \in Evidence /\ HandedOut(o.rec) /\ Valid(o.rec) /\ container.id \in Nat /\ container.at \in Nat /\ HandedOut(container)
  BY <1>1, FieldsOfOps DEF OpFits, OpTypes, Shared, ContainerFine, Containers
<1>4. k \in Evidence /\ k.state = "stopping" /\ k.id = o.rec.id /\ k.at = o.rec.at /\ Valid(k) /\ k # NoRecord
  BY <1>3, StateSet
<1>5. r = IF container.up THEN [[k EXCEPT !.id = container.id] EXCEPT !.at = container.at] ELSE k
  BY <1>3 DEF StopBegin, Evidence
<1>6. op' = [op EXCEPT !["cli"] = v]
  <2>1. op' = [op EXCEPT !["cli"].rec = r, !["cli"].stage = s]
    BY <1>0
  <2> QED BY <1>1, <2>1 DEF Kernel
<1> HIDE DEF k
<1>7. r \in Evidence /\ r.state = "stopping" /\ HandedOut(r) /\ Valid(r)
  <2>1. CASE ~container.up
    BY <1>3, <1>4, <1>5, <2>1 DEF HandedOut
  <2>2. CASE container.up
    <3> DEFINE m == [k EXCEPT !.id = container.id]
    <3>1. m \in Evidence /\ m.state = "stopping" /\ m.id = container.id /\ m.claimed = k.claimed
          /\ m.handoff = k.handoff /\ m.complete = k.complete
      BY <1>3, <1>4 DEF Evidence
    <3>2. r = [m EXCEPT !.at = container.at]
      BY <1>5, <2>2
    <3> HIDE DEF m
    <3>3. r \in Evidence /\ r.state = "stopping" /\ r.id = container.id /\ r.at = container.at
          /\ r.claimed = k.claimed /\ r.handoff = k.handoff
      BY <1>3, <3>1, <3>2 DEF Evidence
    <3>4. container.id # 0
      BY <1>1, <2>2, NothingFits DEF Shared, ContainerFine
    <3> QED BY <1>3, <1>4, <3>3, <3>4 DEF HandedOut, Valid
  <2> QED BY <2>1, <2>2
<1>8. /\ v \in Ops /\ v.stage = s /\ v.action = o.action /\ v.todo = o.todo /\ v.private = o.private
      /\ v.rec = r /\ v.seen = o.seen /\ v.mine = o.mine /\ v.owned = o.owned
  <2>1. s \in StageNames
    BY <1>0 DEF StageNames
  <2> HIDE DEF r
  <2> QED BY <1>1, <1>7, <2>1 DEF Ops
<1> HIDE DEF v
<1>9. op' \in [Actors -> Ops] /\ op'["cli"] = v /\ op'["service"] = op["service"]
  BY <1>1, <1>6, <1>8, OpReplaced DEF Kernel
<1>10. Shared'
  <2>1. Kernel'
    BY <1>1, <1>2, <1>9, KernelKept DEF Kernel
  <2>2. RecordFine' /\ ContainerFine'
    BY <1>1, <1>2, <1>7 DEF Shared, RecordFine, ContainerFine, HandedOut, Valid
  <2>3. RecordTrue'
    BY <1>7 DEF RecordTrue, DownMeansStopped
  <2> QED BY <2>1, <2>2, <2>3 DEF Shared
<1>11. OpFits("cli", op["cli"])'
  <2>1. OpTypes(op["cli"])'
    BY <1>1, <1>2, <1>7, <1>8, <1>9 DEF OpFits, OpTypes, HandedOut, Valid
  <2>2. LockFits("cli", op["cli"])' /\ RoleFits("cli", op["cli"])' /\ PlanFits("cli", op["cli"])'
    BY <1>1, <1>2, <1>8, <1>9 DEF OpFits, LockFits, RoleFits, PlanFits
  <2>3. FilesFit("cli", op["cli"])'
    BY <1>1, <1>2, <1>8, <1>9 DEF OpFits, FilesFit, Starter, Ahead, world
  <2>4. RecordFits(op["cli"])' /\ AttemptFits(op["cli"])' /\ OwnFits("cli", op["cli"])'
    BY <1>1, <1>2, <1>8, <1>9 DEF OpFits, RecordFits, Starting, AttemptFits, OwnFits
  <2> QED BY <2>1, <2>2, <2>3, <2>4 DEF OpFits
<1>12. OpFits("service", op["service"])'
  <2>1. op["service"].stage \in {"idle", "boot", "ready"}
    BY <1>1, <1>2, ServiceStages
  <2>2. starts' \in Nat /\ starts <= starts'
    BY <1>1, <1>2 DEF Kernel
  <2> QED BY <1>1, <1>2, <1>9, <2>1, <2>2, ServiceAway
<1> QED BY <1>10, <1>11, <1>12, BothFit

\* A plan stops before it starts.
LEMMA PlanComposed ==
    ASSUME NEW p \in Seq(Kinds), NEW q \in Seq(Kinds),
           \A i \in 1..Len(p) : p[i] # "start", \A i \in 1..Len(q) : q[i] # "stop"
    PROVE  LET t == p \o q IN
           /\ t \in Seq(Kinds)
           /\ \A i, j \in 1..Len(t) : t[i] = "start" /\ t[j] = "stop" => j < i
           /\ \A k : (\E i \in 1..Len(p) : p[i] = k) => \E i \in 1..Len(t) : t[i] = k
           /\ (\E i \in 1..Len(t) : t[i] = "start") => q # <<>>
<1> DEFINE t == p \o q
<1>1. t \in Seq(Kinds) /\ Len(t) = Len(p) + Len(q) /\ Len(p) \in Nat /\ Len(q) \in Nat
  OBVIOUS
<1>2. \A i \in 1..Len(t) : t[i] = IF i <= Len(p) THEN p[i] ELSE q[i - Len(p)]
  BY <1>1
<1>3. \A i \in 1..Len(p) : i \in 1..Len(t) /\ t[i] = p[i]
  BY <1>1, <1>2
<1>4. \A i \in 1..Len(t) : t[i] = "start" => i > Len(p) /\ Len(q) # 0
  BY <1>1, <1>2
<1>5. \A i \in 1..Len(t) : t[i] = "stop" => i <= Len(p)
  <2>1. ASSUME NEW i \in 1..Len(t), i > Len(p) PROVE t[i] # "stop"
    <3>1. i - Len(p) \in 1..Len(q) /\ t[i] = q[i - Len(p)]
      BY <1>1, <1>2, <2>1
    <3> QED BY <3>1
  <2> QED BY <1>1, <2>1
<1>6. \A i, j \in 1..Len(t) : t[i] = "start" /\ t[j] = "stop" => j < i
  BY <1>1, <1>4, <1>5
<1>7. \A k : (\E i \in 1..Len(p) : p[i] = k) => \E i \in 1..Len(t) : t[i] = k
  BY <1>3
<1>8. (\E i \in 1..Len(t) : t[i] = "start") => q # <<>>
  BY <1>4
<1> QED BY <1>1, <1>6, <1>7, <1>8

LEMMA PlanParts ==
    /\ \A o : /\ StopPlan(o) \in Seq(Kinds) /\ \A i \in 1..Len(StopPlan(o)) : StopPlan(o)[i] # "start"
              /\ \E i \in 1..Len(StopPlan(o)) : StopPlan(o)[i] = "stop"
    /\ StartPlan("cli") \in Seq(Kinds) /\ \A i \in 1..Len(StartPlan("cli")) : StartPlan("cli")[i] # "stop"
<1>1. ASSUME NEW o
      PROVE  /\ StopPlan(o) \in Seq(Kinds) /\ \A i \in 1..Len(StopPlan(o)) : StopPlan(o)[i] # "start"
             /\ \E i \in 1..Len(StopPlan(o)) : StopPlan(o)[i] = "stop"
  <2>1. StopPlan(o) \in {<<"stop">>, <<"stop", "after_stop">>, <<"before_stop", "stop", "after_stop">>}
    BY DEF StopPlan
  <2>2. CASE StopPlan(o) = <<"stop">>
    BY <2>2 DEF Kinds
  <2>3. CASE StopPlan(o) = <<"stop", "after_stop">>
    <3>1. StopPlan(o) \in Seq(Kinds)
      BY <2>3 DEF Kinds
    <3>2. Len(StopPlan(o)) = 2 /\ StopPlan(o)[1] = "stop" /\ StopPlan(o)[2] = "after_stop"
      BY <2>3
    <3> QED BY <3>1, <3>2
  <2>4. CASE StopPlan(o) = <<"before_stop", "stop", "after_stop">>
    <3>1. StopPlan(o) \in Seq(Kinds)
      BY <2>4 DEF Kinds
    <3>2. /\ Len(StopPlan(o)) = 3 /\ StopPlan(o)[1] = "before_stop" /\ StopPlan(o)[2] = "stop"
          /\ StopPlan(o)[3] = "after_stop"
      BY <2>4
    <3> QED BY <3>1, <3>2
  <2> QED BY <2>1, <2>2, <2>3, <2>4
<1>2. StartPlan("cli") \in Seq(Kinds) /\ \A i \in 1..Len(StartPlan("cli")) : StartPlan("cli")[i] # "stop"
  <2>1. StartPlan("cli") \in {<<"start">>, <<"before_start", "start", "after_start">>}
    BY DEF StartPlan
  <2>2. CASE StartPlan("cli") = <<"start">>
    <3>1. StartPlan("cli") \in Seq(Kinds)
      <4>1. <<"start">> \in Seq(Kinds)
        BY DEF Kinds
      <4> QED BY <2>2, <4>1
    <3>2. Len(StartPlan("cli")) = 1 /\ StartPlan("cli")[1] = "start"
      BY <2>2
    <3> QED BY <3>1, <3>2
  <2>3. CASE StartPlan("cli") = <<"before_start", "start", "after_start">>
    <3>1. StartPlan("cli") \in Seq(Kinds)
      <4>1. <<"before_start", "start", "after_start">> \in Seq(Kinds)
        BY DEF Kinds
      <4> QED BY <2>3, <4>1
    <3>2. /\ Len(StartPlan("cli")) = 3 /\ StartPlan("cli")[1] = "before_start" /\ StartPlan("cli")[2] = "start"
          /\ StartPlan("cli")[3] = "after_start"
      BY <2>3
    <3> QED BY <3>1, <3>2
  <2> QED BY <2>1, <2>2, <2>3
<1> QED BY <1>1, <1>2

LEMMA PrepareCommandKeeps ==
    ASSUME WorkloadInv, PrepareCommand
    PROVE  WorkloadInv'
<1> DEFINE o == op["cli"]
           restart == o.action = "restart" \/ (o.action = "up" /\ o.seen.up /\ o.changed)
           finished == o.action = "up" /\ (o.reused \/ (o.seen.up /\ ~o.changed))
           p == IF o.action = "down" \/ restart THEN StopPlan(o) ELSE <<>>
           q == IF o.action = "down" THEN <<>> ELSE StartPlan("cli")
           t == p \o q
           v == [[[[o EXCEPT !.stage = "next"] EXCEPT !.todo = t] EXCEPT !.reused = FALSE] EXCEPT !.changed = FALSE]
<1>1. /\ Shared /\ Kernel /\ OpFits("cli", o) /\ OpFits("service", op["service"]) /\ "cli" \in Actors /\ o \in Ops
      /\ "service" \in Actors
  BY Unfolded
<1>2. /\ UNCHANGED <<record, container, wanted, envPresent, managed, workloadLock, starts>>
      /\ o.stage = "prepare" /\ workloadLock # "service"
  BY DEF PrepareCommand, MayLock
<1>3. \/ finished /\ op' = [op EXCEPT !["cli"] = IdleOp]
      \/ ~finished /\ op' = [op EXCEPT !["cli"] = v]
  <2>1. [op EXCEPT !["cli"].stage = "next", !["cli"].todo = t, !["cli"].reused = FALSE, !["cli"].changed = FALSE]
        = [op EXCEPT !["cli"] = v]
    BY <1>1 DEF Kernel
  <2> QED BY <2>1 DEF PrepareCommand
<1>4. /\ o.private \in BOOLEAN /\ o.reused \in BOOLEAN /\ o.changed \in BOOLEAN /\ o.rec.handoff \in BOOLEAN
      /\ o.action \in {"up", "down", "restart"} /\ files \in Inputs /\ wanted \in Runtimes
  BY <1>1, FieldsOfOps DEF Evidence, Kernel
<1>5. /\ files' = IF o.private /\ (o.action = "restart" \/ ~o.reused) THEN [files EXCEPT !.private = TRUE]
                  ELSE IF o.action = "up" /\ o.reused THEN [files EXCEPT !.private = o.rec.handoff]
                  ELSE files
  BY DEF PrepareCommand
<1>6. files' \in Inputs
  <2>1. ASSUME NEW x \in BOOLEAN PROVE [files EXCEPT !.private = x] \in Inputs
    BY <1>4 DEF Inputs
  <2>2. [files EXCEPT !.private = TRUE] \in Inputs /\ [files EXCEPT !.private = o.rec.handoff] \in Inputs
    BY <1>4, <2>1
  <2> QED BY <1>4, <1>5, <2>2
<1>7. ASSUME NEW w \in Ops, op' = [op EXCEPT !["cli"] = w]
      PROVE  op'["cli"] = w /\ (OpFits("cli", op["cli"])' => WorkloadInv')
  <2>1. op' \in [Actors -> Ops] /\ op'["cli"] = w /\ op'["service"] = op["service"]
    BY <1>1, <1>7, OpReplaced DEF Kernel
  <2>2. Kernel'
    BY <1>1, <1>2, <1>6, <2>1 DEF Kernel
  <2>3. Shared'
    BY <1>1, <1>2, <2>2, SharedKept
  <2>4. OpFits("service", op["service"])'
    <3>1. op["service"].stage \in {"idle", "boot", "ready"}
      BY <1>1, <1>2, ServiceStages
    <3>2. starts' \in Nat /\ starts <= starts'
      BY <1>1, <1>2 DEF Kernel
    <3> QED BY <1>1, <1>2, <2>1, <3>1, <3>2, ServiceAway
  <2> QED BY <2>1, <2>3, <2>4, BothFit
<1>8. CASE finished /\ op' = [op EXCEPT !["cli"] = IdleOp]
  <2>1. op'["cli"] = IdleOp /\ (OpFits("cli", op["cli"])' => WorkloadInv')
    BY <1>7, <1>8, NothingFits
  <2>2. starts' \in Nat
    BY <1>1, <1>2 DEF Kernel
  <2> QED BY <1>1, <2>1, <2>2, AtRest
<1>9. CASE ~finished /\ op' = [op EXCEPT !["cli"] = v]
  <2>1. /\ t \in Seq(Kinds) /\ \A i, j \in 1..Len(t) : t[i] = "start" /\ t[j] = "stop" => j < i
        /\ (o.action = "down" \/ restart) => \E i \in 1..Len(t) : t[i] = "stop"
        /\ (\E i \in 1..Len(t) : t[i] = "start") => o.action # "down"
    <3>1. p \in Seq(Kinds) /\ (\A i \in 1..Len(p) : p[i] # "start")
          /\ ((o.action = "down" \/ restart) => \E i \in 1..Len(p) : p[i] = "stop")
      BY PlanParts
    <3>2. q \in Seq(Kinds) /\ (\A i \in 1..Len(q) : q[i] # "stop") /\ (q # <<>> => o.action # "down")
      BY PlanParts
    <3> HIDE DEF p, q
    <3> QED BY <3>1, <3>2, PlanComposed
  <2>2. /\ v \in Ops /\ v.stage = "next" /\ v.action = o.action /\ v.todo = t /\ v.private = o.private
        /\ v.rec = o.rec /\ v.seen = o.seen /\ v.mine = o.mine /\ v.owned = o.owned
    <3>1. "next" \in StageNames
      BY DEF StageNames
    <3> HIDE DEF t
    <3> QED BY <1>1, <2>1, <3>1 DEF Ops
  <2>3. op'["cli"] = v /\ (OpFits("cli", op["cli"])' => WorkloadInv')
    BY <1>7, <1>9, <2>2
  <2> HIDE DEF v, t, restart
  <2>4. OpTypes(op["cli"])'
    BY <1>1, <1>2, <2>2, <2>3 DEF OpFits, OpTypes, HandedOut
  <2>5. \A i, j \in 1..Len(op'["cli"].todo) : op'["cli"].todo[i] = "start" /\ op'["cli"].todo[j] = "stop" => j < i
    BY <2>1, <2>2, <2>3
  <2>6. ASSUME Starter("cli")', Ahead(op'["cli"], "start") PROVE files' = [runtime |-> wanted', private |-> op'["cli"].private]
    <3>1. files = [runtime |-> wanted, private |-> FALSE]
      BY <1>1, <1>2, <2>6 DEF OpFits, FilesFit, Starter
    <3>2. o.action # "down"
      BY <2>1, <2>2, <2>3, <2>6 DEF Ahead
    <3>3. CASE o.private /\ (o.action = "restart" \/ ~o.reused)
      <4>1. files' = [files EXCEPT !.private = TRUE] /\ o.private = TRUE
        BY <1>4, <1>5, <3>3
      <4>2. files' = [runtime |-> wanted, private |-> TRUE]
        BY <3>1, <4>1
      <4> QED BY <1>2, <2>2, <2>3, <4>1, <4>2
    <3>4. CASE ~(o.private /\ (o.action = "restart" \/ ~o.reused))
      <4>1. ~(o.action = "up" /\ o.reused)
        BY <1>9
      <4>2. o.private = FALSE
        BY <1>4, <3>2, <3>4, <4>1
      <4>3. files' = files
        BY <1>5, <3>4, <4>1
      <4> QED BY <1>2, <2>2, <2>3, <3>1, <4>2, <4>3
    <3> QED BY <3>3, <3>4
  <2>7. ASSUME Starting(op["cli"])' PROVE Fits(record)'
    <3>1. o.action # "down" /\ ~restart
      BY <2>1, <2>2, <2>3, <2>7 DEF Starting, Ahead
    <3>2. ~o.seen.up
      BY <1>4, <1>9, <3>1 DEF restart
    <3>3. Fits(record)
      BY <1>1, <1>2, <3>2 DEF OpFits, RecordFits, Starting
    <3> QED BY <1>2, <3>3 DEF Fits, SameProcess
  <2>8. (op'["cli"].owned => op'["cli"].mine.id # 0) /\ OwnFits("cli", op["cli"])'
    BY <1>1, <1>2, <2>2, <2>3 DEF OpFits, AttemptFits, OwnFits
  <2>9. OpFits("cli", op["cli"])'
    BY <1>1, <2>2, <2>3, <2>4, <2>5, <2>6, <2>7, <2>8, InNext
  <2> QED BY <2>3, <2>9
<1> QED BY <1>3, <1>8, <1>9

-----------------------------------------------------------------------------
(* Starting                                                                 *)

\* A step under the operation lock that may change record and container.
LEMMA LoudStep ==
    ASSUME WorkloadInv, NEW a \in Actors, NEW v \in Ops, op' = [op EXCEPT ![a] = v],
           op[a].stage \notin {"idle", "boot", "ready"},
           workloadLock \in {"free", a}, workloadLock' \in {"free", a}, UNCHANGED world,
           starts' \in Nat, starts <= starts', starts' <= MaxStarts,
           RecordFine', ContainerFine', RecordTrue',
           a = "service" /\ Starting(op["cli"]) => Fits(record)',
           \A r \in Evidence : HandedOut(r) /\ r.id # 0 /\ Earned(r) => Earned(r)'
    PROVE  /\ op'[a] = v
           /\ OpFits(a, op[a])' => WorkloadInv'
<1>1. /\ Shared /\ Kernel /\ OpFits("cli", op["cli"]) /\ OpFits("service", op["service"])
      /\ "cli" \in Actors /\ "service" \in Actors /\ op["cli"] \in Ops
  BY Unfolded
<1>2. op' \in [Actors -> Ops] /\ op'[a] = v /\ \A b \in Actors : b # a => op'[b] = op[b]
  BY <1>1, OpReplaced DEF Kernel
<1>3. Shared'
  <2>1. Kernel'
    BY <1>1, <1>2 DEF Kernel, world
  <2> QED BY <2>1 DEF Shared
<1>4. managed' = managed
  BY DEF world
<1>5. CASE a = "cli"
  <2>1. op["service"].stage \in {"idle", "boot", "ready"}
    BY <1>1, <1>5, ServiceStages
  <2>2. OpFits("service", op["service"])'
    BY <1>1, <1>2, <1>4, <1>5, <2>1, ServiceAway
  <2> QED BY <1>2, <1>3, <1>5, <2>2, BothFit
<1>6. CASE a = "service"
  <2>1. managed
    BY <1>1, <1>6, ServiceStages
  <2>2. ASSUME op["cli"].stage = "commit" PROVE Earned(op["cli"].rec)'
    <3>1. op["cli"].rec \in Evidence /\ HandedOut(op["cli"].rec) /\ op["cli"].rec.id # 0 /\ Earned(op["cli"].rec)
      BY <1>1, <2>2, FieldsOfOps DEF OpFits, OpTypes, AttemptFits
    <3>2. op'["cli"].rec = op["cli"].rec
      BY <1>1, <1>2, <1>6
    <3>3. PICK x \in Evidence : x = op["cli"].rec
      BY <3>1
    <3>4. Earned(x)'
      BY <3>1, <3>3
    <3> QED BY <3>2, <3>3, <3>4 DEF Earned, SameProcess
  <2>3. OpFits("cli", op["cli"])'
    BY <1>1, <1>2, <1>4, <1>6, <2>1, <2>2, CommandAway
  <2> QED BY <1>2, <1>3, <1>6, <2>3, BothFit
<1> QED BY <1>5, <1>6 DEF Actors

LEMMA StartBeginKeeps ==
    ASSUME WorkloadInv, NEW a \in Actors, StartBegin(a)
    PROVE  WorkloadInv'
<1> DEFINE o == op[a]
<1>1. /\ Shared /\ Kernel /\ OpFits(a, o) /\ o \in Ops
  BY Unfolded
<1>2. /\ UNCHANGED <<world, starts>> /\ o.stage = "next" /\ o.todo # <<>> /\ Head(o.todo) = "start"
      /\ ~(a = "cli" /\ managed) /\ workloadLock \in {"free", a}
  BY DEF StartBegin, IsNext, MayLock
<1>3. CASE container.up
  <2>1. /\ UNCHANGED <<record, container, workloadLock>>
        /\ op' = [op EXCEPT ![a] = AdvancePlan(op[a])] \/ op' = [op EXCEPT ![a] = FailPlan(op[a])]
    BY <1>3 DEF StartBegin
  <2> QED BY <1>2, <1>3, <2>1, PlanFailsKeeps, PlanAdvancesKeeps
<1>4. CASE ~container.up
  <2> DEFINE mine == Inspect(container')
             v == [[o EXCEPT !.stage = "launch"] EXCEPT !.mine = mine]
  <2>1. /\ container' \in {NoContainer, container} /\ record' = StartingRecord(wanted) /\ workloadLock' = a
    BY <1>4 DEF StartBegin
  <2>2. op' = [op EXCEPT ![a] = v]
    <3>1. op' = [op EXCEPT ![a].stage = "launch", ![a].mine = mine]
      BY <1>4 DEF StartBegin
    <3> QED BY <1>1, <3>1 DEF Kernel
  <2>3. /\ RecordFine' /\ record'.id = 0 /\ record'.state = "starting"
    <3>1. record' \in Evidence /\ Valid(record') /\ record'.id = 0
      BY <1>1, <2>1, NothingFits DEF Kernel
    <3>2. record'.at = 0 /\ record'.state = "starting"
      BY <2>1 DEF StartingRecord
    <3> QED BY <1>1, <1>2, <3>1, <3>2 DEF RecordFine, HandedOut, Valid, Kernel
  <2>4. ContainerFine' /\ ~container'.up
    BY <1>1, <1>2, <1>4, <2>1, NothingFits DEF Shared, ContainerFine, HandedOut, Kernel
  <2>5. RecordTrue'
    BY <2>3 DEF RecordTrue, DownMeansStopped
  <2>6. mine \in Views /\ mine.up = container'.up /\ mine.id = container'.id /\ mine.at = container'.at
    BY <2>4 DEF ContainerFine, Containers, Views, Inspect
  <2>7. /\ v \in Ops /\ v.stage = "launch" /\ v.action = o.action /\ v.todo = o.todo /\ v.private = o.private
        /\ v.rec = o.rec /\ v.seen = o.seen /\ v.mine = mine
    <3>1. "launch" \in StageNames
      BY DEF StageNames
    <3> HIDE DEF mine
    <3> QED BY <1>1, <2>6, <3>1 DEF Ops
  <2> HIDE DEF mine, v
  <2>8. Fits(record)'
    BY <2>4 DEF Fits
  <2>9. ASSUME NEW r \in Evidence, r.id # 0, Earned(r) PROVE Earned(r)'
    BY <2>1, <2>9, NothingFits DEF Earned, SameProcess
  <2>10. op'[a] = v /\ (OpFits(a, op[a])' => WorkloadInv')
    <3>1. starts' \in Nat /\ starts <= starts' /\ starts' <= MaxStarts
      BY <1>1, <1>2 DEF Kernel
    <3> QED BY <1>2, <2>1, <2>2, <2>3, <2>4, <2>5, <2>7, <2>8, <2>9, <3>1, LoudStep
  <2>11. OpTypes(op[a])'
    BY <1>1, <1>2, <2>4, <2>6, <2>7, <2>10 DEF OpFits, OpTypes, HandedOut, ContainerFine
  <2>12. LockFits(a, op[a])' /\ RoleFits(a, op[a])' /\ PlanFits(a, op[a])'
    BY <1>1, <1>2, <2>1, <2>7, <2>10 DEF OpFits, LockFits, RoleFits, PlanFits, Ahead, world
  <2>13. FilesFit(a, op[a])'
    <3>1. Ahead(o, "start")
      BY <1>1, <1>2, FieldsOfOps DEF Ahead
    <3> QED BY <1>1, <1>2, <2>7, <2>10, <3>1 DEF OpFits, FilesFit, Starter, world
  <2>14. RecordFits(op[a])' /\ OwnFits(a, op[a])'
    BY <2>7, <2>8, <2>10 DEF RecordFits, OwnFits
  <2>15. AttemptFits(op[a])'
    BY <1>2, <2>1, <2>4, <2>6, <2>7, <2>10 DEF AttemptFits, NewProcess, SameProcess, world
  <2> QED BY <2>10, <2>11, <2>12, <2>13, <2>14, <2>15 DEF OpFits
<1> QED BY <1>3, <1>4

LEMMA ComposeUpKeeps ==
    ASSUME WorkloadInv, NEW a \in Actors, ComposeUp(a)
    PROVE  WorkloadInv'
<1> DEFINE o == op[a]
<1>1. /\ Shared /\ Kernel /\ OpFits(a, o) /\ o \in Ops
  BY Unfolded
<1>2. /\ UNCHANGED <<record, world, workloadLock>> /\ o.stage = "launch" /\ workloadLock = a
      /\ record = StartingRecord(wanted) /\ Starter(a)
      /\ files = [runtime |-> wanted, private |-> o.private] /\ NewProcess(o) /\ ~o.mine.up
  <2>1. UNCHANGED <<record, world, workloadLock>> /\ o.stage = "launch"
    BY DEF ComposeUp
  <2>2. Starter(a)
    BY <1>1, <2>1 DEF OpFits, RoleFits, Starter, Actors
  <2> QED BY <1>1, <2>1, <2>2 DEF OpFits, LockFits, FilesFit, AttemptFits, Actors
<1>3. record.id = 0 /\ record.at = 0 /\ record.state = "starting"
  BY <1>2 DEF StartingRecord
<1>4. PICK f \in BOOLEAN :
        /\ op' = [op EXCEPT ![a] = [[o EXCEPT !.stage = "look"] EXCEPT !.failed = f]]
        /\ \/ UNCHANGED <<container, starts>> /\ (~f => container.made = files)
           \/ /\ starts < MaxStarts /\ starts' = starts + 1
              /\ container' = Started(container.id # 0 /\ container.made = files, files)
  <2>1. \E f \in BOOLEAN :
        /\ op' = [op EXCEPT ![a].stage = "look", ![a].failed = f]
        /\ \/ UNCHANGED <<container, starts>> /\ (~f => container.made = files)
           \/ /\ starts < MaxStarts /\ starts' = starts + 1
              /\ container' = Started(container.id # 0 /\ container.made = files, files)
    BY DEF ComposeUp
  <2>2. \A f \in BOOLEAN : [op EXCEPT ![a].stage = "look", ![a].failed = f]
                           = [op EXCEPT ![a] = [[o EXCEPT !.stage = "look"] EXCEPT !.failed = f]]
    BY <1>1 DEF Kernel
  <2> QED BY <2>1, <2>2
<1> DEFINE v == [[o EXCEPT !.stage = "look"] EXCEPT !.failed = f]
           fresh == /\ container'.at = starts + 1 /\ container'.id # 0 /\ container'.made = files
                    /\ container'.got = 0 /\ container'.live = FALSE /\ starts' = starts + 1
           same == UNCHANGED <<container, starts>> /\ (~f => container.made = files)
<1>5. /\ v \in Ops /\ v.stage = "look" /\ v.action = o.action /\ v.todo = o.todo /\ v.private = o.private
      /\ v.rec = o.rec /\ v.seen = o.seen /\ v.mine = o.mine /\ v.failed = f
  <2>1. "look" \in StageNames
    BY DEF StageNames
  <2> QED BY <1>1, <2>1 DEF Ops
<1> HIDE DEF v
<1>6. starts \in Nat /\ starts' \in Nat /\ starts <= starts' /\ starts' <= MaxStarts
  BY <1>1, <1>4, WorkloadBounds DEF Kernel
<1>7. ContainerFine' /\ (same \/ fresh)
  <2>1. CASE same
    BY <1>1, <2>1 DEF Shared, ContainerFine, HandedOut
  <2>2. CASE /\ starts' = starts + 1 /\ container' = Started(container.id # 0 /\ container.made = files, files)
    <3>1. container.id \in Nat /\ container.id <= starts /\ files \in Inputs
      BY <1>1 DEF Shared, ContainerFine, Containers, HandedOut, Kernel
    <3>2. /\ container'.id \in {container.id, starts + 1} /\ container'.id # 0
          /\ container'.at = starts + 1 /\ container'.made = files /\ container'.got = 0 /\ container'.live = FALSE
      BY <1>6, <2>2, <3>1 DEF Started
    <3>3. container' \in Containers
      BY <1>6, <2>2, <3>1 DEF Started, Containers
    <3> QED BY <1>6, <2>2, <3>1, <3>2, <3>3 DEF ContainerFine, HandedOut
  <2> QED BY <1>4, <2>1, <2>2
<1>8. RecordFine' /\ RecordTrue'
  BY <1>1, <1>2, <1>3, <1>6 DEF Shared, RecordFine, HandedOut, RecordTrue, DownMeansStopped
<1>9. Fits(record)'
  <2>1. CASE container'.id # 0
    BY <1>2, <1>3, <2>1 DEF Fits, SameProcess
  <2>2. CASE container'.id = 0
    BY <1>7, <2>2, NothingFits DEF Fits, ContainerFine
  <2> QED BY <2>1, <2>2
<1>10. ASSUME NEW r \in Evidence, HandedOut(r), Earned(r) PROVE Earned(r)'
  <2>1. CASE same
    BY <1>10, <2>1 DEF Earned, SameProcess
  <2>2. CASE fresh
    <3>1. r.at \in Nat /\ r.at <= starts
      BY <1>10 DEF HandedOut, Evidence
    <3> QED BY <1>6, <2>2, <3>1 DEF Earned, SameProcess
  <2> QED BY <1>7, <2>1, <2>2
<1>11. op'[a] = v /\ (OpFits(a, op[a])' => WorkloadInv')
  BY <1>2, <1>4, <1>5, <1>6, <1>7, <1>8, <1>9, <1>10, LoudStep DEF v
<1>12. OpTypes(op[a])'
  <2>1. o.rec \in Evidence /\ o.seen \in Views /\ o.mine \in Views
    BY <1>1, FieldsOfOps
  <2>2. o.rec.id \in Nat /\ o.rec.at \in Nat /\ o.seen.id \in Nat /\ o.seen.at \in Nat /\ o.mine.id \in Nat /\ o.mine.at \in Nat
    BY <2>1 DEF Evidence, Views
  <2> QED BY <1>1, <1>5, <1>6, <1>11, <2>2 DEF OpFits, OpTypes, HandedOut
<1>13. LockFits(a, op[a])' /\ RoleFits(a, op[a])' /\ PlanFits(a, op[a])'
  BY <1>1, <1>2, <1>5, <1>11 DEF OpFits, LockFits, RoleFits, PlanFits, Ahead, world
<1>14. FilesFit(a, op[a])' /\ RecordFits(op[a])' /\ OwnFits(a, op[a])'
  BY <1>2, <1>5, <1>9, <1>11 DEF FilesFit, RecordFits, OwnFits, world
<1>15. AttemptFits(op[a])'
  <2>1. NewProcess(op[a])' /\ (~f => container'.made = files')
    <3>1. CASE same
      BY <1>2, <1>5, <1>11, <3>1 DEF NewProcess, SameProcess, world
    <3>2. CASE fresh
      BY <1>2, <1>5, <1>11, <3>2 DEF NewProcess, world
    <3> QED BY <1>7, <3>1, <3>2
  <2> QED BY <1>2, <1>5, <1>11, <2>1 DEF AttemptFits, world
<1> QED BY <1>11, <1>12, <1>13, <1>14, <1>15 DEF OpFits

LEMMA LookAfterStartKeeps ==
    ASSUME WorkloadInv, NEW a \in Actors, LookAfterStart(a)
    PROVE  WorkloadInv'
<1> DEFINE o == op[a]
           own == container.id # 0 /\ (container.id # o.mine.id \/ (~o.mine.up /\ container.at # o.mine.at))
           claim == [StartingRecord(wanted) EXCEPT !.id = container.id, !.at = container.at, !.claimed = o.private]
           mine == Inspect(container)
<1>1. /\ Shared /\ Kernel /\ OpFits(a, o) /\ o \in Ops
  BY Unfolded
<1>2. /\ UNCHANGED <<container, world, workloadLock, starts>> /\ o.stage = "look" /\ workloadLock = a
      /\ record = StartingRecord(wanted) /\ Starter(a)
      /\ files = [runtime |-> wanted, private |-> o.private] /\ NewProcess(o) /\ ~o.mine.up
      /\ ~o.failed => container.made = files
  <2>1. UNCHANGED <<container, world, workloadLock, starts>> /\ o.stage = "look"
    BY DEF LookAfterStart
  <2>2. Starter(a)
    BY <1>1, <2>1 DEF OpFits, RoleFits, Starter, Actors
  <2> QED BY <1>1, <2>1, <2>2 DEF OpFits, LockFits, FilesFit, AttemptFits, Actors
<1>3. record.id = 0 /\ record.at = 0 /\ record.state = "starting" /\ record # NoRecord
  BY <1>2, NothingFits DEF StartingRecord
<1>4. /\ container.id \in Nat /\ container.at \in Nat /\ HandedOut(container) /\ container \in Containers
      /\ o.private \in BOOLEAN /\ wanted \in Runtimes /\ starts \in Nat
      /\ mine \in Views /\ mine.id = container.id /\ mine.at = container.at
  BY <1>1, FieldsOfOps DEF Shared, ContainerFine, Containers, Kernel, Views, Inspect
<1>5. own => ~SameProcess(o.mine, container)
  BY DEF SameProcess
<1>6. own => /\ container.got = 0 /\ (container.made.private => ~container.live)
             /\ container.hand \/ container.made.runtime = wanted
  BY <1>2, <1>5 DEF NewProcess
<1>7. starts' \in Nat /\ starts <= starts' /\ starts' <= MaxStarts
  BY <1>1, <1>2 DEF Kernel
<1>8. ASSUME NEW r \in Evidence, Earned(r) PROVE Earned(r)'
  BY <1>2, <1>8 DEF Earned, SameProcess
<1>9. ContainerFine'
  BY <1>1, <1>2 DEF Shared, ContainerFine, HandedOut
<1>10. ASSUME NEW v \in Ops, op' = [op EXCEPT ![a] = v], RecordFine', record'.state = "starting", Fits(record)'
       PROVE  op'[a] = v /\ (OpFits(a, op[a])' => WorkloadInv')
  <2>1. RecordTrue'
    BY <1>10 DEF RecordTrue, DownMeansStopped
  <2> QED BY <1>2, <1>7, <1>8, <1>9, <1>10, <2>1, LoudStep
<1>11. ASSUME record' = record PROVE RecordFine' /\ record'.state = "starting" /\ Fits(record)'
  <2>1. RecordFine' /\ record'.state = "starting"
    BY <1>1, <1>2, <1>3, <1>11 DEF Shared, RecordFine, HandedOut
  <2>2. CASE container.id # 0
    BY <1>2, <1>3, <1>11, <2>1, <2>2 DEF Fits, SameProcess
  <2>3. CASE container.id = 0
    <3>1. ~container.up
      BY <1>1, <2>3, NothingFits DEF Shared, ContainerFine
    <3> QED BY <1>2, <2>1, <3>1 DEF Fits
  <2> QED BY <2>1, <2>2, <2>3
<1>12. CASE /\ ~o.failed /\ container.up /\ own
            /\ record' = IF o.private THEN claim ELSE record
            /\ op' = [op EXCEPT ![a].stage = IF o.private THEN "inject" ELSE "prove",
                              ![a].mine = mine, ![a].owned = TRUE, ![a].rec = claim,
                              ![a].seen = Inspect(NoContainer)]
  <2> DEFINE s == IF o.private THEN "inject" ELSE "prove"
             n == Inspect(NoContainer)
             v == [o EXCEPT !.stage = s, !.mine = mine, !.owned = TRUE, !.rec = claim, !.seen = n]
  <2>1. /\ claim \in Evidence /\ claim.state = "starting" /\ claim.runtime = wanted /\ claim.id = container.id
        /\ claim.at = container.at /\ claim.claimed = o.private /\ ~claim.handoff /\ Valid(claim) /\ claim # NoRecord
    <3> DEFINE b == StartingRecord(wanted)
    <3>1. b \in Evidence /\ b.state = "starting" /\ b.runtime = wanted /\ b.handoff = FALSE
      BY <1>4 DEF StartingRecord, Evidence
    <3>2. claim = [b EXCEPT !.id = container.id, !.at = container.at, !.claimed = o.private]
      OBVIOUS
    <3> HIDE DEF b, claim
    <3>3. /\ claim \in Evidence /\ claim.state = "starting" /\ claim.runtime = wanted /\ claim.id = container.id
          /\ claim.at = container.at /\ claim.claimed = o.private /\ claim.handoff = FALSE
      BY <1>4, <3>1, <3>2 DEF Evidence
    <3>4. container.id # 0
      BY <1>12
    <3>5. Valid(claim) /\ claim # NoRecord
      BY <3>3, <3>4, NothingFits DEF Valid
    <3> QED BY <3>3, <3>5
  <2>2. n \in Views /\ n.id = 0 /\ n.at = 0 /\ s \in StageNames
    BY NothingFits DEF StageNames, Inspect, NoContainer
  <2>3. op' = [op EXCEPT ![a] = v]
    BY <1>1, <1>12 DEF Kernel
  <2>4. claim = [StartingRecord(wanted) EXCEPT !.id = mine.id, !.at = mine.at, !.claimed = o.private]
    BY <1>4
  <2> HIDE DEF claim, mine, n, s
  <2>5. /\ v \in Ops /\ v.stage = s /\ v.action = o.action /\ v.todo = o.todo /\ v.private = o.private
        /\ v.rec = claim /\ v.seen = n /\ v.mine = mine /\ v.owned = TRUE
    BY <1>1, <1>4, <2>1, <2>2 DEF Ops
  <2> HIDE DEF v
  <2>6. RecordFine' /\ record'.state = "starting" /\ Fits(record)'
    <3>1. CASE o.private
      <4>1. record' = claim
        BY <1>12, <3>1
      <4>2. RecordFine'
        BY <1>2, <1>4, <2>1, <4>1 DEF RecordFine, HandedOut, Valid
      <4>3. container.made.private /\ ~container.live
        BY <1>2, <1>6, <1>12, <3>1
      <4>4. Fits(record)'
        BY <1>2, <1>6, <1>12, <2>1, <4>1, <4>3 DEF Fits, SameProcess, world
      <4> QED BY <2>1, <4>1, <4>2, <4>4
    <3>2. CASE ~o.private
      BY <1>11, <1>12, <3>2
    <3> QED BY <3>1, <3>2
  <2>7. op'[a] = v /\ (OpFits(a, op[a])' => WorkloadInv')
    BY <1>10, <2>3, <2>5, <2>6
  <2>8. OpTypes(op[a])'
    BY <1>2, <1>4, <2>1, <2>2, <2>5, <2>7 DEF OpTypes, HandedOut, Valid
  <2>9. LockFits(a, op[a])' /\ RoleFits(a, op[a])' /\ PlanFits(a, op[a])'
    <3>1. s \in {"inject", "prove"}
      BY DEF s
    <3> QED BY <1>1, <1>2, <2>5, <2>7, <3>1 DEF OpFits, LockFits, RoleFits, PlanFits, Ahead, world
  <2>10. FilesFit(a, op[a])' /\ RecordFits(op[a])'
    <3>1. s \in {"inject", "prove"}
      BY DEF s
    <3> QED BY <1>2, <2>5, <2>6, <2>7, <3>1 DEF FilesFit, RecordFits, world
  <2>11. OwnMade(op[a])'
    BY <1>2, <1>6, <1>12, <2>5, <2>7 DEF OwnMade, world
  <2>12. AttemptFits(op[a])'
    <3>1. op'[a].rec = Claim(op[a])'
      BY <1>2, <2>4, <2>5, <2>7 DEF Claim, world
    <3>2. CASE o.private
      <4>1. op'[a].stage = "inject" /\ record' = claim /\ op'[a].private
        BY <1>12, <2>5, <2>7, <3>2 DEF s
      <4> QED BY <1>2, <1>4, <1>6, <1>12, <2>5, <2>7, <2>11, <3>1, <4>1 DEF AttemptFits
    <3>3. CASE ~o.private
      <4>1. op'[a].stage = "prove" /\ record' = record /\ ~op'[a].private /\ wanted' = wanted
        BY <1>2, <1>12, <2>5, <2>7, <3>3 DEF s, world
      <4> QED BY <1>2, <1>4, <1>12, <2>5, <2>7, <2>11, <3>1, <4>1 DEF AttemptFits
    <3> QED BY <3>2, <3>3
  <2>13. OwnFits(a, op[a])'
    <3>1. record' # NoRecord /\ (record'.id = 0 \/ SameProcess(record', mine))
      BY <1>3, <1>4, <1>12, <2>1 DEF SameProcess
    <3>2. s \notin {"idle", "boot", "ready"}
      BY DEF s
    <3> QED BY <2>5, <2>7, <2>11, <3>1, <3>2 DEF OwnFits, SameProcess
  <2> QED BY <2>7, <2>8, <2>9, <2>10, <2>12, <2>13 DEF OpFits
<1>13. CASE /\ op' = [op EXCEPT ![a].stage = IF a = "service" THEN "rollback" ELSE "cleanup",
                              ![a].mine = mine, ![a].owned = own, ![a].rec = StartingRecord(wanted)]
            /\ record' = record
  <2> DEFINE s == IF a = "service" THEN "rollback" ELSE "cleanup"
             c == StartingRecord(wanted)
             v == [o EXCEPT !.stage = s, !.mine = mine, !.owned = own, !.rec = c]
  <2>1. c \in Evidence /\ Valid(c) /\ c.id = 0 /\ c.at = 0 /\ s \in StageNames /\ own \in BOOLEAN
    <3>1. c \in Evidence /\ Valid(c) /\ c.id = 0
      BY <1>4, NothingFits
    <3>2. c.at = 0
      BY DEF StartingRecord
    <3> QED BY <3>1, <3>2 DEF StageNames
  <2>2. op' = [op EXCEPT ![a] = v]
    BY <1>1, <1>13 DEF Kernel
  <2> HIDE DEF c, mine, s, own
  <2>3. /\ v \in Ops /\ v.stage = s /\ v.action = o.action /\ v.todo = o.todo /\ v.private = o.private
        /\ v.rec = c /\ v.seen = o.seen /\ v.mine = mine /\ v.owned = own
    BY <1>1, <1>4, <2>1 DEF Ops
  <2> HIDE DEF v
  <2>4. op'[a] = v /\ (OpFits(a, op[a])' => WorkloadInv')
    BY <1>10, <1>11, <1>13, <2>2, <2>3
  <2>5. OpTypes(op[a])'
    BY <1>1, <1>2, <1>4, <2>1, <2>3, <2>4 DEF OpFits, OpTypes, HandedOut, Valid
  <2>6. op'[a].owned => op'[a].mine.id # 0
    BY <1>4, <2>3, <2>4 DEF own
  <2>7. CASE a = "cli"
    <3>1. op'["cli"].stage = "cleanup" /\ UNCHANGED <<files, wanted, managed>>
      BY <1>2, <2>3, <2>4, <2>7 DEF s, world
    <3>2. OpFits(a, op[a])'
      BY <1>1, <1>2, <2>3, <2>4, <2>5, <2>6, <2>7, <3>1, InCleanup
    <3> QED BY <2>4, <3>2
  <2>8. CASE a = "service"
    <3>1. op'[a].stage = "rollback"
      BY <2>3, <2>4, <2>8 DEF s
    <3>2. OwnMade(op[a])' \/ ~op'[a].owned
      BY <1>2, <1>6, <2>3, <2>4 DEF OwnMade, world
    <3>3. OwnFits(a, op[a])'
      BY <1>3, <1>13, <3>1, <3>2 DEF OwnFits
    <3>4. managed' /\ workloadLock' = "service" /\ op'[a].action # "down"
      BY <1>1, <1>2, <2>3, <2>4, <2>8, ServiceAtWork DEF world
    <3>5. OpFits(a, op[a])'
      BY <1>1, <2>3, <2>4, <2>5, <2>6, <3>1, <3>3, <3>4, InRollback DEF OpFits
    <3> QED BY <2>4, <3>5
  <2> QED BY <2>7, <2>8 DEF Actors
<1>14. CASE op' = [op EXCEPT ![a].stage = "rollback", ![a].owned = FALSE] /\ record' = record
  <2> DEFINE v == [o EXCEPT !.stage = "rollback", !.owned = FALSE]
  <2>1. op' = [op EXCEPT ![a] = v]
    BY <1>1, <1>14 DEF Kernel
  <2>2. /\ v \in Ops /\ v.stage = "rollback" /\ v.action = o.action /\ v.todo = o.todo
        /\ v.rec = o.rec /\ v.seen = o.seen /\ v.mine = o.mine /\ v.owned = FALSE
    <3>1. "rollback" \in StageNames
      BY DEF StageNames
    <3> QED BY <1>1, <3>1 DEF Ops
  <2> HIDE DEF v
  <2>3. op'[a] = v /\ (OpFits(a, op[a])' => WorkloadInv')
    BY <1>10, <1>11, <1>14, <2>1, <2>2
  <2>4. OpTypes(op[a])'
    BY <1>1, <1>2, <2>2, <2>3 DEF OpFits, OpTypes, HandedOut
  <2>5. a = "service" => managed' /\ workloadLock' = "service" /\ op'[a].action # "down"
    BY <1>1, <1>2, <2>2, <2>3, ServiceAtWork DEF world
  <2>6. OwnFits(a, op[a])'
    BY <2>2, <2>3 DEF OwnFits
  <2>7. OpFits(a, op[a])'
    BY <1>1, <2>2, <2>3, <2>4, <2>5, <2>6, InRollback DEF OpFits
  <2> QED BY <2>3, <2>7
<1> QED BY <1>12, <1>13, <1>14 DEF LookAfterStart

LEMMA RetryStaleNetworkKeeps ==
    ASSUME WorkloadInv, RetryStaleNetwork
    PROVE  WorkloadInv'
<1> DEFINE o == op["cli"]
           s == IF container' = NoContainer THEN "next" ELSE "rollback"
           v == [[o EXCEPT !.stage = s] EXCEPT !.retried = TRUE]
<1>1. /\ Shared /\ Kernel /\ OpFits("cli", o) /\ o \in Ops /\ "cli" \in Actors
  BY Unfolded
<1>2. /\ UNCHANGED <<record, world, starts>> /\ o.stage = "cleanup" /\ workloadLock = "cli" /\ workloadLock' = "free"
      /\ container' \in {NoContainer, container} /\ op' = [op EXCEPT !["cli"] = v]
  <2>1. o.stage = "cleanup" /\ UNCHANGED <<record, world, starts>> /\ workloadLock' = "free" /\ container' \in {NoContainer, container}
    BY DEF RetryStaleNetwork, StopOutcomes
  <2>2. op' = [op EXCEPT !["cli"].stage = s, !["cli"].retried = TRUE]
    BY DEF RetryStaleNetwork
  <2> QED BY <1>1, <2>1, <2>2 DEF OpFits, LockFits, Kernel
<1>3. /\ v \in Ops /\ v.stage = s /\ v.action = o.action /\ v.todo = o.todo /\ v.private = o.private
      /\ v.rec = o.rec /\ v.seen = o.seen /\ v.mine = o.mine /\ v.owned = o.owned
  <2>1. s \in StageNames
    BY DEF StageNames
  <2> HIDE DEF s
  <2> QED BY <1>1, <2>1 DEF Ops
<1> HIDE DEF v
<1>4. RecordFine' /\ ContainerFine' /\ RecordTrue'
  <2>1. op' \in [Actors -> Ops] /\ workloadLock' \in Actors \cup {"free"}
    BY <1>1, <1>2, <1>3, OpReplaced DEF Kernel
  <2>2. Kernel'
    BY <1>1, <1>2, <2>1, KernelKept
  <2>3. Shared'
    BY <1>1, <1>2, <2>2, ContainerStops
  <2> QED BY <2>3 DEF Shared
<1>5. ASSUME NEW r \in Evidence, r.id # 0, Earned(r) PROVE Earned(r)'
  BY <1>2, <1>5, NothingFits DEF Earned, SameProcess
<1>6. op'["cli"] = v /\ (OpFits("cli", op["cli"])' => WorkloadInv')
  <2>1. starts' \in Nat /\ starts <= starts' /\ starts' <= MaxStarts
    BY <1>1, <1>2 DEF Kernel
  <2> QED BY <1>1, <1>2, <1>3, <1>4, <1>5, <2>1, LoudStep
<1>7. OpTypes(op["cli"])' /\ OwnFits("cli", op["cli"])' /\ (op'["cli"].owned => op'["cli"].mine.id # 0)
  BY <1>1, <1>2, <1>3, <1>6 DEF OpFits, OpTypes, HandedOut, OwnFits, AttemptFits
<1>8. CASE container' = NoContainer
  <2>1. op'["cli"].stage = "next" /\ op'["cli"].todo = o.todo
    BY <1>3, <1>6, <1>8 DEF s
  <2>2. \A i, j \in 1..Len(op'["cli"].todo) : op'["cli"].todo[i] = "start" /\ op'["cli"].todo[j] = "stop" => j < i
    BY <1>1, <2>1 DEF OpFits, PlanFits
  <2>3. Starter("cli")' => files' = [runtime |-> wanted', private |-> op'["cli"].private]
    BY <1>1, <1>2, <1>3, <1>6 DEF OpFits, FilesFit, Starter, world
  <2>4. Fits(record)'
    BY <1>8, NothingFits DEF Fits
  <2>5. OpFits("cli", op["cli"])'
    BY <1>1, <1>7, <2>1, <2>2, <2>3, <2>4, InNext
  <2> QED BY <1>6, <2>5
<1>9. CASE container' # NoContainer
  <2>1. op'["cli"].stage = "rollback" /\ op'["cli"].todo = op["cli"].todo /\ PlanFits("cli", op["cli"])
    BY <1>1, <1>3, <1>6, <1>9 DEF s, OpFits
  <2>2. OpFits("cli", op["cli"])'
    BY <1>1, <1>7, <2>1, InRollback
  <2> QED BY <1>6, <2>2
<1> QED BY <1>8, <1>9

\* What the attempt claimed.
LEMMA ClaimFields ==
    ASSUME Kernel, NEW o \in Ops, o.rec = Claim(o)
    PROVE  /\ o.rec.id = o.mine.id /\ o.rec.at = o.mine.at /\ o.rec.runtime = wanted /\ o.rec.claimed = o.private
           /\ o.rec.handoff = FALSE /\ o.rec.state = "starting" /\ o.rec # NoRecord
<1> DEFINE b == StartingRecord(wanted)
<1>1. b \in Evidence /\ b.state = "starting" /\ b.runtime = wanted /\ b.handoff = FALSE
  BY DEF StartingRecord, Evidence, Kernel
<1>2. o.rec = [b EXCEPT !.id = o.mine.id, !.at = o.mine.at, !.claimed = o.private]
  BY DEF Claim
<1> HIDE DEF b
<1>3. /\ o.rec.id = o.mine.id /\ o.rec.at = o.mine.at /\ o.rec.runtime = wanted /\ o.rec.claimed = o.private
      /\ o.rec.handoff = FALSE /\ o.rec.state = "starting"
  BY <1>1, <1>2 DEF Evidence
<1> QED BY <1>3, NothingFits

\* An attempt that failed after its process was claimed.
LEMMA AttemptFails ==
    ASSUME WorkloadInv, NEW a \in Actors, NEW s, s = IF a = "service" THEN "rollback" ELSE "cleanup",
           op[a].stage \in {"inject", "prove"}, op' = [op EXCEPT ![a].stage = s],
           UNCHANGED <<record, world, workloadLock, starts>>,
           container'.id = container.id, container'.at = container.at, container'.made = container.made,
           container'.hand = container.hand, ContainerFine', RecordTrue',
           a = "service" /\ Starting(op["cli"]) => Fits(record)',
           \A r \in Evidence : HandedOut(r) /\ r.id # 0 /\ Earned(r) => Earned(r)'
    PROVE  WorkloadInv'
<1> DEFINE o == op[a]
           v == [o EXCEPT !.stage = s]
<1>1. Shared /\ Kernel /\ OpFits(a, o) /\ o \in Ops
  BY Unfolded
<1>2. /\ v \in Ops /\ v.stage = s /\ v.action = o.action /\ v.todo = o.todo /\ v.private = o.private
      /\ v.rec = o.rec /\ v.seen = o.seen /\ v.mine = o.mine /\ v.owned = o.owned
  <2>1. s \in StageNames
    BY DEF StageNames
  <2> QED BY <1>1, <2>1, StageSet
<1>3. workloadLock = a /\ workloadLock' = a
  BY <1>1 DEF OpFits, LockFits, Actors
<1>4. op' = [op EXCEPT ![a] = v]
  BY <1>1 DEF Kernel
<1> HIDE DEF v
<1>5. op'[a] = v /\ (OpFits(a, op[a])' => WorkloadInv')
  <2>1. starts' \in Nat /\ starts <= starts' /\ starts' <= MaxStarts
    BY <1>1 DEF Kernel
  <2>2. RecordFine'
    BY <1>1 DEF Shared, RecordFine, HandedOut
  <2> QED BY <1>2, <1>3, <1>4, <2>1, <2>2, LoudStep
<1>6. OpTypes(op[a])' /\ (op'[a].owned => op'[a].mine.id # 0)
  BY <1>1, <1>2, <1>5 DEF OpFits, OpTypes, HandedOut, AttemptFits
<1>7. CASE a = "cli"
  <2>1. op'["cli"].stage = "cleanup" /\ UNCHANGED <<files, wanted, managed>>
    BY <1>2, <1>5, <1>7 DEF world
  <2>2. OpFits("cli", op["cli"])'
    BY <1>1, <1>2, <1>3, <1>5, <1>6, <1>7, <2>1, InCleanup
  <2> QED BY <1>5, <1>7, <2>2
<1>8. CASE a = "service"
  <2>1. op'[a].stage = "rollback"
    BY <1>2, <1>5, <1>8
  <2>2. OwnFits(a, op[a])'
    BY <1>1, <1>2, <1>5, <2>1 DEF OpFits, OwnFits, OwnMade, SameProcess, world
  <2>3. managed' /\ workloadLock' = "service" /\ op'[a].action # "down"
    BY <1>1, <1>2, <1>3, <1>5, <1>8, ServiceAtWork DEF world
  <2>4. OpFits(a, op[a])'
    BY <1>1, <1>2, <1>5, <1>6, <2>1, <2>2, <2>3, InRollback DEF OpFits
  <2> QED BY <1>5, <2>4
<1> QED BY <1>7, <1>8 DEF Actors

LEMMA ProveLaunchKeeps ==
    ASSUME WorkloadInv, NEW a \in Actors, ProveLaunch(a)
    PROVE  WorkloadInv'
<1> DEFINE o == op[a]
           v == AdvancePlan(o)
<1>1. Shared /\ Kernel /\ OpFits(a, o) /\ o \in Ops
  BY Unfolded
<1>2. UNCHANGED <<container, world, starts>> /\ o.stage = "prove"
  BY DEF ProveLaunch
<1>3. ASSUME NEW r \in Evidence, Earned(r) PROVE Earned(r)'
  BY <1>2, <1>3 DEF Earned, SameProcess
<1>4. ContainerFine'
  BY <1>1, <1>2 DEF Shared, ContainerFine, HandedOut
<1>5. CASE /\ op' = [op EXCEPT ![a].stage = IF a = "service" THEN "rollback" ELSE "cleanup"]
           /\ UNCHANGED <<record, workloadLock>>
  <2>1. RecordTrue'
    BY <1>1, <1>2, <1>5 DEF Shared, RecordTrue, Earned, SameProcess, DownMeansStopped
  <2>2. Fits(record)'
    BY <1>1, <1>2, <1>5 DEF OpFits, RecordFits, Starting, Fits, SameProcess, world
  <2> QED BY <1>2, <1>3, <1>4, <1>5, <2>1, <2>2, AttemptFails
<1>6. CASE record' = o.rec /\ op' = [op EXCEPT ![a] = v] /\ Release(a) /\ container.live
  <2>1. /\ o.rec = Claim(o) /\ o.mine.id # 0 /\ OwnMade(o) /\ ~o.private /\ workloadLock = a /\ o.todo # <<>>
        /\ o.rec \in Evidence /\ HandedOut(o.rec) /\ Valid(o.rec)
    BY <1>1, <1>2, FieldsOfOps DEF OpFits, AttemptFits, LockFits, Actors, PlanFits, OpTypes
  <2>2. /\ o.rec.id = o.mine.id /\ o.rec.at = o.mine.at /\ o.rec.runtime = wanted /\ ~o.rec.claimed
        /\ ~o.rec.handoff /\ o.rec.state = "starting" /\ o.rec # NoRecord
    BY <1>1, <2>1, ClaimFields
  <2>3. /\ v \in Ops /\ v.stage = "next" /\ v.action = o.action /\ v.todo = Tail(o.todo) /\ v.private = o.private
        /\ v.rec = o.rec /\ v.seen = o.seen /\ v.mine = o.mine /\ v.owned = o.owned
    BY <1>1, <2>1, AdvanceFields
  <2> HIDE DEF v
  <2>4. RecordFine' /\ RecordTrue'
    BY <1>2, <1>6, <2>1, <2>2 DEF RecordFine, HandedOut, Valid, RecordTrue, DownMeansStopped
  <2>5. Fits(record)'
    BY <1>2, <1>6, <2>1, <2>2 DEF Fits, OwnMade, SameProcess, world
  <2>6. workloadLock' \in {"free", a} /\ (a = "service" => workloadLock' = "service")
    BY <1>6 DEF Release
  <2>7. op'[a] = v /\ (OpFits(a, op[a])' => WorkloadInv')
    <3>1. starts' \in Nat /\ starts <= starts' /\ starts' <= MaxStarts
      BY <1>1, <1>2 DEF Kernel
    <3> QED BY <1>2, <1>3, <1>4, <1>6, <2>1, <2>3, <2>4, <2>5, <2>6, <3>1, LoudStep
  <2>8. OpTypes(op[a])'
    BY <1>1, <1>2, <2>3, <2>7 DEF OpFits, OpTypes, HandedOut
  <2>9. OwnFits(a, op[a])'
    BY <1>1, <1>2, <1>6, <2>1, <2>2, <2>3, <2>7 DEF OwnFits, OwnMade, SameProcess, world
  <2>10. OpFits(a, op[a])'
    <3>1. UNCHANGED <<files, wanted, managed>>
      BY <1>2 DEF world
    <3> QED BY <1>1, <1>2, <2>1, <2>3, <2>5, <2>6, <2>7, <2>8, <2>9, <3>1, Advanced
  <2> QED BY <2>7, <2>10
<1> QED BY <1>5, <1>6 DEF ProveLaunch

LEMMA InjectKeeps ==
    ASSUME WorkloadInv, NEW a \in Actors, Inject(a)
    PROVE  WorkloadInv'
<1> DEFINE o == op[a]
           ok == [o.rec EXCEPT !.handoff = TRUE]
           running == container.up /\ container.id = o.mine.id
           fails == /\ op' = [op EXCEPT ![a].stage = IF a = "service" THEN "rollback" ELSE "cleanup"]
                    /\ UNCHANGED <<record, workloadLock>>
           sent == /\ record' = ok /\ op' = [op EXCEPT ![a] = [AdvancePlan(op[a]) EXCEPT !.rec = ok]] /\ Release(a)
<1>1. Shared /\ Kernel /\ OpFits(a, o) /\ o \in Ops
  BY Unfolded
<1>2. UNCHANGED <<world, starts>> /\ o.stage = "inject"
  BY DEF Inject
<1>3. /\ o.rec = Claim(o) /\ record = o.rec /\ o.mine.id # 0 /\ OwnMade(o) /\ o.private /\ workloadLock = a /\ o.todo # <<>>
      /\ o.rec \in Evidence /\ HandedOut(o.rec) /\ Valid(o.rec) /\ container.got = 0 /\ Fits(record)
  BY <1>1, <1>2, FieldsOfOps DEF OpFits, AttemptFits, LockFits, Actors, PlanFits, OpTypes, RecordFits, Starting
<1>4. /\ o.rec.id = o.mine.id /\ o.rec.at = o.mine.at /\ o.rec.runtime = wanted /\ o.rec.claimed
      /\ ~o.rec.handoff /\ o.rec.state = "starting" /\ o.rec # NoRecord
  BY <1>1, <1>3, ClaimFields
<1>5. container \in Containers /\ HandedOut(container) /\ (container.id = 0 => container = NoContainer)
  BY <1>1 DEF Shared, ContainerFine
<1>6. starts' \in Nat /\ starts <= starts' /\ starts' <= MaxStarts
  BY <1>1, <1>2 DEF Kernel
<1>7. ASSUME NEW x \in BOOLEAN, container' = [[container EXCEPT !.got = 1] EXCEPT !.live = x], container.id = o.mine.id
      PROVE  /\ container'.id = container.id /\ container'.at = container.at /\ container'.made = container.made
             /\ container'.hand = container.hand /\ container'.up = container.up /\ container'.got = 1
             /\ container'.live = x /\ ContainerFine'
  <2> DEFINE c == [container EXCEPT !.got = 1]
  <2>1. /\ c \in Containers /\ c.id = container.id /\ c.at = container.at /\ c.made = container.made
        /\ c.hand = container.hand /\ c.up = container.up /\ c.got = 1
    BY <1>5 DEF Containers
  <2>2. container' = [c EXCEPT !.live = x]
    BY <1>7
  <2> HIDE DEF c
  <2>3. /\ container' \in Containers
        /\ container'.id = c.id /\ container'.at = c.at /\ container'.made = c.made
        /\ container'.hand = c.hand /\ container'.up = c.up /\ container'.got = c.got
        /\ container'.live = x
    BY <2>1, <2>2 DEF Containers
  <2>4. container.id # 0
    BY <1>3, <1>7
  <2> QED BY <1>2, <1>3, <1>5, <2>1, <2>3, <2>4 DEF ContainerFine, HandedOut
<1>8. /\ \/ running /\ container' = [container EXCEPT !.got = @ + 1, !.live = TRUE]
            /\ IF SameProcess(container, o.mine) THEN sent ELSE fails
         \/ running /\ container' = [container EXCEPT !.got = @ + 1] /\ fails
         \/ UNCHANGED container /\ fails
  BY DEF Inject
<1>9. ASSUME fails, RecordTrue', ContainerFine', Fits(record)',
             container'.id = container.id, container'.at = container.at, container'.made = container.made,
             container'.hand = container.hand,
             \A r \in Evidence : HandedOut(r) /\ r.id # 0 /\ Earned(r) => Earned(r)'
      PROVE  WorkloadInv'
  BY <1>2, <1>9, AttemptFails
<1>10. CASE UNCHANGED container /\ fails
  <2>1. ContainerFine' /\ RecordTrue' /\ Fits(record)'
    BY <1>1, <1>2, <1>3, <1>4, <1>10 DEF Shared, ContainerFine, HandedOut, RecordTrue, DownMeansStopped, Fits, SameProcess, world
  <2>2. ASSUME NEW r \in Evidence, Earned(r) PROVE Earned(r)'
    BY <1>10, <2>2 DEF Earned, SameProcess
  <2> QED BY <1>9, <1>10, <2>1, <2>2
<1>11. CASE running /\ container' = [container EXCEPT !.got = @ + 1] /\ fails
  <2>1. /\ container'.id = container.id /\ container'.at = container.at /\ container'.made = container.made
        /\ container'.hand = container.hand /\ container'.up = container.up /\ container'.got = 1
        /\ container'.live = container.live /\ ContainerFine'
    <3>1. container.live \in BOOLEAN /\ container.id = o.mine.id
      BY <1>5, <1>11 DEF Containers
    <3>2. container' = [container EXCEPT !.got = @ + 1]
      BY <1>11
    <3>3. container' = [container EXCEPT !.got = 1]
      BY <1>3, <1>5, <3>2 DEF Containers
    <3>4. container' = [[container EXCEPT !.got = 1] EXCEPT !.live = container.live]
      BY <1>5, <3>3 DEF Containers
    <3> QED BY <1>7, <3>1, <3>4
  <2>2. RecordTrue' /\ Fits(record)'
    BY <1>2, <1>3, <1>4, <1>11, <2>1 DEF RecordTrue, DownMeansStopped, Fits, SameProcess, world
  <2>3. ASSUME NEW r \in Evidence, Earned(r) PROVE Earned(r)'
    BY <1>3, <2>1, <2>3 DEF Earned, SameProcess
  <2> QED BY <1>9, <1>11, <2>1, <2>2, <2>3
<1>12. CASE /\ running /\ container' = [container EXCEPT !.got = @ + 1, !.live = TRUE]
            /\ IF SameProcess(container, o.mine) THEN sent ELSE fails
  <2>1. /\ container'.id = container.id /\ container'.at = container.at /\ container'.made = container.made
        /\ container'.hand = container.hand /\ container'.up = container.up /\ container'.got = 1
        /\ container'.live = TRUE /\ ContainerFine'
    <3>1. container' = [container EXCEPT !.got = @ + 1, !.live = TRUE] /\ container.id = o.mine.id
      BY <1>12
    <3>2. container' = [[container EXCEPT !.got = 1] EXCEPT !.live = TRUE]
      BY <1>3, <1>5, <3>1 DEF Containers
    <3> QED BY <1>7, <3>1, <3>2
  <2>2. ASSUME NEW r \in Evidence, Earned(r) PROVE Earned(r)'
    BY <1>3, <2>1, <2>2 DEF Earned, SameProcess
  <2>3. CASE ~SameProcess(container, o.mine)
    <3>1. RecordTrue' /\ Fits(record)' /\ fails
      BY <1>3, <1>4, <1>12, <2>1, <2>3 DEF RecordTrue, DownMeansStopped, Fits, SameProcess
    <3> QED BY <1>9, <2>1, <2>2, <3>1
  <2>4. CASE SameProcess(container, o.mine)
    <3> DEFINE u == AdvancePlan(o)
               v == [u EXCEPT !.rec = ok]
    <3>1. /\ u \in Ops /\ u.stage = "next" /\ u.action = o.action /\ u.todo = Tail(o.todo) /\ u.private = o.private
          /\ u.seen = o.seen /\ u.mine = o.mine /\ u.owned = o.owned
      BY <1>1, <1>3, AdvanceFields
    <3>2. /\ ok \in Evidence /\ ok.id = o.rec.id /\ ok.at = o.rec.at /\ ok.runtime = o.rec.runtime
          /\ ok.claimed = o.rec.claimed /\ ok.handoff = TRUE /\ ok.state = o.rec.state
      BY <1>3 DEF Evidence
    <3>3. sent
      BY <1>12, <2>4
    <3> HIDE DEF u, ok
    <3>4. ok # NoRecord /\ Valid(ok) /\ HandedOut(ok)
      BY <1>3, <1>4, <3>2, NothingFits DEF Valid, HandedOut
    <3>5. /\ v \in Ops /\ v.stage = "next" /\ v.action = o.action /\ v.todo = Tail(o.todo) /\ v.private = o.private
          /\ v.seen = o.seen /\ v.mine = o.mine /\ v.owned = o.owned /\ v.rec = ok
      BY <3>1, <3>2 DEF Ops
    <3>6. record' = ok /\ op' = [op EXCEPT ![a] = v]
      BY <3>3 DEF u
    <3> HIDE DEF v
    <3>7. RecordFine' /\ RecordTrue'
      BY <1>2, <1>4, <3>2, <3>4, <3>6 DEF RecordFine, HandedOut, Valid, RecordTrue, DownMeansStopped
    <3>8. Fits(record)'
      BY <1>2, <1>3, <1>4, <2>1, <2>4, <3>2, <3>6 DEF Fits, OwnMade, SameProcess, world
    <3>9. workloadLock' \in {"free", a} /\ (a = "service" => workloadLock' = "service")
      BY <3>3 DEF Release
    <3>10. op'[a] = v /\ (OpFits(a, op[a])' => WorkloadInv')
      BY <1>2, <1>3, <1>6, <2>1, <2>2, <3>5, <3>6, <3>7, <3>8, <3>9, LoudStep
    <3>11. OpTypes(op[a])'
      BY <1>1, <1>2, <3>4, <3>5, <3>10 DEF OpFits, OpTypes, HandedOut, Valid
    <3>12. OwnFits(a, op[a])'
      BY <1>2, <1>3, <1>4, <2>1, <3>2, <3>4, <3>5, <3>6, <3>10 DEF OwnFits, OwnMade, SameProcess, world
    <3>13. OpFits(a, op[a])'
      <4>1. UNCHANGED <<files, wanted, managed>>
        BY <1>2 DEF world
      <4> QED BY <1>1, <1>2, <1>3, <3>5, <3>8, <3>9, <3>10, <3>11, <3>12, <4>1, Advanced
    <3> QED BY <3>10, <3>13
  <2> QED BY <2>3, <2>4
<1> QED BY <1>8, <1>10, <1>11, <1>12

-----------------------------------------------------------------------------
(* Completion and cleanup                                                   *)

LEMMA CompleteWriteKeeps ==
    ASSUME WorkloadInv, NEW a \in Actors, CompleteWrite(a)
    PROVE  WorkloadInv'
<1> DEFINE o == op[a]
           v == IF a = "service" THEN [IdleOp EXCEPT !.stage = "ready"] ELSE IdleOp
           u == [o.rec EXCEPT !.state = "up"]
<1>1. Shared /\ Kernel /\ OpFits(a, o) /\ o \in Ops
  BY Unfolded
<1>2. /\ UNCHANGED <<container, world, starts>> /\ o.stage = "commit" /\ workloadLock \in {"free", a}
      /\ workloadLock' = "free" /\ op' = [op EXCEPT ![a] = v]
  BY DEF CompleteWrite, MayLock
<1>3. o.rec \in Evidence /\ HandedOut(o.rec) /\ Valid(o.rec) /\ o.rec.id # 0 /\ Earned(o.rec)
  BY <1>1, <1>2, FieldsOfOps DEF OpFits, AttemptFits, OpTypes
<1>4. /\ record' \in Evidence /\ record'.state = "up" /\ record'.complete = TRUE /\ record'.id = o.rec.id
      /\ record'.at = o.rec.at /\ record'.runtime = o.rec.runtime /\ record'.claimed = o.rec.claimed
      /\ record'.handoff = o.rec.handoff
  <2>1. record' = [u EXCEPT !.complete = TRUE]
    BY <1>3 DEF CompleteWrite, Evidence
  <2>2. /\ u \in Evidence /\ u.state = "up" /\ u.id = o.rec.id /\ u.at = o.rec.at /\ u.runtime = o.rec.runtime
        /\ u.claimed = o.rec.claimed /\ u.handoff = o.rec.handoff
    BY <1>3 DEF Evidence
  <2> HIDE DEF u
  <2> QED BY <2>1, <2>2 DEF Evidence
<1>5. RecordFine' /\ ContainerFine'
  BY <1>1, <1>2, <1>3, <1>4 DEF RecordFine, HandedOut, Valid, Shared, ContainerFine
<1>6. RecordTrue'
  BY <1>2, <1>3, <1>4 DEF RecordTrue, Earned, SameProcess, DownMeansStopped
<1>7. Fits(record)'
  BY <1>2, <1>3, <1>4 DEF Fits, Earned, SameProcess, Valid, world
<1>8. ASSUME NEW r \in Evidence, Earned(r) PROVE Earned(r)'
  BY <1>2, <1>8 DEF Earned, SameProcess
<1>9. v \in Ops
  <2>1. IdleOp \in Ops /\ "ready" \in StageNames
    BY NothingFits DEF StageNames
  <2> QED BY <2>1, StageSet
<1>10. op'[a] = v /\ (OpFits(a, op[a])' => WorkloadInv')
  <2>1. starts' \in Nat /\ starts <= starts' /\ starts' <= MaxStarts
    BY <1>1, <1>2 DEF Kernel
  <2> HIDE DEF v
  <2> QED BY <1>2, <1>5, <1>6, <1>7, <1>8, <1>9, <2>1, LoudStep
<1>11. OpFits(a, op[a])'
  <2>1. a = "service" => managed'
    BY <1>1, <1>2, ServiceAtWork DEF world
  <2>2. starts' \in Nat
    BY <1>1, <1>2 DEF Kernel
  <2> QED BY <1>10, <2>1, <2>2, AtRest
<1> QED BY <1>10, <1>11


\* The process of an attempt is noted, with what was known of it.
LEMMA Noted ==
    ASSUME NEW kept \in Evidence, HandedOut(kept), Valid(kept), NEW m \in Views, HandedOut(m), m.id # 0
    PROVE  LET r == [kept EXCEPT !.state = "stopping", !.id = m.id, !.at = m.at] IN
           /\ r \in Evidence /\ HandedOut(r) /\ Valid(r) /\ SameProcess(r, m) /\ r.state = "stopping"
           /\ r.runtime = kept.runtime /\ r.claimed = kept.claimed /\ r.handoff = kept.handoff
<1> DEFINE r == [kept EXCEPT !.state = "stopping", !.id = m.id, !.at = m.at]
<1>1. m.id \in Nat /\ m.at \in Nat
  BY DEF Views
<1>2. /\ r \in Evidence /\ r.state = "stopping" /\ r.id = m.id /\ r.at = m.at
      /\ r.runtime = kept.runtime /\ r.claimed = kept.claimed /\ r.handoff = kept.handoff
  BY <1>1 DEF Evidence
<1> HIDE DEF r
<1>3. HandedOut(r) /\ Valid(r) /\ SameProcess(r, m)
  BY <1>2 DEF HandedOut, Valid, SameProcess
<1> QED BY <1>2, <1>3 DEF r

LEMMA CleanupBeginKeeps ==
    ASSUME WorkloadInv, NEW a \in Actors, CleanupBegin(a)
    PROVE  WorkloadInv'
<1> DEFINE o == op[a]
           kept == IF o.stage = "rollback" /\ record # NoRecord THEN record ELSE o.rec
           r == [kept EXCEPT !.state = "stopping", !.id = o.mine.id, !.at = o.mine.at]
<1>1. Shared /\ Kernel /\ OpFits(a, o) /\ o \in Ops /\ OpFits("cli", op["cli"])
  BY Unfolded
<1>2. UNCHANGED <<container, world, starts>> /\ o.stage \in {"cleanup", "rollback"} /\ workloadLock \in {"free", a}
  BY DEF CleanupBegin, MayLock
<1>3. starts' \in Nat /\ starts <= starts' /\ starts' <= MaxStarts
  BY <1>1, <1>2 DEF Kernel
<1>4. ASSUME NEW x \in Evidence, Earned(x) PROVE Earned(x)'
  BY <1>2, <1>4 DEF Earned, SameProcess
<1>5. ContainerFine'
  BY <1>1, <1>2 DEF Shared, ContainerFine, HandedOut
<1>6. RecordFine /\ RecordTrue /\ record \in Evidence /\ HandedOut(record) /\ Valid(record)
  BY <1>1 DEF Shared, RecordFine
<1>7. ASSUME record' = record PROVE RecordFine' /\ RecordTrue' /\ (Fits(record) => Fits(record)')
  BY <1>2, <1>6, <1>7 DEF RecordFine, HandedOut, RecordTrue, Earned, SameProcess, DownMeansStopped, Fits, world
<1>8. Starting(op["cli"]) => Fits(record)
  BY <1>1 DEF OpFits, RecordFits
<1>9. a = "service" => o.stage = "rollback" /\ managed' /\ workloadLock = "service" /\ o.action # "down"
  BY <1>1, <1>2, ServiceAtWork DEF OpFits, RoleFits, world
<1>10. CASE ~o.owned
  <2> DEFINE v == IF o.stage = "cleanup" THEN FailPlan(o) ELSE IdleOp
  <2>1. op' = [op EXCEPT ![a] = v] /\ workloadLock' = "free" /\ record' = record
    BY <1>10 DEF CleanupBegin
  <2>2. v \in Ops
    BY <1>1, FailFields, NothingFits
  <2>3. op'[a] = v /\ (OpFits(a, op[a])' => WorkloadInv')
    <3> HIDE DEF v
    <3> QED BY <1>2, <1>3, <1>4, <1>5, <1>7, <1>8, <2>1, <2>2, LoudStep
  <2>4. CASE o.stage = "cleanup"
    <3>1. op'[a] = FailPlan(o) /\ a # "service"
      BY <1>9, <2>3, <2>4
    <3>2. /\ op'[a].stage = "rollback" /\ op'[a].todo = o.todo /\ op'[a].rec = o.rec /\ op'[a].seen = o.seen
          /\ op'[a].mine = o.mine /\ op'[a].owned = o.owned
      BY <1>1, <3>1, FailFields
    <3>3. OpTypes(op[a])' /\ PlanFits(a, o) /\ OwnFits(a, op[a])'
      BY <1>1, <1>2, <3>1, <3>2 DEF OpFits, OpTypes, HandedOut, OwnFits
    <3>4. OpFits(a, op[a])'
      BY <1>10, <3>1, <3>2, <3>3, InRollback
    <3> QED BY <2>3, <3>4
  <2>5. CASE o.stage # "cleanup"
    <3>1. OpFits(a, op[a])'
      BY <1>3, <2>3, <2>5, AtRest
    <3> QED BY <2>3, <3>1
  <2> QED BY <2>4, <2>5
<1>11. CASE o.owned
  <2> DEFINE s == IF o.stage = "cleanup" THEN "halt" ELSE "halted"
             w == [o EXCEPT !.rec = r]
             v == [w EXCEPT !.stage = s]
  <2>1. o.mine \in Views /\ HandedOut(o.mine) /\ o.mine.id # 0 /\ o.rec \in Evidence /\ HandedOut(o.rec) /\ Valid(o.rec)
    BY <1>1, <1>2, <1>11, FieldsOfOps DEF OpFits, OpTypes, AttemptFits
  <2>2. kept \in Evidence /\ HandedOut(kept) /\ Valid(kept)
    BY <1>6, <2>1
  <2>3. op' = [op EXCEPT ![a].rec = r, ![a].stage = s] /\ workloadLock' = a /\ record' \in {record, r}
    BY <1>11 DEF CleanupBegin
  <2>4. a = "service" => OwnMade(o) /\ kept = record /\ record # NoRecord /\ (record.id = 0 \/ SameProcess(record, o.mine))
    BY <1>1, <1>2, <1>9, <1>11 DEF OpFits, OwnFits
  <2> HIDE DEF kept
  <2>5. /\ r \in Evidence /\ HandedOut(r) /\ Valid(r) /\ SameProcess(r, o.mine) /\ r.state = "stopping"
        /\ r.runtime = kept.runtime /\ r.claimed = kept.claimed /\ r.handoff = kept.handoff
    BY <2>1, <2>2, Noted
  <2> HIDE DEF r
  <2>6. w \in Ops /\ w.rec = r /\ w.seen = o.seen /\ w.mine = o.mine /\ w.owned = o.owned /\ w.todo = o.todo /\ w.action = o.action
    BY <1>1, <2>5 DEF Ops
  <2>7. op' = [op EXCEPT ![a] = v]
    BY <1>1, <2>3 DEF Kernel
  <2>8. s \in StageNames /\ s \in {"halt", "halted"} /\ (a = "service" => s = "halted")
    BY <1>9 DEF StageNames
  <2> HIDE DEF w, s
  <2>9. /\ v \in Ops /\ v.stage = s /\ v.rec = r /\ v.seen = o.seen /\ v.mine = o.mine /\ v.owned = o.owned
        /\ v.todo = o.todo /\ v.action = o.action
    BY <2>6, <2>8, StageSet
  <2> HIDE DEF v
  <2>10. RecordFine' /\ RecordTrue'
    <3>1. CASE record' = record
      BY <1>7, <3>1
    <3>2. CASE record' = r
      BY <1>2, <2>5, <3>2 DEF RecordFine, HandedOut, RecordTrue, DownMeansStopped
    <3> QED BY <2>3, <3>1, <3>2
  <2>11. ASSUME a = "service", Starting(op["cli"]) PROVE Fits(record)'
    <3>1. Fits(record) /\ OwnMade(o) /\ kept = record /\ (record.id = 0 \/ SameProcess(record, o.mine))
      BY <1>8, <2>4, <2>11
    <3>2. CASE record' = record
      BY <1>7, <3>1, <3>2
    <3>3. CASE record' = r
      <4>1. CASE record.id = 0
        BY <1>2, <1>6, <2>5, <3>1, <3>3, <4>1 DEF Fits, Valid, OwnMade, SameProcess, world
      <4>2. CASE SameProcess(record, o.mine)
        BY <1>2, <2>5, <3>1, <3>3, <4>2 DEF Fits, SameProcess, world
      <4> QED BY <3>1, <4>1, <4>2
    <3> QED BY <2>3, <3>2, <3>3
  <2>12. op'[a] = v /\ (OpFits(a, op[a])' => WorkloadInv')
    BY <1>2, <1>3, <1>4, <1>5, <2>3, <2>7, <2>9, <2>10, <2>11, LoudStep
  <2>13. OpTypes(op[a])'
    BY <1>1, <1>2, <2>5, <2>9, <2>12 DEF OpFits, OpTypes, HandedOut
  <2>14. LockFits(a, op[a])' /\ RoleFits(a, op[a])' /\ FilesFit(a, op[a])' /\ RecordFits(op[a])'
    BY <1>9, <2>3, <2>8, <2>9, <2>12 DEF LockFits, RoleFits, FilesFit, RecordFits, Starting
  <2>15. PlanFits(a, op[a])'
    BY <1>1, <2>8, <2>9, <2>12 DEF OpFits, PlanFits, Ahead
  <2>16. AttemptFits(op[a])'
    BY <2>1, <2>5, <2>8, <2>9, <2>12 DEF AttemptFits, SameProcess
  <2>17. OwnFits(a, op[a])'
    <3>1. CASE a = "service"
      <4>1. OwnMade(op[a])'
        BY <1>2, <2>4, <2>9, <2>12, <3>1 DEF OwnMade, SameProcess, world
      <4>2. record' # NoRecord /\ (record'.id = 0 \/ SameProcess(record', op'[a].mine))
        BY <2>3, <2>4, <2>5, <2>9, <2>12, <3>1, NothingFits DEF SameProcess
      <4>3. op'[a].stage = "halted"
        BY <2>8, <2>9, <2>12, <3>1
      <4> QED BY <4>1, <4>2, <4>3 DEF OwnFits
    <3>2. CASE a # "service"
      BY <3>2 DEF OwnFits
    <3> QED BY <3>1, <3>2
  <2>18. OpFits(a, op[a])'
    BY <2>13, <2>14, <2>15, <2>16, <2>17 DEF OpFits
  <2> QED BY <2>12, <2>18
<1> QED BY <1>10, <1>11

LEMMA CleanupStopKeeps ==
    ASSUME WorkloadInv, NEW a \in Actors, CleanupStop(a)
    PROVE  WorkloadInv'
<1> DEFINE o == op[a]
           d == [o.rec EXCEPT !.state = "down"]
           v == IF o.stage = "halt" THEN FailPlan(o) ELSE IdleOp
<1>1. Shared /\ Kernel /\ OpFits(a, o) /\ o \in Ops /\ OpFits("cli", op["cli"])
  BY Unfolded
<1>2. /\ UNCHANGED <<world, starts>> /\ o.stage \in {"halt", "halted"} /\ workloadLock' = "free"
      /\ op' = [op EXCEPT ![a] = v]
      /\ container' = container \/ (container.up /\ container' = [container EXCEPT !.up = FALSE])
      /\ record' = record \/ (record' = d /\ ~(container'.up /\ container'.id = o.mine.id))
  BY DEF CleanupStop
<1>3. /\ workloadLock = a /\ SameProcess(o.rec, o.mine) /\ (a = "service" => o.stage # "halt")
      /\ o.rec \in Evidence /\ HandedOut(o.rec) /\ Valid(o.rec)
  BY <1>1, <1>2, FieldsOfOps DEF OpFits, LockFits, AttemptFits, RoleFits, OpTypes, Actors
<1>4. starts' \in Nat /\ starts <= starts' /\ starts' <= MaxStarts
  BY <1>1, <1>2 DEF Kernel
<1>5. /\ ContainerFine' /\ container'.id = container.id /\ container'.at = container.at
      /\ container'.made = container.made /\ container'.hand = container.hand
      /\ container'.live = container.live /\ container'.got = container.got
      /\ container'.up => container.up
  <2>1. CASE container' = container
    BY <1>1, <1>2, <2>1 DEF Shared, ContainerFine, HandedOut
  <2>2. CASE container.up /\ container' = [container EXCEPT !.up = FALSE]
    <3>1. container \in Containers /\ container.id # 0 /\ HandedOut(container) /\ container.got <= 1
      BY <1>1, <2>2, NothingFits DEF Shared, ContainerFine
    <3>2. /\ container' \in Containers /\ container'.id = container.id /\ container'.at = container.at
          /\ container'.made = container.made /\ container'.hand = container.hand
          /\ container'.live = container.live /\ container'.got = container.got /\ container'.up = FALSE
      BY <2>2, <3>1 DEF Containers
    <3> QED BY <1>2, <3>1, <3>2 DEF ContainerFine, HandedOut
  <2> QED BY <1>2, <2>1, <2>2
<1>6. ASSUME NEW x \in Evidence, Earned(x) PROVE Earned(x)'
  BY <1>5, <1>6 DEF Earned, SameProcess
<1>7. RecordFine' /\ RecordTrue' /\ (Fits(record) => Fits(record)')
  <2>1. CASE record' = record
    <3>1. RecordFine'
      BY <1>1, <1>2, <2>1 DEF Shared, RecordFine, HandedOut
    <3>2. RecordTrue'
      BY <1>1, <1>5, <2>1 DEF Shared, RecordTrue, Earned, SameProcess, DownMeansStopped
    <3>3. Fits(record) => Fits(record)'
      BY <1>2, <1>5, <2>1 DEF Fits, SameProcess, world
    <3> QED BY <3>1, <3>2, <3>3
  <2>2. CASE record' = d /\ ~(container'.up /\ container'.id = o.mine.id)
    <3>1. /\ d \in Evidence /\ d.state = "down" /\ d.id = o.rec.id /\ d.at = o.rec.at
          /\ d.claimed = o.rec.claimed /\ d.handoff = o.rec.handoff /\ d.complete = o.rec.complete
      BY <1>3 DEF Evidence
    <3> HIDE DEF d
    <3>2. RecordFine'
      BY <1>2, <1>3, <2>2, <3>1 DEF RecordFine, HandedOut, Valid
    <3>3. RecordTrue' /\ Fits(record)'
      BY <1>3, <2>2, <3>1 DEF RecordTrue, DownMeansStopped, Fits, SameProcess
    <3> QED BY <3>2, <3>3
  <2> QED BY <1>2, <2>1, <2>2
<1>8. v \in Ops
  BY <1>1, FailFields, NothingFits
<1>9. op'[a] = v /\ (OpFits(a, op[a])' => WorkloadInv')
  <2>1. Starting(op["cli"]) => Fits(record)
    BY <1>1 DEF OpFits, RecordFits
  <2> HIDE DEF v, d
  <2> QED BY <1>2, <1>3, <1>4, <1>5, <1>6, <1>7, <1>8, <2>1, LoudStep
<1>10. CASE o.stage = "halt"
  <2>1. op'[a] = FailPlan(o) /\ a # "service"
    BY <1>3, <1>9, <1>10
  <2>2. /\ op'[a].stage = "rollback" /\ op'[a].todo = o.todo /\ op'[a].rec = o.rec /\ op'[a].seen = o.seen
        /\ op'[a].mine = o.mine /\ op'[a].owned = o.owned
    BY <1>1, <2>1, FailFields
  <2>3. OpTypes(op[a])' /\ PlanFits(a, o) /\ OwnFits(a, op[a])' /\ (op'[a].owned => op'[a].mine.id # 0)
    BY <1>1, <1>2, <2>1, <2>2 DEF OpFits, OpTypes, HandedOut, OwnFits, AttemptFits
  <2>4. OpFits(a, op[a])'
    BY <2>1, <2>2, <2>3, InRollback
  <2> QED BY <1>9, <2>4
<1>11. CASE o.stage # "halt"
  <2>1. OpFits(a, op[a])'
    BY <1>4, <1>9, <1>11, AtRest
  <2> QED BY <1>9, <2>1
<1> QED BY <1>10, <1>11


-----------------------------------------------------------------------------
(* The theorems                                                             *)

LEMMA InitInv ==
    ASSUME WorkloadInit
    PROVE  WorkloadInv
<1>1. /\ record = NoRecord /\ container = NoContainer /\ files = NoInputs /\ wanted = 1 /\ envPresent \in BOOLEAN
      /\ managed \in BOOLEAN /\ op = [a \in Actors |-> IdleOp] /\ workloadLock = "free" /\ starts = 0
  BY DEF WorkloadInit
<1>2. Kernel
  BY <1>1, NothingFits, WorkloadBounds DEF Kernel, Runtimes
<1>3. RecordFine /\ ContainerFine
  BY <1>1, NothingFits DEF RecordFine, ContainerFine, HandedOut
<1>4. RecordTrue
  BY <1>1, NothingFits DEF RecordTrue, DownMeansStopped
<1>5. ASSUME NEW a \in Actors PROVE OpFits(a, op[a])
  <2>1. op[a] = IdleOp
    BY <1>1
  <2>2. /\ op[a].stage = "idle" /\ op[a].rec = NoRecord /\ op[a].seen = Inspect(NoContainer)
        /\ op[a].mine = Inspect(NoContainer) /\ op[a].todo = <<>> /\ op[a].owned = FALSE /\ op[a].action = "up"
    BY <2>1 DEF IdleOp
  <2>3. Inspect(NoContainer).id = 0 /\ Inspect(NoContainer).at = 0
    BY DEF Inspect, NoContainer
  <2>4. OpTypes(op[a])
    BY <1>1, <2>2, <2>3, NothingFits DEF OpTypes, HandedOut
  <2>5. LockFits(a, op[a]) /\ RoleFits(a, op[a]) /\ RecordFits(op[a]) /\ AttemptFits(op[a]) /\ OwnFits(a, op[a])
    BY <2>2 DEF LockFits, RoleFits, RecordFits, Starting, AttemptFits, OwnFits
  <2>6. PlanFits(a, op[a]) /\ FilesFit(a, op[a])
    BY <2>2 DEF PlanFits, FilesFit, Ahead
  <2> QED BY <2>4, <2>5, <2>6 DEF OpFits
<1> QED BY <1>2, <1>3, <1>4, <1>5 DEF WorkloadInv, Shared

LEMMA StutterKeeps ==
    ASSUME WorkloadInv, UNCHANGED workloadVars
    PROVE  WorkloadInv'
<1>1. UNCHANGED <<record, container, world, op, workloadLock, starts>>
  BY DEF workloadVars
<1>2. Shared /\ Kernel /\ \A a \in Actors : OpFits(a, op[a])
  BY Unfolded
<1>3. Kernel'
  BY <1>1, <1>2 DEF Kernel, world
<1>4. Shared'
  BY <1>1, <1>2, <1>3, SharedKept
<1>5. ASSUME NEW b \in Actors PROVE OpFits(b, op[b])'
  BY <1>1, <1>2, Undisturbed
<1> QED BY <1>4, <1>5 DEF WorkloadInv

\* Starting, completing and cleaning up, which both actors do.
LEMMA StartStepsKeep ==
    ASSUME WorkloadInv, NEW a \in Actors, StartSteps(a)
    PROVE  WorkloadInv'
<1>1. CASE Initialize(a)
  BY <1>1, InitializeKeeps
<1>2. CASE RunHook(a)
  BY <1>2, RunHookKeeps
<1>3. CASE StartBegin(a)
  BY <1>3, StartBeginKeeps
<1>4. CASE StartRefused(a)
  BY <1>4, StartRefusedKeeps
<1>5. CASE ComposeUp(a)
  BY <1>5, ComposeUpKeeps
<1>6. CASE LookAfterStart(a)
  BY <1>6, LookAfterStartKeeps
<1>7. CASE Inject(a)
  BY <1>7, InjectKeeps
<1>8. CASE ProveLaunch(a)
  BY <1>8, ProveLaunchKeeps
<1>9. CASE CompleteCheck(a)
  BY <1>9, CompleteCheckKeeps
<1>10. CASE CompleteWrite(a)
  BY <1>10, CompleteWriteKeeps
<1>11. CASE CleanupBegin(a)
  BY <1>11, CleanupBeginKeeps
<1>12. CASE CleanupStop(a)
  BY <1>12, CleanupStopKeeps
<1> QED BY <1>1, <1>2, <1>3, <1>4, <1>5, <1>6, <1>7, <1>8, <1>9, <1>10, <1>11, <1>12 DEF StartSteps

\* The inductive invariant holds for any number of commands, starts, kills and
\* manual restarts: what the record says is true of the container, and each
\* actor, at each stage of a start, a stop or a cleanup, still has what it
\* relies on.
THEOREM WorkloadInvariant == WorkloadSpec => []WorkloadInv
<1>1. WorkloadInit => WorkloadInv
  BY InitInv
<1>2. WorkloadInv /\ [WorkloadNext]_workloadVars => WorkloadInv'
  <2> SUFFICES ASSUME WorkloadInv, [WorkloadNext]_workloadVars PROVE WorkloadInv'
    OBVIOUS
  <2>1. "cli" \in Actors /\ "service" \in Actors
    BY DEF Actors
  <2>2. ASSUME NEW action \in {"up", "down", "restart"}, AdmitCommand(action) PROVE WorkloadInv'
    BY <2>2, AdmitCommandKeeps
  <2>3. CASE AdmitStopOwned
    BY <2>3, AdmitStopOwnedKeeps
  <2>4. CASE CommandSteps
    <3>1. CASE StopOwned
      BY <3>1, StopOwnedKeeps
    <3>2. CASE PrepareCommand
      BY <3>2, PrepareCommandKeeps
    <3>0. CASE StopRefused
      BY <3>0, StopRefusedKeeps
    <3>3. CASE StopBegin
      BY <3>3, StopBeginKeeps
    <3>4. CASE StopRun
      BY <3>4, StopRunKeeps
    <3>5. CASE ManagedStart
      BY <3>5, ManagedStartKeeps
    <3>6. CASE ManagedStarted
      BY <3>6, ManagedStartedKeeps
    <3>7. CASE RetryStaleNetwork
      BY <3>7, RetryStaleNetworkKeeps
    <3>8. CASE StartSteps("cli")
      BY <2>1, <3>8, StartStepsKeep
    <3> QED BY <2>4, <3>0, <3>1, <3>2, <3>3, <3>4, <3>5, <3>6, <3>7, <3>8 DEF CommandSteps
  <2>5. CASE SystemdStart
    BY <2>5, SystemdStartKeeps
  <2>6. CASE ServiceSteps
    <3>1. CASE ServiceBoot
      BY <3>1, ServiceBootKeeps
    <3>2. CASE ServicePrepare
      BY <3>2, ServicePrepareKeeps
    <3>3. CASE StartSteps("service")
      BY <2>1, <3>3, StartStepsKeep
    <3> QED BY <2>6, <3>1, <3>2, <3>3 DEF ServiceSteps
  <2>7. CASE ServiceEnds
    BY <2>7, ServiceEndsKeeps
  <2>8. CASE ApplicationLaunches
    BY <2>8, ApplicationLaunchesKeeps
  <2>9. CASE ContainerExits
    BY <2>9, ContainerExitsKeeps
  <2>10. CASE ManualRestart
    BY <2>10, ManualRestartKeeps
  <2>11. CASE InputsChange
    BY <2>11, InputsChangeKeeps
  <2>12. ASSUME NEW a \in Actors, Killed(a) PROVE WorkloadInv'
    BY <2>12, KilledKeeps
  <2>13. CASE UNCHANGED workloadVars
    BY <2>13, StutterKeeps
  <2> QED BY <2>2, <2>3, <2>4, <2>5, <2>6, <2>7, <2>8, <2>9, <2>10, <2>11, <2>12, <2>13 DEF WorkloadNext
<1> QED BY <1>1, <1>2, PTL DEF WorkloadSpec

\* The workload's record stays well formed and says of the container only what
\* is true of it: "up" is a process that was started with the recorded inputs,
\* launched and, where claimed, given its private environment; "down" is a
\* process that does not run; and no process is given its private environment
\* twice, whoever is killed in the middle of a start, a stop or a cleanup and
\* whatever restarts the container meanwhile.
THEOREM WorkloadStaysSound == WorkloadSpec => []WorkloadSound
<1>1. WorkloadInv => WorkloadSound
  <2> SUFFICES ASSUME WorkloadInv PROVE WorkloadSound
    OBVIOUS
  <2>1. Shared /\ Kernel
    BY Unfolded
  <2>2. starts \in Nat /\ MaxStarts \in Nat /\ starts <= MaxStarts
    BY <2>1, WorkloadBounds DEF Kernel
  <2>3. record \in WorkloadRecords
    <3>1. record \in Evidence /\ record.id <= starts /\ record.at <= starts
      BY <2>1 DEF Shared, RecordFine, HandedOut
    <3>2. record.id \in Starts /\ record.at \in Starts
      BY <2>2, <3>1 DEF Evidence, Starts
    <3> QED BY <3>1, <3>2 DEF Evidence, WorkloadRecords
  <2>4. container \in [id : Starts, at : Starts, up : BOOLEAN, hand : BOOLEAN, live : BOOLEAN, got : Nat,
                      made : [runtime : Runtimes, private : BOOLEAN]]
    <3>1. container \in Containers /\ container.id <= starts /\ container.at <= starts
      BY <2>1 DEF Shared, ContainerFine, HandedOut
    <3>2. container.id \in Starts /\ container.at \in Starts
      BY <2>2, <3>1 DEF Containers, Starts
    <3> QED BY <3>1, <3>2 DEF Containers, Inputs
  <2>5. WorkloadTypeOK
    BY <2>1, <2>3, <2>4 DEF WorkloadTypeOK, Shared, RecordFine, Valid, Kernel
  <2>6. TransferOnce /\ UpIsEarned /\ DownMeansStopped
    BY <2>1 DEF Shared, ContainerFine, RecordTrue, Earned, TransferOnce, UpIsEarned
  <2> QED BY <2>5, <2>6 DEF WorkloadSound
<1> QED BY <1>1, WorkloadInvariant, PTL

=============================================================================
