------------------------- MODULE InstallationProofs -------------------------
(***************************************************************************)
(* InstallSound of Installation, for any number of directories, commands,  *)
(* generations and faults.  It is not inductive: what a step may remove    *)
(* rests on the lock its command took, on what the command saw before it   *)
(* waited, and on where a directory can still get to.  PlaceInv says where *)
(* directories and their records are, GenerationInv that no generation     *)
(* belongs to two of them, HostInv what the service may be doing, and      *)
(* OrderFits what a command relies on at each of its stages: Under with    *)
(* its lock, Left after it has released it.                                *)
(***************************************************************************)
EXTENDS Installation, FiniteSetTheorems, TLAPS

-----------------------------------------------------------------------------
(* The inductive invariant                                                  *)

Stages ==
    {"idle", "plan", "open", "locking", "check", "prepare", "admit", "waiting", "stop", "publish",
     "files", "volume", "copy", "activate", "ready", "start", "gone", "done", "clean1", "clean2",
     "clean3", "down", "disable", "clear", "guard", "retire", "isolate", "erase", "retry",
     "final1", "final2", "final3", "final4", "final5", "halt", "quarantine", "forget"}

\* The stages of a command that has no directory, or need not have one
Loose == {"idle", "plan", "open", "gone", "clean1", "clean2", "halt", "quarantine", "forget"}

\* The stages under the operation lock
AtLock ==
    {"check", "prepare", "admit", "stop", "publish", "files", "volume", "copy", "activate",
     "ready", "done", "down", "disable", "clear", "guard", "retire", "isolate", "retry"}

\* The stages of a command that works on what a removal left
AtRemains ==
    {"retry", "halt", "quarantine", "forget", "final1", "final2", "final3", "final4", "final5"}

DirectoryRecords ==
    [at : {"none", "target", "tomb", "aside", "gone"}, meta : BOOLEAN,
     kind : {"bootstrap", "staged", "configuring", "ready"},
     gen : 0..MaxGenerations, pend : 0..MaxGenerations, guard : BOOLEAN,
     marker : Operators \cup {"none", "dead"}, queue : BOOLEAN]

OrderRecords ==
    [cmd : {"none", "install", "uninstall", "remove", "stageRemove", "recover"}, stage : Stages,
     dir : {0} \cup Directories, root : {"target", "tomb", "control"},
     then : {"idle", "check", "done", "retry", "halt", "forget"},
     saw : DirectoryRecords, created : BOOLEAN, start : BOOLEAN]

HostRecords ==
    [unit : BOOLEAN, tomb : BOOLEAN, enabled : BOOLEAN, running : 0..MaxGenerations,
     late : BOOLEAN]

InstallTypes ==
    /\ dirs \in [Directories -> DirectoryRecords]
    /\ orders \in [Operators -> OrderRecords]
    /\ control \in 0..EmptyControl
    /\ refs \subseteq 1..MaxGenerations
    /\ host \in HostRecords
    /\ lockedBy \in [Directories -> Operators \cup {"free"}]
    /\ systemd \in BOOLEAN

\* One directory at the path and one tombstone; the record of a tombstone is in
\* it or in the control directory, unless it was lost.
PlaceInv ==
    /\ \A d \in Directories :
         /\ dirs[d].at \in {"target", "aside"} => dirs[d].meta
         /\ dirs[d].at = "none" => dirs[d].kind = "bootstrap" /\ ~dirs[d].guard
         /\ control = d => dirs[d].at \in {"tomb", "gone"} /\ ~dirs[d].meta
         /\ dirs[d].at = "tomb" =>
              /\ dirs[d].meta \/ control = d \/ dirs[d].gen \in lost
              /\ control \in Directories => control = d
    /\ \A d, e \in Directories :
         dirs[d].at = dirs[e].at /\ dirs[d].at \in {"target", "tomb"} => d = e

\* A generation belongs to one directory, as the recorded or the pending one;
\* what is recorded and not to be removed has its images.
GenerationInv ==
    /\ \A d \in Directories :
         /\ dirs[d].guard => dirs[d].pend = 0
         /\ dirs[d].kind = "bootstrap" => dirs[d].gen = 0
         /\ ~dirs[d].guard => dirs[d].gen \in {0} \cup refs \cup lost
    /\ \A d, e \in Directories :
         /\ dirs[d].gen = dirs[e].gen => d = e \/ dirs[d].gen = 0
         /\ dirs[d].pend = dirs[e].pend => d = e \/ dirs[d].pend = 0
         /\ dirs[d].pend = dirs[e].gen => dirs[d].pend = 0

\* The service does not run the recorded generation of d, and nothing starts it.
Down(d) == host.running = 0 \/ host.running # dirs[d].gen
Silent(d) == dirs[d].at = "target" /\ ~host.late => ~host.enabled /\ ~host.unit

HostInv ==
    /\ \A d \in Directories : host.running # 0 => host.running # dirs[d].pend
    /\ host.enabled /\ ~host.unit => host.late
    /\ \A d \in Directories : dirs[d].guard \/ dirs[d].kind = "staged" => Down(d) /\ Silent(d)

Holds(p) ==
    \/ orders[p].stage \in AtLock
    \/ orders[p].stage = "plan" /\ orders[p].dir # 0
    \/ orders[p].stage = "start" /\ ~systemd

\* What a command is, at a stage
Shape(p) ==
    LET o == orders[p] IN
    /\ o.stage \notin Loose => o.dir \in Directories
    /\ \/ o.root = "target"
       \/ o.stage \in AtRemains
       \/ o.stage = "locking" /\ o.then \in {"retry", "halt", "forget"}
    /\ o.stage = "locking" =>
         /\ o.then # "idle"
         /\ o.then \in {"halt", "forget"} => o.cmd = "recover"
         /\ o.then = "retry" => o.root # "target"
    /\ o.stage = "retry" => o.root # "target"
    /\ o.created => o.root = "target"
    /\ o.stage \in {"plan", "prepare", "stop", "publish", "files", "volume", "copy", "activate"}
         => o.cmd = "install"
    /\ o.stage \in {"halt", "quarantine", "forget"} => o.cmd = "recover"
    /\ o.stage = "disable" => o.cmd # "stageRemove"
    /\ o.stage = "waiting" /\ o.cmd = "install" => o.saw.kind # "staged"
    /\ o.stage \in {"admit", "waiting"} /\ o.cmd = "stageRemove" => o.saw.kind = "staged"

\* What a command relies on under its lock
Under(p) ==
    LET o == orders[p]
        d == dirs[o.dir] IN
    /\ o.stage = "check" /\ o.cmd = "install" => ~d.guard
    /\ (\/ o.stage = "plan" /\ o.dir # 0
        \/ o.stage \in {"prepare", "stop", "publish"}
        \/ o.stage = "admit" /\ o.cmd = "install")
         => ~d.guard /\ d.kind # "staged"
    /\ o.stage \in {"admit", "stop", "publish"} => o.saw.kind = d.kind
    /\ o.stage \in {"publish", "disable", "clear", "guard"} => Down(o.dir)
    /\ o.stage \in {"files", "volume", "copy", "activate", "ready"}
         => d.kind = "configuring" /\ ~d.guard
    /\ o.stage \in {"clear", "guard"} => Silent(o.dir)
    /\ o.stage \in {"down", "disable", "clear", "guard"} => d.at # "none"
    /\ o.stage \in {"down", "guard"} /\ o.cmd = "stageRemove" => d.kind = "staged"
    /\ o.stage = "down" /\ o.cmd = "stageRemove" => d.guard
    /\ o.stage \in {"retire", "isolate"} => d.guard
    /\ o.stage = "isolate" => d.gen \notin refs

\* What holds of a directory that a command has moved or found moved
Left(p) ==
    LET o == orders[p]
        d == dirs[o.dir] IN
    /\ o.stage = "erase" => d.guard /\ d.gen \notin refs
    /\ o.stage \in {"clean3", "erase"} => d.at = "aside"
    /\ o.stage \in {"final1", "final2", "final3"} => d.at \in {"tomb", "gone"}
    /\ o.stage \in {"final4", "final5"} => d.at = "gone"

OrderFits(p) ==
    /\ Shape(p)
    /\ Holds(p) => lockedBy[orders[p].dir] = p
    /\ Under(p)
    /\ Left(p)

\* A directory that was moved aside has one command that will end this.
AsideInv ==
    \A p, q \in Operators :
        /\ p # q
        /\ orders[p].stage \in {"clean3", "erase"} /\ orders[q].stage \in {"clean3", "erase"}
        => orders[p].dir # orders[q].dir

InstallInv ==
    /\ InstallTypes /\ PlaceInv /\ GenerationInv /\ HostInv
    /\ ReferencesOwned /\ RunningHasImages
    /\ \A p \in Operators : OrderFits(p)
    /\ AsideInv

-----------------------------------------------------------------------------
(* What the invariant says of places and roots                              *)

LEMMA NumbersApart ==
    /\ 0 \notin Directories /\ EmptyControl \notin Directories /\ EmptyControl # 0
    /\ Directories \subseteq Nat /\ EmptyControl \in Nat
    /\ Directories \subseteq 0..EmptyControl /\ 0 \in 0..EmptyControl /\ EmptyControl \in 0..EmptyControl
    /\ 0 \in 0..MaxGenerations /\ 0 \notin 1..MaxGenerations
    /\ 1..MaxGenerations \subseteq 0..MaxGenerations
  BY InstallationBounds DEF InstallationBounds, Directories, EmptyControl

\* The directory at the path holds its record, and who found it there and still
\* holds it has it at the path.
LEMMA TargetRoot ==
    ASSUME PlaceInv, InstallTypes, NEW d \in Directories
    PROVE  Root(d) = "target" <=> dirs[d].at = "target"
  BY NumbersApart DEF PlaceInv, InstallTypes, Root, DirectoryRecords

LEMMA HeldAtTarget ==
    ASSUME PlaceInv, InstallTypes, NEW p \in Operators, orders[p].dir \in Directories,
           orders[p].root = "target", Held(p)
    PROVE  dirs[orders[p].dir].at = "target"
  BY TargetRoot DEF Held

\* Where a removal left something, it is a tombstone or has been erased.
LEMMA RemainsPlace ==
    ASSUME PlaceInv, InstallTypes, NEW d \in Directories, Root(d) \in {"tomb", "control"}
    PROVE  dirs[d].at \in {"tomb", "gone"}
  BY NumbersApart DEF PlaceInv, InstallTypes, Root, DirectoryRecords

-----------------------------------------------------------------------------
(* The step of one command and the others                                   *)

Same(d) ==
    /\ dirs'[d].kind = dirs[d].kind /\ dirs'[d].gen = dirs[d].gen
    /\ dirs'[d].pend = dirs[d].pend /\ dirs'[d].guard = dirs[d].guard

SamePlace(d) == dirs'[d].at = dirs[d].at /\ dirs'[d].meta = dirs[d].meta

\* What a step must leave alone for command q: its lock, what it knows of the
\* directory it has locked, and the way of a directory that was moved.
Spares(q) ==
    /\ orders'[q] = orders[q] /\ systemd' = systemd
    /\ \A d \in Directories : lockedBy[d] = q =>
         /\ lockedBy'[d] = q /\ Same(d)
         /\ Down(d) => Down(d)'
         /\ dirs[d].at # "none" => (Silent(d) => Silent(d)')
    /\ \A d \in Directories :
         /\ dirs[d].at # "none" => dirs'[d].at # "none"
         /\ dirs[d].guard => dirs'[d].guard
         /\ dirs[d].guard /\ dirs[d].gen \notin refs => dirs'[d].gen \notin refs'
         /\ dirs[d].at \in {"tomb", "gone"} => dirs'[d].at \in {dirs[d].at, "gone"}
    /\ orders[q].stage \in {"clean3", "erase"} =>
         dirs'[orders[q].dir].at = dirs[orders[q].dir].at

LEMMA Bystander ==
    ASSUME NEW q \in Operators, InstallTypes, OrderFits(q), Spares(q)
    PROVE  OrderFits(q)'
<1> DEFINE o == orders[q]
<1>0. /\ orders'[q] = o /\ systemd' = systemd /\ o.dir \in {0} \cup Directories
      /\ o.stage \in Stages
  BY DEF Spares, InstallTypes, OrderRecords
<1>1. Shape(q)'
  BY <1>0 DEF OrderFits, Shape
<1>2. Holds(q)' <=> Holds(q)
  BY <1>0 DEF Holds
<1>3. Holds(q) => o.dir \in Directories
  BY <1>0, NumbersApart DEF OrderFits, Shape, Holds, Loose, AtLock
<1>4. Holds(q)' => lockedBy'[o.dir] = q
  BY <1>2, <1>3 DEF OrderFits, Spares
<1>5. Under(q)'
  <2>1. CASE Holds(q)
    <3>1. /\ Same(o.dir) /\ (Down(o.dir) => Down(o.dir)')
          /\ dirs[o.dir].at # "none" => dirs'[o.dir].at # "none" /\ (Silent(o.dir) => Silent(o.dir)')
          /\ dirs[o.dir].guard /\ dirs[o.dir].gen \notin refs => dirs'[o.dir].gen \notin refs'
      BY <2>1, <1>3 DEF OrderFits, Spares
    <3>2. (o.stage \in {"publish", "disable", "clear", "guard"} => Down(o.dir)')
          /\ (o.stage \in {"clear", "guard"} => Silent(o.dir)')
      BY <3>1 DEF OrderFits, Under
    <3>3. Down(orders[q].dir)' = Down(o.dir)' /\ Silent(orders[q].dir)' = Silent(o.dir)'
      BY <1>0 DEF Down, Silent
    <3> QED BY <3>1, <3>2, <3>3, <1>0 DEF OrderFits, Under, Same
  <2>2. CASE ~Holds(q)
    BY <2>2, <1>0 DEF Under, Holds, AtLock
  <2> QED BY <2>1, <2>2
<1>6. Left(q)'
  <2>1. CASE o.stage \in {"clean3", "erase", "final1", "final2", "final3", "final4", "final5"}
    <3>1. o.dir \in Directories
      BY <2>1 DEF OrderFits, Shape, Loose
    <3> QED BY <2>1, <3>1, <1>0 DEF OrderFits, Left, Spares
  <2>2. CASE o.stage \notin {"clean3", "erase", "final1", "final2", "final3", "final4", "final5"}
    BY <2>2, <1>0 DEF Left
  <2> QED BY <2>1, <2>2
<1> QED BY <1>0, <1>1, <1>4, <1>5, <1>6 DEF OrderFits


\* A step of command p that changes no record but its own place in it.
Aside(p) ==
    \A q \in Operators \ {p} :
        /\ orders'[q] = orders[q]
        /\ \A d \in Directories : lockedBy[d] = q => lockedBy'[d] = q

LEMMA QuietStep ==
    ASSUME InstallInv, NEW p \in Operators, InstallTypes', Aside(p),
           \A d \in Directories : Same(d) /\ SamePlace(d),
           control' = control, refs' = refs, host' = host, lost' = lost, systemd' = systemd,
           OrderFits(p)', orders'[p].stage \notin {"clean3", "erase"}
    PROVE  InstallInv'
<1>1. PlaceInv'
  BY DEF InstallInv, PlaceInv, Same, SamePlace
<1>2. GenerationInv'
  BY DEF InstallInv, GenerationInv, Same
<1>3. \A d \in Directories : (Down(d)' <=> Down(d)) /\ (Silent(d)' <=> Silent(d))
  BY DEF Down, Silent, Same, SamePlace
<1>4. HostInv'
  BY <1>3 DEF InstallInv, HostInv, Same
<1>5. ReferencesOwned' /\ RunningHasImages'
  <2>1. \A d \in Directories : Root(d)' = Root(d)
    BY DEF Root, SamePlace
  <2>2. RunningHasImages'
    BY DEF InstallInv, RunningHasImages
  <2> QED BY <2>1, <2>2 DEF InstallInv, ReferencesOwned, Same
<1>6. ASSUME NEW q \in Operators \ {p} PROVE OrderFits(q)'
  <2>1. Spares(q)
    <3>1. orders[q].stage \in {"clean3", "erase"} => orders[q].dir \in Directories
      BY DEF InstallInv, OrderFits, Shape, Loose
    <3> QED BY <3>1, <1>3, <1>6 DEF Spares, Aside, Same, SamePlace
  <2> QED BY <2>1, Bystander DEF InstallInv
<1>7. AsideInv'
  BY DEF InstallInv, AsideInv, Aside
<1> QED BY <1>1, <1>2, <1>4, <1>5, <1>6, <1>7 DEF InstallInv

\* A command at these stages relies on nothing.
FreeStages ==
    {"idle", "open", "locking", "waiting", "gone", "clean1", "clean2", "halt", "quarantine", "forget"}

LEMMA FreeFits ==
    ASSUME NEW p \in Operators, orders'[p].stage \in FreeStages, Shape(p)'
    PROVE  OrderFits(p)'
<1>1. Under(p)'
  BY DEF FreeStages, Under
<1>2. Left(p)'
  BY DEF FreeStages, Left
<1>3. ~Holds(p)'
  BY DEF FreeStages, Holds, AtLock
<1> QED BY <1>1, <1>2, <1>3 DEF OrderFits

LEMMA NoOrderType == NoDirectory \in DirectoryRecords /\ NoOrder \in OrderRecords
<1>1. NoDirectory \in DirectoryRecords
  BY NumbersApart DEF NoDirectory, DirectoryRecords
<1> QED BY <1>1 DEF NoOrder, OrderRecords, Stages

LEMMA IdleFits ==
    ASSUME InstallTypes, NEW p \in Operators, Idle(p)
    PROVE  /\ orders' \in [Operators -> OrderRecords]
           /\ orders'[p].stage = "idle" /\ OrderFits(p)'
           /\ \A q \in Operators \ {p} : orders'[q] = orders[q]
<1>1. orders' \in [Operators -> OrderRecords] /\ orders'[p] = NoOrder
  BY NoOrderType DEF InstallTypes, Idle
<1>2. orders'[p].stage = "idle" /\ orders'[p].root = "target"
  BY <1>1 DEF NoOrder
<1>3. Shape(p)'
  BY <1>1, <1>2 DEF Shape, Loose, NoOrder
<1>4. OrderFits(p)'
  BY <1>2, <1>3, FreeFits DEF FreeStages
<1> QED BY <1>1, <1>2, <1>4 DEF Idle, InstallTypes

LEMMA GoType ==
    ASSUME InstallTypes, NEW p \in Operators, NEW stage \in Stages, Go(p, stage)
    PROVE  /\ orders' \in [Operators -> OrderRecords]
           /\ orders'[p] = [orders[p] EXCEPT !.stage = stage]
           /\ orders'[p].stage = stage
           /\ \A q \in Operators \ {p} : orders'[q] = orders[q]
  BY DEF InstallTypes, Go, OrderRecords

\* The cleanup follows whoever created the directory.
LEMMA CleanFits ==
    ASSUME InstallTypes, NEW p \in Operators, Shape(p), orders[p].created, Go(p, "clean1")
    PROVE  OrderFits(p)'
<1>1. orders'[p] = [orders[p] EXCEPT !.stage = "clean1"] /\ orders[p] \in OrderRecords
  BY GoType DEF Stages, InstallTypes
<1>2. orders'[p].stage = "clean1" /\ orders'[p].root = orders[p].root
      /\ orders'[p].created = orders[p].created
  BY <1>1 DEF OrderRecords
<1>3. Shape(p)'
  BY <1>2 DEF Shape, Loose
<1> QED BY <1>2, <1>3, FreeFits DEF FreeStages

LEMMA UnlockType ==
    ASSUME InstallTypes, NEW p \in Operators, Unlock(p)
    PROVE  /\ lockedBy' \in [Directories -> Operators \cup {"free"}]
           /\ \A q \in Operators \ {p} : \A d \in Directories : lockedBy[d] = q => lockedBy'[d] = q
  BY DEF InstallTypes, Unlock

\* How a command leaves: whatever was decided, only its marker and its lock go.
LEMMA LeaveFits ==
    ASSUME InstallTypes, NEW p \in Operators, Shape(p), NEW failed \in BOOLEAN, Leave(p, failed),
           orders[p].dir \in Directories
    PROVE  /\ dirs' \in [Directories -> DirectoryRecords]
           /\ orders' \in [Operators -> OrderRecords]
           /\ lockedBy' \in [Directories -> Operators \cup {"free"}]
           /\ \A d \in Directories : Same(d) /\ SamePlace(d)
           /\ Aside(p)
           /\ OrderFits(p)' /\ orders'[p].stage \notin {"clean3", "erase"}
<1> DEFINE d == orders[p].dir
<1>1. PICK m \in {"dead", "none"} :
        dirs' = dirs \/ dirs' = [dirs EXCEPT ![d].marker = m]
  BY DEF Leave
<1>2. dirs' \in [Directories -> DirectoryRecords]
  BY <1>1 DEF InstallTypes, DirectoryRecords
<1>3. \A e \in Directories : Same(e) /\ SamePlace(e)
  BY <1>1 DEF InstallTypes, DirectoryRecords, Same, SamePlace
<1>4. Unlock(p)
  BY DEF Leave
<1>5. CASE Idle(p)
  BY <1>2, <1>3, <1>4, <1>5, IdleFits, UnlockType DEF Aside
<1>6. CASE orders[p].created /\ Go(p, "clean1")
  <2>1. OrderFits(p)'
    BY <1>6, CleanFits
  <2>2. "clean1" \in Stages
    BY DEF Stages
  <2>3. /\ orders' \in [Operators -> OrderRecords] /\ orders'[p].stage = "clean1"
        /\ \A q \in Operators \ {p} : orders'[q] = orders[q]
    BY <1>6, <2>2, GoType
  <2> QED BY <1>2, <1>3, <1>4, <2>1, <2>3, UnlockType DEF Aside
<1> QED BY <1>5, <1>6 DEF Leave

LEMMA LeaveStep ==
    ASSUME InstallInv, NEW p \in Operators, NEW failed \in BOOLEAN, Leave(p, failed),
           orders[p].dir \in Directories,
           UNCHANGED <<control, refs, host, lost, systemd>>
    PROVE  InstallInv'
<1>1. InstallTypes /\ Shape(p)
  BY DEF InstallInv, OrderFits
<1>2. /\ dirs' \in [Directories -> DirectoryRecords]
      /\ orders' \in [Operators -> OrderRecords]
      /\ lockedBy' \in [Directories -> Operators \cup {"free"}]
      /\ \A d \in Directories : Same(d) /\ SamePlace(d)
      /\ Aside(p)
      /\ OrderFits(p)' /\ orders'[p].stage \notin {"clean3", "erase"}
  BY <1>1, LeaveFits
<1>3. InstallTypes'
  BY <1>1, <1>2 DEF InstallTypes
<1> QED BY <1>2, <1>3, QuietStep

LEMMA UnleasedFits ==
    ASSUME InstallTypes, NEW p \in Operators, dirs' = Unleased(p)
    PROVE  /\ dirs' \in [Directories -> DirectoryRecords]
           /\ \A d \in Directories : Same(d) /\ SamePlace(d)
  BY DEF InstallTypes, Unleased, DirectoryRecords, Same, SamePlace

-----------------------------------------------------------------------------
(* Steps that change no record                                              *)

LEMMA Unmoved ==
    ASSUME dirs' = dirs
    PROVE  \A d \in Directories : Same(d) /\ SamePlace(d)
  BY DEF Same, SamePlace

\* A command that only gets to another place, all else being as it was
LEMMA OnlyOrder ==
    ASSUME InstallInv, NEW p \in Operators,
           dirs' = dirs, control' = control, refs' = refs, host' = host, lost' = lost,
           systemd' = systemd, lockedBy' = lockedBy,
           orders' \in [Operators -> OrderRecords],
           \A q \in Operators \ {p} : orders'[q] = orders[q],
           OrderFits(p)', orders'[p].stage \notin {"clean3", "erase"}
    PROVE  InstallInv'
<1>1. InstallTypes'
  BY DEF InstallInv, InstallTypes
<1> QED BY <1>1, Unmoved, QuietStep DEF Aside

LEMMA IssueInstallStep ==
    ASSUME InstallInv, NEW p \in Operators, NEW start \in BOOLEAN, IssueInstall(p, start)
    PROVE  InstallInv'
<1> DEFINE o == [Order(p, "install", start) EXCEPT !.stage = "plan"]
           l(d) == [Order(p, "install", start) EXCEPT !.stage = "locking", !.dir = d,
                                                      !.root = Root(d), !.then = "check"]
<1>0. InstallTypes /\ PlaceInv
  BY DEF InstallInv
<1>1. UNCHANGED <<dirs, control, refs, host, lost, systemd, lockedBy>>
  BY DEF IssueInstall, installed
<1>2. CASE orders' = [orders EXCEPT ![p] = o]
  <2>1. o \in OrderRecords /\ o.stage = "plan" /\ o.dir = 0 /\ o.root = "target"
        /\ o.cmd = "install" /\ ~o.created
    BY NoOrderType DEF Order, NoOrder, OrderRecords, Stages
  <2>2. orders' \in [Operators -> OrderRecords] /\ orders'[p] = o
        /\ \A q \in Operators \ {p} : orders'[q] = orders[q]
    BY <1>0, <1>2, <2>1 DEF InstallTypes
  <2>3. OrderFits(p)'
    <3>1. Shape(p)'
      BY <2>1, <2>2 DEF Shape, Loose
    <3>2. Under(p)' /\ Left(p)' /\ ~Holds(p)'
      BY <2>1, <2>2 DEF Under, Left, Holds, AtLock
    <3> QED BY <3>1, <3>2 DEF OrderFits
  <2> QED BY <1>1, <2>1, <2>2, <2>3, OnlyOrder
<1>3. CASE \E d \in AtTarget : orders' = [orders EXCEPT ![p] = l(d)]
  <2>1. PICK d \in AtTarget : orders' = [orders EXCEPT ![p] = l(d)]
    BY <1>3
  <2>2. d \in Directories /\ Root(d) = "target"
    BY <1>0, TargetRoot DEF AtTarget
  <2>3. l(d) \in OrderRecords /\ l(d).stage = "locking" /\ l(d).dir = d /\ l(d).root = "target"
        /\ l(d).then = "check"
    BY <2>2, NoOrderType DEF Order, NoOrder, OrderRecords, Stages
  <2> HIDE DEF l
  <2>4. orders' \in [Operators -> OrderRecords] /\ orders'[p] = l(d)
        /\ \A q \in Operators \ {p} : orders'[q] = orders[q]
    BY <1>0, <2>1, <2>3 DEF InstallTypes
  <2>5. Shape(p)'
    BY <2>2, <2>3, <2>4 DEF Shape, Loose
  <2>6. OrderFits(p)'
    BY <2>3, <2>4, <2>5, FreeFits DEF FreeStages
  <2> QED BY <1>1, <2>3, <2>4, <2>6, OnlyOrder
<1> QED BY <1>2, <1>3 DEF IssueInstall

LEMMA IssueUninstallStep ==
    ASSUME InstallInv, NEW p \in Operators, NEW cmd \in {"uninstall", "remove", "stageRemove"},
           IssueUninstall(p, cmd)
    PROVE  InstallInv'
<1> DEFINE l(d, t) == [Order(p, cmd, FALSE) EXCEPT !.stage = "locking", !.dir = d,
                                                   !.root = Root(d), !.then = t]
<1>0. InstallTypes /\ PlaceInv
  BY DEF InstallInv
<1>1. UNCHANGED <<dirs, control, refs, host, lost, systemd, lockedBy>>
  BY DEF IssueUninstall, installed
<1>2. PICK d \in Directories, t \in {"check", "retry"} :
        /\ orders' = [orders EXCEPT ![p] = l(d, t)]
        /\ t = "check" => Root(d) = "target"
        /\ t = "retry" => Root(d) \in {"tomb", "control"}
  BY <1>0, TargetRoot DEF IssueUninstall, AtTarget, Pending
<1>3. l(d, t) \in OrderRecords /\ l(d, t).stage = "locking" /\ l(d, t).dir = d
      /\ l(d, t).root = Root(d) /\ l(d, t).then = t /\ ~l(d, t).created
  BY <1>2, NoOrderType DEF Order, NoOrder, OrderRecords, Stages
<1> HIDE DEF l
<1>4. orders' \in [Operators -> OrderRecords] /\ orders'[p] = l(d, t)
      /\ \A q \in Operators \ {p} : orders'[q] = orders[q]
  BY <1>0, <1>2, <1>3 DEF InstallTypes
<1>5. Shape(p)'
  BY <1>2, <1>3, <1>4 DEF Shape, Loose
<1>6. OrderFits(p)'
  BY <1>3, <1>4, <1>5, FreeFits DEF FreeStages
<1> QED BY <1>1, <1>3, <1>4, <1>6, OnlyOrder

LEMMA IssueRecoveryStep ==
    ASSUME InstallInv, NEW p \in Operators, IssueRecovery(p)
    PROVE  InstallInv'
<1> DEFINE first == IF host.unit THEN "halt" ELSE "forget"
           o == [Order(p, "recover", FALSE) EXCEPT !.stage = first]
           l(d) == [Order(p, "recover", FALSE) EXCEPT !.stage = "locking", !.dir = d,
                                                      !.root = Root(d), !.then = first]
<1>0. InstallTypes /\ PlaceInv
  BY DEF InstallInv
<1>1. UNCHANGED <<dirs, control, refs, host, lost, systemd, lockedBy>>
  BY DEF IssueRecovery, installed
<1>2. first \in {"halt", "forget"}
  OBVIOUS
<1>3. CASE orders' = [orders EXCEPT ![p] = o]
  <2>1. o \in OrderRecords /\ o.stage = first /\ o.root = "target" /\ o.cmd = "recover"
        /\ ~o.created
    BY <1>2, NoOrderType DEF Order, NoOrder, OrderRecords, Stages
  <2> HIDE DEF o
  <2>2. orders' \in [Operators -> OrderRecords] /\ orders'[p] = o
        /\ \A q \in Operators \ {p} : orders'[q] = orders[q]
    BY <1>0, <1>3, <2>1 DEF InstallTypes
  <2>3. Shape(p)'
    BY <1>2, <2>1, <2>2 DEF Shape, Loose
  <2>4. OrderFits(p)'
    BY <1>2, <2>1, <2>2, <2>3, FreeFits DEF FreeStages
  <2> QED BY <1>1, <1>2, <2>1, <2>2, <2>4, OnlyOrder
<1>4. CASE \E d \in Pending : orders' = [orders EXCEPT ![p] = l(d)]
  <2>1. PICK d \in Pending : orders' = [orders EXCEPT ![p] = l(d)]
    BY <1>4
  <2>2. d \in Directories /\ Root(d) \in {"tomb", "control"}
    BY DEF Pending
  <2>3. l(d) \in OrderRecords /\ l(d).stage = "locking" /\ l(d).dir = d
        /\ l(d).then = first /\ l(d).cmd = "recover" /\ ~l(d).created
    BY <1>2, <2>2, NoOrderType DEF Order, NoOrder, OrderRecords, Stages
  <2> HIDE DEF l, first
  <2>4. orders' \in [Operators -> OrderRecords] /\ orders'[p] = l(d)
        /\ \A q \in Operators \ {p} : orders'[q] = orders[q]
    BY <1>0, <2>1, <2>3 DEF InstallTypes
  <2>5. Shape(p)'
    BY <1>2, <2>2, <2>3, <2>4 DEF Shape, Loose
  <2>6. OrderFits(p)'
    BY <2>3, <2>4, <2>5, FreeFits DEF FreeStages
  <2> QED BY <1>1, <2>3, <2>4, <2>6, OnlyOrder
<1> QED BY <1>3, <1>4 DEF IssueRecovery

\* The fields of a command that only changes its stage
LEMMA GoFields ==
    ASSUME InstallTypes, NEW p \in Operators, NEW stage \in Stages, Go(p, stage)
    PROVE  /\ orders'[p].stage = stage /\ orders'[p].dir = orders[p].dir
           /\ orders'[p].root = orders[p].root /\ orders'[p].then = orders[p].then
           /\ orders'[p].saw = orders[p].saw /\ orders'[p].cmd = orders[p].cmd
           /\ orders'[p].created = orders[p].created
<1>1. orders[p] \in OrderRecords
  BY DEF InstallTypes
<1> QED BY ZenonT(40), <1>1, GoType DEF OrderRecords

\* The fields of a command that waits for the lock of d
LEMMA LockingFields ==
    ASSUME InstallTypes, NEW p \in Operators, NEW d \in Directories, NEW t \in {"check", "done"},
           Root(d) = "target", Locking(p, d, t)
    PROVE  /\ orders' \in [Operators -> OrderRecords]
           /\ orders'[p].stage = "locking" /\ orders'[p].dir = d /\ orders'[p].then = t
           /\ orders'[p].root = "target"
           /\ \A q \in Operators \ {p} : orders'[q] = orders[q]
<1> DEFINE r == [orders[p] EXCEPT !.stage = "locking", !.dir = d, !.root = Root(d), !.then = t]
<1>1. orders[p] \in OrderRecords /\ orders \in [Operators -> OrderRecords]
  BY DEF InstallTypes
<1>2. orders' = [orders EXCEPT ![p] = r]
  BY <1>1 DEF Locking, OrderRecords
<1>3. r \in OrderRecords /\ r.stage = "locking" /\ r.dir = d /\ r.then = t /\ r.root = "target"
  BY ZenonT(40), <1>1 DEF OrderRecords, Stages
<1> HIDE DEF r
<1> QED BY <1>1, <1>2, <1>3

LEMMA OpenDestinationStep ==
    ASSUME InstallInv, NEW p \in Operators, OpenDestination(p)
    PROVE  InstallInv'
<1>0. InstallTypes /\ PlaceInv /\ Shape(p)
  BY DEF InstallInv, OrderFits
<1>1. UNCHANGED <<dirs, control, refs, host, lost, systemd, lockedBy>>
  BY DEF OpenDestination, installed, Steady
<1>2. CASE orders[p].created /\ Go(p, "clean1")
  <2>1. OrderFits(p)'
    BY <1>0, <1>2, CleanFits
  <2>2. "clean1" \in Stages
    BY DEF Stages
  <2>3. /\ orders' \in [Operators -> OrderRecords] /\ orders'[p].stage = "clean1"
        /\ \A q \in Operators \ {p} : orders'[q] = orders[q]
    BY <1>0, <1>2, <2>2, GoType
  <2> QED BY <1>1, <2>1, <2>3, OnlyOrder
<1>3. CASE Idle(p)
  BY <1>0, <1>1, <1>3, IdleFits, OnlyOrder
<1>4. CASE \E d \in AtTarget : Locking(p, d, "check")
  <2>1. PICK d \in AtTarget : Locking(p, d, "check")
    BY <1>4
  <2>2. d \in Directories /\ Root(d) = "target"
    BY <1>0, TargetRoot DEF AtTarget
  <2>3. /\ orders' \in [Operators -> OrderRecords]
        /\ orders'[p].stage = "locking" /\ orders'[p].dir = d /\ orders'[p].then = "check"
        /\ orders'[p].root = "target"
        /\ \A q \in Operators \ {p} : orders'[q] = orders[q]
    BY <1>0, <2>1, <2>2, LockingFields
  <2>4. Shape(p)'
    BY <2>2, <2>3 DEF Shape, Loose
  <2>5. OrderFits(p)'
    BY <2>3, <2>4, FreeFits DEF FreeStages
  <2> QED BY <1>1, <2>3, <2>5, OnlyOrder
<1> QED BY <1>2, <1>3, <1>4 DEF OpenDestination

LEMMA FactsType ==
    ASSUME NEW d \in DirectoryRecords
    PROVE  /\ Facts(d) \in DirectoryRecords
           /\ Facts(d).kind = d.kind
  BY DEF Facts, DirectoryRecords

LEMMA PrepareDestinationStep ==
    ASSUME InstallInv, NEW p \in Operators, PrepareDestination(p)
    PROVE  InstallInv'
<1> DEFINE o == orders[p]
<1>0. InstallTypes /\ PlaceInv /\ OrderFits(p) /\ o.stage = "prepare" /\ o \in OrderRecords
      /\ o.dir \in Directories
  BY DEF InstallInv, OrderFits, Shape, PrepareDestination, InstallTypes, Loose
<1>1. UNCHANGED <<dirs, control, refs, host, lost, systemd, lockedBy>>
  BY DEF PrepareDestination, installed, Steady
<1>2. dirs[o.dir] \in DirectoryRecords
  BY <1>0 DEF InstallTypes
<1>3. /\ orders' \in [Operators -> OrderRecords]
      /\ orders'[p] = [o EXCEPT !.stage = "admit", !.saw = Facts(dirs[o.dir])]
      /\ \A q \in Operators \ {p} : orders'[q] = orders[q]
  BY <1>0, <1>2, FactsType DEF PrepareDestination, InstallTypes, OrderRecords, Stages
<1>4. /\ orders'[p].stage = "admit" /\ orders'[p].dir = o.dir /\ orders'[p].cmd = o.cmd
      /\ orders'[p].root = o.root /\ orders'[p].created = o.created
      /\ orders'[p].saw.kind = dirs[o.dir].kind
  BY <1>0, <1>2, <1>3, FactsType DEF OrderRecords
<1>5. OrderFits(p)'
  <2>1. Shape(p)'
    BY <1>0, <1>4 DEF OrderFits, Shape, AtRemains, Loose
  <2>2. o.cmd = "install" /\ ~dirs[o.dir].guard /\ dirs[o.dir].kind # "staged"
    BY <1>0 DEF OrderFits, Shape, Under
  <2>4. Under(p)'
    BY <1>1, <1>4, <2>2 DEF Under
  <2>5. Left(p)'
    BY <1>4 DEF Left
  <2>3. lockedBy'[orders'[p].dir] = p
    BY <1>0, <1>1, <1>4 DEF OrderFits, Holds, AtLock
  <2> QED BY <2>1, <2>3, <2>4, <2>5 DEF OrderFits
<1> QED BY <1>1, <1>3, <1>4, <1>5, OnlyOrder

LEMMA CleanupLooksStep ==
    ASSUME InstallInv, NEW p \in Operators, CleanupLooks(p)
    PROVE  InstallInv'
<1>0. InstallTypes /\ Shape(p) /\ orders[p].stage = "clean1"
  BY DEF InstallInv, OrderFits, CleanupLooks
<1>1. UNCHANGED <<dirs, control, refs, host, lost, systemd, lockedBy>>
  BY DEF CleanupLooks, installed, Steady
<1>2. CASE Idle(p)
  BY <1>0, <1>1, <1>2, IdleFits, OnlyOrder
<1>3. CASE Go(p, "clean2")
  <2>1. "clean2" \in Stages
    BY DEF Stages
  <2>2. Shape(p)' /\ orders'[p].stage = "clean2"
    BY <1>0, <1>3, <2>1, GoFields DEF Shape, Loose, AtRemains
  <2>3. OrderFits(p)'
    BY <2>2, FreeFits DEF FreeStages
  <2> QED BY <1>0, <1>1, <1>3, <2>1, <2>2, <2>3, GoType, OnlyOrder
<1> QED BY <1>2, <1>3 DEF CleanupLooks

\* Under its lock an install gets from one stage to the next without a change
\* of what is recorded.
LEMMA CreateVolumeStep ==
    ASSUME InstallInv, NEW p \in Operators, CreateVolume(p)
    PROVE  InstallInv'
<1>0. InstallTypes /\ OrderFits(p) /\ orders[p].stage = "volume"
  BY DEF InstallInv, CreateVolume
<1>1. UNCHANGED <<dirs, control, refs, host, lost, systemd, lockedBy>>
  BY DEF CreateVolume, Steady
<1>2. PICK s \in {"activate", "copy"} : Go(p, s)
  BY DEF CreateVolume
<1>3. s \in Stages
  BY DEF Stages
<1>4. OrderFits(p)'
  <2>1. Shape(p)'
    BY <1>0, <1>2, <1>3, GoFields DEF OrderFits, Shape, Loose, AtRemains
  <2>2. Under(p)' /\ Left(p)'
    BY <1>0, <1>1, <1>2, <1>3, GoFields DEF OrderFits, Under, Left
  <2>3. lockedBy'[orders'[p].dir] = p
    BY <1>0, <1>1, <1>2, <1>3, GoFields DEF OrderFits, Holds, AtLock
  <2> QED BY <2>1, <2>2, <2>3 DEF OrderFits
<1> QED BY <1>0, <1>1, <1>2, <1>3, <1>4, GoType, OnlyOrder

-----------------------------------------------------------------------------
(* Locks, admission and leaving                                             *)

\* A command that has a directory, for the stages at which it may leave
LEMMA HasDirectory ==
    ASSUME InstallInv, NEW p \in Operators, orders[p].stage \notin Loose
    PROVE  orders[p].dir \in Directories
  BY DEF InstallInv, OrderFits, Shape

\* A command under its lock whose directory is still where it found it
LEMMA LockedTarget ==
    ASSUME InstallInv, NEW p \in Operators, orders[p].stage \in AtLock \ {"retry"}, Held(p)
    PROVE  /\ orders[p].dir \in Directories /\ lockedBy[orders[p].dir] = p
           /\ orders[p].root = "target" /\ dirs[orders[p].dir].at = "target"
<1>1. InstallTypes /\ PlaceInv /\ OrderFits(p) /\ orders[p].dir \in Directories
  BY HasDirectory DEF InstallInv, AtLock, Loose
<1>2. lockedBy[orders[p].dir] = p /\ orders[p].root = "target"
  BY <1>1 DEF OrderFits, Shape, Holds, AtRemains, AtLock
<1> QED BY <1>1, <1>2, HeldAtTarget

\* A command ends, with what it marked taken for a dead owner's.
LEMMA AbandonedStep ==
    ASSUME InstallInv, NEW p \in Operators, Idle(p), dirs' = dirs \/ dirs' = Unleased(p),
           lockedBy' = lockedBy \/ Unlock(p),
           UNCHANGED <<control, refs, host, lost, systemd>>
    PROVE  InstallInv'
<1>0. InstallTypes
  BY DEF InstallInv
<1>1. dirs' \in [Directories -> DirectoryRecords] /\ \A d \in Directories : Same(d) /\ SamePlace(d)
  BY <1>0, Unmoved, UnleasedFits DEF InstallTypes
<1>2. lockedBy' \in [Directories -> Operators \cup {"free"}]
      /\ \A q \in Operators \ {p} : \A d \in Directories : lockedBy[d] = q => lockedBy'[d] = q
  BY <1>0, UnlockType DEF InstallTypes
<1>3. orders' \in [Operators -> OrderRecords] /\ orders'[p].stage = "idle" /\ OrderFits(p)'
      /\ \A q \in Operators \ {p} : orders'[q] = orders[q]
  BY <1>0, IdleFits
<1>4. InstallTypes' /\ Aside(p)
  BY <1>0, <1>1, <1>2, <1>3 DEF InstallTypes, Aside
<1> QED BY <1>1, <1>3, <1>4, QuietStep

\* A command gives up its wait and cleans up what it created.
LEMMA CleaningStep ==
    ASSUME InstallInv, NEW p \in Operators, orders[p].created, Go(p, "clean1"),
           dirs' = dirs \/ dirs' = Unleased(p), lockedBy' = lockedBy,
           UNCHANGED <<control, refs, host, lost, systemd>>
    PROVE  InstallInv'
<1>0. InstallTypes /\ Shape(p)
  BY DEF InstallInv, OrderFits
<1>1. dirs' \in [Directories -> DirectoryRecords] /\ \A d \in Directories : Same(d) /\ SamePlace(d)
  BY <1>0, Unmoved, UnleasedFits DEF InstallTypes
<1>2. "clean1" \in Stages
  BY DEF Stages
<1>3. orders' \in [Operators -> OrderRecords] /\ orders'[p].stage = "clean1"
      /\ \A q \in Operators \ {p} : orders'[q] = orders[q]
  BY <1>0, <1>2, GoType
<1>4. OrderFits(p)'
  BY <1>0, CleanFits
<1>5. InstallTypes' /\ Aside(p)
  BY <1>0, <1>1, <1>3 DEF InstallTypes, Aside
<1> QED BY <1>1, <1>3, <1>4, <1>5, QuietStep

LEMMA LockStep ==
    ASSUME InstallInv, NEW p \in Operators, Lock(p)
    PROVE  InstallInv'
<1> DEFINE o == orders[p]
<1>0. InstallTypes /\ OrderFits(p) /\ o.stage = "locking" /\ o \in OrderRecords
  BY DEF InstallInv, Lock, InstallTypes
<1>1. UNCHANGED <<control, refs, host, lost, systemd>>
  BY DEF Lock, Steady
<1>2. o.dir \in Directories /\ lockedBy[o.dir] = "free"
  BY <1>0, HasDirectory DEF Lock, Loose
<1>3. CASE /\ (o.cmd = "install" => ~dirs[o.dir].guard)
           /\ lockedBy' = [lockedBy EXCEPT ![o.dir] = p]
           /\ Go(p, o.then) /\ dirs' = dirs
  <2>1. o.then \in {"check", "done", "retry", "halt", "forget"} /\ o.then \in Stages
    BY <1>0 DEF OrderRecords, OrderFits, Shape, Stages
  <2>2. /\ orders'[p].stage = o.then /\ orders'[p].dir = o.dir /\ orders'[p].root = o.root
        /\ orders'[p].cmd = o.cmd /\ orders'[p].created = o.created
    BY <1>0, <1>3, <2>1, GoFields
  <2>3. orders' \in [Operators -> OrderRecords]
        /\ \A q \in Operators \ {p} : orders'[q] = orders[q]
    BY <1>0, <1>3, <2>1, GoType
  <2>4. Shape(p)'
    BY <1>0, <1>2, <2>1, <2>2 DEF OrderFits, Shape, AtRemains
  <2>5. Under(p)'
    BY <1>3, <2>1, <2>2 DEF Under
  <2>6. Left(p)'
    BY <2>1, <2>2 DEF Left
  <2>7. lockedBy'[o.dir] = p /\ lockedBy' \in [Directories -> Operators \cup {"free"}]
        /\ \A q \in Operators \ {p} : \A d \in Directories : lockedBy[d] = q => lockedBy'[d] = q
    BY <1>0, <1>2, <1>3 DEF InstallTypes, Operators
  <2>8. OrderFits(p)'
    BY <2>2, <2>4, <2>5, <2>6, <2>7 DEF OrderFits
  <2>9. InstallTypes' /\ Aside(p)
    BY <1>0, <1>1, <1>3, <2>3, <2>7 DEF InstallTypes, Aside
  <2> QED BY <1>1, <1>3, <2>1, <2>2, <2>8, <2>9, Unmoved, QuietStep
<1>4. CASE dirs' = Unleased(p) /\ lockedBy' = lockedBy /\ o.created /\ Go(p, "clean1")
  BY <1>1, <1>4, CleaningStep
<1>5. CASE dirs' = Unleased(p) /\ lockedBy' = lockedBy /\ Idle(p)
  BY <1>1, <1>5, AbandonedStep
<1> QED BY <1>3, <1>4, <1>5 DEF Lock

\* A command is admitted: its marker and the queue file, and its next stage.
LEMMA AdmittedStep ==
    ASSUME InstallInv, NEW p \in Operators, orders[p].dir \in Directories,
           NEW u \in BOOLEAN,
           dirs' = [dirs EXCEPT ![orders[p].dir].marker = p, ![orders[p].dir].queue = u],
           Go(p, Admitted(orders[p].cmd)),
           orders[p].root = "target",
           lockedBy' \in [Directories -> Operators \cup {"free"}], lockedBy'[orders[p].dir] = p,
           \A q \in Operators \ {p} : \A d \in Directories : lockedBy[d] = q => lockedBy'[d] = q,
           UNCHANGED <<control, refs, host, lost, systemd>>,
           orders[p].saw.kind = dirs[orders[p].dir].kind,
           ~dirs[orders[p].dir].guard, dirs[orders[p].dir].at # "none",
           orders[p].cmd = "install" => dirs[orders[p].dir].kind # "staged",
           orders[p].cmd = "stageRemove" => dirs[orders[p].dir].kind = "staged"
    PROVE  InstallInv'
<1> DEFINE o == orders[p]
           s == Admitted(o.cmd)
<1>0. InstallTypes /\ s \in {"stop", "down", "guard"} /\ s \in Stages
      /\ (s = "stop" => o.cmd = "install") /\ (s = "down" => o.cmd # "stageRemove")
      /\ (s = "guard" => o.cmd = "stageRemove")
  BY DEF InstallInv, Stages, Admitted
<1>1. dirs' \in [Directories -> DirectoryRecords] /\ \A d \in Directories : Same(d) /\ SamePlace(d)
  BY <1>0 DEF InstallTypes, DirectoryRecords, Same, SamePlace
<1>2. /\ orders'[p].stage = s /\ orders'[p].dir = o.dir /\ orders'[p].root = o.root
      /\ orders'[p].cmd = o.cmd /\ orders'[p].created = o.created /\ orders'[p].saw = o.saw
  BY <1>0, GoFields
<1>3. orders' \in [Operators -> OrderRecords]
      /\ \A q \in Operators \ {p} : orders'[q] = orders[q]
  BY <1>0, GoType
<1> HIDE DEF s
<1>4. Shape(p)'
  BY <1>0, <1>2 DEF Shape
<1>5. Under(p)'
  <2>1. s = "guard" => Down(o.dir) /\ Silent(o.dir)
    BY <1>0 DEF InstallInv, HostInv
  <2>2. s = "guard" => Down(orders[p].dir)' /\ Silent(orders[p].dir)'
    BY <1>1, <1>2, <2>1 DEF Down, Silent, Same, SamePlace
  <2> QED BY <1>0, <1>1, <1>2, <2>2 DEF Under, Same, SamePlace
<1>6. Left(p)'
  BY <1>0, <1>2 DEF Left
<1>7. OrderFits(p)'
  BY <1>2, <1>4, <1>5, <1>6 DEF OrderFits
<1>8. InstallTypes' /\ Aside(p)
  BY <1>0, <1>1, <1>3 DEF InstallTypes, Aside
<1> QED BY <1>0, <1>1, <1>2, <1>7, <1>8, QuietStep

LEMMA AdmitAtOnceStep ==
    ASSUME InstallInv, NEW p \in Operators, AdmitAtOnce(p)
    PROVE  InstallInv'
<1> DEFINE o == orders[p]
<1>0. InstallTypes /\ OrderFits(p) /\ o.stage = "admit" /\ o.dir \in Directories
  BY HasDirectory DEF InstallInv, AdmitAtOnce, Loose
<1>1. lockedBy[o.dir] = p /\ lockedBy' = lockedBy
  BY <1>0 DEF AdmitAtOnce, OrderFits, Holds, AtLock
<1>2. /\ o.root = "target" /\ o.saw.kind = dirs[o.dir].kind
      /\ o.cmd = "install" => dirs[o.dir].kind # "staged"
      /\ o.cmd = "stageRemove" => dirs[o.dir].kind = "staged"
  BY <1>0 DEF OrderFits, Shape, Under, AtRemains
<1>3. lockedBy \in [Directories -> Operators \cup {"free"}] /\ dirs[o.dir].at = "target"
  BY <1>0, LockedTarget DEF InstallTypes, AdmitAtOnce, AtLock
<1>4. /\ dirs' = [dirs EXCEPT ![o.dir].marker = p, ![o.dir].queue = TRUE]
      /\ Go(p, Admitted(o.cmd))
      /\ ~dirs[o.dir].guard
      /\ UNCHANGED <<control, refs, host, lost, systemd>>
  BY DEF AdmitAtOnce, Steady
<1> QED BY <1>0, <1>1, <1>2, <1>3, <1>4, AdmittedStep

LEMMA AdmitWaitsStep ==
    ASSUME InstallInv, NEW p \in Operators, AdmitWaits(p)
    PROVE  InstallInv'
<1> DEFINE o == orders[p]
<1>0. InstallTypes /\ OrderFits(p) /\ o.stage = "admit" /\ o.dir \in Directories
  BY HasDirectory DEF InstallInv, AdmitWaits, Loose
<1>1. UNCHANGED <<control, refs, host, lost, systemd>> /\ Unlock(p) /\ Go(p, "waiting")
      /\ dirs' = [dirs EXCEPT ![o.dir].queue = TRUE]
  BY DEF AdmitWaits, Steady
<1>2. dirs' \in [Directories -> DirectoryRecords] /\ \A d \in Directories : Same(d) /\ SamePlace(d)
  <2>1. dirs' \in [Directories -> DirectoryRecords]
    BY ZenonT(40), <1>0, <1>1 DEF InstallTypes, DirectoryRecords
  <2>2. \A d \in Directories : Same(d) /\ SamePlace(d)
    BY <1>0, <1>1 DEF InstallTypes, DirectoryRecords, Same, SamePlace
  <2> QED BY <2>1, <2>2
<1>3. "waiting" \in Stages
  BY DEF Stages
<1>4. /\ orders'[p].stage = "waiting" /\ orders'[p].dir = o.dir /\ orders'[p].root = o.root
      /\ orders'[p].cmd = o.cmd /\ orders'[p].created = o.created /\ orders'[p].saw = o.saw
  BY <1>0, <1>1, <1>3, GoFields
<1>5. orders' \in [Operators -> OrderRecords]
      /\ \A q \in Operators \ {p} : orders'[q] = orders[q]
  BY <1>0, <1>1, <1>3, GoType
<1>6. Shape(p)'
  BY <1>0, <1>4 DEF OrderFits, Shape, Under, AtRemains
<1>7. OrderFits(p)'
  BY <1>4, <1>6, FreeFits DEF FreeStages
<1>8. InstallTypes' /\ Aside(p)
  BY <1>0, <1>1, <1>2, <1>5, UnlockType DEF InstallTypes, Aside
<1> QED BY <1>1, <1>2, <1>4, <1>7, <1>8, QuietStep

\* Every way out of a stage under the lock
LEMMA GivesStep ==
    ASSUME InstallInv, NEW p \in Operators, orders[p].stage \in AtLock, Gives(p)
    PROVE  InstallInv'
<1>1. orders[p].dir \in Directories
  BY HasDirectory DEF AtLock, Loose
<1> QED BY <1>1, LeaveStep DEF Gives

LEMMA RefusalSteps ==
    ASSUME InstallInv, NEW p \in Operators,
           \/ DestinationRefused(p) \/ AdmitRefusedBeside(p) \/ PublishRefused(p)
           \/ \E stage \in FailingStages : GivesUp(p, stage)
    PROVE  InstallInv'
<1>1. Gives(p) /\ orders[p].stage \in AtLock
  BY DEF DestinationRefused, AdmitRefusedBeside, PublishRefused, GivesUp, FailingStages, AtLock
<1> QED BY <1>1, GivesStep

LEMMA LeavingSteps ==
    ASSUME InstallInv, NEW p \in Operators, Done(p) \/ IsolateRefused(p)
    PROVE  InstallInv'
<1>1. /\ orders[p].stage \in AtLock /\ Leave(p, FALSE)
      /\ UNCHANGED <<control, refs, host, lost, systemd>>
  BY DEF Done, IsolateRefused, AtLock, Steady
<1>2. orders[p].dir \in Directories
  BY <1>1, HasDirectory DEF AtLock, Loose
<1> QED BY <1>1, <1>2, LeaveStep

LEMMA EndingSteps ==
    ASSUME InstallInv, NEW p \in Operators, StartLost(p) \/ PlanFails(p) \/ KillOrder(p)
    PROVE  InstallInv'
<1>1. CASE StartLost(p)
  BY <1>1, AbandonedStep DEF StartLost, Steady
<1>2. CASE PlanFails(p)
  BY <1>2, AbandonedStep DEF PlanFails
<1>3. CASE KillOrder(p)
  BY <1>3, AbandonedStep DEF KillOrder
<1> QED BY <1>1, <1>2, <1>3

LEMMA CopyVolumeStep ==
    ASSUME InstallInv, NEW p \in Operators, CopyVolume(p)
    PROVE  InstallInv'
<1>0. InstallTypes /\ OrderFits(p) /\ orders[p].stage = "copy" /\ orders[p].dir \in Directories
  BY HasDirectory DEF InstallInv, CopyVolume, Loose
<1>1. UNCHANGED <<control, refs, host, lost, systemd>>
  BY DEF CopyVolume
<1>2. CASE Go(p, "activate") /\ dirs' = dirs /\ lockedBy' = lockedBy
  <2>1. "activate" \in Stages
    BY DEF Stages
  <2>2. Shape(p)'
    BY <1>0, <1>2, <2>1, GoFields DEF OrderFits, Shape, Loose, AtRemains
  <2>3. Under(p)' /\ Left(p)'
    BY <1>0, <1>1, <1>2, <2>1, GoFields DEF OrderFits, Under, Left
  <2>4. lockedBy'[orders'[p].dir] = p
    BY <1>0, <1>1, <1>2, <2>1, GoFields DEF OrderFits, Holds, AtLock
  <2>5. OrderFits(p)'
    BY <2>2, <2>3, <2>4 DEF OrderFits
  <2> QED BY <1>0, <1>1, <1>2, <2>1, <2>5, GoType, OnlyOrder
<1>3. CASE Leave(p, TRUE)
  BY <1>0, <1>1, <1>3, LeaveStep
<1> QED BY <1>2, <1>3 DEF CopyVolume

LEMMA RetryRemovalStep ==
    ASSUME InstallInv, NEW p \in Operators, RetryRemoval(p)
    PROVE  InstallInv'
<1> DEFINE o == orders[p]
<1>0. InstallTypes /\ OrderFits(p) /\ o.stage = "retry" /\ o.dir \in Directories /\ PlaceInv
      /\ o \in OrderRecords
  BY HasDirectory DEF InstallInv, RetryRemoval, Loose, InstallTypes
<1>1. UNCHANGED <<control, refs, host, lost, systemd>> /\ Unlock(p) /\ dirs' = dirs
  BY DEF RetryRemoval, Steady
<1>2. CASE Idle(p)
  BY <1>1, <1>2, AbandonedStep
<1>3. CASE Go(p, "final1")
  <2>1. dirs[o.dir].at \in {"tomb", "gone"}
    <3>1. Root(o.dir) \in {"tomb", "control"}
      BY <1>0 DEF RetryRemoval, Held, OrderFits, Shape, OrderRecords
    <3> QED BY <1>0, <3>1, RemainsPlace
  <2>2. "final1" \in Stages
    BY DEF Stages
  <2>3. Shape(p)'
    BY <1>0, <1>3, <2>2, GoFields DEF OrderFits, Shape, AtRemains
  <2>4. Under(p)' /\ ~Holds(p)'
    BY <1>0, <1>3, <2>2, GoFields DEF Under, Holds, AtLock
  <2>5. Left(p)'
    BY <1>0, <1>1, <1>3, <2>1, <2>2, GoFields DEF Left
  <2>6. OrderFits(p)'
    BY <2>3, <2>4, <2>5 DEF OrderFits
  <2>7. InstallTypes' /\ Aside(p)
    BY <1>0, <1>1, <1>3, <2>2, GoType, UnlockType DEF InstallTypes, Aside
  <2>8. orders'[p].stage = "final1"
    BY <1>0, <1>3, <2>2, GoFields
  <2> QED BY <1>1, <2>6, <2>7, <2>8, Unmoved, QuietStep
<1> QED BY <1>2, <1>3 DEF RetryRemoval

-----------------------------------------------------------------------------
(* Steps that change the host                                               *)

LEMMA HostStep ==
    ASSUME InstallInv, NEW p \in Operators, InstallTypes', Aside(p),
           \A d \in Directories : Same(d) /\ SamePlace(d),
           control' = control, refs' = refs, lost' = lost, systemd' = systemd,
           HostInv', RunningHasImages',
           \A d \in Directories : lockedBy[d] \notin {p, "free"} =>
               (Down(d) => Down(d)') /\ (Silent(d) => Silent(d)'),
           OrderFits(p)', orders'[p].stage \notin {"clean3", "erase"}
    PROVE  InstallInv'
<1>1. PlaceInv'
  BY DEF InstallInv, PlaceInv, Same, SamePlace
<1>2. GenerationInv'
  BY DEF InstallInv, GenerationInv, Same
<1>5. ReferencesOwned'
  <2>1. \A d \in Directories : Root(d)' = Root(d)
    BY DEF Root, SamePlace
  <2> QED BY <2>1 DEF InstallInv, ReferencesOwned, Same
<1>6. ASSUME NEW q \in Operators \ {p} PROVE OrderFits(q)'
  <2>1. Spares(q)
    <3>1. orders[q].stage \in {"clean3", "erase"} => orders[q].dir \in Directories
      BY DEF InstallInv, OrderFits, Shape, Loose
    <3>2. q # p /\ q # "free"
      BY DEF Operators
    <3> QED BY <3>1, <3>2, <1>6 DEF Spares, Aside, Same, SamePlace
  <2> QED BY <2>1, Bystander DEF InstallInv
<1>7. AsideInv'
  BY DEF InstallInv, AsideInv, Aside
<1> QED BY <1>1, <1>2, <1>5, <1>6, <1>7 DEF InstallInv

\* The service is stopped, and what could start it is at most removed.
LEMMA QuieterHost ==
    ASSUME InstallInv, \A d \in Directories : Same(d) /\ SamePlace(d), host' \in HostRecords,
           refs' = refs, lost' = lost,
           host'.running \in {0, host.running}, host'.late = host.late,
           host'.enabled \in {FALSE, host.enabled},
           host'.unit = host.unit \/ (~host'.unit /\ ~host'.enabled)
    PROVE  /\ HostInv' /\ RunningHasImages'
           /\ \A d \in Directories : (Down(d) => Down(d)') /\ (Silent(d) => Silent(d)')
<1>1. \A d \in Directories : Down(d) => Down(d)'
  BY DEF Down, Same
<1>2. host \in HostRecords
  BY DEF InstallInv, InstallTypes
<1>3. \A d \in Directories : Silent(d) => Silent(d)'
  BY <1>2 DEF Silent, SamePlace, HostRecords
<1>4. HostInv'
  BY <1>1, <1>2, <1>3 DEF InstallInv, HostInv, Same, HostRecords
<1>5. RunningHasImages'
  BY DEF InstallInv, RunningHasImages
<1> QED BY <1>1, <1>3, <1>4, <1>5

LEMMA StopExistingStep ==
    ASSUME InstallInv, NEW p \in Operators, StopExisting(p)
    PROVE  InstallInv'
<1> DEFINE o == orders[p]
<1>0. InstallTypes /\ OrderFits(p) /\ o.stage = "stop" /\ o.dir \in Directories
      /\ host \in HostRecords /\ GenerationInv /\ dirs[o.dir] \in DirectoryRecords
  BY HasDirectory DEF InstallInv, StopExisting, Loose, InstallTypes
<1>1. UNCHANGED <<dirs, control, refs, lost, systemd, lockedBy>> /\ Go(p, "publish")
      /\ host' = IF o.saw.kind \in {"configuring", "ready"} THEN [host EXCEPT !.running = 0] ELSE host
  BY DEF StopExisting, Steady
<1>2. /\ host' \in HostRecords /\ host'.running \in {0, host.running} /\ host'.late = host.late
      /\ host'.enabled = host.enabled /\ host'.unit = host.unit
      /\ o.saw.kind \in {"configuring", "ready"} => host'.running = 0
  BY <1>0, <1>1, NumbersApart DEF HostRecords
<1>3. /\ HostInv' /\ RunningHasImages'
      /\ \A d \in Directories : (Down(d) => Down(d)') /\ (Silent(d) => Silent(d)')
  BY <1>1, <1>2, QuieterHost, Unmoved
<1>4. "publish" \in Stages
  BY DEF Stages
<1>5. /\ orders'[p].stage = "publish" /\ orders'[p].dir = o.dir /\ orders'[p].root = o.root
      /\ orders'[p].cmd = o.cmd /\ orders'[p].created = o.created /\ orders'[p].saw = o.saw
  BY <1>0, <1>1, <1>4, GoFields
<1>6. Down(o.dir)'
  <2>1. o.saw.kind = dirs[o.dir].kind /\ dirs[o.dir].kind # "staged"
    BY <1>0 DEF OrderFits, Under
  <2>2. CASE o.saw.kind \in {"configuring", "ready"}
    BY <1>2, <2>2 DEF Down
  <2>3. CASE o.saw.kind \notin {"configuring", "ready"}
    <3>1. dirs[o.dir].kind = "bootstrap"
      BY <1>0, <2>1, <2>3 DEF DirectoryRecords
    <3>2. dirs[o.dir].gen = 0
      BY <1>0, <3>1 DEF GenerationInv
    <3> QED BY <1>1, <1>5, <3>2 DEF Down
  <2> QED BY <2>2, <2>3
<1>7. Shape(p)'
  BY <1>0, <1>5 DEF OrderFits, Shape, AtRemains
<1>8. Under(p)'
  <2>1. Down(orders[p].dir)'
    BY <1>5, <1>6 DEF Down
  <2> QED BY <1>0, <1>1, <1>5, <2>1 DEF OrderFits, Under
<1>9. Left(p)' /\ lockedBy'[orders'[p].dir] = p
  BY <1>0, <1>1, <1>5 DEF OrderFits, Left, Holds, AtLock
<1>10. OrderFits(p)'
  BY <1>7, <1>8, <1>9 DEF OrderFits
<1>11. InstallTypes' /\ Aside(p)
  BY <1>0, <1>1, <1>2, <1>4, GoType DEF InstallTypes, Aside
<1> QED BY <1>1, <1>3, <1>5, <1>10, <1>11, Unmoved, HostStep

LEMMA HostDownStep ==
    ASSUME InstallInv, NEW p \in Operators, HostDown(p)
    PROVE  InstallInv'
<1> DEFINE o == orders[p]
           s == IF o.cmd = "stageRemove" THEN "retire"
                ELSE IF host.unit THEN "disable"
                ELSE IF o.cmd = "uninstall" THEN "clear" ELSE "guard"
<1>0. InstallTypes /\ OrderFits(p) /\ o.stage = "down" /\ o.dir \in Directories
      /\ host \in HostRecords /\ HostInv
  BY HasDirectory DEF InstallInv, HostDown, Loose, InstallTypes
<1>1. UNCHANGED <<dirs, control, refs, lost, systemd, lockedBy>> /\ Go(p, s)
      /\ host' = [host EXCEPT !.running = 0]
  BY DEF HostDown, Steady
<1>2. /\ host' \in HostRecords /\ host'.running = 0 /\ host'.late = host.late
      /\ host'.enabled = host.enabled /\ host'.unit = host.unit
  BY <1>0, <1>1, NumbersApart DEF HostRecords
<1>3. /\ HostInv' /\ RunningHasImages'
      /\ \A d \in Directories : (Down(d) => Down(d)') /\ (Silent(d) => Silent(d)')
  BY <1>1, <1>2, QuieterHost, Unmoved
<1>4. s \in {"guard", "disable", "clear", "retire"} /\ s \in Stages
      /\ (s = "retire" <=> o.cmd = "stageRemove")
  BY DEF Stages
<1>5. /\ orders'[p].stage = s /\ orders'[p].dir = o.dir /\ orders'[p].root = o.root
      /\ orders'[p].cmd = o.cmd /\ orders'[p].created = o.created
  BY <1>0, <1>1, <1>4, GoFields
<1>6. Down(orders[p].dir)'
  BY <1>2 DEF Down
<1>7. s \in {"clear", "guard"} => Silent(orders[p].dir)'
  BY <1>0, <1>2 DEF Silent, HostInv
<1>8. Shape(p)'
  BY <1>0, <1>4, <1>5 DEF OrderFits, Shape, AtRemains
<1>9. Under(p)'
  BY <1>0, <1>1, <1>4, <1>5, <1>6, <1>7 DEF OrderFits, Under
<1>10. Left(p)' /\ lockedBy'[orders'[p].dir] = p
  BY <1>0, <1>1, <1>4, <1>5 DEF OrderFits, Left, Holds, AtLock
<1>11. OrderFits(p)'
  BY <1>8, <1>9, <1>10 DEF OrderFits
<1>12. InstallTypes' /\ Aside(p)
  BY <1>0, <1>1, <1>2, <1>4, GoType DEF InstallTypes, Aside
<1> QED BY <1>1, <1>3, <1>4, <1>5, <1>11, <1>12, Unmoved, HostStep

LEMMA HostDisableStep ==
    ASSUME InstallInv, NEW p \in Operators, HostDisable(p)
    PROVE  InstallInv'
<1> DEFINE o == orders[p]
           s == IF o.cmd = "uninstall" THEN "clear" ELSE "guard"
<1>0. InstallTypes /\ OrderFits(p) /\ o.stage = "disable" /\ o.dir \in Directories
      /\ host \in HostRecords /\ HostInv
  BY HasDirectory DEF InstallInv, HostDisable, Loose, InstallTypes
<1>1. UNCHANGED <<control, refs, lost, systemd>>
  BY DEF HostDisable
<1>2. CASE /\ host' = [host EXCEPT !.enabled = FALSE, !.unit = FALSE] /\ Go(p, s)
           /\ dirs' = dirs /\ lockedBy' = lockedBy
  <2>2. /\ host' \in HostRecords /\ host'.running = host.running /\ host'.late = host.late
        /\ ~host'.enabled /\ ~host'.unit
    BY <1>0, <1>2 DEF HostRecords
  <2>3. /\ HostInv' /\ RunningHasImages'
        /\ \A d \in Directories : (Down(d) => Down(d)') /\ (Silent(d) => Silent(d)')
    BY <1>1, <1>2, <2>2, QuieterHost, Unmoved
  <2>4. s \in {"guard", "clear"} /\ s \in Stages
    BY DEF Stages
  <2>5. /\ orders'[p].stage = s /\ orders'[p].dir = o.dir /\ orders'[p].root = o.root
        /\ orders'[p].cmd = o.cmd /\ orders'[p].created = o.created
    BY <1>0, <1>2, <2>4, GoFields
  <2>6. Down(orders[p].dir)' /\ Silent(orders[p].dir)'
    BY <1>0, <1>2, <2>2, <2>5 DEF Down, Silent, OrderFits, Under
  <2>7. o.cmd # "stageRemove"
    BY <1>0 DEF OrderFits, Shape
  <2>8. Shape(p)'
    BY <1>0, <2>4, <2>5 DEF OrderFits, Shape, AtRemains
  <2>9. Under(p)'
    BY <1>0, <1>2, <2>4, <2>5, <2>6, <2>7 DEF OrderFits, Under
  <2>10. Left(p)' /\ lockedBy'[orders'[p].dir] = p
    BY <1>0, <1>2, <2>4, <2>5 DEF OrderFits, Left, Holds, AtLock
  <2>11. OrderFits(p)'
    BY <2>8, <2>9, <2>10 DEF OrderFits
  <2>12. InstallTypes' /\ Aside(p)
    BY <1>0, <1>1, <1>2, <2>2, <2>4, GoType DEF InstallTypes, Aside
  <2> QED BY <1>1, <1>2, <2>3, <2>4, <2>5, <2>11, <2>12, Unmoved, HostStep
<1>3. CASE host' = [host EXCEPT !.enabled = FALSE] /\ Leave(p, FALSE)
  <2>1. /\ host' \in HostRecords /\ host'.running = host.running /\ host'.late = host.late
        /\ host'.enabled = FALSE /\ host'.unit = host.unit
    BY <1>0, <1>3 DEF HostRecords
  <2>2. /\ dirs' \in [Directories -> DirectoryRecords]
        /\ orders' \in [Operators -> OrderRecords]
        /\ lockedBy' \in [Directories -> Operators \cup {"free"}]
        /\ \A d \in Directories : Same(d) /\ SamePlace(d)
        /\ Aside(p)
        /\ OrderFits(p)' /\ orders'[p].stage \notin {"clean3", "erase"}
    BY <1>0, <1>3, LeaveFits DEF OrderFits
  <2>3. /\ HostInv' /\ RunningHasImages'
        /\ \A d \in Directories : (Down(d) => Down(d)') /\ (Silent(d) => Silent(d)')
    BY <1>1, <2>1, <2>2, QuieterHost
  <2>4. InstallTypes'
    BY <1>0, <1>1, <2>1, <2>2 DEF InstallTypes
  <2> QED BY <1>1, <2>2, <2>3, <2>4, HostStep
<1> QED BY <1>2, <1>3 DEF HostDisable

\* An install acts on the unit: what is staged or guarded stays silent, since
\* either the install's own directory is at the path, or the act is late.
LEMMA UnitChange ==
    ASSUME InstallInv, NEW p \in Operators, dirs' = dirs, refs' = refs, lost' = lost,
           orders[p].stage \in {"files", "activate"}, host' \in HostRecords,
           host'.running = host.running, ~Held(p) => host'.late,
           host'.enabled /\ ~host'.unit => host'.late
    PROVE  /\ HostInv' /\ RunningHasImages'
           /\ \A d \in Directories : lockedBy[d] \notin {p, "free"} =>
                (Down(d) => Down(d)') /\ (Silent(d) => Silent(d)')
<1> DEFINE o == orders[p]
<1>0. InstallTypes /\ OrderFits(p) /\ o.dir \in Directories /\ PlaceInv
  BY HasDirectory DEF InstallInv, Loose
<1>1. /\ o.root = "target" /\ lockedBy[o.dir] = p /\ dirs[o.dir].kind = "configuring"
      /\ ~dirs[o.dir].guard
  BY <1>0 DEF OrderFits, Shape, Under, Holds, AtLock, AtRemains
<1>2. Held(p) => \A d \in Directories : dirs[d].at = "target" => d = o.dir
  BY <1>0, <1>1, HeldAtTarget DEF PlaceInv
<1>3. \A d \in Directories : d # o.dir => Silent(d)'
  BY <1>2 DEF Silent
<1>4. \A d \in Directories : Down(d) => Down(d)'
  BY DEF Down
<1>5. HostInv'
  BY <1>1, <1>3, <1>4 DEF InstallInv, HostInv
<1>6. RunningHasImages'
  BY DEF InstallInv, RunningHasImages
<1> QED BY <1>1, <1>3, <1>4, <1>5, <1>6

\* An install gets to its next stage, the directory being as it was.
LEMMA InstallGoes ==
    ASSUME InstallInv, NEW p \in Operators, NEW s \in {"volume", "ready"}, Go(p, s),
           orders[p].stage \in {"files", "activate"}, dirs' = dirs, lockedBy' = lockedBy
    PROVE  OrderFits(p)' /\ orders'[p].stage = s /\ orders' \in [Operators -> OrderRecords]
           /\ Aside(p)
<1>0. InstallTypes /\ OrderFits(p) /\ s \in Stages
  BY DEF InstallInv, Stages
<1>1. Shape(p)'
  BY <1>0, GoFields DEF OrderFits, Shape, Loose, AtRemains
<1>2. Under(p)'
  BY <1>0, GoFields DEF OrderFits, Under
<1>3. Left(p)' /\ lockedBy'[orders'[p].dir] = p
  BY <1>0, GoFields DEF OrderFits, Left, Holds, AtLock
<1> QED BY <1>0, <1>1, <1>2, <1>3, GoType DEF OrderFits, Aside

LEMMA PublishFilesStep ==
    ASSUME InstallInv, NEW p \in Operators, PublishFiles(p)
    PROVE  InstallInv'
<1>0. InstallTypes /\ OrderFits(p) /\ orders[p].stage = "files" /\ orders[p].cmd = "install"
      /\ host \in HostRecords
  BY DEF InstallInv, PublishFiles, OrderFits, Shape, InstallTypes
<1>1. UNCHANGED <<dirs, control, refs, lost, systemd, lockedBy>> /\ Go(p, "volume")
  BY DEF PublishFiles, Steady
<1>2. CASE host' = [host EXCEPT !.unit = TRUE, !.late = Late(p)]
  <2>1. Late(p) = ~Held(p) /\ Late(p) \in BOOLEAN
    BY <1>0 DEF Late
  <2>2. /\ host' \in HostRecords /\ host'.running = host.running /\ host'.unit
        /\ ~Held(p) => host'.late
    BY <1>0, <1>2, <2>1 DEF HostRecords
  <2>3. /\ HostInv' /\ RunningHasImages'
        /\ \A d \in Directories : lockedBy[d] \notin {p, "free"} =>
             (Down(d) => Down(d)') /\ (Silent(d) => Silent(d)')
    BY <1>0, <1>1, <2>2, UnitChange
  <2>4. OrderFits(p)' /\ orders'[p].stage = "volume" /\ Aside(p)
        /\ orders' \in [Operators -> OrderRecords]
    BY <1>0, <1>1, InstallGoes
  <2>5. InstallTypes'
    BY <1>0, <1>1, <2>2, <2>4 DEF InstallTypes
  <2> QED BY <1>1, <2>3, <2>4, <2>5, Unmoved, HostStep
<1>3. CASE host' = host
  <2>1. OrderFits(p)' /\ orders'[p].stage = "volume" /\ Aside(p)
        /\ orders' \in [Operators -> OrderRecords]
    BY <1>0, <1>1, InstallGoes
  <2> QED BY <1>1, <1>3, <2>1, OnlyOrder DEF Aside
<1> QED BY <1>2, <1>3 DEF PublishFiles

LEMMA ActivateHostStep ==
    ASSUME InstallInv, NEW p \in Operators, ActivateHost(p)
    PROVE  InstallInv'
<1>0. InstallTypes /\ OrderFits(p) /\ orders[p].stage = "activate" /\ orders[p].cmd = "install"
      /\ host \in HostRecords /\ orders[p].dir \in Directories /\ systemd \in BOOLEAN
  BY HasDirectory DEF InstallInv, ActivateHost, OrderFits, Shape, InstallTypes, Loose
<1>1. UNCHANGED <<control, refs, lost, systemd>>
  BY DEF ActivateHost
<1>2. CASE /\ systemd => host.unit
           /\ host' = [host EXCEPT !.enabled = systemd, !.late = @ \/ Late(p)]
           /\ Go(p, "ready") /\ dirs' = dirs /\ lockedBy' = lockedBy
  <2>1. Late(p) = ~Held(p)
    BY <1>0 DEF Late
  <2>2. /\ host' \in HostRecords /\ host'.running = host.running
        /\ host'.unit = host.unit /\ host'.enabled = systemd
        /\ ~Held(p) => host'.late
    BY <1>0, <1>2, <2>1 DEF HostRecords
  <2>3. /\ HostInv' /\ RunningHasImages'
        /\ \A d \in Directories : lockedBy[d] \notin {p, "free"} =>
             (Down(d) => Down(d)') /\ (Silent(d) => Silent(d)')
    BY <1>0, <1>1, <1>2, <2>2, UnitChange
  <2>4. OrderFits(p)' /\ orders'[p].stage = "ready" /\ Aside(p)
        /\ orders' \in [Operators -> OrderRecords]
    BY <1>0, <1>2, InstallGoes
  <2>5. InstallTypes'
    BY <1>0, <1>1, <1>2, <2>2, <2>4 DEF InstallTypes
  <2> QED BY <1>1, <1>2, <2>3, <2>4, <2>5, Unmoved, HostStep
<1>3. CASE Leave(p, TRUE) /\ host' = host
  BY <1>0, <1>1, <1>3, LeaveStep
<1> QED BY <1>2, <1>3 DEF ActivateHost

\* Only the directory that nobody else has locked is started.
LEMMA StartInstalledStep ==
    ASSUME InstallInv, NEW p \in Operators, StartInstalled(p)
    PROVE  InstallInv'
<1> DEFINE o == orders[p]
<1>0. InstallTypes /\ PlaceInv /\ GenerationInv /\ OrderFits(p) /\ o.stage = "start"
      /\ host \in HostRecords /\ o.dir \in Directories /\ systemd \in BOOLEAN
  BY HasDirectory DEF InstallInv, StartInstalled, InstallTypes, Loose
<1>1. UNCHANGED <<dirs, control, refs, lost, systemd, lockedBy>>
  BY DEF StartInstalled
<1>2. o.root = "target"
  BY <1>0 DEF OrderFits, Shape, AtRemains
<1>3. /\ host' \in HostRecords /\ HostInv' /\ RunningHasImages'
      /\ \A d \in Directories : lockedBy[d] \notin {p, "free"} =>
           (Down(d) => Down(d)') /\ (Silent(d) => Silent(d)')
  <2>1. CASE host' = host
    BY <1>0, <1>1, <2>1 DEF InstallInv, HostInv, RunningHasImages, Down, Silent
  <2>2. CASE \E e \in {d \in AtTarget : Startable(d) /\ (systemd \/ Held(p))} :
               /\ systemd => lockedBy[e] = "free"
               /\ host' = [host EXCEPT !.running = dirs[e].gen]
    <3>1. PICK e \in Directories :
            /\ dirs[e].at = "target" /\ Startable(e) /\ (systemd \/ Held(p))
            /\ systemd => lockedBy[e] = "free"
            /\ host' = [host EXCEPT !.running = dirs[e].gen]
      BY <2>2 DEF AtTarget
    <3>2. lockedBy[e] \in {p, "free"}
      <4>1. CASE systemd
        BY <3>1, <4>1
      <4>2. CASE ~systemd
        <5>1. Held(p) /\ lockedBy[o.dir] = p
          BY <1>0, <3>1, <4>2 DEF OrderFits, Holds
        <5>2. dirs[o.dir].at = "target"
          BY <1>0, <1>2, <5>1, HeldAtTarget
        <5>3. e = o.dir
          BY <1>0, <3>1, <5>2 DEF PlaceInv
        <5> QED BY <5>1, <5>3
      <4> QED BY <4>1, <4>2
    <3>3. /\ dirs[e].gen \in 0..MaxGenerations /\ ~dirs[e].guard /\ dirs[e].kind = "ready"
      BY <1>0, <3>1 DEF InstallTypes, DirectoryRecords, Startable
    <3>4. /\ host' \in HostRecords /\ host'.running = dirs[e].gen /\ host'.late = host.late
          /\ host'.enabled = host.enabled /\ host'.unit = host.unit
      BY <1>0, <3>1, <3>3 DEF HostRecords
    <3>5. \A d \in Directories : d # e => Down(d)'
      BY <1>0, <1>1, <3>4 DEF Down, GenerationInv
    <3>6. \A d \in Directories : Silent(d) => Silent(d)'
      BY <1>1, <3>4 DEF Silent
    <3>7. \A d \in Directories : host'.running # 0 => host'.running # dirs[d].pend
      BY <1>0, <3>4 DEF GenerationInv
    <3>8. HostInv'
      BY <1>1, <3>3, <3>4, <3>5, <3>6, <3>7 DEF InstallInv, HostInv
    <3>9. RunningHasImages'
      BY <1>0, <1>1, <3>3, <3>4 DEF GenerationInv, RunningHasImages
    <3> QED BY <3>2, <3>4, <3>5, <3>6, <3>8, <3>9
  <2> QED BY <2>1, <2>2 DEF StartInstalled
<1>4. /\ orders' \in [Operators -> OrderRecords] /\ Aside(p)
      /\ OrderFits(p)' /\ orders'[p].stage \notin {"clean3", "erase"}
  <2>1. CASE \E d \in AtTarget : Locking(p, d, "done")
    <3>1. PICK d \in Directories : dirs[d].at = "target" /\ Locking(p, d, "done")
      BY <2>1 DEF AtTarget
    <3>2. Root(d) = "target"
      BY <1>0, <3>1, TargetRoot
    <3>3. /\ orders' \in [Operators -> OrderRecords]
          /\ orders'[p].stage = "locking" /\ orders'[p].dir = d /\ orders'[p].then = "done"
          /\ orders'[p].root = "target"
          /\ \A q \in Operators \ {p} : orders'[q] = orders[q]
      BY <1>0, <3>1, <3>2, LockingFields
    <3>4. Shape(p)'
      BY <3>3 DEF Shape, Loose
    <3> QED BY <1>1, <3>3, <3>4, FreeFits DEF FreeStages, Aside
  <2>2. CASE Go(p, "gone")
    <3>1. "gone" \in Stages
      BY DEF Stages
    <3>2. Shape(p)' /\ orders'[p].stage = "gone"
      BY <1>0, <1>2, <2>2, <3>1, GoFields DEF OrderFits, Shape, Loose
    <3> QED BY <1>0, <1>1, <2>2, <3>1, <3>2, GoType, FreeFits DEF FreeStages, Aside
  <2>3. CASE ~systemd /\ Go(p, "done")
    <3>1. "done" \in Stages
      BY DEF Stages
    <3>2. Shape(p)' /\ orders'[p].stage = "done" /\ orders'[p].dir = o.dir
      BY <1>0, <1>2, <2>3, <3>1, GoFields DEF OrderFits, Shape, Loose
    <3>3. Under(p)' /\ Left(p)'
      BY <3>2 DEF Under, Left
    <3>4. lockedBy'[orders'[p].dir] = p
      BY <1>0, <1>1, <2>3, <3>2 DEF OrderFits, Holds
    <3> QED BY <1>0, <1>1, <2>3, <3>1, <3>2, <3>3, <3>4, GoType DEF OrderFits, Aside
  <2> QED BY <2>1, <2>2, <2>3 DEF StartInstalled
<1>5. InstallTypes'
  BY <1>0, <1>1, <1>3, <1>4 DEF InstallTypes
<1> QED BY <1>1, <1>3, <1>4, <1>5, Unmoved, HostStep

\* A recovery's effect on the host, with the act marked late when something is
\* at the path
LEMMA RecoveryChange ==
    ASSUME InstallInv, dirs' = dirs, refs' = refs, lost' = lost, host' \in HostRecords,
           host'.running \in {0, host.running},
           host.late => host'.late,
           host'.enabled \in {FALSE, host.enabled},
           host'.unit = host.unit \/ (AtTarget # {} => host'.late),
           host'.enabled /\ ~host'.unit => host'.late
    PROVE  /\ HostInv' /\ RunningHasImages'
           /\ \A d \in Directories : (Down(d) => Down(d)') /\ (Silent(d) => Silent(d)')
<1>1. \A d \in Directories : Down(d) => Down(d)'
  BY DEF Down
<1>2. host \in HostRecords
  BY DEF InstallInv, InstallTypes
<1>3. \A d \in Directories : Silent(d) => Silent(d)'
  BY <1>2 DEF Silent, AtTarget, HostRecords
<1>4. HostInv'
  BY <1>1, <1>2, <1>3 DEF InstallInv, HostInv
<1>5. RunningHasImages'
  BY DEF InstallInv, RunningHasImages
<1> QED BY <1>1, <1>3, <1>4, <1>5

LEMMA RecoveryMoves ==
    ASSUME InstallInv, NEW p \in Operators, orders[p].stage \in {"halt", "quarantine", "forget"},
           \/ Idle(p) /\ Unlock(p)
           \/ lockedBy' = lockedBy /\ \E s \in {"quarantine", "forget"} : Go(p, s)
    PROVE  /\ orders' \in [Operators -> OrderRecords] /\ Aside(p) /\ OrderFits(p)'
           /\ lockedBy' \in [Directories -> Operators \cup {"free"}]
           /\ orders'[p].stage \notin {"clean3", "erase"}
<1>0. InstallTypes /\ OrderFits(p)
  BY DEF InstallInv
<1>1. CASE Idle(p) /\ Unlock(p)
  BY <1>0, <1>1, IdleFits, UnlockType DEF Aside
<1>2. CASE lockedBy' = lockedBy /\ \E s \in {"quarantine", "forget"} : Go(p, s)
  <2>1. PICK s \in {"quarantine", "forget"} : Go(p, s)
    BY <1>2
  <2>2. s \in Stages
    BY DEF Stages
  <2>3. Shape(p)' /\ orders'[p].stage = s
    BY <1>0, <2>1, <2>2, GoFields DEF OrderFits, Shape, Loose, AtRemains
  <2>4. OrderFits(p)'
    BY <2>3, FreeFits DEF FreeStages
  <2>5. lockedBy' \in [Directories -> Operators \cup {"free"}]
    BY <1>0, <1>2 DEF InstallTypes
  <2> QED BY <1>0, <1>2, <2>1, <2>2, <2>3, <2>4, <2>5, GoType DEF Aside
<1> QED BY <1>1, <1>2

LEMMA RecoverySteps ==
    ASSUME InstallInv, NEW p \in Operators,
           RecoveryHalts(p) \/ RecoveryQuarantines(p) \/ RecoveryForgets(p)
    PROVE  InstallInv'
<1>0. InstallTypes /\ OrderFits(p) /\ host \in HostRecords /\ HostInv
  BY DEF InstallInv, InstallTypes
<1>1. UNCHANGED <<dirs, control, refs, lost, systemd>>
      /\ orders[p].stage \in {"halt", "quarantine", "forget"}
  BY DEF RecoveryHalts, RecoveryQuarantines, RecoveryForgets, Steady
<1>2. Late(p) = (host.late \/ AtTarget # {})
  <2>1. orders[p].cmd = "recover"
    BY <1>0, <1>1 DEF OrderFits, Shape
  <2> QED BY <2>1 DEF Late
<1>3. Late(p) \in BOOLEAN
  BY <1>0, <1>2 DEF HostRecords
<1>4. /\ orders' \in [Operators -> OrderRecords] /\ Aside(p) /\ OrderFits(p)'
      /\ lockedBy' \in [Directories -> Operators \cup {"free"}]
      /\ orders'[p].stage \notin {"clean3", "erase"}
  <2>1. \/ Idle(p) /\ Unlock(p)
        \/ lockedBy' = lockedBy /\ \E s \in {"quarantine", "forget"} : Go(p, s)
    BY DEF RecoveryHalts, RecoveryQuarantines, RecoveryForgets
  <2> QED BY <1>1, <2>1, RecoveryMoves
<1>5. CASE host' = host
  <2>1. InstallTypes'
    BY <1>0, <1>1, <1>4, <1>5 DEF InstallTypes
  <2> QED BY <1>1, <1>4, <1>5, <2>1, Unmoved, QuietStep
<1>6. CASE host' # host
  <2>1. /\ host' \in HostRecords /\ host'.running \in {0, host.running}
        /\ (host.late => host'.late) /\ host'.enabled \in {FALSE, host.enabled}
        /\ host'.unit = host.unit \/ (AtTarget # {} => host'.late)
        /\ host'.enabled /\ ~host'.unit => host'.late
    <3>1. CASE host' = [host EXCEPT !.running = 0, !.enabled = FALSE, !.late = Late(p)]
      BY <1>0, <1>2, <1>3, <3>1, NumbersApart DEF HostRecords
    <3>2. CASE host' = [host EXCEPT !.unit = FALSE, !.tomb = TRUE, !.late = Late(p) \/ host.enabled]
      BY <1>0, <1>2, <1>3, <3>2 DEF HostRecords
    <3>3. CASE host' = [host EXCEPT !.tomb = FALSE]
      BY <1>0, <3>3 DEF HostRecords, HostInv
    <3>4. CASE host' = [host EXCEPT !.unit = host.tomb \/ @, !.tomb = FALSE, !.late = Late(p)]
      BY <1>0, <1>2, <1>3, <3>4 DEF HostRecords, HostInv
    <3> QED BY <1>6, <3>1, <3>2, <3>3, <3>4 DEF RecoveryHalts, RecoveryQuarantines, RecoveryForgets
  <2>2. /\ HostInv' /\ RunningHasImages'
        /\ \A d \in Directories : (Down(d) => Down(d)') /\ (Silent(d) => Silent(d)')
    BY <1>1, <2>1, RecoveryChange
  <2>3. InstallTypes'
    BY <1>0, <1>1, <1>4, <2>1 DEF InstallTypes
  <2> QED BY <1>1, <1>4, <2>2, <2>3, Unmoved, HostStep
<1> QED BY <1>5, <1>6

-----------------------------------------------------------------------------
(* Steps that change the record of the locked directory, or the references  *)

LEMMA RecordStep ==
    ASSUME InstallInv, NEW p \in Operators, NEW c \in Directories, InstallTypes', Aside(p),
           lockedBy[c] \in {p, "free"}, dirs[c].at = "target",
           \A d \in Directories : SamePlace(d) /\ (d # c => Same(d)),
           dirs[c].guard => Same(c),
           \A d \in Directories : dirs[d].guard /\ dirs[d].gen \notin refs => dirs[d].gen \notin refs',
           control' = control, host' = host, lost' = lost, systemd' = systemd,
           GenerationInv', HostInv', ReferencesOwned', RunningHasImages',
           OrderFits(p)', orders'[p].stage \notin {"clean3", "erase"}
    PROVE  InstallInv'
<1>0. InstallTypes /\ PlaceInv
  BY DEF InstallInv
<1>1. PlaceInv'
  <2>1. \A d \in Directories : dirs[d].at # "target" => Same(d)
    OBVIOUS
  <2> QED BY <1>0, <2>1 DEF PlaceInv, Same, SamePlace
<1>2. ASSUME NEW q \in Operators \ {p} PROVE OrderFits(q)'
  <2>1. Spares(q)
    <3>1. orders[q].stage \in {"clean3", "erase"} => orders[q].dir \in Directories
      BY DEF InstallInv, OrderFits, Shape, Loose
    <3>2. \A d \in Directories : lockedBy[d] = q => d # c
      BY <1>2 DEF Operators
    <3>3. \A d \in Directories : d # c => (Down(d) => Down(d)') /\ (Silent(d) => Silent(d)')
      BY DEF Down, Silent, Same, SamePlace
    <3>4. \A d \in Directories :
            /\ dirs[d].guard => dirs'[d].guard
            /\ dirs[d].guard /\ dirs[d].gen \notin refs => dirs'[d].gen \notin refs'
      BY DEF Same
    <3> QED BY <3>1, <3>2, <3>3, <3>4, <1>2 DEF Spares, Aside, SamePlace
  <2> QED BY <1>0, <2>1, Bystander DEF InstallInv
<1>3. AsideInv'
  BY DEF InstallInv, AsideInv, Aside
<1> QED BY <1>1, <1>2, <1>3 DEF InstallInv

\* The recovery of an interrupted publication: what is pending goes with its
\* references, which nothing runs and no other directory records.
LEMMA RecoveredFields ==
    ASSUME InstallInv, NEW c \in Directories,
           \A d \in Directories : SamePlace(d) /\ (d # c => Same(d)),
           dirs'[c].pend = 0, dirs'[c].kind = dirs[c].kind, dirs'[c].gen = dirs[c].gen,
           dirs'[c].guard = dirs[c].guard,
           refs' = refs \ {dirs[c].pend}, control' = control, host' = host, lost' = lost
    PROVE  /\ refs' \subseteq 1..MaxGenerations
           /\ dirs[c].guard => Same(c)
           /\ GenerationInv' /\ HostInv' /\ ReferencesOwned' /\ RunningHasImages'
<1>0. InstallTypes /\ GenerationInv /\ HostInv /\ ReferencesOwned /\ RunningHasImages
      /\ refs \subseteq 1..MaxGenerations
  BY DEF InstallInv, InstallTypes
<1>2. refs' \subseteq 1..MaxGenerations
  BY <1>0
<1>3. /\ \A d \in Directories : SamePlace(d) /\ (d # c => Same(d))
      /\ \A d \in Directories : /\ dirs'[d].kind = dirs[d].kind /\ dirs'[d].gen = dirs[d].gen
                                /\ dirs'[d].guard = dirs[d].guard
                                /\ dirs'[d].pend \in {0, dirs[d].pend}
      /\ dirs'[c].pend = 0
  BY DEF Same
<1>4. dirs[c].guard => Same(c)
  BY <1>0, <1>3 DEF GenerationInv, Same
<1>5. GenerationInv'
  <2>1. \A d \in Directories : ~dirs[d].guard => dirs[d].gen \in {0} \cup refs' \cup lost
    BY <1>0, NumbersApart DEF GenerationInv
  <2> QED BY <1>0, <1>3, <2>1 DEF GenerationInv
<1>6. HostInv'
  <2>1. \A d \in Directories : (Down(d)' <=> Down(d)) /\ (Silent(d)' <=> Silent(d))
    BY <1>3 DEF Down, Silent, SamePlace
  <2> QED BY <1>0, <1>3, <2>1 DEF HostInv
<1>7. ReferencesOwned'
  <2>1. \A d \in Directories : Root(d)' = Root(d)
    BY <1>3 DEF Root, SamePlace
  <2>2. ASSUME NEW g \in refs' \ lost
        PROVE  \E d \in Directories : g \in {dirs'[d].gen, dirs'[d].pend}
                                      /\ Root(d)' \in {"target", "aside"}
    <3>1. PICK d \in Directories : g \in {dirs[d].gen, dirs[d].pend} /\ Root(d) \in {"target", "aside"}
      BY <1>0, <2>2 DEF ReferencesOwned
    <3>2. g \in {dirs'[d].gen, dirs'[d].pend}
      BY <1>3, <2>2, <3>1 DEF Same
    <3> QED BY <2>1, <3>1, <3>2
  <2> QED BY <2>2 DEF ReferencesOwned
<1>8. RunningHasImages'
  BY <1>0 DEF RunningHasImages, HostInv
<1> QED BY <1>2, <1>4, <1>5, <1>6, <1>7, <1>8

LEMMA RecoveredRecord ==
    ASSUME InstallInv, NEW c \in Directories, dirs' = [dirs EXCEPT ![c] = Recovered(dirs[c])],
           refs' = refs \ {dirs[c].pend}, control' = control, host' = host, lost' = lost
    PROVE  /\ dirs' \in [Directories -> DirectoryRecords] /\ refs' \subseteq 1..MaxGenerations
           /\ \A d \in Directories : SamePlace(d) /\ (d # c => Same(d))
           /\ dirs'[c].pend = 0 /\ dirs'[c].kind = dirs[c].kind /\ dirs'[c].gen = dirs[c].gen
           /\ dirs'[c].guard = dirs[c].guard
           /\ dirs[c].guard => Same(c)
           /\ GenerationInv' /\ HostInv' /\ ReferencesOwned' /\ RunningHasImages'
<1>0. dirs \in [Directories -> DirectoryRecords] /\ dirs[c] \in DirectoryRecords
  BY DEF InstallInv, InstallTypes
<1>1. Recovered(dirs[c]) \in DirectoryRecords
      /\ Recovered(dirs[c]).pend = 0 /\ Recovered(dirs[c]).kind = dirs[c].kind
      /\ Recovered(dirs[c]).gen = dirs[c].gen /\ Recovered(dirs[c]).guard = dirs[c].guard
      /\ Recovered(dirs[c]).at = dirs[c].at /\ Recovered(dirs[c]).meta = dirs[c].meta
  BY <1>0, NumbersApart DEF Recovered, DirectoryRecords
<1>2. /\ dirs' \in [Directories -> DirectoryRecords] /\ dirs'[c] = Recovered(dirs[c])
      /\ \A d \in Directories : d # c => dirs'[d] = dirs[d]
  BY <1>0, <1>1
<1>3. \A d \in Directories : SamePlace(d) /\ (d # c => Same(d))
  BY <1>1, <1>2 DEF Same, SamePlace
<1> QED BY <1>1, <1>2, <1>3, RecoveredFields

\* The wait is over: an install and an uninstall find the record as they left
\* it, a removal also recovers what was published halfway meanwhile.
LEMMA WakeUpStep ==
    ASSUME InstallInv, NEW p \in Operators, WakeUp(p)
    PROVE  InstallInv'
<1> DEFINE o == orders[p]
           c == o.dir
           d == dirs[c]
           removes == o.cmd \in {"remove", "stageRemove"}
           r == [Recovered(d) EXCEPT !.marker = p]
<1>0. InstallTypes /\ OrderFits(p) /\ o.stage = "waiting" /\ c \in Directories
      /\ lockedBy[c] = "free" /\ d \in DirectoryRecords
  BY HasDirectory DEF InstallInv, WakeUp, Loose, InstallTypes
<1>1. UNCHANGED <<control, host, lost, systemd>>
  BY DEF WakeUp, Steady
<1>2. CASE /\ Held(p) /\ ~d.guard /\ d.kind = o.saw.kind
           /\ lockedBy' = [lockedBy EXCEPT ![c] = p]
           /\ Go(p, Admitted(o.cmd))
           /\ \/ ~removes /\ dirs' = [dirs EXCEPT ![c] = [d EXCEPT !.marker = p]] /\ refs' = refs
              \/ removes /\ dirs' = [dirs EXCEPT ![c] = r] /\ refs' = refs \ {d.pend}
  <2>2. /\ o.root = "target"
        /\ o.cmd = "install" => d.kind # "staged"
        /\ o.cmd = "stageRemove" => d.kind = "staged"
    BY <1>0, <1>2 DEF OrderFits, Shape, AtRemains
  <2>4. lockedBy'[c] = p /\ lockedBy' \in [Directories -> Operators \cup {"free"}]
        /\ \A q \in Operators \ {p} : \A e \in Directories : lockedBy[e] = q => lockedBy'[e] = q
    BY <1>0, <1>2 DEF InstallTypes, Operators
  <2>5. d.at = "target"
    BY <1>0, <1>2, <2>2, HeldAtTarget DEF InstallInv
  <2>6. CASE ~removes
    <3>1. dirs' = [dirs EXCEPT ![c].marker = p, ![c].queue = d.queue] /\ d.queue \in BOOLEAN
      BY <1>0, <1>2, <2>6 DEF InstallTypes, DirectoryRecords
    <3>2. UNCHANGED <<control, refs, host, lost, systemd>>
      BY <1>1, <1>2, <2>6
    <3> HIDE DEF removes, r
    <3> QED BY ZenonT(40), <1>0, <1>2, <2>2, <2>4, <2>5, <3>1, <3>2, AdmittedStep
  <2>7. CASE removes
    <3>1. dirs' = [dirs EXCEPT ![c] = r] /\ refs' = refs \ {d.pend}
      BY <1>2, <2>7
    <3>2. /\ r \in DirectoryRecords /\ r.pend = 0 /\ r.kind = d.kind /\ r.gen = d.gen
          /\ r.guard = d.guard /\ r.at = d.at /\ r.meta = d.meta
      BY <1>0, NumbersApart DEF Recovered, DirectoryRecords
    <3> HIDE DEF r
    <3>3. /\ dirs' \in [Directories -> DirectoryRecords] /\ dirs'[c] = r
          /\ \A e \in Directories : e # c => dirs'[e] = dirs[e]
      BY <1>0, <3>1, <3>2 DEF InstallTypes
    <3>4. \A e \in Directories : SamePlace(e) /\ (e # c => Same(e))
      BY <3>2, <3>3 DEF Same, SamePlace
    <3>5. /\ refs' \subseteq 1..MaxGenerations
          /\ d.guard => Same(c)
          /\ GenerationInv' /\ HostInv' /\ ReferencesOwned' /\ RunningHasImages'
      <4> HIDE DEF c
      <4> QED BY <1>0, <1>1, <3>1, <3>2, <3>3, <3>4, RecoveredFields
    <3> DEFINE s == Admitted(o.cmd)
    <3>6. /\ s \in {"down", "guard"} /\ s \in Stages
          /\ s = "down" => o.cmd # "stageRemove"
          /\ s = "guard" => o.cmd = "stageRemove"
      BY <2>7 DEF Admitted, Stages
    <3>7. /\ orders'[p].stage = s /\ orders'[p].dir = c /\ orders'[p].root = o.root
          /\ orders'[p].cmd = o.cmd /\ orders'[p].created = o.created
      BY <1>0, <1>2, <3>6, GoFields
    <3>8. orders' \in [Operators -> OrderRecords]
          /\ \A q \in Operators \ {p} : orders'[q] = orders[q]
      BY <1>0, <1>2, <3>6, GoType
    <3> HIDE DEF s, removes
    <3>9. Shape(p)'
      BY <1>0, <2>2, <3>6, <3>7 DEF Shape
    <3>10. s = "guard" => Down(orders[p].dir)' /\ Silent(orders[p].dir)'
      <4>1. s = "guard" => Down(c) /\ Silent(c)
        BY <1>0, <2>2, <3>6 DEF InstallInv, HostInv
      <4> QED BY <1>1, <3>2, <3>3, <3>7, <4>1 DEF Down, Silent
    <3>11. dirs'[c].at = "target" /\ dirs'[c].kind = d.kind
      BY <2>5, <3>2, <3>3
    <3>12. Under(p)'
      BY <2>2, <3>6, <3>7, <3>10, <3>11 DEF Under
    <3>13. Left(p)' /\ lockedBy'[orders'[p].dir] = p
      BY <2>4, <3>6, <3>7 DEF Left
    <3>14. OrderFits(p)'
      BY <3>9, <3>12, <3>13 DEF OrderFits
    <3>15. InstallTypes' /\ Aside(p)
      BY <1>0, <1>1, <2>4, <3>3, <3>5, <3>8 DEF InstallTypes, Aside
    <3>16. \A e \in Directories : dirs[e].guard /\ dirs[e].gen \notin refs => dirs[e].gen \notin refs'
      BY <3>1
    <3> HIDE DEF c
    <3> QED BY <1>0, <1>1, <2>5, <3>4, <3>5, <3>6, <3>7, <3>14, <3>15, <3>16, RecordStep
  <2> QED BY <2>6, <2>7
<1>3. CASE dirs' = dirs /\ lockedBy' = lockedBy /\ refs' = refs /\ o.created /\ Go(p, "clean1")
  BY <1>1, <1>3, CleaningStep
<1>4. CASE dirs' = dirs /\ lockedBy' = lockedBy /\ refs' = refs /\ Idle(p)
  BY <1>1, <1>4, AbandonedStep
<1> QED BY <1>2, <1>3, <1>4 DEF WakeUp, Unchanged

LEMMA CheckDestinationStep ==
    ASSUME InstallInv, NEW p \in Operators, CheckDestination(p)
    PROVE  InstallInv'
<1> DEFINE o == orders[p]
           c == o.dir
           s == IF o.saw.at = "target" THEN "prepare" ELSE "plan"
<1>0. InstallTypes /\ OrderFits(p) /\ o.stage = "check" /\ o.cmd = "install"
      /\ dirs[c].kind # "staged" /\ Go(p, s) /\ Held(p)
  BY DEF InstallInv, CheckDestination
<1>1. c \in Directories /\ lockedBy[c] = p /\ o.root = "target" /\ dirs[c].at = "target"
  BY <1>0, LockedTarget DEF AtLock
<1>2. UNCHANGED <<control, host, lost, systemd, lockedBy>>
      /\ dirs' = [dirs EXCEPT ![c] = Recovered(dirs[c])] /\ refs' = refs \ {dirs[c].pend}
  BY DEF CheckDestination, Steady
<1> HIDE DEF c
<1>3. /\ dirs' \in [Directories -> DirectoryRecords] /\ refs' \subseteq 1..MaxGenerations
      /\ \A d \in Directories : SamePlace(d) /\ (d # c => Same(d))
      /\ dirs'[c].pend = 0 /\ dirs'[c].kind = dirs[c].kind /\ dirs'[c].gen = dirs[c].gen
      /\ dirs'[c].guard = dirs[c].guard
      /\ dirs[c].guard => Same(c)
      /\ GenerationInv' /\ HostInv' /\ ReferencesOwned' /\ RunningHasImages'
  BY <1>1, <1>2, RecoveredRecord
<1>4. s \in {"prepare", "plan"} /\ s \in Stages
  BY DEF Stages
<1>5. /\ orders'[p].stage = s /\ orders'[p].dir = c /\ orders'[p].root = o.root
      /\ orders'[p].cmd = o.cmd /\ orders'[p].created = o.created
  BY <1>0, <1>4, GoFields DEF c
<1>6. ~dirs[c].guard
  BY <1>0 DEF OrderFits, Under, c
<1>7. Shape(p)'
  BY <1>0, <1>1, <1>4, <1>5 DEF Shape
<1>8. Under(p)'
  BY <1>0, <1>3, <1>4, <1>5, <1>6 DEF Under
<1>9. Left(p)' /\ lockedBy'[orders'[p].dir] = p
  BY <1>1, <1>2, <1>4, <1>5 DEF Left
<1>10. OrderFits(p)'
  BY <1>7, <1>8, <1>9 DEF OrderFits
<1>11. InstallTypes' /\ Aside(p)
  BY <1>0, <1>2, <1>3, <1>4, GoType DEF InstallTypes, Aside
<1>12. \A d \in Directories : dirs[d].guard /\ dirs[d].gen \notin refs => dirs[d].gen \notin refs'
  BY <1>2
<1> QED BY <1>1, <1>2, <1>3, <1>4, <1>5, <1>10, <1>11, <1>12, RecordStep

LEMMA CheckInstalledStep ==
    ASSUME InstallInv, NEW p \in Operators, CheckInstalled(p)
    PROVE  InstallInv'
<1> DEFINE o == orders[p]
           c == o.dir
           s == IF dirs[c].guard THEN Resumed(o.cmd) ELSE "admit"
           r == [o EXCEPT !.stage = s,
                          !.saw = Facts(Recovered(dirs[c]))]
<1>0. InstallTypes /\ OrderFits(p) /\ o.stage = "check" /\ o.cmd # "install" /\ Held(p)
      /\ o \in OrderRecords
  BY DEF InstallInv, CheckInstalled, InstallTypes
<1>1. c \in Directories /\ lockedBy[c] = p /\ o.root = "target" /\ dirs[c].at = "target"
      /\ dirs[c] \in DirectoryRecords
  BY <1>0, LockedTarget DEF AtLock, InstallTypes
<1>2. UNCHANGED <<control, host, lost, systemd>>
  BY DEF CheckInstalled, Steady
<1>3. CASE Leave(p, FALSE) /\ refs' = refs
  BY <1>1, <1>2, <1>3, LeaveStep
<1>4. CASE /\ Fits(o.cmd, dirs[c]) /\ (o.cmd # "uninstall" \/ (dirs[c].pend = 0 /\ ~dirs[c].guard))
           /\ dirs' = [dirs EXCEPT ![c] = Recovered(dirs[c])]
           /\ refs' = IF o.cmd # "uninstall" THEN refs \ {dirs[c].pend} ELSE refs
           /\ orders' = [orders EXCEPT ![p].stage = s, ![p].saw = Facts(Recovered(dirs[c]))]
           /\ lockedBy' = lockedBy
  <2>1. refs' = refs \ {dirs[c].pend}
    BY <1>0, <1>4, NumbersApart DEF InstallTypes
  <2>2. /\ Recovered(dirs[c]) \in DirectoryRecords
        /\ Recovered(dirs[c]).pend = 0 /\ Recovered(dirs[c]).kind = dirs[c].kind
    BY <1>1, NumbersApart DEF Recovered, DirectoryRecords
  <2>3. /\ Facts(Recovered(dirs[c])) \in DirectoryRecords
        /\ Facts(Recovered(dirs[c])).kind = dirs[c].kind
    BY <2>2, FactsType
  <2>4. orders' = [orders EXCEPT ![p] = r] /\ orders \in [Operators -> OrderRecords]
    BY <1>0, <1>4 DEF InstallTypes, OrderRecords
  <2>15. /\ s \in {"retire", "down", "admit"} /\ s \in Stages
         /\ s \in {"retire", "down"} => dirs[c].guard
         /\ s = "admit" => ~dirs[c].guard
         /\ s = "down" => o.cmd = "stageRemove"
    BY DEF Resumed, Stages
  <2> HIDE DEF s
  <2>5. /\ r \in OrderRecords /\ r.stage = s
        /\ r.dir = c /\ r.root = "target" /\ r.cmd = o.cmd
        /\ r.saw.kind = dirs[c].kind
    BY ZenonT(40), <1>0, <1>1, <2>3, <2>15 DEF OrderRecords
  <2> HIDE DEF r
  <2>6. orders' \in [Operators -> OrderRecords] /\ orders'[p] = r
        /\ \A q \in Operators \ {p} : orders'[q] = orders[q]
    BY <2>4, <2>5
  <2> HIDE DEF c
  <2>7. /\ dirs' \in [Directories -> DirectoryRecords] /\ refs' \subseteq 1..MaxGenerations
        /\ \A d \in Directories : SamePlace(d) /\ (d # c => Same(d))
        /\ dirs'[c].pend = 0 /\ dirs'[c].kind = dirs[c].kind /\ dirs'[c].gen = dirs[c].gen
        /\ dirs'[c].guard = dirs[c].guard
        /\ dirs[c].guard => Same(c)
        /\ GenerationInv' /\ HostInv' /\ ReferencesOwned' /\ RunningHasImages'
    BY <1>1, <1>2, <1>4, <2>1, RecoveredRecord
  <2>8. o.cmd = "stageRemove" => dirs[c].kind = "staged"
    BY <1>4 DEF Fits
  <2>9. Shape(p)'
    BY <1>1, <2>5, <2>6, <2>8, <2>15 DEF Shape
  <2>10. Under(p)'
    BY <1>0, <1>1, <2>5, <2>6, <2>7, <2>8, <2>15 DEF Under, SamePlace
  <2>11. Left(p)' /\ lockedBy'[orders'[p].dir] = p
    BY <1>1, <1>4, <2>5, <2>6, <2>15 DEF Left
  <2>12. OrderFits(p)'
    BY <2>9, <2>10, <2>11 DEF OrderFits
  <2>13. InstallTypes' /\ Aside(p)
    BY <1>0, <1>2, <1>4, <2>6, <2>7 DEF InstallTypes, Aside
  <2>14. \A d \in Directories : dirs[d].guard /\ dirs[d].gen \notin refs => dirs[d].gen \notin refs'
    BY <2>1
  <2> QED BY <1>1, <1>2, <2>5, <2>6, <2>7, <2>12, <2>13, <2>14, <2>15, RecordStep
<1> QED BY <1>3, <1>4 DEF CheckInstalled

\* A new generation g in the record of c: as the recorded one, the old being
\* retired or pending, or as the pending one.
Published(c, g) ==
    \/ /\ dirs'[c].gen = g /\ dirs'[c].pend = 0 /\ dirs'[c].kind = "configuring"
       /\ refs' = (refs \cup {g}) \ {dirs[c].gen}
    \/ /\ dirs'[c].gen = dirs[c].gen /\ dirs'[c].pend = g /\ dirs'[c].kind = dirs[c].kind
       /\ refs' = refs \cup {g}
    \/ /\ dirs'[c].gen = g /\ dirs'[c].pend = dirs[c].gen /\ dirs'[c].kind = "configuring"
       /\ refs' = refs \cup {g}

LEMMA PublishedRecord ==
    ASSUME InstallInv, NEW c \in Directories, NEW g \in 1..MaxGenerations, Published(c, g),
           \A d \in Directories : SamePlace(d) /\ (d # c => Same(d)),
           \A d \in Directories : g # dirs[d].gen /\ g # dirs[d].pend,
           g \notin refs, g \notin lost, dirs[c].pend = 0, ~dirs[c].guard, ~dirs'[c].guard,
           dirs[c].kind # "staged", Down(c), dirs[c].at = "target",
           control' = control, host' = host, lost' = lost
    PROVE  /\ GenerationInv' /\ HostInv' /\ ReferencesOwned' /\ RunningHasImages'
           /\ refs' \subseteq 1..MaxGenerations
           /\ \A d \in Directories : dirs[d].guard /\ dirs[d].gen \notin refs => dirs[d].gen \notin refs'
<1>0. InstallTypes /\ PlaceInv /\ GenerationInv /\ HostInv /\ ReferencesOwned /\ RunningHasImages
      /\ refs \subseteq 1..MaxGenerations
  BY DEF InstallInv, InstallTypes
<1>1. g # 0 /\ 0 \notin refs
  BY <1>0, NumbersApart
<1>2. host.running # g
  BY <1>0, <1>1 DEF RunningHasImages
<1>3. GenerationInv'
  <2>1. \A d \in Directories : ~dirs'[d].guard => dirs'[d].gen \in {0} \cup refs' \cup lost'
    <3>1. dirs'[c].gen \in {0} \cup refs' \cup lost'
      BY <1>0 DEF Published, GenerationInv
    <3>2. ASSUME NEW d \in Directories, d # c, ~dirs'[d].guard
          PROVE  dirs'[d].gen \in {0} \cup refs' \cup lost'
      BY <1>0, <3>2 DEF Published, GenerationInv, Same
    <3> QED BY <3>1, <3>2
  <2>2. \A d \in Directories : /\ dirs'[d].guard => dirs'[d].pend = 0
                               /\ dirs'[d].kind = "bootstrap" => dirs'[d].gen = 0
    BY <1>0 DEF Published, GenerationInv, Same
  <2>3. \A d, e \in Directories : dirs'[d].gen = dirs'[e].gen => d = e \/ dirs'[d].gen = 0
    BY <1>0 DEF Published, GenerationInv, Same
  <2>4. \A d, e \in Directories : dirs'[d].pend = dirs'[e].pend => d = e \/ dirs'[d].pend = 0
    BY <1>0 DEF Published, GenerationInv, Same
  <2>5. \A d, e \in Directories : dirs'[d].pend = dirs'[e].gen => dirs'[d].pend = 0
    BY <1>0 DEF Published, GenerationInv, Same
  <2> QED BY <2>1, <2>2, <2>3, <2>4, <2>5 DEF GenerationInv
<1>4. HostInv'
  <2>1. \A d \in Directories : d # c => (Down(d)' <=> Down(d)) /\ (Silent(d)' <=> Silent(d))
    BY DEF Down, Silent, Same, SamePlace
  <2>2. \A d \in Directories : host.running # 0 => host.running # dirs'[d].pend
    BY <1>0, <1>2 DEF Published, HostInv, Same, Down
  <2>3. dirs'[c].kind # "staged"
    BY DEF Published
  <2> QED BY <1>0, <2>1, <2>2, <2>3 DEF HostInv, Same
<1>5. ReferencesOwned'
  <2>1. \A d \in Directories : Root(d)' = Root(d)
    BY DEF Root, SamePlace
  <2>2. Root(c) = "target"
    BY <1>0, TargetRoot
  <2>3. ASSUME NEW h \in refs' \ lost'
        PROVE  \E d \in Directories : h \in {dirs'[d].gen, dirs'[d].pend}
                                      /\ Root(d)' \in {"target", "aside"}
    <3>1. CASE h = g
      BY <2>1, <2>2, <3>1 DEF Published
    <3>2. CASE h # g
      <4>1. h \in refs \ lost
        BY <2>3, <3>2 DEF Published
      <4>2. PICK d \in Directories :
              h \in {dirs[d].gen, dirs[d].pend} /\ Root(d) \in {"target", "aside"}
        BY <1>0, <4>1 DEF ReferencesOwned
      <4>3. h \in {dirs'[d].gen, dirs'[d].pend}
        BY <1>1, <2>3, <4>1, <4>2 DEF Published, Same
      <4> QED BY <2>1, <4>2, <4>3
    <3> QED BY <3>1, <3>2
  <2> QED BY <2>3 DEF ReferencesOwned
<1>6. RunningHasImages'
  BY <1>0 DEF RunningHasImages, Published, Down
<1>7. refs' \subseteq 1..MaxGenerations
  BY <1>0 DEF Published
<1>8. \A d \in Directories : dirs[d].guard /\ dirs[d].gen \notin refs => dirs[d].gen \notin refs'
  BY DEF Published
<1> QED BY <1>3, <1>4, <1>5, <1>6, <1>7, <1>8

LEMMA PublishInstalledStep ==
    ASSUME InstallInv, NEW p \in Operators, PublishInstalled(p)
    PROVE  InstallInv'
<1> DEFINE o == orders[p]
           c == o.dir
           d0 == dirs[c]
           used == {dirs[e].gen : e \in Directories} \cup {dirs[e].pend : e \in Directories}
                   \cup refs \cup lost
           x(g) == [[d0 EXCEPT !.kind = "configuring"] EXCEPT !.gen = g]
           y(g) == [[d0 EXCEPT !.kind = "configuring"] EXCEPT !.gen = g, !.pend = d0.gen,
                                                              !.marker = "none"]
           z(g) == [d0 EXCEPT !.pend = g, !.marker = "none"]
<1>0. InstallTypes /\ OrderFits(p) /\ o.stage = "publish" /\ Held(p) /\ ~d0.guard /\ d0.pend = 0
      /\ o \in OrderRecords /\ orders \in [Operators -> OrderRecords]
  BY DEF InstallInv, PublishInstalled, InstallTypes
<1>1. c \in Directories /\ lockedBy[c] = p /\ o.root = "target" /\ d0.at = "target"
      /\ d0 \in DirectoryRecords /\ dirs \in [Directories -> DirectoryRecords]
  BY <1>0, LockedTarget DEF AtLock, InstallTypes
<1>2. UNCHANGED <<control, host, lost, systemd>>
  BY DEF PublishInstalled
<1>3. d0.pend = 0 /\ d0.kind # "staged" /\ Down(c)
  BY <1>0 DEF OrderFits, Under
<1>4. PICK g \in (1..MaxGenerations) \ used :
        \/ /\ refs' = (refs \cup {g}) \ {d0.gen}
           /\ dirs' = [dirs EXCEPT ![c] = x(g)]
           /\ orders' = [orders EXCEPT ![p].stage = "files", ![p].created = FALSE]
           /\ lockedBy' = lockedBy
        \/ /\ refs' = refs \cup {g}
           /\ \/ dirs' = [dirs EXCEPT ![c].pend = g, ![c].marker = "none"]
              \/ dirs' = [dirs EXCEPT ![c] = y(g)]
           /\ Unlock(p) /\ Idle(p)
  BY DEF PublishInstalled
<1>5. /\ g \in 1..MaxGenerations /\ g \in 0..MaxGenerations /\ g \notin refs /\ g \notin lost
      /\ \A d \in Directories : g # dirs[d].gen /\ g # dirs[d].pend
  BY <1>4, NumbersApart
<1>6. /\ x(g) \in DirectoryRecords /\ x(g).gen = g /\ x(g).pend = d0.pend
      /\ x(g).kind = "configuring" /\ x(g).guard = d0.guard
      /\ x(g).at = d0.at /\ x(g).meta = d0.meta
  BY <1>1, <1>5 DEF DirectoryRecords
<1>7. /\ y(g) \in DirectoryRecords /\ y(g).gen = g /\ y(g).pend = d0.gen
      /\ y(g).kind = "configuring" /\ y(g).guard = d0.guard
      /\ y(g).at = d0.at /\ y(g).meta = d0.meta
  BY <1>1, <1>5 DEF DirectoryRecords
<1>8. /\ z(g) \in DirectoryRecords /\ z(g).gen = d0.gen /\ z(g).pend = g
      /\ z(g).kind = d0.kind /\ z(g).guard = d0.guard
      /\ z(g).at = d0.at /\ z(g).meta = d0.meta
  BY <1>1, <1>5 DEF DirectoryRecords
<1>9. [dirs EXCEPT ![c].pend = g, ![c].marker = "none"] = [dirs EXCEPT ![c] = z(g)]
  BY <1>1 DEF DirectoryRecords
<1> HIDE DEF x, y, z, used
<1> HIDE DEF c, d0
<1>10. \/ /\ dirs' = [dirs EXCEPT ![c] = x(g)] /\ refs' = (refs \cup {g}) \ {d0.gen}
       \/ /\ dirs' = [dirs EXCEPT ![c] = y(g)] /\ refs' = refs \cup {g}
       \/ /\ dirs' = [dirs EXCEPT ![c] = z(g)] /\ refs' = refs \cup {g}
  BY <1>4, <1>9
<1>11. /\ dirs' \in [Directories -> DirectoryRecords]
       /\ \A d \in Directories : d # c => dirs'[d] = dirs[d]
       /\ dirs'[c] \in {x(g), y(g), z(g)}
  BY <1>1, <1>6, <1>7, <1>8, <1>10
<1>12. /\ \A d \in Directories : SamePlace(d) /\ (d # c => Same(d))
       /\ ~dirs'[c].guard
  BY <1>0, <1>6, <1>7, <1>8, <1>11 DEF Same, SamePlace, d0
<1>13. Published(c, g)
  BY <1>1, <1>3, <1>6, <1>7, <1>8, <1>10 DEF Published, d0
<1>14. /\ GenerationInv' /\ HostInv' /\ ReferencesOwned' /\ RunningHasImages'
       /\ refs' \subseteq 1..MaxGenerations
       /\ \A d \in Directories : dirs[d].guard /\ dirs[d].gen \notin refs => dirs[d].gen \notin refs'
  BY <1>0, <1>1, <1>2, <1>3, <1>5, <1>12, <1>13, PublishedRecord DEF d0
<1>15. /\ orders' \in [Operators -> OrderRecords]
       /\ \A q \in Operators \ {p} : orders'[q] = orders[q]
       /\ lockedBy' \in [Directories -> Operators \cup {"free"}]
       /\ \A q \in Operators \ {p} : \A d \in Directories : lockedBy[d] = q => lockedBy'[d] = q
       /\ OrderFits(p)' /\ orders'[p].stage \notin {"clean3", "erase"}
  <2>1. CASE Unlock(p) /\ Idle(p)
    BY <1>0, <2>1, IdleFits, UnlockType
  <2>2. CASE /\ dirs' = [dirs EXCEPT ![c] = x(g)]
             /\ orders' = [orders EXCEPT ![p].stage = "files", ![p].created = FALSE]
             /\ lockedBy' = lockedBy
    <3>1. /\ orders' \in [Operators -> OrderRecords]
          /\ \A q \in Operators \ {p} : orders'[q] = orders[q]
          /\ orders'[p] = [o EXCEPT !.stage = "files", !.created = FALSE]
      <4>1. orders' = [orders EXCEPT ![p] = [o EXCEPT !.stage = "files", !.created = FALSE]]
        BY <1>0, <2>2 DEF OrderRecords
      <4>2. [o EXCEPT !.stage = "files", !.created = FALSE] \in OrderRecords
        BY ONLY <1>0 DEF OrderRecords, Stages
      <4> QED BY <1>0, <4>1, <4>2
    <3>2. /\ orders'[p].stage = "files" /\ orders'[p].dir = c /\ orders'[p].root = "target"
          /\ orders'[p].cmd = "install" /\ ~orders'[p].created
      BY <1>0, <1>1, <3>1 DEF OrderRecords, OrderFits, Shape, c
    <3>3. Shape(p)'
      BY <1>1, <3>2 DEF Shape
    <3>4. dirs'[c].kind = "configuring" /\ ~dirs'[c].guard
      BY <1>1, <1>6, <1>12, <2>2
    <3>5. Under(p)'
      BY <3>2, <3>4 DEF Under
    <3>6. Left(p)' /\ lockedBy'[orders'[p].dir] = p
      BY <1>1, <2>2, <3>2 DEF Left
    <3>7. lockedBy' \in [Directories -> Operators \cup {"free"}]
      BY <1>0, <2>2 DEF InstallTypes
    <3> QED BY <2>2, <3>1, <3>2, <3>3, <3>5, <3>6, <3>7 DEF OrderFits
  <2> QED BY <1>4, <2>1, <2>2 DEF x, y, c, d0
<1>16. InstallTypes' /\ Aside(p)
  BY <1>0, <1>2, <1>11, <1>14, <1>15 DEF InstallTypes, Aside
<1>17. ~dirs[c].guard /\ dirs[c].at = "target"
  BY <1>0, <1>1 DEF d0
<1> QED BY <1>1, <1>2, <1>12, <1>14, <1>15, <1>16, <1>17, RecordStep

\* The record of c changes in kind or guard only.
LEMMA MarkedRecord ==
    ASSUME InstallInv, NEW c \in Directories, refs' = refs, control' = control, host' = host,
           lost' = lost,
           \A d \in Directories : SamePlace(d) /\ (d # c => Same(d)),
           dirs'[c].gen = dirs[c].gen, dirs'[c].pend = dirs[c].pend,
           dirs'[c].kind = "bootstrap" => dirs[c].kind = "bootstrap",
           dirs[c].guard => dirs'[c].guard,
           dirs'[c].guard => dirs'[c].pend = 0,
           dirs'[c].guard \/ dirs'[c].kind = "staged" => Down(c) /\ Silent(c)
    PROVE  GenerationInv' /\ HostInv' /\ ReferencesOwned' /\ RunningHasImages'
<1>0. GenerationInv /\ HostInv /\ ReferencesOwned /\ RunningHasImages
  BY DEF InstallInv
<1>1. \A d \in Directories : dirs'[d].gen = dirs[d].gen /\ dirs'[d].pend = dirs[d].pend
  BY DEF Same
<1>2. GenerationInv'
  BY <1>0, <1>1 DEF GenerationInv, Same
<1>3. \A d \in Directories : (Down(d)' <=> Down(d)) /\ (Silent(d)' <=> Silent(d))
  BY <1>1 DEF Down, Silent, SamePlace
<1>4. HostInv'
  BY <1>0, <1>1, <1>3 DEF HostInv, Same
<1>5. ReferencesOwned'
  <2>1. \A d \in Directories : Root(d)' = Root(d)
    BY DEF Root, SamePlace
  <2> QED BY <1>0, <1>1, <2>1 DEF ReferencesOwned
<1>6. RunningHasImages'
  BY <1>0 DEF RunningHasImages
<1> QED BY <1>2, <1>4, <1>5, <1>6

LEMMA MarkReadyStep ==
    ASSUME InstallInv, NEW p \in Operators, MarkReady(p)
    PROVE  InstallInv'
<1> DEFINE o == orders[p]
           c == o.dir
           s == IF o.start THEN "start" ELSE "done"
<1>0. InstallTypes /\ OrderFits(p) /\ o.stage = "ready" /\ Held(p) /\ ~dirs[c].guard /\ Go(p, s)
      /\ systemd \in BOOLEAN
  BY DEF InstallInv, MarkReady, InstallTypes
<1>1. c \in Directories /\ lockedBy[c] = p /\ o.root = "target" /\ dirs[c].at = "target"
      /\ dirs \in [Directories -> DirectoryRecords]
  BY <1>0, LockedTarget DEF AtLock, InstallTypes
<1>2. UNCHANGED <<control, refs, host, lost, systemd>>
      /\ dirs' = [dirs EXCEPT ![c].kind = "ready"]
      /\ IF o.start /\ systemd THEN Unlock(p) ELSE lockedBy' = lockedBy
  BY DEF MarkReady, Steady
<1>3. s \in {"start", "done"} /\ s \in Stages
  BY DEF Stages
<1>4. /\ orders'[p].stage = s /\ orders'[p].dir = c /\ orders'[p].root = o.root
      /\ orders'[p].cmd = o.cmd /\ orders'[p].created = o.created
  BY <1>0, <1>3, GoFields
<1>5. /\ dirs' \in [Directories -> DirectoryRecords]
      /\ \A d \in Directories : SamePlace(d) /\ (d # c => Same(d))
      /\ dirs'[c].gen = dirs[c].gen /\ dirs'[c].pend = dirs[c].pend
      /\ dirs'[c].guard = dirs[c].guard /\ dirs'[c].kind = "ready"
  <2>1. dirs' \in [Directories -> DirectoryRecords]
    BY <1>1, <1>2 DEF DirectoryRecords
  <2> QED BY <1>1, <1>2, <2>1 DEF DirectoryRecords, Same, SamePlace
<1> HIDE DEF c
<1>6. GenerationInv' /\ HostInv' /\ ReferencesOwned' /\ RunningHasImages'
  BY <1>0, <1>1, <1>2, <1>5, MarkedRecord DEF c
<1>7. Shape(p)'
  BY <1>0, <1>1, <1>3, <1>4 DEF OrderFits, Shape
<1>8. Under(p)' /\ Left(p)'
  BY <1>3, <1>4 DEF Under, Left
<1>9. Holds(p)' => lockedBy'[orders'[p].dir] = p
  BY <1>0, <1>1, <1>2, <1>3, <1>4 DEF Holds, AtLock
<1>10. OrderFits(p)'
  BY <1>7, <1>8, <1>9 DEF OrderFits
<1>11. /\ lockedBy' \in [Directories -> Operators \cup {"free"}]
       /\ \A q \in Operators \ {p} : \A d \in Directories : lockedBy[d] = q => lockedBy'[d] = q
  BY <1>0, <1>2, UnlockType DEF InstallTypes
<1>12. InstallTypes' /\ Aside(p)
  BY <1>0, <1>2, <1>3, <1>5, <1>11, GoType DEF InstallTypes, Aside
<1>13. ~dirs[c].guard
  BY <1>0 DEF c
<1> QED BY <1>1, <1>2, <1>3, <1>4, <1>5, <1>6, <1>10, <1>12, <1>13, RecordStep

LEMMA ClearInstallationStep ==
    ASSUME InstallInv, NEW p \in Operators, ClearInstallation(p)
    PROVE  InstallInv'
<1> DEFINE o == orders[p]
           c == o.dir
<1>0. InstallTypes /\ OrderFits(p) /\ o.stage = "clear" /\ Held(p) /\ ~dirs[c].guard
      /\ Go(p, "done")
  BY DEF InstallInv, ClearInstallation
<1>1. c \in Directories /\ lockedBy[c] = p /\ o.root = "target" /\ dirs[c].at = "target"
      /\ dirs \in [Directories -> DirectoryRecords]
  BY <1>0, LockedTarget DEF AtLock, InstallTypes
<1>2. UNCHANGED <<control, refs, host, lost, systemd, lockedBy>>
      /\ dirs' = [dirs EXCEPT ![c].kind = "staged"]
  BY DEF ClearInstallation, Steady
<1>3. "done" \in Stages
  BY DEF Stages
<1>4. /\ orders'[p].stage = "done" /\ orders'[p].dir = c /\ orders'[p].root = o.root
      /\ orders'[p].cmd = o.cmd /\ orders'[p].created = o.created
  BY <1>0, <1>3, GoFields
<1>5. /\ dirs' \in [Directories -> DirectoryRecords]
      /\ \A d \in Directories : SamePlace(d) /\ (d # c => Same(d))
      /\ dirs'[c].gen = dirs[c].gen /\ dirs'[c].pend = dirs[c].pend
      /\ dirs'[c].guard = dirs[c].guard /\ dirs'[c].kind = "staged"
  <2>1. dirs' \in [Directories -> DirectoryRecords]
    BY <1>1, <1>2 DEF DirectoryRecords
  <2> QED BY <1>1, <1>2, <2>1 DEF DirectoryRecords, Same, SamePlace
<1>6. Down(c) /\ Silent(c)
  BY <1>0 DEF OrderFits, Under
<1> HIDE DEF c
<1>7. GenerationInv' /\ HostInv' /\ ReferencesOwned' /\ RunningHasImages'
  BY <1>0, <1>1, <1>2, <1>5, <1>6, MarkedRecord DEF c
<1>8. Shape(p)'
  BY <1>0, <1>1, <1>4 DEF OrderFits, Shape
<1>9. Under(p)' /\ Left(p)' /\ lockedBy'[orders'[p].dir] = p
  BY <1>1, <1>2, <1>4 DEF Under, Left
<1>10. OrderFits(p)'
  BY <1>8, <1>9 DEF OrderFits
<1>12. InstallTypes' /\ Aside(p)
  BY <1>0, <1>2, <1>3, <1>5, GoType DEF InstallTypes, Aside
<1>13. ~dirs[c].guard
  BY <1>0 DEF c
<1> QED BY <1>1, <1>2, <1>4, <1>5, <1>7, <1>10, <1>12, <1>13, RecordStep

LEMMA GuardStep ==
    ASSUME InstallInv, NEW p \in Operators, Guard(p)
    PROVE  InstallInv'
<1> DEFINE o == orders[p]
           c == o.dir
<1>0. InstallTypes /\ OrderFits(p) /\ o.stage = "guard" /\ Held(p) /\ ~dirs[c].guard
      /\ dirs[c].pend = 0
  BY DEF InstallInv, Guard
<1>1. c \in Directories /\ lockedBy[c] = p /\ o.root = "target" /\ dirs[c].at = "target"
      /\ dirs \in [Directories -> DirectoryRecords] /\ dirs[c] \in DirectoryRecords
  BY <1>0, LockedTarget DEF AtLock, InstallTypes
<1>2. UNCHANGED <<control, refs, host, lost, systemd>>
  BY DEF Guard
<1>3. Down(c) /\ Silent(c)
  BY <1>0 DEF OrderFits, Under
<1>4. PICK m \in Operators \cup {"none", "dead"}, b \in BOOLEAN :
        dirs' = [dirs EXCEPT ![c].marker = m, ![c].guard = b]
  <2>1. CASE dirs' = [dirs EXCEPT ![c].guard = TRUE]
    <3>1. dirs' = [dirs EXCEPT ![c].marker = dirs[c].marker, ![c].guard = TRUE]
      BY <1>1, <2>1 DEF DirectoryRecords
    <3>2. dirs[c].marker \in Operators \cup {"none", "dead"}
      BY <1>1 DEF DirectoryRecords
    <3> QED BY <3>1, <3>2
  <2>2. CASE dirs' = [dirs EXCEPT ![c].marker = "dead"]
    <3>1. dirs' = [dirs EXCEPT ![c].marker = "dead", ![c].guard = dirs[c].guard]
      BY <1>1, <2>2 DEF DirectoryRecords
    <3>2. dirs[c].guard \in BOOLEAN
      BY <1>1 DEF DirectoryRecords
    <3> QED BY <3>1, <3>2
  <2>3. CASE dirs' = [dirs EXCEPT ![c].marker = "dead", ![c].guard = TRUE]
    BY <2>3
  <2> QED BY <2>1, <2>2, <2>3 DEF Guard
<1>5. /\ dirs' \in [Directories -> DirectoryRecords]
      /\ \A d \in Directories : SamePlace(d) /\ (d # c => Same(d))
      /\ dirs'[c].gen = dirs[c].gen /\ dirs'[c].pend = dirs[c].pend
      /\ dirs'[c].kind = dirs[c].kind
  <2>1. dirs' \in [Directories -> DirectoryRecords]
    BY <1>1, <1>4 DEF DirectoryRecords
  <2> QED BY <1>1, <1>4, <2>1 DEF DirectoryRecords, Same, SamePlace
<1>6. GenerationInv' /\ HostInv' /\ ReferencesOwned' /\ RunningHasImages'
  BY <1>0, <1>1, <1>2, <1>3, <1>5, MarkedRecord
<1>7. /\ orders' \in [Operators -> OrderRecords]
      /\ \A q \in Operators \ {p} : orders'[q] = orders[q]
      /\ lockedBy' \in [Directories -> Operators \cup {"free"}]
      /\ \A q \in Operators \ {p} : \A d \in Directories : lockedBy[d] = q => lockedBy'[d] = q
      /\ OrderFits(p)' /\ orders'[p].stage \notin {"clean3", "erase"}
  <2>1. CASE Unlock(p) /\ Idle(p)
    BY <1>0, <2>1, IdleFits, UnlockType
  <2>2. CASE dirs' = [dirs EXCEPT ![c].guard = TRUE] /\ Go(p, Resumed(o.cmd)) /\ lockedBy' = lockedBy
    <3> DEFINE s == Resumed(o.cmd)
    <3>1. s \in {"retire", "down"} /\ s \in Stages
      BY DEF Stages, Resumed
    <3>2. /\ orders'[p].stage = s /\ orders'[p].dir = c /\ orders'[p].root = o.root
          /\ orders'[p].created = o.created /\ orders'[p].cmd = o.cmd
      BY <1>0, <2>2, <3>1, GoFields
    <3> HIDE DEF s
    <3>3. Shape(p)'
      BY <1>0, <1>1, <3>1, <3>2 DEF OrderFits, Shape
    <3>8. dirs'[c].guard /\ dirs'[c].at = "target"
      BY <1>1, <1>5, <2>2 DEF DirectoryRecords, SamePlace
    <3>4. /\ o.cmd = "stageRemove" => dirs'[c].kind = "staged"
          /\ s = "down" => o.cmd = "stageRemove"
      BY <1>0, <1>5 DEF OrderFits, Under, Resumed, s
    <3>5. Under(p)'
      BY <3>1, <3>2, <3>4, <3>8 DEF Under
    <3>6. Left(p)' /\ lockedBy'[orders'[p].dir] = p
      BY <1>1, <2>2, <3>1, <3>2 DEF Left
    <3>7. lockedBy' \in [Directories -> Operators \cup {"free"}]
      BY <1>0, <2>2 DEF InstallTypes
    <3>9. OrderFits(p)' /\ orders'[p].stage \notin {"clean3", "erase"}
      BY <3>1, <3>2, <3>3, <3>5, <3>6 DEF OrderFits
    <3> QED BY <1>0, <2>2, <3>1, <3>7, <3>9, GoType DEF s
  <2> QED BY <2>1, <2>2 DEF Guard
<1>8. InstallTypes' /\ Aside(p)
  BY <1>0, <1>2, <1>5, <1>7 DEF InstallTypes, Aside
<1> QED BY <1>0, <1>1, <1>2, <1>5, <1>6, <1>7, <1>8, RecordStep

LEMMA RetireReferencesStep ==
    ASSUME InstallInv, NEW p \in Operators, RetireReferences(p)
    PROVE  InstallInv'
<1> DEFINE o == orders[p]
           c == o.dir
<1>0. InstallTypes /\ OrderFits(p) /\ o.stage = "retire" /\ Held(p) /\ Go(p, "isolate")
      /\ GenerationInv /\ HostInv /\ ReferencesOwned /\ RunningHasImages
      /\ refs \subseteq 1..MaxGenerations
  BY DEF InstallInv, RetireReferences, InstallTypes
<1>1. c \in Directories /\ lockedBy[c] = p /\ o.root = "target" /\ dirs[c].at = "target"
  BY <1>0, LockedTarget DEF AtLock
<1>2. UNCHANGED <<dirs, control, host, lost, systemd, lockedBy>> /\ refs' = refs \ {dirs[c].gen}
  BY DEF RetireReferences, Steady
<1>3. dirs[c].guard
  BY <1>0 DEF OrderFits, Under
<1>4. Down(c)
  BY <1>0, <1>1, <1>3 DEF HostInv
<1>5. GenerationInv'
  BY <1>0, <1>1, <1>2, <1>3, NumbersApart DEF GenerationInv
<1>6. HostInv'
  BY <1>0, <1>2 DEF HostInv, Down, Silent
<1>7. ReferencesOwned'
  <2>1. \A d \in Directories : Root(d)' = Root(d)
    BY <1>2 DEF Root
  <2> QED BY <1>0, <1>2, <2>1 DEF ReferencesOwned
<1>8. RunningHasImages'
  BY <1>0, <1>2, <1>4 DEF RunningHasImages, Down
<1>9. "isolate" \in Stages
  BY DEF Stages
<1>10. /\ orders'[p].stage = "isolate" /\ orders'[p].dir = c /\ orders'[p].root = o.root
       /\ orders'[p].created = o.created
  BY <1>0, <1>9, GoFields
<1>11. Shape(p)'
  BY <1>0, <1>1, <1>10 DEF OrderFits, Shape
<1>12. Under(p)'
  BY <1>2, <1>3, <1>10 DEF Under
<1>13. Left(p)' /\ lockedBy'[orders'[p].dir] = p
  BY <1>1, <1>2, <1>10 DEF Left
<1>14. OrderFits(p)'
  BY <1>11, <1>12, <1>13 DEF OrderFits
<1>15. InstallTypes' /\ Aside(p)
  BY <1>0, <1>2, <1>9, GoType DEF InstallTypes, Aside
<1>16. \A d \in Directories : dirs[d].guard /\ dirs[d].gen \notin refs => dirs[d].gen \notin refs'
  BY <1>2
<1> QED BY <1>1, <1>2, <1>5, <1>6, <1>7, <1>8, <1>10, <1>14, <1>15, <1>16, Unmoved, RecordStep

-----------------------------------------------------------------------------
(* Steps that move directories and the records of a removal                 *)

\* Where the record of d was found with its references, these have gone or d
\* is lost.
Unowned(d) ==
    /\ dirs[d].gen \notin refs \/ dirs[d].gen \in lost'
    /\ dirs[d].pend \notin refs \/ dirs[d].pend \in lost'

\* P are the commands that move something: one, or none.
LEMMA PlaceStep ==
    ASSUME InstallInv, NEW P \in SUBSET Operators, InstallTypes', PlaceInv', AsideInv',
           \A d \in Directories : Same(d),
           refs' = refs, systemd' = systemd, lost \subseteq lost',
           host'.running = host.running, host'.enabled = host.enabled, host'.unit = host.unit,
           host.late => host'.late,
           \A d \in Directories : dirs[d].at # "none" => (Silent(d) => Silent(d)'),
           \A d \in Directories : dirs[d].at # "none" => dirs'[d].at # "none",
           \A d \in Directories :
               dirs[d].at \in {"tomb", "gone"} => dirs'[d].at \in {dirs[d].at, "gone"},
           \A d \in Directories :
               Root(d) \in {"target", "aside"} => Root(d)' \in {"target", "aside"} \/ Unowned(d),
           \A p \in P : OrderFits(p)',
           \A q \in Operators \ P :
               /\ orders'[q] = orders[q]
               /\ \A d \in Directories : lockedBy[d] = q => lockedBy'[d] = q
               /\ orders[q].stage \in {"clean3", "erase"} =>
                    dirs'[orders[q].dir].at = dirs[orders[q].dir].at
    PROVE  InstallInv'
<1>0. InstallTypes /\ PlaceInv /\ GenerationInv /\ HostInv /\ ReferencesOwned /\ RunningHasImages
  BY DEF InstallInv
<1>1. GenerationInv'
  BY <1>0 DEF GenerationInv, Same
<1>2. \A d \in Directories : Down(d)' <=> Down(d)
  BY DEF Down, Same
<1>3. HostInv'
  <2>1. \A d \in Directories : dirs[d].guard \/ dirs[d].kind = "staged" => dirs[d].at # "none"
    BY <1>0 DEF PlaceInv
  <2>2. host'.enabled /\ ~host'.unit => host'.late
    BY <1>0 DEF HostInv
  <2> QED BY <1>0, <1>2, <2>1, <2>2 DEF HostInv, Same
<1>4. ReferencesOwned'
  <2>1. ASSUME NEW g \in refs' \ lost'
        PROVE  \E d \in Directories : g \in {dirs'[d].gen, dirs'[d].pend}
                                      /\ Root(d)' \in {"target", "aside"}
    <3>1. PICK d \in Directories : g \in {dirs[d].gen, dirs[d].pend} /\ Root(d) \in {"target", "aside"}
      BY <1>0, <2>1 DEF ReferencesOwned
    <3> QED BY <2>1, <3>1 DEF Unowned, Same
  <2> QED BY <2>1 DEF ReferencesOwned
<1>5. RunningHasImages'
  BY <1>0 DEF RunningHasImages
<1>6. ASSUME NEW q \in Operators \ P PROVE OrderFits(q)'
  <2>1. Spares(q)
    <3>1. \A d \in Directories :
            /\ dirs[d].guard => dirs'[d].guard
            /\ dirs[d].guard /\ dirs[d].gen \notin refs => dirs'[d].gen \notin refs'
      BY DEF Same
    <3> QED BY <1>2, <1>6, <3>1 DEF Spares
  <2> QED BY <1>0, <2>1, Bystander DEF InstallInv
<1>7. \A p \in Operators : OrderFits(p)'
  BY <1>6
<1> QED BY <1>1, <1>3, <1>4, <1>5, <1>7 DEF InstallInv

\* One directory is moved.
LEMMA MoveStep ==
    ASSUME InstallInv, NEW p \in Operators, NEW c \in Directories, InstallTypes', AsideInv',
           Aside(p), OrderFits(p)',
           \A d \in Directories : Same(d) /\ (d # c => SamePlace(d)),
           UNCHANGED <<control, refs, systemd, lost>>,
           host'.running = host.running, host'.enabled = host.enabled, host'.unit = host.unit,
           host.late => host'.late,
           dirs[c].at \in {"none", "target", "aside"}, dirs'[c].at # "none",
           dirs'[c].at \in {"target", "aside"} => dirs'[c].meta,
           dirs'[c].at = "target" =>
             /\ AtTarget = {}
             /\ dirs[c].at # "none" => (host.unit \/ host.enabled => host'.late),
           dirs'[c].at = "tomb" => dirs'[c].meta /\ ~PendingRemoval,
           dirs'[c].at \in {"target", "aside"} \/ Unowned(c),
           \A q \in Operators \ {p} : orders[q].stage \in {"clean3", "erase"} => orders[q].dir # c
    PROVE  InstallInv'
<1>0. InstallTypes /\ PlaceInv /\ \A q \in Operators : OrderFits(q)
  BY DEF InstallInv
<1>1. PlaceInv'
  <2>0. control # c
    BY <1>0 DEF PlaceInv
  <2>1. \A d \in Directories :
          /\ dirs'[d].at \in {"target", "aside"} => dirs'[d].meta
          /\ dirs'[d].at = "none" => dirs'[d].kind = "bootstrap" /\ ~dirs'[d].guard
    BY <1>0 DEF PlaceInv, Same, SamePlace
  <2>2. \A d \in Directories : control' = d => dirs'[d].at \in {"tomb", "gone"} /\ ~dirs'[d].meta
    BY <1>0, <2>0 DEF PlaceInv, SamePlace
  <2>3. \A d \in Directories : dirs'[d].at = "tomb" =>
          /\ dirs'[d].meta \/ control' = d \/ dirs'[d].gen \in lost'
          /\ control' \in Directories => control' = d
    BY <1>0, <2>0, NumbersApart DEF PlaceInv, Same, SamePlace, PendingRemoval
  <2>4. \A d, e \in Directories :
          dirs'[d].at = dirs'[e].at /\ dirs'[d].at \in {"target", "tomb"} => d = e
    BY <1>0 DEF PlaceInv, SamePlace, PendingRemoval, Tombs, AtTarget
  <2> QED BY <2>1, <2>2, <2>3, <2>4 DEF PlaceInv
<1>2. \A d \in Directories : dirs[d].at # "none" => (Silent(d) => Silent(d)')
  BY DEF Silent, SamePlace
<1>3. \A d \in Directories : d # c => Root(d)' = Root(d)
  BY DEF Root, SamePlace
<1>4. Root(c)' \in {"target", "aside"} \/ Unowned(c)
  BY <1>0 DEF Root, PlaceInv
<1>5. \A d \in Directories :
        Root(d) \in {"target", "aside"} => Root(d)' \in {"target", "aside"} \/ Unowned(d)
  BY <1>3, <1>4
<1>6. \A q \in Operators \ {p} : orders[q].stage \in {"clean3", "erase"} =>
        dirs'[orders[q].dir].at = dirs[orders[q].dir].at
  <2>1. \A q \in Operators : orders[q].stage \in {"clean3", "erase"} => orders[q].dir \in Directories
    BY <1>0 DEF OrderFits, Shape, Loose
  <2> QED BY <2>1 DEF SamePlace
<1>7. \A d \in Directories :
        /\ dirs[d].at # "none" => dirs'[d].at # "none"
        /\ dirs[d].at \in {"tomb", "gone"} => dirs'[d].at \in {dirs[d].at, "gone"}
  BY DEF SamePlace
<1>8. {p} \in SUBSET Operators /\ \A r \in {p} : OrderFits(r)'
  OBVIOUS
<1>9. \A q \in Operators \ {p} :
        /\ orders'[q] = orders[q]
        /\ \A d \in Directories : lockedBy[d] = q => lockedBy'[d] = q
        /\ orders[q].stage \in {"clean3", "erase"} =>
             dirs'[orders[q].dir].at = dirs[orders[q].dir].at
  BY <1>6 DEF Aside
<1>10. refs' = refs /\ systemd' = systemd /\ lost \subseteq lost' /\ \A d \in Directories : Same(d)
  OBVIOUS
<1> QED BY <1>1, <1>2, <1>5, <1>7, <1>8, <1>9, <1>10, PlaceStep

\* Nobody else is to end the way of a directory that is not aside, or that p is
\* to end.
LEMMA OnlyMine ==
    ASSUME InstallInv, NEW p \in Operators, NEW c \in Directories,
           \/ dirs[c].at # "aside"
           \/ orders[p].stage \in {"clean3", "erase"} /\ orders[p].dir = c
    PROVE  \A q \in Operators \ {p} : orders[q].stage \in {"clean3", "erase"} => orders[q].dir # c
  BY DEF InstallInv, OrderFits, Left, AsideInv

LEMMA AsideKept ==
    ASSUME InstallInv, NEW p \in Operators, Aside(p),
           orders'[p].stage \notin {"clean3", "erase"}
           \/ \A q \in Operators \ {p} :
                orders[q].stage \in {"clean3", "erase"} => orders[q].dir # orders'[p].dir
    PROVE  AsideInv'
  BY DEF InstallInv, AsideInv, Aside

LEMMA EnsureStep ==
    ASSUME InstallInv, NEW p \in Operators, Ensure(p)
    PROVE  InstallInv'
<1> DEFINE o == orders[p]
<1>0. InstallTypes /\ PlaceInv /\ OrderFits(p) /\ o.stage = "plan" /\ o \in OrderRecords
      /\ dirs \in [Directories -> DirectoryRecords] /\ orders \in [Operators -> OrderRecords]
  BY DEF InstallInv, Ensure, InstallTypes
<1>1. UNCHANGED <<control, refs, host, lost, systemd, lockedBy>>
  BY DEF Ensure, Steady
<1>2. CASE o.dir # 0 /\ Go(p, "prepare") /\ dirs' = dirs
  <2>1. "prepare" \in Stages /\ o.dir \in Directories
    BY <1>0, <1>2 DEF Stages, OrderRecords
  <2>2. /\ orders'[p].stage = "prepare" /\ orders'[p].dir = o.dir /\ orders'[p].root = o.root
        /\ orders'[p].cmd = o.cmd /\ orders'[p].created = o.created
    BY <1>0, <1>2, <2>1, GoFields
  <2>3. Shape(p)'
    BY <1>0, <2>1, <2>2 DEF OrderFits, Shape, AtRemains
  <2>4. Under(p)'
    BY <1>0, <1>2, <2>2 DEF OrderFits, Under
  <2>5. Left(p)' /\ lockedBy'[orders'[p].dir] = p
    BY <1>0, <1>1, <1>2, <2>2 DEF OrderFits, Left, Holds
  <2>6. OrderFits(p)'
    BY <2>3, <2>4, <2>5 DEF OrderFits
  <2> QED BY <1>0, <1>1, <1>2, <2>1, <2>2, <2>6, GoType, OnlyOrder
<1>3. CASE o.dir = 0 /\ dirs' = dirs
           /\ orders' = [orders EXCEPT ![p].stage = "open", ![p].saw.at = "target"]
  <2> DEFINE r == [o EXCEPT !.stage = "open", !.saw.at = "target"]
  <2>1. orders' = [orders EXCEPT ![p] = r]
    BY <1>0, <1>3 DEF OrderRecords
  <2>2. r \in OrderRecords /\ r.stage = "open" /\ r.root = o.root /\ r.created = o.created
    BY <1>0 DEF OrderRecords, DirectoryRecords, Stages
  <2> HIDE DEF r
  <2>3. orders' \in [Operators -> OrderRecords] /\ orders'[p] = r
        /\ \A q \in Operators \ {p} : orders'[q] = orders[q]
    BY <1>0, <2>1, <2>2
  <2>4. Shape(p)'
    BY <1>0, <2>2, <2>3 DEF OrderFits, Shape, Loose, AtRemains
  <2>5. OrderFits(p)'
    BY <2>2, <2>3, <2>4, FreeFits DEF FreeStages
  <2> QED BY <1>1, <1>3, <2>2, <2>3, <2>5, OnlyOrder
<1>4. CASE /\ o.dir = 0 /\ AtTarget = {}
           /\ \E d \in Directories :
                dirs[d].at = "none" /\ dirs' = [dirs EXCEPT ![d].at = "target", ![d].meta = TRUE]
           /\ orders' = [orders EXCEPT ![p].stage = "open", ![p].saw.at = "target",
                                       ![p].created = TRUE]
  <2> DEFINE r == [o EXCEPT !.stage = "open", !.saw.at = "target", !.created = TRUE]
  <2>0. PICK c \in Directories :
          dirs[c].at = "none" /\ dirs' = [dirs EXCEPT ![c].at = "target", ![c].meta = TRUE]
    BY <1>4
  <2>1. orders' = [orders EXCEPT ![p] = r]
    BY <1>0, <1>4 DEF OrderRecords
  <2>2. r \in OrderRecords /\ r.stage = "open" /\ r.root = o.root
    BY <1>0 DEF OrderRecords, DirectoryRecords, Stages
  <2> HIDE DEF r
  <2>3. orders' \in [Operators -> OrderRecords] /\ orders'[p] = r
        /\ \A q \in Operators \ {p} : orders'[q] = orders[q]
    BY <1>0, <2>1, <2>2
  <2>4. Shape(p)'
    BY <1>0, <2>2, <2>3 DEF OrderFits, Shape, Loose, AtRemains
  <2>5. OrderFits(p)'
    BY <2>2, <2>3, <2>4, FreeFits DEF FreeStages
  <2>6. /\ dirs' \in [Directories -> DirectoryRecords]
        /\ dirs'[c].at = "target" /\ dirs'[c].meta
    BY ZenonT(40), <1>0, <2>0 DEF DirectoryRecords
  <2>7. \A d \in Directories : Same(d) /\ (d # c => SamePlace(d))
    BY <1>0, <2>0 DEF DirectoryRecords, Same, SamePlace
  <2>8. InstallTypes' /\ Aside(p)
    BY <1>0, <1>1, <2>3, <2>6 DEF InstallTypes, Aside
  <2>9. \A q \in Operators \ {p} : orders[q].stage \in {"clean3", "erase"} => orders[q].dir # c
    BY <2>0, OnlyMine
  <2>10. AsideInv'
    BY <2>2, <2>3, <2>8, AsideKept
  <2>11. /\ UNCHANGED <<control, refs, systemd, lost>>
         /\ host'.running = host.running /\ host'.enabled = host.enabled /\ host'.unit = host.unit
         /\ (host.late => host'.late)
    BY <1>1
  <2>12. dirs'[c].at # "none" /\ dirs'[c].at # "tomb" /\ dirs'[c].at \in {"target", "aside"}
    BY <2>6
  <2> QED BY <1>4, <2>0, <2>5, <2>6, <2>7, <2>8, <2>9, <2>10, <2>11, <2>12, MoveStep
<1> QED BY <1>2, <1>3, <1>4 DEF Ensure

LEMMA IsolateStep ==
    ASSUME InstallInv, NEW p \in Operators, Isolate(p)
    PROVE  InstallInv'
<1> DEFINE o == orders[p]
           c == o.dir
           a == IF o.cmd = "stageRemove" THEN "aside" ELSE "tomb"
           s == IF o.cmd = "stageRemove" THEN "erase" ELSE "final1"
<1>0. InstallTypes /\ PlaceInv /\ GenerationInv /\ OrderFits(p) /\ o.stage = "isolate" /\ Held(p)
      /\ dirs \in [Directories -> DirectoryRecords] /\ refs \subseteq 1..MaxGenerations
  BY DEF InstallInv, Isolate, InstallTypes
<1>1. c \in Directories /\ lockedBy[c] = p /\ o.root = "target" /\ dirs[c].at = "target"
  BY <1>0, LockedTarget DEF AtLock
<1>2. UNCHANGED <<control, refs, host, lost, systemd>> /\ Unlock(p) /\ Go(p, s)
      /\ dirs' = [dirs EXCEPT ![c].at = a, ![c].marker = "none"]
      /\ (a = "tomb" => ~PendingRemoval)
  BY DEF Isolate, Steady
<1>3. dirs[c].guard /\ dirs[c].gen \notin refs
  BY <1>0 DEF OrderFits, Under
<1>4. s \in {"erase", "final1"} /\ s \in Stages /\ a \in {"aside", "tomb"}
      /\ (s = "erase" <=> a = "aside")
  BY DEF Stages
<1>5. /\ orders'[p].stage = s /\ orders'[p].dir = c /\ orders'[p].root = o.root
      /\ orders'[p].created = o.created
  BY <1>0, <1>2, <1>4, GoFields
<1> HIDE DEF c, s, a
<1>6. /\ dirs' \in [Directories -> DirectoryRecords]
      /\ dirs'[c].at = a /\ dirs'[c].meta
      /\ \A d \in Directories : Same(d) /\ (d # c => SamePlace(d))
  <2> DEFINE r == [dirs[c] EXCEPT !.at = a, !.marker = "none"]
  <2>0. dirs' = [dirs EXCEPT ![c] = r]
    BY <1>0, <1>1, <1>2
  <2>1. dirs' \in [Directories -> DirectoryRecords]
    <3>1. dirs[c] \in DirectoryRecords
      BY <1>0, <1>1
    <3>2. r \in DirectoryRecords
      BY <1>4, <3>1 DEF DirectoryRecords
    <3> HIDE DEF r
    <3> QED BY <1>0, <1>1, <2>0, <3>2
  <2>2. dirs[c].meta
    BY <1>0, <1>1 DEF PlaceInv
  <2>3. dirs'[c].at = a /\ dirs'[c].meta
    BY <1>0, <1>1, <1>2, <2>2 DEF DirectoryRecords
  <2>4. \A d \in Directories : Same(d) /\ (d # c => SamePlace(d))
    BY <1>0, <1>1, <1>2 DEF DirectoryRecords, Same, SamePlace
  <2> QED BY <2>1, <2>3, <2>4
<1>7. Shape(p)'
  BY <1>0, <1>1, <1>4, <1>5 DEF OrderFits, Shape, AtRemains
<1>8. Under(p)' /\ ~Holds(p)'
  BY <1>4, <1>5 DEF Under, Holds, AtLock
<1>9. Left(p)'
  <2>1. dirs'[c].guard /\ dirs'[c].gen \notin refs'
    BY <1>1, <1>2, <1>3, <1>6 DEF Same
  <2> QED BY <1>4, <1>5, <1>6, <2>1 DEF Left
<1>10. OrderFits(p)'
  BY <1>7, <1>8, <1>9 DEF OrderFits
<1>11. InstallTypes' /\ Aside(p)
  BY <1>0, <1>2, <1>4, <1>6, GoType, UnlockType DEF InstallTypes, Aside
<1>12. \A q \in Operators \ {p} : orders[q].stage \in {"clean3", "erase"} => orders[q].dir # c
  BY <1>1, OnlyMine
<1>13. AsideInv'
  BY <1>5, <1>11, <1>12, AsideKept
<1>14. Unowned(c)
  BY <1>0, <1>1, <1>3, NumbersApart DEF Unowned, GenerationInv
<1>15. /\ UNCHANGED <<control, refs, systemd, lost>>
       /\ host'.running = host.running /\ host'.enabled = host.enabled /\ host'.unit = host.unit
       /\ (host.late => host'.late)
  BY <1>2
<1>16. dirs'[c].at # "none" /\ dirs'[c].at # "target"
  BY <1>4, <1>6
<1> QED BY <1>1, <1>2, <1>6, <1>10, <1>11, <1>12, <1>13, <1>14, <1>15, <1>16, MoveStep

LEMMA CleanupMovesStep ==
    ASSUME InstallInv, NEW p \in Operators, CleanupMoves(p)
    PROVE  InstallInv'
<1> DEFINE o == orders[p]
<1>0. InstallTypes /\ PlaceInv /\ OrderFits(p) /\ o.stage = "clean2" /\ o \in OrderRecords
      /\ dirs \in [Directories -> DirectoryRecords] /\ orders \in [Operators -> OrderRecords]
  BY DEF InstallInv, CleanupMoves, InstallTypes
<1>1. UNCHANGED <<control, refs, host, lost, systemd, lockedBy>>
  BY DEF CleanupMoves, Steady
<1>2. CASE Idle(p) /\ dirs' = dirs
  BY <1>1, <1>2, AbandonedStep
<1>3. CASE \E d \in AtTarget :
             /\ dirs' = [dirs EXCEPT ![d].at = "aside"]
             /\ orders' = [orders EXCEPT ![p].stage = "clean3", ![p].dir = d]
  <2>1. PICK c \in Directories :
          /\ dirs[c].at = "target" /\ dirs' = [dirs EXCEPT ![c].at = "aside"]
          /\ orders' = [orders EXCEPT ![p].stage = "clean3", ![p].dir = c]
    BY <1>3 DEF AtTarget
  <2>2. /\ dirs' \in [Directories -> DirectoryRecords]
        /\ dirs'[c].at = "aside" /\ dirs'[c].meta = dirs[c].meta
    BY <1>0, <2>1 DEF DirectoryRecords
  <2>3. \A d \in Directories : Same(d) /\ (d # c => SamePlace(d))
    BY <1>0, <2>1 DEF DirectoryRecords, Same, SamePlace
  <2>4. dirs'[c].meta
    BY <1>0, <2>1, <2>2 DEF PlaceInv
  <2>5. /\ orders' \in [Operators -> OrderRecords]
        /\ \A q \in Operators \ {p} : orders'[q] = orders[q]
        /\ orders'[p].stage = "clean3" /\ orders'[p].dir = c /\ orders'[p].root = o.root
        /\ orders'[p].created = o.created
    BY <1>0, <2>1 DEF OrderRecords, Stages
  <2>6. Shape(p)'
    BY <1>0, <2>5 DEF OrderFits, Shape, AtRemains
  <2>7. Under(p)' /\ ~Holds(p)' /\ Left(p)'
    BY <2>2, <2>5 DEF Under, Holds, AtLock, Left
  <2>8. OrderFits(p)'
    BY <2>6, <2>7 DEF OrderFits
  <2>9. InstallTypes' /\ Aside(p)
    BY <1>0, <1>1, <2>2, <2>5 DEF InstallTypes, Aside
  <2>10. \A q \in Operators \ {p} : orders[q].stage \in {"clean3", "erase"} => orders[q].dir # c
    BY <2>1, OnlyMine
  <2>11. AsideInv'
    BY <2>5, <2>9, <2>10, AsideKept
  <2>12. /\ UNCHANGED <<control, refs, systemd, lost>>
         /\ host'.running = host.running /\ host'.enabled = host.enabled /\ host'.unit = host.unit
         /\ (host.late => host'.late)
    BY <1>1
  <2>13. dirs'[c].at # "none" /\ dirs'[c].at # "target" /\ dirs'[c].at # "tomb"
    BY <2>2
  <2> QED BY <2>1, <2>2, <2>3, <2>4, <2>8, <2>9, <2>10, <2>11, <2>12, <2>13, MoveStep
<1> QED BY <1>2, <1>3 DEF CleanupMoves

\* A directory that was moved aside is erased.
LEMMA ErasedStep ==
    ASSUME InstallInv, NEW p \in Operators, orders[p].stage \in {"clean3", "erase"},
           dirs' = [dirs EXCEPT ![orders[p].dir].at = "gone", ![orders[p].dir].meta = FALSE],
           Idle(p), Unowned(orders[p].dir),
           UNCHANGED <<control, refs, host, lost, systemd, lockedBy>>
    PROVE  InstallInv'
<1> DEFINE c == orders[p].dir
<1>0. InstallTypes /\ c \in Directories /\ dirs[c].at = "aside"
      /\ dirs \in [Directories -> DirectoryRecords]
  BY HasDirectory DEF InstallInv, InstallTypes, OrderFits, Left, Loose
<1>1. /\ dirs' \in [Directories -> DirectoryRecords] /\ dirs'[c].at = "gone"
      /\ \A d \in Directories : Same(d) /\ (d # c => SamePlace(d))
  <2>1. dirs' \in [Directories -> DirectoryRecords] /\ dirs'[c].at = "gone"
    BY <1>0 DEF DirectoryRecords
  <2>2. \A d \in Directories : Same(d) /\ (d # c => SamePlace(d))
    BY ZenonT(40), <1>0 DEF DirectoryRecords, Same, SamePlace
  <2> QED BY <2>1, <2>2
<1>2. orders' \in [Operators -> OrderRecords] /\ orders'[p].stage = "idle" /\ OrderFits(p)'
      /\ \A q \in Operators \ {p} : orders'[q] = orders[q]
  BY <1>0, IdleFits
<1>3. InstallTypes' /\ Aside(p)
  BY <1>0, <1>1, <1>2 DEF InstallTypes, Aside
<1>4. \A q \in Operators \ {p} : orders[q].stage \in {"clean3", "erase"} => orders[q].dir # c
  BY <1>0, OnlyMine
<1>5. AsideInv'
  BY <1>2, <1>3, AsideKept
<1> HIDE DEF c
<1>6. Unowned(c)
  BY DEF c
<1>7. dirs'[c].at # "none" /\ dirs'[c].at # "target" /\ dirs'[c].at # "tomb" /\ dirs'[c].at # "aside"
  BY <1>1
<1> QED BY <1>0, <1>1, <1>2, <1>3, <1>4, <1>5, <1>6, <1>7, MoveStep

LEMMA CleanupEndsStep ==
    ASSUME InstallInv, NEW p \in Operators, CleanupEnds(p)
    PROVE  InstallInv'
<1> DEFINE c == orders[p].dir
<1>0. InstallTypes /\ PlaceInv /\ GenerationInv /\ c \in Directories /\ dirs[c].at = "aside"
      /\ dirs \in [Directories -> DirectoryRecords] /\ orders[p].stage = "clean3"
      /\ refs \subseteq 1..MaxGenerations /\ host \in HostRecords
  BY HasDirectory DEF InstallInv, CleanupEnds, InstallTypes, OrderFits, Left, Loose
<1>1. UNCHANGED <<control, refs, lost, systemd, lockedBy>> /\ Idle(p)
  BY DEF CleanupEnds, Steady
<1>2. CASE /\ Bootstrap(dirs[c])
           /\ dirs' = [dirs EXCEPT ![c].at = "gone", ![c].meta = FALSE] /\ host' = host
  <2>1. dirs[c].gen = 0 /\ dirs[c].pend = 0
    BY <1>0, <1>2 DEF Bootstrap, GenerationInv
  <2>2. Unowned(c)
    BY <1>0, <2>1, NumbersApart DEF Unowned
  <2> QED BY <1>0, <1>1, <1>2, <2>2, ErasedStep
<1>3. CASE /\ AtTarget = {} /\ dirs' = [dirs EXCEPT ![c].at = "target"]
           /\ host' = [host EXCEPT !.late = @ \/ host.unit \/ host.enabled]
  <2>1. /\ dirs' \in [Directories -> DirectoryRecords] /\ dirs'[c].at = "target"
        /\ dirs'[c].meta = dirs[c].meta
        /\ \A d \in Directories : Same(d) /\ (d # c => SamePlace(d))
    <3>1. dirs' \in [Directories -> DirectoryRecords] /\ dirs'[c].at = "target"
          /\ dirs'[c].meta = dirs[c].meta
      BY <1>0, <1>3 DEF DirectoryRecords
    <3>2. \A d \in Directories : Same(d) /\ (d # c => SamePlace(d))
      BY <1>0, <1>3 DEF DirectoryRecords, Same, SamePlace
    <3> QED BY <3>1, <3>2
  <2>2. dirs'[c].meta
    BY <1>0, <2>1 DEF PlaceInv
  <2>3. /\ host' \in HostRecords /\ host'.running = host.running
        /\ host'.enabled = host.enabled /\ host'.unit = host.unit
        /\ (host.late => host'.late) /\ (host.unit \/ host.enabled => host'.late)
    BY <1>0, <1>3 DEF HostRecords
  <2>4. orders' \in [Operators -> OrderRecords] /\ orders'[p].stage = "idle" /\ OrderFits(p)'
        /\ \A q \in Operators \ {p} : orders'[q] = orders[q]
    BY <1>0, <1>1, IdleFits
  <2>5. InstallTypes' /\ Aside(p)
    BY <1>0, <1>1, <2>1, <2>3, <2>4 DEF InstallTypes, Aside
  <2>6. \A q \in Operators \ {p} : orders[q].stage \in {"clean3", "erase"} => orders[q].dir # c
    BY <1>0, OnlyMine
  <2>7. AsideInv'
    BY <2>4, <2>5, AsideKept
  <2> HIDE DEF c
  <2>8. dirs'[c].at # "none" /\ dirs'[c].at # "tomb" /\ dirs'[c].at \in {"target", "aside"}
    BY <2>1
  <2> QED BY <1>0, <1>1, <1>3, <2>1, <2>2, <2>3, <2>4, <2>5, <2>6, <2>7, <2>8, MoveStep
<1>4. CASE dirs' = dirs /\ host' = host
  BY <1>1, <1>4, AbandonedStep
<1> QED BY <1>2, <1>3, <1>4 DEF CleanupEnds

LEMMA EraseStep ==
    ASSUME InstallInv, NEW p \in Operators, Erase(p)
    PROVE  InstallInv'
<1> DEFINE c == orders[p].dir
<1>0. InstallTypes /\ GenerationInv /\ c \in Directories /\ OrderFits(p)
      /\ orders[p].stage = "erase" /\ refs \subseteq 1..MaxGenerations
  BY HasDirectory DEF InstallInv, Erase, InstallTypes, Loose
<1>1. dirs[c].guard /\ dirs[c].gen \notin refs
  BY <1>0 DEF OrderFits, Left
<1>2. Unowned(c)
  BY <1>0, <1>1, NumbersApart DEF Unowned, GenerationInv
<1> QED BY <1>0, <1>2, ErasedStep DEF Erase, Steady

-----------------------------------------------------------------------------
(* The end of a removal                                                     *)

\* What a step of the end of a removal moves: tombstones are erased, records
\* of removals come and go.
LEMMA FinalStep ==
    ASSUME InstallInv, NEW p \in Operators, InstallTypes', PlaceInv', OrderFits(p)',
           \A d \in Directories : Same(d),
           \A d \in Directories :
               dirs'[d].at = dirs[d].at \/ (dirs[d].at = "tomb" /\ dirs'[d].at = "gone"),
           UNCHANGED <<refs, host, systemd, lockedBy>>, lost \subseteq lost',
           \A q \in Operators \ {p} : orders'[q] = orders[q],
           orders'[p].stage \notin {"clean3", "erase"}
    PROVE  InstallInv'
<1>0. InstallTypes /\ PlaceInv /\ \A q \in Operators : OrderFits(q)
  BY DEF InstallInv
<1>1. \A d \in Directories : Silent(d) => Silent(d)'
  BY DEF Silent
<1>2. \A d \in Directories : Root(d) \in {"target", "aside"} => Root(d)' \in {"target", "aside"}
  <2>1. ASSUME NEW d \in Directories, Root(d) \in {"target", "aside"}
        PROVE  Root(d)' \in {"target", "aside"}
    <3>1. dirs[d].at \in {"target", "aside"}
      BY <2>1 DEF Root
    <3>2. dirs'[d].at \in {"target", "aside"} /\ dirs'[d].meta /\ control' # d
      BY <3>1 DEF PlaceInv
    <3> QED BY <3>2 DEF Root
  <2> QED BY <2>1
<1>3. ASSUME NEW q \in Operators \ {p}, orders[q].stage \in {"clean3", "erase"}
      PROVE  dirs'[orders[q].dir].at = dirs[orders[q].dir].at
  <2>1. orders[q].dir \in Directories /\ dirs[orders[q].dir].at = "aside"
    BY <1>0, <1>3 DEF OrderFits, Shape, Left, Loose
  <2> QED BY <2>1
<1>4. AsideInv'
  BY AsideKept DEF Aside
<1>5. \A d \in Directories :
        /\ dirs[d].at # "none" => dirs'[d].at # "none"
        /\ dirs[d].at \in {"tomb", "gone"} => dirs'[d].at \in {dirs[d].at, "gone"}
  OBVIOUS
<1>6. {p} \in SUBSET Operators /\ \A r \in {p} : OrderFits(r)'
  OBVIOUS
<1>7. \A q \in Operators \ {p} : \A d \in Directories : lockedBy[d] = q => lockedBy'[d] = q
  OBVIOUS
<1> QED BY <1>1, <1>2, <1>3, <1>4, <1>5, <1>6, <1>7, PlaceStep

\* The command gets on with the end of its removal.
LEMMA FinalFits ==
    ASSUME InstallInv, NEW p \in Operators,
           orders[p].stage \in {"final1", "final2", "final3", "final4"},
           NEW s \in {"final2", "final3", "final4", "final5"}, Go(p, s),
           dirs'[orders[p].dir].at \in {"tomb", "gone"},
           s \in {"final4", "final5"} => dirs'[orders[p].dir].at = "gone"
    PROVE  /\ orders' \in [Operators -> OrderRecords]
           /\ \A q \in Operators \ {p} : orders'[q] = orders[q]
           /\ orders'[p].stage = s /\ OrderFits(p)'
<1>0. InstallTypes /\ OrderFits(p) /\ orders[p].dir \in Directories /\ s \in Stages
  BY HasDirectory DEF InstallInv, Loose, Stages
<1>1. /\ orders'[p].stage = s /\ orders'[p].dir = orders[p].dir
      /\ orders'[p].root = orders[p].root /\ orders'[p].created = orders[p].created
  BY <1>0, GoFields
<1>2. Shape(p)'
  BY <1>0, <1>1 DEF OrderFits, Shape, AtRemains
<1>3. Under(p)' /\ ~Holds(p)'
  BY <1>1 DEF Under, Holds, AtLock
<1>4. Left(p)'
  BY <1>1 DEF Left
<1> QED BY <1>0, <1>1, <1>2, <1>3, <1>4, GoType DEF OrderFits

LEMMA FinalChecksStep ==
    ASSUME InstallInv, NEW p \in Operators, FinalChecks(p)
    PROVE  InstallInv'
<1> DEFINE c == orders[p].dir
<1>0. InstallTypes /\ PlaceInv /\ OrderFits(p) /\ c \in Directories /\ orders[p].stage = "final1"
      /\ dirs[c].at \in {"tomb", "gone"}
  BY HasDirectory DEF InstallInv, FinalChecks, OrderFits, Left, Loose
<1>1. UNCHANGED <<dirs, refs, host, lockedBy, systemd, lost>>
  BY DEF FinalChecks, Steady
<1>2. CASE control \in {0, EmptyControl} /\ control' = EmptyControl /\ Go(p, "final2")
  <2>1. OrderFits(p)' /\ orders'[p].stage = "final2" /\ orders' \in [Operators -> OrderRecords]
        /\ \A q \in Operators \ {p} : orders'[q] = orders[q]
    BY <1>0, <1>1, <1>2, FinalFits
  <2>2. InstallTypes'
    BY <1>0, <1>1, <1>2, <2>1, NumbersApart DEF InstallTypes
  <2>3. PlaceInv'
    BY <1>0, <1>1, <1>2, NumbersApart DEF PlaceInv
  <2> QED BY <1>1, <2>1, <2>2, <2>3, Unmoved, FinalStep
<1>3. CASE Go(p, "final3") /\ control' = control
  <2>1. OrderFits(p)' /\ orders'[p].stage = "final3" /\ orders' \in [Operators -> OrderRecords]
        /\ \A q \in Operators \ {p} : orders'[q] = orders[q]
    BY <1>0, <1>1, <1>3, FinalFits
  <2> QED BY <1>1, <1>3, <2>1, OnlyOrder
<1>4. CASE Idle(p) /\ control' = control
  BY <1>1, <1>4, AbandonedStep
<1> QED BY <1>2, <1>3, <1>4 DEF FinalChecks

LEMMA FinalMovesStep ==
    ASSUME InstallInv, NEW p \in Operators, FinalMoves(p)
    PROVE  InstallInv'
<1> DEFINE c == orders[p].dir
<1>0. InstallTypes /\ PlaceInv /\ OrderFits(p) /\ c \in Directories /\ orders[p].stage = "final2"
      /\ dirs[c].at \in {"tomb", "gone"} /\ dirs \in [Directories -> DirectoryRecords]
  BY HasDirectory DEF InstallInv, InstallTypes, FinalMoves, OrderFits, Left, Loose
<1>1. UNCHANGED <<refs, host, lockedBy, systemd, lost>>
  BY DEF FinalMoves, Steady
<1>2. CASE /\ Root(c) = "tomb" /\ control = EmptyControl /\ control' = c
           /\ dirs' = [dirs EXCEPT ![c].meta = FALSE] /\ Go(p, "final3")
  <2>1. /\ dirs' \in [Directories -> DirectoryRecords]
        /\ ~dirs'[c].meta
        /\ \A d \in Directories : dirs'[d].at = dirs[d].at /\ (d # c => dirs'[d] = dirs[d])
    <3>1. dirs' \in [Directories -> DirectoryRecords]
      BY ZenonT(40), <1>0, <1>2 DEF DirectoryRecords
    <3>2. ~dirs'[c].meta
      BY <1>0, <1>2 DEF DirectoryRecords
    <3>3. \A d \in Directories : dirs'[d].at = dirs[d].at /\ (d # c => dirs'[d] = dirs[d])
      BY <1>0, <1>2 DEF DirectoryRecords
    <3> QED BY <3>1, <3>2, <3>3
  <2>2. \A d \in Directories : Same(d)
    BY <1>0, <1>2 DEF DirectoryRecords, Same
  <2>3. dirs[c].at = "tomb"
    BY <1>2 DEF Root
  <2>4. OrderFits(p)' /\ orders'[p].stage = "final3" /\ orders' \in [Operators -> OrderRecords]
        /\ \A q \in Operators \ {p} : orders'[q] = orders[q]
    BY <1>0, <1>2, <2>1, FinalFits
  <2>5. InstallTypes'
    BY <1>0, <1>1, <1>2, <2>1, <2>4, NumbersApart DEF InstallTypes
  <2>6. PlaceInv'
    <3>1. \A d \in Directories :
            /\ dirs'[d].at \in {"target", "aside"} => dirs'[d].meta
            /\ dirs'[d].at = "none" => dirs'[d].kind = "bootstrap" /\ ~dirs'[d].guard
            /\ control' = d => dirs'[d].at \in {"tomb", "gone"} /\ ~dirs'[d].meta
      BY <1>0, <1>2, <2>1, <2>2, <2>3 DEF PlaceInv, Same
    <3>2. \A d \in Directories : dirs'[d].at = "tomb" => d = c
      BY <1>0, <2>1, <2>3 DEF PlaceInv
    <3>3. \A d, e \in Directories :
            dirs'[d].at = dirs'[e].at /\ dirs'[d].at \in {"target", "tomb"} => d = e
      BY <1>0, <2>1 DEF PlaceInv
    <3> QED BY <1>2, <3>1, <3>2, <3>3 DEF PlaceInv
  <2> QED BY <1>1, <2>1, <2>2, <2>4, <2>5, <2>6, FinalStep
<1>3. CASE Idle(p) /\ control' = control /\ dirs' = dirs
  BY <1>1, <1>3, AbandonedStep
<1> QED BY <1>2, <1>3 DEF FinalMoves

LEMMA FinalErasesStep ==
    ASSUME InstallInv, NEW p \in Operators, FinalErases(p)
    PROVE  InstallInv'
<1> DEFINE c == orders[p].dir
<1>0. InstallTypes /\ PlaceInv /\ OrderFits(p) /\ c \in Directories /\ orders[p].stage = "final3"
      /\ dirs[c].at \in {"tomb", "gone"} /\ dirs \in [Directories -> DirectoryRecords]
  BY HasDirectory DEF InstallInv, InstallTypes, FinalErases, OrderFits, Left, Loose
<1>1. UNCHANGED <<control, refs, host, lockedBy, systemd, lost>> /\ Go(p, "final4")
  BY DEF FinalErases, Steady
<1>2. \A d \in Directories :
        dirs'[d] = IF dirs[d].at = "tomb" THEN [dirs[d] EXCEPT !.at = "gone", !.meta = FALSE]
                   ELSE dirs[d]
  BY DEF FinalErases
<1>3. dirs' \in [Directories -> DirectoryRecords]
  BY ZenonT(40), <1>0 DEF FinalErases, DirectoryRecords
<1>4. \A d \in Directories :
        /\ Same(d)
        /\ IF dirs[d].at = "tomb" THEN dirs'[d].at = "gone" /\ ~dirs'[d].meta
           ELSE dirs'[d].at = dirs[d].at /\ dirs'[d].meta = dirs[d].meta
  <2>1. ASSUME NEW d \in Directories
        PROVE  /\ Same(d)
               /\ IF dirs[d].at = "tomb" THEN dirs'[d].at = "gone" /\ ~dirs'[d].meta
                  ELSE dirs'[d].at = dirs[d].at /\ dirs'[d].meta = dirs[d].meta
    <3>1. dirs[d] \in DirectoryRecords
      BY <1>0
    <3> QED BY <1>2, <3>1 DEF DirectoryRecords, Same
  <2> QED BY <2>1
<1>5. OrderFits(p)' /\ orders'[p].stage = "final4" /\ orders' \in [Operators -> OrderRecords]
      /\ \A q \in Operators \ {p} : orders'[q] = orders[q]
  BY <1>0, <1>1, <1>4, FinalFits
<1>6. InstallTypes'
  BY <1>0, <1>1, <1>3, <1>5 DEF InstallTypes
<1>7. PlaceInv'
  BY <1>0, <1>1, <1>4 DEF PlaceInv, Same
<1> QED BY <1>1, <1>4, <1>5, <1>6, <1>7, FinalStep

LEMMA FinalForgetsStep ==
    ASSUME InstallInv, NEW p \in Operators, FinalForgets(p)
    PROVE  InstallInv'
<1> DEFINE c == orders[p].dir
<1>0. InstallTypes /\ PlaceInv /\ OrderFits(p) /\ c \in Directories /\ dirs[c].at = "gone"
      /\ orders[p].stage \in {"final4", "final5"} /\ control \in 0..EmptyControl
  BY HasDirectory DEF InstallInv, InstallTypes, FinalForgets, OrderFits, Left, Loose
<1>1. UNCHANGED <<dirs, refs, host, lockedBy, systemd>>
  BY DEF FinalForgets
<1>2. CASE /\ orders[p].stage = "final4" /\ Go(p, "final5")
           /\ control' = IF control = 0 THEN 0 ELSE EmptyControl
           /\ lost' = lost \cup {dirs[d].gen : d \in {control} \ {0, EmptyControl, c}}
  <2>1. OrderFits(p)' /\ orders'[p].stage = "final5" /\ orders' \in [Operators -> OrderRecords]
        /\ \A q \in Operators \ {p} : orders'[q] = orders[q]
    BY <1>0, <1>1, <1>2, FinalFits
  <2>2. InstallTypes' /\ control' \notin Directories
    BY <1>0, <1>1, <1>2, <2>1, NumbersApart DEF InstallTypes
  <2>3. \A d \in Directories : control = d /\ d # c => dirs[d].gen \in lost'
    BY <1>2, NumbersApart
  <2>4. PlaceInv'
    <3>1. \A d \in Directories : dirs[d].at = "tomb" => dirs[d].meta \/ dirs[d].gen \in lost'
      BY <1>0, <1>2, <2>3 DEF PlaceInv
    <3> QED BY <1>0, <1>1, <2>2, <3>1 DEF PlaceInv
  <2> QED BY <1>1, <1>2, <2>1, <2>2, <2>4, Unmoved, FinalStep
<1>3. CASE control' = (IF control = EmptyControl THEN 0 ELSE control) /\ Idle(p) /\ lost' = lost
  <2>1. OrderFits(p)' /\ orders'[p].stage = "idle" /\ orders' \in [Operators -> OrderRecords]
        /\ \A q \in Operators \ {p} : orders'[q] = orders[q]
    BY <1>0, <1>3, IdleFits
  <2>2. InstallTypes'
    BY <1>0, <1>1, <1>3, <2>1, NumbersApart DEF InstallTypes
  <2>3. \A d \in Directories : control' = d <=> control = d
    BY <1>3, NumbersApart
  <2>4. PlaceInv'
    BY <1>0, <1>1, <1>3, <2>3, NumbersApart DEF PlaceInv
  <2> QED BY <1>1, <1>3, <2>1, <2>2, <2>4, Unmoved, FinalStep
<1> QED BY <1>2, <1>3 DEF FinalForgets

LEMMA DeletedByHandStep ==
    ASSUME InstallInv, DeletedByHand
    PROVE  InstallInv'
<1>0. InstallTypes /\ PlaceInv /\ AsideInv /\ (\A q \in Operators : OrderFits(q))
      /\ dirs \in [Directories -> DirectoryRecords]
  BY DEF InstallInv, InstallTypes
<1>1. UNCHANGED <<control, refs, host, lockedBy, systemd, orders>>
  BY DEF DeletedByHand
<1>2. /\ lost \subseteq lost'
      /\ \A d \in Directories : dirs[d].at = "target" => dirs[d].gen \in lost' /\ dirs[d].pend \in lost'
  BY DEF DeletedByHand, AtTarget
<1>3. \A d \in Directories :
        dirs'[d] = IF dirs[d].at = "target" THEN [dirs[d] EXCEPT !.at = "gone", !.meta = FALSE]
                   ELSE dirs[d]
  BY DEF DeletedByHand, AtTarget
<1>4. dirs' \in [Directories -> DirectoryRecords]
  BY ZenonT(40), <1>0 DEF DeletedByHand, DirectoryRecords
<1>5. \A d \in Directories :
        /\ Same(d)
        /\ IF dirs[d].at = "target" THEN dirs'[d].at = "gone" /\ ~dirs'[d].meta
           ELSE dirs'[d].at = dirs[d].at /\ dirs'[d].meta = dirs[d].meta
  <2>1. ASSUME NEW d \in Directories
        PROVE  /\ Same(d)
               /\ IF dirs[d].at = "target" THEN dirs'[d].at = "gone" /\ ~dirs'[d].meta
                  ELSE dirs'[d].at = dirs[d].at /\ dirs'[d].meta = dirs[d].meta
    <3>1. dirs[d] \in DirectoryRecords
      BY <1>0
    <3> QED BY <1>3, <3>1 DEF DirectoryRecords, Same
  <2> QED BY <2>1
<1>6. InstallTypes'
  BY <1>0, <1>1, <1>4 DEF InstallTypes
<1>7. PlaceInv'
  BY <1>0, <1>1, <1>2, <1>5 DEF PlaceInv, Same
<1>8. AsideInv'
  BY <1>0, <1>1 DEF AsideInv
<1>9. \A d \in Directories : Silent(d) => Silent(d)'
  BY <1>1, <1>5 DEF Silent
<1>10. \A d \in Directories :
         Root(d) \in {"target", "aside"} => Root(d)' \in {"target", "aside"} \/ Unowned(d)
  <2>1. ASSUME NEW d \in Directories, Root(d) \in {"target", "aside"}
        PROVE  Root(d)' \in {"target", "aside"} \/ Unowned(d)
    <3>1. CASE dirs[d].at = "target"
      BY <1>2, <3>1 DEF Unowned
    <3>2. CASE dirs[d].at # "target"
      BY <1>1, <1>5, <2>1, <3>2 DEF Root
    <3> QED BY <3>1, <3>2
  <2> QED BY <2>1
<1>11. \A q \in Operators : orders[q].stage \in {"clean3", "erase"} =>
         dirs'[orders[q].dir].at = dirs[orders[q].dir].at
  <2>1. \A q \in Operators : orders[q].stage \in {"clean3", "erase"} =>
          orders[q].dir \in Directories /\ dirs[orders[q].dir].at = "aside"
    BY <1>0 DEF OrderFits, Shape, Left, Loose
  <2> QED BY <1>5, <2>1
<1>12. \A d \in Directories :
         /\ dirs[d].at # "none" => dirs'[d].at # "none"
         /\ dirs[d].at \in {"tomb", "gone"} => dirs'[d].at \in {dirs[d].at, "gone"}
  BY <1>5
<1>13. {} \in SUBSET Operators /\ (\A r \in {} : OrderFits(r)')
       /\ \A q \in Operators \ {} : orders'[q] = orders[q]
  BY <1>1
<1>14. host'.running = host.running /\ host'.enabled = host.enabled /\ host'.unit = host.unit
       /\ (host.late => host'.late) /\ refs' = refs /\ systemd' = systemd
       /\ \A q \in Operators : \A d \in Directories : lockedBy[d] = q => lockedBy'[d] = q
  BY <1>1
<1> QED BY ZenonT(40), <1>2, <1>5, <1>6, <1>7, <1>8, <1>9, <1>10, <1>11, <1>12, <1>13, <1>14, PlaceStep

-----------------------------------------------------------------------------
(* The invariant holds throughout                                           *)

LEMMA InstallInitInv == InstallInit => InstallInv
<1> SUFFICES ASSUME InstallInit PROVE InstallInv
  OBVIOUS
<1>0. (\A d \in Directories : dirs[d] = NoDirectory) /\ (\A p \in Operators : orders[p] = NoOrder)
  BY DEF InstallInit
<1>1. InstallTypes
  <2>1. host \in HostRecords
    BY NumbersApart DEF InstallInit, HostRecords
  <2> QED BY <2>1, NoOrderType, NumbersApart DEF InstallInit, InstallTypes
<1>2. control = 0 /\ refs = {} /\ lost = {} /\ host.running = 0 /\ ~host.enabled /\ ~host.unit
  BY DEF InstallInit
<1>3. PlaceInv
  BY <1>0, <1>2, NumbersApart DEF PlaceInv, NoDirectory
<1>4. GenerationInv
  BY <1>0 DEF GenerationInv, NoDirectory
<1>5. HostInv
  BY <1>0, <1>2 DEF HostInv, NoDirectory, Down, Silent
<1>6. ReferencesOwned /\ RunningHasImages
  BY <1>2 DEF ReferencesOwned, RunningHasImages
<1>7. ASSUME NEW p \in Operators PROVE OrderFits(p)
  <2>1. orders[p].stage = "idle" /\ orders[p].root = "target" /\ ~orders[p].created
    BY <1>0 DEF NoOrder
  <2>2. Shape(p)
    BY <2>1 DEF Shape, Loose
  <2>3. Under(p) /\ Left(p) /\ ~Holds(p)
    BY <2>1 DEF Under, Left, Holds, AtLock
  <2> QED BY <2>2, <2>3 DEF OrderFits
<1>8. AsideInv
  BY <1>0 DEF AsideInv, NoOrder
<1> QED BY <1>1, <1>3, <1>4, <1>5, <1>6, <1>7, <1>8 DEF InstallInv

LEMMA InstallStepsKeep ==
    ASSUME InstallInv, NEW p \in Operators, InstallSteps(p)
    PROVE  InstallInv'
<1>1. CASE DestinationRefused(p) \/ PublishRefused(p) \/ PlanFails(p) \/ StartLost(p)
  BY <1>1, RefusalSteps, EndingSteps
<1>2. CASE CheckDestination(p) \/ Ensure(p) \/ OpenDestination(p) \/ PrepareDestination(p)
  BY <1>2, CheckDestinationStep, EnsureStep, OpenDestinationStep, PrepareDestinationStep
<1>3. CASE StopExisting(p) \/ PublishInstalled(p) \/ PublishFiles(p) \/ CreateVolume(p)
  BY <1>3, StopExistingStep, PublishInstalledStep, PublishFilesStep, CreateVolumeStep
<1>4. CASE CopyVolume(p) \/ ActivateHost(p) \/ MarkReady(p) \/ StartInstalled(p)
  BY <1>4, CopyVolumeStep, ActivateHostStep, MarkReadyStep, StartInstalledStep
<1>5. CASE CleanupLooks(p) \/ CleanupMoves(p) \/ CleanupEnds(p)
  BY <1>5, CleanupLooksStep, CleanupMovesStep, CleanupEndsStep
<1> QED BY <1>1, <1>2, <1>3, <1>4, <1>5 DEF InstallSteps

LEMMA RemovalStepsKeep ==
    ASSUME InstallInv, NEW p \in Operators, RemovalSteps(p)
    PROVE  InstallInv'
<1>1. CASE CheckInstalled(p) \/ HostDown(p) \/ HostDisable(p) \/ ClearInstallation(p) \/ Guard(p)
  BY <1>1, CheckInstalledStep, HostDownStep, HostDisableStep, ClearInstallationStep, GuardStep
<1>2. CASE RetireReferences(p) \/ Isolate(p) \/ IsolateRefused(p) \/ Erase(p) \/ RetryRemoval(p)
  BY <1>2, RetireReferencesStep, IsolateStep, LeavingSteps, EraseStep, RetryRemovalStep
<1>3. CASE FinalChecks(p) \/ FinalMoves(p) \/ FinalErases(p) \/ FinalForgets(p)
  BY <1>3, FinalChecksStep, FinalMovesStep, FinalErasesStep, FinalForgetsStep
<1>4. CASE RecoveryHalts(p) \/ RecoveryQuarantines(p) \/ RecoveryForgets(p)
  BY <1>4, RecoverySteps
<1> QED BY <1>1, <1>2, <1>3, <1>4 DEF RemovalSteps

LEMMA OrderStepsKeep ==
    ASSUME InstallInv, NEW p \in Operators, OrderSteps(p)
    PROVE  InstallInv'
<1>1. CASE Lock(p) \/ AdmitAtOnce(p) \/ AdmitWaits(p) \/ WakeUp(p)
  BY <1>1, LockStep, AdmitAtOnceStep, AdmitWaitsStep, WakeUpStep
<1>2. CASE AdmitRefusedBeside(p) \/ Done(p) \/ \E stage \in FailingStages : GivesUp(p, stage)
  BY <1>2, RefusalSteps, LeavingSteps
<1>3. CASE InstallSteps(p) \/ RemovalSteps(p)
  BY <1>3, InstallStepsKeep, RemovalStepsKeep
<1> QED BY <1>1, <1>2, <1>3 DEF OrderSteps

LEMMA InstallUnchanged ==
    ASSUME InstallInv, UNCHANGED installVars
    PROVE  InstallInv'
<1>1. UNCHANGED <<dirs, control, refs, host, lost, systemd, lockedBy, orders>>
  BY DEF installVars, installed
<1>2. InstallTypes' /\ PlaceInv' /\ GenerationInv' /\ AsideInv'
  BY <1>1 DEF InstallInv, InstallTypes, PlaceInv, GenerationInv, AsideInv
<1>3. HostInv' /\ RunningHasImages'
  BY <1>1 DEF InstallInv, HostInv, Down, Silent, RunningHasImages
<1>4. ReferencesOwned'
  BY <1>1 DEF InstallInv, ReferencesOwned, Root
<1>5. ASSUME NEW p \in Operators PROVE OrderFits(p)'
  <2>1. OrderFits(p)
    BY DEF InstallInv
  <2>2. Shape(p)' /\ (Holds(p)' => lockedBy'[orders'[p].dir] = p) /\ Left(p)'
    BY <1>1, <2>1 DEF OrderFits, Shape, Holds, Left
  <2>3. Under(p)'
    BY <1>1, <2>1 DEF OrderFits, Under, Down, Silent
  <2> QED BY <2>2, <2>3 DEF OrderFits
<1> QED BY <1>2, <1>3, <1>4, <1>5 DEF InstallInv

LEMMA InstallNextInv == InstallInv /\ [InstallNext]_installVars => InstallInv'
<1> SUFFICES ASSUME InstallInv, [InstallNext]_installVars PROVE InstallInv'
  OBVIOUS
<1>1. CASE UNCHANGED installVars
  BY <1>1, InstallUnchanged
<1>2. CASE DeletedByHand
  BY <1>2, DeletedByHandStep
<1>3. ASSUME NEW p \in Operators, NEW start \in BOOLEAN, IssueInstall(p, start)
      PROVE  InstallInv'
  BY <1>3, IssueInstallStep
<1>4. ASSUME NEW p \in Operators, NEW cmd \in {"uninstall", "remove", "stageRemove"},
             IssueUninstall(p, cmd)
      PROVE  InstallInv'
  BY <1>4, IssueUninstallStep
<1>5. ASSUME NEW p \in Operators, IssueRecovery(p) \/ KillOrder(p)
      PROVE  InstallInv'
  BY <1>5, IssueRecoveryStep, EndingSteps
<1>6. ASSUME NEW p \in Operators, OrderSteps(p)
      PROVE  InstallInv'
  BY <1>6, OrderStepsKeep
<1> QED BY <1>1, <1>2, <1>3, <1>4, <1>5, <1>6 DEF InstallNext

-----------------------------------------------------------------------------
(* What follows from it                                                     *)

LEMMA AtMostOne ==
    ASSUME NEW S, \A x, y \in S : x = y
    PROVE  Cardinality(S) <= 1
<1>1. CASE S = {}
  BY <1>1, FS_EmptySet
<1>2. CASE S # {}
  <2>1. PICK x \in S : TRUE
    BY <1>2
  <2>2. S = {x}
    BY <2>1
  <2> QED BY <2>2, FS_Singleton
<1> QED BY <1>1, <1>2

LEMMA InvGivesTypes == ASSUME InstallInv PROVE InstallTypeOK
<1>0. InstallTypes /\ PlaceInv
  BY DEF InstallInv
<1>1. \A d \in Directories :
        /\ dirs[d].at \in {"none", "target", "tomb", "aside", "gone"}
        /\ dirs[d].kind \in {"bootstrap", "staged", "configuring", "ready"}
        /\ dirs[d].marker \in Operators \cup {"none", "dead"}
        /\ lockedBy[d] \in Operators \cup {"free"}
  BY <1>0 DEF InstallTypes, DirectoryRecords
<1>2. /\ control \in 0..EmptyControl /\ refs \subseteq 1..MaxGenerations
      /\ host.unit \in BOOLEAN /\ host.tomb \in BOOLEAN /\ host.running \in 0..MaxGenerations
  BY <1>0 DEF InstallTypes, HostRecords
<1>3. Cardinality(AtTarget) <= 1
  BY <1>0, AtMostOne DEF PlaceInv, AtTarget
<1>4. Cardinality(Tombs) <= 1
  BY <1>0, AtMostOne DEF PlaceInv, Tombs
<1>5. Cardinality(Pending) <= 1
  <2>1. ASSUME NEW d \in Directories, Root(d) \in {"tomb", "control"}
        PROVE  control = d \/ (control \notin Directories /\ dirs[d].at = "tomb")
    BY <1>0, <2>1 DEF Root, PlaceInv, InstallTypes, DirectoryRecords
  <2>2. \A d, e \in Pending : d = e
    BY <1>0, <2>1 DEF Pending, PlaceInv
  <2> QED BY <2>2, AtMostOne
<1> QED BY <1>1, <1>2, <1>3, <1>4, <1>5 DEF InstallTypeOK

LEMMA InvIsSound == InstallInv => InstallSound
<1> SUFFICES ASSUME InstallInv PROVE InstallSound
  OBVIOUS
<1>0. InstallTypes /\ PlaceInv /\ HostInv /\ ReferencesOwned /\ RunningHasImages
  BY DEF InstallInv
<1>1. RemovedIsDown
  BY <1>0 DEF HostInv, RemovedIsDown, Down, Silent, AtTarget
<1>2. RemovalRetryable
  <2>1. ASSUME NEW d \in Tombs PROVE d \in Pending \/ dirs[d].gen \in lost
    <3>1. d \in Directories /\ dirs[d].at = "tomb"
      BY DEF Tombs
    <3>2. dirs[d].meta \/ control = d \/ dirs[d].gen \in lost
      BY <1>0, <3>1 DEF PlaceInv
    <3> QED BY <3>1, <3>2 DEF Pending, Root
  <2> QED BY <2>1 DEF RemovalRetryable
<1> QED BY <1>0, <1>1, <1>2, InvGivesTypes DEF InstallSound

\* Wherever an install or a removal is interrupted, and whoever else is at work,
\* image references have an owner, what runs has its images, what is removed is
\* down, and a removal can be taken up again: for any number of directories,
\* generations, commands and faults.
THEOREM InstallationStaysSound == InstallSpec => []InstallSound
<1>1. InstallInit => InstallInv
  BY InstallInitInv
<1>2. InstallInv /\ [InstallNext]_installVars => InstallInv'
  BY InstallNextInv
<1>3. InstallInv => InstallSound
  BY InvIsSound
<1> QED BY <1>1, <1>2, <1>3, PTL DEF InstallSpec

-----------------------------------------------------------------------------
(* The terminal guard                                                       *)

Sealed(d) ==
    dirs[d].guard => dirs'[d].guard /\ dirs'[d].gen = dirs[d].gen /\ dirs'[d].kind = dirs[d].kind
                     /\ dirs'[d].pend = dirs[d].pend

\* One record is replaced, by one that is the same where it is guarded.
LEMMA RecordSealed ==
    ASSUME dirs \in [Directories -> DirectoryRecords], NEW c, NEW r, dirs' = [dirs EXCEPT ![c] = r],
           dirs[c].guard => r.guard /\ r.gen = dirs[c].gen /\ r.kind = dirs[c].kind
                            /\ r.pend = dirs[c].pend
    PROVE  \A d \in Directories : Sealed(d)
  BY DEF Sealed

LEMMA SameSealed ==
    ASSUME \A d \in Directories : Same(d)
    PROVE  \A d \in Directories : Sealed(d)
  BY DEF Same, Sealed

LEMMA LeaveSealed ==
    ASSUME InstallTypes, NEW p \in Operators, NEW failed \in BOOLEAN, Leave(p, failed)
    PROVE  \A d \in Directories : Sealed(d)
<1> DEFINE c == orders[p].dir
<1>1. PICK m \in {"dead", "none"} : dirs' = dirs \/ dirs' = [dirs EXCEPT ![c].marker = m]
  BY DEF Leave
<1>2. \A d \in Directories : Same(d)
  BY <1>1 DEF InstallTypes, DirectoryRecords, Same
<1> QED BY <1>2, SameSealed

LEMMA UnmovedSealed ==
    ASSUME InstallTypes, NEW p \in Operators, dirs' = dirs \/ dirs' = Unleased(p)
    PROVE  \A d \in Directories : Sealed(d)
  BY Unmoved, UnleasedFits, SameSealed

LEMMA InstallSealed ==
    ASSUME InstallInv, NEW p \in Operators, InstallSteps(p)
    PROVE  \A d \in Directories : Sealed(d)
<1> DEFINE o == orders[p]
           c == o.dir
<1>0. InstallTypes /\ GenerationInv /\ OrderFits(p) /\ dirs \in [Directories -> DirectoryRecords]
  BY DEF InstallInv, InstallTypes
<1>1. CASE DestinationRefused(p) \/ PublishRefused(p)
  BY <1>0, <1>1, LeaveSealed DEF DestinationRefused, PublishRefused, Gives
<1>2. CASE CheckDestination(p)
  <2>1. c \in Directories /\ ~dirs[c].guard
    BY <1>0, <1>2, HasDirectory DEF CheckDestination, OrderFits, Under, Loose
  <2> QED BY <1>0, <1>2, <2>1, RecordSealed DEF CheckDestination
<1>3. CASE Ensure(p)
  <2>1. CASE dirs' = dirs
    BY <1>0, <2>1, UnmovedSealed
  <2>2. ASSUME NEW d \in Directories, dirs' = [dirs EXCEPT ![d].at = "target", ![d].meta = TRUE]
        PROVE  \A e \in Directories : Same(e)
    BY <1>0, <2>2 DEF DirectoryRecords, Same
  <2> QED BY <1>3, <2>1, <2>2, SameSealed DEF Ensure
<1>4. CASE PlanFails(p) \/ OpenDestination(p) \/ PrepareDestination(p) \/ StopExisting(p)
           \/ PublishFiles(p) \/ CreateVolume(p) \/ StartInstalled(p) \/ StartLost(p) \/ CleanupLooks(p)
  BY <1>0, <1>4, UnmovedSealed
     DEF PlanFails, OpenDestination, PrepareDestination, StopExisting, PublishFiles, CreateVolume,
         StartInstalled, StartLost, CleanupLooks, installed
<1>5. CASE PublishInstalled(p)
  <2>1. ~dirs[c].guard /\ \A d \in Directories : d # c => dirs'[d] = dirs[d]
    BY <1>0, <1>5 DEF PublishInstalled
  <2> QED BY <2>1 DEF Sealed
<1>6. CASE CopyVolume(p) \/ ActivateHost(p)
  <2>1. dirs' = dirs \/ Leave(p, TRUE)
    BY <1>6 DEF CopyVolume, ActivateHost
  <2> QED BY <1>0, <2>1, LeaveSealed, UnmovedSealed
<1>7. CASE MarkReady(p)
  <2>1. ~dirs[c].guard /\ \A d \in Directories : d # c => dirs'[d] = dirs[d]
    BY <1>0, <1>7 DEF MarkReady
  <2> QED BY <2>1 DEF Sealed
<1>8. CASE CleanupMoves(p) \/ CleanupEnds(p)
  <2>1. ASSUME NEW d,
               \/ dirs' = dirs
               \/ dirs' = [dirs EXCEPT ![d].at = "aside"]
               \/ dirs' = [dirs EXCEPT ![d].at = "gone", ![d].meta = FALSE]
               \/ dirs' = [dirs EXCEPT ![d].at = "target"]
        PROVE  \A e \in Directories : Same(e)
    BY <1>0, <2>1 DEF DirectoryRecords, Same
  <2> QED BY <1>8, <2>1, SameSealed DEF CleanupMoves, CleanupEnds
<1> QED BY <1>1, <1>2, <1>3, <1>4, <1>5, <1>6, <1>7, <1>8 DEF InstallSteps

LEMMA RemovalSealed ==
    ASSUME InstallInv, NEW p \in Operators, RemovalSteps(p)
    PROVE  \A d \in Directories : Sealed(d)
<1> DEFINE o == orders[p]
           c == o.dir
<1>0. InstallTypes /\ GenerationInv /\ dirs \in [Directories -> DirectoryRecords]
  BY DEF InstallInv, InstallTypes
<1>1. CASE CheckInstalled(p)
  <2>1. CASE dirs' = [dirs EXCEPT ![c] = Recovered(dirs[c])]
    <3>1. c \in Directories /\ dirs[c] \in DirectoryRecords
      BY <1>0, <1>1, HasDirectory DEF CheckInstalled, Loose
    <3>2. dirs[c].guard => dirs[c].pend = 0
      BY <1>0, <3>1 DEF GenerationInv
    <3>3. dirs[c].guard => Recovered(dirs[c]) = dirs[c]
      BY <3>1, <3>2 DEF Recovered, DirectoryRecords
    <3> QED BY <1>0, <2>1, <3>3, RecordSealed
  <2>2. CASE Leave(p, FALSE)
    BY <1>0, <2>2, LeaveSealed
  <2> QED BY <1>1, <2>1, <2>2 DEF CheckInstalled
<1>2. CASE HostDown(p) \/ RetireReferences(p) \/ RetryRemoval(p) \/ FinalChecks(p) \/ FinalForgets(p)
           \/ RecoveryHalts(p) \/ RecoveryQuarantines(p) \/ RecoveryForgets(p)
  BY <1>0, <1>2, UnmovedSealed
     DEF HostDown, RetireReferences, RetryRemoval, FinalChecks, FinalForgets, RecoveryHalts,
         RecoveryQuarantines, RecoveryForgets
<1>3. CASE HostDisable(p) \/ IsolateRefused(p)
  <2>1. dirs' = dirs \/ Leave(p, FALSE)
    BY <1>3 DEF HostDisable, IsolateRefused
  <2> QED BY <1>0, <2>1, LeaveSealed, UnmovedSealed
<1>4. CASE ClearInstallation(p) \/ Guard(p)
  <2>1. ~dirs[c].guard /\ \A d \in Directories : d # c => dirs'[d] = dirs[d]
    BY <1>0, <1>4 DEF ClearInstallation, Guard
  <2> QED BY <2>1 DEF Sealed
<1>5. CASE Isolate(p)
  <2>1. PICK a \in {"aside", "tomb"} : dirs' = [dirs EXCEPT ![c].at = a, ![c].marker = "none"]
    BY <1>5 DEF Isolate
  <2>2. \A d \in Directories : Same(d)
    BY <1>0, <2>1 DEF DirectoryRecords, Same
  <2> QED BY <2>2, SameSealed
<1>6. CASE Erase(p) \/ FinalMoves(p)
  <2>1. ASSUME \/ dirs' = dirs
               \/ dirs' = [dirs EXCEPT ![c].meta = FALSE]
               \/ dirs' = [dirs EXCEPT ![c].at = "gone", ![c].meta = FALSE]
        PROVE  \A e \in Directories : Same(e)
    BY <1>0, <2>1 DEF DirectoryRecords, Same
  <2> QED BY <1>6, <2>1, SameSealed DEF Erase, FinalMoves
<1>7. CASE FinalErases(p)
  <2>1. \A d \in Directories : Same(d)
    BY <1>0, <1>7 DEF FinalErases, DirectoryRecords, Same
  <2> QED BY <2>1, SameSealed
<1> QED BY <1>1, <1>2, <1>3, <1>4, <1>5, <1>6, <1>7 DEF RemovalSteps

LEMMA OrderSealed ==
    ASSUME InstallInv, NEW p \in Operators, OrderSteps(p)
    PROVE  \A d \in Directories : Sealed(d)
<1> DEFINE c == orders[p].dir
<1>0. InstallTypes /\ dirs \in [Directories -> DirectoryRecords]
  BY DEF InstallInv, InstallTypes
<1>1. CASE Lock(p)
  BY <1>0, <1>1, UnmovedSealed DEF Lock
<1>5. CASE WakeUp(p)
  <2>1. CASE dirs' = dirs
    BY <1>0, <2>1, UnmovedSealed
  <2>2. CASE dirs' # dirs
    <3>1. ~dirs[c].guard /\ \A d \in Directories : d # c => dirs'[d] = dirs[d]
      BY <1>0, <1>5, <2>2 DEF WakeUp
    <3> QED BY <3>1 DEF Sealed
  <2> QED BY <2>1, <2>2
<1>2. CASE AdmitAtOnce(p) \/ AdmitWaits(p)
  <2>1. ASSUME \/ dirs' = dirs
               \/ dirs' = [dirs EXCEPT ![c].marker = p, ![c].queue = TRUE]
               \/ dirs' = [dirs EXCEPT ![c].queue = TRUE]
        PROVE  \A d \in Directories : Same(d)
    BY <1>0, <2>1 DEF DirectoryRecords, Same
  <2> QED BY <1>2, <2>1, SameSealed DEF AdmitAtOnce, AdmitWaits
<1>3. CASE AdmitRefusedBeside(p) \/ Done(p) \/ \E stage \in FailingStages : GivesUp(p, stage)
  <2>1. Leave(p, TRUE) \/ Leave(p, FALSE)
    BY <1>3 DEF AdmitRefusedBeside, Done, GivesUp, Gives
  <2> QED BY <1>0, <2>1, LeaveSealed
<1>4. CASE InstallSteps(p) \/ RemovalSteps(p)
  BY <1>4, InstallSealed, RemovalSealed
<1> QED BY <1>1, <1>2, <1>3, <1>4, <1>5 DEF OrderSteps

LEMMA GuardKept ==
    ASSUME InstallInv, [InstallNext]_installVars
    PROVE  \A d \in Directories : Sealed(d)
<1>0. InstallTypes /\ dirs \in [Directories -> DirectoryRecords]
  BY DEF InstallInv, InstallTypes
<1>1. CASE dirs' = dirs
  BY <1>1, Unmoved, SameSealed
<1>2. CASE DeletedByHand
  <2>1. \A d \in Directories : Same(d)
    BY <1>0, <1>2 DEF DeletedByHand, DirectoryRecords, Same
  <2> QED BY <2>1, SameSealed
<1>3. ASSUME NEW p \in Operators, OrderSteps(p) PROVE \A d \in Directories : Sealed(d)
  BY <1>3, OrderSealed
<1>4. ASSUME NEW p \in Operators, KillOrder(p) PROVE \A d \in Directories : Sealed(d)
  BY <1>0, <1>4, UnmovedSealed DEF KillOrder
<1>5. UNCHANGED installVars => dirs' = dirs
  BY DEF installVars, installed
<1>6. (\E p \in Operators :
         \/ \E start \in BOOLEAN : IssueInstall(p, start)
         \/ \E cmd \in {"uninstall", "remove", "stageRemove"} : IssueUninstall(p, cmd)
         \/ IssueRecovery(p)) => dirs' = dirs
  BY DEF IssueInstall, IssueUninstall, IssueRecovery, installed
<1> QED BY <1>1, <1>2, <1>3, <1>4, <1>5, <1>6 DEF InstallNext

\* Once the terminal guard of a removal is written, nothing is installed,
\* published or recorded in that directory any more, by whatever command was
\* waiting for its lock and wherever it is moved: the guard, the generations and
\* the kind of the record stay as they are.
THEOREM GuardStaysTerminal == InstallSpec => GuardIsTerminal
<1>1. InstallInit => InstallInv
  BY InstallInitInv
<1>2. InstallInv /\ [InstallNext]_installVars => InstallInv'
  BY InstallNextInv
<1>3. InstallInv /\ [InstallNext]_installVars =>
        [\A d \in Directories : dirs[d].guard =>
           /\ dirs'[d].guard /\ dirs'[d].gen = dirs[d].gen /\ dirs'[d].kind = dirs[d].kind
           /\ dirs'[d].pend = dirs[d].pend]_dirs
  BY GuardKept DEF Sealed
<1> QED BY <1>1, <1>2, <1>3, PTL DEF InstallSpec, GuardIsTerminal

=============================================================================
