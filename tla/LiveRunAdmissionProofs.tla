----------------------- MODULE LiveRunAdmissionProofs -----------------------
(***************************************************************************)
(* The admission queue, for every set of IDs and every choice of the       *)
(* exclusive and the control ones; and the commands that use it, for any   *)
(* number of runs, lifecycle commands and `runs stop` commands, with       *)
(* crashes anywhere.                                                       *)
(*                                                                         *)
(* Three of the four parts of QueueValid (the order, exclusivity, the      *)
(* single reservation) survive the removal of any entries; the fourth, no  *)
(* lost wakeup, does not, and is what promoteLiveRunsV1 re-establishes     *)
(* from the other three (PromoteValid).                                    *)
(*                                                                         *)
(* Only the holder of the operation lock changes the queue, and an entry   *)
(* that a living command has claimed is taken away by other commands only. *)
(* AdmissionInv says, stage by stage, what a command may rely on; the      *)
(* refinement of the queue follows from it.  What it does not give is that *)
(* the container of a stopped run is gone: `docker stop` does nothing to a *)
(* container that was created and not started.  WorkInv adds that part,    *)
(* and holds when no command forces.                                       *)
(*                                                                         *)
(* Last, the staging directory, whose forced commands and removals wait    *)
(* their turn in that queue without the lock, so that what they read may   *)
(* have changed when they come back.  StagingInv says what a command may   *)
(* rely on at each stage under the lock (Relies) and what a pending        *)
(* publication and a discarded record still account for; StagingSound      *)
(* follows from it.                                                        *)
(***************************************************************************)
EXTENDS LiveRunAdmission, StagedDeployment, TLAPS

-----------------------------------------------------------------------------
(* The queue                                                                *)

\* The parts that removals preserve, with the facts about the places.
Sound(s) ==
    /\ s \in [Ids -> Statuses]
    /\ \A i, j \in Ids : s[i] # "absent" /\ s[j] # "absent" /\ i # j => arrival[i] # arrival[j]
    /\ InOrder(s)
    /\ ExclusiveAlone(s)
    /\ OneReady(s)

ValidIn(s) == InOrder(s) /\ ExclusiveAlone(s) /\ OneReady(s) /\ NoLostWakeup(s)

\* The inductive invariant.
QueueInv == QueueTypeOK /\ PlacesDistinct /\ QueueValid

\* Removing entries keeps what Sound says.
LEMMA WithoutSound ==
    ASSUME NEW s, Sound(s), NEW gone
    PROVE  Sound(Without(s, gone))
  BY DEF Sound, Without, InOrder, ExclusiveAlone, OneReady, RunnableIn, Statuses

\* Promotion turns a sound queue into a valid one.
LEMMA PromoteValid ==
    ASSUME NEW s, Sound(s), arrival \in [Ids -> Nat]
    PROVE  Promote(s) \in [Ids -> Statuses] /\ ValidIn(Promote(s))
  <1> DEFINE t == Promote(s)
  <1>1. t \in [Ids -> Statuses]
    BY DEF Promote, Sound, Statuses
  <1>2. \A i \in Ids : t[i] = IF Promotable(s, i) THEN "ready" ELSE s[i]
    BY DEF Promote
  <1>3. ASSUME NEW i \in Ids, Promotable(s, i)
        PROVE  /\ s[i] = "waiting"
               /\ \A j \in Ids : s[j] # "absent" /\ arrival[j] < arrival[i] => s[j] = "active" /\ j \notin Exclusive
               /\ i \in Exclusive => \A j \in Ids : s[j] # "absent" => ~(arrival[j] < arrival[i])
    BY <1>3 DEF Promotable, Ahead, OutstandingIn
  <1>4. ASSUME NEW i \in Ids, NEW j \in Ids, Promotable(s, i), Promotable(s, j)
        PROVE  i = j
    BY <1>3, <1>4 DEF Sound
  <1>5. ASSUME NEW i \in Ids, Promotable(s, i), NEW j \in Ids, s[j] \in {"ready", "active"}
        PROVE  s[j] = "active" /\ j \notin Exclusive /\ i \notin Exclusive /\ arrival[j] < arrival[i]
    <2>1. arrival[j] < arrival[i]
      BY <1>3, <1>5 DEF Sound, InOrder
    <2>. QED  BY <1>3, <1>5, <2>1
  <1> HIDE DEF t
  <1>6. InOrder(t)
    <2>1. ASSUME NEW i \in Ids, NEW w \in Ids, t[i] \in {"ready", "active"}, t[w] = "waiting"
          PROVE  arrival[i] < arrival[w]
      <3>1. s[w] = "waiting" /\ ~Promotable(s, w)
        BY <1>2, <2>1
      <3>2. CASE Promotable(s, i)
        \* w waits behind i, or i would not have been the first.
        <4>1. ~(arrival[w] < arrival[i])
          BY <1>3, <3>1, <3>2
        <4>2. arrival[w] # arrival[i]
          BY <1>3, <3>1, <3>2 DEF Sound
        <4>. QED  BY <4>1, <4>2
      <3>3. CASE ~Promotable(s, i)
        BY <1>2, <2>1, <3>1, <3>3 DEF Sound, InOrder
      <3>. QED  BY <3>2, <3>3
    <2>2. ASSUME NEW i \in Ids, NEW r \in Ids, t[i] = "active", t[r] = "ready"
          PROVE  arrival[i] < arrival[r]
      <3>1. s[i] = "active"
        BY <1>2, <2>2
      <3>2. CASE Promotable(s, r)
        BY <1>5, <3>1, <3>2
      <3>3. CASE ~Promotable(s, r)
        BY <1>2, <2>2, <3>1, <3>3 DEF Sound, InOrder
      <3>. QED  BY <3>2, <3>3
    <2>. QED  BY <2>1, <2>2 DEF InOrder
  <1>7. ExclusiveAlone(t)
    <2>. SUFFICES ASSUME NEW i \in Ids, NEW j \in Ids, i \in Exclusive,
                         t[i] \in {"ready", "active"}, t[j] \in {"ready", "active"}
                  PROVE  i = j
      BY DEF ExclusiveAlone, RunnableIn
    <2>1. CASE Promotable(s, i) /\ Promotable(s, j)
      BY <1>4, <2>1
    <2>2. CASE Promotable(s, i) /\ ~Promotable(s, j)
      BY <1>2, <1>5, <2>2
    <2>3. CASE ~Promotable(s, i) /\ Promotable(s, j)
      BY <1>2, <1>5, <2>3
    <2>4. CASE ~Promotable(s, i) /\ ~Promotable(s, j)
      BY <1>2, <2>4 DEF Sound, ExclusiveAlone, RunnableIn
    <2>. QED  BY <2>1, <2>2, <2>3, <2>4
  <1>8. OneReady(t)
    <2>. SUFFICES ASSUME NEW i \in Ids, NEW j \in Ids, t[i] = "ready", t[j] = "ready"
                  PROVE  i = j
      BY DEF OneReady
    <2>1. CASE Promotable(s, i) /\ Promotable(s, j)
      BY <1>4, <2>1
    <2>2. CASE Promotable(s, i) /\ ~Promotable(s, j)
      BY <1>2, <1>5, <2>2
    <2>3. CASE ~Promotable(s, i) /\ Promotable(s, j)
      BY <1>2, <1>5, <2>3
    <2>4. CASE ~Promotable(s, i) /\ ~Promotable(s, j)
      BY <1>2, <2>4 DEF Sound, OneReady
    <2>. QED  BY <2>1, <2>2, <2>3, <2>4
  <1>9. NoLostWakeup(t)
    <2>. SUFFICES ASSUME NEW w \in Ids, t[w] = "waiting",
                         \A v \in Ids : t[v] = "waiting" => arrival[w] <= arrival[v]
                  PROVE  \E i \in Ids : /\ t[i] \in {"ready", "active"}
                                        /\ w \in Exclusive \/ i \in Exclusive \/ t[i] = "ready"
      BY DEF NoLostWakeup, FirstWaiting, WaitingIn, RunnableIn
    <2>1. s[w] = "waiting" /\ ~Promotable(s, w)
      BY <1>2
    <2>2. CASE \E i \in Ids : Promotable(s, i)
      BY <1>2, <2>2
    <2>3. CASE \A i \in Ids : ~Promotable(s, i)
      \* Nothing was promoted: everything ahead of w can run, and one of the
      \* entries ahead is what kept w from being promoted.
      <3>1. \A j \in Ids : t[j] = s[j]
        BY <1>2, <2>3
      <3>2. PICK j \in Ids : /\ s[j] # "absent" /\ arrival[j] < arrival[w]
                             /\ s[j] # "active" \/ j \in Exclusive \/ w \in Exclusive
        BY <2>1 DEF Promotable, Ahead, OutstandingIn
      <3>3. s[j] # "waiting"
        BY <3>1, <3>2
      <3>4. s[j] \in {"ready", "active"}
        BY <3>2, <3>3 DEF Sound, Statuses
      <3>. QED  BY <3>1, <3>2, <3>4
    <2>. QED  BY <2>2, <2>3
  <1>. QED  BY <1>1, <1>6, <1>7, <1>8, <1>9 DEF ValidIn, t

\* A queue that satisfies the invariant is sound.
LEMMA InvSound == QueueInv => Sound(status)
  <1>. SUFFICES ASSUME QueueInv PROVE Sound(status)
    OBVIOUS
  <1>1. \A i, j \in Ids : status[i] # "absent" /\ status[j] # "absent" /\ i # j
                            => arrival[i] # arrival[j]
    BY DEF QueueInv, PlacesDistinct, QueueTypeOK
  <1>. QED  BY <1>1 DEF QueueInv, QueueValid, QueueTypeOK, Sound

\* Whatever is removed, the promotion that follows restores the invariant:
\* RemoveLiveRunV1, CancelWaitingLiveRunsV1 and the recovery.
LEMMA RemovalStep ==
    ASSUME QueueInv, NEW gone,
           status' = Promote(Without(status, gone)), UNCHANGED <<arrival, arrivals>>
    PROVE  QueueInv'
  <1> DEFINE s == Without(status, gone)
  <1>1. Sound(s)
    BY InvSound, WithoutSound
  <1>2. arrival \in [Ids -> Nat] /\ arrivals \in Nat
    BY DEF QueueInv, QueueTypeOK
  <1>3. Promote(s) \in [Ids -> Statuses] /\ ValidIn(Promote(s))
    BY <1>1, <1>2, PromoteValid
  <1>4. \A i \in Ids : Promote(s)[i] # "absent" => status[i] # "absent"
    BY DEF Promote, Promotable, Without
  <1>5. QueueTypeOK'
    BY <1>2, <1>3 DEF QueueTypeOK
  <1>6. PlacesDistinct'
    BY <1>4 DEF QueueInv, PlacesDistinct
  <1>7. QueueValid'
    BY <1>3 DEF QueueValid, ValidIn, InOrder, ExclusiveAlone, OneReady, NoLostWakeup,
                FirstWaiting, WaitingIn, RunnableIn
  <1>. QED  BY <1>5, <1>6, <1>7 DEF QueueInv

\* An entry that joins takes a place after all the others.
LEMMA JoinPlaces ==
    ASSUME QueueInv, NEW i \in Ids, NEW st \in Statuses \ {"absent"}, Join(i, st)
    PROVE  /\ status[i] = "absent"
           /\ status' = [status EXCEPT ![i] = st]
           /\ \A j \in Ids : j # i => arrival'[j] = arrival[j] /\ arrival'[j] < arrival'[i]
           /\ QueueTypeOK'
           /\ PlacesDistinct'
  <1>1. status[i] = "absent"
    BY DEF QueueInv, PlacesDistinct, Join
  <1>2. arrival'[i] = arrivals + 1
    BY DEF QueueInv, QueueTypeOK, Join
  <1>3. \A j \in Ids : j # i => arrival'[j] = arrival[j] /\ arrival'[j] < arrival'[i]
    BY <1>2 DEF QueueInv, QueueTypeOK, PlacesDistinct, Join
  <1>4. QueueTypeOK'
    BY DEF QueueInv, QueueTypeOK, Join
  <1>5. PlacesDistinct'
    BY <1>2, <1>3, <1>4 DEF QueueInv, QueueTypeOK, PlacesDistinct, Join
  <1>. QED  BY <1>1, <1>3, <1>4, <1>5 DEF Join

\* A candidate that starts at once: nothing is reserved, waiting or exclusive.
LEMMA AdmitActiveStep ==
    ASSUME QueueInv, NEW i \in Ids, AdmitActive(i)
    PROVE  QueueInv'
  <1>1. /\ status' = [status EXCEPT ![i] = "active"]
        /\ QueueTypeOK' /\ PlacesDistinct'
    BY JoinPlaces DEF AdmitActive, Statuses
  <1>2. \A j \in Ids : status'[j] \in {"absent", "active"}
    BY <1>1 DEF AdmitActive, CanStartNow, Outstanding, OutstandingIn, QueueInv, QueueTypeOK
  <1>3. \A j \in Ids : status[j] # "absent" => j \notin Exclusive /\ i \notin Exclusive
    BY DEF AdmitActive, CanStartNow, Outstanding, OutstandingIn
  <1>4. \A j \in Ids : j # i => status'[j] = status[j]
    BY <1>1 DEF QueueInv, QueueTypeOK
  <1>5. QueueValid'
    BY <1>2, <1>3, <1>4 DEF QueueValid, InOrder, ExclusiveAlone, OneReady, NoLostWakeup,
                            FirstWaiting, WaitingIn, RunnableIn
  <1>. QED  BY <1>1, <1>5 DEF QueueInv

\* A candidate that waits does so behind everyone, for an entry that is there.
LEMMA AdmitWaitingStep ==
    ASSUME QueueInv, NEW i \in Ids, AdmitWaiting(i)
    PROVE  QueueInv'
  <1>1. /\ status[i] = "absent"
        /\ status' = [status EXCEPT ![i] = "waiting"]
        /\ \A j \in Ids : j # i => arrival'[j] = arrival[j] /\ arrival'[j] < arrival'[i]
        /\ QueueTypeOK' /\ PlacesDistinct'
    BY JoinPlaces DEF AdmitWaiting, Statuses
  <1>2. status'[i] = "waiting" /\ \A j \in Ids : j # i => status'[j] = status[j]
    BY <1>1 DEF QueueInv, QueueTypeOK
  <1>3. InOrder(status)'
    BY <1>1, <1>2 DEF QueueInv, QueueValid, InOrder
  <1>4. ExclusiveAlone(status)' /\ OneReady(status)'
    BY <1>1, <1>2 DEF QueueInv, QueueValid, ExclusiveAlone, OneReady, RunnableIn
  <1>5. NoLostWakeup(status)'
    <2>. SUFFICES ASSUME NEW w \in Ids, status'[w] = "waiting",
                         \A v \in Ids : status'[v] = "waiting" => arrival'[w] <= arrival'[v]
                  PROVE  \E j \in Ids : /\ status'[j] \in {"ready", "active"}
                                        /\ w \in Exclusive \/ j \in Exclusive \/ status'[j] = "ready"
      BY DEF NoLostWakeup, FirstWaiting, WaitingIn, RunnableIn
    <2>1. CASE w = i
      <3>1. PICK j \in Ids : /\ status[j] # "absent"
                             /\ status[j] # "active" \/ j \in Exclusive \/ i \in Exclusive
        BY DEF AdmitWaiting, CanStartNow, Outstanding, OutstandingIn
      <3>2. j # i
        BY <1>1, <3>1
      <3>3. arrival'[j] < arrival'[w] /\ arrival'[j] \in Nat /\ arrival'[w] \in Nat
        BY <1>1, <2>1, <3>2 DEF QueueTypeOK
      <3>4. status'[j] # "waiting"
        BY <3>3
      <3>. QED  BY <1>2, <2>1, <3>1, <3>2, <3>4 DEF QueueInv, QueueTypeOK, Statuses
    <2>2. CASE w # i
      <3>1. status[w] = "waiting" /\ \A v \in Ids : status[v] = "waiting" => arrival[w] <= arrival[v]
        BY <1>1, <1>2, <2>2
      <3>2. PICK j \in Ids : /\ status[j] \in {"ready", "active"}
                             /\ w \in Exclusive \/ j \in Exclusive \/ status[j] = "ready"
        BY <3>1 DEF QueueInv, QueueValid, NoLostWakeup, FirstWaiting, WaitingIn, RunnableIn
      <3>. QED  BY <1>1, <1>2, <3>2
    <2>. QED  BY <2>1, <2>2
  <1>. QED  BY <1>1, <1>3, <1>4, <1>5 DEF QueueInv, QueueValid

\* The claim of a reservation: a control marker is exclusive, so everyone
\* behind it goes on waiting; a run passes the reservation on.
LEMMA ActivateStep ==
    ASSUME QueueInv, NEW i \in Ids, Activate(i)
    PROVE  QueueInv'
  <1> DEFINE s == [status EXCEPT ![i] = "active"]
  <1>1. /\ status[i] = "ready" /\ s[i] = "active"
        /\ \A j \in Ids : j # i => s[j] = status[j]
        /\ s \in [Ids -> Statuses]
    BY DEF Activate, QueueInv, QueueTypeOK, Statuses
  <1>2. arrival' = arrival /\ arrivals' = arrivals
    BY DEF Activate
  <1>3. \A j \in Ids : s[j] # "ready"
    BY <1>1 DEF QueueInv, QueueValid, OneReady
  <1>a. status' = IF i \in Control THEN s ELSE Promote(s)
    BY DEF Activate
  <1> HIDE DEF s
  <1>4. Sound(s)
    <2>1. Sound(status)
      BY InvSound
    <2>2. InOrder(s)
      BY <1>1, <1>3, <2>1 DEF Sound, InOrder
    <2>3. ExclusiveAlone(s)
      BY <1>1, <2>1 DEF Sound, ExclusiveAlone, RunnableIn
    <2>. QED  BY <1>1, <1>3, <2>1, <2>2, <2>3 DEF Sound, OneReady
  <1>5. arrival \in [Ids -> Nat] /\ arrivals \in Nat
    BY DEF QueueInv, QueueTypeOK
  <1>6. CASE i \in Control
    <2>1. i \in Exclusive /\ status' = s
      BY <1>6, <1>a, QueueAssumption
    <2>2. NoLostWakeup(s)
      BY <1>1, <2>1 DEF NoLostWakeup, FirstWaiting, WaitingIn, RunnableIn
    <2>3. QueueValid'
      BY <1>2, <1>4, <2>1, <2>2 DEF Sound, QueueValid, InOrder, ExclusiveAlone, OneReady,
              NoLostWakeup, FirstWaiting, WaitingIn, RunnableIn
    <2>4. PlacesDistinct'
      BY <1>1, <1>2, <2>1 DEF QueueInv, PlacesDistinct
    <2>. QED  BY <1>1, <1>2, <1>5, <2>1, <2>3, <2>4 DEF QueueInv, QueueTypeOK
  <1>7. CASE i \notin Control
    <2>1. status' = Promote(s)
      BY <1>7, <1>a
    <2>2. Promote(s) \in [Ids -> Statuses] /\ ValidIn(Promote(s))
      BY <1>4, <1>5, PromoteValid
    <2>3. QueueValid'
      BY <1>2, <2>1, <2>2 DEF QueueValid, ValidIn, InOrder, ExclusiveAlone, OneReady,
              NoLostWakeup, FirstWaiting, WaitingIn, RunnableIn
    <2>4. \A j \in Ids : Promote(s)[j] # "absent" => status[j] # "absent"
      BY <1>1 DEF Promote, Promotable
    <2>5. PlacesDistinct'
      BY <1>2, <2>1, <2>4 DEF QueueInv, PlacesDistinct
    <2>. QED  BY <1>2, <1>5, <2>1, <2>2, <2>3, <2>5 DEF QueueInv, QueueTypeOK
  <1>. QED  BY <1>6, <1>7

\* The invariant holds in every reachable state of the queue.
THEOREM QueueInvariant == QueueSpec => []QueueInv
  <1>1. QueueInit => QueueInv
    BY DEF QueueInit, QueueInv, QueueTypeOK, PlacesDistinct, QueueValid, InOrder, ExclusiveAlone,
           OneReady, NoLostWakeup, FirstWaiting, WaitingIn, RunnableIn, Statuses
  <1>2. QueueInv /\ [QueueNext]_queueVars => QueueInv'
    <2>. SUFFICES ASSUME QueueInv, [QueueNext]_queueVars PROVE QueueInv'
      OBVIOUS
    <2>1. CASE \E i \in Ids : AdmitActive(i)
      BY <2>1, AdmitActiveStep
    <2>2. CASE \E i \in Ids : AdmitWaiting(i)
      BY <2>2, AdmitWaitingStep
    <2>3. CASE \E i \in Ids : Activate(i)
      BY <2>3, ActivateStep
    <2>4. CASE \E i \in Ids : Remove(i)
      <3>. PICK i \in Ids : Remove(i)
        BY <2>4
      <3>. QED  BY RemovalStep DEF Remove
    <2>5. CASE CancelWaiting
      BY <2>5, RemovalStep DEF CancelWaiting
    <2>6. CASE \E gone \in SUBSET Outstanding : Recover(gone)
      <3>. PICK gone \in SUBSET Outstanding : Recover(gone)
        BY <2>6
      <3>. QED  BY RemovalStep DEF Recover
    <2>7. CASE UNCHANGED queueVars
      BY <2>7 DEF queueVars, QueueInv, QueueTypeOK, PlacesDistinct, QueueValid, InOrder,
                  ExclusiveAlone, OneReady, NoLostWakeup, FirstWaiting, WaitingIn, RunnableIn
    <2>. QED  BY <2>1, <2>2, <2>3, <2>4, <2>5, <2>6, <2>7 DEF QueueNext
  <1>. QED  BY <1>1, <1>2, PTL DEF QueueSpec

\* Every entry keeps a status the code knows, and a place.
THEOREM QueueTypeCorrect == QueueSpec => []QueueTypeOK
  <1>1. QueueInv => QueueTypeOK
    BY DEF QueueInv
  <1>. QED  BY <1>1, QueueInvariant, PTL

\* No sequence of admissions, claims, removals, cancellations and recoveries
\* makes a queue that ValidateLiveRunQueueV1 rejects: an exclusive entry runs
\* alone, the order of arrival is kept, and the first waiter waits for someone.
THEOREM QueueStaysValid == QueueSpec => []QueueValid
  <1>1. QueueInv => QueueValid
    BY DEF QueueInv
  <1>. QED  BY <1>1, QueueInvariant, PTL

\* Every queue that commands write, in any number and any order, is sound.
THEOREM QueueStaysSound == QueueSpec => []QueueSound
  <1>1. QueueTypeOK /\ QueueValid => QueueSound
    BY DEF QueueSound
  <1>. QED  BY <1>1, QueueTypeCorrect, QueueStaysValid, PTL

\* Promotion moves entries forward only: what could run still can, and an
\* active entry is not made ready.
LEMMA PromoteForward ==
    ASSUME NEW s, NEW i \in Ids, s[i] # "waiting"
    PROVE  Promote(s)[i] = s[i]
  BY DEF Promote, Promotable

\* The step of every operation leaves runnable entries runnable or removes them.
LEMMA ForwardStep ==
    ASSUME QueueInv, QueueNext, NEW i \in Ids
    PROVE  /\ status[i] \in {"ready", "active"} => status'[i] # "waiting"
           /\ status[i] = "active" => status'[i] # "ready"
  <1>1. CASE \E j \in Ids : AdmitActive(j) \/ AdmitWaiting(j)
    <2>. PICK j \in Ids, st \in {"active", "waiting"} : Join(j, st)
      BY <1>1 DEF AdmitActive, AdmitWaiting
    <2>1. status[j] = "absent"
      BY DEF QueueInv, PlacesDistinct, Join
    <2>. QED  BY <2>1 DEF Join, QueueInv, QueueTypeOK
  <1>2. CASE \E j \in Ids : Activate(j)
    <2>. PICK j \in Ids : Activate(j)
      BY <1>2
    <2> DEFINE s == [status EXCEPT ![j] = "active"]
    <2>1. status' = s \/ status' = Promote(s)
      BY DEF Activate
    <2>2. status[i] \in {"ready", "active"} => s[i] \in {"ready", "active"}
      BY DEF QueueInv, QueueTypeOK
    <2>3. status[i] = "active" => s[i] = "active"
      BY DEF QueueInv, QueueTypeOK
    <2> HIDE DEF s
    <2>4. s[i] # "waiting" => Promote(s)[i] = s[i]
      BY PromoteForward
    <2>. QED  BY <2>1, <2>2, <2>3, <2>4
  <1>3. ASSUME NEW gone, status' = Promote(Without(status, gone))
        PROVE  /\ status[i] \in {"ready", "active"} => status'[i] # "waiting"
               /\ status[i] = "active" => status'[i] # "ready"
    BY <1>3, PromoteForward DEF Without
  <1>4. CASE \E j \in Ids : Remove(j)
    BY <1>3, <1>4 DEF Remove
  <1>5. CASE CancelWaiting
    BY <1>3, <1>5 DEF CancelWaiting
  <1>6. CASE \E gone \in SUBSET Outstanding : Recover(gone)
    BY <1>3, <1>6 DEF Recover
  <1>. QED  BY <1>1, <1>2, <1>4, <1>5, <1>6 DEF QueueNext

\* Nobody is overtaken, and nobody who was admitted goes back to the line.
THEOREM NobodyOvertakes == QueueSpec => NoOvertaking
  <1> DEFINE Forward == \A i, j \in Ids :
          /\ (status'[i] \in {"ready", "active"} /\ status'[j] = "waiting"
                => arrival'[i] < arrival'[j])
          /\ (status[i] \in {"ready", "active"} => status'[i] # "waiting")
          /\ (status[i] = "active" => status'[i] # "ready")
  <1>1. QueueInv /\ QueueInv' /\ [QueueNext]_queueVars => [Forward]_queueVars
    <2>. SUFFICES ASSUME QueueInv, QueueInv', QueueNext PROVE Forward
      OBVIOUS
    <2>1. \A i, j \in Ids : status'[i] \in {"ready", "active"} /\ status'[j] = "waiting"
                              => arrival'[i] < arrival'[j]
      BY DEF QueueInv, QueueValid, InOrder
    <2>. QED  BY <2>1, ForwardStep
  <1>2. NoOvertaking <=> [][Forward]_queueVars
    BY DEF NoOvertaking
  <1>. QED  BY <1>1, <1>2, QueueInvariant, PTL DEF QueueSpec

-----------------------------------------------------------------------------
(* The commands                                                             *)

\* The stages of the three kinds of commands.
Early == {"new", "arriving", "forcing", "checking", "canceling", "stopping", "admitting"}
Polling == {"waiting", "polling", "looking"}
Holding == {"admitted", "creating", "recording", "aborting"}
Working == {"starting", "running", "finishing", "retaining"}
StopperStages == {"new", "seeking", "targeting", "done", "dead"}

\* What a command in stage s may rely on for its entry i.
StageFits(i) ==
    /\ stage[i] \notin {"seeking", "targeting"}
    /\ stage[i] \in Early \cup {"done"} => status[i] = "absent"
    /\ stage[i] \in Polling => status[i] # "active"
    /\ stage[i] \in Holding => status[i] = "active"
    /\ stage[i] \in Working => status[i] \in {"active", "absent"}
    /\ stage[i] = "operating" => i \in Control /\ status[i] = "active"
    /\ i \in leases <=> stage[i] \notin {"new", "done", "dead"}

\* What holds of the container of run i.
BoxFits(i) ==
    /\ stage[i] \notin {"forcing", "checking", "canceling", "stopping"}
    /\ stage[i] \in Early \cup Polling \cup {"admitted", "creating"} => box[i] = "none"
    /\ stage[i] \in {"creating", "recording"} => generation = pinned[i]
    /\ stage[i] = "finishing" => box[i] = "none"
    /\ stage[i] \in Working => i \in recorded
    /\ box[i] = "running" => i \in recorded
    /\ box[i] # "none" => status[i] \in {"active", "absent"}

\* The work of a lifecycle command has no container.
NoBox(i) == stage[i] \notin Working \cup {"creating", "recording", "aborting"}

AdmissionInv ==
    /\ AdmissionTypeOK
    /\ \A c \in Stoppers : stage[c] \in StopperStages
    /\ \A i \in Ids : StageFits(i)
    /\ \A i \in Runs : BoxFits(i)
    /\ \A i \in Control : NoBox(i)

\* A recorded container that is there belongs to an active entry, or to the
\* inventory once its command is gone.
Kept(i) ==
    i \in recorded /\ box[i] # "none" =>
        \/ status[i] = "active"
        \/ stage[i] \in {"done", "dead"} /\ i \in cleanup

NobodyForces == \A i \in Ids : Mode[i] # "force"

\* The second invariant, of a deployment on which nobody forces.
WorkInv ==
    /\ \A i \in Ids : stage[i] \notin {"forcing", "checking", "stopping"}
    /\ \A i \in Runs : Kept(i)

-----------------------------------------------------------------------------
(* What the operations of the queue do to the status of an entry.  No part  *)
(* of the invariant tells a waiting entry from a reserved one.              *)

\* The entries of gone leave, the others stay as they are or are reserved.
Takes(gone) ==
    \A j \in Ids :
        IF j \in gone THEN status'[j] = "absent"
        ELSE status'[j] = status[j] \/ (status[j] = "waiting" /\ status'[j] = "ready")

LEMMA TakesEffect ==
    ASSUME QueueTypeOK, NEW gone,
           status' = Promote(Without(status, gone)), UNCHANGED <<arrival, arrivals>>
    PROVE  QueueTypeOK' /\ Takes(gone)
  BY DEF QueueTypeOK, Takes, Promote, Promotable, Without, Statuses

LEMMA RemoveEffect ==
    ASSUME QueueTypeOK, NEW i, Remove(i)
    PROVE  QueueTypeOK' /\ Takes({i})
  BY TakesEffect DEF Remove

LEMMA UnchangedEffect ==
    ASSUME QueueTypeOK, UNCHANGED queueVars
    PROVE  QueueTypeOK' /\ Takes({})
  BY DEF QueueTypeOK, Takes, queueVars

\* The entry is removed if it is still there.
LEMMA MayRemoveEffect ==
    ASSUME QueueTypeOK, NEW i,
           IF status[i] = "absent" THEN UNCHANGED queueVars ELSE Remove(i)
    PROVE  QueueTypeOK' /\ Takes({i})
  <1>1. CASE status[i] = "absent"
    BY <1>1, UnchangedEffect DEF Takes, queueVars
  <1>2. CASE status[i] # "absent"
    BY <1>2, RemoveEffect
  <1>. QED  BY <1>1, <1>2

\* The runs that have not started are taken, if there are any.
LEMMA CancelEffect ==
    ASSUME QueueTypeOK, IF Cancelable = {} THEN UNCHANGED queueVars ELSE CancelWaiting
    PROVE  QueueTypeOK' /\ Takes(Cancelable)
  <1>1. CASE Cancelable = {}
    BY <1>1, UnchangedEffect
  <1>2. CASE Cancelable # {}
    BY <1>2, TakesEffect DEF CancelWaiting
  <1>. QED  BY <1>1, <1>2

LEMMA ActivateEffect ==
    ASSUME QueueTypeOK, NEW i \in Ids, Activate(i)
    PROVE  /\ QueueTypeOK' /\ status[i] = "ready" /\ status'[i] = "active"
           /\ \A j \in Ids \ {i} :
                 status'[j] = status[j] \/ (status[j] = "waiting" /\ status'[j] = "ready")
  BY DEF QueueTypeOK, Activate, Promote, Promotable, Statuses

LEMMA JoinEffect ==
    ASSUME QueueTypeOK, NEW i \in Ids, NEW st \in Statuses, Join(i, st)
    PROVE  QueueTypeOK' /\ status' = [status EXCEPT ![i] = st]
  BY DEF QueueTypeOK, Join, Statuses

-----------------------------------------------------------------------------
(* One lemma per group of actions: each keeps AdmissionInv.                 *)

USE AdmissionAssumption, QueueAssumption
    DEF Commands, Runs, Stages, Locked, Early, Polling, Holding, Working, StopperStages, Statuses,
        StageFits, BoxFits, NoBox

LEMMA InitFits == AdmissionInit => AdmissionInv /\ WorkInv
  BY DEF AdmissionInit, QueueInit, AdmissionInv, WorkInv, Kept, AdmissionTypeOK, QueueTypeOK

\* A command takes the lock, first and again.
LEMMA LockFits ==
    ASSUME AdmissionInv, NEW c \in Commands, Enter(c) \/ Poll(c)
    PROVE  AdmissionInv'
  <1>1. CASE Enter(c)
    BY <1>1 DEF Enter, Goto, FirstStage, queueVars, dockerVars, AdmissionInv, AdmissionTypeOK, QueueTypeOK
  <1>2. CASE Poll(c)
    BY <1>2 DEF Poll, Goto, queueVars, dockerVars, AdmissionInv, AdmissionTypeOK, QueueTypeOK
  <1>. QED  BY <1>1, <1>2

\* The entries of dead owners leave; those of living ones do not.
LEMMA RecoverFits ==
    ASSUME AdmissionInv, NEW c \in Commands, RecoverQueue(c)
    PROVE  AdmissionInv'
  <1> DEFINE gone == Outstanding \ leases
  <1>1. QueueTypeOK' /\ Takes(gone)
    BY TakesEffect DEF RecoverQueue, Recover, AdmissionInv, AdmissionTypeOK
  <1>2. /\ stage[c] \in {"arriving", "forcing", "polling", "seeking"}
        /\ stage' = [stage EXCEPT ![c] = AfterRecovery[stage[c]]]
        /\ AfterRecovery[stage[c]] \in {"admitting", "checking", "looking", "targeting"}
        /\ stage[c] = "seeking" <=> AfterRecovery[stage[c]] = "targeting"
        /\ stage[c] = "polling" <=> AfterRecovery[stage[c]] = "looking"
        /\ stage[c] = "forcing" <=> AfterRecovery[stage[c]] = "checking"
    BY DEF RecoverQueue, AfterRecovery, Goto, AdmissionInv, AdmissionTypeOK
  <1>3. PICK removed \in SUBSET (cleanup \cup (gone \cap recorded)) :
           /\ cleanup' = (cleanup \cup (gone \cap recorded)) \ removed
           /\ box' = [i \in Runs |-> IF i \in removed THEN "none" ELSE box[i]]
    BY DEF RecoverQueue
  <1>4. UNCHANGED <<lock, leases, generation, pinned, recorded, crashes>>
    BY DEF RecoverQueue
  <1>. QED  BY <1>1, <1>2, <1>3, <1>4 DEF Takes, AdmissionInv, AdmissionTypeOK, Outstanding, OutstandingIn

\* Lifecycle commands that make room for themselves.
LEMMA ControlFits ==
    ASSUME AdmissionInv, NEW c \in Commands,
           \/ ForceRefused(c) \/ ForceProceeds(c) \/ CancelQueued(c) \/ StopFails(c) \/ StopsDone(c)
           \/ \E i \in Runs : StopActive(c, i)
    PROVE  AdmissionInv'
  <1>1. CASE ForceRefused(c) \/ StopFails(c)
    BY <1>1 DEF ForceRefused, StopFails, Release, Goto, queueVars, dockerVars, AdmissionInv,
                AdmissionTypeOK, QueueTypeOK
  <1>2. CASE ForceProceeds(c) \/ StopsDone(c)
    BY <1>2 DEF ForceProceeds, StopsDone, Goto, queueVars, dockerVars, AdmissionInv, AdmissionTypeOK,
                QueueTypeOK
  <1>3. CASE CancelQueued(c)
    <2>1. QueueTypeOK' /\ Takes(Cancelable)
      BY <1>3, CancelEffect DEF CancelQueued, AdmissionInv, AdmissionTypeOK
    <2>. QED  BY <1>3, <2>1 DEF CancelQueued, Cancelable, Goto, dockerVars, Takes, AdmissionInv,
                                AdmissionTypeOK
  <1>4. CASE \E i \in Runs : StopActive(c, i)
    <2>1. PICK i \in Runs : StopActive(c, i)
      BY <1>4
    <2>2. QueueTypeOK' /\ Takes({i})
      BY <2>1, RemoveEffect DEF StopActive, AdmissionInv, AdmissionTypeOK
    <2>. QED  BY <2>1, <2>2 DEF StopActive, processVars, Takes, AdmissionInv, AdmissionTypeOK
  <1>. QED  BY <1>1, <1>2, <1>3, <1>4

\* Admission, now or later, the claim of a reservation, and its alternatives.
LEMMA AdmitFits ==
    ASSUME AdmissionInv, NEW c \in Commands,
           \/ AdmitNow(c) \/ AdmitLater(c) \/ AdmitRefused(c)
           \/ Claim(c) \/ KeepWaiting(c) \/ FindItselfGone(c) \/ Cancel(c)
    PROVE  AdmissionInv'
  <1>1. CASE AdmitNow(c)
    <2>1. c \in Ids
      BY <1>1 DEF AdmitNow, AdmissionInv
    <2>2. QueueTypeOK' /\ status' = [status EXCEPT ![c] = "active"]
      BY <1>1, <2>1, JoinEffect DEF AdmitNow, AdmitActive, AdmissionInv, AdmissionTypeOK
    <2>. QED  BY <1>1, <2>1, <2>2 DEF AdmitNow, Goto, dockerVars, AdmissionInv, AdmissionTypeOK,
                                      QueueTypeOK
  <1>2. CASE AdmitLater(c)
    <2>1. c \in Ids
      BY <1>2 DEF AdmitLater, AdmissionInv
    <2>2. QueueTypeOK' /\ status' = [status EXCEPT ![c] = "waiting"]
      BY <1>2, <2>1, JoinEffect DEF AdmitLater, AdmitWaiting, AdmissionInv, AdmissionTypeOK
    <2>. QED  BY <1>2, <2>1, <2>2 DEF AdmitLater, Goto, dockerVars, AdmissionInv, AdmissionTypeOK,
                                      QueueTypeOK
  <1>3. CASE AdmitRefused(c) \/ FindItselfGone(c)
    BY <1>3 DEF AdmitRefused, FindItselfGone, Release, Goto, queueVars, dockerVars, AdmissionInv,
                AdmissionTypeOK, QueueTypeOK
  <1>4. CASE Claim(c)
    <2>1. c \in Ids
      BY <1>4 DEF Claim, AdmissionInv
    <2>2. /\ QueueTypeOK' /\ status'[c] = "active"
          /\ \A j \in Ids \ {c} :
                status'[j] = status[j] \/ (status[j] = "waiting" /\ status'[j] = "ready")
      BY <1>4, <2>1, ActivateEffect DEF Claim, AdmissionInv, AdmissionTypeOK
    <2>. QED  BY <1>4, <2>1, <2>2 DEF Claim, Goto, dockerVars, AdmissionInv, AdmissionTypeOK
  <1>5. CASE KeepWaiting(c)
    BY <1>5 DEF KeepWaiting, Goto, queueVars, dockerVars, AdmissionInv, AdmissionTypeOK, QueueTypeOK
  <1>6. CASE Cancel(c)
    <2>1. QueueTypeOK' /\ Takes({c})
      BY <1>6, MayRemoveEffect DEF Cancel, AdmissionInv, AdmissionTypeOK
    <2>. QED  BY <1>6, <2>1 DEF Cancel, Release, Goto, dockerVars, Takes, AdmissionInv, AdmissionTypeOK
  <1>. QED  BY <1>1, <1>2, <1>3, <1>4, <1>5, <1>6

\* An admitted command up to the moment it gives up the lock.
LEMMA AdmittedFits ==
    ASSUME AdmissionInv, NEW c \in Commands,
           \/ RefuseStart(c) \/ Operate(c)
           \/ c \in Runs /\ (\/ CheckGeneration(c) \/ CreateContainer(c) \/ CreateFails(c)
                             \/ RecordContainer(c) \/ RecordFails(c) \/ Abort(c))
    PROVE  AdmissionInv'
  <1>1. CASE RefuseStart(c)
    <2>1. QueueTypeOK' /\ Takes({c})
      BY <1>1, RemoveEffect DEF RefuseStart, AdmissionInv, AdmissionTypeOK
    <2>. QED  BY <1>1, <2>1 DEF RefuseStart, Release, Goto, dockerVars, Takes, AdmissionInv, AdmissionTypeOK
  <1>2. CASE Operate(c)
    BY <1>2 DEF Operate, Goto, queueVars, dockerVars, AdmissionInv, AdmissionTypeOK, QueueTypeOK
  <1>3. CASE c \in Runs /\ (CheckGeneration(c) \/ CreateContainer(c) \/ CreateFails(c))
    BY <1>3 DEF CheckGeneration, CreateContainer, CreateFails, Goto, queueVars, dockerVars, AdmissionInv,
                AdmissionTypeOK, QueueTypeOK
  <1>4. CASE c \in Runs /\ (RecordContainer(c) \/ RecordFails(c))
    BY <1>4 DEF RecordContainer, RecordFails, Goto, queueVars, dockerVars, AdmissionInv, AdmissionTypeOK,
                QueueTypeOK
  <1>5. CASE c \in Runs /\ Abort(c)
    <2>1. QueueTypeOK' /\ Takes({c})
      BY <1>5, RemoveEffect DEF Abort, AdmissionInv, AdmissionTypeOK
    <2>. QED  BY <1>5, <2>1 DEF Abort, Release, Goto, Takes, AdmissionInv, AdmissionTypeOK
  <1>. QED  BY <1>1, <1>2, <1>3, <1>4, <1>5

\* A run and its container, without the lock.
LEMMA RunFits ==
    ASSUME AdmissionInv, NEW i \in Runs, RunStep(i) \/ Interrupt(i) \/ ContainerExits(i)
    PROVE  AdmissionInv'
  BY DEF RunStep, Start, StartFails, ObserveExit, Interrupt, RemoveAfterFailure, ContainerExits, Goto,
         queueVars, dockerVars, processVars, AdmissionInv, AdmissionTypeOK, QueueTypeOK

\* The ends of commands, and `runs stop`.
LEMMA EndFits ==
    ASSUME AdmissionInv, NEW c \in Commands, Finish(c) \/ StopTarget(c) \/ Crash(c)
    PROVE  AdmissionInv'
  <1>1. CASE Finish(c)
    <2>1. QueueTypeOK' /\ Takes({c})
      <3>1. IF status[c] = "absent" THEN UNCHANGED queueVars ELSE Remove(c)
        BY <1>1 DEF Finish
      <3>. QED  BY <3>1, MayRemoveEffect DEF AdmissionInv, AdmissionTypeOK
    <2>. QED  BY <1>1, <2>1 DEF Finish, Release, Goto, Takes, AdmissionInv, AdmissionTypeOK
  <1>2. CASE StopTarget(c)
    <2>1. c \in Stoppers
      BY <1>2 DEF StopTarget, AdmissionInv
    <2>2. \E gone \in SUBSET {Target[c]} : QueueTypeOK' /\ Takes(gone)
      <3>1. CASE Remove(Target[c])
        BY <3>1, RemoveEffect DEF AdmissionInv, AdmissionTypeOK
      <3>2. CASE UNCHANGED queueVars
        BY <3>2, UnchangedEffect DEF AdmissionInv, AdmissionTypeOK
      <3>. QED  BY <1>2, <3>1, <3>2 DEF StopTarget
    <2>. QED  BY <1>2, <2>1, <2>2 DEF StopTarget, Release, Goto, Takes, AdmissionInv, AdmissionTypeOK
  <1>3. CASE Crash(c)
    BY <1>3 DEF Crash, Goto, queueVars, dockerVars, AdmissionInv, AdmissionTypeOK, QueueTypeOK
  <1>. QED  BY <1>1, <1>2, <1>3

\* A build is published while nobody holds the lock.
LEMMA PublishFits ==
    ASSUME AdmissionInv, Publish \/ UNCHANGED admissionVars
    PROVE  AdmissionInv'
  BY DEF Publish, admissionVars, processVars, queueVars, dockerVars, AdmissionInv, AdmissionTypeOK, QueueTypeOK

LEMMA StepFits ==
    ASSUME AdmissionInv, [AdmissionNext]_admissionVars
    PROVE  AdmissionInv'
  BY LockFits, RecoverFits, ControlFits, AdmitFits, AdmittedFits, RunFits, EndFits, PublishFits
  DEF AdmissionNext, LockedStep

\* What every stage of every command relies on holds, whoever dies and whoever
\* takes entries from the queue meanwhile.
THEOREM AdmissionInvariant == AdmissionSpec => []AdmissionInv
  <1>1. AdmissionInit => AdmissionInv
    BY InitFits
  <1>2. AdmissionInv /\ [AdmissionNext]_admissionVars => AdmissionInv'
    BY StepFits
  <1>. QED  BY <1>1, <1>2, PTL DEF AdmissionSpec

\* The lock is held by the command in a locked stage and by no other; whoever
\* gets it finds, for every active run of a living command, the container to
\* stop, as `runs stop`, --force and the recovery of the queue assume.
THEOREM LockHoldersFindContainers == AdmissionSpec => [](AdmissionTypeOK /\ ActiveRunsNameTheirContainer)
  <1>1. AdmissionInv => AdmissionTypeOK /\ ActiveRunsNameTheirContainer
    BY DEF AdmissionInv, AdmissionTypeOK, ActiveRunsNameTheirContainer, QueueTypeOK
  <1>. QED  BY <1>1, AdmissionInvariant, PTL

-----------------------------------------------------------------------------
(* The refinement of the queue.                                             *)

\* The steps that touch the queue.
LEMMA StepKinds ==
    ASSUME [AdmissionNext]_admissionVars
    PROVE  \/ UNCHANGED queueVars
           \/ \E c \in Commands :
                 \/ RecoverQueue(c) \/ CancelQueued(c) \/ (\E i \in Runs : StopActive(c, i))
                 \/ AdmitNow(c) \/ AdmitLater(c) \/ Claim(c)
                 \/ RefuseStart(c) \/ Abort(c) \/ Cancel(c) \/ Finish(c) \/ StopTarget(c)
  <1>1. ASSUME NEW c \in Commands, Enter(c) \/ Poll(c) \/ Crash(c)
        PROVE  UNCHANGED queueVars
    BY <1>1 DEF Enter, Poll, Crash
  <1>2. ASSUME NEW c \in Commands,
               \/ ForceRefused(c) \/ ForceProceeds(c) \/ StopFails(c) \/ StopsDone(c) \/ AdmitRefused(c)
               \/ KeepWaiting(c) \/ FindItselfGone(c) \/ Operate(c)
               \/ CheckGeneration(c) \/ CreateContainer(c) \/ CreateFails(c) \/ RecordContainer(c)
               \/ RecordFails(c)
        PROVE  UNCHANGED queueVars
    BY <1>2 DEF ForceRefused, ForceProceeds, StopFails, StopsDone, AdmitRefused, KeepWaiting, FindItselfGone,
                Operate, CheckGeneration, CreateContainer, CreateFails, RecordContainer, RecordFails
  <1>3. ASSUME NEW i \in Runs, RunStep(i) \/ Interrupt(i) \/ ContainerExits(i)
        PROVE  UNCHANGED queueVars
    BY <1>3 DEF RunStep, Start, StartFails, ObserveExit, Interrupt, RemoveAfterFailure, ContainerExits
  <1>4. Publish \/ UNCHANGED admissionVars => UNCHANGED queueVars
    BY DEF Publish, admissionVars
  <1>. QED  BY <1>1, <1>2, <1>3, <1>4 DEF AdmissionNext, LockedStep

LEMMA StepIsQueueStep ==
    ASSUME AdmissionInv, [AdmissionNext]_admissionVars
    PROVE  [QueueNext]_queueVars
  <1>1. ASSUME NEW c \in Commands, RecoverQueue(c)
        PROVE  QueueNext
    BY <1>1 DEF RecoverQueue, QueueNext
  <1>2. ASSUME NEW c \in Commands, CancelQueued(c)
        PROVE  [QueueNext]_queueVars
    BY <1>2 DEF CancelQueued, QueueNext
  <1>3. ASSUME NEW c \in Commands, NEW i \in Runs, StopActive(c, i)
        PROVE  QueueNext
    BY <1>3 DEF StopActive, QueueNext
  <1>4. ASSUME NEW c \in Commands, AdmitNow(c) \/ AdmitLater(c) \/ Claim(c)
        PROVE  QueueNext
    <2>1. c \in Ids
      BY <1>4 DEF AdmitNow, AdmitLater, Claim, AdmissionInv
    <2>. QED  BY <1>4, <2>1 DEF AdmitNow, AdmitLater, Claim, QueueNext
  <1>5. ASSUME NEW c \in Commands, RefuseStart(c) \/ Abort(c) \/ Cancel(c) \/ Finish(c)
        PROVE  [QueueNext]_queueVars
    <2>1. c \in Ids
      BY <1>5 DEF RefuseStart, Abort, Cancel, Finish, AdmissionInv
    <2>. QED  BY <1>5, <2>1 DEF RefuseStart, Abort, Cancel, Finish, QueueNext, queueVars
  <1>6. ASSUME NEW c \in Commands, StopTarget(c)
        PROVE  [QueueNext]_queueVars
    <2>1. c \in Stoppers /\ Target[c] \in Ids
      BY <1>6 DEF StopTarget, AdmissionInv
    <2>. QED  BY <1>6, <2>1 DEF StopTarget, QueueNext, queueVars
  <1>. QED  BY <1>1, <1>2, <1>3, <1>4, <1>5, <1>6, StepKinds

\* Every step of every command is a step of the queue or leaves it alone.
THEOREM CommandsImplementQueue == AdmissionSpec => ImplementsQueue
  <1>1. AdmissionInit => QueueInit
    BY DEF AdmissionInit
  <1>2. AdmissionInv /\ [AdmissionNext]_admissionVars => [QueueNext]_queueVars
    BY StepIsQueueStep
  <1>. QED  BY <1>1, <1>2, AdmissionInvariant, PTL DEF AdmissionSpec, QueueSpec, ImplementsQueue

\* What is proved of the queue alone holds of the queue of a deployment.
THEOREM DeploymentQueueSound == AdmissionSpec => []QueueInv
  BY CommandsImplementQueue, QueueInvariant, PTL DEF ImplementsQueue

-----------------------------------------------------------------------------
(* Entries that leave, and containers that are created.                     *)

\* When an entry leaves the queue its container does not run, or the cleanup
\* inventory names it, also under --force and `runs stop`.
THEOREM RemovalLeavesNothingRunning == AdmissionSpec => RemovedRunsAreDown
  <1> DEFINE Down == \A i \in Runs : status[i] # "absent" /\ status'[i] = "absent"
                                        => box'[i] # "running" \/ i \in cleanup'
  <1>1. AdmissionInv /\ [AdmissionNext]_admissionVars => [Down]_admissionVars
    <2>. SUFFICES ASSUME AdmissionInv, AdmissionNext, NEW i \in Runs,
                         status[i] # "absent", status'[i] = "absent", box'[i] = "running"
                  PROVE  i \in cleanup'
      OBVIOUS
    <2>. USE DEF AdmissionInv, AdmissionTypeOK
    <2>1. ASSUME NEW c \in Commands, RecoverQueue(c) PROVE i \in cleanup'
      <3>1. Takes(Outstanding \ leases)
        BY <2>1, TakesEffect DEF RecoverQueue, Recover
      <3>2. i \in Outstanding \ leases
        BY <3>1 DEF Takes
      <3>. QED  BY <2>1, <3>2 DEF RecoverQueue
    <2>2. ASSUME NEW c \in Commands, CancelQueued(c) PROVE i \in cleanup'
      <3>1. i \in Cancelable
        BY <2>2, CancelEffect DEF CancelQueued, Takes
      <3>. QED  BY <2>2, <3>1 DEF CancelQueued, Cancelable, dockerVars
    <2>3. ASSUME NEW c \in Commands, NEW j \in Runs, StopActive(c, j) PROVE i \in cleanup'
      <3>1. i = j
        BY <2>3, RemoveEffect DEF StopActive, Takes
      <3>. QED  BY <2>3, <3>1 DEF StopActive
    <2>4. ASSUME NEW c \in Commands, AdmitNow(c) \/ AdmitLater(c) \/ Claim(c) PROVE i \in cleanup'
      <3>1. c \in Ids
        BY <2>4 DEF AdmitNow, AdmitLater, Claim
      <3>2. status'[i] # "absent"
        BY <2>4, <3>1, JoinEffect, ActivateEffect DEF AdmitNow, AdmitLater, Claim, AdmitActive, AdmitWaiting,
                                                      QueueTypeOK
      <3>. QED  BY <3>2
    <2>5. ASSUME NEW c \in Commands, RefuseStart(c) \/ Abort(c) \/ Cancel(c) \/ Finish(c) PROVE i \in cleanup'
      <3>1. QueueTypeOK' /\ Takes({c})
        BY <2>5, MayRemoveEffect, RemoveEffect DEF RefuseStart, Abort, Cancel, Finish
      <3>2. i = c
        BY <3>1 DEF Takes
      <3>. QED  BY <2>5, <3>2 DEF RefuseStart, Abort, Cancel, Finish, dockerVars
    <2>6. ASSUME NEW c \in Commands, StopTarget(c) PROVE i \in cleanup'
      <3>1. i = Target[c] /\ Remove(Target[c])
        BY <2>6, RemoveEffect, UnchangedEffect DEF StopTarget, Takes
      <3>. QED  BY <2>6, <3>1 DEF StopTarget, queueVars
    <2>7. CASE UNCHANGED queueVars
      BY <2>7 DEF queueVars
    <2>. QED
      BY <2>1, <2>2, <2>3, <2>4, <2>5, <2>6, <2>7, StepKinds
  <1>. QED  BY <1>1, AdmissionInvariant, PTL DEF AdmissionSpec, RemovedRunsAreDown

\* The build a command planned with, read before it waited without the lock, is
\* the published one when its container is created and recorded: the comparison
\* some steps earlier is enough, because the lock keeps publications out.
THEOREM ContainersOfThePlannedBuild == AdmissionSpec => BuildsMatch
  <1> DEFINE Match == \A i \in Runs :
                        \/ box[i] = "none" /\ box'[i] = "created"
                        \/ i \notin recorded /\ i \in recorded'
                        => generation' = pinned[i]
  <1>1. AdmissionInv /\ [AdmissionNext]_admissionVars => [Match]_admissionVars
    BY DEF AdmissionInv, AdmissionTypeOK, AdmissionNext, LockedStep, RunStep, dockerVars,
           Enter, RecoverQueue, ForceRefused, ForceProceeds, CancelQueued, StopActive, StopFails, StopsDone,
           AdmitNow, AdmitLater, AdmitRefused, Poll, Claim, KeepWaiting, FindItselfGone, Cancel, RefuseStart,
           CheckGeneration, CreateContainer, CreateFails, Abort, RecordContainer, RecordFails, Start, StartFails, Interrupt,
           RemoveAfterFailure, ObserveExit, Operate, Finish, StopTarget, ContainerExits, Publish, Crash
  <1>. QED  BY <1>1, AdmissionInvariant, PTL DEF AdmissionSpec, BuildsMatch

-----------------------------------------------------------------------------
(* The work itself, when nobody forces.                                     *)

\* One lemma per group of actions, as for AdmissionInv: each keeps WorkInv.
LEMMA LockKeeps ==
    ASSUME NobodyForces, AdmissionInv, WorkInv, NEW c \in Commands,
           \/ Enter(c) \/ Poll(c) \/ KeepWaiting(c) \/ Operate(c)
           \/ AdmitRefused(c) \/ FindItselfGone(c) \/ Crash(c)
    PROVE  WorkInv'
  BY DEF Enter, Poll, KeepWaiting, Operate, AdmitRefused, FindItselfGone, Crash, Goto, Release, FirstStage,
         NobodyForces, Kept, WorkInv, queueVars, dockerVars, AdmissionInv, AdmissionTypeOK, QueueTypeOK

\* An entry without an owner takes its recorded container into the inventory.
LEMMA RecoverKeeps ==
    ASSUME AdmissionInv, WorkInv, NEW c \in Commands, RecoverQueue(c)
    PROVE  WorkInv'
  <1> DEFINE gone == Outstanding \ leases
  <1>1. QueueTypeOK' /\ Takes(gone)
    BY TakesEffect DEF RecoverQueue, Recover, AdmissionInv, AdmissionTypeOK
  <1>2. PICK removed \in SUBSET (cleanup \cup (gone \cap recorded)) :
           /\ cleanup' = (cleanup \cup (gone \cap recorded)) \ removed
           /\ box' = [i \in Runs |-> IF i \in removed THEN "none" ELSE box[i]]
           /\ stage' = [stage EXCEPT ![c] = AfterRecovery[stage[c]]]
           /\ recorded' = recorded
    BY DEF RecoverQueue, Goto
  <1>3. /\ stage[c] \in {"arriving", "polling", "seeking"}
        /\ AfterRecovery[stage[c]] \in {"admitting", "looking", "targeting"}
    BY DEF RecoverQueue, AfterRecovery, AdmissionInv, AdmissionTypeOK, WorkInv
  <1>4. ASSUME NEW i \in Runs, i \in recorded, box'[i] # "none"
        PROVE  \/ status'[i] = "active"
               \/ stage'[i] \in {"done", "dead"} /\ i \in cleanup'
    <2>1. i \notin removed /\ box[i] # "none"
      BY <1>2, <1>4
    <2>2. CASE i \in gone
      <3>1. stage[i] \in {"done", "dead"}
        BY <2>2, <1>3 DEF AdmissionInv, AdmissionTypeOK, Outstanding, OutstandingIn
      <3>. QED  BY <3>1, <2>1, <2>2, <1>2, <1>3, <1>4 DEF AdmissionInv, AdmissionTypeOK
    <2>3. CASE i \notin gone
      BY <2>1, <2>3, <1>1, <1>2, <1>3, <1>4 DEF Takes, WorkInv, Kept, AdmissionInv, AdmissionTypeOK
    <2>. QED  BY <2>2, <2>3
  <1>. QED  BY <1>2, <1>3, <1>4 DEF WorkInv, Kept, AdmissionInv, AdmissionTypeOK

\* The runs that --drain cancels have no container yet; nobody is in a stage of --force.
LEMMA ControlKeeps ==
    ASSUME NobodyForces, AdmissionInv, WorkInv, NEW c \in Commands,
           \/ ForceRefused(c) \/ ForceProceeds(c) \/ CancelQueued(c) \/ StopFails(c) \/ StopsDone(c)
           \/ \E i \in Runs : StopActive(c, i)
    PROVE  WorkInv'
  <1>1. CASE CancelQueued(c)
    <2>1. c \in Ids
      BY <1>1 DEF CancelQueued, AdmissionInv
    <2>2. QueueTypeOK' /\ Takes(Cancelable)
      BY <1>1, CancelEffect DEF CancelQueued, AdmissionInv, AdmissionTypeOK
    <2>. QED  BY <1>1, <2>1, <2>2 DEF CancelQueued, Cancelable, Goto, dockerVars, Takes, NobodyForces, WorkInv,
                                      Kept, AdmissionInv, AdmissionTypeOK
  <1>2. ~(ForceRefused(c) \/ ForceProceeds(c) \/ StopFails(c) \/ StopsDone(c)
            \/ \E i \in Runs : StopActive(c, i))
    BY DEF ForceRefused, ForceProceeds, StopFails, StopsDone, StopActive, WorkInv, AdmissionInv
  <1>. QED  BY <1>1, <1>2

LEMMA AdmitKeeps ==
    ASSUME AdmissionInv, WorkInv, NEW c \in Commands, AdmitNow(c) \/ AdmitLater(c) \/ Claim(c)
    PROVE  WorkInv'
  <1>1. c \in Ids
    BY DEF AdmitNow, AdmitLater, Claim, AdmissionInv
  <1>2. \A j \in Ids : status[j] = "active" => status'[j] = "active"
    BY <1>1, JoinEffect, ActivateEffect DEF AdmitNow, AdmitLater, Claim, AdmitActive, AdmitWaiting,
                                            AdmissionInv, AdmissionTypeOK, QueueTypeOK
  <1>. QED  BY <1>1, <1>2 DEF AdmitNow, AdmitLater, Claim, Goto, dockerVars, Kept, WorkInv, AdmissionInv,
                              AdmissionTypeOK

\* An entry that its own command removes had no container, or loses it, or
\* leaves it to the inventory.
LEMMA LeaveKeeps ==
    ASSUME AdmissionInv, WorkInv, NEW c \in Commands,
           Cancel(c) \/ RefuseStart(c) \/ Finish(c) \/ (c \in Runs /\ Abort(c))
    PROVE  WorkInv'
  <1>1. QueueTypeOK' /\ Takes({c})
    BY MayRemoveEffect, RemoveEffect DEF RefuseStart, Abort, Cancel, Finish, AdmissionInv, AdmissionTypeOK
  <1>2. c \in Ids
    BY DEF Cancel, RefuseStart, Finish, Abort, AdmissionInv
  <1>3. CASE Cancel(c) \/ RefuseStart(c)
    BY <1>1, <1>2, <1>3 DEF Cancel, RefuseStart, Release, Goto, dockerVars, Takes, Kept, WorkInv, AdmissionInv,
                            AdmissionTypeOK
  <1>4. CASE Finish(c)
    BY <1>1, <1>2, <1>4 DEF Finish, Release, Goto, Takes, Kept, WorkInv, AdmissionInv, AdmissionTypeOK
  <1>5. CASE c \in Runs /\ Abort(c)
    BY <1>1, <1>5 DEF Abort, Release, Goto, Takes, Kept, WorkInv, AdmissionInv, AdmissionTypeOK
  <1>. QED  BY <1>3, <1>4, <1>5

LEMMA StartKeeps ==
    ASSUME AdmissionInv, WorkInv, NEW c \in Runs,
           \/ CheckGeneration(c) \/ CreateContainer(c) \/ CreateFails(c) \/ RecordContainer(c)
           \/ RecordFails(c) \/ RunStep(c) \/ Interrupt(c) \/ ContainerExits(c)
    PROVE  WorkInv'
  BY DEF CheckGeneration, CreateContainer, CreateFails, RecordContainer, RecordFails, RunStep, Start, StartFails, ObserveExit,
         Interrupt, RemoveAfterFailure, ContainerExits, Goto, queueVars, dockerVars, processVars, Kept, WorkInv,
         AdmissionInv, AdmissionTypeOK, QueueTypeOK

\* `runs stop` removes the container before it removes the entry.
LEMMA StopKeeps ==
    ASSUME AdmissionInv, WorkInv, NEW c \in Commands, StopTarget(c)
    PROVE  WorkInv'
  <1>1. c \in Stoppers
    BY DEF StopTarget, AdmissionInv
  <1> DEFINE t == Target[c]
  <1>2. /\ stage' = [stage EXCEPT ![c] = "done"] /\ stage[c] = "targeting"
        /\ UNCHANGED <<recorded, cleanup>>
    BY DEF StopTarget, Release, Goto
  <1>3. CASE /\ Remove(t)
             /\ box' = [box EXCEPT ![t] = IF status[t] = "active" /\ t \in recorded THEN "none" ELSE @]
    <2>1. Takes({t})
      BY <1>3, RemoveEffect DEF AdmissionInv, AdmissionTypeOK
    <2>. QED  BY <1>1, <1>2, <1>3, <2>1 DEF Takes, Kept, WorkInv, AdmissionInv, AdmissionTypeOK
  <1>4. CASE UNCHANGED <<queueVars, box>>
    BY <1>1, <1>2, <1>4 DEF queueVars, Kept, WorkInv, AdmissionInv, AdmissionTypeOK
  <1>. QED  BY <1>3, <1>4 DEF StopTarget

LEMMA PublishKeeps ==
    ASSUME WorkInv, Publish \/ UNCHANGED admissionVars
    PROVE  WorkInv'
  BY DEF Publish, admissionVars, processVars, queueVars, dockerVars, Kept, WorkInv

LEMMA StepKeeps ==
    ASSUME NobodyForces, AdmissionInv, WorkInv, [AdmissionNext]_admissionVars
    PROVE  WorkInv'
  BY LockKeeps, RecoverKeeps, ControlKeeps, AdmitKeeps, LeaveKeeps, StartKeeps, StopKeeps, PublishKeeps
  DEF AdmissionNext, LockedStep

\* On a deployment where nobody forces, an exclusive command works alone, the
\* lock's holder finds the containers of the active runs, and no recorded
\* container is forgotten.  With --force this fails: `docker stop` of a created
\* container does nothing, the entry is gone and the run starts.
THEOREM WorkIsExclusiveAndAccounted ==
    ASSUME NobodyForces
    PROVE  AdmissionSpec => []AdmissionSafe
  <1>1. AdmissionInit => WorkInv
    BY InitFits
  <1>2. AdmissionInv /\ WorkInv /\ [AdmissionNext]_admissionVars => WorkInv'
    BY StepKeeps
  <1>3. AdmissionSpec => []WorkInv
    BY <1>1, <1>2, AdmissionInvariant, PTL DEF AdmissionSpec
  <1>4. AdmissionInv /\ WorkInv /\ QueueInv => AdmissionSafe
    <2>. SUFFICES ASSUME AdmissionInv, WorkInv, QueueInv PROVE AdmissionSafe
      OBVIOUS
    <2>1. AdmissionTypeOK /\ ActiveRunsNameTheirContainer
      BY DEF AdmissionInv, AdmissionTypeOK, ActiveRunsNameTheirContainer, QueueTypeOK
    <2>2. ASSUME NEW i \in Ids, Executing(i) PROVE status[i] = "active"
      BY <2>2 DEF Executing, AdmissionInv, WorkInv, Kept
    <2>3. ExclusiveExecution
      BY <2>2 DEF ExclusiveExecution, QueueInv, QueueValid, ExclusiveAlone, RunnableIn
    <2>4. ContainersAccounted
      BY DEF ContainersAccounted, WorkInv, Kept, AdmissionInv, AdmissionTypeOK
    <2>. QED  BY <2>1, <2>3, <2>4 DEF AdmissionSafe
  <1>. QED  BY <1>3, <1>4, AdmissionInvariant, DeploymentQueueSound, PTL

-----------------------------------------------------------------------------
(* Staging: the inductive invariant                                         *)

SurfaceStages == {"write", "sweep", "list"}
ReplaceStages ==
    {"r-read", "r-settle", "r-note", "r-admit", "r-settle2", "r-recheck", "r-stop", "r-discard",
     "r-retire", "r-commit"}
RecoveryStages == {"l-admit", "l-stop", "l-retire", "l-commit"}
RemovalStages ==
    {"d-read", "d-settle", "d-admit", "d-settle2", "d-note", "d-guard", "d-stop", "d-discard",
     "d-isolate"}

\* The stages under the operation lock, and all
LockedStages ==
    {"set", "set-with-sidecar", "l-read"} \cup SurfaceStages \cup ReplaceStages \cup RecoveryStages
    \cup RemovalStages
StagedStages == {"idle", "begin", "sync", "r-wait", "l-wait", "d-wait"} \cup LockedStages

Generation == {0} \cup Images
StagingRecords ==
    [shape : {"none", "state", "legacy"}, doc : Docs \cup {"none"}, image : Generation, guard : BOOLEAN]
ValidatedRecords == [image : Generation, discarded : BOOLEAN, cleanup : SUBSET Images]
IntentRecords == [kind : {"none", "current", "validated"}, image : Generation, old : Generation]
UserRecords ==
    [cmd : {"none", "create", "update", "replace", "recover", "remove"}, stage : StagedStages,
     doc : Docs \cup {"none"}, saw : StagingRecords, sawRecord : ValidatedRecords,
     plan : [write : SUBSET Names, remove : SUBSET Names]]

DeploymentTypes ==
    /\ staging \in StagingRecords
    /\ validated \in ValidatedRecords
    /\ intent \in IntentRecords
    /\ images \subseteq Images
    /\ madeFor \in [Images -> {"none"} \cup {DocEnv[d] : d \in Docs}]
    /\ serving \in Generation

SurfaceTypes ==
    /\ files \in [Names -> {"absent", "ours", "theirs", "installed"}]
    /\ manifest \subseteq Names
    /\ unsynced \in BOOLEAN /\ cutShort \in BOOLEAN

CommandTypes ==
    /\ users \in [Humans -> UserRecords]
    /\ holder \in Humans \cup {Free} /\ markers \subseteq Humans

\* What the shape of the state says about everything beside it
ShapeInv ==
    /\ staging.shape = "none" =>
         staging = NoStaging /\ validated = NoRecord /\ intent = NoIntent /\ images = {} /\ serving = 0
    /\ staging.shape = "legacy" => ~staging.guard /\ validated = NoRecord /\ intent = NoIntent
    /\ staging.shape # "none" => staging.doc \in Docs

\* A pending publication was committed, or the record is still its predecessor's
PendingInv ==
    /\ intent.kind = "none" => intent = NoIntent
    /\ intent.kind = "current" => staging.image \in {intent.image, intent.old}
    /\ intent.kind = "validated" =>
         IF validated.image = intent.image THEN intent.old \in images => intent.old \in validated.cleanup
         ELSE validated.image = intent.old

\* What was discarded and still has its reference is to be cleaned up
RecordInv ==
    /\ validated.image = 0 => validated = NoRecord
    /\ validated.image # 0 => madeFor[validated.image] # "none"
    /\ validated.discarded /\ validated.image \in images => validated.image \in validated.cleanup

DeploymentInv == ShapeInv /\ PendingInv /\ RecordInv /\ ReferencesKnown /\ EnvironmentsApart /\ GuardResumable

LockInv == \A p \in Humans : users[p].stage \in LockedStages <=> holder = p

\* What a command is at its stage, whoever holds the lock
CommandShape(p) ==
    /\ users[p].stage = "begin" => users[p].cmd # "none"
    /\ users[p].cmd \in {"create", "update", "replace"} => users[p].doc \in Docs
    /\ users[p].stage \in {"set", "set-with-sidecar"} => users[p].cmd \in {"create", "update"}
    /\ users[p].stage \in ReplaceStages \cup {"r-wait"} => users[p].cmd = "replace"
    /\ users[p].stage \in RecoveryStages \cup {"l-wait"} =>
         users[p].saw.shape = "legacy" /\ users[p].saw.doc \in Docs

\* What a command relies on at a stage under the lock
Relies(p) ==
    /\ users[p].stage = "set-with-sidecar" => staging.shape = "none"
    /\ users[p].stage \in SurfaceStages =>
         /\ staging.shape = "state"
         /\ users[p].plan.write \subseteq SurfaceNames(staging.doc)
         /\ ~cutShort => \A n \in Names : files[n] = "ours" =>
              n \in SurfaceNames(staging.doc) \cup users[p].plan.remove
    /\ users[p].stage = "list" => users[p].plan.remove = {}
    /\ users[p].stage \in {"r-recheck", "r-stop", "r-discard", "r-retire", "r-commit"} => intent = NoIntent
    /\ users[p].stage \in {"r-stop", "r-discard", "r-retire", "r-commit"} => staging = users[p].saw
    /\ users[p].stage \in {"r-discard", "r-retire", "r-commit", "d-discard", "d-isolate"} => serving = 0
    /\ users[p].stage \in {"r-retire", "r-commit"} => validated = NoRecord
    /\ users[p].stage \in {"r-commit", "d-isolate"} => images = {}
    /\ users[p].stage = "l-commit" => users[p].saw.image \notin images
    /\ users[p].stage \in {"d-note", "d-guard"} => staging.shape = "state"
    /\ users[p].stage \in {"d-stop", "d-discard", "d-isolate"} => staging.guard

StagingInv ==
    /\ DeploymentTypes /\ SurfaceTypes /\ CommandTypes
    /\ DeploymentInv /\ SurfaceAgrees /\ LockInv
    /\ \A p \in Humans : CommandShape(p) /\ Relies(p)


-----------------------------------------------------------------------------
(* Its consequences, and steps in general                                   *)

\* The invariant gives what the run checks.
LEMMA StagingInvSound == StagingInv => StagingSound
  BY DEF StagingInv, StagingSound, StagedTypeOK, DeploymentTypes, SurfaceTypes, CommandTypes, DeploymentInv,
         StagingRecords

\* The holder of the lock is the only command at a locked stage.
LEMMA LockIsOne ==
    ASSUME LockInv, NEW p \in Humans, users[p].stage \in LockedStages
    PROVE  holder = p /\ p # Free /\ \A q \in Humans \ {p} : users[q].stage \notin LockedStages
  BY DEF LockInv, Humans, Free

LEMMA LockedStage ==
    /\ SurfaceStages \subseteq LockedStages /\ ReplaceStages \subseteq LockedStages
    /\ RecoveryStages \subseteq LockedStages /\ RemovalStages \subseteq LockedStages
    /\ LockedStages \subseteq StagedStages
  BY DEF LockedStages, StagedStages

\* Without the lock a command relies on nothing.
LEMMA UnlockedRelies ==
    ASSUME NEW p \in Humans, users[p].stage \notin LockedStages
    PROVE  Relies(p)
  BY DEF Relies, LockedStages, SurfaceStages, ReplaceStages, RecoveryStages, RemovalStages

\* The same, after a step.
LEMMA UnlockedReliesNext ==
    ASSUME NEW p \in Humans, users'[p].stage \notin LockedStages
    PROVE  Relies(p)'
  BY DEF Relies, LockedStages, SurfaceStages, ReplaceStages, RecoveryStages, RemovalStages

\* A step of one command that changes nothing but the commands.  A command
\* that leaves the stages of the surface leaves it half-way.
LEMMA CommandStep ==
    ASSUME StagingInv, NEW p \in Humans,
           UNCHANGED <<deployment, surface, unsynced>>,
           CommandTypes', \A q \in Humans \ {p} : users'[q] = users[q],
           LockInv', CommandShape(p)', Relies(p)',
           cutShort' \in BOOLEAN, cutShort => cutShort',
           users[p].stage \in SurfaceStages => cutShort',
           users[p].stage \notin SurfaceStages => cutShort' = cutShort
    PROVE  StagingInv'
  <1> USE DEF StagingInv
  <1>1. DeploymentTypes' /\ SurfaceTypes' /\ CommandTypes'
    BY DEF DeploymentTypes, SurfaceTypes, deployment, surface
  <1>2. DeploymentInv'
    BY DEF DeploymentInv, ShapeInv, PendingInv, RecordInv, ReferencesKnown, EnvironmentsApart, GuardResumable,
           Found, deployment
  <1>3. SurfaceAgrees'
    <2>1. (Found /\ ~unsynced => manifest = SurfaceNames(staging.doc))'
      BY DEF SurfaceAgrees, Found, SurfaceNames, deployment, surface
    <2>2. ASSUME ~cutShort', \A q \in Humans : users'[q].stage \notin SurfaceStages
          PROVE  \A n \in Names : files'[n] = "ours" => n \in manifest'
      <3>1. ~cutShort /\ \A q \in Humans : users[q].stage \notin SurfaceStages
        BY <2>2
      <3> QED BY <3>1 DEF SurfaceAgrees, SurfaceStages, surface
    <2> QED BY <2>1, <2>2 DEF SurfaceAgrees, SurfaceStages, Names, Scripts
  <1>4. ASSUME NEW q \in Humans \ {p}
        PROVE  CommandShape(q)' /\ Relies(q)'
    <2>1. CommandShape(q)'
      BY DEF CommandShape
    <2>2. CASE users[p].stage \in SurfaceStages
      <3>1. users'[q].stage \notin LockedStages
        BY <2>2, LockIsOne, LockedStage
      <3> QED BY <2>1, <3>1, UnlockedReliesNext
    <2>3. CASE users[p].stage \notin SurfaceStages
      BY <2>1, <2>3 DEF Relies, deployment, surface, SurfaceNames, Names, Scripts
    <2> QED BY <2>2, <2>3
  <1> QED BY <1>1, <1>2, <1>3, <1>4

\* A step of the holder of the lock that leaves the control surface alone.
LEMMA HolderStep ==
    ASSUME StagingInv, NEW p \in Humans, users[p].stage \in LockedStages \ SurfaceStages,
           UNCHANGED surface,
           CommandTypes', \A q \in Humans \ {p} : users'[q] = users[q],
           LockInv', CommandShape(p)', Relies(p)', users'[p].stage \notin SurfaceStages,
           DeploymentTypes', DeploymentInv',
           unsynced' \in BOOLEAN, cutShort' = cutShort,
           unsynced' \/ staging'.shape = "none" \/ (unsynced' = unsynced /\ staging'.doc = staging.doc /\ Found)
    PROVE  StagingInv'
  <1> USE DEF StagingInv
  <1>1. SurfaceTypes'
    BY DEF SurfaceTypes, surface
  <1>2. \A q \in Humans \ {p} : users'[q].stage \notin LockedStages
    BY LockIsOne
  <1>3. SurfaceAgrees'
    <2>1. (Found /\ ~unsynced => manifest = SurfaceNames(staging.doc))'
      BY DEF SurfaceAgrees, Found, SurfaceNames, surface, SurfaceTypes
    <2>2. \A q \in Humans : users[q].stage \notin SurfaceStages
      BY LockIsOne, LockedStage
    <2>3. ~cutShort' => \A n \in Names : files'[n] = "ours" => n \in manifest'
      BY <2>2 DEF SurfaceAgrees, SurfaceStages, surface
    <2> QED BY <2>1, <2>3 DEF SurfaceAgrees, Names, Scripts
  <1>4. ASSUME NEW q \in Humans \ {p}
        PROVE  CommandShape(q)' /\ Relies(q)'
    BY <1>2, UnlockedReliesNext DEF CommandShape
  <1> QED BY <1>1, <1>3, <1>4

\* A step while the lock is free that concerns no command.
LEMMA FreeStep ==
    ASSUME StagingInv, holder = Free, Elsewhere, DeploymentTypes', DeploymentInv',
           staging'.doc = staging.doc, staging'.shape = staging.shape
    PROVE  StagingInv'
  <1> USE DEF StagingInv, Elsewhere
  <1>1. SurfaceTypes' /\ CommandTypes' /\ LockInv'
    BY DEF SurfaceTypes, CommandTypes, LockInv, surface
  <1>2. SurfaceAgrees'
    BY DEF SurfaceAgrees, Found, SurfaceNames, surface, Names, Scripts
  <1>3. ASSUME NEW q \in Humans
        PROVE  CommandShape(q)' /\ Relies(q)'
    <2>1. users'[q].stage \notin LockedStages
      BY DEF LockInv, Humans, Free
    <2> QED BY <2>1, UnlockedReliesNext DEF CommandShape
  <1> QED BY <1>1, <1>2, <1>3

-----------------------------------------------------------------------------
(* Moves from stage to stage                                                *)

\* A move leaves everything of the command but its stage, and the others.
LEMMA MoveEffect ==
    ASSUME CommandTypes, NEW p \in Humans, NEW s \in StagedStages, To(p, s)
    PROVE  /\ users' \in [Humans -> UserRecords]
           /\ users'[p] = [users[p] EXCEPT !.stage = s]
           /\ users'[p].stage = s /\ users'[p].cmd = users[p].cmd /\ users'[p].doc = users[p].doc
           /\ users'[p].saw = users[p].saw /\ users'[p].sawRecord = users[p].sawRecord
           /\ users'[p].plan = users[p].plan
           /\ \A q \in Humans \ {p} : users'[q] = users[q]
  BY DEF CommandTypes, To, UserRecords

\* The command keeps the lock.
LEMMA KeepsLock ==
    ASSUME LockInv, NEW p \in Humans, users[p].stage \in LockedStages,
           users'[p].stage \in LockedStages, \A q \in Humans \ {p} : users'[q] = users[q], holder' = holder
    PROVE  LockInv' /\ holder' = p
  BY DEF LockInv, Humans, Free

\* The command takes the lock, or keeps it.
LEMMA TakesLock ==
    ASSUME LockInv, NEW p \in Humans, holder \in {p, Free}, holder' = p,
           users'[p].stage \in LockedStages, \A q \in Humans \ {p} : users'[q] = users[q]
    PROVE  LockInv'
  BY DEF LockInv, Humans, Free

\* The command leaves the lock, if it had it.
LEMMA LeavesLock ==
    ASSUME LockInv, NEW p \in Humans, holder' = IF holder = p THEN Free ELSE holder,
           users'[p].stage \notin LockedStages, \A q \in Humans \ {p} : users'[q] = users[q]
    PROVE  LockInv'
  BY DEF LockInv, Humans, Free

\* A command that ends.
LEMMA QuitEffect ==
    ASSUME StagingInv, NEW p \in Humans, Quits(p)
    PROVE  /\ CommandTypes' /\ LockInv' /\ CommandShape(p)' /\ Relies(p)'
           /\ \A q \in Humans \ {p} : users'[q] = users[q]
           /\ users'[p].stage = "idle"
           /\ cutShort' = (cutShort \/ users[p].stage \in SurfaceStages)
  <1> USE DEF StagingInv, Quits
  <1>1. NoCommand \in UserRecords
    BY DEF NoCommand, UserRecords, NoStaging, StagingRecords, NoRecord, ValidatedRecords, NoSurfacePlan,
           Generation, StagedStages
  <1>2. CommandTypes' /\ users'[p] = NoCommand /\ \A q \in Humans \ {p} : users'[q] = users[q]
    BY <1>1 DEF CommandTypes, Free
  <1>3. users'[p].stage = "idle" /\ users'[p].cmd = "none" /\ users'[p].stage \notin LockedStages
    BY <1>2 DEF NoCommand, LockedStages, SurfaceStages, ReplaceStages, RecoveryStages, RemovalStages
  <1>4. LockInv'
    BY <1>2, <1>3, LeavesLock
  <1>5. Relies(p)'
    BY <1>3, UnlockedReliesNext
  <1>6. CommandShape(p)'
    BY <1>3 DEF CommandShape, ReplaceStages, RecoveryStages
  <1> QED BY <1>2, <1>3, <1>4, <1>5, <1>6 DEF Stands, SurfaceStages

\* A command that ends and changes nothing else: refusal and failure.
LEMMA QuitFits ==
    ASSUME StagingInv, NEW p \in Humans, Quits(p), UNCHANGED <<deployment, surface, unsynced>>
    PROVE  StagingInv'
  <1>1. cutShort \in BOOLEAN
    BY DEF StagingInv, SurfaceTypes
  <1> QED BY <1>1, QuitEffect, CommandStep

LEMMA RefusedFits ==
    ASSUME StagingInv, NEW p \in Humans, Refused(p)
    PROVE  StagingInv'
  <1>1. UNCHANGED <<deployment, surface, unsynced>>
    BY DEF Refused
  <1> QED BY <1>1, QuitFits DEF Refused

LEMMA StepFailsFits ==
    ASSUME StagingInv, NEW p \in Humans, StepFails(p)
    PROVE  StagingInv'
  <1>1. UNCHANGED <<deployment, surface, unsynced>>
    BY DEF StepFails
  <1> QED BY <1>1, QuitFits DEF StepFails

\* A new command.
LEMMA IssueFits ==
    ASSUME StagingInv, NEW p \in Humans,
           NEW cmd \in {"create", "update", "replace", "recover", "remove"}, NEW doc \in Docs \cup {"none"},
           cmd \in {"create", "update", "replace"} => doc \in Docs,
           Issue(p, cmd, doc)
    PROVE  StagingInv'
  <1> USE DEF StagingInv
  <1>1. /\ users[p].stage = "idle" /\ UNCHANGED <<deployment, surface, holder, markers, unsynced, cutShort>>
        /\ users' = [users EXCEPT ![p] = [NoCommand EXCEPT !.cmd = cmd, !.doc = doc, !.stage = "begin"]]
    BY DEF Issue, Stands
  <1>2. [NoCommand EXCEPT !.cmd = cmd, !.doc = doc, !.stage = "begin"] \in UserRecords
    BY DEF NoCommand, UserRecords, NoStaging, StagingRecords, NoRecord, ValidatedRecords, NoSurfacePlan,
           Generation, StagedStages
  <1>3. /\ CommandTypes' /\ \A q \in Humans \ {p} : users'[q] = users[q]
        /\ users'[p] = [NoCommand EXCEPT !.cmd = cmd, !.doc = doc, !.stage = "begin"]
    BY <1>1, <1>2 DEF CommandTypes
  <1>4. users'[p].stage = "begin" /\ users'[p].cmd = cmd /\ users'[p].doc = doc
    BY <1>3 DEF NoCommand
  <1>5. /\ users[p].stage \notin LockedStages /\ users'[p].stage \notin LockedStages
        /\ users[p].stage \notin SurfaceStages
    BY <1>1, <1>4 DEF LockedStages, SurfaceStages, ReplaceStages, RecoveryStages, RemovalStages
  <1>6. LockInv'
    BY <1>1, <1>3, <1>5 DEF LockInv
  <1>7. CommandShape(p)'
    BY <1>4 DEF CommandShape, ReplaceStages, RecoveryStages
  <1>8. Relies(p)'
    BY <1>5, UnlockedReliesNext
  <1>9. cutShort \in BOOLEAN
    BY DEF SurfaceTypes
  <1> QED BY <1>1, <1>3, <1>5, <1>6, <1>7, <1>8, <1>9, CommandStep


\* A move of a command that changes nothing but the commands and the lock.
LEMMA MoveFits ==
    ASSUME StagingInv, NEW p \in Humans, NEW s \in StagedStages, To(p, s),
           UNCHANGED <<deployment, surface, unsynced, cutShort>>,
           users[p].stage \notin SurfaceStages, markers' \subseteq Humans, holder' \in Humans \cup {Free},
           LockInv', CommandShape(p)', Relies(p)'
    PROVE  StagingInv'
  <1>1. CommandTypes' /\ \A q \in Humans \ {p} : users'[q] = users[q]
    BY MoveEffect DEF StagingInv, CommandTypes
  <1>2. cutShort \in BOOLEAN
    BY DEF StagingInv, SurfaceTypes
  <1> QED BY <1>1, <1>2, CommandStep

\* A command starts to work.
LEMMA BeginFits ==
    ASSUME StagingInv, NEW p \in Humans, Begin(p)
    PROVE  StagingInv'
  <1> USE DEF StagingInv
  <1>1. CASE Refused(p)
    BY <1>1, RefusedFits
  <1>2. CASE ~Refused(p)
    <2> DEFINE first == CASE users[p].cmd = "remove" -> "d-read"
                          [] users[p].cmd = "replace" -> "r-read"
                          [] users[p].cmd = "recover" -> "l-read"
                          [] OTHER -> "set"
    <2>1. /\ users[p].stage = "begin" /\ holder = Free /\ To(p, first) /\ holder' = p
          /\ UNCHANGED <<markers, deployment, surface, unsynced, cutShort>>
      BY <1>2 DEF Begin, Stands
    <2>2. users[p].cmd \in {"create", "update", "replace", "recover", "remove"}
      BY <2>1 DEF CommandShape, CommandTypes, UserRecords
    <2>3. /\ first \in {"d-read", "r-read", "l-read", "set"}
          /\ first = "r-read" => users[p].cmd = "replace"
          /\ first = "set" => users[p].cmd \in {"create", "update"}
      BY <2>2
    <2> HIDE DEF first
    <2>4. first \in LockedStages /\ first \in StagedStages
      BY <2>3 DEF LockedStages, StagedStages, ReplaceStages, RemovalStages
    <2>5. users'[p].stage = first /\ users'[p].cmd = users[p].cmd /\ users'[p].doc = users[p].doc
          /\ \A q \in Humans \ {p} : users'[q] = users[q]
      BY <2>1, <2>4, MoveEffect
    <2>6. LockInv'
      BY <2>1, <2>4, <2>5, TakesLock
    <2>7. CommandShape(p)'
      BY <2>3, <2>5 DEF CommandShape, ReplaceStages, RecoveryStages
    <2>8. Relies(p)'
      BY <2>3, <2>5 DEF Relies, SurfaceStages
    <2>9. users[p].stage \notin SurfaceStages /\ markers' \subseteq Humans
      BY <2>1 DEF SurfaceStages, CommandTypes
    <2> QED BY <2>1, <2>4, <2>6, <2>7, <2>8, <2>9, MoveFits
  <1> QED BY <1>1, <1>2

\* A command releases the lock to wait for admission.
LEMMA AwaitAdmissionFits ==
    ASSUME StagingInv, NEW p \in Humans, NEW from \in {"r-admit", "l-admit", "d-admit"},
           AwaitAdmission(p, from)
    PROVE  StagingInv'
  <1> USE DEF StagingInv
  <1> DEFINE to == CASE from = "r-admit" -> "r-wait" [] from = "l-admit" -> "l-wait" [] OTHER -> "d-wait"
  <1>1. /\ users[p].stage = from /\ holder = p /\ To(p, to) /\ holder' = Free
        /\ UNCHANGED <<deployment, surface, markers, unsynced, cutShort>>
    BY DEF AwaitAdmission, Stands
  <1>2. /\ to \in {"r-wait", "l-wait", "d-wait"} /\ (to = "r-wait" => from = "r-admit")
        /\ (to = "l-wait" => from = "l-admit")
    OBVIOUS
  <1> HIDE DEF to
  <1>3. to \in StagedStages /\ to \notin LockedStages
    BY <1>2 DEF LockedStages, StagedStages, SurfaceStages, ReplaceStages, RecoveryStages, RemovalStages
  <1>4. users'[p].stage = to /\ users'[p].cmd = users[p].cmd /\ users'[p].doc = users[p].doc
        /\ users'[p].saw = users[p].saw /\ \A q \in Humans \ {p} : users'[q] = users[q]
    BY <1>1, <1>3, MoveEffect
  <1>5. LockInv'
    BY <1>1, <1>3, <1>4, LeavesLock
  <1>6. CommandShape(p)'
    BY <1>1, <1>2, <1>4 DEF CommandShape, ReplaceStages, RecoveryStages
  <1>7. Relies(p)'
    BY <1>3, <1>4, UnlockedReliesNext
  <1>8. users[p].stage \notin SurfaceStages /\ markers' \subseteq Humans
    BY <1>1 DEF SurfaceStages, CommandTypes
  <1> QED BY <1>1, <1>3, <1>5, <1>6, <1>7, <1>8, MoveFits

\* A command is admitted, at once or after a wait.
LEMMA StagedAdmitFits ==
    ASSUME StagingInv, NEW p \in Humans, NEW from, NEW to, Admit(p, from, to),
           \/ from \in {"r-admit", "r-wait"} /\ to = "r-settle2"
           \/ from \in {"l-admit", "l-wait"} /\ to = AfterAdmission(p)
           \/ from \in {"d-admit", "d-wait"} /\ to = "d-settle2"
    PROVE  StagingInv'
  <1> USE DEF StagingInv
  <1>1. /\ users[p].stage = from /\ holder \in {p, Free} /\ To(p, to) /\ holder' = p
        /\ markers' \subseteq Humans /\ UNCHANGED <<deployment, surface, unsynced, cutShort>>
    BY DEF Admit, Stands, CommandTypes
  <1>2. to \in {"r-settle2", "l-stop", "l-commit", "d-settle2"}
        /\ (to = "r-settle2" => from \in {"r-admit", "r-wait"})
        /\ (to \in {"l-stop", "l-commit"} => from \in {"l-admit", "l-wait"})
        /\ (to = "l-commit" => users[p].saw.image = 0)
    BY DEF AfterAdmission
  <1>3. to \in StagedStages /\ to \in LockedStages
    BY <1>2 DEF LockedStages, StagedStages, ReplaceStages, RecoveryStages, RemovalStages
  <1>4. users'[p].stage = to /\ users'[p].cmd = users[p].cmd /\ users'[p].doc = users[p].doc
        /\ users'[p].saw = users[p].saw /\ \A q \in Humans \ {p} : users'[q] = users[q]
    BY <1>1, <1>3, MoveEffect
  <1>5. LockInv'
    BY <1>1, <1>3, <1>4, TakesLock
  <1>6. CommandShape(p)'
    BY <1>1, <1>2, <1>4 DEF CommandShape, ReplaceStages, RecoveryStages
  <1>7. 0 \notin images /\ images' = images
    BY <1>1, StagedBounds DEF DeploymentTypes, deployment
  <1>8. Relies(p)'
    BY <1>2, <1>4, <1>7 DEF Relies, SurfaceStages
  <1>9. users[p].stage \notin SurfaceStages
    BY <1>1, <1>2 DEF SurfaceStages
  <1> QED BY <1>1, <1>3, <1>5, <1>6, <1>8, <1>9, MoveFits

\* The owners are remembered before the wait.
LEMMA NoteOwnersFits ==
    ASSUME StagingInv, NEW p \in Humans, NEW from, NEW to, NoteOwners(p, from, to),
           \/ from = "r-note" /\ to = "r-admit"
           \/ from = "l-read" /\ to = "l-admit" /\ staging.shape = "legacy"
           \/ from = "d-note" /\ to = "d-guard"
    PROVE  StagingInv'
  <1> USE DEF StagingInv
  <1>1. /\ users[p].stage = from
        /\ users' = [users EXCEPT ![p].stage = to, ![p].saw = staging, ![p].sawRecord = validated]
        /\ UNCHANGED <<deployment, surface, holder, markers, unsynced, cutShort>>
    BY DEF NoteOwners, Stands
  <1>2. to \in LockedStages /\ from \in LockedStages /\ to \in StagedStages /\ from \notin SurfaceStages
    BY DEF LockedStages, StagedStages, ReplaceStages, RecoveryStages, RemovalStages, SurfaceStages
  <1>3. /\ users' \in [Humans -> UserRecords] /\ users'[p].stage = to /\ users'[p].cmd = users[p].cmd
        /\ users'[p].doc = users[p].doc /\ users'[p].saw = staging
        /\ \A q \in Humans \ {p} : users'[q] = users[q]
    <2> DEFINE next == [users[p] EXCEPT !.stage = to, !.saw = staging, !.sawRecord = validated]
    <2>1. users \in [Humans -> UserRecords] /\ users[p] \in UserRecords
      BY DEF CommandTypes
    <2>2. /\ next \in UserRecords /\ next.stage = to /\ next.cmd = users[p].cmd
          /\ next.doc = users[p].doc /\ next.saw = staging
      BY <1>2, <2>1 DEF UserRecords, DeploymentTypes
    <2>3. users' = [users EXCEPT ![p] = next]
      BY <1>1, <2>1
    <2> HIDE DEF next
    <2> QED BY <2>1, <2>2, <2>3
  <1>4. CommandTypes'
    BY <1>1, <1>3 DEF CommandTypes
  <1>5. LockInv'
    BY <1>1, <1>2, <1>3, KeepsLock
  <1>6. CommandShape(p)'
    BY <1>1, <1>3 DEF CommandShape, ReplaceStages, RecoveryStages, DeploymentInv, ShapeInv
  <1>7. Relies(p)'
    <2>1. staging' = staging
      BY <1>1 DEF deployment
    <2>2. to = "d-guard" => staging.shape = "state"
      BY <1>1 DEF Relies
    <2> QED BY <2>1, <2>2, <1>3 DEF Relies, SurfaceStages
  <1>8. cutShort \in BOOLEAN
    BY DEF SurfaceTypes
  <1> QED BY <1>1, <1>2, <1>3, <1>4, <1>5, <1>6, <1>7, <1>8, CommandStep

\* What a forced replacement makes of what it reads.
LEMMA ReadForReplacementFits ==
    ASSUME StagingInv, NEW p \in Humans, ReadForReplacement(p)
    PROVE  StagingInv'
  <1> USE DEF StagingInv
  <1>1. CASE Refused(p)
    BY <1>1, RefusedFits
  <1>2. CASE /\ users' = [users EXCEPT ![p].stage = "begin", ![p].cmd = "update"]
             /\ holder' = Free
             /\ UNCHANGED <<deployment, sidecar, surface, markers, given, mishaps, unsynced, cutShort>>
    <2>1. users[p].stage = "r-read"
      BY DEF ReadForReplacement, Stands
    <2>2. /\ users' \in [Humans -> UserRecords] /\ users'[p].stage = "begin" /\ users'[p].cmd = "update"
          /\ users'[p].doc = users[p].doc /\ \A q \in Humans \ {p} : users'[q] = users[q]
      <3> DEFINE next == [users[p] EXCEPT !.stage = "begin", !.cmd = "update"]
      <3>1. users \in [Humans -> UserRecords] /\ users[p] \in UserRecords
        BY DEF CommandTypes
      <3>2. /\ next \in UserRecords /\ next.stage = "begin" /\ next.cmd = "update"
            /\ next.doc = users[p].doc
        BY <3>1 DEF UserRecords, StagedStages
      <3>3. users' = [users EXCEPT ![p] = next]
        BY <1>2, <3>1
      <3> HIDE DEF next
      <3> QED BY <3>1, <3>2, <3>3
    <2>3. CommandTypes'
      BY <1>2, <2>2 DEF CommandTypes
    <2>4. "begin" \notin LockedStages /\ "r-read" \in LockedStages /\ "r-read" \notin SurfaceStages
      BY DEF LockedStages, ReplaceStages, RecoveryStages, RemovalStages, SurfaceStages
    <2>5. LockInv'
      BY <1>2, <2>1, <2>2, <2>4, LeavesLock DEF LockInv
    <2>6. CommandShape(p)'
      BY <2>1, <2>2 DEF CommandShape, ReplaceStages, RecoveryStages
    <2>7. Relies(p)'
      BY <2>2, <2>4, UnlockedReliesNext
    <2>8. cutShort \in BOOLEAN /\ UNCHANGED <<deployment, surface, unsynced, cutShort>>
      BY <1>2 DEF SurfaceTypes
    <2> QED BY <2>1, <2>2, <2>3, <2>4, <2>5, <2>6, <2>7, <2>8, CommandStep
  <1>3. CASE Moves(p, "r-read", "r-settle") /\ UNCHANGED <<deployment, sidecar, surface, unsynced, cutShort>>
    <2>1. /\ users[p].stage = "r-read" /\ To(p, "r-settle") /\ UNCHANGED <<holder, markers>>
          /\ UNCHANGED <<deployment, surface, unsynced, cutShort>>
      BY <1>3 DEF Moves, Stands
    <2>2. /\ "r-settle" \in LockedStages /\ "r-settle" \in StagedStages
          /\ "r-read" \in LockedStages /\ "r-read" \notin SurfaceStages
      BY DEF LockedStages, StagedStages, ReplaceStages, SurfaceStages
    <2>3. users'[p].stage = "r-settle" /\ users'[p].cmd = users[p].cmd /\ users'[p].doc = users[p].doc
          /\ \A q \in Humans \ {p} : users'[q] = users[q]
      BY <2>1, <2>2, MoveEffect
    <2>4. LockInv'
      BY <2>1, <2>2, <2>3, KeepsLock
    <2>5. CommandShape(p)' /\ Relies(p)'
      BY <2>1, <2>3 DEF CommandShape, Relies, ReplaceStages, RecoveryStages, SurfaceStages
    <2>6. markers' \subseteq Humans /\ holder' \in Humans \cup {Free}
      BY <2>1 DEF CommandTypes
    <2> QED BY <2>1, <2>2, <2>4, <2>5, <2>6, MoveFits
  <1> QED BY <1>1, <1>2, <1>3 DEF ReadForReplacement


-----------------------------------------------------------------------------
(* stage and stage --update                                                 *)

LEMMA WriteSidecarFits ==
    ASSUME StagingInv, NEW p \in Humans, WriteSidecar(p)
    PROVE  StagingInv'
  <1> USE DEF StagingInv
  <1>1. /\ users[p].stage = "set" /\ To(p, "set-with-sidecar") /\ UNCHANGED <<holder, markers>>
        /\ UNCHANGED <<deployment, surface, unsynced, cutShort>> /\ staging.shape = "none"
    BY DEF WriteSidecar, Moves, Stands, SetAllowed, Found
  <1>2. /\ "set" \in LockedStages /\ "set-with-sidecar" \in LockedStages
        /\ "set-with-sidecar" \in StagedStages /\ "set" \notin SurfaceStages
    BY DEF LockedStages, StagedStages, SurfaceStages
  <1>3. users'[p].stage = "set-with-sidecar" /\ users'[p].cmd = users[p].cmd
        /\ users'[p].doc = users[p].doc /\ \A q \in Humans \ {p} : users'[q] = users[q]
    BY <1>1, <1>2, MoveEffect
  <1>4. LockInv'
    BY <1>1, <1>2, <1>3, KeepsLock
  <1>5. CommandShape(p)'
    BY <1>1, <1>3 DEF CommandShape, ReplaceStages, RecoveryStages
  <1>6. Relies(p)'
    BY <1>1, <1>3 DEF Relies, SurfaceStages, deployment
  <1>7. markers' \subseteq Humans /\ holder' \in Humans \cup {Free}
    BY <1>1 DEF CommandTypes
  <1> QED BY <1>1, <1>2, <1>4, <1>5, <1>6, <1>7, MoveFits

\* A document of the same environment is recorded, or the first of a directory.
LEMMA RecordedDocument ==
    ASSUME StagingInv, NEW d \in Docs, staging.shape # "legacy",
           Found => DocEnv[staging.doc] = DocEnv[d],
           staging' = [staging EXCEPT !.shape = "state", !.doc = d],
           UNCHANGED <<validated, intent, images, madeFor, serving>>
    PROVE  DeploymentTypes' /\ DeploymentInv'
  <1> USE DEF StagingInv
  <1>1. /\ staging' \in StagingRecords /\ staging'.shape = "state" /\ staging'.doc = d
        /\ staging'.image = staging.image /\ staging'.guard = staging.guard
    BY DEF DeploymentTypes, StagingRecords
  <1>2. DeploymentTypes'
    BY <1>1 DEF DeploymentTypes
  <1>3. ShapeInv' /\ PendingInv' /\ RecordInv' /\ ReferencesKnown'
    BY <1>1 DEF DeploymentInv, ShapeInv, PendingInv, RecordInv, ReferencesKnown
  <1>4. EnvironmentsApart'
    <2>1. CASE staging.shape = "none"
      BY <1>1, <2>1 DEF EnvironmentsApart, Found, DeploymentInv, ShapeInv, NoStaging, NoRecord
    <2>2. CASE staging.shape # "none"
      BY <1>1, <2>2 DEF EnvironmentsApart, Found, DeploymentInv
    <2> QED BY <2>1, <2>2
  <1>5. GuardResumable'
    BY <1>1 DEF GuardResumable, DeploymentInv
  <1> QED BY <1>2, <1>3, <1>4, <1>5 DEF DeploymentInv

LEMMA SetStateFits ==
    ASSUME StagingInv, NEW p \in Humans, SetState(p)
    PROVE  StagingInv'
  <1> USE DEF StagingInv
  <1>1. CASE Refused(p)
    BY <1>1, RefusedFits
  <1>2. CASE ~Refused(p)
    <2>1. /\ users[p].stage \in {"set", "set-with-sidecar"} /\ (users[p].stage = "set" => SetAllowed(p))
          /\ Record(p) /\ To(p, "sync") /\ holder' = Free /\ UNCHANGED markers
      BY <1>2 DEF SetState, Stands
    <2>2. /\ users[p].doc \in Docs /\ staging.shape # "legacy"
          /\ Found => DocEnv[staging.doc] = DocEnv[users[p].doc]
      BY <2>1 DEF CommandShape, SetAllowed, Relies, Found
    <2>3. DeploymentTypes' /\ DeploymentInv'
      BY <2>1, <2>2, RecordedDocument DEF Record
    <2>4. /\ users[p].stage \in LockedStages \ SurfaceStages /\ "sync" \in StagedStages
          /\ "sync" \notin LockedStages /\ "sync" \notin SurfaceStages
      BY <2>1 DEF LockedStages, StagedStages, SurfaceStages, ReplaceStages, RecoveryStages, RemovalStages
    <2>5. /\ CommandTypes' /\ users'[p].stage = "sync" /\ users'[p].cmd = users[p].cmd
          /\ users'[p].doc = users[p].doc /\ \A q \in Humans \ {p} : users'[q] = users[q]
      BY <2>1, <2>4, MoveEffect DEF CommandTypes
    <2>6. LockInv'
      BY <2>1, <2>4, <2>5, LeavesLock DEF LockInv
    <2>7. CommandShape(p)'
      BY <2>5 DEF CommandShape, ReplaceStages, RecoveryStages
    <2>8. Relies(p)'
      BY <2>4, <2>5, UnlockedReliesNext
    <2>9. UNCHANGED surface /\ unsynced' = TRUE /\ cutShort' = cutShort
      BY <2>1 DEF Record
    <2> QED BY <2>3, <2>4, <2>5, <2>6, <2>7, <2>8, <2>9, HolderStep
  <1> QED BY <1>1, <1>2

LEMMA SetFailsFits ==
    ASSUME StagingInv, NEW p \in Humans, SetFails(p)
    PROVE  StagingInv'
  <1> USE DEF StagingInv
  <1>1. /\ users[p].stage = "set-with-sidecar" /\ Quits(p)
        /\ UNCHANGED <<validated, intent, images, madeFor, serving, surface>>
    BY DEF SetFails, Stands
  <1>2. CASE UNCHANGED <<staging, unsynced>>
    BY <1>1, <1>2, QuitFits DEF deployment
  <1>3. CASE staging' = [staging EXCEPT !.shape = "state", !.doc = users[p].doc] /\ unsynced' = TRUE
    <2>1. users[p].doc \in Docs /\ staging.shape = "none"
      BY <1>1 DEF CommandShape, Relies
    <2>2. DeploymentTypes' /\ DeploymentInv'
      BY <1>1, <1>3, <2>1, RecordedDocument DEF Found
    <2>3. users[p].stage \in LockedStages \ SurfaceStages /\ "idle" \notin SurfaceStages
      BY <1>1 DEF LockedStages, SurfaceStages
    <2>4. /\ CommandTypes' /\ LockInv' /\ CommandShape(p)' /\ Relies(p)' /\ users'[p].stage = "idle"
          /\ \A q \in Humans \ {p} : users'[q] = users[q]
      BY <1>1, QuitEffect
    <2>5. cutShort' = cutShort
      BY <1>1, <2>3, QuitEffect DEF SurfaceTypes
    <2> QED BY <1>1, <1>3, <2>2, <2>3, <2>4, <2>5, HolderStep
  <1> QED BY <1>2, <1>3 DEF SetFails

-----------------------------------------------------------------------------
(* The control surface                                                      *)

LEMMA SurfaceNamesTyped ==
    ASSUME NEW d \in Docs
    PROVE  SurfaceNames(d) \subseteq Names
  BY DEF SurfaceNames, Names, Scripts

LEMMA SyncPlanFits ==
    ASSUME StagingInv, NEW p \in Humans, SyncPlan(p)
    PROVE  StagingInv'
  <1> USE DEF StagingInv
  <1>1. CASE Refused(p)
    BY <1>1, RefusedFits
  <1>2. CASE ~Refused(p)
    <2> DEFINE wanted == SurfaceNames(staging.doc)
               gone == manifest \ wanted
    <2>1. /\ users[p].stage = "sync" /\ holder = Free /\ holder' = p /\ staging.shape = "state"
          /\ users' = [users EXCEPT ![p].stage = "write", ![p].plan = [write |-> wanted, remove |-> gone]]
          /\ UNCHANGED <<markers, deployment, surface, unsynced, cutShort>>
      BY <1>2 DEF SyncPlan, Stands
    <2>2. wanted \subseteq Names /\ gone \subseteq Names
      BY <2>1, SurfaceNamesTyped DEF DeploymentInv, ShapeInv, SurfaceTypes
    <2>3. "write" \in StagedStages /\ "write" \in LockedStages /\ "sync" \notin SurfaceStages
      BY DEF StagedStages, LockedStages, SurfaceStages
    <2> HIDE DEF wanted, gone
    <2>4. /\ users' \in [Humans -> UserRecords] /\ users'[p].stage = "write"
          /\ users'[p].plan.write = wanted /\ users'[p].plan.remove = gone
          /\ users'[p].cmd = users[p].cmd /\ users'[p].doc = users[p].doc
          /\ \A q \in Humans \ {p} : users'[q] = users[q]
      <3> DEFINE next == [users[p] EXCEPT !.stage = "write", !.plan = [write |-> wanted, remove |-> gone]]
      <3>1. users \in [Humans -> UserRecords] /\ users[p] \in UserRecords
        BY DEF CommandTypes
      <3>2. /\ next \in UserRecords /\ next.stage = "write" /\ next.plan.write = wanted
            /\ next.plan.remove = gone /\ next.cmd = users[p].cmd /\ next.doc = users[p].doc
        BY <2>2, <2>3, <3>1 DEF UserRecords
      <3>3. users' = [users EXCEPT ![p] = next]
        BY <2>1, <3>1
      <3> HIDE DEF next
      <3> QED BY <3>1, <3>2, <3>3
    <2>5. CommandTypes'
      BY <2>1, <2>4 DEF CommandTypes
    <2>6. LockInv'
      BY <2>1, <2>3, <2>4, TakesLock
    <2>7. CommandShape(p)'
      BY <2>4 DEF CommandShape, ReplaceStages, RecoveryStages
    <2>8. \A q \in Humans : users[q].stage \notin SurfaceStages
      BY <2>1, LockedStage DEF LockInv, Humans, Free
    <2>9. ~cutShort => \A n \in Names : files[n] = "ours" => n \in manifest
      BY <2>8 DEF SurfaceAgrees, SurfaceStages
    <2>10. Relies(p)'
      <3>1. staging' = staging /\ files' = files /\ cutShort' = cutShort /\ manifest' = manifest
        BY <2>1 DEF deployment, surface
      <3>2. wanted = SurfaceNames(staging'.doc) /\ manifest \subseteq wanted \cup gone
        BY <3>1 DEF wanted, gone
      <3>3. \A n \in Names' : n \in Names
        BY DEF Names, Scripts
      <3> QED BY <2>1, <2>4, <2>9, <3>1, <3>2, <3>3 DEF Relies, SurfaceNames
    <2>11. cutShort \in BOOLEAN
      BY DEF SurfaceTypes
    <2> QED BY <2>1, <2>3, <2>4, <2>5, <2>6, <2>7, <2>10, <2>11, CommandStep
  <1> QED BY <1>1, <1>2


\* A step of a command within the surface.
LEMMA SurfaceStep ==
    ASSUME StagingInv, NEW p \in Humans, users[p].stage \in SurfaceStages, users'[p].stage \in SurfaceStages,
           UNCHANGED <<deployment, manifest, unsynced, cutShort, holder, markers>>,
           users' \in [Humans -> UserRecords], \A q \in Humans \ {p} : users'[q] = users[q],
           files' \in [Names -> {"absent", "ours", "theirs", "installed"}],
           CommandShape(p)', Relies(p)'
    PROVE  StagingInv'
  <1> USE DEF StagingInv
  <1>1. DeploymentTypes' /\ CommandTypes'
    BY DEF DeploymentTypes, CommandTypes, deployment
  <1>2. SurfaceTypes'
    BY DEF SurfaceTypes, Names, Scripts
  <1>3. DeploymentInv'
    BY DEF DeploymentInv, ShapeInv, PendingInv, RecordInv, ReferencesKnown, EnvironmentsApart, GuardResumable,
           Found, deployment
  <1>4. SurfaceAgrees'
    BY DEF SurfaceAgrees, Found, SurfaceNames, deployment, SurfaceStages
  <1>5. LockInv'
    BY KeepsLock, LockedStage
  <1>6. ASSUME NEW q \in Humans \ {p}
        PROVE  CommandShape(q)' /\ Relies(q)'
    <2>1. users'[q].stage \notin LockedStages
      BY LockIsOne, LockedStage
    <2> QED BY <2>1, UnlockedReliesNext DEF CommandShape
  <1> QED BY <1>1, <1>2, <1>3, <1>4, <1>5, <1>6

LEMMA WriteFileFits ==
    ASSUME StagingInv, NEW p \in Humans, WriteFile(p)
    PROVE  StagingInv'
  <1> USE DEF StagingInv
  <1>1. users[p].stage = "write"
        /\ UNCHANGED <<deployment, manifest, unsynced, cutShort, holder, markers>>
    BY DEF WriteFile, Stands
  <1>2. PICK n \in users[p].plan.write :
          /\ files' = [files EXCEPT ![n] = "ours"]
          /\ users' = [users EXCEPT ![p].plan.write = @ \ {n},
                                    ![p].stage = IF users[p].plan.write = {n} THEN "sweep" ELSE @]
    BY DEF WriteFile
  <1>3. /\ users' \in [Humans -> UserRecords] /\ users'[p].stage \in {"write", "sweep"}
        /\ users'[p].plan.write \subseteq users[p].plan.write
        /\ users'[p].plan.remove = users[p].plan.remove
        /\ users'[p].cmd = users[p].cmd /\ users'[p].doc = users[p].doc
        /\ \A q \in Humans \ {p} : users'[q] = users[q]
    <2> DEFINE next == IF users[p].plan.write = {n} THEN "sweep" ELSE users[p].stage
    <2>1. next \in {"write", "sweep"} /\ next \in StagedStages
      BY <1>1 DEF StagedStages, LockedStages, SurfaceStages
    <2>2. users[p] \in UserRecords /\ users \in [Humans -> UserRecords]
      BY DEF CommandTypes
    <2>3. users[p].plan \in [write : SUBSET Names, remove : SUBSET Names]
      BY <2>2 DEF UserRecords
    <2> DEFINE rest == [users[p].plan EXCEPT !.write = @ \ {n}]
    <2>4. /\ rest \in [write : SUBSET Names, remove : SUBSET Names]
          /\ rest.write \subseteq users[p].plan.write /\ rest.remove = users[p].plan.remove
      BY <2>3
    <2>5. users' = [users EXCEPT ![p] = [users[p] EXCEPT !.plan = rest, !.stage = next]]
      BY <1>2, <2>2 DEF UserRecords
    <2> HIDE DEF next, rest
    <2>6. /\ users'[p] = [users[p] EXCEPT !.plan = rest, !.stage = next]
          /\ \A q \in Humans \ {p} : users'[q] = users[q]
      BY <2>2, <2>5
    <2>7. users'[p] \in UserRecords
      BY <2>1, <2>2, <2>4, <2>6 DEF UserRecords
    <2> QED BY <2>1, <2>2, <2>4, <2>5, <2>6, <2>7 DEF UserRecords
  <1>4. n \in Names /\ n \in SurfaceNames(staging.doc)
    BY <1>1 DEF CommandTypes, UserRecords, Relies, SurfaceStages
  <1>5. files' \in [Names -> {"absent", "ours", "theirs", "installed"}]
    BY <1>2 DEF SurfaceTypes
  <1>6. CommandShape(p)'
    BY <1>3 DEF CommandShape, ReplaceStages, RecoveryStages
  <1>7. Relies(p)'
    <2>1. staging' = staging /\ SurfaceNames(staging.doc)' = SurfaceNames(staging.doc)
      BY <1>1 DEF deployment, SurfaceNames
    <2>2. /\ staging.shape = "state" /\ users[p].plan.write \subseteq SurfaceNames(staging.doc)
          /\ ~cutShort => \A m \in Names : files[m] = "ours" =>
               m \in SurfaceNames(staging.doc) \cup users[p].plan.remove
      BY <1>1 DEF Relies, SurfaceStages
    <2>3. ~cutShort' => \A m \in Names' : files'[m] = "ours" =>
             m \in SurfaceNames(staging.doc) \cup users'[p].plan.remove
      BY <1>1, <1>2, <1>3, <1>4, <2>2 DEF SurfaceTypes, Names, Scripts
    <2> QED BY <1>3, <2>1, <2>2, <2>3 DEF Relies, SurfaceStages
  <1>8. users[p].stage \in SurfaceStages /\ users'[p].stage \in SurfaceStages
    BY <1>1, <1>3 DEF SurfaceStages
  <1> QED BY <1>1, <1>3, <1>5, <1>6, <1>7, <1>8, SurfaceStep

LEMMA SweepFileFits ==
    ASSUME StagingInv, NEW p \in Humans, SweepFile(p)
    PROVE  StagingInv'
  <1> USE DEF StagingInv
  <1>1. users[p].stage = "sweep" /\ UNCHANGED <<deployment, manifest, unsynced>>
    BY DEF SweepFile, Stands
  <1>2. /\ staging.shape = "state" /\ users[p].plan.write \subseteq SurfaceNames(staging.doc)
        /\ ~cutShort => \A m \in Names : files[m] = "ours" =>
             m \in SurfaceNames(staging.doc) \cup users[p].plan.remove
    BY <1>1 DEF Relies, SurfaceStages
  <1>3. staging' = staging /\ SurfaceNames(staging.doc)' = SurfaceNames(staging.doc)
    BY <1>1 DEF deployment, SurfaceNames
  <1>4. users[p].stage \in SurfaceStages /\ "list" \in StagedStages
    BY <1>1 DEF SurfaceStages, StagedStages, LockedStages
  <1>5. CASE users[p].plan.remove = {}
    <2>1. To(p, "list") /\ UNCHANGED <<files, cutShort, holder, markers>>
      BY <1>5 DEF SweepFile, Moves
    <2>2. /\ users' \in [Humans -> UserRecords] /\ users'[p].stage = "list" /\ users'[p].plan = users[p].plan
          /\ users'[p].cmd = users[p].cmd /\ users'[p].doc = users[p].doc
          /\ \A q \in Humans \ {p} : users'[q] = users[q]
      BY <1>4, <2>1, MoveEffect
    <2>3. CommandShape(p)'
      BY <2>2 DEF CommandShape, ReplaceStages, RecoveryStages
    <2>4. Relies(p)'
      BY <1>2, <1>3, <1>5, <2>1, <2>2 DEF Relies, SurfaceStages, Names, Scripts
    <2>5. users'[p].stage \in SurfaceStages /\ files' \in [Names -> {"absent", "ours", "theirs", "installed"}]
      BY <2>1, <2>2 DEF SurfaceStages, SurfaceTypes
    <2> QED BY <1>1, <1>4, <2>1, <2>2, <2>3, <2>4, <2>5, SurfaceStep
  <1>6. CASE users[p].plan.remove # {}
    <2>1. PICK n \in users[p].plan.remove :
            IF files[n] \in {"absent", "ours"}
            THEN /\ files' = [files EXCEPT ![n] = "absent"]
                 /\ users' = [users EXCEPT ![p].plan.remove = @ \ {n}]
                 /\ UNCHANGED <<holder, markers, given, mishaps, cutShort>>
            ELSE Quits(p) /\ UNCHANGED <<files, mishaps>>
      BY <1>6 DEF SweepFile
    <2>2. CASE files[n] \notin {"absent", "ours"}
      BY <1>1, <2>1, <2>2, QuitFits DEF surface
    <2>3. CASE files[n] \in {"absent", "ours"}
      <3>1. /\ files' = [files EXCEPT ![n] = "absent"]
            /\ users' = [users EXCEPT ![p].plan.remove = @ \ {n}]
            /\ UNCHANGED <<holder, markers, cutShort>>
        BY <2>1, <2>3
      <3>2. /\ users' \in [Humans -> UserRecords] /\ users'[p].stage = "sweep"
            /\ users'[p].plan.write = users[p].plan.write
            /\ users'[p].plan.remove = users[p].plan.remove \ {n}
            /\ users'[p].cmd = users[p].cmd /\ users'[p].doc = users[p].doc
            /\ \A q \in Humans \ {p} : users'[q] = users[q]
        <4> DEFINE rest == [users[p].plan EXCEPT !.remove = @ \ {n}]
                   next == [users[p] EXCEPT !.plan = rest]
        <4>1. users \in [Humans -> UserRecords] /\ users[p] \in UserRecords
          BY DEF CommandTypes
        <4>2. users[p].plan \in [write : SUBSET Names, remove : SUBSET Names]
          BY <4>1 DEF UserRecords
        <4>3. /\ rest \in [write : SUBSET Names, remove : SUBSET Names]
              /\ rest.write = users[p].plan.write /\ rest.remove = users[p].plan.remove \ {n}
          BY <4>2
        <4>4. users' = [users EXCEPT ![p] = next]
          BY <3>1, <4>1
        <4> HIDE DEF rest
        <4>5. /\ next \in UserRecords /\ next.stage = users[p].stage /\ next.plan = rest
              /\ next.cmd = users[p].cmd /\ next.doc = users[p].doc
          BY <4>1, <4>3 DEF UserRecords
        <4> HIDE DEF next
        <4> QED BY <1>1, <4>1, <4>3, <4>4, <4>5
      <3>3. CommandShape(p)'
        BY <3>2 DEF CommandShape, ReplaceStages, RecoveryStages
      <3>4. n \in Names
        BY DEF CommandTypes, UserRecords
      <3>5. files' \in [Names -> {"absent", "ours", "theirs", "installed"}]
        BY <3>1 DEF SurfaceTypes
      <3>6. ~cutShort' => \A m \in Names' : files'[m] = "ours" =>
               m \in SurfaceNames(staging.doc) \cup users'[p].plan.remove
        BY <1>2, <3>1, <3>2, <3>4 DEF SurfaceTypes, Names, Scripts
      <3>7. Relies(p)'
        BY <1>2, <1>3, <3>2, <3>6 DEF Relies, SurfaceStages
      <3>8. users'[p].stage \in SurfaceStages
        BY <3>2 DEF SurfaceStages
      <3> QED BY <1>1, <1>4, <3>1, <3>2, <3>3, <3>5, <3>7, <3>8, SurfaceStep
    <2> QED BY <2>2, <2>3
  <1> QED BY <1>5, <1>6

\* The manifest ends the surface: every file that was written is in it.
LEMMA WriteManifestFits ==
    ASSUME StagingInv, NEW p \in Humans, WriteManifest(p)
    PROVE  StagingInv'
  <1> USE DEF StagingInv
  <1>1. /\ users[p].stage = "list" /\ manifest' = SurfaceNames(staging.doc) /\ unsynced' = FALSE
        /\ users' = [users EXCEPT ![p] = NoCommand] /\ holder' = Free
        /\ UNCHANGED <<deployment, files, markers, cutShort>>
    BY DEF WriteManifest, Stands
  <1>2. /\ staging.shape = "state" /\ users[p].plan.remove = {}
        /\ ~cutShort => \A m \in Names : files[m] = "ours" => m \in SurfaceNames(staging.doc)
    BY <1>1 DEF Relies, SurfaceStages
  <1>3. users[p].stage \in LockedStages /\ "list" \in SurfaceStages
    BY <1>1 DEF LockedStages, SurfaceStages
  <1>4. NoCommand \in UserRecords /\ NoCommand.stage \notin LockedStages /\ NoCommand.stage = "idle"
        /\ NoCommand.cmd = "none"
    BY DEF NoCommand, UserRecords, NoStaging, StagingRecords, NoRecord, ValidatedRecords, NoSurfacePlan,
           Generation, StagedStages, LockedStages, SurfaceStages, ReplaceStages, RecoveryStages, RemovalStages
  <1>5. CommandTypes' /\ users'[p] = NoCommand /\ \A q \in Humans \ {p} : users'[q] = users[q]
    BY <1>1, <1>4 DEF CommandTypes
  <1>6. \A q \in Humans : users'[q].stage \notin LockedStages
    BY <1>3, <1>4, <1>5, LockIsOne
  <1>7. LockInv'
    BY <1>1, <1>6 DEF LockInv, Humans, Free
  <1>8. SurfaceTypes'
    BY <1>1, <1>2, SurfaceNamesTyped DEF SurfaceTypes, DeploymentInv, ShapeInv, Names, Scripts
  <1>9. DeploymentTypes'
    BY <1>1 DEF DeploymentTypes, deployment
  <1>10. DeploymentInv'
    BY <1>1 DEF DeploymentInv, ShapeInv, PendingInv, RecordInv, ReferencesKnown, EnvironmentsApart,
                GuardResumable, Found, deployment
  <1>11. SurfaceAgrees'
    <2>1. staging' = staging
      BY <1>1 DEF deployment
    <2> QED BY <1>1, <1>2, <2>1 DEF SurfaceAgrees, SurfaceNames, Names, Scripts
  <1>12. ASSUME NEW q \in Humans
         PROVE  CommandShape(q)' /\ Relies(q)'
    BY <1>4, <1>5, <1>6, UnlockedReliesNext DEF CommandShape, ReplaceStages, RecoveryStages
  <1> QED BY <1>5, <1>7, <1>8, <1>9, <1>10, <1>11, <1>12

\* Somebody edits a file, whatever is going on.
LEMMA ForeignEditFits ==
    ASSUME StagingInv, NEW n \in Names, ForeignEdit(n)
    PROVE  StagingInv'
  <1> USE DEF StagingInv
  <1>1. /\ files' = [files EXCEPT ![n] = "theirs"]
        /\ UNCHANGED <<deployment, manifest, users, holder, markers, unsynced, cutShort>>
    BY DEF ForeignEdit
  <1>2. /\ files' \in [Names -> {"absent", "ours", "theirs", "installed"}]
        /\ \A m \in Names : files'[m] = "ours" => files[m] = "ours"
    BY <1>1 DEF SurfaceTypes
  <1>3. DeploymentTypes' /\ CommandTypes' /\ LockInv'
    BY <1>1 DEF DeploymentTypes, CommandTypes, LockInv, deployment
  <1>4. SurfaceTypes'
    BY <1>1, <1>2 DEF SurfaceTypes, Names, Scripts
  <1>5. DeploymentInv'
    BY <1>1 DEF DeploymentInv, ShapeInv, PendingInv, RecordInv, ReferencesKnown, EnvironmentsApart,
                GuardResumable, Found, deployment
  <1>6. SurfaceAgrees'
    BY <1>1, <1>2 DEF SurfaceAgrees, Found, SurfaceNames, deployment, Names, Scripts
  <1>7. ASSUME NEW q \in Humans
        PROVE  CommandShape(q)' /\ Relies(q)'
    BY <1>1, <1>2 DEF CommandShape, Relies, SurfaceNames, deployment, Names, Scripts
  <1> QED BY <1>3, <1>4, <1>5, <1>6, <1>7


-----------------------------------------------------------------------------
(* Builds and the workload                                                  *)

\* A generation that was not built yet is nobody's, and not 0.
LEMMA FreshIsNew ==
    ASSUME StagingInv, NEW i \in Fresh
    PROVE  /\ i \in Images /\ i # 0 /\ madeFor[i] = "none"
           /\ i # validated.image /\ (staging.shape # "none" => i # staging.image /\ i # serving)
  <1> USE DEF StagingInv
  <1>1. i \in Images /\ i # 0 /\ madeFor[i] = "none"
    BY StagedBounds DEF Fresh
  <1>2. i # validated.image
    BY <1>1 DEF DeploymentInv, RecordInv
  <1>3. ASSUME staging.shape # "none"
        PROVE  i # staging.image /\ i # serving
    <2>1. DocEnv[staging.doc] # "none"
      BY <1>3, StagedBounds DEF DeploymentInv, ShapeInv
    <2> QED BY <1>1, <2>1 DEF DeploymentInv, EnvironmentsApart
  <1> QED BY <1>1, <1>2, <1>3

\* The environment a generation was built for, noted.
LEMMA Labelled ==
    ASSUME StagingInv, staging.shape = "state", NEW i \in Fresh,
           madeFor' = [madeFor EXCEPT ![i] = DocEnv[staging.doc]]
    PROVE  /\ madeFor' \in [Images -> {"none"} \cup {DocEnv[d] : d \in Docs}]
           /\ madeFor'[i] = DocEnv[staging.doc] /\ madeFor'[i] # "none"
           /\ \A j \in Images \ {i} : madeFor'[j] = madeFor[j]
  <1>1. staging.doc \in Docs /\ DocEnv[staging.doc] # "none"
    BY StagedBounds DEF StagingInv, DeploymentInv, ShapeInv
  <1>2. i \in Images
    BY DEF Fresh
  <1> QED BY <1>1, <1>2 DEF StagingInv, DeploymentTypes

\* What recovery of a pending publication leaves.
LEMMA RecoveredIntent ==
    ASSUME StagingInv, intent.kind # "none", RecoverIntent, UNCHANGED <<staging, validated, madeFor, serving>>
    PROVE  /\ DeploymentTypes' /\ DeploymentInv' /\ intent' = NoIntent /\ images' \subseteq images
           /\ staging.shape = "state"
  <1> USE DEF StagingInv
  <1>1. images' \subseteq images /\ intent' = NoIntent
    BY DEF RecoverIntent
  <1>2. DeploymentTypes'
    BY <1>1 DEF DeploymentTypes, NoIntent, IntentRecords, Generation
  <1>3. staging.shape = "state"
    BY DEF DeploymentInv, ShapeInv, DeploymentTypes, StagingRecords, NoIntent
  <1>4. ShapeInv' /\ PendingInv' /\ RecordInv'
    BY <1>1, <1>3 DEF DeploymentInv, ShapeInv, PendingInv, RecordInv, NoIntent
  <1>5. ReferencesKnown'
    <2>1. 0 \notin images
      BY StagedBounds DEF DeploymentTypes
    <2>2. CASE intent.kind = "current"
      <3>1. staging.image \in {intent.image, intent.old}
        BY <2>2 DEF DeploymentInv, PendingInv
      <3>2. images' = IF staging.image = intent.image THEN images \ {intent.old} ELSE images \ {intent.image}
        BY <2>2 DEF RecoverIntent
      <3> QED BY <3>1, <3>2 DEF ReferencesKnown, DeploymentInv
    <2>3. CASE intent.kind = "validated"
      <3>1. images' = IF validated.image = intent.image THEN images ELSE images \ {intent.image}
        BY <2>3 DEF RecoverIntent
      <3>2. IF validated.image = intent.image THEN intent.old \in images => intent.old \in validated.cleanup
            ELSE validated.image = intent.old
        BY <2>3 DEF DeploymentInv, PendingInv
      <3> QED BY <3>1, <3>2 DEF ReferencesKnown, DeploymentInv
    <2> QED BY <2>2, <2>3 DEF DeploymentTypes, IntentRecords
  <1>6. EnvironmentsApart' /\ GuardResumable'
    BY <1>1 DEF EnvironmentsApart, GuardResumable, Found, DeploymentInv, NoIntent
  <1> QED BY <1>1, <1>2, <1>3, <1>4, <1>5, <1>6 DEF DeploymentInv

LEMMA BuildRecoversFits ==
    ASSUME StagingInv, BuildRecovers
    PROVE  StagingInv'
  BY RecoveredIntent, FreeStep DEF BuildRecovers

LEMMA BuildFits ==
    ASSUME StagingInv, NEW i \in Images, Build(i)
    PROVE  StagingInv'
  <1> USE DEF StagingInv
  <1>1. /\ holder = Free /\ staging.shape = "state" /\ ~staging.guard /\ intent.kind = "none" /\ i \in Fresh
        /\ madeFor' = [madeFor EXCEPT ![i] = DocEnv[staging.doc]]
        /\ UNCHANGED <<validated, serving>> /\ Elsewhere
    BY DEF Build
  <1>2. /\ i # 0 /\ i # validated.image /\ i # staging.image /\ i # serving
        /\ madeFor'[i] = DocEnv[staging.doc] /\ \A j \in Images \ {i} : madeFor'[j] = madeFor[j]
        /\ madeFor' \in [Images -> {"none"} \cup {DocEnv[d] : d \in Docs}]
    BY <1>1, FreshIsNew, Labelled
  <1>3. /\ staging' \in {staging, [staging EXCEPT !.image = i]}
        /\ \/ /\ staging'.image = i /\ images' = (images \ {staging.image}) \cup {i} /\ intent' = intent
           \/ /\ images' = images \cup {i}
              /\ intent' = [kind |-> "current", image |-> i, old |-> staging.image]
    BY DEF Build, DeploymentTypes, StagingRecords
  <1>4. /\ staging' \in StagingRecords /\ staging'.shape = staging.shape /\ staging'.doc = staging.doc
        /\ staging'.guard = staging.guard /\ staging'.image \in {staging.image, i}
    BY <1>3 DEF DeploymentTypes, StagingRecords, Generation
  <1>5. images' \subseteq images \cup {i} /\ intent' \in IntentRecords
    BY <1>3 DEF DeploymentTypes, IntentRecords, StagingRecords, Generation
  <1>6. DeploymentTypes'
    BY <1>1, <1>2, <1>4, <1>5 DEF DeploymentTypes
  <1>7. ShapeInv'
    BY <1>1, <1>4 DEF DeploymentInv, ShapeInv
  <1>8. PendingInv'
    BY <1>1, <1>3, <1>4 DEF DeploymentInv, PendingInv, NoIntent
  <1>9. RecordInv'
    BY <1>1, <1>2, <1>5 DEF DeploymentInv, RecordInv, DeploymentTypes, ValidatedRecords, Generation
  <1>10. ReferencesKnown'
    <2>1. intent = NoIntent /\ 0 \notin images
      BY <1>1, StagedBounds DEF DeploymentInv, PendingInv, DeploymentTypes
    <2>2. images \subseteq {staging.image, validated.image} \cup validated.cleanup
      BY <2>1 DEF DeploymentInv, ReferencesKnown, NoIntent
    <2> QED BY <1>1, <1>3, <1>4, <2>2 DEF ReferencesKnown
  <1>11. EnvironmentsApart'
    BY <1>1, <1>2, <1>4 DEF DeploymentInv, EnvironmentsApart, Found, DeploymentTypes, StagingRecords,
                            ValidatedRecords, Generation
  <1>12. GuardResumable'
    BY <1>1, <1>4 DEF GuardResumable
  <1> QED BY <1>1, <1>4, <1>6, <1>7, <1>8, <1>9, <1>10, <1>11, <1>12, FreeStep DEF DeploymentInv

LEMMA ValidateFits ==
    ASSUME StagingInv, NEW i \in Images, Validate(i)
    PROVE  StagingInv'
  <1> USE DEF StagingInv
  <1> DEFINE old == IF validated.discarded THEN {} ELSE {validated.image} \ {0}
             next == [image |-> i, discarded |-> FALSE, cleanup |-> validated.cleanup \cup old]
  <1>1. /\ holder = Free /\ staging.shape = "state" /\ ~staging.guard /\ intent.kind = "none" /\ i \in Fresh
        /\ madeFor' = [madeFor EXCEPT ![i] = DocEnv[staging.doc]]
        /\ images' = images \cup {i}
        /\ UNCHANGED <<staging, serving>> /\ Elsewhere
    BY DEF Validate
  <1>2. /\ i # 0 /\ i # validated.image /\ i # staging.image /\ i # serving
        /\ madeFor'[i] = DocEnv[staging.doc] /\ \A j \in Images \ {i} : madeFor'[j] = madeFor[j]
        /\ madeFor'[i] # "none"
        /\ madeFor' \in [Images -> {"none"} \cup {DocEnv[d] : d \in Docs}]
    BY <1>1, FreshIsNew, Labelled
  <1>3. \/ validated' = next /\ intent' = intent
        \/ /\ intent' = [kind |-> "validated", image |-> i, old |-> validated.image]
           /\ validated' \in {validated, next}
    BY DEF Validate
  <1>4. next \in ValidatedRecords /\ next.image = i /\ next.discarded = FALSE
        /\ next.cleanup = validated.cleanup \cup old
    BY DEF DeploymentTypes, ValidatedRecords, Generation
  <1>5. 0 \notin images /\ (validated.image \in images => validated.image \in validated.cleanup \cup old)
    BY StagedBounds DEF DeploymentTypes, DeploymentInv, RecordInv
  <1> HIDE DEF next, old
  <1>6. DeploymentTypes'
    BY <1>1, <1>2, <1>3, <1>4 DEF DeploymentTypes, IntentRecords, ValidatedRecords, Generation
  <1>7. ShapeInv'
    BY <1>1 DEF DeploymentInv, ShapeInv
  <1>8. PendingInv'
    BY <1>1, <1>2, <1>3, <1>4, <1>5 DEF DeploymentInv, PendingInv
  <1>9. RecordInv'
    BY <1>1, <1>2, <1>3, <1>4 DEF DeploymentInv, RecordInv, DeploymentTypes, ValidatedRecords, Generation
  <1>10. ReferencesKnown'
    <2>1. intent = NoIntent
      BY <1>1 DEF DeploymentInv, PendingInv
    <2>2. images \subseteq {staging.image, validated.image} \cup validated.cleanup
      BY <1>5, <2>1 DEF DeploymentInv, ReferencesKnown, NoIntent
    <2> QED BY <1>1, <1>3, <1>4, <1>5, <2>2 DEF ReferencesKnown
  <1>11. EnvironmentsApart'
    BY <1>1, <1>2, <1>3, <1>4 DEF DeploymentInv, EnvironmentsApart, Found, DeploymentTypes, StagingRecords,
                                  ValidatedRecords, Generation
  <1>12. GuardResumable'
    BY <1>1 DEF GuardResumable
  <1> QED BY <1>1, <1>6, <1>7, <1>8, <1>9, <1>10, <1>11, <1>12, FreeStep DEF DeploymentInv

LEMMA StartStagedFits ==
    ASSUME StagingInv, StartStaged
    PROVE  StagingInv'
  <1> USE DEF StagingInv
  <1>1. /\ holder = Free /\ staging.shape = "state" /\ staging.image \in images /\ serving' = staging.image
        /\ UNCHANGED <<staging, validated, intent, images, madeFor>> /\ Elsewhere
    BY DEF StartStaged
  <1>2. DeploymentTypes'
    BY <1>1 DEF DeploymentTypes, StagingRecords
  <1>3. DeploymentInv'
    BY <1>1 DEF DeploymentInv, ShapeInv, PendingInv, RecordInv, ReferencesKnown, EnvironmentsApart,
                GuardResumable, Found
  <1> QED BY <1>1, <1>2, <1>3, FreeStep


-----------------------------------------------------------------------------
(* Replacement, recovery and removal                                        *)

\* A move of the holder of the lock that changes the deployment.
LEMMA HolderMoves ==
    ASSUME StagingInv, NEW p \in Humans, NEW from \in LockedStages \ SurfaceStages,
           NEW to \in LockedStages \ SurfaceStages, Moves(p, from, to),
           UNCHANGED <<surface, unsynced, cutShort>>, staging'.doc = staging.doc,
           staging'.shape = staging.shape, DeploymentTypes', DeploymentInv', CommandShape(p)', Relies(p)'
    PROVE  StagingInv'
  <1> USE DEF StagingInv
  <1>1. users[p].stage = from /\ To(p, to) /\ UNCHANGED <<holder, markers>>
    BY DEF Moves, Stands
  <1>2. to \in StagedStages
    BY LockedStage
  <1>3. /\ CommandTypes' /\ users'[p].stage = to /\ \A q \in Humans \ {p} : users'[q] = users[q]
    BY <1>1, <1>2, MoveEffect DEF CommandTypes
  <1>4. LockInv'
    BY <1>1, <1>3, KeepsLock
  <1>5. unsynced' \in BOOLEAN
        /\ (staging'.shape = "none" \/ (unsynced' = unsynced /\ staging'.doc = staging.doc /\ Found))
    BY DEF SurfaceTypes, Found
  <1> QED BY <1>1, <1>3, <1>4, <1>5, HolderStep

LEMMA MovedCommand ==
    ASSUME StagingInv, NEW p \in Humans, NEW from, NEW to \in StagedStages, Moves(p, from, to)
    PROVE  /\ users[p].stage = from /\ users'[p].stage = to /\ users'[p].cmd = users[p].cmd
           /\ users'[p].doc = users[p].doc /\ users'[p].saw = users[p].saw
  BY MoveEffect DEF Moves, Stands, StagingInv

LEMMA SettleFits ==
    ASSUME StagingInv, NEW p \in Humans, NEW from, NEW to, Settle(p, from, to),
           \/ from = "r-settle" /\ to = "r-note"
           \/ from = "r-settle2" /\ to = "r-recheck"
           \/ from = "d-settle" /\ to = "d-admit"
           \/ from = "d-settle2" /\ to = "d-note" /\ staging.shape = "state"
    PROVE  StagingInv'
  <1> USE DEF StagingInv
  <1>1. /\ Moves(p, from, to) /\ UNCHANGED <<staging, validated, madeFor, serving>>
        /\ UNCHANGED <<surface, unsynced, cutShort>>
    BY DEF Settle
  <1>2. DeploymentTypes' /\ DeploymentInv' /\ intent' = NoIntent
    <2>1. CASE intent.kind = "none"
      <3>1. UNCHANGED <<intent, images>> /\ intent = NoIntent
        BY <2>1 DEF Settle, DeploymentInv, PendingInv
      <3>2. DeploymentTypes'
        BY <1>1, <3>1 DEF DeploymentTypes
      <3>3. DeploymentInv'
        BY <1>1, <3>1 DEF DeploymentInv, ShapeInv, PendingInv, RecordInv, ReferencesKnown, EnvironmentsApart,
                          GuardResumable, Found
      <3> QED BY <3>1, <3>2, <3>3
    <2>2. CASE intent.kind # "none"
      BY <1>1, <2>2, RecoveredIntent DEF Settle
    <2> QED BY <2>1, <2>2
  <1>3. /\ from \in LockedStages \ SurfaceStages /\ to \in LockedStages \ SurfaceStages
        /\ to \in StagedStages
    BY DEF LockedStages, StagedStages, SurfaceStages, ReplaceStages, RemovalStages
  <1>4. /\ users[p].stage = from /\ users'[p].stage = to /\ users'[p].cmd = users[p].cmd
        /\ users'[p].doc = users[p].doc
    BY <1>1, <1>3, MovedCommand
  <1>5. CommandShape(p)'
    BY <1>4 DEF CommandShape, ReplaceStages, RecoveryStages
  <1>6. Relies(p)'
    BY <1>1, <1>2, <1>4 DEF Relies, SurfaceStages
  <1> QED BY <1>1, <1>2, <1>3, <1>5, <1>6, HolderMoves

LEMMA StopFits ==
    ASSUME StagingInv, NEW p \in Humans, NEW from, NEW to, Stop(p, from, to),
           \/ from = "r-stop" /\ to = "r-discard"
           \/ from = "l-stop" /\ to = "l-retire"
           \/ from = "d-stop" /\ to = "d-discard"
    PROVE  StagingInv'
  <1> USE DEF StagingInv
  <1>1. /\ Moves(p, from, to) /\ serving' = 0 /\ UNCHANGED <<staging, validated, intent, images, madeFor>>
        /\ UNCHANGED <<surface, unsynced, cutShort>>
    BY DEF Stop
  <1>2. DeploymentTypes'
    BY <1>1 DEF DeploymentTypes, Generation
  <1>3. DeploymentInv'
    BY <1>1 DEF DeploymentInv, ShapeInv, PendingInv, RecordInv, ReferencesKnown, EnvironmentsApart,
                GuardResumable, Found
  <1>4. /\ from \in LockedStages \ SurfaceStages /\ to \in LockedStages \ SurfaceStages
        /\ to \in StagedStages
    BY DEF LockedStages, StagedStages, SurfaceStages, ReplaceStages, RecoveryStages, RemovalStages
  <1>5. /\ users[p].stage = from /\ users'[p].stage = to /\ users'[p].cmd = users[p].cmd
        /\ users'[p].doc = users[p].doc /\ users'[p].saw = users[p].saw
    BY <1>1, <1>4, MovedCommand
  <1>6. CommandShape(p)'
    BY <1>5 DEF CommandShape, ReplaceStages, RecoveryStages
  <1>7. Relies(p)'
    BY <1>1, <1>5 DEF Relies, SurfaceStages
  <1> QED BY <1>1, <1>2, <1>3, <1>4, <1>6, <1>7, HolderMoves

\* A step of the holder that stays at its stage.
LEMMA HolderStays ==
    ASSUME StagingInv, NEW p \in Humans, users[p].stage \in LockedStages \ SurfaceStages,
           UNCHANGED <<users, holder, markers, surface, unsynced, cutShort, staging>>,
           DeploymentTypes', DeploymentInv', Relies(p)'
    PROVE  StagingInv'
  <1> USE DEF StagingInv
  <1>1. CommandTypes' /\ LockInv' /\ CommandShape(p)'
    BY DEF CommandTypes, LockInv, CommandShape
  <1>2. unsynced' \in BOOLEAN
        /\ (staging'.shape = "none" \/ (unsynced' = unsynced /\ staging'.doc = staging.doc /\ Found))
    BY DEF SurfaceTypes, Found
  <1> QED BY <1>1, <1>2, HolderStep

LEMMA DiscardFits ==
    ASSUME StagingInv, NEW p \in Humans, NEW from \in {"r-discard", "d-discard"}, Discard(p, from)
    PROVE  StagingInv'
  <1> USE DEF StagingInv
  <1>1. /\ users[p].stage = from /\ validated.image # 0
        /\ validated' = [validated EXCEPT !.discarded = TRUE, !.cleanup = @ \cup {validated.image}]
        /\ UNCHANGED <<staging, intent, images, madeFor, serving>>
        /\ UNCHANGED <<users, holder, markers, surface, unsynced, cutShort, staging>>
    BY DEF Discard, Stands, process
  <1>2. /\ validated' \in ValidatedRecords /\ validated'.image = validated.image /\ validated'.discarded
        /\ validated'.cleanup = validated.cleanup \cup {validated.image}
    BY <1>1 DEF DeploymentTypes, ValidatedRecords, Generation
  <1>3. DeploymentTypes'
    BY <1>1, <1>2 DEF DeploymentTypes
  <1>4. intent = NoIntent
    BY <1>1 DEF Relies, DeploymentInv, GuardResumable, PendingInv
  <1>5. ShapeInv'
    BY <1>1 DEF DeploymentInv, ShapeInv, NoRecord
  <1>6. PendingInv' /\ RecordInv' /\ ReferencesKnown'
    BY <1>1, <1>2, <1>4 DEF DeploymentInv, PendingInv, RecordInv, ReferencesKnown, NoIntent
  <1>7. EnvironmentsApart' /\ GuardResumable'
    BY <1>1, <1>2 DEF DeploymentInv, EnvironmentsApart, GuardResumable, Found
  <1>8. Relies(p)'
    BY <1>1 DEF Relies, SurfaceStages
  <1>9. users[p].stage \in LockedStages \ SurfaceStages
    BY <1>1 DEF LockedStages, SurfaceStages, ReplaceStages, RemovalStages
  <1> QED BY <1>1, <1>3, <1>5, <1>6, <1>7, <1>8, <1>9, HolderStays DEF DeploymentInv

LEMMA DropValidatedImageFits ==
    ASSUME StagingInv, NEW p \in Humans, NEW from \in {"r-discard", "d-discard"}, DropValidatedImage(p, from)
    PROVE  StagingInv'
  <1> USE DEF StagingInv
  <1>1. /\ users[p].stage = from /\ validated.discarded
        /\ UNCHANGED <<staging, intent, madeFor, serving>>
        /\ UNCHANGED <<users, holder, markers, surface, unsynced, cutShort, staging>>
    BY DEF DropValidatedImage, Stands, process
  <1>2. PICK i \in validated.cleanup :
          images' = images \ {i} /\ validated' = [validated EXCEPT !.cleanup = @ \ {i}]
    BY DEF DropValidatedImage
  <1>3. /\ validated' \in ValidatedRecords /\ validated'.image = validated.image /\ validated'.discarded
        /\ validated'.cleanup = validated.cleanup \ {i}
    BY <1>1, <1>2 DEF DeploymentTypes, ValidatedRecords
  <1>4. DeploymentTypes'
    BY <1>1, <1>2, <1>3 DEF DeploymentTypes
  <1>5. intent = NoIntent
    BY <1>1 DEF Relies, DeploymentInv, GuardResumable, PendingInv
  <1>6. ShapeInv'
    BY <1>1, <1>2 DEF DeploymentInv, ShapeInv, NoRecord
  <1>7. PendingInv'
    BY <1>1, <1>5 DEF PendingInv, NoIntent
  <1>8. RecordInv'
    BY <1>1, <1>2, <1>3 DEF DeploymentInv, RecordInv, NoRecord
  <1>9. ReferencesKnown'
    BY <1>1, <1>2, <1>3 DEF DeploymentInv, ReferencesKnown
  <1>10. EnvironmentsApart' /\ GuardResumable'
    BY <1>1, <1>3 DEF DeploymentInv, EnvironmentsApart, GuardResumable, Found
  <1>11. Relies(p)'
    BY <1>1 DEF Relies, SurfaceStages
  <1>12. users[p].stage \in LockedStages \ SurfaceStages
    BY <1>1 DEF LockedStages, SurfaceStages, ReplaceStages, RemovalStages
  <1> QED BY <1>1, <1>4, <1>6, <1>7, <1>8, <1>9, <1>10, <1>11, <1>12, HolderStays DEF DeploymentInv

\* A retired record has no reference left.
LEMMA RetiredLeavesNothing ==
    ASSUME StagingInv, ValidatedRetired, intent = NoIntent
    PROVE  images \subseteq {staging.image} /\ 0 \notin images
  BY StagedBounds DEF StagingInv, DeploymentTypes, DeploymentInv, RecordInv, ReferencesKnown,
                      ValidatedRetired, NoRecord, NoIntent

LEMMA RemoveRecordFits ==
    ASSUME StagingInv, NEW p \in Humans, RemoveRecord(p)
    PROVE  StagingInv'
  <1> USE DEF StagingInv
  <1>1. /\ Moves(p, "r-discard", "r-retire") /\ ValidatedRetired /\ validated' = NoRecord
        /\ UNCHANGED <<staging, intent, images, madeFor, serving>>
        /\ UNCHANGED <<surface, unsynced, cutShort>>
    BY DEF RemoveRecord
  <1>2. /\ "r-discard" \in LockedStages \ SurfaceStages /\ "r-retire" \in LockedStages \ SurfaceStages
        /\ "r-retire" \in StagedStages
    BY DEF LockedStages, StagedStages, SurfaceStages, ReplaceStages
  <1>3. /\ users[p].stage = "r-discard" /\ users'[p].stage = "r-retire" /\ users'[p].cmd = users[p].cmd
        /\ users'[p].doc = users[p].doc /\ users'[p].saw = users[p].saw
    BY <1>1, <1>2, MovedCommand
  <1>4. intent = NoIntent /\ staging = users[p].saw /\ serving = 0
    BY <1>3 DEF Relies
  <1>5. images \subseteq {staging.image}
    BY <1>1, <1>4, RetiredLeavesNothing
  <1>6. DeploymentTypes'
    BY <1>1 DEF DeploymentTypes, NoRecord, ValidatedRecords, Generation
  <1>7. DeploymentInv'
    BY <1>1, <1>4, <1>5 DEF DeploymentInv, ShapeInv, PendingInv, RecordInv, ReferencesKnown,
                            EnvironmentsApart, GuardResumable, Found, NoRecord, NoIntent
  <1>8. CommandShape(p)'
    BY <1>3 DEF CommandShape, ReplaceStages, RecoveryStages
  <1>9. Relies(p)'
    BY <1>1, <1>3, <1>4 DEF Relies, SurfaceStages
  <1> QED BY <1>1, <1>2, <1>6, <1>7, <1>8, <1>9, HolderMoves

\* A reference that is no longer wanted goes.
LEMMA RetireFits ==
    ASSUME StagingInv, NEW p \in Humans, NEW from, NEW to, NEW image, Retire(p, from, to, image),
           UNCHANGED validated,
           \/ from = "r-retire" /\ to = "r-commit" /\ image = users[p].saw.image
           \/ from = "l-retire" /\ to = "l-commit" /\ image = users[p].saw.image
           \/ from = "d-discard" /\ to = "d-isolate" /\ image = staging.image /\ ValidatedRetired
    PROVE  StagingInv'
  <1> USE DEF StagingInv
  <1>1. /\ Moves(p, from, to) /\ images' = images \ {image}
        /\ UNCHANGED <<staging, validated, intent, madeFor, serving>>
        /\ UNCHANGED <<surface, unsynced, cutShort>>
    BY DEF Retire
  <1>2. /\ from \in LockedStages \ SurfaceStages /\ to \in LockedStages \ SurfaceStages
        /\ to \in StagedStages
    BY DEF LockedStages, StagedStages, SurfaceStages, ReplaceStages, RecoveryStages, RemovalStages
  <1>3. /\ users[p].stage = from /\ users'[p].stage = to /\ users'[p].cmd = users[p].cmd
        /\ users'[p].doc = users[p].doc /\ users'[p].saw = users[p].saw
    BY <1>1, <1>2, MovedCommand
  <1>4. DeploymentTypes'
    BY <1>1 DEF DeploymentTypes
  <1>5. DeploymentInv'
    BY <1>1 DEF DeploymentInv, ShapeInv, PendingInv, RecordInv, ReferencesKnown, EnvironmentsApart,
                GuardResumable, Found
  <1>6. CommandShape(p)'
    BY <1>3 DEF CommandShape, ReplaceStages, RecoveryStages
  <1>7. Relies(p)'
    <2>1. CASE from = "r-retire" /\ to = "r-commit" /\ image = users[p].saw.image
      <3>1. intent = NoIntent /\ staging = users[p].saw /\ serving = 0 /\ validated = NoRecord
        BY <1>3, <2>1 DEF Relies
      <3>2. images \subseteq {staging.image}
        BY <3>1, RetiredLeavesNothing DEF ValidatedRetired, NoRecord
      <3> QED BY <1>1, <1>3, <2>1, <3>1, <3>2 DEF Relies, SurfaceStages
    <2>2. CASE from = "l-retire" /\ to = "l-commit" /\ image = users[p].saw.image
      BY <1>1, <1>3, <2>2 DEF Relies, SurfaceStages
    <2>3. CASE from = "d-discard" /\ to = "d-isolate" /\ image = staging.image /\ ValidatedRetired
      <3>1. staging.guard /\ serving = 0
        BY <1>3, <2>3 DEF Relies
      <3>2. intent = NoIntent
        BY <3>1 DEF DeploymentInv, GuardResumable, PendingInv
      <3>3. images \subseteq {staging.image}
        BY <2>3, <3>2, RetiredLeavesNothing
      <3> QED BY <1>1, <1>3, <2>3, <3>1, <3>3 DEF Relies, SurfaceStages
    <2> QED BY <2>1, <2>2, <2>3
  <1> QED BY <1>1, <1>2, <1>4, <1>5, <1>6, <1>7, HolderMoves


LEMMA SettleAfterAdmissionFits ==
    ASSUME StagingInv, NEW p \in Humans, SettleAfterAdmission(p)
    PROVE  StagingInv'
  <1>1. Settle(p, "r-settle2", "r-recheck") \/ Refused(p)
    BY DEF SettleAfterAdmission
  <1> QED BY <1>1, SettleFits, RefusedFits

LEMMA SettleForRemovalFits ==
    ASSUME StagingInv, NEW p \in Humans, SettleForRemoval(p)
    PROVE  StagingInv'
  <1>1. (staging.shape = "state" /\ Settle(p, "d-settle2", "d-note")) \/ Refused(p)
    BY DEF SettleForRemoval
  <1> QED BY <1>1, SettleFits, RefusedFits

\* Only over the owners that were validated does a replacement go on.
LEMMA RecheckOwnersFits ==
    ASSUME StagingInv, NEW p \in Humans, RecheckOwners(p)
    PROVE  StagingInv'
  <1> USE DEF StagingInv
  <1>1. CASE Refused(p)
    BY <1>1, RefusedFits
  <1>2. CASE ~Refused(p)
    <2>1. /\ Moves(p, "r-recheck", "r-stop") /\ staging = users[p].saw
          /\ UNCHANGED <<deployment, surface, unsynced, cutShort>>
      BY <1>2 DEF RecheckOwners
    <2>2. /\ "r-recheck" \in LockedStages \ SurfaceStages /\ "r-stop" \in LockedStages \ SurfaceStages
          /\ "r-stop" \in StagedStages
      BY DEF LockedStages, StagedStages, SurfaceStages, ReplaceStages
    <2>3. /\ users[p].stage = "r-recheck" /\ users'[p].stage = "r-stop" /\ users'[p].cmd = users[p].cmd
          /\ users'[p].doc = users[p].doc /\ users'[p].saw = users[p].saw
      BY <2>1, <2>2, MovedCommand
    <2>4. DeploymentTypes'
      BY <2>1 DEF DeploymentTypes, deployment
    <2>5. DeploymentInv'
      BY <2>1 DEF DeploymentInv, ShapeInv, PendingInv, RecordInv, ReferencesKnown, EnvironmentsApart,
                  GuardResumable, Found, deployment
    <2>6. CommandShape(p)'
      BY <2>3 DEF CommandShape, ReplaceStages, RecoveryStages
    <2>7. Relies(p)'
      BY <2>1, <2>3 DEF Relies, SurfaceStages, deployment
    <2>8. staging'.doc = staging.doc /\ staging'.shape = staging.shape
      BY <2>1 DEF deployment
    <2> QED BY <2>1, <2>2, <2>4, <2>5, <2>6, <2>7, <2>8, HolderMoves
  <1> QED BY <1>1, <1>2

\* A directory that holds nothing of what it held gets a new, unbuilt state;
\* what may still run belongs to the same environment.
LEMMA UnbuiltState ==
    ASSUME StagingInv, NEW d \in Docs, staging' = [NoStaging EXCEPT !.shape = "state", !.doc = d],
           validated = NoRecord, intent = NoIntent, images = {},
           serving = 0 \/ (Found /\ DocEnv[d] = DocEnv[staging.doc]),
           UNCHANGED <<validated, intent, images, madeFor, serving>>
    PROVE  DeploymentTypes' /\ DeploymentInv'
  <1> USE DEF StagingInv
  <1>1. /\ staging' \in StagingRecords /\ staging'.shape = "state" /\ staging'.doc = d
        /\ staging'.image = 0 /\ staging'.guard = FALSE
    BY DEF NoStaging, StagingRecords, Generation
  <1>2. DeploymentTypes'
    BY <1>1 DEF DeploymentTypes
  <1>3. ShapeInv' /\ PendingInv' /\ RecordInv' /\ ReferencesKnown' /\ GuardResumable'
    BY <1>1 DEF ShapeInv, PendingInv, RecordInv, ReferencesKnown, GuardResumable, NoRecord, NoIntent
  <1>4. EnvironmentsApart'
    BY <1>1 DEF DeploymentInv, EnvironmentsApart, Found, NoRecord
  <1> QED BY <1>2, <1>3, <1>4 DEF DeploymentInv

\* The end of a command that has recorded a new state, reported as written or
\* as failed.
LEMMA CommitFits ==
    ASSUME StagingInv, NEW p \in Humans, users[p].stage \in LockedStages \ SurfaceStages,
           UNCHANGED surface, DeploymentTypes', DeploymentInv', unsynced' = TRUE,
           \/ To(p, "sync") /\ holder' = Free /\ markers' = markers \ {p} /\ UNCHANGED <<given, mishaps, cutShort>>
           \/ Mishap /\ Quits(p)
    PROVE  StagingInv'
  <1> USE DEF StagingInv
  <1>1. CASE Quits(p)
    <2>1. /\ CommandTypes' /\ LockInv' /\ CommandShape(p)' /\ Relies(p)' /\ users'[p].stage = "idle"
          /\ \A q \in Humans \ {p} : users'[q] = users[q] /\ cutShort' = cutShort
      BY <1>1, QuitEffect DEF SurfaceTypes
    <2>2. "idle" \notin SurfaceStages /\ cutShort' = cutShort
      BY <1>1, QuitEffect DEF SurfaceTypes, SurfaceStages
    <2> QED BY <2>1, <2>2, HolderStep
  <1>2. CASE To(p, "sync") /\ holder' = Free /\ markers' = markers \ {p} /\ UNCHANGED <<given, mishaps, cutShort>>
    <2>1. "sync" \in StagedStages /\ "sync" \notin LockedStages /\ "sync" \notin SurfaceStages
      BY DEF LockedStages, StagedStages, SurfaceStages, ReplaceStages, RecoveryStages, RemovalStages
    <2>2. /\ CommandTypes' /\ users'[p].stage = "sync" /\ users'[p].cmd = users[p].cmd
          /\ users'[p].doc = users[p].doc /\ \A q \in Humans \ {p} : users'[q] = users[q]
      BY <1>2, <2>1, MoveEffect DEF CommandTypes
    <2>3. LockInv'
      BY <1>2, <2>1, <2>2, LeavesLock DEF LockInv
    <2>4. CommandShape(p)'
      BY <2>2 DEF CommandShape, ReplaceStages, RecoveryStages
    <2>5. Relies(p)'
      BY <2>1, <2>2, UnlockedReliesNext
    <2> QED BY <1>2, <2>1, <2>2, <2>3, <2>4, <2>5, HolderStep
  <1> QED BY <1>1, <1>2

LEMMA CommitReplacementFits ==
    ASSUME StagingInv, NEW p \in Humans, CommitReplacement(p)
    PROVE  StagingInv'
  <1> USE DEF StagingInv
  <1>1. /\ users[p].stage = "r-commit" /\ unsynced' = TRUE
        /\ staging' = [NoStaging EXCEPT !.shape = "state", !.doc = users[p].doc]
        /\ UNCHANGED <<validated, intent, images, madeFor, serving>> /\ UNCHANGED surface
    BY DEF CommitReplacement, Stands
  <1>2. /\ intent = NoIntent /\ serving = 0 /\ validated = NoRecord /\ images = {} /\ users[p].doc \in Docs
    BY <1>1 DEF Relies, CommandShape, ReplaceStages
  <1>3. DeploymentTypes' /\ DeploymentInv'
    BY <1>1, <1>2, UnbuiltState
  <1>4. users[p].stage \in LockedStages \ SurfaceStages
    BY <1>1 DEF LockedStages, SurfaceStages, ReplaceStages
  <1> QED BY <1>1, <1>3, <1>4, CommitFits DEF CommitReplacement

LEMMA PrepareLegacyRecoveryFits ==
    ASSUME StagingInv, NEW p \in Humans, PrepareLegacyRecovery(p)
    PROVE  StagingInv'
  <1> USE DEF StagingInv
  <1>1. CASE staging.shape = "legacy" /\ NoteOwners(p, "l-read", "l-admit")
    BY <1>1, NoteOwnersFits
  <1>2. CASE Refused(p)
    BY <1>2, RefusedFits
  <1>3. CASE /\ To(p, "sync") /\ holder' = Free
             /\ UNCHANGED <<deployment, sidecar, surface, markers, given, mishaps, unsynced, cutShort>>
    <2>1. "sync" \in StagedStages /\ "sync" \notin LockedStages
      BY DEF LockedStages, StagedStages, SurfaceStages, ReplaceStages, RecoveryStages, RemovalStages
    <2>2. users[p].stage = "l-read" /\ "l-read" \in LockedStages /\ "l-read" \notin SurfaceStages
      BY DEF PrepareLegacyRecovery, Stands, LockedStages, SurfaceStages
    <2>3. /\ users'[p].stage = "sync" /\ users'[p].cmd = users[p].cmd
          /\ users'[p].doc = users[p].doc /\ \A q \in Humans \ {p} : users'[q] = users[q]
      BY <1>3, <2>1, MoveEffect
    <2>4. LockInv'
      BY <1>3, <2>1, <2>2, <2>3, LeavesLock DEF LockInv
    <2>5. CommandShape(p)'
      BY <2>3 DEF CommandShape, ReplaceStages, RecoveryStages
    <2>6. Relies(p)'
      BY <2>1, <2>3, UnlockedReliesNext
    <2>7. markers' \subseteq Humans /\ UNCHANGED <<deployment, surface, unsynced, cutShort>>
      BY <1>3 DEF CommandTypes
    <2> QED BY <1>3, <2>1, <2>2, <2>4, <2>5, <2>6, <2>7, MoveFits
  <1>4. CASE staging.shape = "legacy"
    <2>1. NoteOwners(p, "l-read", "l-admit")
      BY <1>4 DEF PrepareLegacyRecovery
    <2> QED BY <1>1, <1>4, <2>1
  <1>5. CASE staging.shape # "legacy"
    BY <1>2, <1>3, <1>5 DEF PrepareLegacyRecovery
  <1> QED BY <1>4, <1>5

\* A recovered state is published over the one that was prepared from, which
\* has given up its only reference.
LEMMA CommitLegacyRecoveryFits ==
    ASSUME StagingInv, NEW p \in Humans, CommitLegacyRecovery(p)
    PROVE  StagingInv'
  <1> USE DEF StagingInv
  <1>1. CASE staging # users[p].saw
    BY <1>1, RefusedFits DEF CommitLegacyRecovery
  <1>2. CASE staging = users[p].saw
    <2>1. /\ users[p].stage = "l-commit" /\ unsynced' = TRUE
          /\ staging' = [NoStaging EXCEPT !.shape = "state", !.doc = users[p].saw.doc]
          /\ UNCHANGED <<validated, intent, images, madeFor, serving>> /\ UNCHANGED surface
          /\ \/ To(p, "sync") /\ holder' = Free /\ markers' = markers \ {p} /\ UNCHANGED <<given, mishaps, cutShort>>
             \/ Mishap /\ Quits(p)
      BY <1>2 DEF CommitLegacyRecovery, Stands
    <2>2. staging.shape = "legacy" /\ users[p].saw.doc \in Docs /\ staging.image \notin images
      BY <1>2, <2>1 DEF CommandShape, Relies, RecoveryStages
    <2>3. validated = NoRecord /\ intent = NoIntent
      BY <2>2 DEF DeploymentInv, ShapeInv
    <2>4. images = {}
      BY <2>2, <2>3, RetiredLeavesNothing DEF ValidatedRetired, NoRecord
    <2>5. serving = 0 \/ (Found /\ DocEnv[users[p].saw.doc] = DocEnv[staging.doc])
      BY <1>2, <2>2 DEF Found
    <2>6. DeploymentTypes' /\ DeploymentInv'
      BY <2>1, <2>2, <2>3, <2>4, <2>5, UnbuiltState
    <2>7. users[p].stage \in LockedStages \ SurfaceStages
      BY <2>1 DEF LockedStages, SurfaceStages, RecoveryStages
    <2> QED BY <2>1, <2>6, <2>7, CommitFits
  <1> QED BY <1>1, <1>2

LEMMA ReadForRemovalFits ==
    ASSUME StagingInv, NEW p \in Humans, ReadForRemoval(p)
    PROVE  StagingInv'
  <1> USE DEF StagingInv
  <1>1. CASE Refused(p)
    BY <1>1, RefusedFits
  <1>2. CASE ~Refused(p)
    <2> DEFINE to == IF staging.guard THEN "d-note" ELSE "d-settle"
    <2>1. /\ Moves(p, "d-read", to) /\ staging.shape = "state"
          /\ UNCHANGED <<deployment, surface, unsynced, cutShort>>
      BY <1>2 DEF ReadForRemoval
    <2>2. to \in {"d-note", "d-settle"}
      OBVIOUS
    <2> HIDE DEF to
    <2>3. /\ "d-read" \in LockedStages \ SurfaceStages /\ to \in LockedStages \ SurfaceStages
          /\ to \in StagedStages
      BY <2>2 DEF LockedStages, StagedStages, SurfaceStages, RemovalStages
    <2>4. /\ users[p].stage = "d-read" /\ users'[p].stage = to /\ users'[p].cmd = users[p].cmd
          /\ users'[p].doc = users[p].doc
      BY <2>1, <2>3, MovedCommand
    <2>5. DeploymentTypes'
      BY <2>1 DEF DeploymentTypes, deployment
    <2>6. DeploymentInv'
      BY <2>1 DEF DeploymentInv, ShapeInv, PendingInv, RecordInv, ReferencesKnown, EnvironmentsApart,
                  GuardResumable, Found, deployment
    <2>7. CommandShape(p)'
      BY <2>2, <2>4 DEF CommandShape, ReplaceStages, RecoveryStages
    <2>8. Relies(p)'
      BY <2>1, <2>2, <2>4 DEF Relies, SurfaceStages, deployment
    <2>9. staging'.doc = staging.doc /\ staging'.shape = staging.shape
      BY <2>1 DEF deployment
    <2> QED BY <2>1, <2>3, <2>5, <2>6, <2>7, <2>8, <2>9, HolderMoves
  <1> QED BY <1>1, <1>2

\* The terminal guard, written or reported as failed.
LEMMA GuardFits ==
    ASSUME StagingInv, NEW p \in Humans, Guard(p)
    PROVE  StagingInv'
  <1> USE DEF StagingInv
  <1>1. CASE intent.kind # "none" \/ staging # users[p].saw
    BY <1>1, RefusedFits DEF Guard
  <1>2. CASE ~(intent.kind # "none" \/ staging # users[p].saw)
    <2>1. /\ users[p].stage = "d-guard" /\ staging' = [staging EXCEPT !.guard = TRUE]
          /\ intent.kind = "none"
          /\ UNCHANGED <<validated, intent, images, madeFor, serving>> /\ UNCHANGED <<surface, unsynced>>
          /\ \/ To(p, "d-stop") /\ UNCHANGED <<holder, markers, given, mishaps, cutShort>>
             \/ Mishap /\ Quits(p)
      BY <1>2 DEF Guard, Stands
    <2>2. staging.shape = "state"
      BY <2>1 DEF Relies
    <2>3. /\ staging' \in StagingRecords /\ staging'.shape = "state" /\ staging'.doc = staging.doc
          /\ staging'.image = staging.image /\ staging'.guard = TRUE
      BY <2>1, <2>2 DEF DeploymentTypes, StagingRecords
    <2>4. DeploymentTypes'
      BY <2>1, <2>3 DEF DeploymentTypes
    <2>5. DeploymentInv'
      BY <2>1, <2>2, <2>3 DEF DeploymentInv, ShapeInv, PendingInv, RecordInv, ReferencesKnown,
                              EnvironmentsApart, GuardResumable, Found
    <2>6. /\ users[p].stage \in LockedStages \ SurfaceStages /\ "d-stop" \in LockedStages
          /\ "d-stop" \in StagedStages /\ "d-stop" \notin SurfaceStages /\ "idle" \notin SurfaceStages
      BY <2>1 DEF LockedStages, StagedStages, SurfaceStages, RemovalStages
    <2>7. unsynced' \in BOOLEAN /\ unsynced' = unsynced /\ staging'.doc = staging.doc /\ Found
      BY <2>1, <2>2, <2>3 DEF SurfaceTypes, Found
    <2>8. CASE Quits(p)
      <3>1. /\ CommandTypes' /\ LockInv' /\ CommandShape(p)' /\ Relies(p)' /\ users'[p].stage = "idle"
            /\ \A q \in Humans \ {p} : users'[q] = users[q]
        BY <2>8, QuitEffect
      <3>2. cutShort' = cutShort
        BY <2>6, <2>8, QuitEffect DEF SurfaceTypes
      <3> QED BY <2>1, <2>4, <2>5, <2>6, <2>7, <3>1, <3>2, HolderStep
    <2>9. CASE To(p, "d-stop") /\ UNCHANGED <<holder, markers, given, mishaps, cutShort>>
      <3>1. /\ CommandTypes' /\ users'[p].stage = "d-stop" /\ users'[p].cmd = users[p].cmd
            /\ users'[p].doc = users[p].doc /\ \A q \in Humans \ {p} : users'[q] = users[q]
        BY <2>6, <2>9, MoveEffect DEF CommandTypes
      <3>2. LockInv'
        BY <2>6, <2>9, <3>1, KeepsLock
      <3>3. CommandShape(p)' /\ Relies(p)'
        BY <2>3, <3>1 DEF CommandShape, Relies, ReplaceStages, RecoveryStages, SurfaceStages
      <3> QED BY <2>1, <2>4, <2>5, <2>6, <2>7, <2>9, <3>1, <3>2, <3>3, HolderStep
    <2> QED BY <2>1, <2>8, <2>9
  <1> QED BY <1>1, <1>2

\* The directory goes as a whole, and nothing of it is left on record anywhere.
LEMMA IsolateFits ==
    ASSUME StagingInv, NEW p \in Humans, Isolate(p)
    PROVE  StagingInv'
  <1> USE DEF StagingInv
  <1>1. /\ users[p].stage = "d-isolate" /\ staging' = NoStaging /\ validated' = NoRecord
        /\ files' = Untouched /\ manifest' = {} /\ unsynced' = FALSE
        /\ users' = [users EXCEPT ![p] = NoCommand] /\ holder' = Free /\ markers' = markers \ {p}
        /\ UNCHANGED <<intent, images, madeFor, serving, cutShort>>
    BY DEF Isolate, Stands
  <1>2. staging.guard /\ serving = 0 /\ images = {}
    BY <1>1 DEF Relies
  <1>3. intent = NoIntent
    BY <1>2 DEF DeploymentInv, GuardResumable, PendingInv
  <1>4. NoCommand \in UserRecords /\ NoCommand.stage \notin LockedStages /\ NoCommand.stage = "idle"
        /\ NoCommand.cmd = "none"
    BY DEF NoCommand, UserRecords, NoStaging, StagingRecords, NoRecord, ValidatedRecords, NoSurfacePlan,
           Generation, StagedStages, LockedStages, SurfaceStages, ReplaceStages, RecoveryStages, RemovalStages
  <1>5. CommandTypes' /\ users'[p] = NoCommand /\ \A q \in Humans \ {p} : users'[q] = users[q]
    BY <1>1, <1>4 DEF CommandTypes
  <1>6. users[p].stage \in LockedStages
    BY <1>1 DEF LockedStages, RemovalStages
  <1>7. \A q \in Humans : users'[q].stage \notin LockedStages
    BY <1>4, <1>5, <1>6, LockIsOne
  <1>8. LockInv'
    BY <1>1, <1>7 DEF LockInv, Humans, Free
  <1>9. DeploymentTypes'
    BY <1>1 DEF DeploymentTypes, NoStaging, NoRecord, StagingRecords, ValidatedRecords, Generation
  <1>10. DeploymentInv'
    BY <1>1, <1>2, <1>3 DEF DeploymentInv, ShapeInv, PendingInv, RecordInv, ReferencesKnown,
                            EnvironmentsApart, GuardResumable, Found, NoStaging, NoRecord, NoIntent
  <1>11. SurfaceTypes'
    BY <1>1 DEF SurfaceTypes, Untouched, Names, Scripts
  <1>12. SurfaceAgrees'
    BY <1>1 DEF SurfaceAgrees, Found, NoStaging, Untouched, Names, Scripts
  <1>13. ASSUME NEW q \in Humans
         PROVE  CommandShape(q)' /\ Relies(q)'
    BY <1>4, <1>5, <1>7, UnlockedReliesNext DEF CommandShape, ReplaceStages, RecoveryStages
  <1> QED BY <1>5, <1>8, <1>9, <1>10, <1>11, <1>12, <1>13

-----------------------------------------------------------------------------
(* The theorem                                                              *)

LEMMA StagingInitFits == StagedInit => StagingInv
  <1> SUFFICES ASSUME StagedInit
               PROVE  StagingInv
    OBVIOUS
  <1>1. \E first \in StagingRecords, made \in SUBSET Images, contents \in {"absent", "installed"} :
          /\ StagingOf(first, made, [n \in Names |-> contents])
          /\ ~first.guard
          /\ first.shape = "none" => first = NoStaging /\ made = {}
          /\ first.shape # "none" => first.doc \in Docs /\ made = {first.image} \ {0} /\ first.shape = "legacy"
    <2>1. NoStaging \in StagingRecords /\ NoStaging.shape = "none" /\ ~NoStaging.guard /\ {} \in SUBSET Images
      BY DEF NoStaging, StagingRecords, Generation
    <2>2. CASE StagingOf(NoStaging, {}, Untouched)
      BY <2>1, <2>2 DEF Untouched
    <2>3. CASE StagingOf(NoStaging, {}, [n \in Names |-> "installed"])
      BY <2>1, <2>3
    <2>4. CASE \E d \in Docs, i \in {0, 1} :
                 StagingOf([NoStaging EXCEPT !.shape = "legacy", !.doc = d, !.image = i], {i} \ {0}, Untouched)
      <3>1. PICK d \in Docs, i \in {0, 1} :
              StagingOf([NoStaging EXCEPT !.shape = "legacy", !.doc = d, !.image = i], {i} \ {0}, Untouched)
        BY <2>4
      <3> DEFINE first == [NoStaging EXCEPT !.shape = "legacy", !.doc = d, !.image = i]
      <3>2. /\ first \in StagingRecords /\ first.shape = "legacy" /\ first.doc = d /\ first.image = i
            /\ ~first.guard /\ {i} \ {0} \in SUBSET Images
        BY StagedBounds DEF NoStaging, StagingRecords, Generation
      <3> HIDE DEF first
      <3>3. StagingOf(first, {i} \ {0}, [n \in Names |-> "absent"])
        BY <3>1 DEF first, Untouched
      <3> QED BY <3>2, <3>3
    <2> QED BY <2>2, <2>3, <2>4 DEF StagedInit
  <1>2. PICK first \in StagingRecords, made \in SUBSET Images, contents \in {"absent", "installed"} :
          /\ StagingOf(first, made, [n \in Names |-> contents])
          /\ ~first.guard
          /\ first.shape = "none" => first = NoStaging /\ made = {}
          /\ first.shape # "none" => first.doc \in Docs /\ made = {first.image} \ {0} /\ first.shape = "legacy"
    BY <1>1
  <1> USE DEF StagingOf
  <1>3. NoCommand \in UserRecords /\ NoCommand.stage = "idle" /\ NoCommand.cmd = "none"
        /\ NoCommand.stage \notin LockedStages /\ NoCommand.stage \notin SurfaceStages
    BY DEF NoCommand, UserRecords, NoStaging, StagingRecords, NoRecord, ValidatedRecords, NoSurfacePlan,
           Generation, StagedStages, LockedStages, SurfaceStages, ReplaceStages, RecoveryStages, RemovalStages
  <1>4. DeploymentTypes
    <2>1. validated \in ValidatedRecords /\ intent \in IntentRecords /\ serving \in Generation
      BY <1>2 DEF NoRecord, NoIntent, ValidatedRecords, IntentRecords, Generation
    <2>2. madeFor \in [Images -> {"none"} \cup {DocEnv[d] : d \in Docs}]
      BY <1>2
    <2> QED BY <1>2, <2>1, <2>2 DEF DeploymentTypes
  <1>5. SurfaceTypes
    BY <1>2 DEF SurfaceTypes
  <1>6. CommandTypes
    BY <1>2, <1>3 DEF CommandTypes
  <1>7. DeploymentInv
    <2>1. staging = first /\ validated = NoRecord /\ intent = NoIntent /\ images = made /\ serving = 0
          /\ \A i \in made : madeFor[i] = DocEnv[first.doc]
      BY <1>2
    <2>2. ShapeInv /\ PendingInv /\ RecordInv /\ GuardResumable
      BY <1>2, <2>1 DEF ShapeInv, PendingInv, RecordInv, GuardResumable, NoRecord, NoIntent
    <2>3. ReferencesKnown
      BY <1>2, <2>1 DEF ReferencesKnown, StagingRecords
    <2>4. EnvironmentsApart
      BY <1>2, <2>1 DEF EnvironmentsApart, NoRecord, NoStaging
    <2> QED BY <2>2, <2>3, <2>4 DEF DeploymentInv
  <1>8. SurfaceAgrees
    BY <1>2 DEF SurfaceAgrees, Found
  <1>9. LockInv
    BY <1>2, <1>3 DEF LockInv, Humans, Free
  <1>10. \A p \in Humans : CommandShape(p) /\ Relies(p)
    BY <1>2, <1>3, UnlockedRelies DEF CommandShape, ReplaceStages, RecoveryStages
  <1> QED BY <1>4, <1>5, <1>6, <1>7, <1>8, <1>9, <1>10 DEF StagingInv

\* Every step of a command and of the world around it keeps the invariant.
LEMMA StagingStepFits == StagingInv /\ [StagedNext]_stagedVars => StagingInv'
  <1> SUFFICES ASSUME StagingInv, [StagedNext]_stagedVars
               PROVE  StagingInv'
    OBVIOUS
  <1>1. ASSUME NEW p \in Humans, StageNext(p)
        PROVE  StagingInv'
    <2>1. CASE \E doc \in Docs : \E cmd \in {"create", "update", "replace"} : Issue(p, cmd, doc)
      BY <2>1, IssueFits
    <2>2. CASE Issue(p, "recover", "none") \/ Issue(p, "remove", "none")
      BY <2>2, IssueFits
    <2> QED
      BY <1>1, <2>1, <2>2, BeginFits, StepFailsFits, WriteSidecarFits, SetStateFits, SetFailsFits,
         SyncPlanFits, WriteFileFits, SweepFileFits, WriteManifestFits DEF StageNext
  <1>2. ASSUME NEW p \in Humans, ReplaceNext(p)
        PROVE  StagingInv'
    <2>1. CASE AwaitAdmission(p, "r-admit") \/ Admit(p, "r-admit", "r-settle2") \/ Admit(p, "r-wait", "r-settle2")
      BY <2>1, AwaitAdmissionFits, StagedAdmitFits
    <2>2. CASE Settle(p, "r-settle", "r-note") \/ NoteOwners(p, "r-note", "r-admit")
      BY <2>2, SettleFits, NoteOwnersFits
    <2>3. CASE Stop(p, "r-stop", "r-discard") \/ Discard(p, "r-discard") \/ DropValidatedImage(p, "r-discard")
      BY <2>3, StopFits, DiscardFits, DropValidatedImageFits
    <2>4. CASE Retire(p, "r-retire", "r-commit", users[p].saw.image) /\ UNCHANGED validated
      BY <2>4, RetireFits
    <2> QED
      BY <1>2, <2>1, <2>2, <2>3, <2>4, ReadForReplacementFits, SettleAfterAdmissionFits, RecheckOwnersFits,
         RemoveRecordFits, CommitReplacementFits DEF ReplaceNext
  <1>3. ASSUME NEW p \in Humans, LegacyNext(p)
        PROVE  StagingInv'
    <2>1. CASE \/ AwaitAdmission(p, "l-admit")
               \/ Admit(p, "l-admit", AfterAdmission(p)) \/ Admit(p, "l-wait", AfterAdmission(p))
      BY <2>1, AwaitAdmissionFits, StagedAdmitFits
    <2>2. CASE Stop(p, "l-stop", "l-retire")
      BY <2>2, StopFits
    <2>3. CASE Retire(p, "l-retire", "l-commit", users[p].saw.image) /\ UNCHANGED validated
      BY <2>3, RetireFits
    <2> QED BY <1>3, <2>1, <2>2, <2>3, PrepareLegacyRecoveryFits, CommitLegacyRecoveryFits DEF LegacyNext
  <1>4. ASSUME NEW p \in Humans, RemoveNext(p)
        PROVE  StagingInv'
    <2>1. CASE AwaitAdmission(p, "d-admit") \/ Admit(p, "d-admit", "d-settle2") \/ Admit(p, "d-wait", "d-settle2")
      BY <2>1, AwaitAdmissionFits, StagedAdmitFits
    <2>2. CASE Settle(p, "d-settle", "d-admit") \/ NoteOwners(p, "d-note", "d-guard")
      BY <2>2, SettleFits, NoteOwnersFits
    <2>3. CASE Stop(p, "d-stop", "d-discard") \/ Discard(p, "d-discard") \/ DropValidatedImage(p, "d-discard")
      BY <2>3, StopFits, DiscardFits, DropValidatedImageFits
    <2>4. CASE ValidatedRetired /\ Retire(p, "d-discard", "d-isolate", staging.image) /\ UNCHANGED validated
      BY <2>4, RetireFits
    <2> QED
      BY <1>4, <2>1, <2>2, <2>3, <2>4, ReadForRemovalFits, SettleForRemovalFits, GuardFits, IsolateFits
         DEF RemoveNext
  <1>5. ASSUME WorldNext
        PROVE  StagingInv'
    BY <1>5, BuildFits, ValidateFits, BuildRecoversFits, StartStagedFits, ForeignEditFits DEF WorldNext
  <1>6. CASE UNCHANGED stagedVars
    <2>1. UNCHANGED <<staging, validated, intent, images, madeFor, serving, files, manifest, users, holder,
                      markers, unsynced, cutShort>>
      BY <1>6 DEF stagedVars, deployment, surface, process
    <2>2. DeploymentTypes' /\ SurfaceTypes' /\ CommandTypes' /\ LockInv'
      BY <2>1 DEF StagingInv, DeploymentTypes, SurfaceTypes, CommandTypes, LockInv, Names, Scripts
    <2>3. DeploymentInv'
      BY <2>1 DEF StagingInv, DeploymentInv, ShapeInv, PendingInv, RecordInv, ReferencesKnown,
                  EnvironmentsApart, GuardResumable, Found
    <2>4. SurfaceAgrees'
      BY <2>1 DEF StagingInv, SurfaceAgrees, Found, SurfaceNames, Names, Scripts
    <2>5. \A p \in Humans : CommandShape(p)' /\ Relies(p)'
      BY <2>1 DEF StagingInv, CommandShape, Relies, SurfaceNames, Names, Scripts
    <2> QED BY <2>2, <2>3, <2>4, <2>5 DEF StagingInv
  <1> QED BY <1>1, <1>2, <1>3, <1>4, <1>5, <1>6 DEF StagedNext

\* StagingSound holds at every moment (desired_state*.go,
\* staged_deployment_remove.go, staged_control_surface.go, legacy recovery):
\* whichever documents, however many commands of two operators, builds,
\* failures, deaths and foreign edits there are.
THEOREM StagingStaysSound == StagedSpec => []StagingSound
  <1>1. StagedInit => StagingInv
    BY StagingInitFits
  <1>2. StagingInv /\ [StagedNext]_stagedVars => StagingInv'
    BY StagingStepFits
  <1>3. StagingInv => StagingSound
    BY StagingInvSound
  <1> QED BY <1>1, <1>2, <1>3, PTL DEF StagedSpec

=============================================================================
