---------------------------- MODULE LiveRunQueue ----------------------------
(***************************************************************************)
(* The deployment-local admission queue of internal/deploy: app runs,      *)
(* shells and lifecycle operations ("control markers") that are active,    *)
(* reserved ("ready") or waiting.  The code keeps the entries in a slice   *)
(* it only appends to and deletes from, so the position of an entry is     *)
(* the order of its arrival: here status[i] is what the slice holds for    *)
(* the entry with ID i ("absent" when it holds none) and arrival[i] its    *)
(* place in the order.  IDs are random and never reused.                   *)
(*                                                                         *)
(* Every operation of the code validates the queue it reads and the queue  *)
(* it writes (ValidateLiveRunQueueV1): a queue that breaks QueueValid      *)
(* cannot be read again, and every later command on the deployment fails.  *)
(***************************************************************************)
EXTENDS Naturals

CONSTANTS
    Ids,        \* the run and marker IDs that may be drawn
    Control,    \* the ones of control markers
    Exclusive   \* the entries that must be the only runnable one

\* AdmitControlMarkerV1 gives every control marker Exclusive: true.
ASSUME QueueAssumption == Control \subseteq Exclusive /\ Exclusive \subseteq Ids

VARIABLES
    status,     \* what the queue holds for each ID
    arrival,    \* the place of each ID in the order of arrival, 0 before it arrives
    arrivals    \* how many entries have arrived

queueVars == <<status, arrival, arrivals>>

Statuses == {"absent", "waiting", "ready", "active"}

\* The entries of the queue, and of a queue s, by status.
OutstandingIn(s) == {i \in Ids : s[i] # "absent"}
RunnableIn(s)    == {i \in Ids : s[i] \in {"ready", "active"}}
WaitingIn(s)     == {i \in Ids : s[i] = "waiting"}

Outstanding == OutstandingIn(status)

-----------------------------------------------------------------------------
(***************************************************************************)
(* promoteLiveRunsV1: when no entry ahead of the first waiting one is      *)
(* exclusive or already reserved, that entry becomes ready; an exclusive   *)
(* one only when nothing is ahead of it.                                   *)
(***************************************************************************)
Ahead(s, i) == {j \in OutstandingIn(s) : arrival[j] < arrival[i]}

Promotable(s, i) ==
    /\ s[i] = "waiting"
    /\ \A j \in Ahead(s, i) : s[j] = "active" /\ j \notin Exclusive
    /\ i \in Exclusive => Ahead(s, i) = {}

Promote(s) == [i \in Ids |-> IF Promotable(s, i) THEN "ready" ELSE s[i]]

\* A bug: removed entries stay in the slice, marked.
WithoutMarking(s, gone) == [i \in Ids |-> IF i \in gone THEN "removed" ELSE s[i]]

\* The queue s without the entries of gone.
Without(s, gone) == [i \in Ids |-> IF i \in gone THEN "absent" ELSE s[i]]

\* A bug: a candidate that may overlap starts although others already wait.
CanStartBesideWaiters(i) ==
    /\ \A j \in RunnableIn(status) : j \notin Exclusive
    /\ i \in Exclusive => Outstanding = {}

\* liveRunCanStartNowV1.
CanStartNow(i) ==
    /\ \A j \in Outstanding : status[j] = "active" /\ j \notin Exclusive
    /\ i \in Exclusive => Outstanding = {}

-----------------------------------------------------------------------------
\* The entry i joins the end of the queue with status st.
Join(i, st) ==
    /\ arrival[i] = 0
    /\ status' = [status EXCEPT ![i] = st]
    /\ arrival' = [arrival EXCEPT ![i] = arrivals + 1]
    /\ arrivals' = arrivals + 1

\* AdmitLiveRunV1 and AdmitControlMarkerV1 of a candidate that can start.
AdmitActive(i) == CanStartNow(i) /\ Join(i, "active")

\* The same of a candidate that cannot, with --wait.
AdmitWaiting(i) == ~CanStartNow(i) /\ Join(i, "waiting")

\* A bug: the claim of the reservation does not pass it on.
ActivateWithoutPromotion(i) ==
    /\ status[i] = "ready"
    /\ status' = [status EXCEPT ![i] = "active"]
    /\ UNCHANGED <<arrival, arrivals>>

\* ActivateReadyLiveRunV1, and ActivateReadyControlMarkerV1, which does not
\* promote anything.
Activate(i) ==
    /\ status[i] = "ready"
    /\ LET s == [status EXCEPT ![i] = "active"]
       IN  status' = IF i \in Control THEN s ELSE Promote(s)
    /\ UNCHANGED <<arrival, arrivals>>

\* RemoveLiveRunV1, RemoveControlMarkerV1, CompleteControlledSessionV1: one
\* entry leaves, whatever its status, and the queue is promoted.
Remove(i) ==
    /\ status[i] # "absent"
    /\ status' = Promote(Without(status, {i}))
    /\ UNCHANGED <<arrival, arrivals>>

\* CancelWaitingLiveRunsV1: every run that is not active leaves; control
\* markers stay.
Cancelable == {i \in Ids \ Control : status[i] \in {"waiting", "ready"}}

CancelWaiting ==
    /\ Cancelable # {}
    /\ status' = Promote(Without(status, Cancelable))
    /\ UNCHANGED <<arrival, arrivals>>

\* recoverLiveRunQueuePathV1: the entries whose owner is gone leave.
Recover(gone) ==
    /\ gone \subseteq Outstanding
    /\ status' = Promote(Without(status, gone))
    /\ UNCHANGED <<arrival, arrivals>>

-----------------------------------------------------------------------------
QueueInit ==
    /\ status = [i \in Ids |-> "absent"]
    /\ arrival = [i \in Ids |-> 0]
    /\ arrivals = 0

QueueNext ==
    \/ \E i \in Ids : AdmitActive(i) \/ AdmitWaiting(i) \/ Activate(i) \/ Remove(i)
    \/ CancelWaiting
    \/ \E gone \in SUBSET Outstanding : Recover(gone)

QueueSpec == QueueInit /\ [][QueueNext]_queueVars

-----------------------------------------------------------------------------
\* The status of an entry is one the queue file may hold, and places count up.
QueueTypeOK ==
    /\ status \in [Ids -> Statuses]
    /\ arrival \in [Ids -> Nat]
    /\ arrivals \in Nat

\* Entries have different places, none beyond the last arrival.
PlacesDistinct ==
    /\ \A i \in Ids : arrival[i] <= arrivals /\ (status[i] # "absent" => arrival[i] > 0)
    /\ \A i, j \in Ids : i # j /\ arrival[i] = arrival[j] => arrival[i] = 0

\* Runnable entries come before waiting ones, active ones before ready ones.
InOrder(s) ==
    /\ \A i, w \in Ids : s[i] \in {"ready", "active"} /\ s[w] = "waiting" => arrival[i] < arrival[w]
    /\ \A i, r \in Ids : s[i] = "active" /\ s[r] = "ready" => arrival[i] < arrival[r]

\* An exclusive entry that may run is the only one that may.
ExclusiveAlone(s) == \A i, j \in RunnableIn(s) : i \in Exclusive => i = j

\* At most one entry is reserved.
OneReady(s) == \A i, j \in Ids : s[i] = "ready" /\ s[j] = "ready" => i = j

\* The first waiting entry is waiting for something: a reservation or an
\* exclusive entry, or, when it is exclusive itself, any runnable entry.
FirstWaiting(s) == {w \in WaitingIn(s) : \A v \in WaitingIn(s) : arrival[w] <= arrival[v]}

NoLostWakeup(s) ==
    \A w \in FirstWaiting(s) :
        \E i \in RunnableIn(s) : w \in Exclusive \/ i \in Exclusive \/ s[i] = "ready"

\* ValidateLiveRunQueueV1 accepts the queue after any number of admissions,
\* claims, removals, cancellations and recoveries, so no sequence of commands
\* leaves a queue that every later command rejects, an exclusive run beside
\* another one, or a waiter nobody will wake.
QueueValid ==
    InOrder(status) /\ ExclusiveAlone(status) /\ OneReady(status) /\ NoLostWakeup(status)

\* Every queue the commands write has its types and passes its own validation.
QueueSound == QueueTypeOK /\ QueueValid

\* Whoever becomes runnable has overtaken nobody: the entries still waiting
\* after the step arrived later (docs: "multiple waiters cannot bypass one
\* another"), and a run that was admitted is never put back in the line.
NoOvertaking ==
    [][\A i, j \in Ids :
          /\ (status'[i] \in {"ready", "active"} /\ status'[j] = "waiting"
                => arrival'[i] < arrival'[j])
          /\ (status[i] \in {"ready", "active"} => status'[i] # "waiting")
          /\ (status[i] = "active" => status'[i] # "ready")]_queueVars

=============================================================================
