# A TLA+ verification of Reploy

Reploy builds reproducible environments as Docker images from a blueprint and
runs them: one-shot runs, a long-running workload, and *controlled sessions*, in
which a controller program supervises a workload over a framed stream.  A
deployment is a directory.  Its state (`state.json`, build locks, the provider
store, the live-run queue, the intents of unfinished publications) is shared by
many short-lived `reploy` processes, and its images and containers live in a
Docker daemon that none of them owns.  What is hard about the program is
therefore less the data than the order of things: commands that wait for each
other without a server, processes that die between two durable steps, Docker
calls that fail ambiguously, and a session whose supervisor, controller, workload
and watchdog each end in their own time.

The modules in this directory model that order.  Paths below are relative to
`src/internal/` unless they start with `src/` or `docs/`.

## 1. Inventory

### Components, their state and their operations

| component | state | operations | interacts with |
|---|---|---|---|
| session lifecycle machine (`controlledsession/lifecycle.go`) | one `MachineV1` under a mutex: phase, cause, statuses, barriers, result | `Observe` (13 kinds), `ApplyRequest` (input, resize, terminate, complete, acknowledge) | both threads of the supervisor |
| session supervisor (`dockerdeploy/controlled_session_supervisor.go`, `controlledsession/session_io.go`, `output.go`) | run thread, request goroutine, output pump, flags under a mutex, deadlines | activate, wait, terminate, finalize outputs, await completion, clean up, deliver the result, await acknowledgement | machine, controller stream, Docker, watchdog, caller |
| session ownership (the same file, `controlled_session_watchdog.go`, the runtime adapters) | resources in Docker, the ownership record in the queue file, the supervisor's handles | record a plan, create, commit identities, arm the watchdog, two cleanups, complete, recover | operation lock, queue, watchdog, later commands |
| session plan and network (`controlled_session_plan.go`, `controlled_session_network.go`, `private_workload_environment.go`, `probe/network_firewall_linux.go`) | the plan; networks and endpoints in Docker, the packet filter of each container | plan mounts and masks; choose a subnet, create, record, attach, verify, clean up | supervisor, other users of Docker |
| channel, broker and terminal (`controlledsession/channel.go`, `client.go`, `controller_broker.go`, ...) | connections, buffers, what was sent and received | open, claim, close, relay events and requests, attach | supervisor, controller, terminal |
| live-run queue (`deploy/live_run_queue.go`, `live_run_queue_file.go`) | entries waiting, ready or active, in order of arrival; cleanup inventory | admit, activate, remove, cancel, recover, validate | every command, under the operation lock |
| admission (`dockerdeploy/live_run_admission.go`, `live_run_container.go`, `control_admission*.go`, `live_runs.go`, `deploy/operation_lock.go`) | a process per command, a file lock, a lease per entry, a container per run | enter, admit or wait, poll, claim, create, record, start, finish; force, drain, stop; recover | queue, Docker, other commands |
| workload lifecycle (`current_workload_*.go`, `private_workload_start.go`, `installed_service_*.go`) | the record of the last process, the published Compose inputs, the container | up, down, restart; the service process; failed starts and their cleanup | operation lock, systemd, Compose |
| build publication and validated builds (`build_publication.go`, `pending_*_recovery.go`, `validated_build_*.go`) | intents with a phase, `state.json`, build locks, store objects, Docker tags | publish, recover, retire, discard, prune | the build command |
| provider build command and graph (`provider_build_*.go`, `current_build_reuse.go`, `prepared_python_graph_*.go`) | the lock and the images it names | reuse, promote, execute node by node, assemble the lock | registries, checkouts, publication |
| node preparation (`apt_node_preparer.go`, `python_node_preparer.go`, resolvers and sources) | helper container, workspace, seeds, cached resolution | check, resolve, download, inspect, build sources, publish | provider store, Docker, the user's checkouts |
| provider store (`providerstore/acquisition*.go`, `store.go`, `artifact_verification.go`, `reachability.go`) | blobs, verification stamps, build records, what is retained | acquire from mirrors, verify, publish, prune | builds, deployment state |
| archive materialization (`providerstore/archive_materialization*.go`) | workspace, destination | unpack, check, publish without replacing, roll back, quarantine | other processes at the destination |
| tool resolution (`toolcatalog/candidates.go`, `solver.go`, `portabletool/python.go`) | a search | select, claim, detect conflicts, backtrack | active providers |
| override editor (`overrideui/editor.go`) | the list, dialogs, saves, validation and loads in flight | keys, results, save, validate | the files, which others write too |
| identity mapping (`identitymapping`, `dockerdeploy/mapped_*.go`) | journal in the state file, containers of mapped runs; interval lists | change the journal, plan, create, grant, release, retire; check the host's files | external owner of effects, Docker |
| installation and removal (`provider_install_*.go`, `provider_uninstall_*.go`) | installed directory, tombstone, guard, unit, volume, image references | install, reinstall, uninstall, recover, finalize | systemd, publication |
| staging directory (`staged_deployment_*.go`, `state_recovery`) | document, sidecars, runtime file, control surface | stage, update, replace, recover, remove | admission, builds |
| command line, packaging, website | none | | not modelled |

### What is hard, and what makes each part correct

* **Session.**  Several observers race for the termination cause; three barriers
  must open in order and none may stay closed for ever; the controller may answer
  an event before the thread that sent it has recorded the send; every wait is on
  something that may never answer.  Correct means: barriers in order, always
  finishable, verdicts final, events in protocol order, a prompt answer is heard,
  a terminating session ends.
* **Ownership and network.**  The supervisor may die or fail between creating
  something in Docker and recording its identity, and others change networks
  meanwhile.  Correct means: what exists is covered by the record, no later
  command is admitted beside leftovers, no container is unfiltered.
* **Admission.**  Runs hold no lock while they execute: exclusion rests on entries
  in a file that other processes cancel, stop and recover.  Correct means: the
  queue passes its own validation, nobody overtakes a waiter, exclusive work runs
  alone, recorded containers are accounted for, nobody waits for ever.
* **Workload.**  A command and the service share a container that exits or is
  restarted on its own.  Correct means: the secrets of a process are sent once,
  and the record never claims of a process what is not true of it.
* **Publication, builds and store.**  A dozen durable steps each, with pruning
  beside them.  Correct means: current and validated build stay runnable, what is
  found is repairable, what is reused is what would be built, what is acquired is
  exact.
* **Installation, staging, mapping.**  Long sequences of steps on several systems,
  by two operators.  Correct means: image references have owners, removals can be
  resumed, a guard is terminal, an identity once used stays bound.
* **Broker, editor, archive, resolution.**  Messages, results and members in any
  order; a search that must be exact.

The hazards, each at its line with the properties that watch it, are in
`PROJECT.json`.

## 2. Modules

| module | models | role |
|---|---|---|
| `SessionContract` | what a session promises, in four variables | abstract specification |
| `SessionLifecycle` | `MachineV1` | refines `SessionContract` |
| `SessionSupervisor` | the supervisor's threads, stream, controller, workload, watchdog | extends `SessionLifecycle` with the program that drives it; refines it |
| `SessionOwnership` | resources of a session and the record that owns them | component |
| `SessionBroker` | channel, client, broker, terminal attachment | component; its host sends what `SessionSupervisor` lets it send |
| `SessionPlan`, `SessionNetwork` | mounts, masks and grants; network and packet filter | `SessionNetwork` uses the plan |
| `LiveRunQueue` | the queue's operations | abstract specification of admission |
| `LiveRunAdmission` | commands as processes around the queue | extends `LiveRunQueue`; refines it |
| `WorkloadLifecycle` | `up`, `down`, `restart` and the service process | component |
| `BuildPublication` | publication, recovery and retirement of builds | component |
| `ProviderBuild`, `NodePreparation` | what a build reuses and executes; one node of it | components |
| `ProviderStore`, `ArchiveMaterialization` | content-addressed store; unpacking | components |
| `ToolResolution` | the joint search for releases | algorithm against a reference definition |
| `OverrideEditor` | the event loop of the editor | component |
| `MappedExecution`, `IdentityGeometry` | journal and mapped runs; interval arithmetic against sets of pairs | components |
| `Installation`, `StagedDeployment` | installed and staged directories | components |
| `*Proofs` | | theorems (section 5) |
| `MC*` | | small instances |

Operators whose comment begins with "A bug:", "Mutant:" or "(Mutation:" are faulty
variants of the definition that follows them.  No specification uses them; they
are substituted to see that the properties notice.

How state and actions correspond to the code:

* **SessionLifecycle.**  One variable, `machine`, with the fields of `MachineV1`.
  Each kind of observation and request is an action; `...Accepted` operators hold
  the conditions under which the code returns no error, and an operator on the
  record gives the value the code assigns.  A rejected call changes nothing.
* **SessionSupervisor.**  `pc` is the place of the run thread; the request goroutine
  has its own place and the request it holds; `sending` is the event being
  written, so that a controller may receive and answer it *before* the thread
  records the send.  Calls of the machine are atomic (its mutex); all between two
  calls interleaves.  `Recheck`, `EnterSelect` and the `See...` actions are the two
  halves of the wait loops: channels polled first, then a `select`.
* **SessionOwnership.**  Creation may be refused, succeed, fail and be rolled back, or
  fail ambiguously.  A crash may come anywhere; watchdog, `runs stop` and later
  commands are concurrent.
* **SessionBroker.**  Goroutines that hand over one message through an unbuffered
  channel are a variable that holds the message; bytes are numbered.
* **LiveRunQueue, LiveRunAdmission.**  `Promote` is `promoteLiveRunsV1`, applied by
  every operation before it writes.  A command moves through stages; the ones in a
  stage of `Locked` hold the operation lock.  A waiter polls with a try-lock, and
  every acquisition first recovers the queue.  The check of the build after the wait
  (`CheckGeneration`), the create and the record of the container are three steps: what
  keeps a publication from coming between them is that it needs the lock too.  A crash
  frees lock and lease and leaves the container.
* **WorkloadLifecycle.**  Two actors, the command and the service process, meet at
  the lock.  A process is a container ID with a start time; starts are numbered, so
  a restarted container is another process.  The operations of a lifecycle plan are
  the sequence `todo`.  A stop whose inspection or write of `stopping` fails (`StopRefused`)
  goes back as the code does.
* **BuildPublication.**  The running command is the sequence of steps it has yet to
  make: *calls* look at the disk and expand into *durable steps*, each one atomic
  write, tag or removal.  `StepFails` and `Crash` may hit before each.
* **ProviderStore, ArchiveMaterialization, NodePreparation, ProviderBuild.**  One call at a time
  moves through steps; files and registries change between them.  What the file system refuses
  is a branch of the step: a rollback whose rename into the quarantine is refused leaves our
  installation at the name, a failed `RemoveAll` leaves the quarantine (reported) or the workspace
  (silently).  A source builder has an image, a container and a probe workspace of its own beside
  those of its node.  A lock that is offered for reuse carries sources, and the request that a
  build is made from has none (`GraphSources`).
* **OverrideEditor.**  Keys, messages and foreign writes interleave.  `shown` says that the
  open dialog has its versions, `stale` that an edit was made after which the code did not
  refresh the list.  Ctrl+W from the dialog of local projects is the same action as from the
  main screen, and returns to that dialog.
* **Installation, StagedDeployment.**  Two operators, each with its order and step;
  directories have identities of their own, so that a path may lead to another
  one than was locked.  A removal of a staged directory writes its guard and then stops the workload;
  a removal that wakes up recovers a publication that became pending meanwhile before it compares
  the state with what it saw.
* **MappedExecution.**  A change compares the caller's whole earlier observation with
  the journal; a write may succeed, fail, or happen and be reported as failed.  Recovery
  removes the entry of a dead run first, and may put the removal of its container off.
* **ToolResolution, IdentityGeometry, SessionPlan.**  Algorithms; the result is compared
  with a definition that does not compute it the same way.

## 3. Runs

A `MC` module may hold several components side by side: the variable `component`
says which one moves, the others stay in their first state.

| run | components | states | shows |
|---|---|---|---|
| `calls` | `SessionLifecycle`, `SessionOwnership`, `SessionBroker`, `ArchiveMaterialization`, `ProviderStore` | 1,180,023 | `MachineSound`, `VerdictsEarned`, `ImplementsContract`, `OwnershipSafe`, `OrphansRemoved`, `BrokerSound`, `BrokerReturns`, `ArchiveSound`, `OthersSpared`, `MaterializationEnds`, `StoreSound`, `CallsEnd` |
| `deployments` | `BuildPublication`, `WorkloadLifecycle`, `Installation`, `ToolResolution` | 823,616 | `PublicationSound`, `PublicationSettles`, `WorkloadSound`, `CommandReturns`, `InstallSound`, `GuardIsTerminal`, `OrdersEnd`, `ResolutionExact` |
| `host` | `SessionSupervisor` (early completion, input in flight, controller exit), `OverrideEditor`, `NodePreparation`, `MappedExecution` | 2,632,938 | `AnswersHeard`, `EditorSound`, `PreparationSound`, `MappingSound` |
| `faults` | `SessionSupervisor` (stream loss, watchdog exit), `StagedDeployment` | 1,740,745 | `SupervisorSafe`, `ImplementsLifecycle`, `StagingSound` |
| `session` | `SessionSupervisor` (watchdog exit, host cancel), `SessionPlan`, `SessionNetwork` | 925,850 | `SessionsEnd`, `PlanSound`, `NetworkSound`, `AttemptsDiffer` |
| `admission` | `LiveRunAdmission`, `IdentityGeometry`, `ProviderBuild` | 1,007,169 | `QueueSound`, `NoOvertaking`, `AdmissionSafe`, `ImplementsQueue`, `GeometrySound`, `ProviderBuildSound` |
| `forcing` | `LiveRunAdmission` with a forcing command and `runs stop` | 324,121 | `BuildsMatch`, `RemovedRunsAreDown`, `WaitersLeave` |
| `late_diagnostic`, `late_input`, `force_race`, `ownership_ambiguous`, `install_volume` | | | disagreements of code and documentation (section 6) |

`...Sound` and `...Safe` are conjunctions of named parts, each with its own comment;
the first part is the type invariant of the module.

Bounds, and why they are enough:

* *Session.*  There is one session, so nothing scales but input; one input in flight
  meets every state of the receiver.  Faults are one-shot because an exit, a loss
  or a cancel is.  The supervisor's properties are proved for every bound (section 5).
* *Broker*: two typed bytes, one pending input, one output, one request: enough for
  an early byte, a full buffer, and an end behind an output.
* *Admission.*  Overtaking and exclusion are about pairs with a third waiting; four
  entries cover a pair, a waiter and a lifecycle command.  One publication suffices
  for a stale build, one crash leaves an abandoned entry in every state, two let the
  command that recovers it die as well.  `run1` and `run2` are alike in every constant and
  symmetric; `admission` checks safety only.
* *Workload*: three process starts (an old process, the attempt's, one by hand), two commands, one
  trouble (kill, manual restart, changed input).  See section 5 for more.
* *Publication*: two build locks, one with a companion tag; commands and failures are not
  bounded, the state space is finite by itself.
* *Installation and staging*: two operators, three orders or two commands, one fault or mishap, three
  directories and generations: a removal, what replaces it, and a stale observer.
* *Store and archives*: two artifacts, builds and mirrors, two attempts per mirror;
  four archive names that collide by case and prefix, at most three members.
* *Editor*: three packages, one required, one a dependency that local projects bring along, one that
  only trial builds find, so that the list is re-sorted and shortened under the cursor; three
  pieces of work (edits, jobs and foreign writes together), one load of versions.  With one
  optional package the interesting refreshes do not happen.  Leaving the editor by Ctrl+C
  changes nothing, so it is no step.
* *Nodes, mapping*: two local packages, one with a recipe, one touch; two mapped runs and two generations,
  eight revisions.
* *Geometry*: identities up to 5 and lists of two intervals meet every relative position of
  two intervals.
* *Provider builds*: two builds and one change of each input between them.
* *Network*: a pool that is too small for its first size, four attempts, three faults.
* *Resolution*: every kind of claim in conflict, with releases of every verdict, in six instances.

Larger instances of single components, beyond the bounds of the configurations, were explored as well
(broker with three typed bytes and two of the rest, 3.4 million states; an override of any
package when the editor opens, 2.6; two touches in a node, 0.2; ten revisions of the mapping journal, 1.6; a larger archive, 0.6; workload with four starts,
three commands and three troubles, 21.7; installation with four directories, generations and commands and
two faults, 7.5).  The last two matter: with two troubles an earlier form of `UpIsEarned`, and with two faults
an earlier form of `RemovedIsDown`, was violated (section 6, items *m* and *o*).

Runs in which everything may have finished say `CHECK_DEADLOCK FALSE`.

## 4. Fairness

* *Supervisor*: weak fairness of the run thread, which never waits without a
  deadline, and of `DeadlinePasses`.  Nothing is assumed of controller, workload,
  watchdog or request goroutine.
* *Admission*: weak fairness of a command that holds the lock, of a run between its
  steps, and of containers (a job ends).  Strong fairness of `Poll \/ Finish`,
  which need the lock: `operation_lock.go` polls a try-lock without a queue, so a
  command gets it eventually only if it cannot lose every race.
* *Broker*: weak fairness of the broker's own steps and of the claim.  The public stream has no write
  timeout, so `BrokerReturns` also needs a controller that reads it.
* *Workload*, *installation*: weak fairness of each program's own steps.
* *Archive*, *store*: weak fairness of the steps of a call.
* *Ownership*: strong fairness that an attempt of the watchdog some day finds a
  Docker daemon that answers; it retries until then.
* *Publication*: failures end one day (`Calm`) and somebody keeps building (`Proceed`);
  recovery is nobody's duty but the next command's.
* The other components have no liveness property and no fairness.

## 5. Proofs

The theorems hold for every value of the constants, under the assumptions named in the
modules that declare them, and TLAPS checks every obligation.

* **`SessionSupervisorProofs`.**  For the machine, the inductive invariant `Good(machine)` is the
  type, the barriers, and what the phase, the cause and the result say of the other
  fields.  The barriers alone are not inductive: that a lost runtime does not open
  the barrier of the outputs rests on the cause recorded earlier.  `Good` is a
  predicate of one machine *value*, so each handler is one lemma about one operator.
  From `AlwaysGood` follow `NeverStuck` (the finish built from the recorded statuses is accepted
  once nothing is pending) and with it `MachineStaysSound`; `VerdictsAreEarned`, an action property; and
  `MachineKeepsContract`, the refinement of `SessionContract`.
  For the supervisor, `SupervisorInv` says, for each location of the run thread,
  what is known of the machine, the startup, what was seen and the event being
  written; with it every step is a step of `SessionLifecycle`
  (`SupervisorImplementsLifecycle`).  `EventsInv` adds what the controller was told: the
  order of events is not inductive without it (`EventsStayInOrder`,
  `SupervisorStaysSafe`).  `AnswersInv` adds the recorded outcomes, the completions
  under way and the prompt answers held at their gates (`AnswersAreHeard`).
* **`LiveRunAdmissionProofs`.**  For the queue, `QueueInv` is the type, distinct places of arrival, and `QueueValid`.
  Validity without distinct places is not inductive: two entries with one place could both be the first
  waiter.  `PromoteValid` is the heart: promotion turns any queue that is valid except that a
  waiter was left without its wake-up into a valid one, and every operation hands it such a
  queue.  `QueueInvariant`, `QueueStaysSound`, `NobodyOvertakes`.
  For the commands, `AdmissionInv` says, stage by stage, what a command may rely on:
  its entry, its lease, its container.  From it follow the refinement
  (`CommandsImplementQueue`, hence `DeploymentQueueSound`), `LockHoldersFindContainers`,
  `RemovalLeavesNothingRunning` and `ContainersOfThePlannedBuild` (the published build is the
  planned one in the stages `creating` and `recording`: it was when it was checked, and a
  publication needs the lock that the run has held since).  `WorkInv` adds exclusion and
  accounting.  `WorkIsExclusiveAndAccounted` assumes that nobody forces: `docker stop` of a
  container that was created and not started does nothing, so with a forcing command the
  statement is false (`force_race`).
  For the staging directory, `StagingInv`: forced replacement, recovery and removal give up the
  operation lock to wait their turn, and act afterwards on a record that may have changed.
  `LockInv` ties the lock to the stages, and `Relies` says for each stage under it what the command still
  knows of the record, the pending publication and the files; `ShapeInv`, `PendingInv` and
  `RecordInv` say what a state of each format, a pending publication and a discarded validated
  build account for, without which an image that is dropped could still have an owner
  elsewhere.  `StagedBounds` assumes that generations are positive and that an environment has a
  name.  `StagingStaysSound`.
* **`ProviderStoreProofs`.**  `StoreInv` is the type, honest stamps, whole retained builds, and
  `CallFits`: what the running call has seen so far, for every step of every call.  Whether a
  stamp may be written, a blob removed or a body accepted rests on that and not on the
  store alone.  `StoreInvariant`, `StoreStaysSound`.  Its second half is the installation of an
  archive: `TreeInv` says that the reserved names are exactly the nodes of the tree, without which
  a member could be unpacked through another, and `PlaceInv` where workspace, name and quarantine
  stand at each step, with what the file system has refused to move or remove.  `ArchiveSoundness`, and the action property `OthersAreSpared`.  Archive
  names are assumed to be non-empty sequences of letters with a lower case.
* **`BuildPublicationProofs`.**  A command is what it has yet to do, so `ProgramFits` describes where
  it stands by the set of sequences that may be left of it (`Then(X, K)`: a step of `X`, then a
  sequence of `K`), and says for the first of these steps what it relies on: the pending file and
  its phase, the tags that are there or gone, and that a name it has drawn is mentioned nowhere.
  `PublicationSound` alone is not inductive: that a tag may be removed, a lock pruned or an intent
  closed depends on the steps made before.  `DiskFits` adds to it that builds kept side by side
  have different names, without which the tags of one would go with those of another.  One
  lemma per action; `TagsGrow`, `TagsShrink`, `PruneKeeps`, `PendingChanges` and `RecordChanges` say
  what each kind of write leaves true of the disk.  `None` is assumed to be neither a name nor a
  record.  `PublicationIsSound`.
* **`WorkloadLifecycleProofs`.**  `WorkloadInv` is what the actors share (the record is valid and
  true of the container) and `OpFits`: for each actor and each of its stages, the lock it holds,
  the operations its plan still has, the inputs that are published, what the record says of a
  process that runs, and whose process it has seen.  The record alone is not inductive: a
  command writes "up" from what it checked one step before, and a cleanup writes "down" of the
  process it noted.  One lemma per action; `LoudStep`, `ServiceAway` and `CommandAway` say why a
  step of one actor leaves the other what it relies on.  `WorkloadInvariant`, `WorkloadStaysSound`.
* **`InstallationProofs`.**  `InstallInv`: what a step may write or remove rests on the lock its
  command took, on what the command saw before it waited, and on where a directory can still get
  to.  `PlaceInv` says where directories and their records are (one at the path, one tombstone
  with its record), `GenerationInv` that no generation belongs to two of them and that what is
  recorded and not guarded has its images, `HostInv` what the service may be running.
  `OrderFits` says of each stage what the command relies on: `Under` with the operation lock,
  where nobody else changes the record, and `Left` after its release, where all that is known is
  that a directory on its way out does not come back; `AsideInv` that a directory moved aside has
  one command that ends this.  `Bystander` is the heart: what a step must leave alone (`Spares`)
  for the other command to keep what it relies on.  One lemma per action, over five kinds of
  steps (`QuietStep`, `HostStep`, `RecordStep`, `PlaceStep`, `FinalStep`).
  `InstallationStaysSound`, and the action property `GuardStaysTerminal`.
* **`SessionServiceProofs`.**  `OwnershipInv`: whether a record may be dropped depends on the
  handles the supervisor still has and on which cleanup succeeded, and whether another command is
  admitted on the lock and the queue entry; it says what these stand for at each stage.
  `OwnershipIsSafe`.  `BrokerInv`: host, client and broker each have a view of the session, one
  step apart; `HostInv` and `ViewInv` order them, `OpenInv` and `ChannelInv` say what is open,
  `CountInv` accounts for every input and output under way.  `BrokerSoundness`.  The plan takes one
  step, so its difficulty is in the order of paths: that one path encloses another is told from
  their elements (`PrefixPoints`), two paths that enclose a third are comparable (`EnclosingPaths`),
  and a path is recovered from its rest below another (`PathsPutBelow`, `PathsTakenFrom`).  From
  these follow `MaskHides` (wherever a mount shows a private file, a mask stands at or above it) and
  `MaskWithinMount` (no mask leaves its mount), for any sources, targets and links that are
  sequences (`PlanPaths`).  `PlanStaysSound`.  For the network, a filter chain is read list by list
  (`RulesInTurn`) and its first rule that matches decides (`FirstRuleDecides`), which gives
  `ChainFollowsGrants` for any grants; in `NetInv`, `IdentityInv` counts the faults it takes until the identity
  of a network is lost and `BoxesInv` says in which networks a container is at each stage, with a
  number of faults as the only bound (`NetBounds`).  `NetworkStaysSound`.
* **`HostProofs`.**  `MappedInv`: a frame is released because of the step its run has reached,
  under a lock taken steps before.  `RunInv` says of each step of a run what holds of its
  operation, container, pipe and queue entry, `LockInv` why nobody else changed the journal, and
  `JournalInv` that the pending operation is still the one that was prepared.  The operator is
  assumed to be none of the runs.  `MappingStaysSound`.  `PrepInv`: what a bundle or a wheelhouse
  is was settled stages before it is published; `AptInv` and `HouseInv` carry it there, `SessionInv`
  accounts for containers, workspaces and the builder's image, and `PassInv` bounds the passes by the overrides resolved so far, for
  finite sets of packages and overrides.  `PreparationStaysSound`.

Each inductive invariant was checked by TLC on a small instance before it was proved.

Only model-checked:

* all liveness and what rests on fairness, and everything with `ENABLED`: out of the prover's reach;
* results of recursive definitions for every input (resolution, interval lists, unpacking): they
  need induction over data, which the installed provers cannot instantiate;
* among them, as safety properties of a run: `GeometrySound` and `ResolutionExact` compare recursive
  results with their references, `ProviderBuildSound` rests on reachability in and the stable order of the
  graph, `EditorSound` on sorted lists, and `AttemptsDiffer` on the number theory of odd strides modulo the
  size of a pool.

## 6. Disagreements found

Each of these is a run that is expected to be violated, quoted with its lines in
`PROJECT.json`.

1. `late_diagnostic`: a watchdog exit that is observed after the output-finalization
   deadline is reported with a deadline already passed; the failed write is taken for
   a lost controller.
2. `late_input`: the design says that input in flight at termination is discarded.
   Once the session is terminated it is rejected, and the request goroutine stops
   before it reads the acknowledgement.
3. `ownership_ambiguous`: removing the session network marks the whole partial
   preparation as verified, also when a container may exist that nobody has a handle
   to.
4. `force_race`: a forcing command stops a container that has been created and not
   yet started; the run starts it beside the forced operation.
5. `install_volume`: an install that dies between the creation of a data volume and
   the copy into it leaves a volume that the reinstall takes for filled.

Noticed while modelling, without a run of their own:

* (a) The exit event that is omitted after the deadline makes the broker fail
  (`controller_broker.go:539`; the comment at `controlled_session_supervisor.go:1058`
  calls it advisory).  `BrokerSound` excludes exactly this.
* (b) A repeated `terminate`, or a `complete`, is rejected while `client.terminated` is
  set and the broker has not consumed the event (`client.go:129`,
  `controller_broker.go:473`; `docs/CONTROLLED_SESSION_DESIGN.md:1007`).
* (c) Shared install roots and aliases make the solver depend on the order of the
  groups (`addInstallRootClaimV1`, `addAliasPathClaimV1`).
* (d) `savedMsg` marks the editor clean although an edit was made while the save was
  in flight (`editor.go:590`); three changes invalidate without `validateItems`, so that the
  next refresh re-sorts the list under an open dialog and a choice may land on another package
  (`EditsLand` excepts dialogs that were opened on a list out of date).  Setting the workspace by
  Ctrl+W from the dialog of local projects (`editor.go:1723`) forgets the packages of the last trial
  build: the package the dialog was opened for may leave the list and the project be chosen for
  another one (excepted too; the test `editor_test.go:542` compares screen and input only);
  save-and-exit in flight with a validation started quits without canceling it.
* (e) `provider_build_prepare.go:445` empties the sources of a request, so a Python node
  with local sources is always resolved anew.  The cleanup of a source builder removes the workspace that its
  container mounts even when the removal of this container failed
  (`prepared_python_node_operations.go:543`, `:548`), although `probe_workspace.go:35` says that it "must be
  removed with cleanup after the container exits" and `source_builder_portable_tools.go:311` keeps its
  own in that case.  The model does as the code; `HelpersAccounted` excepts this one directory.
* (f) Forced replacement leaves the former environment's package-overrides sidecar
  (`dockerdeploy/package_overrides.go:43`).
* (g) A crash between sidecar and state in a first stage makes the retry fail; a state
  write reported as failed after its rename removes the sidecar though the state exists.
* (h) Recovery of the earlier state format does not read its snapshot again after admission.
* (i) A first control surface left half-way plus an upgrade makes later staging refuse its
  own runtime file; a renamed script leaves an unmanaged file.
* (j) "Validate choices" with an unused override completes the build and is refused
  (`validated_build_candidate.go:112`; `docs/APT_PROVIDER.md:332`,
  `docs/BLUEPRINT_ENVIRONMENT_MODEL.md:849`).
* (k) A local override without exclusions is nil before and empty after a round trip
  through the disk, and `LoadValidatedBuildCandidate` compares the two.
* (l) Python console scripts as undeclared outputs are accepted without portable tools
  and refused by the lock with them.
* (m) A container restarted by hand while an attempt to start it is under way is taken
  for the attempt's own (`private_workload_start.go`), so `up` may be recorded with inputs
  the process was not made with.  `UpIsEarned` excepts processes started by hand.
* (n) The comment on `RunCurrentControlledSessionV1` says that the controller's
  deployment lock is retained for the supervisor's lifetime; it is released when
  ownership has been recorded.
* (o) The steps of an install after its publication, and those of a recovery, do not look at the
  target again (`provider_uninstall_recovery.go:126` looks once): an install whose directory was
  moved away, or a recovery whose target came back, acts late on a unit that is another's, and
  a cleanup that puts a guarded directory back (`provider_install_destination_dir.go:81`)
  may find another's unit.  A removal beside them can leave a unit or an enabled service.
  `RemovedIsDown` excepts exactly these cases (`host.late`).
* (p) The end of a removal releases its lock before its two `RemoveAll` calls
  (`provider_uninstall_pending_remove.go:341`, `:365`, `:368`), and the paths are the same for every
  removal of a target.  With five commands (install, removal, its retry beside it, install,
  removal) the late end of the first can delete the control directory into which the second has
  moved its record; its tombstone then has no record from which it could be retried.
  `RemovalRetryable` excepts exactly this (`lost`).  The case is beyond the bounds of the run and
  was found when the invariant turned out not to be inductive.
* (q) A refused rename into the quarantine leaves an installation that was to be rolled back at
  its name (`archive_materialization_destination.go:219`), a failed `RemoveAll` leaves it in the
  quarantine (`:292`) or leaves the workspace (`:147`).  `FailureLeavesNothing` excepts exactly what was
  refused, and says that never both installation and workspace stay.

## 7. Not modelled

* *Inside the modelled parts*: errors of unlocking; framing, JSON and terminal modes;
  a controller of a second deployment (`controlled_session_supervisor.go:342`) and the incident
  receipt; a crash between `docker create` and the record of the container
  (`live_run_container.go:98`); loss of power (a completed write is taken to be durable);
  the replacement of a mapped workload, which `mapped_entry_adapter.go:71` refuses today;
  readiness probes; rendering of image files and Docker arguments;
  a missing staging volume, which the copy of a data volume takes for success
  (`provider_install_path_updates.go:286`); the removal of directories of an earlier format that
  have no guard (`provider_uninstall_pending_remove.go:177`); what reaches a session's containers
  from outside (published ports, related ICMP): the packet filter is modelled by what it lets out.
* *Parts left out*: parsing and validation of blueprints, catalog records, package
  metadata and host files; the Python projection of portable tools and their planning;
  payload images, probes and inventories; the command line; packaging and website.  They
  are sequential work on data without shared state, and most of the repository's lines:
  the map covers about a fifth of the implementation, the part in which order matters.
* *Caveats*: a file that changes between the last look at it and the stamp that vouches for it
  (`artifact_verification.go:78-88`) is in the model (`slipped`) and excepted from `StampHonest`; the double read of the host's files misses a change that is changed back; the staging
  marker of a dead command is discarded by the queue's recovery at once; automatic runs
  reuse an image built from an older checkout by design; upstream changes happen between
  build commands, and platform and overlay are part of the blueprint.

## 8. Plan

Done, in the order of importance: the session with its supervisor, broker, ownership,
plan and network; queue and admission; publication; workload, installation and staging;
store, archives, nodes and builds; resolution, editor, mapping and geometry.  Proved: section 5.
Left: what section 5 lists as only model-checked.
