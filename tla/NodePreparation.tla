---------------------------- MODULE NodePreparation ----------------------------
(***************************************************************************)
(* The preparation of one provider node of a build: a helper container is  *)
(* held open on the image prefix, the cached resolution is checked in it   *)
(* and, when it does not fit, one fresh resolution is made in the same     *)
(* session.  An APT node refreshes indexes, plans, downloads, inspects and *)
(* publishes archives; a Python node resolves wheels again and again until *)
(* no local override of the closure is left to build, each built from a    *)
(* snapshot of its checkout.                                               *)
(*                                                                         *)
(* Source: apt_node_preparer.go, prepared_apt_node_operations.go,          *)
(* apt_resolver_*.go, python_node_preparer.go, prepared_python_node_*.go,  *)
(* python_resolver_*.go and python_source_*.go of internal/dockerdeploy.   *)
(* A deb is one package with an old and a selected version, a source tree  *)
(* is the number of edits made to it; portable wheels are left out.        *)
(***************************************************************************)
EXTENDS Naturals, FiniteSets

CONSTANTS
    Debs,        \* packages that apt may select
    Locals,      \* distributions overridden by a local checkout
    Direct,      \* of these, the ones the node asks for itself
    Recipes,     \* of these, the ones whose build needs portable tools
    MaxTouches   \* bound: changes made to archives and checkouts meanwhile

ASSUME PreparationBounds ==
    /\ Direct \subseteq Locals /\ Recipes \subseteq Locals /\ MaxTouches \in Nat
    /\ IsFiniteSet(Debs) /\ IsFiniteSet(Locals)

VARIABLES
    node,                   \* "apt" or "python"
    stage, outcome,
    hasCached, cachedFits,  \* a cached resolution was given; it is of this image
    aborted,
    helper, builder,        \* the node's container; the one of a source builder
    room,                   \* the workspace that both mount
    builderRoom,            \* the workspace that the source builder mounts alone
    builderImage,           \* the image it is of
    builderLost,            \* a failed create left a source builder
    rmFailed, ambiguous,    \* a removal failed; a failed create left a container
    plan, shelf, listing, examined, stored, manifest,   \* APT
    checkout, want, observed, copied, sources, wheelhouse, passes,   \* Python
    touches

prepVars == <<node, stage, outcome, hasCached, cachedFits, aborted, helper, builder, room, rmFailed,
              builderRoom, builderImage, builderLost, ambiguous, plan, shelf, listing, examined, stored, manifest,
              checkout, want, observed, copied, sources, wheelhouse, passes, touches>>
aptVars == <<plan, shelf, listing, examined, stored, manifest>>
pythonVars == <<want, observed, copied, sources, wheelhouse, passes>>
given == <<node, hasCached, cachedFits>>
builderVars == <<builder, builderRoom, builderImage, builderLost>>

\* A file of the archive cache; a seed is copied from the store (body 0).
File(d, v, o, b) == [deb |-> d, version |-> v, origin |-> o, body |-> b]
Seeds == {File(d, v, "seed", 0) : d \in Debs, v \in {1, 2}}

PreparationOf(kind, cached, matching, seeds) ==
    /\ node = kind /\ stage = "workspace" /\ outcome = "none"
    /\ hasCached = cached /\ cachedFits = matching
    /\ aborted = FALSE
    /\ helper = "none" /\ builder = "none" /\ room = FALSE
    /\ builderRoom = FALSE /\ builderImage = FALSE /\ builderLost = FALSE
    /\ rmFailed = FALSE /\ ambiguous = FALSE
    /\ plan = {} /\ shelf = seeds /\ listing = {} /\ examined = {} /\ stored = {} /\ manifest = {}
    /\ checkout = [d \in Locals |-> 0]
    /\ want = {} /\ observed = <<>> /\ copied = <<>> /\ sources = {} /\ wheelhouse = {} /\ passes = 0
    /\ touches = 0

\* The cached resolution of a Python node never has a local source: the
\* build drops the recorded sources first, so such a node is resolved anew.
PrepInit ==
    \E kind \in {"apt", "python"}, cached, matching \in BOOLEAN :
        \E seeds \in IF kind = "apt" THEN {s \in SUBSET Seeds : Cardinality(s) <= 2} ELSE {{}} :
            /\ matching => cached
            /\ PreparationOf(kind, cached, matching, seeds)

-----------------------------------------------------------------------------
(* The session: its workspace, its container, and the way out               *)

Goto(s) == stage' = s
\* Errors leave through the deferred calls: of the source builder, then of the
\* session, then of the workspace.
Leave ==
    /\ outcome' = "failed"
    /\ stage' = CASE stage = "workspace" -> "sweep"
                  [] stage \in {"create", "start"} -> "sweep"
                  [] builder = "running" -> "builderClose"
                  [] OTHER -> "close"

\* PrepareAPTResolverWorkspace, SeedAPTResolverArchives; PreparePythonResolverArtifacts
MakeRoom ==
    /\ stage = "workspace" /\ ~aborted
    /\ room' = TRUE
    /\ Goto("create")
    /\ UNCHANGED <<given, outcome, aborted, helper, builderVars, rmFailed, ambiguous, aptVars, pythonVars, checkout, touches>>

\* OpenAPTResolverSession, OpenPythonResolverSession: the create is not
\* canceled; a failed one is not followed by a removal.
CreateHelper ==
    /\ stage = "create"
    /\ \/ ~aborted /\ helper' = "created" /\ Goto("start") /\ UNCHANGED <<outcome, ambiguous>>
       \/ helper' = "none" /\ Leave /\ UNCHANGED ambiguous
       \/ ~aborted /\ helper' = "created" /\ ambiguous' = TRUE /\ Leave
    /\ UNCHANGED <<given, aborted, builderVars, room, rmFailed, aptVars, pythonVars, checkout, touches>>

\* The removal of a container, with or without success
RemoveHelper ==
    \/ helper' = "none" /\ UNCHANGED rmFailed
    \/ rmFailed' = TRUE /\ UNCHANGED helper

StartHelper ==
    /\ stage = "start"
    /\ \/ ~aborted /\ helper' = "running" /\ UNCHANGED <<outcome, rmFailed>>
          /\ Goto(IF hasCached THEN "cached" ELSE "fresh")
       \/ RemoveHelper /\ Leave
    /\ UNCHANGED <<given, aborted, builderVars, room, ambiguous, aptVars, pythonVars, checkout, touches>>

\* ValidateCached: a resolution that fits is returned.  One that does not, or
\* a failure to check it, is followed by one fresh resolution unless the
\* command was interrupted.
ValidateCached ==
    /\ stage = "cached"
    /\ \/ ~aborted /\ cachedFits /\ outcome' = "cached" /\ Goto("close")
       \/ ~aborted /\ Goto("fresh") /\ UNCHANGED outcome
       \/ aborted /\ Leave
    /\ UNCHANGED <<given, aborted, helper, builderVars, room, rmFailed, ambiguous, aptVars, pythonVars, checkout, touches>>

ResolveFresh ==
    /\ stage = "fresh"
    /\ Goto(IF node = "apt" THEN "probe" ELSE "select")
    /\ UNCHANGED <<given, outcome, aborted, helper, builderVars, room, rmFailed, ambiguous, aptVars, pythonVars, checkout, touches>>

\* Any phase may fail: its command, its output, or the canceled context.
PhaseFails ==
    /\ stage \notin {"create", "start", "cached", "fresh", "builder", "close", "builderClose", "sweep", "returned"}
    /\ Leave
    /\ UNCHANGED <<given, aborted, helper, builderVars, room, rmFailed, ambiguous, aptVars, pythonVars, checkout, touches>>

\* Close, without the cancellation; a failure takes the result back.
CloseHelper ==
    /\ stage = "close"
    /\ RemoveHelper
    /\ outcome' = IF rmFailed' THEN "failed" ELSE outcome
    /\ Goto("sweep")
    /\ UNCHANGED <<given, aborted, builderVars, room, ambiguous, aptVars, pythonVars, checkout, touches>>

\* A bug: the workspace goes whatever became of the container.
SweepAnyway ==
    /\ stage = "sweep"
    /\ room' = FALSE
    /\ Goto("returned")
    /\ UNCHANGED <<given, outcome, aborted, helper, builderVars, rmFailed, ambiguous, aptVars, pythonVars, checkout, touches>>

\* The deferred removal of the workspace, kept when a helper could not be removed
SweepRoom ==
    /\ stage = "sweep"
    /\ room' = (room /\ rmFailed)
    /\ Goto("returned")
    /\ UNCHANGED <<given, outcome, aborted, helper, builderVars, rmFailed, ambiguous, aptVars, pythonVars, checkout, touches>>

Interrupted ==
    /\ stage # "returned" /\ ~aborted
    /\ aborted' = TRUE
    /\ UNCHANGED <<given, stage, outcome, helper, builderVars, room, rmFailed, ambiguous, aptVars, pythonVars, checkout, touches>>

-----------------------------------------------------------------------------
(* The phases of an APT node                                                *)

AptPhase(here, there) ==
    /\ stage = here /\ ~aborted
    /\ Goto(there)
    /\ UNCHANGED <<given, outcome, aborted, helper, builderVars, room, rmFailed, ambiguous, pythonVars, checkout, touches>>

ProbeBaseProfile == AptPhase("probe", "refresh") /\ UNCHANGED aptVars
RefreshIndexes == AptPhase("refresh", "plan") /\ UNCHANGED aptVars

\* PlanPackages: apt chooses what to add or upgrade.
PlanPackages ==
    /\ AptPhase("plan", "base")
    /\ plan' \in SUBSET Debs
    /\ UNCHANGED <<shelf, listing, examined, stored, manifest>>
ReadBasePackageState == AptPhase("base", "download") /\ UNCHANGED aptVars

\* DownloadPackages: apt may drop seeds, write them anew and add archives.
DownloadPackages ==
    /\ AptPhase("download", "inventory")
    /\ \E dropped, rewritten \in SUBSET shelf, new \in SUBSET {File(d, 2, "new", 0) : d \in Debs} :
           shelf' = {IF f \in rewritten THEN [f EXCEPT !.body = 1] ELSE f : f \in shelf \ dropped} \cup new
    /\ UNCHANGED <<plan, listing, examined, stored, manifest>>

InventoryArchives ==
    /\ AptPhase("inventory", "inspect")
    /\ listing' = shelf
    /\ UNCHANGED <<plan, shelf, examined, stored, manifest>>

UnchangedSeed(f) == f.origin = "seed" /\ f.body = 0
Selected(f) == f.deb \in plan /\ f.version = 2

\* InspectArchives: exactly one archive for each selected package, nothing
\* else but unchanged seeds, and every file as it was when it was listed.
InspectArchives ==
    /\ AptPhase("inspect", "publish")
    /\ \A f \in listing : Selected(f) \/ UnchangedSeed(f)
    /\ \A d \in plan : Cardinality({f \in listing : Selected(f) /\ f.deb = d}) = 1
    /\ listing \subseteq shelf
    /\ examined' = {f \in listing : Selected(f)}
    /\ UNCHANGED <<plan, shelf, listing, stored, manifest>>

\* A bug: the archive is published as it is now.
PublishWhatIsThere ==
    /\ AptPhase("publish", "manifest")
    /\ stored' = stored \cup {f \in shelf : \E g \in examined : [g EXCEPT !.body = f.body] = f}
    /\ UNCHANGED <<plan, shelf, listing, examined, manifest>>

\* PublishBundleArtifacts, with the descriptor that was inspected
PublishBundleArtifacts ==
    /\ AptPhase("publish", "manifest")
    /\ examined \subseteq shelf
    /\ stored' = stored \cup examined
    /\ UNCHANGED <<plan, shelf, listing, examined, manifest>>

PublishResolvedBundle ==
    /\ stage = "manifest" /\ ~aborted
    /\ manifest' = examined
    /\ outcome' = "fresh" /\ Goto("close")
    /\ UNCHANGED <<given, aborted, helper, builderVars, room, rmFailed, ambiguous, plan, shelf, listing, examined, stored, pythonVars, checkout, touches>>

\* What still runs in the container may write into the workspace.
ArchiveChanges ==
    /\ node = "apt" /\ helper = "running" /\ touches < MaxTouches /\ stage \in {"inspect", "publish", "manifest"}
    /\ touches' = touches + 1
    /\ \E f \in shelf : shelf' = (shelf \ {f}) \cup {[f EXCEPT !.body = 1 - f.body]}
    /\ UNCHANGED <<given, stage, outcome, aborted, helper, builderVars, room, rmFailed, ambiguous, plan, listing, examined, stored, manifest, pythonVars, checkout>>

-----------------------------------------------------------------------------
(* The phases of a Python node                                              *)

PythonPhase(here, there) ==
    /\ stage = here /\ ~aborted
    /\ Goto(there)
    /\ UNCHANGED <<given, outcome, aborted, helper, room, rmFailed, ambiguous, aptVars, checkout, touches>>

Resolved == {s.dist : s \in sources}

\* resolveFresh: interpreter and reusable wheels, then the overrides that the
\* node asks for itself.
SelectInterpreter ==
    /\ PythonPhase("select", IF Direct \ Resolved = {} THEN "resolve" ELSE "observe")
    /\ want' = Direct \ Resolved
    /\ UNCHANGED <<builderVars, observed, copied, sources, wheelhouse, passes>>

\* ResolveWheels: pip fills the empty output with a closure, using the wheel of
\* every source; other overrides come from an index.
ResolveWheels ==
    /\ PythonPhase("resolve", "closure")
    /\ wheelhouse = {}
    /\ passes' = passes + 1
    /\ \E closure \in SUBSET Locals :
           /\ Direct \subseteq closure
           /\ wheelhouse' = {s \in sources : s.dist \in closure} \cup
                        {[dist |-> d, kind |-> "index", digest |-> 0, tree |-> 0] : d \in closure \ Resolved}
    /\ UNCHANGED <<builderVars, want, observed, copied, sources>>

\* selectUnresolvedPythonLocalOverrides: with overrides left to build the
\* output is emptied first.
InspectClosure ==
    LET unresolved == {w.dist : w \in wheelhouse} \ Resolved IN
    /\ PythonPhase("closure", IF unresolved = {} THEN "stop" ELSE "observe")
    /\ want' = unresolved
    /\ wheelhouse' = IF unresolved = {} THEN wheelhouse ELSE {}
    /\ UNCHANGED <<builderVars, observed, copied, sources, passes>>

ObserveSources ==
    /\ PythonPhase("observe", "snapshot")
    /\ observed' = [d \in want |-> checkout[d]]
    /\ UNCHANGED <<builderVars, want, copied, sources, wheelhouse, passes>>

\* A bug: the copy is not compared with the manifest it was made from.
StageSnapshotsUnchecked ==
    /\ PythonPhase("snapshot", IF want \cap Recipes = {} THEN "sdist" ELSE "builder")
    /\ wheelhouse = {}
    /\ copied' = [d \in want |-> checkout[d]]
    /\ UNCHANGED <<builderVars, want, observed, sources, wheelhouse, passes>>

\* StagePythonLocalSourceSnapshots: a copy that differs from the manifest that
\* was observed is refused.
StageSnapshots ==
    /\ PythonPhase("snapshot", IF want \cap Recipes = {} THEN "sdist" ELSE "builder")
    /\ wheelhouse = {} /\ \A d \in want : checkout[d] = observed[d]
    /\ copied' = [d \in want |-> checkout[d]]
    /\ UNCHANGED <<builderVars, want, observed, sources, wheelhouse, passes>>

\* openSourceBuilderSession: another container, of a temporary image, with a
\* workspace of its own
OpenBuilder ==
    /\ PythonPhase("builder", "sdist")
    /\ builder' = "running" /\ builderImage' = TRUE /\ builderRoom' = TRUE
    /\ UNCHANGED <<builderLost, pythonVars>>

\* cleanup: Close of the session, then its workspace, then its image.  Each is
\* tried whatever became of the others, and the image may stay.
CleanUpBuilder(left) ==
    /\ builder' = left /\ builderRoom' = FALSE
    /\ builderImage' \in BOOLEAN

\* One of its steps fails.  Nothing was made, the create left a container
\* without saying so, or the cleanup removes the container or does not.
OpenBuilderFails ==
    /\ stage = "builder"
    /\ \/ CleanUpBuilder("none") /\ UNCHANGED <<rmFailed, builderLost>>
       \/ CleanUpBuilder("left") /\ rmFailed' = TRUE /\ UNCHANGED builderLost
       \/ CleanUpBuilder("left") /\ builderLost' = TRUE /\ UNCHANGED rmFailed
    /\ Leave
    /\ UNCHANGED <<given, aborted, helper, room, ambiguous, aptVars, pythonVars, checkout, touches>>

\* BuildSourceDistributions, BuildSourceWheels: one artifact per source, or fewer
Builds(kind) ==
    /\ wheelhouse = {}
    /\ \E got \in SUBSET want :
           wheelhouse' = {[dist |-> d, kind |-> kind, digest |-> observed[d], tree |-> copied[d]] : d \in got}
    /\ UNCHANGED <<builderVars, want, observed, copied, sources, passes>>
BuildSourceDistributions == PythonPhase("sdist", "retain") /\ Builds("sdist")
BuildSourceWheels == PythonPhase("wheel", "wheels") /\ Builds("wheel")

\* PublishBuiltPythonSourceDistributions: one per snapshot; the output is cleared.
RetainDistributions ==
    /\ PythonPhase("retain", "wheel")
    /\ {a.dist : a \in wheelhouse} = want /\ wheelhouse' = {}
    /\ UNCHANGED <<builderVars, want, observed, copied, sources, passes>>

\* PublishBuiltPythonSourceWheels, mergePythonSourceCandidates
PublishSourceWheels ==
    /\ PythonPhase("wheels", IF builder = "running" THEN "builderClose" ELSE "resolve")
    /\ {a.dist : a \in wheelhouse} = want /\ wheelhouse' = {}
    /\ sources' = {s \in sources : s.dist \notin want} \cup wheelhouse
    /\ UNCHANGED <<builderVars, want, observed, copied, passes>>

\* The deferred cleanup of the builder; what could not be removed fails the call.
CloseBuilder ==
    /\ stage = "builderClose"
    /\ \/ CleanUpBuilder("none") /\ UNCHANGED rmFailed
       \/ CleanUpBuilder("left") /\ rmFailed' = TRUE
    /\ outcome' = IF builder' = "left" \/ builderImage' THEN "failed" ELSE outcome
    /\ Goto(IF outcome' = "failed" THEN "close" ELSE "resolve")
    /\ UNCHANGED <<given, aborted, helper, room, ambiguous, builderLost, aptVars, pythonVars, checkout, touches>>

\* Stop: the container is killed before the host reads its output.
StopHelper ==
    /\ stage = "stop" /\ ~aborted
    /\ helper' = "killed" /\ Goto("ingest")
    /\ UNCHANGED <<given, outcome, aborted, builderVars, room, rmFailed, ambiguous, aptVars, pythonVars, checkout, touches>>

\* ResolveProviderNode with the prepared wheels, recordVerifiedPythonArtifacts
IngestWheels ==
    /\ stage = "ingest" /\ ~aborted
    /\ outcome' = "fresh" /\ Goto("close")
    /\ UNCHANGED <<given, aborted, helper, builderVars, room, rmFailed, ambiguous, aptVars, pythonVars, checkout, touches>>

DeveloperEdits(d) ==
    /\ node = "python" /\ touches < MaxTouches /\ stage # "returned"
    /\ touches' = touches + 1
    /\ checkout' = [checkout EXCEPT ![d] = @ + 1]
    /\ UNCHANGED <<given, stage, outcome, aborted, helper, builderVars, room, rmFailed, ambiguous, aptVars, pythonVars>>

-----------------------------------------------------------------------------
PrepNext ==
    \/ MakeRoom \/ CreateHelper \/ StartHelper \/ ValidateCached \/ ResolveFresh
    \/ PhaseFails \/ CloseHelper \/ SweepRoom \/ Interrupted
    \/ ProbeBaseProfile \/ RefreshIndexes \/ PlanPackages \/ ReadBasePackageState
    \/ DownloadPackages \/ InventoryArchives \/ InspectArchives
    \/ PublishBundleArtifacts \/ PublishResolvedBundle \/ ArchiveChanges
    \/ SelectInterpreter \/ ResolveWheels \/ InspectClosure
    \/ ObserveSources \/ StageSnapshots \/ OpenBuilder \/ OpenBuilderFails
    \/ BuildSourceDistributions \/ RetainDistributions \/ BuildSourceWheels \/ PublishSourceWheels
    \/ CloseBuilder \/ StopHelper \/ IngestWheels
    \/ \E d \in Locals : DeveloperEdits(d)

PrepSpec == PrepInit /\ [][PrepNext]_prepVars

-----------------------------------------------------------------------------
PrepTypeOK ==
    /\ node \in {"apt", "python"}
    /\ outcome \in {"none", "cached", "fresh", "failed"}
    /\ helper \in {"none", "created", "running", "killed"}
    /\ builder \in {"none", "running", "left"}
    /\ plan \subseteq Debs /\ want \subseteq Locals
    /\ checkout \in [Locals -> 0..MaxTouches] /\ touches \in 0..MaxTouches

\* No container that reploy knows of outlives the workspace of the node, which
\* it mounts, and a source builder at work has its own; when the call has
\* returned, a container is left only if its create or its removal failed, and a
\* call that returned a result has left nothing.  The builder's own workspace is
\* removed even if the removal of its container failed, which is excepted.
HelpersAccounted ==
    /\ (helper # "none" /\ ~ambiguous) \/ (builder # "none" /\ ~builderLost) => room
    /\ builder = "running" => builderRoom /\ builderImage
    /\ stage = "returned" =>
           /\ helper = "none" \/ rmFailed \/ ambiguous
           /\ builder = "none" \/ (builder = "left" /\ (rmFailed \/ builderLost))
           /\ outcome # "failed" =>
                  helper = "none" /\ builder = "none" /\ ~builderImage /\ ~builderRoom /\ ~room

\* A cached resolution is returned only when it is of the current image.
CachedFits == outcome = "cached" => hasCached /\ cachedFits

\* The bundle that an APT node publishes holds one archive for every package
\* that apt selected and nothing else, each in the store with the bytes that
\* were inspected, although the container may write to the cache meanwhile.
BundleIsPlan ==
    node = "apt" /\ outcome = "fresh" =>
        /\ manifest \subseteq stored
        /\ {f.deb : f \in manifest} = plan /\ Cardinality(manifest) = Cardinality(plan)
        /\ \A f \in manifest : f \in listing /\ f.version = 2
        /\ \A f \in stored : f \in examined

\* Wheels of a Python node are ingested when nothing can write to them any
\* more; every local override in the closure is there as a wheel built from
\* the tree its digest names, none from an index, and no pass is made without
\* a new source: there are at most as many as overrides, and one more.
ClosureIsLocal ==
    node = "python" =>
        /\ passes <= Cardinality(Locals) + 1
        /\ stage = "ingest" => helper = "killed" /\ builder # "running"
        /\ stage \in {"stop", "ingest"} \/ outcome = "fresh" =>
               /\ Direct \subseteq {w.dist : w \in wheelhouse}
               /\ \A w \in wheelhouse : w \in sources /\ w.kind = "wheel"
               /\ \A w, x \in wheelhouse : w.dist = x.dist => w = x
        /\ \A s \in sources : s.tree = s.digest /\ s.tree <= checkout[s.dist]

\* The preparation of a node by its helper containers: accounted containers,
\* an exact APT bundle, a Python closure of local wheels.
PreparationSound ==
    PrepTypeOK /\ HelpersAccounted /\ CachedFits /\ BundleIsPlan /\ ClosureIsLocal

===============================================================================
