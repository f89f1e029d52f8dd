---------------------------- MODULE ProviderBuild ----------------------------
(***************************************************************************)
(* One staged deployment and its provider builds: what an explicit build,  *)
(* an automatic check before a run and a validation of choices reuse, and  *)
(* what they execute, node by node, up to the lock that is published.      *)
(*                                                                         *)
(* Source: provider_build_run.go, provider_build_prepare.go,               *)
(* provider_build_execute.go, provider_build_completion.go,                *)
(* resolved_request.go, current_build_reuse.go, build_lock_assembly.go and *)
(* prepared_python_graph_*.go of internal/dockerdeploy, the graph of       *)
(* internal/providers and build_lock.go of internal/deploy.                *)
(* Nodes are numbered in the order of compareReadyNodes: 0 is the base, 1  *)
(* the APT node, the Python nodes follow.  Each Python node asks for one   *)
(* executable, its interpreter.  An image is the sequence of its layers.   *)
(* Publication and its recovery are the subject of BuildPublication, the   *)
(* preparation of a node that of NodePreparation.                          *)
(* Verification only concerns a reused build, so it is not combined with   *)
(* a disabled cache.                                                       *)
(***************************************************************************)
EXTENDS Naturals, Sequences, FiniteSets

CONSTANTS
    Blueprints,     \* [d -> apps, direct, supplier, offers, fits, apt, policy, guarded, tools]
    Intents,        \* package overrides: functions from packages to "none", a version or "local"
    Needs,          \* [package, version -> packages it requires]
    Recipes,        \* packages whose local checkout is built with portable tools
    MaxBuilds,      \* bound: build commands
    MaxEvents       \* bound: changes made by others

Packages == DOMAIN Needs
Documents == DOMAIN Blueprints
NoLock == [blueprint |-> "none"]
NoNode == 99
NoCall == [mode |-> "build", noCache |-> FALSE, verify |-> FALSE]
Modes == {"build", "automatic", "choices"}

VARIABLES
    desired,        \* the staged blueprint and the package overrides
    world,          \* versions that the registry and the repositories offer
    tree,           \* edits of each local checkout
    current, trial, \* the published lock; the validated one with its inputs
    held,         \* of each: "ok", "gone", or "bad" (does not verify)
    missing,        \* parts of the provider store that are gone
    call, phase,    \* the running command and its stage
    offered,        \* its validated candidate
    reused, reusable, refuted,
    prefix, bundles,
    builds, events

providerVars == <<desired, world, tree, current, trial, held, missing, call, phase, offered,
                  reused, reusable, refuted, prefix, bundles, builds, events>>
deploymentVars == <<desired, tree, missing, builds>>
graphVars == <<prefix, bundles>>

ProviderBuildOf(d, intent) ==
    /\ desired = [doc |-> d, over |-> intent]
    /\ world = [base |-> "1", repo |-> "1"] /\ tree = [p \in Packages |-> 0]
    /\ current = NoLock /\ trial = NoLock
    /\ held = [i \in {"current", "trial"} |-> "ok"] /\ missing = {}
    /\ call = NoCall /\ phase = "idle"
    /\ offered = FALSE /\ reused = "none" /\ reusable = NoLock /\ refuted = FALSE
    /\ prefix = <<>> /\ bundles = <<>>
    /\ builds = 0 /\ events = 0

ProviderInit == \E d \in Documents, intent \in Intents : ProviderBuildOf(d, intent)

-----------------------------------------------------------------------------
(* Requests, plans and the order of the graph                               *)

Blueprint == Blueprints[desired.doc]
NodesOf(b) == {0} \union (IF b.apt = {} THEN {} ELSE {1}) \union b.apps

Chosen(over) == {p \in Packages : over[p] # "none"}
Restrict1(f, s) == [x \in DOMAIN f \cap s |-> f[x]]

\* The request of a node: overrides are part of every Python request.
RequestOf(b, over, n) ==
    IF n = 1
    THEN [direct |-> b.apt, supplier |-> NoNode, over |-> <<>>]
    ELSE [direct |-> b.direct[n], supplier |-> b.supplier[n], over |-> Restrict1(over, Chosen(over))]
\* FilterProviderRequestOverridesV1: the overrides of a request that a closure uses.
NarrowTo(request, closure) == [request EXCEPT !.over = Restrict1(@, closure)]

PlanEdges(b) == {<<b.supplier[a], a>> : a \in {x \in b.apps : b.supplier[x] # NoNode}}

\* Kahn's order with the least ready node first; shorter when there is a cycle.
StableOrder(nodes, edges) ==
    LET after[done \in SUBSET nodes] ==
            LET ready == {n \in nodes \ done : \A e \in edges : e[2] = n => e[1] \in done}
            IN  IF ready = {} THEN <<>>
                ELSE LET next == CHOOSE n \in ready : \A m \in ready : n <= m
                     IN  <<next>> \o after[done \union {next}]
    IN  after[{}]

\* Only the base and the APT node declare outputs.
Declares(b, n) == n \in {0, 1} /\ n \in b.offers
PlanValid(b) ==
    /\ \A e \in PlanEdges(b) : e[1] \in NodesOf(b) /\ e[1] # e[2] /\ Declares(b, e[1])
    /\ Len(StableOrder(NodesOf(b), PlanEdges(b))) = Cardinality(NodesOf(b))
PlannedOrder == StableOrder(NodesOf(Blueprint), PlanEdges(Blueprint))

\* The interpreters that earlier layers offer a node, and the first that fits.
Candidates(b, n, earlier) ==
    SelectSeq(earlier, LAMBDA m : m \in b.offers /\ b.supplier[n] \in {NoNode, m})
Compatible(b, n, earlier) == SelectSeq(Candidates(b, n, earlier), LAMBDA m : m \in b.fits[n])

\* What a resolver selects: the closure of the direct requirements.
Versions(over, repo) == [p \in Packages |-> IF over[p] = "none" THEN repo ELSE over[p]]
Reaches(from, versions) ==
    LET step[k \in 0..Cardinality(Packages)] ==
            IF k = 0 THEN from
            ELSE step[k - 1] \union UNION {Needs[p][versions[p]] : p \in step[k - 1]}
    IN  step[Cardinality(Packages)]
Locals(wheels) == {p \in DOMAIN wheels : wheels[p] = "local"}

LayerOf(bundle) ==
    [node |-> bundle.node, sel |-> bundle.sel, wheels |-> bundle.wheels, src |-> bundle.src]
BaseLayer(v) == [node |-> 0, sel |-> NoNode, wheels |-> [x \in {"base"} |-> v], src |-> <<>>]

-----------------------------------------------------------------------------
(* What may be reused of a lock                                             *)

Sources(lock) ==
    UNION {{<<n, p, lock.nodes[n].src[p]>> : p \in DOMAIN lock.nodes[n].src} : n \in DOMAIN lock.nodes}
\* An automatic check offers the sources of the lock it may reuse, other
\* commands offer none.
OfferedSources ==
    IF call.mode # "automatic" \/ call.noCache THEN {}
    ELSE IF offered THEN Sources(trial.lock)
    ELSE IF current # NoLock THEN Sources(current) ELSE {}

\* finalizeResolvedRequestV1 over the nodes that a lock or a graph resolved.
Unprojected(done, n) ==
    done[n].req # NarrowTo(RequestOf(Blueprint, desired.over, n), DOMAIN done[n].wheels)
FinalRequest(done) ==
    [n \in NodesOf(Blueprint) \ {0} |->
        IF n \in DOMAIN done /\ n # 1 THEN done[n].req ELSE RequestOf(Blueprint, desired.over, n)]
RelevantOverrides(done) ==
    Restrict1(desired.over, Chosen(desired.over) \cap UNION {DOMAIN done[n].wheels : n \in DOMAIN done \ {1}})

\* resolvedRequestForLockedBuildV1: the lock can be compared at all.
Exact(lock) ==
    /\ Sources(lock) \subseteq OfferedSources
    /\ \A n \in DOMAIN lock.nodes \ {1} : n \in NodesOf(Blueprint) /\ ~Unprojected(lock.nodes, n)

\* CurrentBuildMatches, with the base image that was selected.
CurrentBuildMatches(lock, base) ==
    /\ lock.request = FinalRequest(lock.nodes)
    /\ lock.over = RelevantOverrides(lock.nodes)
    /\ lock.base = base
    /\ lock.policy = Blueprint.policy

TryReuse(lock, base) ==
    /\ lock.builders = {} /\ lock.bindings = {}
    /\ CurrentBuildMatches(lock, base)

\* validateCurrentBuild: a lock of another blueprint is set aside when either
\* has an identity policy.
Unbound == (Blueprint.guarded \/ current.guarded) /\ current.blueprint # desired.doc
CurrentFound == ~call.noCache /\ current # NoLock /\ ~Unbound

CacheAvailable == "root" \notin missing
BundlesReadable == {"root", "bundles"} \cap missing = {}

-----------------------------------------------------------------------------
(* A command up to the decision                                             *)

Fail ==
    /\ phase' = "failed"
    /\ UNCHANGED <<desired, world, tree, current, trial, held, missing, call, offered, reused, reusable,
                   refuted, prefix, bundles, builds, events>>
Goto1(next) == phase' = next

\* The candidate of a validation counts when its inputs are the present ones;
\* its lock must then agree with them, and its whole closure be in the store.
TrialMatches == trial # NoLock /\ trial.inputs = desired
TrialAgrees == trial.lock.over = Restrict1(desired.over, Chosen(desired.over))

BeginBuild(mode, noCache, verify) ==
    /\ phase = "idle" /\ builds < MaxBuilds
    /\ call' = [mode |-> mode, noCache |-> noCache, verify |-> verify]
    /\ offered' = (~noCache /\ TrialMatches /\ missing = {})
    /\ phase' = IF \/ mode = "automatic" /\ Blueprint.guarded
                   \/ ~noCache /\ TrialMatches /\ ~TrialAgrees
                   \/ ~PlanValid(Blueprint)
                THEN "failed" ELSE "prepare"
    /\ reused' = "none" /\ reusable' = NoLock /\ refuted' = FALSE
    /\ prefix' = <<>> /\ bundles' = <<>> /\ builds' = builds + 1
    /\ UNCHANGED <<desired, world, tree, current, trial, held, missing, events>>

\* prepareLockedProviderBuildV1; cachedBase: the locked base is still held.  The
\* bundles of the locked Python nodes are loaded until one of them is no longer
\* planned, which ends the comparison: the loading must fail only without one.
Comparable == CurrentFound /\ CacheAvailable /\ Blueprint.tools = {}
PrepareFails ==
    \/ CurrentFound /\ held["current"] = "gone"
    \/ /\ Comparable /\ Sources(current) \subseteq OfferedSources /\ ~BundlesReadable
       /\ LET locked == DOMAIN current.nodes \ {1} IN locked # {} /\ locked \subseteq NodesOf(Blueprint)
ReuseCurrent(cachedBase) ==
    /\ Comparable /\ Exact(current)
    /\ \/ cachedBase /\ TryReuse(current, current.base)
       \/ TryReuse(current, world.base)
ReuseTrial ==
    /\ offered /\ CacheAvailable /\ Blueprint.tools = {}
    /\ Exact(trial.lock) /\ TryReuse(trial.lock, world.base)

PrepareBuild(cachedBase) ==
    /\ phase = "prepare" /\ ~PrepareFails
    /\ reused' = IF ReuseCurrent(cachedBase) THEN "current" ELSE IF ReuseTrial THEN "trial" ELSE "none"
    /\ reusable' = CASE ~CacheAvailable -> NoLock
                     [] offered /\ ~ReuseCurrent(cachedBase) -> trial.lock
                     [] CurrentFound -> current
                     [] OTHER -> NoLock
    /\ prefix' = IF reused' = "none" THEN <<BaseLayer(world.base)>> ELSE <<>>
    /\ Goto1(IF reused' = "none" THEN "graph" ELSE IF call.verify THEN "verify" ELSE "reuse")
    /\ UNCHANGED <<desired, world, tree, current, trial, held, missing, call, offered, refuted, bundles,
                   builds, events>>

\* A reused build that does not verify is built anew, without the cache.
ReusedVerifies == held[reused] = "ok"
VerifyReused ==
    /\ phase = "verify"
    /\ IF ReusedVerifies
       THEN Goto1("reuse") /\ UNCHANGED <<call, reused, reusable, offered, refuted, prefix>>
       ELSE /\ refuted' = TRUE /\ call' = [call EXCEPT !.noCache = TRUE]
            /\ reused' = "none" /\ reusable' = NoLock /\ offered' = FALSE
            /\ prefix' = <<BaseLayer(world.base)>>
            /\ Goto1("graph")
    /\ UNCHANGED <<desired, world, tree, current, trial, held, missing, bundles, builds, events>>

-----------------------------------------------------------------------------
(* Execution: a reuse, or the graph and its lock                            *)

PublishCurrent(lock) ==
    /\ current' = lock /\ trial' = NoLock
    /\ held' = [held EXCEPT !["current"] = IF reused = "none" THEN "ok" ELSE held[reused]]
\* publishValidatedBuild: the lock must agree with the inputs of the trial.
PublishValidated(lock) ==
    /\ trial' = [blueprint |-> lock.blueprint, lock |-> lock, inputs |-> desired]
    /\ held' = [held EXCEPT !["trial"] = IF reused = "none" THEN "ok" ELSE held[reused]]
    /\ UNCHANGED current
AgreesWithInputs(lock) == lock.over = Restrict1(desired.over, Chosen(desired.over))

Rebound(lock) == [lock EXCEPT !.blueprint = desired.doc]

ReuseBuild ==
    /\ phase = "reuse"
    /\ LET lock == IF reused = "trial" THEN trial.lock ELSE current
       IN  \/ /\ call.mode = "choices" /\ reused = "trial" /\ held["trial"] # "gone"
              /\ UNCHANGED <<current, trial, held>>
           \/ /\ call.mode = "choices" /\ reused = "current"
              /\ AgreesWithInputs(lock) /\ PublishValidated(Rebound(lock))
           \/ /\ call.mode # "choices" /\ reused = "trial" /\ held["trial"] # "gone"
              /\ PublishCurrent(Rebound(lock))
           \/ /\ call.mode # "choices" /\ reused = "current"
              /\ PublishCurrent(Rebound(lock))
    /\ Goto1("done")
    /\ UNCHANGED <<deploymentVars, world, call, offered, reused, reusable, refuted, graphVars, events>>

NextNode == PlannedOrder[Len(prefix) + 1]

\* (Mutation: what was offered to prove exact reuse stays in the request.)
GraphSourcesKept == OfferedSources
\* The sources that the graph is executed with; its own are built on the way.
GraphSources == {}

\* The resolution that the reusable lock offers a node: same request within its
\* closure, the sources of the request, all artifacts in the store, no portable
\* tools.
CachedResolution(n) ==
    /\ reusable # NoLock /\ n \in DOMAIN reusable.nodes
    /\ reusable.nodes[n].req = NarrowTo(RequestOf(Blueprint, desired.over, n), DOMAIN reusable.nodes[n].wheels)
    /\ \A p \in DOMAIN reusable.nodes[n].src : <<n, p, reusable.nodes[n].src[p]>> \in GraphSources
    /\ "artifacts" \notin missing
    /\ n \notin reusable.builders \union reusable.bindings \union Blueprint.tools

Built == [i \in DOMAIN prefix |-> prefix[i].node]
FreshBundle(n) ==
    LET request == RequestOf(Blueprint, desired.over, n)
        versions == Versions(desired.over, world.repo)
        wheels == IF n = 1 THEN [x \in Blueprint.apt |-> world.repo]
                  ELSE Restrict1(versions, Reaches(request.direct, versions))
    IN  [node |-> n, up |-> prefix, req |-> NarrowTo(request, DOMAIN wheels),
         sel |-> IF n = 1 THEN NoNode
                 ELSE Head(Compatible(Blueprint, n, Built)),
         wheels |-> wheels, src |-> [p \in Locals(wheels) |-> tree[p]]]

Unmet(n) == n # 1 /\ Compatible(Blueprint, n, Built) = <<>>
LoadReuseFails == reusable # NoLock /\ ~BundlesReadable /\ DOMAIN reusable.nodes \cap NodesOf(Blueprint) # {}

\* What a prepared resolution must be, and the image it is materialized on.
ValidateResolveResult(n, bundle) ==
    /\ bundle.node = n /\ bundle.up = prefix
    /\ bundle.req = NarrowTo(RequestOf(Blueprint, desired.over, n), DOMAIN bundle.wheels)
    /\ n # 1 => LET found == Candidates(Blueprint, n, Built) IN \E i \in DOMAIN found : found[i] = bundle.sel
ValidateMaterializeInput(bundle) == bundle.up = prefix

\* ExecuteProviderGraph, one node: a cached resolution is accepted only in the
\* session of the image it was made for, otherwise the node is resolved anew.
ExecuteNode ==
    /\ phase = "graph" /\ Len(prefix) < Len(PlannedOrder)
    /\ ~LoadReuseFails
    /\ LET n == NextNode
           cached == CachedResolution(n) /\ reusable.nodes[n].up = prefix
           bundle == IF cached THEN reusable.nodes[n] ELSE FreshBundle(n)
       IN  /\ ~cached => ~Unmet(n)
           /\ ValidateResolveResult(n, bundle) /\ ValidateMaterializeInput(bundle)
           /\ prefix' = Append(prefix, LayerOf(bundle))
           /\ bundles' = [m \in DOMAIN bundles \union {n} |-> IF m = n THEN bundle ELSE bundles[m]]
    /\ UNCHANGED <<deploymentVars, world, current, trial, held, call, phase, offered, reused, reusable,
                   refuted, events>>

SelectedEdges(done) == {<<done[n].sel, n>> : n \in DOMAIN done \ {1}}
Builders(done) == {n \in DOMAIN done : DOMAIN done[n].src \cap Recipes # {}}

\* AssembleBuildLock and ValidateBuildLockV1.
AssembledLock ==
    [blueprint |-> desired.doc, guarded |-> Blueprint.guarded, request |-> FinalRequest(bundles),
     over |-> RelevantOverrides(bundles), base |-> prefix[1].wheels["base"], policy |-> Blueprint.policy,
     nodes |-> bundles, edges |-> SelectedEdges(bundles), image |-> prefix,
     builders |-> Builders(bundles), bindings |-> Blueprint.tools]
ImageLineage(lock) ==
    LET order == StableOrder(NodesOf(Blueprint), lock.edges)
    IN  /\ Len(order) = Len(lock.image)
        /\ \A i \in 2..Len(order) : lock.nodes[order[i]].up = SubSeq(lock.image, 1, i - 1)
GraphLockValid(lock) ==
    /\ \A e \in lock.edges : e[1] \in NodesOf(Blueprint) /\ e[2] \in DOMAIN lock.nodes /\ e[1] # e[2]
    /\ Len(StableOrder(NodesOf(Blueprint), lock.edges)) = Cardinality(NodesOf(Blueprint))
NodeLockValid(lock, n) == lock.nodes[n].node = n
PortableToolPlanAgrees(lock) ==
    lock.builders \union lock.bindings # {} => \A e \in lock.edges : Declares(Blueprint, e[1])
LockValid(lock) ==
    /\ GraphLockValid(lock) /\ \A n \in DOMAIN lock.nodes : NodeLockValid(lock, n)
    /\ ImageLineage(lock) /\ PortableToolPlanAgrees(lock)

\* The request is derived again from the overrides that the closures kept.
CompletionInputValid ==
    LET kept == RelevantOverrides(bundles)
        over == [p \in Packages |-> IF p \in DOMAIN kept THEN kept[p] ELSE "none"]
    IN  /\ DOMAIN bundles = NodesOf(Blueprint) \ {0}
        /\ \A n \in DOMAIN bundles \ {1} :
              bundles[n].req = NarrowTo(RequestOf(Blueprint, over, n), DOMAIN bundles[n].wheels)

CompleteBuild ==
    /\ phase = "graph" /\ Len(prefix) = Len(PlannedOrder)
    /\ \A n \in DOMAIN bundles \ {1} : ~Unprojected(bundles, n)
    /\ CompletionInputValid /\ LockValid(AssembledLock)
    /\ \/ call.mode = "choices" /\ AgreesWithInputs(AssembledLock) /\ PublishValidated(AssembledLock)
       \/ call.mode # "choices" /\ PublishCurrent(AssembledLock)
    /\ missing' = {} /\ Goto1("done")
    /\ UNCHANGED <<desired, world, tree, call, offered, reused, reusable, refuted, graphVars, builds, events>>

\* Every stage may fail, and some must: what was published stays.
BuildFails == phase \in {"prepare", "verify", "reuse", "graph"} /\ Fail

ReturnBuild ==
    /\ phase \in {"done", "failed"} /\ phase' = "idle"
    /\ prefix' = <<>> /\ bundles' = <<>> /\ reused' = "none" /\ reusable' = NoLock
    /\ call' = NoCall /\ offered' = FALSE /\ refuted' = FALSE
    /\ UNCHANGED <<deploymentVars, world, current, trial, held, events>>

-----------------------------------------------------------------------------
(* Changes made by others                                                   *)

Meanwhile == events < MaxEvents /\ events' = events + 1

Restage(d, intent) ==
    /\ Meanwhile /\ phase = "idle" /\ desired' = [doc |-> d, over |-> intent] /\ desired' # desired
    /\ UNCHANGED <<world, tree, current, trial, held, missing, call, phase, offered, reused, reusable,
                   refuted, graphVars, builds>>
Upstream(what) ==
    /\ phase = "idle" /\ world[what] = "1" /\ world' = [world EXCEPT ![what] = "2"]
    /\ UNCHANGED <<deploymentVars, current, trial, held, call, phase, offered, reused, reusable, refuted,
                   graphVars, events>>
EditCheckout(p) ==
    /\ Meanwhile /\ phase = "idle" /\ tree' = [tree EXCEPT ![p] = @ + 1]
    /\ UNCHANGED <<desired, world, current, trial, held, missing, call, phase, offered, reused, reusable,
                   refuted, graphVars, builds>>
LoseStore(part) ==
    /\ Meanwhile /\ phase = "idle" /\ missing' = missing \union {part}
    /\ UNCHANGED <<desired, world, tree, current, trial, held, call, phase, offered, reused, reusable,
                   refuted, graphVars, builds>>
HarmImage(i, how) ==
    /\ Meanwhile /\ phase = "idle" /\ held' = [held EXCEPT ![i] = how]
    /\ IF i = "current" THEN current # NoLock ELSE trial # NoLock
    /\ UNCHANGED <<deploymentVars, world, current, trial, call, phase, offered, reused, reusable, refuted,
                   graphVars>>

ProviderNext ==
    \/ \E mode \in Modes, <<noCache, verify>> \in {<<TRUE, FALSE>>, <<FALSE, TRUE>>, <<FALSE, FALSE>>} :
          BeginBuild(mode, noCache, verify)
    \/ \E cachedBase \in BOOLEAN : PrepareBuild(cachedBase)
    \/ VerifyReused \/ ReuseBuild \/ ExecuteNode \/ CompleteBuild \/ BuildFails \/ ReturnBuild
    \/ \E d \in Documents, intent \in Intents : Restage(d, intent)
    \/ \E what \in {"base", "repo"} : Upstream(what)
    \/ \E p \in Packages : EditCheckout(p)
    \/ \E part \in {"root", "bundles", "artifacts"} : LoseStore(part)
    \/ \E i \in {"current", "trial"}, how \in {"gone", "bad"} : HarmImage(i, how)

ProviderSpec == ProviderInit /\ [][ProviderNext]_providerVars

-----------------------------------------------------------------------------
(* Properties                                                               *)

Result == IF call.mode = "choices" THEN trial.lock ELSE current

\* The closure of a node is the one that the present overrides demand: they are
\* obeyed, nothing required is absent, and nothing else is in it.
DemandedClosure(lock, n) ==
    LET wheels == lock.nodes[n].wheels
        versions == [p \in Packages |-> IF p \in DOMAIN wheels THEN wheels[p]
                                        ELSE IF desired.over[p] = "none" THEN "1" ELSE desired.over[p]]
    IN  /\ \A p \in DOMAIN wheels \cap Chosen(desired.over) : wheels[p] = desired.over[p]
        /\ \A p \in DOMAIN wheels \ Chosen(desired.over) : wheels[p] # "local"
        /\ DOMAIN wheels = Reaches(Blueprint.direct[n], versions)

\* A command that succeeds leaves the build that the staged blueprint and the
\* overrides ask for, however much of an earlier build it took over.
BuildsWhatIsDesired ==
    phase = "done" =>
        /\ Result.blueprint = desired.doc /\ Result.policy = Blueprint.policy
        /\ DOMAIN Result.nodes = NodesOf(Blueprint) \ {0}
        /\ \A n \in Blueprint.apps : DemandedClosure(Result, n)
        /\ \A n \in Blueprint.apps : Blueprint.supplier[n] \in {NoNode, Result.nodes[n].sel}

\* The layers of a published image are the ones its nodes were resolved on, and
\* each node runs on an interpreter of an earlier layer of that image.
LineageHolds ==
    phase = "done" =>
        /\ \A n \in DOMAIN Result.nodes :
              LET up == Result.nodes[n].up
              IN  /\ up = SubSeq(Result.image, 1, Len(up))
                  /\ Result.image[Len(up) + 1] = LayerOf(Result.nodes[n])
                  /\ n # 1 => \E i \in DOMAIN up : up[i].node = Result.nodes[n].sel
        /\ Len(Result.image) = Cardinality(DOMAIN Result.nodes) + 1

\* Every local checkout of the closure is built anew, by every command that
\* builds and by every command given by hand; only an automatic check may take
\* over a whole build whose checkouts were edited meanwhile.
CheckoutsAreFresh ==
    phase = "done" /\ (call.mode # "automatic" \/ reused = "none") =>
        \A n \in DOMAIN Result.nodes : \A p \in DOMAIN Result.nodes[n].src : Result.nodes[n].src[p] = tree[p]

\* Without the cache, and after a reused image did not verify, nothing of an
\* earlier build is taken over.
UncachedIsFresh ==
    phase = "done" /\ (call.noCache \/ refuted) =>
        /\ Result.base = world.base
        /\ \A n \in DOMAIN Result.nodes : \A p \in DOMAIN Result.nodes[n].wheels :
              \/ Result.nodes[n].wheels[p] = world.repo
              \/ n # 1 /\ p \in Chosen(desired.over)

\* A verified build, and one promoted from a trial, is an image that is there.
VerifiedImageStands ==
    phase = "done" =>
        /\ call.verify => held[IF call.mode = "choices" THEN "trial" ELSE "current"] = "ok"
        /\ reused = "trial" => held[IF call.mode = "choices" THEN "trial" ELSE "current"] # "gone"

ProviderBuildSound ==
    /\ BuildsWhatIsDesired /\ LineageHolds /\ CheckoutsAreFresh /\ UncachedIsFresh /\ VerifiedImageStands

===============================================================================
