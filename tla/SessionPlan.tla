----------------------------- MODULE SessionPlan -----------------------------
(***************************************************************************)
(* The plan of a controlled session: which mounts, masks, networks and     *)
(* setup capabilities the controller's and the workload's containers get   *)
(* from their deployments' runtime plans (controlled_session_plan.go), the *)
(* masks that keep private deployment files out of a container             *)
(* (private_workload_environment.go), and the runtime policy that keeps    *)
(* mounts off the executables (runtime_policy_compile.go).                 *)
(*                                                                         *)
(* A path is the sequence of its elements, both in the host and in the     *)
(* container.  A symbolic link of the host is a path with another as its   *)
(* meaning.  The planner reads only: a request is made, then planned or    *)
(* refused.                                                                *)
(***************************************************************************)
EXTENDS Naturals, Sequences, FiniteSets
Paths == INSTANCE SequencesExt

CONSTANTS
    MountSources,   \* host paths a runtime plan mounts
    MountTargets,   \* container paths it mounts them at
    LinkTo          \* what the host's one symbolic link, <<"link">>, stands for

GivenPaths == MountSources \cup MountTargets \cup {LinkTo}

\* What paths are made of: the elements of those given, and the names below.
Elements ==
    (UNION {{p[i] : i \in DOMAIN p} : p \in GivenPaths})
    \cup {"link", "c", "w", "meta", "env", "session", "socket", "prefixes", "x",
          "run", "output", "bin", "opt", "app", "probe", "reploy", "volume"}

ASSUME PlanPaths == GivenPaths \subseteq Seq(Elements)

Roles == {"controller", "workload"}

VARIABLES request, plan

planVars == <<request, plan>>

NoPlan == [status |-> "none"]

----------------------------------------------------------------------------
(* Paths.                                                                  *)

\* q is p or lies below it.
Encloses(p, q) == Paths!IsPrefix(p, q)

\* One path is the other or lies below it (runtimePolicyPathsOverlap).
Overlap(p, q) == Encloses(p, q) \/ Encloses(q, p)

Below(p, q) == SubSeq(q, Len(p) + 1, Len(q))

\* The path with its links resolved, also where it does not exist yet.
Canonical(p) == IF Encloses(<<"link">>, p) THEN LinkTo \o Below(<<"link">>, p) ELSE p

Root(r) == IF r = "controller" THEN <<"c">> ELSE <<"w">>
ChannelHost == Root("workload") \o <<"meta", "session">>
ChannelTarget == <<"run", "session">>
PrefixesTarget == <<"run", "prefixes">>
OutputTarget == <<"output">>

----------------------------------------------------------------------------
(* Grants.  A grant is a set of "public", "local" and "ambiguous".         *)

NeedsOrdinaryNetwork(grants) == grants # {}

InstallsNetworkPolicy(grants, session) == session \/ NeedsOrdinaryNetwork(grants)

DockerNetworkMode(grants) == IF NeedsOrdinaryNetwork(grants) THEN "bridge" ELSE "none"

\* A container of mode none cannot be connected later: with a session network
\* it is created on the bridge, which attachment takes away again.
CreateNetwork(grants, session) ==
    IF session /\ DockerNetworkMode(grants) = "none" THEN "bridge" ELSE DockerNetworkMode(grants)

SetupCapabilities(uid, installs) ==
    {"SETGID", "SETPCAP"} \cup (IF installs THEN {"NET_ADMIN"} ELSE {})
                          \cup (IF uid # 0 THEN {"SETUID"} ELSE {})

----------------------------------------------------------------------------
(* Masks.                                                                  *)

\* What no container may see of a deployment: its metadata directory and its
\* private environment file.
Protected == {[path |-> Canonical(Root(r)) \o <<n>>, kind |-> IF n = "meta" THEN "dir" ELSE "file"] :
                 r \in Roles, n \in {"meta", "env"}}

\* (Mutation: only a protected path below the mount is masked.)
MaskTargetsBelow(mount, p) ==
    LET source == Canonical(mount.source) IN
    IF Encloses(source, p.path) THEN {[target |-> mount.target \o Below(source, p.path), kind |-> p.kind]}
    ELSE {}

\* The mask a mount needs because of one protected path: at the place where the
\* path appears, or over the whole mount when that lies inside the path.
MaskTargets(mount, p) ==
    LET source == Canonical(mount.source) IN
    IF Encloses(source, p.path) THEN {[target |-> mount.target \o Below(source, p.path), kind |-> p.kind]}
    ELSE IF Encloses(p.path, source) THEN {[target |-> mount.target, kind |-> mount.kind]}
    ELSE {}

Masks(mounts) == UNION {MaskTargets(m, p) : m \in {n \in mounts : n.type = "bind"}, p \in Protected}

MasksAgree(masks) == \A a, b \in masks : a.target = b.target => a = b

----------------------------------------------------------------------------
(* The runtime policy compiled at the build: no mount over an executable   *)
(* the plan runs, over anything on the way to it, or over what is Reploy's *)
(* own in the image.                                                       *)

ExecutablePaths == {<<"bin", "app">>, <<"opt", "app">>}
ProtectedPaths == {<<"probe">>, <<"reploy">>} \cup ExecutablePaths

\* validateRuntimePolicyOverlays, for the mounts of the runtime plan.
PolicyAllows(mounts) ==
    /\ \A a, b \in mounts : a # b => ~Overlap(a.target, b.target)
    /\ \A m \in mounts, p \in ProtectedPaths : ~Overlap(m.target, p)

----------------------------------------------------------------------------
(* The container plan.                                                     *)

Bind(name, source, kind, target) ==
    [name |-> name, type |-> "bind", source |-> source, kind |-> kind, target |-> target]

ChannelMount == Bind("session-channel", ChannelHost, "dir", ChannelTarget)
PrefixesMount == Bind("session-network-prefixes", ChannelHost \o <<"prefixes">>, "file", PrefixesTarget)

SessionMounts(q) ==
    (IF q.role = "controller" THEN {ChannelMount} ELSE {})
    \cup (IF q.endpoints THEN {PrefixesMount} ELSE {})

\* The output of a controller command is a mount like the runtime plan's own.
OwnMounts(q) ==
    q.mounts \cup (IF q.output = <<>> THEN {} ELSE {Bind("controller-output", q.output, "dir", OutputTarget)})

ContainerPlan(q) ==
    [status |-> "planned",
     role |-> q.role,
     mounts |-> OwnMounts(q) \cup SessionMounts(q),
     masks |-> Masks(OwnMounts(q)),
     network |-> DockerNetworkMode(q.grants),
     create |-> CreateNetwork(q.grants, q.endpoints),
     capabilities |-> SetupCapabilities(q.uid, InstallsNetworkPolicy(q.grants, q.endpoints)),
     installs |-> InstallsNetworkPolicy(q.grants, q.endpoints),
     channelSocket |-> q.role = "controller"]

\* validateControlledSessionMountsV1: unique names, no target inside another.
MountsValid(mounts) ==
    \A a, b \in mounts : a # b => a.name # b.name /\ ~Overlap(a.target, b.target)

\* controlledSessionContainerExposesChannelV1, asked of the workload.
ExposesChannel(p) ==
    p.channelSocket \/ \E m \in p.mounts : Overlap(m.target, ChannelTarget)

\* The masks computed again from the plan's mounts without the two that the
\* session adds at their fixed places.
MasksMatch(p) ==
    LET added == (IF p.role = "controller" THEN {ChannelMount} ELSE {}) \cup {PrefixesMount}
    IN  p.masks = Masks(p.mounts \ added)

\* validateControlledSessionOutputV1: what is mounted at the place of the output
\* is the controller's own output.
OutputFixed(p) ==
    \A m \in p.mounts : m.target = OutputTarget =>
        p.role = "controller" /\ m = Bind("controller-output", m.source, "dir", OutputTarget)

\* ValidateControlledSessionExecutionPlanV1 with the container's own checks.
PlanValid(q, p) ==
    /\ Canonical(Root("controller")) # Canonical(Root("workload"))
    /\ p.role = "workload" => ~ExposesChannel(p)
    /\ p.role = "controller" => p.channelSocket /\ ChannelMount \in p.mounts
    /\ MountsValid(p.mounts)
    /\ OutputFixed(p)
    /\ (PrefixesMount \in p.mounts) = q.endpoints
    /\ p.network = DockerNetworkMode(q.grants)
    /\ p.capabilities = SetupCapabilities(q.uid, InstallsNetworkPolicy(q.grants, q.endpoints))
    /\ MasksMatch(p)

----------------------------------------------------------------------------
(* Requests the runtime plans of two deployments can lead to.              *)

PlainMounts ==
    {Bind("data", s, k, t) : s \in MountSources, k \in {"dir", "file"}, t \in MountTargets}
    \cup {[name |-> "data", type |-> "volume", source |-> <<"volume">>, kind |-> "generated", target |-> t] :
             t \in MountTargets}

\* A second mount beside the first, under another name.
MoreMounts == {Bind("more", s, "dir", t) : s \in MountSources, t \in MountTargets}

Requests ==
    [role : Roles, mounts : {{}} \cup {{m} : m \in PlainMounts} \cup {{m, n} : m \in PlainMounts, n \in MoreMounts},
     output : {<<>>}, grants : {{}}, endpoints : BOOLEAN, uid : {1000}]
    \cup
    [role : Roles, mounts : {{}} \cup {{m} : m \in MoreMounts}, output : {<<>>} \cup MountSources,
     grants : SUBSET {"public", "local", "ambiguous"}, endpoints : BOOLEAN, uid : {0, 1000}]

PlanInit == request \in Requests /\ plan = NoPlan

\* planControlledSessionV1 for one of the two containers.  An output is asked
\* for by a controller command only.
PlanSession ==
    /\ plan = NoPlan
    /\ LET p == ContainerPlan(request) IN
       plan' = IF /\ request.output # <<>> => request.role = "controller"
                  /\ PolicyAllows(request.mounts)
                  /\ MasksAgree(p.masks)
                  /\ PlanValid(request, p)
               THEN p ELSE [status |-> "refused"]
    /\ UNCHANGED request

PlanNext == PlanSession

PlanSpec == PlanInit /\ [][PlanNext]_planVars

----------------------------------------------------------------------------
(* Properties.                                                             *)

\* Where a file of the host appears in a container, if a mount shows it.
Appears(m, file) ==
    LET source == Canonical(m.source) IN
    IF Encloses(source, file) THEN {m.target \o Below(source, file)} ELSE {}

PrivateFiles == {p.path : p \in Protected} \cup {p.path \o <<"x">> : p \in {q \in Protected : q.kind = "dir"}}
                \cup {ChannelHost, ChannelHost \o <<"socket">>}

\* Nothing private of either deployment is seen in a planned container, through
\* a mount of an ancestor, of the private path itself, of something inside it
\* or of a link to one of them (privateRuntimeMasksForDeploymentRootsV1), other
\* than the session's own channel, in the controller.
PrivateFilesHidden ==
    plan.status = "planned" =>
        \A m \in plan.mounts \ {ChannelMount, PrefixesMount}, f \in PrivateFiles :
            m.type = "bind" =>
                \A c \in Appears(m, f) : \E k \in plan.masks : Encloses(k.target, c)

\* The places a session itself uses; the prefixes only when it has endpoints.
SessionTargets(q) == {ChannelTarget} \cup (IF q.endpoints THEN {PrefixesTarget} ELSE {})

\* Neither a mount nor a mask of a planned container hides the executable it
\* starts, the startup verifier or the places the session itself uses.
NothingCovered ==
    plan.status = "planned" =>
        /\ \A k \in plan.masks, p \in ProtectedPaths \cup SessionTargets(request) : ~Overlap(k.target, p)
        /\ \A m \in plan.mounts, p \in ProtectedPaths : ~Overlap(m.target, p)

\* A container without a grant of its own never keeps an ordinary network, and
\* one that has any network at all can and does install the packet filter.
NetworksFiltered ==
    plan.status = "planned" =>
        /\ (plan.network # "none" \/ plan.create # "none") => plan.installs /\ "NET_ADMIN" \in plan.capabilities
        /\ ~plan.installs => "NET_ADMIN" \notin plan.capabilities

\* What the planner assembles it also accepts: a request whose mounts are
\* allowed, lie apart from the session's places and agree on their masks is
\* never refused by the final validation.
AssembledIsAccepted ==
    plan.status = "refused" =>
        \/ request.role = "workload" /\ request.output # <<>>
        \/ ~PolicyAllows(request.mounts)
        \/ ~MasksAgree(Masks(OwnMounts(request)))
        \/ \E m \in request.mounts, t \in {ChannelTarget, PrefixesTarget, OutputTarget} : Overlap(m.target, t)

\* A planned session shows no private file, covers nothing it needs, filters
\* every network it has, and is refused only for what the request asks.
PlanSound == PrivateFilesHidden /\ NothingCovered /\ NetworksFiltered /\ AssembledIsAccepted

===============================================================================
