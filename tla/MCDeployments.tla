---------------------------- MODULE MCDeployments ----------------------------
(***************************************************************************)
(* Small instances, side by side, of the components of a deployment: the   *)
(* publication of builds, the lifecycle of the current workload,           *)
(* installation and removal, and the resolution of portable tools.  Each   *)
(* models what it needs of the others by itself, so a behaviour is one of  *)
(* any one of them: component says which, and the others stay in their     *)
(* first state.                                                            *)
(***************************************************************************)
EXTENDS BuildPublication, WorkloadLifecycle, Installation, ToolResolution

CONSTANTS g1, g2, g3, g4, g5, g6, plain, portable

VARIABLE component

\* Publication: two build locks, one with a portable layer, and names for each.
MCLockOf == [g \in Generations |-> IF g \in {g1, g2, g3} THEN plain ELSE portable]

\* Resolution: claims of every kind, alone and together, in one operation of
\* two groups; and selections among releases of every verdict.
C(kind, key, value) == [kind |-> kind, key |-> key, value |-> value]
N(form, versions, edge) == C("need", "dist", [form |-> form, versions |-> versions, edge |-> edge])
Rooted(top, bin) ==
    <<C("root", top, "-"), C("value", "tool", bin), C("alias", bin, bin), C("payload", top \o <<"lib">>, "x")>>
MCShapes ==
    {<< >>, Rooted(<<"opt">>, <<"opt", "bin">>), Rooted(<<"opt", "lib">>, <<"usr">>),
     <<C("alias", <<"opt", "lib", "run">>, "r")>>, <<C("value", "env", 1)>>,
     <<C("python", "-", {1, 2}), N("odd", {2}, 3)>>,
     <<C("python", "-", {2, 3}), N("pin", {2}, 2)>>,
     <<N("interval", {1, 2}, 1), C("wheel", "dist", "-"), C("value", "env", 2)>>}
MCActive ==
    {<< >>, <<C("ordinary", <<"opt", "bin">>, "o"), C("value", "env", 1)>>,
     <<C("python range", "-", {1, 3})>>,
     <<C("override", "dist", "local")>>, <<C("source", "dist", "unproven")>>,
     <<C("override", "dist", "version"), N("pin", {1}, 1), C("source", "dist", "proven")>>}
Rel(v, n, claims) ==
    [version |-> v, revision |-> n, aliases |-> {}, prerelease |-> FALSE, needs |-> {}, here |-> TRUE,
     offers |-> {}, cases |-> {{}}, proof |-> [b \in {{}} |-> "usable"], claims |-> claims, bound |-> << >>]
AnyBinding == [all |-> FALSE, infer |-> TRUE, explicit |-> {}]
AnyDemand == [constraint |-> [kind |-> "any"], revision |-> 0, binding |-> AnyBinding]
Request(releases, demand, active, shared) ==
    [catalog |-> releases, demand |-> demand, active |-> active, shared |-> shared,
     client |-> {"extract"}, bindings |-> {"python"}]
MCJoint ==
    {Request(<<{Rel(2, 1, a), Rel(1, 1, b)}, {Rel(2, 2, c), Rel(2, 1, d)}>>,
             <<AnyDemand, AnyDemand>>, x.claims, x.shared) :
     a \in MCShapes, b \in {<< >>, <<C("python", "-", {1})>>},
     c \in MCShapes,
     d \in {<<C("alias", <<"opt">>, "q")>>, <<N("interval", {1, 3}, 1)>>},
     x \in [claims : MCActive, shared : {TRUE}] \cup [claims : {<< >>}, shared : {FALSE}]}
\* Releases that advertise up to two bindings, whose cases and proofs differ
Sets == SUBSET {"python", "go"}
Offering(v, n, offers, cases, proof) ==
    [Rel(v, n, << >>) EXCEPT !.offers = offers, !.cases = cases,
        !.proof = [b \in Sets |-> IF b = {} THEN "usable" ELSE proof], !.bound = <<C("value", "env", 1)>>]
Newest == {[Rel(3, 1, << >>) EXCEPT !.prerelease = TRUE], [Rel(3, 1, << >>) EXCEPT !.needs = {"link"}],
           [Rel(3, 1, << >>) EXCEPT !.here = FALSE],
           Offering(3, 1, {"go", "python"}, Sets, "usable"), Offering(3, 1, {"go"}, Sets, "invalid")}
Revised == {Offering(2, 2, {"go", "python"}, {{}, {"python"}}, "usable"),
            Offering(2, 2, {}, {{}}, "usable"), Offering(2, 2, {"python"}, Sets, "unusable"),
            Offering(2, 2, {"go", "python"}, Sets, "invalid")}
MCSelecting ==
    {Request(<<{x, y, [Rel(2, 1, << >>) EXCEPT !.aliases = {9}], Rel(1, 1, << >>)}, {Rel(1, 1, <<C("value", "env", e)>>)}>>,
             <<[constraint |-> c, revision |-> n, binding |-> b], AnyDemand>>, << >>, TRUE) :
     x \in Newest, y \in Revised, e \in {1, 2},
     c \in {[kind |-> "any"], [kind |-> "range", versions |-> {2, 3}]} \cup [kind : {"token"}, token : {2, 7, 9}],
     n \in {0, 1},
     b \in {AnyBinding, [AnyBinding EXCEPT !.infer = FALSE], [AnyBinding EXCEPT !.infer = FALSE, !.all = TRUE],
            [AnyBinding EXCEPT !.infer = FALSE, !.explicit = {"go"}]}}
MCToolRequests == MCJoint \cup MCSelecting
MCGroups == <<"a", "b">>
RestingRequest == Request(<<{}, {}>>, <<AnyDemand, AnyDemand>>, << >>, TRUE)

deploymentVars == <<component, publicationVars, workloadVars, installVars, resolutionVars>>

Publication ==
    /\ component = "publication" /\ PublicationNext
    /\ UNCHANGED <<component, workloadVars, installVars, resolutionVars>>
Workload ==
    /\ component = "workload" /\ WorkloadNext
    /\ UNCHANGED <<component, publicationVars, installVars, resolutionVars>>
Installing ==
    /\ component = "installation" /\ InstallNext
    /\ UNCHANGED <<component, publicationVars, workloadVars, resolutionVars>>
Resolution ==
    /\ component = "resolution" /\ ResolutionNext
    /\ UNCHANGED <<component, publicationVars, workloadVars, installVars>>

\* One first state of each component that does not move
Pinned ==
    /\ component # "workload" => ~envPresent /\ ~managed
    /\ component # "installation" => systemd

\* The fairness of the components, for the one that moves
DeploymentFairness ==
    /\ WF_publicationVars(component = "publication" /\ Calm)
    /\ WF_publicationVars(component = "publication" /\ Proceed)
    /\ WF_workloadVars(component = "workload" /\ CommandSteps)
    /\ WF_workloadVars(component = "workload" /\ ServiceSteps)
    /\ \A p \in Operators : WF_installVars(component = "installation" /\ OrderSteps(p))

DeploymentsInit ==
    /\ component \in {"publication", "workload", "installation", "resolution"}
    /\ PublicationInit /\ WorkloadInit /\ InstallInit
    /\ IF component = "resolution" THEN ResolutionInit ELSE ResolutionStarts(RestingRequest)
    /\ Pinned

DeploymentsNext == Publication \/ Workload \/ Installing \/ Resolution

DeploymentsSpec == DeploymentsInit /\ [][DeploymentsNext]_deploymentVars /\ DeploymentFairness

===============================================================================
