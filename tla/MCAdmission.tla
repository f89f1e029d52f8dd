----------------------------- MODULE MCAdmission -----------------------------
(***************************************************************************)
(* Small instances, side by side, of the admission queue of a deployment   *)
(* with the commands that use it, of the arithmetic of identity maps, and  *)
(* of the provider builds of a deployment whose inputs and stores change.  *)
(* A behaviour is one of any one of them: component says which, and the    *)
(* others stay in their first state.                                       *)
(***************************************************************************)
EXTENDS MCLiveRunAdmission, IdentityGeometry, ProviderBuild

VARIABLE component

MCHostFiles == <<"nsswitch", "subuid", "passwd">>

\* Builds: p at version 2, and from a checkout, requires q.  An override of
\* q alone is unused; a checkout of q is built with portable tools.
MCNeeds ==
    [p \in {"p", "q", "u"} |-> [v \in {"1", "2", "local"} |-> IF p = "p" /\ v # "1" THEN {"q"} ELSE {}]]
MCIntents == {[p |-> "none", q |-> "2", u |-> "none"], [p |-> "2", q |-> "local", u |-> "none"],
              [p |-> "local", q |-> "2", u |-> "none"]}
Plain == [apps |-> {2, 3}, direct |-> [a \in {2, 3} |-> IF a = 2 THEN {"p"} ELSE {"u"}],
          supplier |-> [a \in {2, 3} |-> IF a = 2 THEN NoNode ELSE 1],
          offers |-> {0, 1}, fits |-> [a \in {2, 3} |-> {0, 1}], apt |-> {"deb"},
          policy |-> 1, guarded |-> FALSE, tools |-> {}]
MCBlueprints ==
    [d \in {"plain", "runtime", "policy", "script", "guarded", "tools"} |->
        CASE d = "policy" -> [Plain EXCEPT !.policy = 2, !.direct[3] = {"q"}]
          [] d = "script" -> [Plain EXCEPT !.offers = {0, 2}, !.fits[3] = {2}, !.apt = {},
                                           !.supplier = [a \in {2, 3} |-> NoNode]]
          [] d = "guarded" -> [Plain EXCEPT !.guarded = TRUE]
          [] d = "tools" -> [Plain EXCEPT !.tools = {3}]
          [] OTHER -> Plain]
NoOverride == [p \in Packages |-> "none"]

liveVars == <<component, admissionVars, geometryVars, providerVars>>

Admitting ==
    /\ component = "admission" /\ AdmissionNext
    /\ UNCHANGED <<component, geometryVars, providerVars>>
Calculating ==
    /\ component = "geometry" /\ GeometryNext
    /\ UNCHANGED <<component, admissionVars, providerVars>>
Building ==
    /\ component = "build" /\ ProviderNext
    /\ UNCHANGED <<component, admissionVars, geometryVars>>

LiveInit ==
    /\ component \in {"admission", "geometry", "build"}
    /\ AdmissionInit
    /\ GeometryInit
    /\ IF component = "build" THEN ProviderInit ELSE ProviderBuildOf("plain", NoOverride)

LiveNext == Admitting \/ Calculating \/ Building

LiveSpec == LiveInit /\ [][LiveNext]_liveVars

===============================================================================
