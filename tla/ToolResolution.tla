---------------------------- MODULE ToolResolution ----------------------------
(***************************************************************************)
(* The resolution of portable tools: from each requirement group the       *)
(* releases that can satisfy it, newest first, then by backtracking one    *)
(* release for every group such that what they claim of packages, paths,   *)
(* environment, exports, capabilities and Python is free of conflicts with *)
(* each other and with the active providers.                               *)
(*                                                                         *)
(* Source: candidates.go and solver.go of internal/toolcatalog, python.go  *)
(* of internal/portabletool.  The records a release refers to are reduced  *)
(* to the claims they make; versions and constraints are numbers and sets  *)
(* of them, whatever their scheme; a path is a sequence of names.          *)
(***************************************************************************)
EXTENDS Naturals, Sequences, FiniteSets

CONSTANTS
    Groups,          \* requirement groups in canonical order of scope and tool
    ToolRequests,    \* operations: see below
    StateCap         \* maxJointAssignmentStatesV1

\* A request holds for every group the releases of its tool and the demand for
\* a version and for bindings, the primitives of the client, the bindings and
\* the claims of the active providers, and whether the scopes of the groups
\* share their provider domains.
ASSUME ResolutionBounds ==
    /\ Len(Groups) > 0 /\ StateCap \in Nat \ {0}
    /\ \A q \in ToolRequests :
         /\ DOMAIN q.catalog = DOMAIN Groups /\ DOMAIN q.demand = DOMAIN Groups
         /\ \A i \in DOMAIN Groups : \A r, s \in q.catalog[i] :
                r.version = s.version /\ r.revision = s.revision => r = s

VARIABLES
    request,      \* what is asked: fixed for the operation
    stage,        \* the step of the operation, or how it ended
    ordered,      \* releases enumerated for the group at hand and not yet reduced
    candidates,   \* per group reduced so far, its candidates, newest first
    selected,     \* the search: per group on the path, the index of its candidate
    visited

resolutionVars == <<request, stage, ordered, candidates, selected, visited>>

Indices == DOMAIN Groups

ResolutionStarts(q) ==
    /\ request = q
    /\ stage = "enumerate" /\ ordered = << >> /\ candidates = << >>
    /\ selected = << >> /\ visited = 0

ResolutionInit == \E q \in ToolRequests : ResolutionStarts(q)

Ended == {"resolved", "unsatisfiable", "capped", "no release", "no candidate",
          "invalid definition", "bad demand"}

-----------------------------------------------------------------------------
(* Candidates of one group                                                  *)

\* classifyRequestedVersionV1: a token that a release of the tool advertises,
\* as its version or as an alias, is a coordinate and no comparison.
Exact(releases, c) == c.kind = "token" /\ \E r \in releases : c.token \in {r.version} \cup r.aliases

\* releaseSatisfiesConstraintV1: without a constraint only stable versions.
Satisfies(releases, r, c) ==
    CASE c.kind = "any" -> ~r.prerelease
      [] Exact(releases, c) -> c.token \in {r.version} \cup r.aliases
      [] c.kind = "token" -> FALSE
      [] OTHER -> r.version \in c.versions

\* enumerateReleaseCandidatesV1
Matching(releases, d) ==
    {r \in releases : Satisfies(releases, r, d.constraint) /\ d.revision \in {0, r.revision}}

Newer(r, s) ==
    \/ r.version > s.version
    \/ r.version = s.version /\ r.revision > s.revision

NewestFirst(rs) ==
    CHOOSE s \in [1..Cardinality(rs) -> rs] : \A i, j \in DOMAIN s : i < j => Newer(s[i], s[j])

Group == Len(candidates) + 1
Demand(i) == request.demand[i]
Releases(i) == request.catalog[i]

\* A pinned revision needs an exact version; the intersection of the
\* constraints must hold something before the revision is looked at.
Enumerate ==
    /\ stage = "enumerate"
    /\ LET rs == Releases(Group)
           d == Demand(Group)
       IN IF d.revision # 0 /\ ~Exact(rs, d.constraint)
          THEN stage' = "bad demand" /\ UNCHANGED <<ordered, candidates>>
          ELSE IF Matching(rs, d) = {}
          THEN stage' = "no release" /\ UNCHANGED <<ordered, candidates>>
          ELSE /\ ordered' = NewestFirst(Matching(rs, d))
               /\ candidates' = Append(candidates, << >>)
               /\ stage' = "reduce"
    /\ UNCHANGED <<request, selected, visited>>

\* resolveRequestedBindingsV1: all that the target advertises, or the ones
\* named; omitted bindings are inferred from the active ones and, when none
\* matches, from a target that advertises only one.
Inferred(r) ==
    IF request.bindings \cap r.offers # {} THEN request.bindings \cap r.offers ELSE r.offers
Ambiguous(r, b) ==
    b.infer /\ request.bindings \cap r.offers = {} /\ Cardinality(r.offers) > 1
Wanted(r, b) ==
    (IF b.all THEN r.offers ELSE b.explicit) \cup (IF b.infer THEN Inferred(r) ELSE {})

\* verifyClientSatisfiesContractV1, selectExactTargetV1
ServedHere(r) == r.needs \subseteq request.client /\ r.here

\* resolveCandidateSupportTupleV1
Supported(r, b) ==
    /\ b.all => r.offers # {}
    /\ ~Ambiguous(r, b)
    /\ Wanted(r, b) \subseteq r.offers
    /\ Wanted(r, b) \in r.cases

\* candidateValidationRecordsV1: a fixture proves the support case; one that
\* is repeated or names other profiles than the case selects is invalid data.
Verdict(r, b) ==
    IF ~ServedHere(r) \/ ~Supported(r, b) THEN "unusable"
    ELSE r.proof[Wanted(r, b)]

\* reduceCandidateV1 for the next release.  Invalid data fails the request, for
\* an older release would hide it.
Reduce ==
    /\ stage = "reduce" /\ ordered # << >>
    /\ LET r == Head(ordered)
           here == Len(candidates)
           verdict == Verdict(r, Demand(here).binding)
       IN CASE verdict = "invalid" -> stage' = "invalid definition" /\ UNCHANGED <<ordered, candidates>>
            [] verdict = "unusable" ->
                 ordered' = Tail(ordered) /\ UNCHANGED <<stage, candidates>>
            [] verdict = "usable" ->
                 /\ ordered' = Tail(ordered)
                 /\ candidates' = [candidates EXCEPT ![here] = Append(@, r)]
                 /\ UNCHANGED stage
    /\ UNCHANGED <<request, selected, visited>>

\* The last release was reduced: the next group, or the joint search over the
\* sets (prepareCandidateSetsV1).
Reduced ==
    /\ stage = "reduce" /\ ordered = << >>
    /\ stage' = IF candidates[Len(candidates)] = << >> THEN "no candidate"
                ELSE IF Len(candidates) < Len(Groups) THEN "enumerate"
                ELSE "search"
    /\ selected' = IF stage' = "search" THEN <<1>> ELSE << >>
    /\ UNCHANGED <<request, ordered, candidates, visited>>

-----------------------------------------------------------------------------
(* Claims                                                                   *)

\* A claim has a kind, a key and a value; its owner is the group, or 0 for an
\* active provider, which lives in the scope of the first group.  Scopes that
\* share their domains see each other's claims.
OwnedClaims(claims, owner, scope) ==
    [k \in DOMAIN claims |->
        [kind |-> claims[k].kind, key |-> claims[k].key, value |-> claims[k].value,
         owner |-> owner, domain |-> IF request.shared THEN 1 ELSE scope]]

\* candidateContributionsV1: what the target adds for every request, then what
\* the selected bindings add
Contribution(i, r) ==
    r.claims \o (IF Wanted(r, Demand(i).binding) # {} THEN r.bound ELSE << >>)

\* addActiveProviderClaimsV1, then addCandidateClaimsForAssignmentV1 for the
\* candidates in the order of the groups
ClaimsOf(assignment) ==
    LET join[i \in 0..Len(assignment)] ==
            IF i = 0 THEN OwnedClaims(request.active, 0, 1)
            ELSE join[i - 1] \o OwnedClaims(Contribution(i, assignment[i]), i, i)
    IN join[Len(assignment)]

\* pathsOverlapV1: equal, or one is a directory above the other.
Below(p, q) == Len(q) < Len(p) /\ SubSeq(p, 1, Len(q)) = q
Overlap(p, q) == p = q \/ Below(p, q) \/ Below(q, p)

PathKinds == {"root", "payload", "ordinary", "alias"}

\* A claim that an earlier one makes already is not recorded again: an install
\* root at the same path, an equal ordinary path, an export of the same
\* executable by the same owner or under the same name.
Repeats(c, d) ==
    /\ c.kind = d.kind /\ c.domain = d.domain
    /\ CASE c.kind = "root" -> c.key = d.key
         [] c.kind \in {"ordinary", "payload"} -> c.key = d.key /\ c.value = d.value
         [] c.kind = "alias" -> c.key = d.key /\ (c.value = d.value \/ c.owner = d.owner)
         [] OTHER -> FALSE

\* An export may name a file inside the payload or the root of its own owner.
OwnExport(c, d) ==
    /\ c.owner = d.owner
    /\ \/ c.kind = "alias" /\ d.kind \in {"root", "payload"} /\ Below(c.key, d.key)
       \/ d.kind = "alias" /\ c.kind \in {"root", "payload"} /\ Below(d.key, c.key)

\* addInstallRootClaimV1, addOwnedPathClaimV1, addOrdinaryPathClaimV1 and
\* addAliasPathClaimV1: which kinds are compared, and what an owner may do to
\* its own.  Payloads and roots are not compared: a payload lies in its root.
PathsClash(c, d) ==
    /\ Overlap(c.key, d.key)
    /\ {c.kind, d.kind} # {"root", "payload"}
    /\ ~Repeats(c, d)
    /\ ~OwnExport(c, d)
    /\ ~(c.owner = d.owner /\ {c.kind, d.kind} = {"root", "ordinary"})

\* A claim d after a recorded claim c: addSemanticClaimV1 on one key, the paths,
\* and what candidates add to the sources and overrides of active providers.
Clash(c, d) ==
    /\ c.domain = d.domain
    /\ CASE c.kind \in PathKinds /\ d.kind \in PathKinds -> PathsClash(c, d)
         [] c.kind = "value" /\ d.kind = "value" -> c.key = d.key /\ c.value # d.value
         [] c.kind = "override" /\ d.kind = "override" -> c.key = d.key /\ c.value # d.value
         [] c.kind = "override" /\ d.kind = "need" ->
              d.owner # 0 /\ c.key = d.key /\ c.value = "local"
         [] c.kind = "source" /\ d.kind = "wheel" -> d.owner # 0 /\ c.key = d.key
         [] c.kind = "source" /\ d.kind = "need" ->
              d.owner # 0 /\ c.key = d.key /\ c.value = "unproven"
         [] OTHER -> FALSE

\* The claims that are recorded, in the order they are added; a repeated root,
\* ordinary path or alias returns before it is compared with other kinds.
Recorded(cs) ==
    LET recorded[j \in DOMAIN cs] == ~\E i \in 1..(j - 1) : recorded[i] /\ Repeats(cs[i], cs[j])
    IN recorded

SomeClash(cs) ==
    LET recorded == Recorded(cs) IN
    \E j \in DOMAIN cs :
        /\ recorded[j] \/ cs[j].kind = "payload"
        /\ \E i \in 1..(j - 1) : recorded[i] /\ Clash(cs[i], cs[j])

-----------------------------------------------------------------------------
(* Python: one interpreter for a domain, one version of a distribution      *)

Common(sets) == IF sets = {} THEN {} ELSE {v \in UNION sets : \A s \in sets : v \in s}

Values(cs, kind, domain) ==
    {cs[k].value : k \in {k \in DOMAIN cs : cs[k].kind = kind /\ cs[k].domain = domain}}

\* addPythonInterpreterClaimV1, addPythonInterpreterConstraintV1: some supported
\* interpreter satisfies all constraints at once.  A domain in which nothing
\* is supported explicitly is left alone.
InterpreterConflict(cs, domain) ==
    LET supported == Values(cs, "python", domain)
        limits == Values(cs, "python range", domain)
    IN supported # {} /\ Common(supported \cup limits) = {}

Needs(cs, domain, key) ==
    {cs[k].value : k \in {k \in DOMAIN cs : cs[k].kind = "need" /\ cs[k].domain = domain /\ cs[k].key = key}}

\* PythonPackageRootRequirementsCompatibleV1: a pin decides, else the interval
\* of what can be put as one, else a version at the edge of a constraint proves
\* that the rest can be met; otherwise nothing is proven.
Compatibility(rs) ==
    LET met(v) == \A r \in rs : v \in r.versions
        pins == {r \in rs : r.form = "pin"}
    IN CASE pins # {} -> IF \E r \in pins : \A v \in r.versions : met(v) THEN "yes" ELSE "no"
         [] \A r \in rs : r.form = "interval" ->
              IF Common({r.versions : r \in rs}) # {} THEN "yes" ELSE "no"
         [] Common({r.versions : r \in {r \in rs : r.form = "interval"}}) = {}
              /\ (\E r \in rs : r.form = "interval") -> "no"
         [] OTHER -> IF \E r \in rs : met(r.edge) THEN "yes" ELSE "unproven"

Verdicts(cs) ==
    {Compatibility(Needs(cs, cs[k].domain, cs[k].key)) : k \in {k \in DOMAIN cs : cs[k].kind = "need"}}

\* A bug: what cannot be proven yet is taken for a conflict at once.
ConflictWhenUnproven(assignment, complete) ==
    LET cs == ClaimsOf(assignment) IN
    \/ SomeClash(cs)
    \/ \E k \in DOMAIN cs : InterpreterConflict(cs, cs[k].domain)
    \/ Verdicts(cs) \cap {"no", "unproven"} # {}

\* assignmentConflictWithBindingCacheV1, validateBindingRequirementClaimsV1:
\* what later candidates may prove is a conflict only once all are selected.
Conflict(assignment, complete) ==
    LET cs == ClaimsOf(assignment) IN
    \/ SomeClash(cs)
    \/ \E k \in DOMAIN cs : InterpreterConflict(cs, cs[k].domain)
    \/ "no" \in Verdicts(cs)
    \/ complete /\ "unproven" \in Verdicts(cs)

-----------------------------------------------------------------------------
(* solveCandidateSetsV1                                                     *)

Path(indices) == [i \in DOMAIN indices |-> candidates[i][indices[i]]]

\* One turn of the search: the candidate at the end of the path is visited.
\* Over the cap the operation fails; a conflict or the end of a list moves on.
Visit ==
    /\ stage = "search"
    /\ LET depth == Len(selected) IN
       IF selected[depth] > Len(candidates[depth])
       THEN \* the list is exhausted: back to the group before
            /\ visited' = visited
            /\ IF depth = 1 THEN stage' = "unsatisfiable" /\ selected' = << >>
               ELSE /\ selected' = [SubSeq(selected, 1, depth - 1) EXCEPT ![depth - 1] = @ + 1]
                    /\ UNCHANGED stage
       ELSE /\ visited' = visited + 1
            /\ IF visited' > StateCap THEN stage' = "capped" /\ selected' = << >>
               ELSE IF Conflict(Path(selected), depth = Len(Groups))
               THEN selected' = [selected EXCEPT ![depth] = @ + 1] /\ UNCHANGED stage
               ELSE IF depth = Len(Groups)
               THEN stage' = "resolved" /\ UNCHANGED selected
               ELSE selected' = Append(selected, 1) /\ UNCHANGED stage
    /\ UNCHANGED <<request, ordered, candidates>>

ResolutionNext == Enumerate \/ Reduce \/ Reduced \/ Visit

ResolutionSpec == ResolutionInit /\ [][ResolutionNext]_resolutionVars

-----------------------------------------------------------------------------
(* Properties                                                               *)

ResolutionTypeOK ==
    /\ stage \in {"enumerate", "reduce", "search"} \cup Ended
    /\ Len(candidates) <= Len(Groups) /\ Len(selected) <= Len(Groups)
    /\ visited \in 0..(StateCap + 1)

\* What each group may be given, from the request alone.
Eligible(i) == {r \in Matching(Releases(i), Demand(i)) : Verdict(r, Demand(i).binding) = "usable"}

Assignments == {a \in [Indices -> UNION {Eligible(i) : i \in Indices}] :
                   \A i \in Indices : a[i] \in Eligible(i)}

\* The first group in which two assignments differ decides.
Preferred(a, b) ==
    \E i \in Indices : Newer(a[i], b[i]) /\ \A j \in 1..(i - 1) : a[j] = b[j]

\* Two tools, or a tool and an active provider, that share a filesystem never
\* own overlapping places, except a place both claim as their install root or
\* executable, or a payload both have.
PlacesApart(a) ==
    LET cs == ClaimsOf(a) IN
    \A i, j \in DOMAIN cs :
        /\ cs[i].kind \in PathKinds /\ cs[j].kind \in PathKinds
        /\ cs[i].domain = cs[j].domain /\ cs[i].owner # cs[j].owner
        /\ {cs[i].kind, cs[j].kind} # {"root", "payload"}
        /\ Overlap(cs[i].key, cs[j].key)
        => \E k, l \in DOMAIN cs :
              /\ cs[k].owner = cs[i].owner /\ cs[l].owner = cs[j].owner
              /\ cs[k].kind = cs[l].kind /\ cs[k].domain = cs[l].domain /\ cs[k].key = cs[l].key

\* A resolved operation has the newest assignment, in the order of the groups,
\* among the complete assignments without conflicts, although branches are cut
\* on partial ones; an operation finds none only when there is none, and one
\* that visits more states than the cap fails instead of taking what it has
\* (solveCandidateSetsV1).  A release with invalid data among the matching ones
\* is never passed over (SelectReleaseCandidatesV1).
ResolutionExact ==
    /\ ResolutionTypeOK
    /\ stage = "resolved" =>
         /\ visited <= StateCap
         /\ Path(selected) \in Assignments
         /\ ~Conflict(Path(selected), TRUE) /\ PlacesApart(Path(selected))
         /\ \A a \in Assignments : Preferred(a, Path(selected)) => Conflict(a, TRUE)
         /\ \A i \in Indices : \A r \in Matching(Releases(i), Demand(i)) :
                Verdict(r, Demand(i).binding) # "invalid"
    /\ stage = "unsatisfiable" => \A a \in Assignments : Conflict(a, TRUE)
    /\ stage = "no candidate" => Assignments = {}

===============================================================================
