---------------------------- MODULE SessionNetwork ----------------------------
(***************************************************************************)
(* The private network of a controlled session                             *)
(* (controlled_session_network.go): the choice of a subnet, creation with  *)
(* its record and rollback, the attachment of two inert containers, the    *)
(* verifications around their start, cleanup; and the packet filter that   *)
(* the trusted startup code of each container installs before the          *)
(* application (probe/network_firewall_linux.go).                          *)
(*                                                                         *)
(* Docker is external.  Its commands fail, with or without effect, and     *)
(* another user of the engine may connect a container of his own, or       *)
(* connect and disconnect ours: together at most MaxDockerFaults times.         *)
(***************************************************************************)
EXTENDS SessionPlan

CONSTANTS
    PoolSlots,    \* for each address pool of the engine, how many subnets it holds
    Attempts,     \* how many candidates are tried
    MaxDockerFaults    \* bound on failures and interferences

ASSUME NetBounds == MaxDockerFaults \in Nat

VARIABLES
    hash,         \* what the run's identity hashes to: a start and a stride per pool
    taken,        \* the subnets of other networks
    attempt,      \* the next candidate
    grants,       \* the ordinary network grants of the two containers
    net,          \* the subnet of the session's network, while it exists
    known,        \* the command holds the network's identity
    recorded,     \* the ownership record holds it
    selected,     \* the containers attachment has selected
    boxes,        \* the two containers: running, networks, application started
    guest,        \* a container of somebody else in the network
    listed,       \* the members cleanup found
    meddled,      \* somebody changed the networks of our containers
    netStep, dockerFaults

netVars == <<hash, taken, attempt, grants, net, known, recorded, selected, boxes, guest, listed,
             meddled, netStep, dockerFaults>>

NoNet == <<0, 0>>
Pools == DOMAIN PoolSlots
Subnets == {<<p, s>> : p \in Pools, s \in 0..7} \cap UNION {{p} \X (0..(PoolSlots[p] - 1)) : p \in Pools}

----------------------------------------------------------------------------
(* Subnets.                                                                *)

\* The turns of the allocation: round by round over the pools that still have
\* a subnet for the round.
Turns == {t \in (0..(Attempts - 1)) \X Pools : t[1] < PoolSlots[t[2]]}

Before(a, b) == a[1] < b[1] \/ (a[1] = b[1] /\ a[2] < b[2])

HasCandidate(k) == k < Cardinality(Turns)

Turn == [k \in 0..(Cardinality(Turns) - 1) |->
            CHOOSE t \in Turns : Cardinality({u \in Turns : Before(u, t)}) = k]

\* (Mutation: the last bit is left as the hash has it.)
StridesUnset(p) == 1..PoolSlots[p]

\* The strides a hash leads to: the low bits with the last one set.
Strides(p) == {s \in 1..PoolSlots[p] : s % 2 = 1}

\* controlledSessionNetworkSubnetCandidateFromPoolsV1: a walk through the
\* pool's subnets from a hashed start in hashed strides.
Candidate(k) ==
    LET t == Turn[k] IN
    <<t[2], (hash[t[2]].start + t[1] * hash[t[2]].stride) % PoolSlots[t[2]]>>

----------------------------------------------------------------------------
(* The packet filter.  A destination is an address family and the kinds of *)
(* prefixes that contain the address.                                      *)

Destinations ==
    {[family |-> 4, in |-> k] : k \in
        {{}, {"local"}, {"local", "exception"}, {"local", "lo"}, {"local", "lo", "embedded"}, {"local", "peer"}}}
    \cup
    {[family |-> 6, in |-> k] : k \in
        {{}, {"local"}, {"local", "exception"}, {"local", "ambiguous"}, {"ambiguous"}, {"local", "neighbour"},
         {"local", "lo"}}}

\* A packet leaving: to the resolver's own port or another, new or a reply.
\* resolver is the destination that resolv.conf names.
Packets == [to : Destinations, port : {"dns", "other"}, flow : {"new", "reply"}]

AllowsAmbiguous(g) == "ambiguous" \in g \/ {"public", "local"} \subseteq g
AllowsDNS(g) == g \cap {"public", "local"} # {}

Verdict(accept) == IF accept THEN "accept" ELSE "drop"

\* The output chain in its order.
OutputRules(g, family, resolver, session) ==
    (IF AllowsDNS(g)
     THEN << [on |-> {p \in Packets : p.to = resolver /\ p.port = "dns"}, verdict |-> "accept"] >> ELSE <<>>)
    \o (IF family = 4
        THEN << [on |-> {p \in Packets : "embedded" \in p.to.in}, verdict |-> "drop"] >> ELSE <<>>)
    \o << [on |-> {p \in Packets : "lo" \in p.to.in}, verdict |-> "accept"],
          [on |-> {p \in Packets : p.flow = "reply"}, verdict |-> "accept"] >>
    \o (IF family = 6
        THEN << [on |-> {p \in Packets : "neighbour" \in p.to.in}, verdict |-> "accept"] >> ELSE <<>>)
    \o << [on |-> {p \in Packets : session /\ "peer" \in p.to.in}, verdict |-> "accept"],
          [on |-> {p \in Packets : "ambiguous" \in p.to.in}, verdict |-> Verdict(AllowsAmbiguous(g))],
          [on |-> {p \in Packets : "exception" \in p.to.in}, verdict |-> Verdict("public" \in g)],
          [on |-> {p \in Packets : "local" \in p.to.in}, verdict |-> Verdict("local" \in g)],
          [on |-> {p \in Packets : "public" \in g}, verdict |-> "accept"] >>

\* The first rule that matches decides; the chain's policy is to drop.
Leaves(g, p, resolver, session) ==
    LET rules == OutputRules(g, p.to.family, resolver, session)
        hits == {i \in DOMAIN rules : p \in rules[i].on}
    IN  hits # {} /\ rules[CHOOSE i \in hits : \A j \in hits : i <= j].verdict = "accept"

----------------------------------------------------------------------------
(* The network of the session.                                             *)

Box == [running |-> FALSE, nets |-> {}, app |-> FALSE]

\* Members as an inspection lists them: containers that run.
Members == {r \in Roles : boxes[r].running /\ "session" \in boxes[r].nets}
           \cup (IF guest THEN {"guest"} ELSE {})

PlannedNets(r) == {"session"} \cup (IF DockerNetworkMode(grants[r]) = "bridge" THEN {"bridge"} ELSE {})

DockerFault == dockerFaults < MaxDockerFaults /\ dockerFaults' = dockerFaults + 1

\* What no step of the command but its own changes.
Hold == UNCHANGED <<grants, guest, meddled>>
Chosen == UNCHANGED <<hash, taken, attempt>>

\* The inputs of the choice of a subnet are not read again after it.
NoHash == [p \in Pools |-> [start |-> 0, stride |-> 1]]
Forget == hash' = NoHash /\ taken' = {} /\ attempt' = 0

NetOf(s, h, used, granted) ==
    /\ hash = h /\ taken = used /\ attempt = 0 /\ grants = granted
    /\ net = NoNet /\ known = FALSE /\ recorded = FALSE /\ selected = {}
    /\ boxes = [r \in Roles |-> Box]
    /\ guest = FALSE /\ listed = {} /\ meddled = FALSE
    /\ netStep = s /\ dockerFaults = 0

NetInit ==
    \E h \in {x \in [Pools -> [start : 0..7, stride : 1..8]] :
                  \A p \in Pools : x[p].start < PoolSlots[p] /\ x[p].stride \in Strides(p)},
       used \in SUBSET Subnets,
       c \in SUBSET {"public", "local", "ambiguous"}, w \in {{}, {"local"}} :
          NetOf("allocate", h, used, [r \in Roles |-> IF r = "controller" THEN c ELSE w])

\* One candidate of prepareDockerSessionNetworkV1.  A failed creation that may
\* have had its effect is not cleaned up: nobody holds an identity.
Allocate ==
    /\ netStep = "allocate" /\ Hold
    /\ UNCHANGED <<recorded, selected, boxes, listed>>
    /\ \/ /\ ~HasCandidate(attempt)
          /\ netStep' = "refused" /\ UNCHANGED <<hash, taken, attempt, net, known, dockerFaults>>
       \/ /\ HasCandidate(attempt) /\ Candidate(attempt) \in taken
          /\ UNCHANGED <<hash, taken, net, known, dockerFaults>>
          /\ attempt' = attempt + 1
          /\ netStep' = IF attempt + 1 < Attempts THEN "allocate" ELSE "refused"
       \/ /\ HasCandidate(attempt) /\ Candidate(attempt) \notin taken
          /\ net' = Candidate(attempt) /\ known' = TRUE /\ netStep' = "record"
          /\ Forget /\ UNCHANGED dockerFaults
       \/ /\ HasCandidate(attempt) /\ Candidate(attempt) \notin taken
          /\ DockerFault /\ net' \in {NoNet, Candidate(attempt)} /\ known' = FALSE /\ netStep' = "ended"
          /\ Forget

\* The identity goes into the ownership record.
RecordNetwork ==
    /\ netStep = "record" /\ Hold /\ Chosen
    /\ UNCHANGED <<net, known, selected, boxes, listed>>
    /\ \/ recorded' = TRUE /\ netStep' = "inspect" /\ UNCHANGED dockerFaults
       \/ DockerFault /\ netStep' = "rollback-record" /\ UNCHANGED recorded

\* The created network as Docker shows it: ours, and empty.
InspectCreated ==
    /\ netStep = "inspect" /\ Hold /\ Chosen
    /\ UNCHANGED <<net, known, recorded, selected, boxes, listed>>
    /\ \/ Members = {} /\ netStep' = "create" /\ UNCHANGED dockerFaults
       \/ Members # {} /\ netStep' = "rollback" /\ UNCHANGED dockerFaults
       \/ DockerFault /\ netStep' = "rollback"

\* rollbackAfterPreparationFailureV1: Docker refuses to remove a network that
\* somebody uses; when the identity is not recorded yet that is tried again.
Rollback ==
    /\ netStep \in {"rollback", "rollback-record"} /\ Hold /\ Chosen
    /\ UNCHANGED <<known, selected, boxes, listed>>
    /\ \/ ~guest /\ net' = NoNet /\ netStep' = "ended" /\ UNCHANGED <<recorded, dockerFaults>>
       \/ /\ guest /\ UNCHANGED net
          /\ netStep' = (IF netStep = "rollback-record" THEN "retry" ELSE "ended") /\ UNCHANGED <<recorded, dockerFaults>>
       \/ /\ DockerFault /\ net' \in {net, IF guest THEN net ELSE NoNet} /\ UNCHANGED recorded
          /\ netStep' = IF netStep = "rollback-record" THEN "retry" ELSE "ended"

RetryRecord ==
    /\ netStep = "retry" /\ netStep' = "ended" /\ Hold /\ Chosen
    /\ UNCHANGED <<net, known, selected, boxes, listed>>
    /\ \/ recorded' = TRUE /\ UNCHANGED dockerFaults
       \/ DockerFault /\ UNCHANGED recorded

\* The channel with the addresses, then both containers, inert, each with its
\* peer's fixed address in its hosts file.
CreateContainers ==
    /\ netStep = "create" /\ Hold /\ Chosen
    /\ UNCHANGED <<net, known, recorded, selected, listed>>
    /\ \/ /\ boxes' = [r \in Roles |-> [Box EXCEPT !.nets = {CreateNetwork(grants[r], TRUE)}]]
          /\ netStep' = "attach" /\ UNCHANGED dockerFaults
       \/ DockerFault /\ netStep' = "cleanup" /\ UNCHANGED boxes

\* Attach: both containers must be inert and on the staging network only.
Attach ==
    /\ netStep = "attach" /\ Hold /\ Chosen
    /\ UNCHANGED <<net, known, recorded, boxes, listed>>
    /\ \/ /\ \A r \in Roles : ~boxes[r].running /\ boxes[r].nets = {"bridge"}
          /\ selected' = Roles /\ netStep' = "connect-controller" /\ UNCHANGED dockerFaults
       \/ /\ \E r \in Roles : boxes[r].running \/ boxes[r].nets # {"bridge"}
          /\ netStep' = "cleanup" /\ UNCHANGED <<selected, dockerFaults>>
       \/ DockerFault /\ netStep' = "cleanup" /\ UNCHANGED selected

Connecting(r) == netStep = IF r = "controller" THEN "connect-controller" ELSE "connect-workload"
AfterConnect(r) == IF r = "controller" THEN "connect-workload" ELSE "verify"

\* One participant: connected with alias and address, taken off the staging
\* network unless it was granted an ordinary one, inspected.
Connect(r) ==
    /\ Connecting(r) /\ Hold /\ Chosen
    /\ UNCHANGED <<net, known, recorded, selected, listed>>
    /\ LET joined == boxes[r].nets \cup {"session"}
           settled == IF DockerNetworkMode(grants[r]) = "none" THEN joined \ {"bridge"} ELSE joined IN
       \/ /\ settled = PlannedNets(r)
          /\ boxes' = [boxes EXCEPT ![r].nets = settled]
          /\ netStep' = AfterConnect(r) /\ UNCHANGED dockerFaults
       \/ /\ settled # PlannedNets(r)
          /\ boxes' = [boxes EXCEPT ![r].nets = settled]
          /\ netStep' = "cleanup" /\ UNCHANGED dockerFaults
       \/ /\ DockerFault /\ netStep' = "cleanup"
          /\ \E n \in {boxes[r].nets, joined, settled} : boxes' = [boxes EXCEPT ![r].nets = n]

\* Verify, once before each of the two starts: no member that was not selected.
VerifyNetwork ==
    /\ netStep \in {"verify", "verify-again"} /\ Hold /\ Chosen
    /\ UNCHANGED <<net, known, recorded, selected, boxes, listed>>
    /\ \/ /\ Members \subseteq selected /\ UNCHANGED dockerFaults
          /\ netStep' = IF netStep = "verify" THEN "start-controller" ELSE "start-workload"
       \/ ~(Members \subseteq selected) /\ netStep' = "cleanup" /\ UNCHANGED dockerFaults
       \/ DockerFault /\ netStep' = "cleanup"

AfterStart(r) == IF r = "controller" THEN "verify-again" ELSE "verify-started"

\* The container starts; its trusted code needs an address in the session's
\* subnet, installs the filter and only then runs the application.
Start(r) ==
    /\ netStep = (IF r = "controller" THEN "start-controller" ELSE "start-workload") /\ Hold /\ Chosen
    /\ UNCHANGED <<net, known, recorded, selected, listed>>
    /\ \/ /\ boxes' = [boxes EXCEPT ![r].running = "session" \in boxes[r].nets,
                                    ![r].app = "session" \in boxes[r].nets]
          /\ netStep' = AfterStart(r)
          /\ UNCHANGED dockerFaults
       \/ DockerFault /\ netStep' = "cleanup" /\ UNCHANGED boxes

\* VerifyStarted: the controller runs in the network; the workload runs in it
\* or has ended already.
VerifyStarted ==
    /\ netStep = "verify-started" /\ Hold /\ Chosen
    /\ UNCHANGED <<net, known, recorded, selected, boxes, listed>>
    /\ \/ /\ "controller" \in Members /\ Members \subseteq selected
          /\ boxes["workload"].running => "workload" \in Members
          /\ netStep' = "running" /\ UNCHANGED dockerFaults
       \/ /\ \/ "controller" \notin Members
             \/ ~(Members \subseteq selected)
             \/ boxes["workload"].running /\ "workload" \notin Members
          /\ netStep' = "cleanup" /\ UNCHANGED dockerFaults
       \/ DockerFault /\ netStep' = "cleanup"

\* The session ends, and its containers are removed first.
EndSession == netStep = "running" /\ netStep' = "cleanup" /\ Hold /\ Chosen
              /\ UNCHANGED <<net, known, recorded, selected, boxes, listed, dockerFaults>>

RemoveContainers ==
    /\ netStep = "cleanup" /\ netStep' = "network" /\ Hold /\ Chosen
    /\ UNCHANGED <<net, known, recorded, selected, listed>>
    /\ \/ boxes' = [r \in Roles |-> Box] /\ UNCHANGED dockerFaults
       \/ DockerFault /\ \E r \in Roles : boxes' = [boxes EXCEPT ![r] = Box]

\* (Mutation: cleanup disconnects every member it finds.)
InspectForCleanupAll ==
    /\ netStep = "network" /\ Hold /\ Chosen
    /\ UNCHANGED <<net, known, recorded, selected, boxes, dockerFaults>>
    /\ listed' = Members /\ netStep' = "disconnect"

\* Cleanup: a member that was not selected stops it before it changes anything.
InspectForCleanup ==
    /\ netStep = "network" /\ Hold /\ Chosen
    /\ UNCHANGED <<net, known, recorded, selected, boxes>>
    /\ \/ /\ Members \subseteq selected
          /\ listed' = Members /\ netStep' = "disconnect" /\ UNCHANGED dockerFaults
       \/ ~(Members \subseteq selected) /\ netStep' = "ended" /\ UNCHANGED <<listed, dockerFaults>>
       \/ DockerFault /\ netStep' = "ended" /\ UNCHANGED listed

\* The listed members are disconnected and the network removed, which Docker
\* refuses when somebody joined meanwhile; a command that fails stops there.
RemoveNetwork ==
    /\ netStep = "disconnect" /\ netStep' = "ended" /\ Chosen
    /\ UNCHANGED <<known, recorded, selected, listed, grants, meddled>>
    /\ \E gone \in SUBSET listed :
          /\ boxes' = [r \in Roles |-> IF r \in gone THEN [boxes[r] EXCEPT !.nets = @ \ {"session"}] ELSE boxes[r]]
          /\ guest' = (guest /\ "guest" \notin gone)
          /\ LET removed == IF guest' \/ Members \ gone # {} THEN net ELSE NoNet IN
             \/ gone = listed /\ net' = removed /\ UNCHANGED dockerFaults
             \/ DockerFault /\ net' \in {net, IF gone = listed THEN removed ELSE net}

----------------------------------------------------------------------------
(* The environment.                                                        *)

\* A process of a session ends by itself.
Ends(r) ==
    /\ boxes[r].running /\ boxes' = [boxes EXCEPT ![r].running = FALSE, ![r].app = FALSE]
    /\ UNCHANGED <<hash, taken, attempt, grants, net, known, recorded, selected, guest, listed, meddled,
                   netStep, dockerFaults>>

\* Somebody else connects a container to the network.
GuestJoins ==
    /\ net # NoNet /\ ~guest /\ DockerFault /\ guest' = TRUE
    /\ UNCHANGED <<hash, taken, attempt, grants, net, known, recorded, selected, boxes, listed, meddled, netStep>>

\* Somebody changes the networks of one of our containers.
Meddle ==
    /\ net # NoNet /\ netStep \notin {"create", "ended"} /\ DockerFault /\ meddled' = TRUE
    /\ \E r \in Roles, n \in {{"bridge"}, {"session"}, {"bridge", "session"}} :
          boxes[r].nets \notin {{}, n} /\ boxes' = [boxes EXCEPT ![r].nets = n]
    /\ UNCHANGED <<hash, taken, attempt, grants, net, known, recorded, selected, guest, listed, netStep>>

NetNext ==
    \/ Allocate \/ RecordNetwork \/ InspectCreated \/ Rollback \/ RetryRecord
    \/ CreateContainers \/ Attach \/ (\E r \in Roles : Connect(r))
    \/ VerifyNetwork \/ (\E r \in Roles : Start(r)) \/ VerifyStarted
    \/ EndSession \/ RemoveContainers \/ InspectForCleanup \/ RemoveNetwork
    \/ (\E r \in Roles : Ends(r)) \/ GuestJoins \/ Meddle

NetSpec == NetInit /\ [][NetNext]_netVars

----------------------------------------------------------------------------
(* Properties.                                                             *)

\* No two attempts of a run try the same subnet
\* (controlledSessionNetworkSubnetCandidateFromPoolsV1), so that a refusal
\* means that so many distinct subnets were in use.
AttemptsDiffer ==
    netStep \in {"allocate", "refused"} =>
        /\ \A i, j \in {k \in 0..(Attempts - 1) : HasCandidate(k)} : i # j => Candidate(i) # Candidate(j)
        /\ netStep = "refused" => Cardinality(taken) >= attempt /\ (attempt = Attempts \/ taken = Subnets)

\* A network is never taken from under somebody else's container, whenever it
\* joined (the refusal in Cleanup), and what ends without its network gone
\* leaves the identity in the record for the watchdog and recovery, unless
\* Docker never told it or the record failed twice.
NetworkAccounted ==
    /\ guest => net # NoNet
    /\ netStep = "ended" /\ net # NoNet => recorded \/ ~known \/ dockerFaults >= 3
    /\ "guest" \notin listed

\* A packet leaves a container when the grant of its class says so, where a
\* public exception is public although a local range contains it, a
\* translating range needs both grants or its own, the peer is always
\* reachable, the resolver only for names and only with a grant, and Docker's
\* embedded resolver for nothing else.
MayLeave(g, p, resolver) ==
    \/ AllowsDNS(g) /\ p.to = resolver /\ p.port = "dns"
    \/ /\ "embedded" \notin p.to.in
       /\ \/ p.flow = "reply" \/ p.to.in \cap {"lo", "peer", "neighbour"} # {}
          \/ IF "ambiguous" \in p.to.in THEN AllowsAmbiguous(g)
             ELSE IF "local" \in p.to.in /\ "exception" \notin p.to.in THEN "local" \in g
             ELSE "public" \in g

\* Resolvers as Docker writes them: its embedded one, or one of the host's.
Resolvers == {d \in Destinations : d.in \in {{}, {"local"}, {"local", "lo", "embedded"}}}

\* From its first instruction on, the packets of an application of the session
\* meet exactly the grants of the plan (replaceApplicationNetworkTableV1),
\* whatever networks somebody connects the container to.
FilterFollowsGrants ==
    \A r \in Roles : boxes[r].app /\ netStep = AfterStart(r) =>
        \A p \in Packets, resolver \in Resolvers :
            Leaves(grants[r], p, resolver, TRUE) <=> MayLeave(grants[r], p, resolver)

\* The application starts, and stays, in the networks of the plan and no others,
\* unless somebody else changed them.
OnlyPlannedNets ==
    \A r \in Roles : boxes[r].app /\ ~meddled => boxes[r].nets = PlannedNets(r) \/ netStep = "ended"

\* The session's network is never taken from somebody else nor lost, and its
\* two applications have what the plan grants.
NetworkSound == NetworkAccounted /\ FilterFollowsGrants /\ OnlyPlannedNets

===============================================================================
