------------------------ MODULE ArchiveMaterialization ------------------------
(***************************************************************************)
(* The installation of one verified archive of the provider store at a     *)
(* name below a destination directory: its members are unpacked in a       *)
(* private workspace beside that name, in whatever order the archive has   *)
(* them, checked against the declared inventory, and renamed into place    *)
(* without replacing anything.  Meanwhile another process may take the     *)
(* name, replace the destination, or change the archive file.              *)
(*                                                                         *)
(* Source: archive_materialization*.go of internal/providerstore.  A path  *)
(* is a sequence of components; two components that differ in case only    *)
(* are the same on some file systems.  The formats' own structure (tar     *)
(* blocks, zip directories) is abstracted to an archive that may turn out  *)
(* malformed anywhere.                                                     *)
(***************************************************************************)
EXTENDS Naturals, Sequences, FiniteSets

CONSTANTS
    ArchiveNames,     \* the paths of members and link targets
    Lower,            \* the case folding of components
    MemberSizes,      \* the sizes of regular members
    CoreLimit,        \* archiveMaterializationMaxUnpackedBytes
    MaxMembers,       \* members of an archive
    MaxMeddling       \* interferences, failures and crashes of a behaviour

ASSUME ArchiveBounds ==
    /\ ArchiveNames \subseteq Seq(DOMAIN Lower) \ {<<>>}
    /\ MemberSizes \subseteq Nat /\ CoreLimit \in Nat
    /\ MaxMembers \in Nat /\ MaxMeddling \in Nat

VARIABLES
    want,        \* the validated request
    unpack,      \* what the materializer has accepted so far
    unpackStep,  \* where the call is
    place,       \* the destination: what is at the name, the workspace, the
                 \* quarantine; whether the opened directory is still at its path;
                 \* what the file system refused to take away again
    intact,      \* the archive file holds the verified bytes
    meddled

archiveVars == <<want, unpack, unpackStep, place, intact, meddled>>

-----------------------------------------------------------------------------
(* Paths                                                                    *)

Prefixes(p) == {SubSeq(p, 1, n) : n \in 1..(Len(p) - 1)}

\* portableArchiveDestinationKey
PortableKey(p) == [i \in 1..Len(p) |-> Lower[p[i]]]

\* The root of the archive is the whole of it, or one directory.
Within(root, p) == root = <<>> \/ (Len(p) >= Len(root) /\ SubSeq(p, 1, Len(root)) = root)

\* The root is dropped if it has the name of the install directory, else kept.
DestinationPath(drop, p) == SubSeq(p, Len(drop) + 1, Len(p))

Destinations == {SubSeq(p, n, Len(p)) : p \in ArchiveNames, n \in 1..2} \cup {<<>>}
Tree == Destinations \cup UNION {Prefixes(p) : p \in Destinations}

-----------------------------------------------------------------------------
(* Requests                                                                 *)

\* validateArchiveMaterializationRequest: a root, what is dropped of it, the
\* expected inventory, one executable, and whether links stand for copies of their targets (tar only).
Requests ==
    [root : {<<>>} \cup {SubSeq(p, 1, 1) : p \in ArchiveNames},
     drop : {<<>>} \cup {SubSeq(p, 1, 1) : p \in ArchiveNames},
     entries : 1..MaxMembers, size : 0..CoreLimit,
     executable : ArchiveNames \cup {<<>>}, links : BOOLEAN]

ValidRequest(r) ==
    /\ r.drop \in {<<>>, r.root}
    /\ r.executable # <<>> => Within(r.root, r.executable) /\ r.executable # r.root

NothingUnpacked ==
    [seen |-> {}, kind |-> [p \in Tree |-> IF p = <<>> THEN "directory" ELSE "none"],
     explicit |-> {}, reserved |-> {<<>>}, pending |-> <<>>,
     count |-> 0, unpacked |-> 0, written |-> 0, executable |-> FALSE]

ArchiveInit ==
    /\ want \in {r \in Requests : ValidRequest(r) /\ r.size > 0}
    /\ unpack = NothingUnpacked
    /\ unpackStep = "open"
    /\ place = [name |-> "absent", workspace |-> FALSE, quarantine |-> "none", current |-> TRUE,
                refused |-> {}]
    /\ intact = TRUE /\ meddled = 0

Meddle == meddled < MaxMeddling /\ meddled' = meddled + 1

\* The call is about to return an error.
Refuse == unpackStep' = "cleanup" /\ UNCHANGED <<unpack, place>>

Abandon == Refuse /\ UNCHANGED <<want, intact>>

ProceedTo(next) == unpackStep' = next /\ UNCHANGED <<want, intact, meddled>>

\* The destination and the verified archive are opened, the name is free, the
\* workspace is made, and removed again if it cannot be opened.
OpenArchive ==
    /\ unpackStep = "open"
    /\ IF place.name = "absent" /\ place.current /\ intact
       THEN /\ place' = [place EXCEPT !.workspace = TRUE]
            /\ \/ ProceedTo("members") /\ UNCHANGED unpack
               \/ Meddle /\ unpackStep' = "cleanup" /\ UNCHANGED <<want, unpack, intact>>
       ELSE Abandon /\ UNCHANGED meddled

\* workspace.cleanup, deferred until the call returns an error: a workspace
\* that was not published is removed; that it cannot be is not reported.
ClearWorkspace ==
    /\ unpackStep = "cleanup" /\ unpackStep' = "failed"
    /\ \/ place' = [place EXCEPT !.workspace = FALSE] /\ UNCHANGED meddled
       \/ place.workspace /\ Meddle /\ place' = [place EXCEPT !.refused = @ \cup {"workspace"}]
    /\ UNCHANGED <<want, unpack, intact>>

-----------------------------------------------------------------------------
(* Members                                                                  *)

\* acceptPath
PathAccepted(p) ==
    /\ Within(want.root, p) /\ p \notin unpack.seen
    /\ unpack.count < want.entries

\* reservePortableDestination, for a path and the directories above it: the
\* first spelling of a name stays the only one.
Reservable(p) ==
    \A q \in Prefixes(p) \cup {p} :
        \A r \in unpack.reserved : PortableKey(r) = PortableKey(q) => r = q

\* ensureParent
ParentsFit(p) == \A q \in Prefixes(p) : unpack.kind[q] \in {"none", "directory"}

\* The node and the implied directories above it.
Placed(p, kind) ==
    [unpack EXCEPT !.kind = [q \in Tree |-> IF q = p THEN kind
                                            ELSE IF q \in Prefixes(p) THEN "directory" ELSE @[q]],
                   !.explicit = @ \cup {p},
                   !.reserved = @ \cup Prefixes(p) \cup {p}]

Counted(u, p) == [u EXCEPT !.seen = @ \cup {p}, !.count = @ + 1]

\* acceptDirectory: the root, an implied directory seen at last, or a new one.
DirectoryFits(d) ==
    /\ d \notin unpack.explicit
    /\ \/ unpack.kind[d] = "directory"
       \/ unpack.kind[d] = "none" /\ Reservable(d) /\ ParentsFit(d)

\* A bug: a member may take the name of a directory above another one.
FileFitsAnywhere(d) == d # <<>> /\ d \notin unpack.explicit /\ Reservable(d) /\ ParentsFit(d)

\* acceptRegular, acceptSymbolicLink
FileFits(d) == d # <<>> /\ unpack.kind[d] = "none" /\ Reservable(d) /\ ParentsFit(d)

SizeFits(size) ==
    /\ size <= want.size - unpack.unpacked
    /\ size <= CoreLimit - unpack.written

DirectoryMember(p) ==
    LET d == DestinationPath(want.drop, p) IN
    IF PathAccepted(p) /\ DirectoryFits(d)
    THEN unpack' = Counted(Placed(d, "directory"), p) /\ UNCHANGED <<unpackStep, place>>
    ELSE Refuse

RegularMember(p, size) ==
    LET d == DestinationPath(want.drop, p) IN
    IF PathAccepted(p) /\ SizeFits(size) /\ FileFits(d)
    THEN /\ unpack' = [Counted(Placed(d, "regular"), p) EXCEPT
                         !.unpacked = @ + size, !.written = @ + size,
                         !.executable = @ \/ p = want.executable]
         /\ UNCHANGED <<unpackStep, place>>
    ELSE Refuse

\* The copy a link stands for is made at the end of the archive.
LinkMember(p, target) ==
    LET d == DestinationPath(want.drop, p) IN
    IF want.links /\ PathAccepted(p) /\ Within(want.root, target) /\ FileFits(d)
    THEN /\ unpack' = [Counted(Placed(d, "link"), p) EXCEPT
                         !.pending = Append(@, [at |-> d, of |-> DestinationPath(want.drop, target),
                                                run |-> p = want.executable])]
         /\ UNCHANGED <<unpackStep, place>>
    ELSE Refuse

\* One member, of an archive that has not ended.
AcceptMember ==
    /\ unpackStep = "members" /\ unpack.count < MaxMembers
    /\ \E p \in ArchiveNames :
         \/ DirectoryMember(p)
         \/ \E size \in MemberSizes : RegularMember(p, size)
         \/ \E target \in ArchiveNames : LinkMember(p, target)
    /\ UNCHANGED <<want, intact, meddled>>

\* The archive ends, properly or not; so may a read or a write.
EndMembers ==
    /\ unpackStep = "members"
    /\ \/ ProceedTo("links") /\ UNCHANGED <<unpack, place>>
       \/ Meddle /\ Abandon

\* A bug: the copies of links have no limit.
MaterializeLinkUnlimited ==
    /\ unpackStep = "links" /\ unpack.pending # <<>>
    /\ LET link == Head(unpack.pending) IN
       IF unpack.kind[link.of] = "regular"
       THEN \E size \in MemberSizes :
              /\ unpack' = [unpack EXCEPT !.pending = Tail(@), !.written = @ + size,
                                          !.executable = @ \/ link.run]
              /\ UNCHANGED <<unpackStep, place, want, intact, meddled>>
       ELSE Abandon /\ UNCHANGED meddled

\* A bug: a link to a link waits until that one is copied.
MaterializeLinkInTurn ==
    /\ unpackStep = "links" /\ unpack.pending # <<>>
    /\ LET link == Head(unpack.pending) IN
       IF unpack.kind[link.of] = "regular"
       THEN \E size \in MemberSizes :
              /\ size <= CoreLimit - unpack.written
              /\ unpack' = [unpack EXCEPT !.pending = Tail(@), !.written = @ + size,
                                          !.executable = @ \/ link.run,
                                          !.kind[link.at] = "regular"]
       ELSE unpack' = [unpack EXCEPT !.pending = Append(Tail(@), link)]
    /\ UNCHANGED <<unpackStep, place, want, intact, meddled>>

\* materializeSymbolicLink: the target is a regular member, never another
\* link.  The copy has the size of its target, which the model does not keep:
\* it is any size.
MaterializeLink ==
    /\ unpackStep = "links" /\ unpack.pending # <<>>
    /\ LET link == Head(unpack.pending) IN
       IF unpack.kind[link.of] = "regular"
       THEN \E size \in MemberSizes :
              IF size <= CoreLimit - unpack.written
              THEN /\ unpack' = [unpack EXCEPT !.pending = Tail(@), !.written = @ + size,
                                               !.executable = @ \/ link.run]
                   /\ UNCHANGED <<unpackStep, place, want, intact, meddled>>
              ELSE Abandon /\ UNCHANGED meddled
       ELSE Abandon /\ UNCHANGED meddled

-----------------------------------------------------------------------------
(* Publication                                                              *)

\* A bug: an executable that is declared and missing is not noticed.
CountsAgree == unpack.count = want.entries /\ unpack.unpacked = want.size

\* validateExecutablePaths, validateExpectedInventory
InventoryAgrees ==
    /\ unpack.count = want.entries /\ unpack.unpacked = want.size
    /\ want.executable # <<>> => unpack.executable

\* The inventory, the archive's bytes once more, the modes and the sync.
CheckUnpacked ==
    /\ unpackStep = "links" /\ unpack.pending = <<>>
    /\ IF InventoryAgrees /\ intact
       THEN ProceedTo("publish") /\ UNCHANGED <<unpack, place>>
       ELSE Abandon /\ UNCHANGED meddled

\* requireAbsent and requireCurrentIdentity, then a rename that never replaces;
\* each may fail.  A failed sync after the rename is rolled back.
PublishUnpacked ==
    /\ unpackStep = "publish"
    /\ \/ /\ place.name = "absent" /\ place.current
          /\ place' = [place EXCEPT !.name = "ours", !.workspace = FALSE]
          /\ \/ ProceedTo("validate") /\ UNCHANGED unpack
             \/ Meddle /\ unpackStep' = "rollback" /\ UNCHANGED <<want, unpack, intact>>
       \/ ~(place.name = "absent" /\ place.current) /\ Abandon /\ UNCHANGED meddled
       \/ Meddle /\ Abandon

\* A bug: a publication that is not confirmed is left where it is.
ValidateAndLeave ==
    /\ unpackStep = "validate"
    /\ ProceedTo(IF place.current /\ place.name = "ours" THEN "returned" ELSE "failed")
    /\ UNCHANGED <<unpack, place>>

\* validatePublished
ValidatePublished ==
    /\ unpackStep = "validate"
    /\ ProceedTo(IF place.current /\ place.name = "ours" THEN "returned" ELSE "rollback")
    /\ UNCHANGED <<unpack, place>>

\* The file system refuses a step of the rollback, which the call reports.
RollbackRefused ==
    /\ Meddle /\ unpackStep' = "failed"
    /\ place' = [place EXCEPT !.refused = @ \cup {"rollback"}]
    /\ UNCHANGED <<want, unpack, intact>>

\* rollbackPublished: what is at the name is quarantined if it is seen to be
\* ours ...
RollbackLooks ==
    /\ unpackStep = "rollback"
    /\ \/ /\ ProceedTo(IF place.name = "ours" THEN "quarantine" ELSE "failed")
          /\ UNCHANGED <<unpack, place>>
       \/ RollbackRefused

\* ... the rename takes whatever is there by then, or fails, as may the choice
\* of a new name and the handle it needs ...
RollbackMoves ==
    /\ unpackStep = "quarantine"
    /\ \/ /\ place' = [place EXCEPT !.quarantine = IF place.name = "absent" THEN "none" ELSE place.name,
                                    !.name = "absent"]
          /\ ProceedTo("discard") /\ UNCHANGED unpack
       \/ RollbackRefused

\* A bug: the quarantine is removed without a second look.
RollbackRemoves ==
    /\ unpackStep = "discard"
    /\ place' = [place EXCEPT !.quarantine = "none"]
    /\ ProceedTo("failed")
    /\ UNCHANGED unpack

\* ... and it is removed only if it is seen to be ours, unless that fails.
RollbackEnds ==
    /\ unpackStep = "discard"
    /\ \/ /\ place' = IF place.quarantine = "ours" THEN [place EXCEPT !.quarantine = "none"] ELSE place
          /\ ProceedTo("failed") /\ UNCHANGED unpack
       \/ RollbackRefused

-----------------------------------------------------------------------------
(* Around it                                                                *)

Busy == unpackStep \notin {"returned", "failed", "crashed"}

\* Another process takes the name, or puts its own directory in place of ours.
NameTaken ==
    /\ Busy /\ Meddle /\ place.name # "other"
    /\ place' = [place EXCEPT !.name = "other"]
    /\ UNCHANGED <<want, unpack, unpackStep, intact>>

DestinationReplaced ==
    /\ Busy /\ unpackStep # "open" /\ Meddle
    /\ place' = [place EXCEPT !.current = FALSE]
    /\ UNCHANGED <<want, unpack, unpackStep, intact>>

ArchiveChanges ==
    /\ Busy /\ Meddle
    /\ intact' = FALSE
    /\ UNCHANGED <<want, unpack, unpackStep, place>>

UnpackCrashes ==
    /\ Busy /\ Meddle
    /\ unpackStep' = "crashed"
    /\ UNCHANGED <<want, unpack, place, intact>>

MaterializeSteps ==
    \/ OpenArchive \/ ClearWorkspace \/ AcceptMember \/ EndMembers \/ MaterializeLink \/ CheckUnpacked
    \/ PublishUnpacked \/ ValidatePublished \/ RollbackLooks \/ RollbackMoves \/ RollbackEnds

ArchiveNext ==
    MaterializeSteps \/ NameTaken \/ DestinationReplaced \/ ArchiveChanges \/ UnpackCrashes

ArchiveSpec == ArchiveInit /\ [][ArchiveNext]_archiveVars /\ WF_archiveVars(MaterializeSteps)

-----------------------------------------------------------------------------
(* Properties                                                               *)

\* The types, and limits that are never exceeded: the unsigned differences
\* the code computes its room with cannot wrap around.
ArchiveTypeOK ==
    /\ unpack.unpacked <= want.size /\ unpack.written <= CoreLimit
    /\ unpack.count <= want.entries
    /\ place.name \in {"absent", "ours", "other"} /\ place.quarantine \in {"none", "ours", "other"}

\* Whatever the order of the members, what was accepted is a tree that every
\* file system can hold: above each node there are only directories, and no
\* two nodes have names that differ in case only.
TreeSound ==
    LET nodes == {p \in Tree : unpack.kind[p] # "none"} IN
    /\ \A p \in nodes : \A q \in Prefixes(p) : unpack.kind[q] = "directory"
    /\ \A p, q \in nodes : PortableKey(p) = PortableKey(q) => p = q

\* The name only ever shows a complete installation: the whole inventory, the
\* declared executable and every copy, whenever the process dies.
PublishedComplete ==
    place.name = "ours" =>
        /\ unpack.count = want.entries /\ unpack.unpacked = want.size /\ unpack.pending = <<>>
        /\ want.executable # <<>> =>
             \E p \in unpack.seen : /\ p = want.executable
                                    /\ unpack.kind[DestinationPath(want.drop, p)] \in {"regular", "link"}

\* What another process put at the name is never destroyed or replaced.
OthersSpared ==
    [][ "other" \in {place.name, place.quarantine}
          => "other" \in {place'.name, place'.quarantine}]_place

\* A call that fails without a crash leaves nothing of its own behind, but for
\* what the file system refuses to take away: the workspace, or an installation
\* that was to be rolled back, at the name or in the quarantine; never both.
FailureLeavesNothing ==
    unpackStep = "failed" =>
        /\ place.workspace => "workspace" \in place.refused
        /\ "ours" \in {place.name, place.quarantine} => "rollback" \in place.refused
        /\ ~(place.workspace /\ "ours" \in {place.name, place.quarantine})

\* The accepted members make a tree within the limits; it is seen complete or
\* not at all, and a call that fails leaves nothing that it could remove.
ArchiveSound == ArchiveTypeOK /\ TreeSound /\ PublishedComplete /\ FailureLeavesNothing

\* A call that has begun ends.
MaterializationEnds == []<>(unpackStep = "open" \/ ~Busy)

================================================================================
