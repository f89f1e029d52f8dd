--------------------------- MODULE IdentityGeometry ---------------------------
(***************************************************************************)
(* The arithmetic of identity maps and the check of the host's delegation. *)
(* A map is a list of intervals that bind count container IDs, from a      *)
(* start, to as many host IDs; everything is computed at the boundaries of *)
(* intervals and never per ID.  The reference is the set of pairs          *)
(* <<container ID, host ID>> that a list stands for.                       *)
(*                                                                         *)
(* checkHost reads the host's files one after the other while others may   *)
(* write them, and reads them again before it accepts.                     *)
(***************************************************************************)
EXTENDS Naturals, Integers, Sequences, FiniteSets
LOCAL INSTANCE SequencesExt

CONSTANTS
    LastID,      \* the unusable last ID (2^32 - 1)
    HostFiles,   \* files of the host check, in the order in which they are read
    MaxWrites    \* bound on the writes of others during one check

VARIABLES
    kept,     \* the retained list of intervals
    bound,    \* reference: the pairs it stands for
    version,  \* the contents of each file on the host
    read,     \* the contents each file had when it was read
    steps,    \* reads done by the host check, first and second pass
    together, \* versions of all files when the first pass ended
    admits    \* the host check has accepted

geometryVars == <<kept, bound, version, read, steps, together, admits>>

-----------------------------------------------------------------------------
Row(c, h, n) == [c |-> c, h |-> h, n |-> n]
ContainerEnd(row) == row.c + row.n
Offset(row) == row.h - row.c

Pairs(rows) ==
    UNION {{<<rows[i].c + d, rows[i].h + d>> : d \in 0 .. rows[i].n - 1} : i \in DOMAIN rows}

Accepts(rows) == [ok |-> TRUE, rows |-> rows]
Refusal == [ok |-> FALSE, rows |-> <<>>]

ValidateInterval(row) == row.n > 0 /\ ContainerEnd(row) <= LastID /\ row.h + row.n <= LastID

SortContainerIntervals(rows) == SortSeq(rows, LAMBDA a, b : a.c < b.c)

Overlap(a, b) == a.start < b.start + b.count /\ b.start < a.start + a.count

\* No interval touches the host's root, and none shares host IDs with another:
\* neighbours of the sorted list are compared.
HostSpans(rows) ==
    LET spans == SortSeq([i \in DOMAIN rows |-> [start |-> rows[i].h, count |-> rows[i].n]],
                         LAMBDA a, b : a.start < b.start)
    IN  /\ rows # <<>>
        /\ \A i \in DOMAIN rows : ValidateInterval(rows[i]) /\ rows[i].h # 0
        /\ \A i \in 2 .. Len(spans) : ~ Overlap(spans[i - 1], spans[i])

\* (Mutation: an interval inside the last one shortens it.)
AddReservationShort(result, row) ==
    IF ~ result.ok THEN result
    ELSE IF result.rows = <<>> THEN Accepts(<<row>>)
    ELSE LET last == result.rows[Len(result.rows)]
             overlaps == row.c < ContainerEnd(last)
             same == Offset(row) = Offset(last)
         IN  IF overlaps /\ ~ same THEN Refusal
             ELSE IF same /\ row.c <= ContainerEnd(last)
             THEN [result EXCEPT !.rows[Len(result.rows)].n = ContainerEnd(row) - last.c]
             ELSE [result EXCEPT !.rows = Append(@, row)]

\* One more interval of the sorted list: joined to the last one when it
\* continues or repeats it, refused when it binds its IDs anew.
AddReservation(result, row) ==
    IF ~ result.ok THEN result
    ELSE IF result.rows = <<>> THEN Accepts(<<row>>)
    ELSE LET last == result.rows[Len(result.rows)]
             overlaps == row.c < ContainerEnd(last)
             same == Offset(row) = Offset(last)
             end == IF ContainerEnd(row) > ContainerEnd(last) THEN ContainerEnd(row)
                    ELSE ContainerEnd(last)
         IN  IF overlaps /\ ~ same THEN Refusal
             ELSE IF same /\ row.c <= ContainerEnd(last)
             THEN [result EXCEPT !.rows[Len(result.rows)].n = end - last.c]
             ELSE [result EXCEPT !.rows = Append(@, row)]

CombineReservations(rows) == FoldLeft(AddReservation, Accepts(<<>>), rows)

ValidateGeometry(rows) ==
    LET sorted == SortContainerIntervals(rows) IN
    IF /\ \A i \in DOMAIN sorted : ValidateInterval(sorted[i])
       /\ \A i \in 2 .. Len(sorted) : sorted[i].c >= ContainerEnd(sorted[i - 1])
       /\ HostSpans(sorted)
    THEN CombineReservations(sorted)
    ELSE Refusal

\* The union of a proposal and what is retained (exact profile).
RetainGeometry(proposed, retained) ==
    LET candidate == ValidateGeometry(proposed)
        combined == CombineReservations(SortContainerIntervals(retained \o candidate.rows))
    IN  IF ~ candidate.ok THEN Refusal
        ELSE IF retained = <<>> THEN candidate
        ELSE IF combined.ok /\ HostSpans(combined.rows) THEN combined
        ELSE Refusal

\* One row for every declared ID, in the interval that holds it.
ProjectIDs(rows, ids) ==
    LET RowOf(id) == rows[CHOOSE i \in DOMAIN rows :
                        /\ id < ContainerEnd(rows[i])
                        /\ \A j \in 1 .. i - 1 : id >= ContainerEnd(rows[j])]
        ordered == SetToSortSeq(ids, LAMBDA a, b : a < b)
    IN  [k \in DOMAIN ordered |-> Row(ordered[k], RowOf(ordered[k]).h + (ordered[k] - RowOf(ordered[k]).c), 1)]

\* What remains of one interval between the cuts that lie in it.
SubtractFrom(row, cuts) ==
    LET inside == SelectSeq(cuts, LAMBDA cut : ContainerEnd(cut) > row.c /\ cut.c < ContainerEnd(row))
        Span(lo, hi) == IF lo < hi THEN <<Row(lo, row.h + (lo - row.c), hi - lo)>> ELSE <<>>
        Cut(state, cut) ==
            [at |-> IF ContainerEnd(cut) > state.at THEN ContainerEnd(cut) ELSE state.at,
             rows |-> state.rows \o Span(state.at, cut.c)]
        done == FoldLeft(Cut, [at |-> row.c, rows |-> <<>>], inside)
    IN  done.rows \o Span(done.at, ContainerEnd(row))

SubtractIntervals(from, remove) ==
    FlattenSeq([i \in DOMAIN from |-> SubtractFrom(from[i], remove)])

\* Whether host IDs lie in the operator's delegation, which is sorted and free
\* of overlaps, and in nobody else's: own is walked once, and whatever begins
\* at or before the next wanted ID moves it on.
CheckDelegation(wanted, own, foreign) ==
    LET Extend(next, span) ==
            IF span.start <= next /\ span.start + span.count > next
            THEN span.start + span.count ELSE next
    IN  /\ FoldLeft(Extend, wanted.start, own) >= wanted.start + wanted.count
        /\ \A i \in DOMAIN foreign : ~ Overlap(wanted, foreign[i])

-----------------------------------------------------------------------------
FileNames == {HostFiles[i] : i \in DOMAIN HostFiles}
Rounds == Len(HostFiles)

GeometryInit ==
    /\ kept = <<>> /\ bound = {}
    /\ version = [f \in FileNames |-> 0]
    /\ read = version
    /\ together = version
    /\ steps = 0 /\ admits = FALSE

Rows == {Row(c, h, n) : c \in 0 .. LastID - 1, h \in 0 .. LastID - 1, n \in 1 .. LastID}
UsableRows == {row \in Rows : ContainerEnd(row) <= LastID /\ row.h + row.n <= LastID}

Retain(proposed) ==
    LET result == RetainGeometry(proposed, kept) IN
    /\ steps = 0
    /\ result.ok
    /\ kept' = result.rows
    /\ bound' = bound \cup Pairs(proposed)
    /\ UNCHANGED <<version, read, steps, together, admits>>

\* The first pass decides on the contents that it reads.
ReadHostFile ==
    /\ steps < Rounds
    /\ LET f == HostFiles[steps + 1] IN read' = [read EXCEPT ![f] = version[f]]
    /\ steps' = steps + 1
    /\ together' = IF steps' = Rounds THEN version ELSE together
    /\ UNCHANGED <<kept, bound, version, admits>>

\* (Mutation: the files are compared as the first pass goes on.)
ReadHostFileAgainEarly ==
    /\ steps = Rounds
    /\ steps' = 2 * Rounds
    /\ admits' = (read[HostFiles[Rounds]] = version[HostFiles[Rounds]])
    /\ UNCHANGED <<kept, bound, version, read, together>>

\* The second pass compares every file with what was read, in no fixed order
\* (the model's order is that of the first pass).
ReadHostFileAgain ==
    /\ steps \in Rounds .. 2 * Rounds - 1
    /\ LET f == HostFiles[steps - Rounds + 1] IN read[f] = version[f]
    /\ steps' = steps + 1
    /\ admits' = (steps' = 2 * Rounds)
    /\ UNCHANGED <<kept, bound, version, read, together>>

\* Somebody else writes a file; contents do not come back.
HostFileWritten(f) ==
    /\ steps \in 1 .. 2 * Rounds - 1
    /\ version[f] < MaxWrites
    /\ version' = [version EXCEPT ![f] = @ + 1]
    /\ UNCHANGED <<kept, bound, read, steps, together, admits>>

GeometryNext ==
    \/ \E row \in Rows : Retain(<<row>>)
    \/ \E first, second \in UsableRows : Retain(<<first, second>>)
    \/ kept = <<>> /\ (ReadHostFile \/ ReadHostFileAgain \/ \E f \in FileNames : HostFileWritten(f))

GeometrySpec == GeometryInit /\ [][GeometryNext]_geometryVars

-----------------------------------------------------------------------------
\* A retained list is canonical and stands for the union of all that was ever
\* accepted; no ID on either side is bound twice and the host's root never.
RetainsUnion ==
    /\ Pairs(kept) = bound
    /\ \A x, y \in bound : (x[1] = y[1]) = (x[2] = y[2])
    /\ \A x \in bound : x[2] # 0 /\ x[1] < LastID /\ x[2] < LastID
    /\ \A i \in 2 .. Len(kept) :
         /\ ContainerEnd(kept[i - 1]) <= kept[i].c
         /\ ContainerEnd(kept[i - 1]) = kept[i].c => Offset(kept[i - 1]) # Offset(kept[i])

\* A proposal is refused only for a reason: an ID that is bound twice or
\* unusable.
RefusesRightly ==
    kept # <<>> => \A row \in UsableRows :
        RetainGeometry(<<row>>, kept).ok =
            /\ row.h # 0
            /\ \A x, y \in bound \cup Pairs(<<row>>) : (x[1] = y[1]) = (x[2] = y[2])

\* The projection on declared IDs and its complement split the pairs.
ProjectionExact ==
    \A ids \in SUBSET {x[1] : x \in bound} :
        LET active == ProjectIDs(kept, ids)
            canonical == CombineReservations(active).rows IN
        /\ Pairs(active) = {x \in bound : x[1] \in ids}
        /\ Pairs(SubtractIntervals(kept, canonical)) = {x \in bound : x[1] \notin ids}

Spans == {[start |-> s, count |-> n] : s \in 0 .. LastID - 1, n \in 1 .. LastID}
UsableSpans == {span \in Spans : span.start + span.count <= LastID}
IDs(span) == span.start .. span.start + span.count - 1

\* Once the files have been read: every wanted host ID is delegated to the
\* operator and to nobody else, whether or not the delegation is split.
DelegationExact ==
    steps = Rounds /\ (\A f \in FileNames : version[f] = 0) =>
    \A wanted, a, b, other \in UsableSpans : a.start + a.count <= b.start =>
        CheckDelegation(wanted, <<a, b>>, <<other>>) =
            (IDs(wanted) \subseteq (IDs(a) \cup IDs(b)) \ IDs(other))

\* An accepted check saw files that all existed together.
CheckConsistent == admits => read = together

\* Identity maps (identitymapping/geometry.go, identity_execution_plan.go,
\* host.go): interval arithmetic agrees with the sets of pairs it stands for,
\* and a host check is accepted only on contents the files had at one moment.
GeometrySound ==
    /\ RetainsUnion /\ RefusesRightly /\ ProjectionExact /\ DelegationExact /\ CheckConsistent

===============================================================================
