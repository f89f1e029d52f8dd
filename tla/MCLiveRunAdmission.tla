------------------------- MODULE MCLiveRunAdmission -------------------------
(***************************************************************************)
(* Small instances of LiveRunAdmission: run1 and run2 may overlap with     *)
(* others, run3 and the lifecycle command op1 are exclusive.               *)
(***************************************************************************)
EXTENDS LiveRunAdmission, TLC

CONSTANTS run1, run2, run3, op1, stop1

MCExclusive == {run3, op1} \cap Ids
MCControl == {op1} \cap Ids
MCTarget == [s \in Stoppers |-> run1]

MCDrain == [i \in Ids |-> IF i = op1 THEN "drain" ELSE "wait"]
MCForce == [i \in Ids |-> IF i = op1 THEN "force" ELSE IF i = run1 THEN "immediate" ELSE "wait"]

\* Without a `runs stop', nothing tells run1 and run2 apart under MCDrain.
MCSymmetry == Permutations({run1, run2})

=============================================================================
