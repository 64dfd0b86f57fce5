--------------------------- MODULE EnumerationSetup ---------------------------
(***************************************************************************)
(* The strategy set-up of one short-vector enumeration call,              *)
(* src/lattice/Enumerate.cpp lines 162 and 301: ctrl.enumType selects the *)
(* GNR branch, which first builds its pruning bounds (GNRPruningBounds),  *)
(* or the YSPARSE branch, which first plans its phases (YSparsePhases).   *)
(* Each branch leaves the other's state untouched, so the variables of    *)
(* the branch not taken keep their initial values.                        *)
(***************************************************************************)
EXTENDS Integers, Sequences

CONSTANTS
    GNRMaxN,          \* the dimensions checked for GNR are 1..GNRMaxN
    YSparseMaxN,      \* and for YSPARSE 1..YSparseMaxN
    PhaseLengths, StartIndices, CustomBounds

VARIABLES
    enumType,         \* ctrl.enumType: "GNR" or "YSPARSE"
    n,                \* B.Width(), shared by both branches
    linearBounding, j, upperBounds,                          \* GNR
    ctrl, pc, startIndex, numPhases, maxInfNorms, maxOneNorms \* YSPARSE

gnrVars == <<linearBounding, j, upperBounds>>
ysVars == <<ctrl, pc, startIndex, numPhases, maxInfNorms, maxOneNorms>>
vars == <<enumType, n, gnrVars, ysVars>>

GNR == INSTANCE GNRPruningBounds WITH MaxN <- GNRMaxN
YS == INSTANCE YSparsePhases WITH MaxN <- YSparseMaxN

\* Line 162 / 301: one branch per call.  The other branch's variables are
\* at their initial values (a YSPARSE call has no ctrl record of GNR's).
Init ==
    \/ /\ enumType = "GNR"
       /\ GNR!Init
       /\ ctrl = <<>> /\ pc = "start" /\ startIndex = 0 /\ numPhases = 0
       /\ maxInfNorms = <<>> /\ maxOneNorms = <<>>
    \/ /\ enumType = "YSPARSE"
       /\ YS!Init
       /\ linearBounding = FALSE /\ j = 0 /\ upperBounds = <<>>

Next ==
    \/ enumType = "GNR" /\ GNR!Next /\ UNCHANGED <<enumType, ysVars>>
    \/ enumType = "YSPARSE" /\ YS!Next /\ UNCHANGED <<enumType, gnrVars>>

Spec == Init /\ [][Next]_vars

-----------------------------------------------------------------------------
(* Properties: those of the branch the call took.                          *)

TypeOK ==
    /\ enumType \in {"GNR", "YSPARSE"}
    /\ enumType = "GNR" => GNR!TypeOK
    /\ enumType = "YSPARSE" => YS!TypeOK

\* GNR: the pruning bounds never shrink with depth and none exceeds
\* normUpperBound (lines 167-206), so a pruned enumeration only discards.
PruningMonotone == enumType = "GNR" => GNR!PruningMonotone

\* GNR: once the loop of line 167 or 192 is done the last coordinate is
\* bounded by normUpperBound itself.
LastBoundIsFull == enumType = "GNR" => GNR!LastBoundIsFull

\* YSPARSE: the coordinates startIndex..n-1 fall into exactly the phases
\* 0..numPhases-1, none empty, and the default bound arrays (lines
\* 309-310) give every phase an entry, the last one admitting one-norm 2.
PhasesPartitionTail == enumType = "YSPARSE" => YS!PhasesPartitionTail

\* YSPARSE: the plan handed to the phase kernel has a defined phase count
\* and one bound per phase in each array, the caller's arrays included.
PlanFitsPhases == enumType = "YSPARSE" => YS!PlanFitsPhases

=============================================================================
