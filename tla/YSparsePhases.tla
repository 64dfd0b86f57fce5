---------------------------- MODULE YSparsePhases ----------------------------
(***************************************************************************)
(* The phase plan of the YSPARSE strategy, src/lattice/Enumerate.cpp lines *)
(* 301-315: the start index, the number of phases and the per-phase bound  *)
(* arrays handed to svp::PhaseEnumeration (outside this repository, which  *)
(* enumerates coordinate i in phase (i - startIndex) / phaseLength).       *)
(*                                                                         *)
(* C++ integer division truncates toward zero; a negative vector length   *)
(* converts to a huge size_t and std::vector's constructor throws.  A     *)
(* phaseLength of 0 divides by zero on line 307: undefined behaviour,     *)
(* which traps on the usual targets; the model stops in "undefined".      *)
(***************************************************************************)
EXTENDS Integers, Sequences

CONSTANTS
    MaxN,             \* the dimensions n checked are 1..MaxN
    PhaseLengths,     \* values of ctrl.phaseLength
    StartIndices,     \* values of ctrl.startIndex
    CustomBounds      \* values of ctrl.maxInfNorms and ctrl.maxOneNorms

ASSUME PhaseLengths \subseteq Nat

VARIABLES
    n, ctrl,
    pc,             \* "start", "built", "thrown" or "undefined"
    startIndex, numPhases, maxInfNorms, maxOneNorms

vars == <<n, ctrl, pc, startIndex, numPhases, maxInfNorms, maxOneNorms>>

\* a / b in C++: the quotient truncated toward zero.
CDiv(a, b) == IF a >= 0 THEN a \div b ELSE -((-a) \div b)

\* Max( n/2-1, 0 ).
DefaultStartIndex(m) == IF m \div 2 - 1 > 0 THEN m \div 2 - 1 ELSE 0

\* Variant of NumPhases without the rounding up (+ phaseLength - 1).
NumPhasesFloor(m, s, len) == CDiv(m - s, len)

\* Line 307: ((n-startIndex)+phaseLength-1)/phaseLength.
NumPhases(m, s, len) == CDiv((m - s) + len - 1, len)

\* Variant of DefaultOneNorms that sets the last entry only from two phases on.
DefaultOneNormsLate(k) == [i \in 1 .. k |-> IF i = k /\ k >= 2 THEN 2 ELSE 1]

\* Lines 309-310: maxOneNorms(numPhases,1); maxOneNorms[numPhases-1] = 2.
DefaultOneNorms(k) == [i \in 1 .. k |-> IF i = k THEN 2 ELSE 1]

Init ==
    /\ n \in 1 .. MaxN
    /\ ctrl \in [phaseLength : PhaseLengths,
                 customStartIndex : BOOLEAN, startIndex : StartIndices,
                 customMaxInfNorms : BOOLEAN, maxInfNorms : CustomBounds,
                 customMaxOneNorms : BOOLEAN, maxOneNorms : CustomBounds]
    /\ pc = "start"
    /\ startIndex = 0
    /\ numPhases = 0
    /\ maxInfNorms = <<>>
    /\ maxOneNorms = <<>>

\* Lines 303-307: the start index and the number of phases.
PlanPhases(s) ==
    /\ ctrl.phaseLength # 0
    /\ startIndex' = s
    /\ numPhases' = NumPhases(n, s, ctrl.phaseLength)


\* Lines 309-315: the default arrays, then the caller's overrides.
BuildBounds ==
    /\ pc = "start"
    /\ LET s == IF ctrl.customStartIndex THEN ctrl.startIndex
                                         ELSE DefaultStartIndex(n)
           k == NumPhases(n, s, ctrl.phaseLength)
       IN  /\ PlanPhases(s)
           /\ k >= 0
           /\ maxInfNorms' = IF ctrl.customMaxInfNorms THEN ctrl.maxInfNorms
                             ELSE [i \in 1 .. k |-> 1]
           /\ maxOneNorms' = IF ctrl.customMaxOneNorms THEN ctrl.maxOneNorms
                             ELSE DefaultOneNorms(k)
    /\ pc' = "built"
    /\ UNCHANGED <<n, ctrl>>

\* Line 309: vector<Int>( numPhases, 1 ) with numPhases < 0 throws.
LengthError ==
    /\ pc = "start"
    /\ ctrl.customStartIndex
    /\ PlanPhases(ctrl.startIndex)
    /\ NumPhases(n, ctrl.startIndex, ctrl.phaseLength) < 0
    /\ pc' = "thrown"
    /\ UNCHANGED <<n, ctrl, maxInfNorms, maxOneNorms>>

\* Line 307 with phaseLength = 0: the division by zero.
ZeroPhaseLength ==
    /\ pc = "start"
    /\ ctrl.phaseLength = 0
    /\ pc' = "undefined"
    /\ UNCHANGED <<n, ctrl, startIndex, numPhases, maxInfNorms, maxOneNorms>>

Next == BuildBounds \/ LengthError \/ ZeroPhaseLength

Spec == Init /\ [][Next]_vars

-----------------------------------------------------------------------------
(* Properties.                                                             *)

TypeOK ==
    /\ n \in 1 .. MaxN
    /\ pc \in {"start", "built", "thrown", "undefined"}
    /\ startIndex \in Int
    /\ numPhases \in Int
    /\ pc = "built" => numPhases \in Nat
    /\ maxInfNorms \in Seq(Nat)
    /\ maxOneNorms \in Seq(Nat)

\* The coordinates startIndex..n-1 fall into exactly the phases
\* 0..numPhases-1, none of them empty (spec.md 4.3 and 8: numPhases =
\* ceil((n - startIndex)/phaseLength)), and the default bound arrays give
\* every phase an entry, the last one admitting one-norm 2.
PhasesPartitionTail ==
    (pc = "built" /\ startIndex <= n) =>
        /\ {CDiv(i - startIndex, ctrl.phaseLength) : i \in startIndex .. n - 1}
              = 0 .. numPhases - 1
        /\ ~ctrl.customMaxInfNorms => Len(maxInfNorms) = numPhases
        /\ ~ctrl.customMaxOneNorms =>
              /\ Len(maxOneNorms) = numPhases
              /\ numPhases >= 1 => maxOneNorms[numPhases] = 2

\* The plan handed to svp::PhaseEnumeration is well formed: the phase
\* count is defined (phaseLength >= 1) and both bound arrays are
\* per-phase arrays, one entry per phase (spec.md 3), whether they are the
\* defaults or the caller's ctrl.maxInfNorms / ctrl.maxOneNorms (lines
\* 312-315 take the caller's arrays as they are).
PlanFitsPhases ==
    /\ pc # "undefined"
    /\ pc = "built" =>
          /\ Len(maxInfNorms) = numPhases
          /\ Len(maxOneNorms) = numPhases

=============================================================================
