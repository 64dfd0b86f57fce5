------------------------ MODULE ShortVectorEnumeration ------------------------
(***************************************************************************)
(* One call of ShortVectorEnumeration( B, R, normUpperBound, v, ctrl ) at  *)
(* the precision it finally computes in (src/lattice/Enumerate.cpp lines   *)
(* 14-343 after the precision cascade, which PrecisionCascade models).     *)
(*                                                                         *)
(* The bound is exclusive.  The call returns the trivial vector e_1 when   *)
(* the first Gram-Schmidt vector is already short enough, and otherwise    *)
(* dispatches on ctrl.enumType:                                            *)
(*   FULL     one exhaustive enumeration;                                  *)
(*   YSPARSE  one phase enumeration;                                       *)
(*   GNR      up to numTrials pruned enumerations, every trial after the   *)
(*            first on a randomly perturbed and BKZ-reduced copy BNew = B U *)
(*            of the basis, the result mapped back by v <- U v.            *)
(*                                                                         *)
(* The leaf kernels (svp::GNREnumeration, svp::PhaseEnumeration) and BKZ   *)
(* are outside this repository's sources; they are modelled by their      *)
(* contracts (spec.md section 6): a kernel returns a vector below the      *)
(* bound together with its norm, or a norm >= bound; the full enumeration  *)
(* misses no vector; BKZ with jumpstart multiplies BNew and U by the same  *)
(* unimodular matrix.  Norms are signed squares (see Lattice).             *)
(***************************************************************************)
EXTENDS Integers, Lattice

CONSTANTS
    Bases,        \* the input bases B (with R(0,0) = || B(:,0) ||)
    Bounds,       \* signed squares of the normUpperBound arguments
    EnumTypes,    \* subset of {"FULL", "GNR", "YSPARSE"}
    TrialCounts,  \* values of ctrl.numTrials
    Scales,       \* the values SampleUniform( Int(-5), Int(5) ) can take
    BKZSteps,     \* unimodular transforms the fix-up BKZ may apply
    CoeffBound    \* the kernels search coefficients in -CoeffBound..CoeffBound

ASSUME CoeffBound \in Nat \ {0}
ASSUME EnumTypes \subseteq {"FULL", "GNR", "YSPARSE"}
ASSUME \A W \in BKZSteps : IsUnimodular(W)

VARIABLES
    B,                \* the caller's basis (read only)
    ctrl,             \* [enumType, numTrials]
    normUpperBound,   \* the exclusive bound of this call
    pc,               \* "start", "trial", "perturb", "search" or "done"
    trial,            \* the GNR trial counter
    j,                \* the column the perturbation loop is at
    BNew,             \* the trial's working copy of the basis
    U,                \* the trial's unimodular accumulator
    v,                \* the output coefficient vector
    result            \* the returned norm (signed square)

svVars == <<B, ctrl, normUpperBound, pc, trial, j, BNew, U, v, result>>

n == Width(B)
Rows == IF n = 0 THEN {} ELSE DOMAIN B[0]

\* R.Get(0,0): the norm of the first Gram-Schmidt vector, the first column.
b0ProjNorm == NormSq(B[0])

\* Nonzero coefficient vectors the kernels enumerate.
Coeffs == [ColIdx(n) -> -CoeffBound .. CoeffBound] \ {ZeroVec(n)}

\* Vectors of basis M strictly below the exclusive bound b.
Below(M, b) == {w \in Coeffs : NormSq(MatVec(M, w, Rows)) < b}

\* Norms a kernel may report when it finds nothing below b (any value >= b;
\* b itself and one value above it cover both outcomes of every comparison).
NotFoundNorms(b) == {b, b + 1}

\* What v holds after a kernel that found nothing: left unspecified.
Garbage == Coeffs \cup {ZeroVec(n)}

\* 2*normUpperBound+1 as a signed square: (2x+1)^2 for x = sqrt(b) is
\* 4b + 4x + 1, replaced by 4b + 1, which compares with b the same way.
GNRFailure(b) == 4 * b + 1

Init ==
    /\ B \in Bases
    /\ ctrl \in [enumType : EnumTypes, numTrials : TrialCounts]
    /\ normUpperBound \in Bounds
    /\ pc = "start"
    /\ trial = 0
    /\ j = 0
    /\ BNew = B
    /\ U = IdentityMat(Width(B))
    /\ v \in Garbage
    /\ result = 0

Return(r, w) ==
    /\ pc' = "done"
    /\ result' = r
    /\ v' = w

-----------------------------------------------------------------------------
(* Lines 26-31: v.Resize( n, 1 ) and the two early returns.                *)

ImpossibleBound ==
    /\ pc = "start"
    /\ normUpperBound <= 0
    /\ \E w \in Garbage : Return(1, w)
    /\ UNCHANGED <<B, ctrl, normUpperBound, trial, j, BNew, U>>

EmptyBasis ==
    /\ pc = "start"
    /\ normUpperBound > 0
    /\ n = 0
    /\ Return(0, v)
    /\ UNCHANGED <<B, ctrl, normUpperBound, trial, j, BNew, U>>

\* Lines 149-155: the first basis vector already beats the bound.
TrivialVector ==
    /\ pc = "start"
    /\ normUpperBound > 0
    /\ n > 0
    /\ b0ProjNorm < normUpperBound
    /\ Return(b0ProjNorm, UnitVec(n))
    /\ UNCHANGED <<B, ctrl, normUpperBound, trial, j, BNew, U>>

\* Guard shared by the three strategies (lines 156-161 normalise R).
Dispatch(type) ==
    /\ pc = "start"
    /\ normUpperBound > 0
    /\ n > 0
    /\ ~(b0ProjNorm < normUpperBound)
    /\ ctrl.enumType = type

\* Lines 329-342: one exhaustive enumeration with every bound = normUpperBound.
FullEnum ==
    /\ Dispatch("FULL")
    /\ \/ \E w \in Below(B, normUpperBound) :
             Return(NormSq(MatVec(B, w, Rows)), w)
       \/ /\ Below(B, normUpperBound) = {}
          /\ \E r \in NotFoundNorms(normUpperBound), w \in Garbage : Return(r, w)
    /\ UNCHANGED <<B, ctrl, normUpperBound, trial, j, BNew, U>>

\* Lines 301-328: one phase enumeration; it may miss short vectors.
YSparseEnum ==
    /\ Dispatch("YSPARSE")
    /\ \/ \E w \in Below(B, normUpperBound) :
             Return(NormSq(MatVec(B, w, Rows)), w)
       \/ \E r \in NotFoundNorms(normUpperBound), w \in Garbage : Return(r, w)
    /\ UNCHANGED <<B, ctrl, normUpperBound, trial, j, BNew, U>>

\* Lines 162-218: build the pruning bounds and enter the trial loop.
StartGNR ==
    /\ Dispatch("GNR")
    /\ pc' = "trial"
    /\ trial' = 0
    /\ UNCHANGED <<B, ctrl, normUpperBound, j, BNew, U, v, result>>

-----------------------------------------------------------------------------
(* The GNR trial loop, lines 219-299.                                      *)

\* Variant of BeginTrial that runs one trial too many (<= for <).
BeginTrialOffByOne ==
    /\ pc = "trial"
    /\ trial <= ctrl.numTrials
    /\ BNew' = B
    /\ U' = IdentityMat(n)
    /\ j' = 0
    /\ pc' = IF trial # 0 THEN "perturb" ELSE "search"
    /\ UNCHANGED <<B, ctrl, normUpperBound, trial, v, result>>

\* Lines 219-223: a fresh copy of B and U = I; trial 0 searches B itself.
BeginTrial ==
    /\ pc = "trial"
    /\ trial < ctrl.numTrials
    /\ BNew' = B
    /\ U' = IdentityMat(n)
    /\ j' = 0
    /\ pc' = IF trial # 0 THEN "perturb" ELSE "search"
    /\ UNCHANGED <<B, ctrl, normUpperBound, trial, v, result>>

\* Line 299: every trial failed.
TrialsExhausted ==
    /\ pc = "trial"
    /\ ~(trial < ctrl.numTrials)
    /\ Return(GNRFailure(normUpperBound), v)
    /\ UNCHANGED <<B, ctrl, normUpperBound, trial, j, BNew, U>>

\* Variant of Perturb without the c == j test: B(:,j) += scale*B(:,j).
PerturbSameColumn ==
    /\ pc = "perturb"
    /\ j < n
    /\ \E c \in ColIdx(n), scale \in Scales :
          IF scale = 0
          THEN UNCHANGED <<BNew, U>>
          ELSE /\ BNew' = ColumnAxpy(BNew, scale, c, j)
               /\ U' = ColumnAxpy(U, scale, c, j)
    /\ j' = j + 1
    /\ UNCHANGED <<B, ctrl, normUpperBound, pc, trial, v, result>>

\* Lines 226-243: one iteration of the perturbation loop over column j;
\* c == j and scale == 0 are skipped (c == j could make BNew singular).
Perturb ==
    /\ pc = "perturb"
    /\ j < n
    /\ \E c \in ColIdx(n), scale \in Scales :
          IF c = j \/ scale = 0
          THEN UNCHANGED <<BNew, U>>
          ELSE /\ BNew' = ColumnAxpy(BNew, scale, c, j)
               /\ U' = ColumnAxpy(U, scale, c, j)
    /\ j' = j + 1
    /\ UNCHANGED <<B, ctrl, normUpperBound, pc, trial, v, result>>

\* Lines 245-256: BKZ( BNew, U, RNew, ctrl ) with jumpstart = true
\* accumulates its unimodular transform W into U.
FixUpBKZ ==
    /\ pc = "perturb"
    /\ j = n
    /\ \E W \in BKZSteps :
          /\ BNew' = MatMul(BNew, W, Rows)
          /\ U' = MatMul(U, W, ColIdx(n))
    /\ pc' = "search"
    /\ UNCHANGED <<B, ctrl, normUpperBound, trial, j, v, result>>

\* Variant of GNRSearch that maps the vector back only after trial 1.
GNRSearchLateMapBack ==
    /\ pc = "search"
    /\ \/ \E w \in Below(BNew, normUpperBound) :
             /\ Return(NormSq(MatVec(BNew, w, Rows)),
                    IF trial > 1 THEN MatVec(U, w, ColIdx(n)) ELSE w)
             /\ UNCHANGED trial
       \/ \E w \in Garbage :
             /\ v' = w
             /\ trial' = trial + 1
             /\ pc' = "trial"
             /\ UNCHANGED result
    /\ UNCHANGED <<B, ctrl, normUpperBound, j, BNew, U>>

\* Lines 257-297: re-triangularise BNew, run the pruned enumeration on it;
\* a vector found after trial 0 is mapped back by v <- U v.
GNRSearch ==
    /\ pc = "search"
    /\ \/ \E w \in Below(BNew, normUpperBound) :
             /\ Return(NormSq(MatVec(BNew, w, Rows)),
                    IF trial > 0 THEN MatVec(U, w, ColIdx(n)) ELSE w)
             /\ UNCHANGED trial
       \/ \E w \in Garbage :
             /\ v' = w
             /\ trial' = trial + 1
             /\ pc' = "trial"
             /\ UNCHANGED result
    /\ UNCHANGED <<B, ctrl, normUpperBound, j, BNew, U>>

-----------------------------------------------------------------------------

svNext ==
    \/ ImpossibleBound
    \/ EmptyBasis
    \/ TrivialVector
    \/ FullEnum
    \/ YSparseEnum
    \/ StartGNR
    \/ BeginTrial
    \/ TrialsExhausted
    \/ Perturb
    \/ FixUpBKZ
    \/ GNRSearch

Spec == Init /\ [][svNext]_svVars

-----------------------------------------------------------------------------
(* Properties.                                                             *)

TypeOK ==
    /\ B \in Bases
    /\ ctrl \in [enumType : EnumTypes, numTrials : TrialCounts]
    /\ normUpperBound \in Bounds
    /\ pc \in {"start", "trial", "perturb", "search", "done"}
    /\ trial \in 0 .. Max(TrialCounts)
    /\ j \in 0 .. n
    /\ BNew \in [ColIdx(n) -> [Rows -> Int]]
    /\ U \in [ColIdx(n) -> [ColIdx(n) -> Int]]
    /\ v \in [ColIdx(n) -> Int]
    /\ result \in Int

\* While a GNR trial works on its perturbed copy, the copy is B U for a
\* unimodular U (lines 221-253: B copied, U reset, the same column
\* operations and the same BKZ transform applied to both), so it spans
\* the caller's lattice and a vector found in it maps back by U.
BasisTracked ==
    pc \in {"perturb", "search"} =>
        /\ BNew = MatMul(B, U, Rows)
        /\ IsUnimodular(U)

\* The refinement mapping to the call's contract: the call has returned
\* once pc = "done", with its result and v.  ShortestVectorEnumeration
\* checks every call it makes against Contract!Allowed.
Contract == INSTANCE ShortVectorContract WITH
    returned <- pc = "done",
    result   <- IF pc = "done" THEN result ELSE 0,
    v        <- IF pc = "done" THEN v ELSE ZeroVec(n)

=============================================================================
