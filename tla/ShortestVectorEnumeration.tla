----------------------- MODULE ShortestVectorEnumeration -----------------------
(***************************************************************************)
(* ShortestVectorEnumeration( B, R, [normUpperBound,] v, ctrl ),           *)
(* src/lattice/Enumerate.cpp lines 345-514, at the precision it finally    *)
(* computes in (the cascade of lines 380-485 is modelled by               *)
(* PrecisionCascade).  The bound is inclusive.  Starting from v = e_1 and  *)
(* targetNorm = Min(normUpperBound, || b_0 ||), the loop calls            *)
(* ShortVectorEnumeration with the exclusive bound targetNorm, adopts a    *)
(* shorter vector and tightens the bound, and stops at the first call that *)
(* finds nothing; if no vector was ever within the inclusive bound it      *)
(* raises RuntimeError.                                                    *)
(*                                                                         *)
(* Each call is the ShortVectorEnumeration machine itself, instantiated    *)
(* with the call's own variables: its exclusive bound callBound, its       *)
(* output vCand and its result callResult.                                 *)
(***************************************************************************)
EXTENDS Integers, Lattice

CONSTANTS Bases, Bounds, EnumTypes, TrialCounts, Scales, BKZSteps, CoeffBound

VARIABLES
    B, ctrl,
    normUpperBound,   \* the caller's inclusive bound
    spc,              \* "start", "loop", "wait", "done" or "error"
    v,                \* the best vector so far (the output)
    targetNorm,       \* the exclusive bound of the next call
    satisfiedBound,   \* some vector within the inclusive bound is known
    ret,              \* the returned norm
    \* the state of the ShortVectorEnumeration call in progress
    callPc, callBound, trial, j, BNew, U, vCand, callResult

callVars == <<callPc, callBound, trial, j, BNew, U, vCand, callResult>>
vars == <<B, ctrl, normUpperBound, spc, v, targetNorm, satisfiedBound, ret,
          callVars>>

SV == INSTANCE ShortVectorEnumeration WITH
    normUpperBound <- callBound, pc <- callPc, v <- vCand, result <- callResult

n == Width(B)
b0Norm == SV!b0ProjNorm

\* Lines 345-361: the overload without a bound uses R(0,0).
Init ==
    /\ B \in Bases
    /\ ctrl \in [enumType : EnumTypes, numTrials : TrialCounts]
    /\ normUpperBound \in Bounds \cup (IF Width(B) = 0 THEN {} ELSE {NormSq(B[0])})
    /\ spc = "start"
    /\ v = ZeroVec(Width(B))
    /\ targetNorm = 0
    /\ satisfiedBound = FALSE
    /\ ret = 0
    /\ callPc = "done"
    /\ callBound = 0
    /\ trial = 0
    /\ j = 0
    /\ BNew = B
    /\ U = IdentityMat(Width(B))
    /\ vCand = ZeroVec(Width(B))
    /\ callResult = 0

\* Lines 375-378: an empty basis returns 0.
EmptyBasis ==
    /\ spc = "start"
    /\ n = 0
    /\ ret' = 0
    /\ spc' = "done"
    /\ UNCHANGED <<B, ctrl, normUpperBound, v, targetNorm, satisfiedBound, callVars>>

\* Lines 488-493: start from e_1, whose norm is || b_0 ||.
Begin ==
    /\ spc = "start"
    /\ n > 0
    /\ v' = UnitVec(n)
    /\ satisfiedBound' = (b0Norm <= normUpperBound)
    /\ targetNorm' = Min({normUpperBound, b0Norm})
    /\ spc' = "loop"
    /\ UNCHANGED <<B, ctrl, normUpperBound, ret, callVars>>

\* Lines 497-499: a fresh vCand and the call with the exclusive targetNorm.
Call ==
    /\ spc = "loop"
    /\ callPc' = "start"
    /\ callBound' = targetNorm
    /\ vCand' \in SV!Garbage
    /\ spc' = "wait"
    /\ UNCHANGED <<B, ctrl, normUpperBound, v, targetNorm, satisfiedBound, ret,
                   trial, j, BNew, U, callResult>>

\* A step of the call in progress.
CallStep ==
    /\ spc = "wait"
    /\ callPc # "done"
    /\ SV!svNext
    /\ UNCHANGED <<normUpperBound, spc, v, targetNorm, satisfiedBound, ret>>

\* Variant of Improve that returns after the first improvement whatever the
\* strategy (the YSPARSE test of line 506 lost).
ImproveReturnsEarly ==
    /\ spc = "wait"
    /\ callPc = "done"
    /\ callResult < targetNorm
    /\ ctrl.enumType # "YSPARSE"
    /\ v' = vCand
    /\ targetNorm' = callResult
    /\ satisfiedBound' = TRUE
    /\ ret' = callResult
    /\ spc' = "done"
    /\ UNCHANGED <<B, ctrl, normUpperBound, callVars>>

\* Variant of Improve that adopts the vector but keeps the old targetNorm.
ImproveKeepsTarget ==
    /\ spc = "wait"
    /\ callPc = "done"
    /\ callResult < targetNorm
    /\ ctrl.enumType # "YSPARSE"
    /\ v' = vCand
    /\ satisfiedBound' = TRUE
    /\ spc' = "loop"
    /\ UNCHANGED <<B, ctrl, normUpperBound, targetNorm, ret, callVars>>

\* Lines 500-504: a shorter vector; adopt it and tighten the bound.
Improve ==
    /\ spc = "wait"
    /\ callPc = "done"
    /\ callResult < targetNorm
    /\ ctrl.enumType # "YSPARSE"
    /\ v' = vCand
    /\ targetNorm' = callResult
    /\ satisfiedBound' = TRUE
    /\ spc' = "loop"
    /\ UNCHANGED <<B, ctrl, normUpperBound, ret, callVars>>

\* Lines 505-507: YSPARSE returns after its first improvement.
ImproveYSparse ==
    /\ spc = "wait"
    /\ callPc = "done"
    /\ callResult < targetNorm
    /\ ctrl.enumType = "YSPARSE"
    /\ v' = vCand
    /\ targetNorm' = callResult
    /\ satisfiedBound' = TRUE
    /\ ret' = callResult
    /\ spc' = "done"
    /\ UNCHANGED <<B, ctrl, normUpperBound, callVars>>

\* Variant of FixedPoint without the satisfiedBound test (line 509).
FixedPointUnguarded ==
    /\ spc = "wait"
    /\ callPc = "done"
    /\ ~(callResult < targetNorm)
    /\ ret' = targetNorm
    /\ spc' = "done"
    /\ UNCHANGED <<B, ctrl, normUpperBound, v, targetNorm, satisfiedBound, callVars>>

\* Lines 509-510: nothing shorter; the current vector is the answer.
FixedPoint ==
    /\ spc = "wait"
    /\ callPc = "done"
    /\ ~(callResult < targetNorm)
    /\ satisfiedBound
    /\ ret' = targetNorm
    /\ spc' = "done"
    /\ UNCHANGED <<B, ctrl, normUpperBound, v, targetNorm, satisfiedBound, callVars>>

\* Lines 511-512: RuntimeError("Could not satisfy (inclusive) norm upper bound").
Unsatisfied ==
    /\ spc = "wait"
    /\ callPc = "done"
    /\ ~(callResult < targetNorm)
    /\ ~satisfiedBound
    /\ spc' = "error"
    /\ UNCHANGED <<B, ctrl, normUpperBound, v, targetNorm, satisfiedBound, ret, callVars>>

Next ==
    \/ EmptyBasis
    \/ Begin
    \/ Call
    \/ CallStep
    \/ Improve
    \/ ImproveYSparse
    \/ FixedPoint
    \/ Unsatisfied

\* The engine is one thread that is never blocked: every enabled step is
\* eventually taken.
Spec == Init /\ [][Next]_vars /\ WF_vars(Next)

-----------------------------------------------------------------------------
(* Properties.                                                             *)

TypeOK ==
    /\ B \in Bases
    /\ spc \in {"start", "loop", "wait", "done", "error"}
    /\ v \in [ColIdx(n) -> Int]
    /\ targetNorm \in Int
    /\ satisfiedBound \in BOOLEAN
    /\ ret \in Int
    /\ callPc \in {"start", "trial", "perturb", "search", "done"}
    /\ callBound \in Int
    /\ trial \in 0 .. Max(TrialCounts)
    /\ BNew \in [ColIdx(n) -> [SV!Rows -> Int]]
    /\ U \in [ColIdx(n) -> [ColIdx(n) -> Int]]
    /\ vCand \in [ColIdx(n) -> Int]
    /\ callResult \in Int

\* A nonzero integer coefficient vector of B with norm r.
IsLatticeNorm(r, w) ==
    /\ w # ZeroVec(n)
    /\ NormSq(MatVec(B, w, SV!Rows)) = r

\* When the function returns for a nonempty basis, the returned norm is
\* within the caller's inclusive bound and is the norm of the returned v
\* (lines 488-513: v and targetNorm must be replaced together, and only
\* after a vector within the bound is known).
ReturnSound ==
    (spc = "done" /\ n > 0) =>
        /\ ret <= normUpperBound
        /\ IsLatticeNorm(ret, v)

\* With the exhaustive FULL strategy the loop runs to its fixed point: no
\* lattice vector is shorter than the returned one (spec.md 4.6).
ShortestOnFull ==
    (spc = "done" /\ n > 0 /\ ctrl.enumType = "FULL") =>
        \A w \in SV!Coeffs : ~(NormSq(MatVec(B, w, SV!Rows)) < ret)

\* Each BKZ step and perturbation of a call in progress keeps BNew = B U
\* with U unimodular (lines 222-253), also in a call that starts from the
\* BNew and U the previous call of the loop left behind.
BasisTracked == SV!BasisTracked

\* Every call the loop makes returns what ShortVectorContract allows for
\* its own exclusive bound (the refinement mapping of ShortVectorEnumeration
\* applied call by call): a norm below targetNorm is the norm of B vCand,
\* and FULL reports nothing only when nothing lies below targetNorm.
CallsMeetContract ==
    [][(callPc # "done" /\ callPc' = "done") => SV!Contract!Allowed(callResult', vCand')]_vars

\* The loop ends: every call returns and each improvement strictly lowers
\* targetNorm, so the function eventually returns or raises (spec.md 4.6).
Terminates == <>(spc \in {"done", "error"})

\* RuntimeError is raised only when the caller's inclusive bound really
\* cannot be met, as its message and the NOTE on line 363 say.
ErrorOnlyIfUnsatisfiable ==
    (spc = "error" /\ ctrl.enumType = "FULL") =>
        \A w \in SV!Coeffs : ~(NormSq(MatVec(B, w, SV!Rows)) <= normUpperBound)

=============================================================================
