------------------------- MODULE ShortVectorContract -------------------------
(***************************************************************************)
(* What one call of ShortVectorEnumeration promises its caller, in one     *)
(* step (spec.md 4.3 and 7, and the NOTE above the function in            *)
(* src/lattice/Enumerate.cpp: the bound is exclusive):                     *)
(*   - a bound <= 0 can never be met and the call returns 1;               *)
(*   - an empty basis returns 0;                                           *)
(*   - a returned norm below the bound is the norm of B v for a nonzero    *)
(*     integer v, in the coordinates of the caller's basis;                *)
(*   - the FULL strategy reports "not found" (a norm >= bound) only when   *)
(*     no lattice vector lies below the bound.                             *)
(* Norms are signed squares (see Lattice).                                 *)
(***************************************************************************)
EXTENDS Integers, Lattice

CONSTANT CoeffBound

VARIABLES B, ctrl, normUpperBound, returned, result, v

cVars == <<B, ctrl, normUpperBound, returned, result, v>>

n == Width(B)
Rows == IF n = 0 THEN {} ELSE DOMAIN B[0]
Coeffs == [ColIdx(n) -> -CoeffBound .. CoeffBound] \ {ZeroVec(n)}

\* The lattice vector with coefficients w has norm r.
IsLatticeNorm(r, w) ==
    /\ w \in [ColIdx(n) -> Int]
    /\ w # ZeroVec(n)
    /\ NormSq(MatVec(B, w, Rows)) = r

Allowed(r, w) ==
    CASE normUpperBound <= 0 -> r = 1
      [] n = 0               -> r = 0
      [] OTHER ->
           /\ r < normUpperBound => IsLatticeNorm(r, w)
           /\ (ctrl.enumType = "FULL" /\ ~(r < normUpperBound)) =>
                 \A x \in Coeffs : ~(NormSq(MatVec(B, x, Rows)) < normUpperBound)

Init ==
    /\ returned = FALSE
    /\ result = 0
    /\ v = ZeroVec(n)

Return ==
    /\ ~returned
    /\ returned' = TRUE
    /\ Allowed(result', v')
    /\ UNCHANGED <<B, ctrl, normUpperBound>>

Spec == Init /\ [][Return]_cVars

=============================================================================
