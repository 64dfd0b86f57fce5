---------------------------- MODULE MC_Shortest ----------------------------
(***************************************************************************)
(* Model-checking instance of ShortestVectorEnumeration on the bases of    *)
(* MC_ShortVector.                                                         *)
(***************************************************************************)
EXTENDS ShortestVectorEnumeration

Mat2(a, b, c, d) == [k \in 0 .. 1 |-> IF k = 0 THEN [i \in 0 .. 1 |-> IF i = 0 THEN a ELSE c]
                                              ELSE [i \in 0 .. 1 |-> IF i = 0 THEN b ELSE d]]

\* |b0|^2 = 4 and 9; the shortest vectors have |.|^2 = 2 and 5.
MCBases == {Mat2(2, 1, 0, 1), Mat2(3, 1, 0, 2), <<>>}

\* Inclusive bounds: 0 (a call with a bound that cannot be met), and at,
\* between and above the lattices' norms.
MCBounds == {0, 5, 6, 10}

MCScales == {-1, 0, 1}

\* Smaller bounds for the liveness run: one basis, one bound that needs two
\* improvements (|b0|^2 = 9 > 6 > 5).
MCLiveBases == {Mat2(3, 1, 0, 2)}
MCLiveBounds == {10}

MCBKZSteps == {Mat2(1, 0, 0, 1), Mat2(1, 1, 0, 1), Mat2(0, 1, 1, 0)}

=============================================================================
