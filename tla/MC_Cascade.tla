------------------------------ MODULE MC_Cascade ------------------------------
(* The precision cascade instantiated for TLC.                              *)
EXTENDS PrecisionCascade

\* Mantissa widths in the order the code tests them (lines 39-127):
\* float 24, double 53, DoubleDouble 106, QuadDouble 212, Quad 113.
MCLadder == <<24, 53, 106, 212, 113>>

\* The native types: double, Quad, QuadDouble and a 256-bit BigFloat.
MCNativeBits == {53, 113, 256}

\* Ceil(Log2(OneNorm(B))*fudge): a one-norm below 1 (negative), 0, a small
\* basis, and entries needing more than 106 bits.
MCLog2Values == {-3, 20, 110}

\* Spacing of each type's values in one binade: float 4, double 2, the
\* wider types 1 (every value checked is exact there).
MCUlp == [w \in {24, 53, 106, 113, 212, 256} |->
             IF w = 24 THEN 4 ELSE IF w = 53 THEN 2 ELSE 1]

\* A lattice with ||b_0|| = 9 and a shorter vector of norm 6.  Bound 6 is
\* exact everywhere but has nothing below it; 7 rounds up to 8 in float,
\* where 6 is a tie that rounds onto it; 10 rounds down to 8 in float,
\* where both norms round onto it.
MCNorms == {6, 9}
MCBounds == {6, 7, 10}
====
