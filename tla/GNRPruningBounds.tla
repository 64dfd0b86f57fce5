--------------------------- MODULE GNRPruningBounds ---------------------------
(***************************************************************************)
(* The per-coordinate pruning bounds of the GNR strategy,                  *)
(* src/lattice/Enumerate.cpp lines 164-210: the loop over j = 0..n-1 that  *)
(* sets upperBounds(j) = Sqrt(x_j) * normUpperBound, where x_j is (j+1)/n  *)
(* with ctrl.linearBounding and otherwise the linear interpolation of the  *)
(* 17-point table s at realIndex = 16 (j+1)/n.                             *)
(*                                                                         *)
(* Sqrt(x) * b is increasing in x, so a bound is carried as x, and x as an *)
(* exact rational: its numerator over the common denominator 10000 n (the  *)
(* table entries are given to four decimals).  The floating-point         *)
(* realIndex has the exact floor and ceiling of 16 (j+1) / n: when that    *)
(* quotient is an integer k, (j+1)/n = k/16 is a dyadic rational the       *)
(* division and the product by 16 compute exactly, and otherwise it lies   *)
(* at least 1/(16 n) from the nearest integer, far above the rounding.     *)
(***************************************************************************)
EXTENDS Integers, Sequences

CONSTANT MaxN     \* the dimensions n checked are 1..MaxN

ASSUME MaxN \in Nat \ {0}

VARIABLES
    n,                \* B.Width()
    linearBounding,   \* ctrl.linearBounding
    j,                \* the loop index
    upperBounds       \* the bounds set so far, numerators over Denom

vars == <<n, linearBounding, j, upperBounds>>

\* Lines 175-191: s(0..16) in units of 1/10000 (a sequence indexed 1..17).
s == <<1318, 1859, 2240, 2326, 2336, 2565, 2871, 3353, 3978, 4860,
       5808, 6936, 8241, 9191, 10000, 10000, 10000>>

\* s.Get( i, 0 ) for the code's 0-based index i.
STable(i) == s[i + 1]

\* The common denominator of every x_j.
Denom == 10000 * n

\* Variant of LinearFraction that uses Real(j)/Real(n).
LinearFractionFromZero(k) == 10000 * k

\* Line 168: Real(j+1)/Real(n), over Denom.
LinearFraction(k) == 10000 * (k + 1)

\* Variant of TableFraction with the two interpolation weights swapped.
TableFractionSwapped(k) ==
    LET q == 16 * (k + 1)
        floorIndex == q \div n
        ceilIndex == IF q % n = 0 THEN floorIndex ELSE floorIndex + 1
        r == q % n
    IN  STable(ceilIndex) * (n - r) + STable(floorIndex) * r

\* Lines 194-205: realIndex = 16 (k+1)/n; floorIndex and ceilIndex; the
\* interpolation ceilVal*indexFrac + floorVal*(1-indexFrac), over Denom
\* (indexFrac = r/n with r the remainder of 16 (k+1) by n).
TableFraction(k) ==
    LET q == 16 * (k + 1)
        floorIndex == q \div n
        ceilIndex == IF q % n = 0 THEN floorIndex ELSE floorIndex + 1
        r == q % n
    IN  STable(ceilIndex) * r + STable(floorIndex) * (n - r)

Init ==
    /\ n \in 1 .. MaxN
    /\ linearBounding \in BOOLEAN
    /\ j = 0
    /\ upperBounds = <<>>

\* One iteration of the loop of line 167 or of line 192.
SetBound ==
    /\ j < n
    /\ upperBounds' = Append(upperBounds,
                             IF linearBounding THEN LinearFraction(j)
                                               ELSE TableFraction(j))
    /\ j' = j + 1
    /\ UNCHANGED <<n, linearBounding>>

Next == SetBound

Spec == Init /\ [][Next]_vars

-----------------------------------------------------------------------------
(* Properties.                                                             *)

TypeOK ==
    /\ n \in 1 .. MaxN
    /\ linearBounding \in BOOLEAN
    /\ j \in 0 .. n
    /\ upperBounds \in Seq(Nat)

\* The bounds never shrink with depth and none exceeds normUpperBound: a
\* pruned enumeration only discards, and every vector it can report lies
\* below the caller's bound (lines 167-206).
PruningMonotone ==
    \A a \in 1 .. Len(upperBounds) :
        /\ upperBounds[a] <= Denom
        /\ a > 1 => upperBounds[a - 1] <= upperBounds[a]

\* Once the loop is done the last coordinate is bounded by normUpperBound
\* itself: at full depth the pruned search accepts exactly the vectors
\* the caller asked for (percent = 1, realIndex = 16, s(16) = 1).
LastBoundIsFull ==
    j = n => upperBounds[n] = Denom

=============================================================================
