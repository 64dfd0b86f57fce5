------------------------------ MODULE Lattice ------------------------------
(***************************************************************************)
(* Integer lattice arithmetic used by the enumeration engine of            *)
(* src/lattice/Enumerate.cpp.  A matrix is stored the way the code indexes *)
(* it, column by column: a function from the column indices 0..n-1 to      *)
(* columns, each a function from row indices to Int.  Coefficient vectors  *)
(* are functions from 0..n-1 to Int.                                       *)
(*                                                                         *)
(* Norms.  The code compares Euclidean norms (square roots) with `<`,      *)
(* `<=` and Min.  The model carries every norm x as its signed square      *)
(* x*|x|, a strictly increasing map of the reals, so every comparison and  *)
(* every Min of the code has the same outcome on the signed squares, and   *)
(* the norm of an integer vector is the integer NormSq.                    *)
(***************************************************************************)
EXTENDS Integers, FiniteSets, FiniteSetsExt, Functions

\* Number of columns of a basis (the code's n = B.Width()).
Width(M) == Cardinality(DOMAIN M)

\* The column indices 0..n-1 of an n-column matrix.
ColIdx(n) == 0 .. n - 1

\* Gemv( NORMAL, 1, M, x, 0, y ): y = M x, over the given row indices.
MatVec(M, x, rows) ==
    [i \in rows |-> SumFunction([j \in DOMAIN M |-> M[j][i] * x[j]])]

\* The matrix product M W, column by column (W is n x n).
MatMul(M, W, rows) == [j \in DOMAIN W |-> MatVec(M, W[j], rows)]

\* Identity( U, n, n ).
IdentityMat(n) ==
    [j \in ColIdx(n) |-> [i \in ColIdx(n) |-> IF i = j THEN 1 ELSE 0]]

\* Axpy( scale, M(ALL,c), M(ALL,j) ): column j += scale * column c.
ColumnAxpy(M, scale, c, j) ==
    [M EXCEPT ![j] = [i \in DOMAIN M[j] |-> M[j][i] + scale * M[c][i]]]

\* The squared Euclidean norm of an integer vector.
NormSq(x) == SumFunction([i \in DOMAIN x |-> x[i] * x[i]])

\* The zero coefficient vector and the unit vector e_1 (v.Set(0,0,1)).
ZeroVec(n) == [j \in ColIdx(n) |-> 0]
UnitVec(n) == [j \in ColIdx(n) |-> IF j = 0 THEN 1 ELSE 0]

\* Determinant by cofactor expansion along the first column.
RECURSIVE Det(_)
Det(M) ==
    LET n == Width(M)
        \* M without column 0 and row r, re-indexed to 0..n-2.
        Minor(r) == [j \in ColIdx(n - 1) |->
                       [i \in ColIdx(n - 1) |->
                          M[j + 1][IF i < r THEN i ELSE i + 1]]]
    IN  IF n = 0 THEN 1
        ELSE SumFunction([r \in ColIdx(n) |->
                 (IF r % 2 = 0 THEN 1 ELSE -1) * M[0][r] * Det(Minor(r))])

\* A unimodular integer matrix: determinant +1 or -1.
IsUnimodular(M) == Det(M) \in {-1, 1}

=============================================================================
