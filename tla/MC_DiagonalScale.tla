--------------------------- MODULE MC_DiagonalScale ---------------------------
(* DiagonalScale instantiated for TLC.                                       *)
EXTENDS DiagonalScale

\* 1, i and 1 - 2i.
MCValues == {<<1, 0>>, <<0, 1>>, <<1, -2>>}
====
