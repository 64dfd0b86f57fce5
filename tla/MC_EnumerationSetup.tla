------------------------- MODULE MC_EnumerationSetup -------------------------
(* The strategy set-up instantiated for TLC.                               *)
EXTENDS EnumerationSetup

\* Custom bound arrays: none, and one of the wrong length for most plans.
MCCustomBounds == {<<>>, <<1, 2>>}
====
