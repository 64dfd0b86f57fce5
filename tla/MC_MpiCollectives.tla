-------------------------- MODULE MC_MpiCollectives --------------------------
(* MpiCollectives instantiated for TLC.                                      *)
EXTENDS MpiCollectives

MCRealValues == {<<1, 0>>, <<2, 0>>}

\* 1 + i and i: their complex product differs from the entrywise one.
MCComplexValues == {<<1, 1>>, <<0, 1>>}
====
