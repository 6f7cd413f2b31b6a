--------------------------- MODULE MCFilterChain ----------------------------
(***************************************************************************)
(* Small integer coefficients, all different, for the two filter stages,   *)
(* and samples on both sides of zero.                                      *)
(***************************************************************************)
EXTENDS FilterChain

MCLowshelf  == [a1 |-> 1, a2 |-> 2, g |-> 1, k1 |-> 2, k2 |-> -1]
MCHighshelf == [a1 |-> -1, a2 |-> 1, g |-> 2, k1 |-> 3, k2 |-> 1, k3 |-> -2]
MCBells     == <<[a1 |-> 1, a2 |-> -1, g |-> 2, R |-> 3],
                 [a1 |-> 2, a2 |-> 1, g |-> -1, R |-> 1]>>

MCSample    == {-40, 0, 1000}

MCLowpass  == [b0 |-> 1, b1 |-> 2,  b2 |-> 3, a1 |-> 1, a2 |-> -2]
MCHighpass == [b0 |-> 2, b1 |-> -3, b2 |-> 1, a1 |-> -1, a2 |-> 1]
=============================================================================
