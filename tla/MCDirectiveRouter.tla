------------------------- MODULE MCDirectiveRouter -------------------------
(* Three handlers that compete for three names, and four threads, for TLC. *)
EXTENDS DirectiveRouter, TLC

CONSTANTS h1, h2, h3, n1, n2, n3, t1, t2, t3, t4

MCHandlers == {h1, h2, h3}
MCNames == {n1, n2, n3}
MCNamesOf == (h1 :> {n1, n2}) @@ (h2 :> {n2, n3}) @@ (h3 :> {n3})
MCThreads == {t1, t2, t3, t4}

MCSymmetry == Permutations(MCThreads)
=============================================================================
