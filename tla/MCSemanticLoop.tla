--------------------------- MODULE MCSemanticLoop ---------------------------
(***************************************************************************)
(* Three feedback texts: the empty one, "short", and "long", which contains *)
(* "short" but not the third, so that similarity is not equality.          *)
(***************************************************************************)
EXTENDS SemanticLoop, TLC

CONSTANTS r1, r2, short, long, other

MCSimilar(g, h) == g = h \/ {g, h} = {short, long}
RunSymmetry == Permutations(Runs)
=============================================================================
