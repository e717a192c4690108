--------------------------- MODULE MCProjectCheckout ---------------------------
(***************************************************************************)
(* ProjectCheckout for TLC: two callers that meet in one directory.  The   *)
(* callers, the packages and the files are interchangeable.                *)
(***************************************************************************)
EXTENDS ProjectCheckout, TLC

Symmetry == Permutations(Callers) \cup Permutations(Names) \cup Permutations(Files)
=============================================================================
