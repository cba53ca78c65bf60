----------------------------- MODULE MCOverlayDB -----------------------------
EXTENDS OverlayDB, TLC

(* Keys and values are interchangeable model values.                       *)
Symmetry == Permutations(Keys) \cup Permutations(Vals)
=============================================================================
