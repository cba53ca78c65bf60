---------------------------- MODULE MCBlockImport ----------------------------
EXTENDS BlockImport

(* The uncle properties read only the chain and its citations; states that *)
(* differ only in the outcome of the last failed import or in how far the  *)
(* working block has synced are one state for them.                        *)
UncleView == <<height, headRoot, cited>>
=============================================================================
