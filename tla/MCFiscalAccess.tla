--------------------------- MODULE MCFiscalAccess ---------------------------
(***************************************************************************)
(* Small instances of FiscalAccess for TLC.                                *)
(***************************************************************************)
EXTENDS FiscalAccess, TLC

Symmetry == Permutations(Workers) \cup Permutations(Proofs) \cup Permutations(Keys)
=============================================================================
