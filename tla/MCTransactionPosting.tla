------------------------ MODULE MCTransactionPosting ------------------------
(***************************************************************************)
(* Instances of TransactionPosting for TLC.                                *)
(***************************************************************************)
EXTENDS TransactionPosting, TLC

Symmetry == Permutations(Keys) \cup Permutations(Handlers) \cup Permutations(Workers)
=============================================================================
