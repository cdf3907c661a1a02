---------------------------- MODULE MCCreditTopup -----------------------------
(***************************************************************************)
(* Small instances of CreditTopup.                                         *)
(***************************************************************************)
EXTENDS CreditTopup, TLC

RunSymmetry == Permutations(AutoRuns) \cup Permutations(CardRuns)
=============================================================================
