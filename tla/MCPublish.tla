------------------------------ MODULE MCPublish -------------------------------
(***************************************************************************)
(* Small instances of Publish.                                             *)
(***************************************************************************)
EXTENDS Publish, TLC

Interchangeable ==
    Permutations(Requests) \cup Permutations(Workers)
    \cup Permutations(Keys) \cup Permutations(Videos)
=============================================================================
