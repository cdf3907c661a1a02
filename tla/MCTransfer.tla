------------------------------ MODULE MCTransfer ------------------------------
(***************************************************************************)
(* A small instance of Transfer: a file of two units in chunks of two, so  *)
(* that a chunk can be stored in part and the request after it is short;   *)
(* a session that is lost and the one that replaces it; a request of the   *)
(* server that works on beside its repetition.                             *)
(***************************************************************************)
EXTENDS Transfer
=============================================================================
