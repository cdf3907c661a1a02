----------------------------- MODULE MCTenantLock -----------------------------
(***************************************************************************)
(* A small instance of TenantLock: the default pool of five connections,   *)
(* so two slots, three callers and a request in one process, and a caller  *)
(* of the same company in another.                                         *)
(***************************************************************************)
EXTENDS TenantLock

CONSTANTS c1, c2, c3, c4, o1, i1, i2, t1, t2

TwoInstances == [p \in Procs |-> IF p = c4 THEN i2 ELSE i1]
\* c1 and c2 nest a lock; c3 and c4 want the lock that c1 nests.
TwoCycles == [c \in Callers |-> IF c \in {c1, c2} THEN "cycle" ELSE "topup"]
TwoTenants == [c \in Callers |-> IF c = c2 THEN t2 ELSE t1]
=============================================================================
