-------------------------- MODULE MCAutomationCycle --------------------------
(***************************************************************************)
(* Small instances of AutomationCycle, one rule at a time: by quota and    *)
(* with approval (rq), with slots and without approval (rs), and one that *)
(* may adopt one of two (rc).                                              *)
(***************************************************************************)
EXTENDS AutomationCycle

CONSTANTS c1, c2, c3, rq, rs, rc

WantsOf == [r \in Rules |-> IF r = rq THEN {c1, c2} ELSE {c2, c3}]
CapOf == [r \in Rules |-> IF r = rc THEN 1 ELSE 2]
PlanOf == [r \in Rules |-> IF r = rs THEN <<[at |-> 0, count |-> 1], [at |-> 1, count |-> 1]>>
                           ELSE <<[at |-> 0, count |-> 1]>>]
PerTickOf == [r \in Rules |-> IF r = rs THEN 2 ELSE 1]
=============================================================================
