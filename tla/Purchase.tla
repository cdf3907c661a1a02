------------------------------ MODULE Purchase -------------------------------
(***************************************************************************)
(* What buying credits promises, whichever handler does the work: a        *)
(* payment is captured, then credited exactly once, then its order is      *)
(* closed as paid, and none of the three is ever taken back.               *)
(***************************************************************************)
EXTENDS Naturals

CONSTANT Payments

VARIABLES
    captured,   \* payments the provider holds the exact amount of
    credits,    \* [Payments -> Nat]: entries in the credit ledger
    closed      \* payments whose order is paid

vars == <<captured, credits, closed>>

Init ==
    /\ captured = {}
    /\ credits = [p \in Payments |-> 0]
    /\ closed = {}

Capture(p) ==
    /\ captured' = captured \cup {p}
    /\ UNCHANGED <<credits, closed>>

Credit(p) ==
    /\ p \in captured
    /\ credits[p] = 0
    /\ credits' = [credits EXCEPT ![p] = 1]
    /\ UNCHANGED <<captured, closed>>

Close(p) ==
    /\ credits[p] = 1
    /\ closed' = closed \cup {p}
    /\ UNCHANGED <<captured, credits>>

Next == \E p \in Payments : Capture(p) \/ Credit(p) \/ Close(p)

Spec == Init /\ [][Next]_vars
=============================================================================
