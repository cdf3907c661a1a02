-------------------------------- MODULE Upload --------------------------------
(***************************************************************************)
(* What an upload promises, whatever sessions it goes through: a session   *)
(* has the whole file before it is registered, one session is registered   *)
(* and no other ever, its second row joins the first, and only then is the *)
(* upload done, for good.                                                  *)
(***************************************************************************)
CONSTANT Sessions

VARIABLES
    stored,      \* sessions that hold the whole file
    registered,  \* sessions with a row
    complete,    \* sessions with both rows
    done         \* the upload is completed, on the disk

vars == <<stored, registered, complete, done>>

Init ==
    /\ stored = {} /\ registered = {} /\ complete = {}
    /\ done = FALSE

Store(s) ==
    /\ stored' = stored \cup {s}
    /\ UNCHANGED <<registered, complete, done>>

Register(s) ==
    /\ s \in stored
    /\ registered = {}
    /\ registered' = {s}
    /\ UNCHANGED <<stored, complete, done>>

Complete ==
    /\ registered # {}
    /\ complete' = registered
    /\ UNCHANGED <<stored, registered, done>>

Finish ==
    /\ complete # {}
    /\ done' = TRUE
    /\ UNCHANGED <<stored, registered, complete>>

Next ==
    \/ \E s \in Sessions : Store(s) \/ Register(s)
    \/ Complete
    \/ Finish

Spec == Init /\ [][Next]_vars
=============================================================================
