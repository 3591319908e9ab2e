----------------------------- MODULE TableSlot -----------------------------
(***************************************************************************)
(* What field_correction.h promises of the correction table in use: there  *)
(* is one, or none yet, and the only thing that ever happens to it is to   *)
(* be replaced, in one step, by another complete one.  Transfers that fail *)
(* are not seen.                                                           *)
(***************************************************************************)
CONSTANTS Tables, NoTable

VARIABLE slot

Init == slot \in Tables \union {NoTable}

Replace(t) == slot' = t

Next == \E t \in Tables : Replace(t)

Spec == Init /\ [][Next]_slot
=============================================================================
