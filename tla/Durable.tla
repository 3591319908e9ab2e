------------------------------ MODULE Durable ------------------------------
(***************************************************************************)
(* What persist.h promises of the machine settings, and when: a register   *)
(* in RAM and what a boot would restore of it.  Storing it is one step, at *)
(* any time after a save, and a power cycle loses only what was not stored *)
(* yet.  A save that meets a store under way puts all of that at risk,     *)
(* until a store after it settles the register again.                      *)
(***************************************************************************)
CONSTANTS Values, Blank

VARIABLES current, stored, owed, risk

vars == <<current, stored, owed, risk>>

Init == current = Blank /\ stored = Blank /\ owed = FALSE /\ risk = FALSE

Save(v) ==
  /\ current' = v
  /\ owed' = TRUE
  /\ risk' \in {risk, risk \/ owed}
  /\ UNCHANGED stored

Store ==
  /\ owed
  /\ stored' = current
  /\ owed' = FALSE
  /\ risk' = FALSE
  /\ UNCHANGED current

Unsettled ==
  /\ risk
  /\ stored' \in Values \union {Blank}
  /\ owed' \in BOOLEAN
  /\ UNCHANGED <<current, risk>>

PowerCycle ==
  /\ stored' \in IF risk THEN Values \union {Blank} ELSE {stored}
  /\ current' = stored'
  /\ owed' = FALSE
  /\ UNCHANGED risk

Next == (\E v \in Values : Save(v)) \/ Store \/ Unsettled \/ PowerCycle

Spec == Init /\ [][Next]_vars
=============================================================================
