------------------------------ MODULE JobSlot ------------------------------
(***************************************************************************)
(* What the card's job file goes through, at its most: there is a whole    *)
(* job in it, or none.  A verified one is announced, and then, and only    *)
(* then, the job there may go; the one announced takes the place, or       *)
(* nothing does.  Of transfers that fail before that nothing is seen.      *)
(***************************************************************************)
CONSTANTS Jobs, NoJob

VARIABLES
  slot,  \* the job that is there
  next   \* the job being committed, or NoJob

Init ==
  /\ slot \in Jobs \union {NoJob}
  /\ next = NoJob

Announce(j) ==
  /\ next = NoJob
  /\ next' = j
  /\ UNCHANGED slot

Lose ==
  /\ next # NoJob
  /\ slot' = NoJob
  /\ UNCHANGED next

Replace ==
  /\ next # NoJob
  /\ slot' = next
  /\ next' = NoJob

GiveUp ==
  /\ next' = NoJob
  /\ UNCHANGED slot

Next == (\E j \in Jobs : Announce(j)) \/ Lose \/ Replace \/ GiveUp

Spec == Init /\ [][Next]_<<slot, next>>
=============================================================================
