------------------------------ MODULE MCAirflow ------------------------------
(* Airflow for TLC: a purge as the settings have it, one whose timeout is  *)
(* shorter than its minimum mix, and one that skips the minimum.           *)
EXTENDS Airflow

Readings == {0, 3, 5}

SomeRequests ==
  {[target |-> 3, timeout |-> 2, minMix |-> 1],
   [target |-> 3, timeout |-> 1, minMix |-> 2],
   [target |-> 4, timeout |-> 2, minMix |-> 0]}
=============================================================================
