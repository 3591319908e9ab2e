----------------------------- MODULE MCMegaLoop -----------------------------
(* MegaLoop for TLC.  Every bound is a number in the .cfg; here are the    *)
(* picture of the chamber updateState() is given, in which the machine is  *)
(* ready as soon as it is homed, and a view.                               *)
EXTENDS MegaLoop

InertChamber == {"inert"}

SlotsOf(S) == {s \in Slot : pend[s] \in S}

(* The states of a run that asks about cycles: which slots are taken, and  *)
(* what is marked of the commands in them.  The numbers of commands and    *)
(* the answers given already decide nothing the machine does.              *)
CycleView ==
  <<pc, axes, cycle, wasBusy, state, latched, accepted, blade, SlotsOf({0}),
    SlotsOf(cut), SlotsOf(Unseen)>>
=============================================================================
