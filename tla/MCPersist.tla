------------------------------ MODULE MCPersist ------------------------------
(* Persist for TLC: behaviours that write records without end and save no  *)
(* settings, and that save them without end.  Both go through the wrap of  *)
(* the numbers they use.  Of the settings saved nothing is asked but       *)
(* whether they are the same.                                              *)
EXTENDS Persist, TLC

ManyRecords == [records |-> SeqMod, saves |-> 0]
ManySaves == [records |-> 0, saves |-> 1]

RecordsOrSaves == {ManyRecords, ManySaves}

AlikeValues == Permutations(Values)
=============================================================================
