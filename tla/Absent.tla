------------------------------- MODULE Absent -------------------------------
(* The values that stand for what is not there: no reference (NULL), a row *)
(* that has not been written yet, a row that was deleted.                  *)
CONSTANTS None, Unborn, Gone

ASSUME AbsentAssumption == None # Unborn /\ Unborn # Gone /\ None # Gone
=============================================================================
