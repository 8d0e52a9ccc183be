------------------------------- MODULE IdSource -------------------------------
(***************************************************************************)
(* What the two INSERTs of dbdrive/db_models.go need of getSnowflakeId:    *)
(* every call returns a number that no call returned before, in the same   *)
(* window of time.                                                         *)
(***************************************************************************)
EXTENDS Naturals

VARIABLES
  issued,   \* the numbers returned so far, each with its window
  calls     \* how many calls have returned

Init == issued = {} /\ calls = 0

Issue ==
  /\ calls' = calls + 1
  /\ \E id \in issued' : id \notin issued /\ issued' = issued \union {id}

Spec == Init /\ [][Issue]_<<issued, calls>>
=============================================================================
