------------------------------ MODULE MCMigrate ------------------------------
(***************************************************************************)
(* Small instances of Migrate: two buckets, a server that answers and one  *)
(* that may not, and one disturbance.                                      *)
(***************************************************************************)
EXTENDS Migrate

CONSTANTS d1, d2

Give1 == [b \in {1} |-> {d1}]
GiveBoth == [b \in {1, 2} |-> IF b = 1 THEN {d1} ELSE {d1, d2}]
GiveDead == [b \in {1} |-> {d2}]
Swap1 == [b \in {1} |-> {}]

DeadPlans == {Give1, GiveDead, Swap1}
AllPlans == {NoPlan, GiveBoth, Swap1}
=============================================================================
