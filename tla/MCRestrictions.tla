--------------------------- MODULE MCRestrictions ---------------------------
(* An afternoon, the hour before bedtime, a night over midnight, the next  *)
(* evening's window, which begins as the first one ends, and a morning.    *)
EXTENDS Restrictions

ThreeDays == [p \in 0..5 |-> IF p < 3 THEN 0 ELSE IF p < 5 THEN 1 ELSE 2]
TwoNights == [p \in 0..5 |-> IF p \in {2, 3} THEN 2 ELSE IF p = 4 THEN 4 ELSE None]
=============================================================================
