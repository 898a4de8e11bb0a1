------------------------------ MODULE MCSetup ------------------------------
(* A parent's settings for the two days of the model's week.               *)
EXTENDS Setup

Of(today, other) == [d \in Weekday |-> IF d = 0 THEN today ELSE other]

OneNative  == {Of("empty", "limit")}
TwoNatives == {Of("limit", "free"), Of("empty", "odd")}
=============================================================================
