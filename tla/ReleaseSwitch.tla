--------------------------- MODULE ReleaseSwitch ---------------------------
(***************************************************************************)
(* What an installer promises of a card from which a service runs: the     *)
(* files are of one release, or on the way between two, of which they end  *)
(* as the one or the other; and the service starts only from a whole one,  *)
(* as long as the card is guarded.                                         *)
(***************************************************************************)
CONSTANTS Release, Nothing

VARIABLES
  card,     \* the releases the files are between, one alone when whole
  guarded,  \* the card says so
  running   \* the release the service runs, or Nothing

Whole(r) == card = {r}

Init == guarded = TRUE /\ \E r \in Release : Whole(r) /\ running = r

Begin == /\ \E from \in Release, to \in Release : Whole(from) /\ card' = {from, to}
         /\ UNCHANGED <<guarded, running>>

End == (\E r \in card : card' = {r}) /\ guarded' = TRUE /\ UNCHANGED running

(* Between two releases the guard may go, and come back.                   *)
Slip == guarded' = ~guarded /\ UNCHANGED <<card, running>>

Start == /\ running = Nothing
         /\ \E r \in card : (guarded => Whole(r)) /\ running' = r
         /\ UNCHANGED <<card, guarded>>

Leave == running' = Nothing /\ UNCHANGED <<card, guarded>>

Next == Begin \/ End \/ Slip \/ Start \/ Leave
Spec == Init /\ [][Next]_<<card, guarded, running>>
=============================================================================
