----------------------------- MODULE MCDelivery -----------------------------
EXTENDS Delivery, TLC

CONSTANTS c1, c2, r1, r2, b1, b2

(* Any client sends any request: two may come under one id.                *)
AnySends == [Clients -> Requests \X Bodies]

(* The ids are unique, as the clients make them.                           *)
UniqueSends == {s \in AnySends : \A c, d \in Clients : c # d => s[c][1] # s[d][1]}

(* One of them for each client, where the checking of liveness bars symmetry. *)
OneSend == {s \in UniqueSends : s[c1] = <<r1, b1>> /\ s[c2] = <<r2, b1>>}

Symmetry == Permutations(Clients) \cup Permutations(Requests) \cup Permutations(Bodies)
=============================================================================
