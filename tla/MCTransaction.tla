--------------------------- MODULE MCTransaction ---------------------------
(***************************************************************************)
(* Small instances of Transaction for TLC: a configuration names the       *)
(* requests of each kind.  All the code requests carry the same offline    *)
(* code, the case in which the second one must be refused.                 *)
(***************************************************************************)
EXTENDS Transaction, TLC

CONSTANTS Adds, Codes, Buffers, Waives

MCRequests == Adds \cup Codes \cup Buffers \cup Waives
MCKind == [r \in MCRequests |-> CASE r \in Adds    -> "add"
                                  [] r \in Codes   -> "code"
                                  [] r \in Buffers -> "buffer"
                                  [] r \in Waives  -> "waive"]
MCCode == [r \in MCRequests |-> "12345678"]

Symmetry == Permutations(Adds) \cup Permutations(Codes) \cup Permutations(Buffers)
=============================================================================
