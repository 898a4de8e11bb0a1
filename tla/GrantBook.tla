----------------------------- MODULE GrantBook -----------------------------
(***************************************************************************)
(* What the write path promises about granted time, whatever is            *)
(* interrupted: one book of grants, each entered whole and never struck    *)
(* out, an offline code entered once and the daily buffer once.  The       *)
(* promise ends when a file is lost outside a transaction, a rollback      *)
(* fails, or a transaction is taken up again over a file lost in it: from  *)
(* then on the book is not trusted.                                        *)
(***************************************************************************)
EXTENDS Integers

CONSTANTS Requests, Kind, Code

VARIABLES book, trusted

Init == book = {} /\ trusted = TRUE

Spent(r) == \E e \in book : \/ Kind[r] = "code" /\ Kind[e[1]] = "code" /\ Code[e[1]] = Code[r]
                            \/ Kind[r] = "buffer" /\ Kind[e[1]] = "buffer"

Enter(e) ==
  /\ trusted /\ e \in Requests \X Nat /\ ~Spent(e[1])
  /\ book' = book \cup {e}
  /\ UNCHANGED trusted

Betray ==
  /\ trusted' = FALSE
  /\ book' \subseteq Requests \X Nat

Next == Betray \/ \E e \in book' \ book : Enter(e)

Spec == Init /\ [][Next]_<<book, trusted>>
=============================================================================
