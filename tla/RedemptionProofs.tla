-------------------------- MODULE RedemptionProofs --------------------------
(***************************************************************************)
(* Proofs about the note of a redemption, for any number of codes and of   *)
(* troubles: what the child is told was not sent is not executed, and what *)
(* was sent keeps its note until its outcome was shown.                    *)
(***************************************************************************)
EXTENDS Redemption, TLAPS

(***************************************************************************)
(* The inductive invariant.                                                *)
(***************************************************************************)
Steps == {"off", "free", "previewing", "sending", "calling", "marking", "refused"}
Fates == {"open", "shown", "denied", "hasty", "robbed", "torn"}
Ids   == 0 .. MaxRequests

TypeOK ==
  /\ note \in [id : Requests, submitted : BOOLEAN] \cup {NoNote}
  /\ place \in [Requests -> {"none", "pending", "done"}]
  /\ result \in [Requests -> {"none", "ok", "error"}]
  /\ calls \subseteq Requests /\ used \in Ids
  /\ step \in [Programs -> Steps] /\ req \in [Programs -> Ids]
  /\ wait \in [Programs -> BOOLEAN] /\ mine \in [Programs -> Ids]
  /\ recovering \in [Programs -> BOOLEAN]
  /\ page \in [Programs -> [label : {"none", "pending", "result"}, of : Ids]]
  /\ visible \in BOOLEAN /\ fresh \in BOOLEAN
  /\ fate \in [Requests -> Fates] /\ troubles \in Nat

(* An id that was not given out is nowhere.                                *)
Unused ==
  /\ \A r \in Requests : r > used => ~Evidence(r) /\ r \notin calls /\ note.id # r /\ fate[r] = "open"
  /\ \A p \in Programs : req[p] <= used

(* A program submits a request, or waits for one, and nobody else does.    *)
OneEach ==
  /\ \A p \in Programs : step[p] \notin {"off", "free"} => req[p] \in Requests /\ ~wait[p]
  /\ \A p \in Programs : wait[p] => req[p] \in Requests
  /\ \A p, q \in Programs : p # q /\ req[p] = req[q] => req[p] = None

(* How far a request has come at each step.                                *)
Progress ==
  /\ \A p \in Programs :
       /\ step[p] \in {"previewing", "sending", "refused"} => ~Evidence(req[p]) /\ req[p] \notin calls
       /\ step[p] = "previewing" => note.id # req[p]
       /\ step[p] = "calling" => req[p] \in calls
  /\ \A r \in calls : ~Evidence(r)

(* What was denied is not on its way.                                      *)
Denials ==
  \A r \in Requests : fate[r] = "denied" =>
    /\ ~Evidence(r) /\ r \notin calls
    /\ \A p \in Programs : req[p] = r => step[p] \notin {"previewing", "sending", "calling", "marking"}

(* What is on its way, or has come through, and of which nothing was said  *)
(* has the note.                                                           *)
Noted ==
  \A r \in Requests : fate[r] = "open" /\ (Evidence(r) \/ UnderWay(r)) => note.id = r

(* What is shown is there, and a result page shows what was shown.         *)
Showing ==
  /\ \A r \in Requests : fate[r] = "shown" => result[r] # "none"
  /\ \A p \in Programs : page[p].label = "result" => page[p].of \in Requests /\ fate[page[p].of] = "shown"

IInv == TypeOK /\ Unused /\ OneEach /\ Progress /\ Denials /\ Noted /\ Showing

USE BoundsAssumption DEF Requests, None, Ids

-----------------------------------------------------------------------------
(***************************************************************************)
(* What is done to the note.                                               *)
(***************************************************************************)
LEMMA NoNoteFacts ==
  /\ NoNote.id = None /\ NoNote \notin [id : Requests, submitted : BOOLEAN]
  /\ \A r \in Requests, b \in BOOLEAN :
       Note(r, b) \in [id : Requests, submitted : BOOLEAN] /\ Note(r, b).id = r
BY DEF NoNote, Note

(* There is a note, or it names no request.                                *)
LEMMA NoteId ==
  ASSUME TypeOK
  PROVE  note.id \in Ids /\ (note # NoNote => note.id \in Requests) /\ (note = NoNote => note.id = None)
BY NoNoteFacts DEF TypeOK

(* Another note takes the fate of the one that is there only where nothing *)
(* was said of it.                                                         *)
LEMMA RobbedIs ==
  ASSUME NEW f \in [Requests -> Fates], NEW r
  PROVE  /\ Robbed(f, r) \in [Requests -> Fates]
         /\ \A x \in Requests : \/ Robbed(f, r)[x] = f[x] /\ (x = note.id /\ x # r => f[x] # "open")
                                \/ x = note.id /\ x # r /\ f[x] = "open" /\ Robbed(f, r)[x] = "robbed"
<1>1. \A x \in Requests : Robbed(f, r)[x] = IF x = note.id /\ x # r /\ f[x] = "open" THEN "robbed" ELSE f[x]
  BY DEF Robbed
<1>2. \A x \in Requests : Robbed(f, r)[x] \in Fates
  BY <1>1 DEF Fates
<1>3. Robbed(f, r) \in [Requests -> Fates]
  BY <1>2 DEF Robbed
<1> QED BY <1>1, <1>3

LEMMA WriteIs ==
  ASSUME TypeOK, NEW r \in Requests, NEW b \in BOOLEAN, Write(r, b)
  PROVE  /\ note' \in [id : Requests, submitted : BOOLEAN] /\ note'.id = r
         /\ fate' \in [Requests -> Fates]
         /\ \A x \in Requests : /\ fate'[x] = fate[x] \/ (x = note.id /\ fate[x] = "open" /\ fate'[x] = "robbed")
                                /\ fate'[x] = "open" /\ note.id = x => x = r
<1>1. fate \in [Requests -> Fates]
  BY DEF TypeOK
<1>2. /\ Robbed(fate, r) \in [Requests -> Fates]
      /\ \A x \in Requests : \/ Robbed(fate, r)[x] = fate[x] /\ (x = note.id /\ x # r => fate[x] # "open")
                             \/ x = note.id /\ x # r /\ fate[x] = "open" /\ Robbed(fate, r)[x] = "robbed"
  BY <1>1, RobbedIs
<1>3. note' = Note(r, b) /\ fate' = Robbed(fate, r)
  BY DEF Write
<1> QED BY <1>2, <1>3, NoNoteFacts

LEMMA CutShortIs ==
  ASSUME TypeOK, NEW r \in Requests, CutShort(r)
  PROVE  /\ note' \in [id : Requests, submitted : BOOLEAN] \cup {NoNote} /\ note'.id \in {note.id, None}
         /\ fate' \in [Requests -> Fates]
         /\ \A x \in Requests : /\ fate'[x] = fate[x] \/ (x = note.id /\ fate[x] = "open" /\ fate'[x] \in {"torn", "robbed"})
                                /\ fate'[x] = "open" /\ note.id = x => note'.id = x
<1>1. CASE UNCHANGED <<note, fate>>
  BY <1>1 DEF TypeOK
<1>2. CASE note' = NoNote /\ note.id = r /\ fate[r] = "open" /\ fate' = Is(fate, r, "torn")
  BY <1>2, NoNoteFacts DEF TypeOK, Is, Fates
<1>3. CASE note' = NoNote /\ ~(note.id = r /\ fate[r] = "open") /\ fate' = Robbed(fate, r)
  BY <1>3, RobbedIs, NoNoteFacts DEF TypeOK
<1> QED BY <1>1, <1>2, <1>3 DEF CutShort

(* Where something was said of the request for which the note goes, every  *)
(* open one that had the note has it still.                                *)
LEMMA ClearIs ==
  ASSUME TypeOK, NEW r \in Requests, NEW f \in [Requests -> Fates], f[r] # "open", Clear(r, f)
  PROVE  /\ note' \in [id : Requests, submitted : BOOLEAN] \cup {NoNote} /\ note'.id \in {note.id, None}
         /\ fate' \in [Requests -> Fates] /\ troubles' \in Nat
         /\ \A x \in Requests : /\ fate'[x] = f[x] \/ (x = note.id /\ f[x] = "open" /\ fate'[x] = "robbed")
                                /\ fate'[x] = "open" /\ note.id = x => note'.id = x
<1>1. CASE NoTrouble /\ note' = NoNote /\ fate' = Robbed(f, r)
  <2>1. /\ Robbed(f, r) \in [Requests -> Fates]
        /\ \A x \in Requests : \/ Robbed(f, r)[x] = f[x] /\ (x = note.id /\ x # r => f[x] # "open")
                               \/ x = note.id /\ x # r /\ f[x] = "open" /\ Robbed(f, r)[x] = "robbed"
    BY RobbedIs
  <2> QED BY <1>1, <2>1, NoNoteFacts DEF TypeOK, NoTrouble
<1>2. CASE Trouble /\ note # NoNote /\ UNCHANGED note /\ fate' = f
  BY <1>2 DEF TypeOK, Trouble
<1> QED BY <1>1, <1>2 DEF Clear

-----------------------------------------------------------------------------
(***************************************************************************)
(* Steps that send nothing.                                                *)
(***************************************************************************)
(* A program goes on as it was or has nothing to submit any more; the note *)
(* stays or goes; nothing is denied that is on its way; what is shown is   *)
(* there.                                                                  *)
LEMMA AsideKeeps ==
  ASSUME IInv, TypeOK', UNCHANGED <<place, result, calls, used>>,
         \A p \in Programs : \/ step'[p] = step[p] /\ req'[p] = req[p]
                             \/ step'[p] \in {"off", "free"} /\ req'[p] \in {None, req[p]},
         \A p \in Programs : wait'[p] => wait[p] /\ req'[p] = req[p],
         note'.id \in {note.id, None},
         \A x \in Requests : /\ fate'[x] = "open" => fate[x] = "open" /\ (note.id = x => note'.id = x)
                             /\ fate'[x] = "denied" =>
                                  \/ fate[x] = "denied"
                                  \/ /\ ~Evidence(x) /\ x \notin calls
                                     /\ \A p \in Programs : req'[p] = x =>
                                          step'[p] \notin {"previewing", "sending", "calling", "marking"}
                             /\ fate'[x] = "shown" => result[x] # "none"
                             /\ fate[x] = "shown" => fate'[x] = "shown"
                             /\ fate'[x] = fate[x] \/ x <= used,
         \A p \in Programs : page'[p].label = "result" =>
                               \/ page'[p] = page[p]
                               \/ page'[p].of \in Requests /\ fate'[page'[p].of] = "shown"
  PROVE  IInv'
<1> USE DEF IInv
<1>1. \A r \in Requests : Evidence(r)' = Evidence(r)
  BY DEF Evidence
<1>2. Unused'
  BY <1>1 DEF Unused, TypeOK
<1>3. OneEach'
  BY DEF OneEach
<1>4. Progress'
  <2>1. \A p \in Programs : step'[p] \in {"previewing", "sending", "refused", "calling"} =>
          step'[p] = step[p] /\ req'[p] = req[p] /\ req[p] \in Requests
    BY DEF OneEach
  <2>2. \A r \in calls' : ~Evidence(r)'
    BY <1>1 DEF Progress, TypeOK
  <2> QED BY <1>1, <2>1, <2>2 DEF Progress
<1>5. Denials'
  BY <1>1 DEF Denials
<1>6. Noted'
  <2> SUFFICES ASSUME NEW r \in Requests, fate'[r] = "open", (Evidence(r) \/ UnderWay(r))'
               PROVE  note'.id = r
    BY DEF Noted
  <2>1. Evidence(r) \/ UnderWay(r)
    BY <1>1 DEF UnderWay
  <2> QED BY <2>1 DEF Noted
<1>7. Showing'
  BY DEF Showing
<1> QED BY <1>2, <1>3, <1>4, <1>5, <1>6, <1>7

(* The child is told something of a request.                               *)
LEMMA ToldIs ==
  ASSUME TypeOK, NEW r \in Requests, NEW v \in Fates
  PROVE  /\ Is(fate, r, v) \in [Requests -> Fates] /\ Is(fate, r, v)[r] = v
         /\ \A x \in Requests : x # r => Is(fate, r, v)[x] = fate[x]
BY DEF Is, TypeOK

LEMMA Pages ==
  /\ NoPage \in [label : {"none", "pending", "result"}, of : Ids] /\ NoPage.label = "none"
  /\ \A r \in Ids : \A l \in {"none", "pending", "result"} :
       Page(l, r) \in [label : {"none", "pending", "result"}, of : Ids] /\ Page(l, r).label = l /\ Page(l, r).of = r
BY DEF Page, NoPage

(* A code that could not be sent.                                          *)
LEMMA RefusedKeeps == ASSUME IInv, NEW p \in Programs, Refused(p) PROVE IInv'
<1> USE DEF IInv
<1>1. /\ step[p] = "refused" /\ req[p] \in Requests /\ req[p] <= used /\ ~wait[p]
      /\ ~Evidence(req[p]) /\ req[p] \notin calls
  BY DEF Refused, OneEach, Unused, Progress
<1>2. /\ step' = Is(step, p, "free") /\ req' = Is(req, p, None)
      /\ UNCHANGED <<place, result, calls, used, wait, mine, recovering, page, visible, fresh>>
  BY DEF Refused, Becomes, Is, screen
<1> DEFINE f == Is(fate, req[p], "denied")
<1>3. /\ f \in [Requests -> Fates] /\ f[req[p]] = "denied"
      /\ \A x \in Requests : x # req[p] => f[x] = fate[x]
  BY <1>1, ToldIs DEF Fates
<1>4. /\ note' \in [id : Requests, submitted : BOOLEAN] \cup {NoNote} /\ note'.id \in {note.id, None}
      /\ fate' \in [Requests -> Fates] /\ troubles' \in Nat
      /\ \A x \in Requests : /\ fate'[x] = f[x] \/ (x = note.id /\ f[x] = "open" /\ fate'[x] = "robbed")
                             /\ fate'[x] = "open" /\ note.id = x => note'.id = x
  <2>1. Clear(req[p], f)
    BY DEF Refused
  <2> HIDE DEF f
  <2>2. f[req[p]] # "open"
    BY <1>3
  <2> QED BY <1>1, <1>3, <2>1, <2>2, ClearIs
<1>5. /\ step' \in [Programs -> Steps] /\ req' \in [Programs -> Ids]
      /\ step'[p] = "free" /\ req'[p] = None
      /\ \A q \in Programs : q # p => step'[q] = step[q] /\ req'[q] = req[q]
  BY <1>2 DEF TypeOK, Steps, Is
<1>6. TypeOK'
  BY <1>2, <1>4, <1>5 DEF TypeOK
<1>7. \A x \in Requests : fate[x] = "shown" => x # req[p]
  BY <1>1 DEF Showing, Evidence
<1>8. \A x \in Requests : fate[x] # "open" => f[x] # "open"
  BY <1>3
<1> HIDE DEF f
<1>9. \A x \in Requests : x = note.id => x <= used
  BY NoteId DEF Unused, TypeOK
<1>10. \A x \in Requests :
         /\ fate'[x] = "open" => fate[x] = "open" /\ (note.id = x => note'.id = x)
         /\ fate'[x] = "denied" =>
              \/ fate[x] = "denied"
              \/ /\ ~Evidence(x) /\ x \notin calls
                 /\ \A q \in Programs : req'[q] = x =>
                      step'[q] \notin {"previewing", "sending", "calling", "marking"}
         /\ fate'[x] = "shown" => result[x] # "none"
         /\ fate[x] = "shown" => fate'[x] = "shown"
         /\ fate'[x] = fate[x] \/ x <= used
  <2> TAKE x \in Requests
  <2>1. CASE x = req[p]
    <3>1. fate'[x] = "denied"
      BY <2>1, <1>3, <1>4
    <3>2. \A q \in Programs : req'[q] # x
      <4>1. \A q \in Programs : q # p /\ req[q] = req[p] => req[p] = None
        BY DEF OneEach
      <4> QED BY <2>1, <4>1, <1>1, <1>5
    <3> QED BY <2>1, <3>1, <3>2, <1>1, <1>7
  <2>2. CASE x # req[p]
    BY <2>2, <1>3, <1>4, <1>9 DEF Showing
  <2> QED BY <2>1, <2>2
<1>11. \A q \in Programs : page'[q].label = "result" =>
         \/ page'[q] = page[q]
         \/ page'[q].of \in Requests /\ fate'[page'[q].of] = "shown"
  BY <1>2
<1>12. \A q \in Programs : wait'[q] => wait[q] /\ req'[q] = req[q]
  BY <1>1, <1>2, <1>5
<1> QED BY <1>2, <1>4, <1>5, <1>6, <1>10, <1>11, <1>12, AsideKeeps

(* A program that goes on or stops, and says nothing new.                  *)
LEMMA SilentKeeps ==
  ASSUME IInv, TypeOK', UNCHANGED <<place, result, calls, used, note, fate>>,
         \A p \in Programs : \/ step'[p] = step[p] /\ req'[p] = req[p]
                             \/ step'[p] \in {"off", "free"} /\ req'[p] \in {None, req[p]},
         \A p \in Programs : wait'[p] => wait[p] /\ req'[p] = req[p],
         \A p \in Programs : page'[p].label = "result" => page'[p] = page[p]
  PROVE  IInv'
<1>1. \A x \in Requests : fate[x] = "shown" => result[x] # "none"
  BY DEF IInv, Showing
<1>2. note'.id \in {note.id, None}
  OBVIOUS
<1>3. \A x \in Requests :
         /\ fate'[x] = "open" => fate[x] = "open" /\ (note.id = x => note'.id = x)
         /\ fate'[x] = "denied" =>
              \/ fate[x] = "denied"
              \/ /\ ~Evidence(x) /\ x \notin calls
                 /\ \A p \in Programs : req'[p] = x =>
                      step'[p] \notin {"previewing", "sending", "calling", "marking"}
         /\ fate'[x] = "shown" => result[x] # "none"
         /\ fate[x] = "shown" => fate'[x] = "shown"
         /\ fate'[x] = fate[x] \/ x <= used
  BY <1>1
<1> QED BY <1>2, <1>3, AsideKeeps

LEMMA StutterKeeps == ASSUME IInv, UNCHANGED vars PROVE IInv'
<1> USE DEF vars, card, program, screen
<1>1. TypeOK'
  BY DEF IInv, TypeOK
<1> QED BY <1>1, SilentKeeps

LEMMA HideKeeps == ASSUME IInv, Hide PROVE IInv'
<1> USE DEF Hide, card, program
<1>1. TypeOK'
  BY DEF IInv, TypeOK
<1> QED BY <1>1, SilentKeeps

LEMMA ReopenKeeps == ASSUME IInv, NEW p \in Programs, Reopen(p) PROVE IInv'
<1> USE DEF Reopen, card, screen
<1>1. page' = Is(page, p, Page("pending", mine[p])) /\ mine[p] \in Ids
  BY DEF IInv, TypeOK
<1>2. /\ page' \in [Programs -> [label : {"none", "pending", "result"}, of : Ids]]
      /\ page'[p].label = "pending" /\ \A q \in Programs : q # p => page'[q] = page[q]
  BY <1>1, Pages DEF IInv, TypeOK, Is
<1>3. TypeOK'
  BY <1>2 DEF IInv, TypeOK
<1> QED BY <1>2, <1>3, SilentKeeps

(* A program that waits has nothing to submit.                             *)
LEMMA WaitsIdle ==
  ASSUME IInv, NEW p \in Programs, wait[p]
  PROVE  step[p] \in {"off", "free"} /\ req[p] \in Requests /\ req[p] <= used
BY DEF IInv, OneEach, Unused

LEMMA GiveUpKeeps == ASSUME IInv, NEW p \in Programs, GiveUp(p) PROVE IInv'
<1> USE DEF GiveUp, card, screen
<1>1. step[p] \in {"off", "free"} /\ req[p] \in Ids
  BY WaitsIdle DEF IInv, TypeOK
<1>2. /\ page' \in [Programs -> [label : {"none", "pending", "result"}, of : Ids]]
      /\ page'[p].label = "pending" /\ \A q \in Programs : q # p => page'[q] = page[q]
  BY <1>1, Pages DEF IInv, TypeOK, Is
<1>3. /\ wait' \in [Programs -> BOOLEAN] /\ req' \in [Programs -> Ids] /\ recovering' \in [Programs -> BOOLEAN]
      /\ ~wait'[p] /\ req'[p] = None /\ \A q \in Programs : q # p => wait'[q] = wait[q] /\ req'[q] = req[q]
  BY DEF IInv, TypeOK, Is
<1>4. TypeOK'
  BY <1>2, <1>3 DEF IInv, TypeOK
<1> QED BY <1>1, <1>2, <1>3, <1>4, SilentKeeps

(* What a program leaves when it ends.                                     *)
LEMMA GoneIs ==
  ASSUME TypeOK, NEW p \in Programs, Gone(p)
  PROVE  /\ step' \in [Programs -> Steps] /\ req' \in [Programs -> Ids] /\ wait' \in [Programs -> BOOLEAN]
         /\ mine' \in [Programs -> Ids] /\ recovering' \in [Programs -> BOOLEAN]
         /\ page' \in [Programs -> [label : {"none", "pending", "result"}, of : Ids]]
         /\ visible' \in BOOLEAN /\ fresh' \in BOOLEAN
         /\ step'[p] = "off" /\ req'[p] = None /\ ~wait'[p] /\ page'[p].label = "none"
         /\ \A q \in Programs : q # p =>
              step'[q] = step[q] /\ req'[q] = req[q] /\ wait'[q] = wait[q] /\ page'[q] = page[q]
<1>1. /\ step' = Is(step, p, "off") /\ req' = Is(req, p, None) /\ wait' = Is(wait, p, FALSE)
      /\ mine' = Is(mine, p, None) /\ recovering' = Is(recovering, p, FALSE) /\ page' = Is(page, p, NoPage)
  BY DEF Gone, Becomes, Is
<1>2. /\ step' \in [Programs -> Steps] /\ step'[p] = "off" /\ \A q \in Programs : q # p => step'[q] = step[q]
      /\ req' \in [Programs -> Ids] /\ req'[p] = None /\ \A q \in Programs : q # p => req'[q] = req[q]
  BY <1>1 DEF TypeOK, Is, Steps
<1>3. /\ wait' \in [Programs -> BOOLEAN] /\ ~wait'[p] /\ \A q \in Programs : q # p => wait'[q] = wait[q]
      /\ mine' \in [Programs -> Ids] /\ recovering' \in [Programs -> BOOLEAN]
  BY <1>1 DEF TypeOK, Is
<1>4. /\ page' \in [Programs -> [label : {"none", "pending", "result"}, of : Ids]]
      /\ page'[p].label = "none" /\ \A q \in Programs : q # p => page'[q] = page[q]
  BY <1>1, Pages DEF TypeOK, Is
<1>5. visible' \in BOOLEAN /\ fresh' \in BOOLEAN
  BY DEF TypeOK, Gone, screen
<1> QED BY <1>2, <1>3, <1>4, <1>5

LEMMA QuitKeeps == ASSUME IInv, NEW p \in Programs, Quit(p) PROVE IInv'
<1>0. Gone(p) /\ UNCHANGED <<place, result, calls, used, note, fate, troubles>> /\ TypeOK
  BY DEF Quit, card, IInv
<1>1. TypeOK'
  BY <1>0, GoneIs DEF TypeOK
<1> QED BY <1>0, <1>1, GoneIs, SilentKeeps

(* A program that ends while it writes the note may take it along.         *)
LEMMA DieKeeps == ASSUME IInv, NEW p \in Programs, Die(p) PROVE IInv'
<1> USE DEF IInv
<1>0. /\ Gone(p) /\ UNCHANGED <<place, result, calls, used>> /\ troubles' \in Nat
      /\ step[p] \notin {"off", "free"}
  BY DEF Die, Trouble, TypeOK
<1>1. /\ note' \in [id : Requests, submitted : BOOLEAN] \cup {NoNote} /\ note'.id \in {note.id, None}
      /\ fate' \in [Requests -> Fates]
      /\ \A x \in Requests : /\ fate'[x] = fate[x] \/ (x = note.id /\ fate[x] = "open" /\ fate'[x] \in {"torn", "robbed"})
                             /\ fate'[x] = "open" /\ note.id = x => note'.id = x
  <2>1. req[p] \in Requests
    BY <1>0 DEF OneEach
  <2>2. CASE CutShort(req[p])
    BY <2>1, <2>2, CutShortIs
  <2>3. CASE UNCHANGED <<note, fate>>
    BY <2>3 DEF TypeOK
  <2> QED BY <2>2, <2>3 DEF Die
<1>2. TypeOK'
  BY <1>0, <1>1, GoneIs DEF TypeOK
<1>3. \A x \in Requests : x = note.id => x <= used
  BY DEF Unused, TypeOK
<1>4. \A x \in Requests :
         /\ fate'[x] = "open" => fate[x] = "open" /\ (note.id = x => note'.id = x)
         /\ fate'[x] = "denied" => fate[x] = "denied"
         /\ fate'[x] = "shown" => result[x] # "none"
         /\ fate[x] = "shown" => fate'[x] = "shown"
         /\ fate'[x] = fate[x] \/ x <= used
  BY <1>1, <1>3 DEF Showing
<1>5. \A q \in Programs : page'[q].label = "result" => page'[q] = page[q]
  BY <1>0, GoneIs
<1>6. \A q \in Programs : /\ \/ step'[q] = step[q] /\ req'[q] = req[q]
                             \/ step'[q] \in {"off", "free"} /\ req'[q] \in {None, req[q]}
                          /\ wait'[q] => wait[q] /\ req'[q] = req[q]
  BY <1>0, GoneIs
<1> QED BY <1>0, <1>1, <1>2, <1>4, <1>5, <1>6, AsideKeeps

(* An answer of the transport.                                             *)
LEMMA PollKeeps == ASSUME IInv, NEW p \in Programs, Poll(p) PROVE IInv'
<1> USE DEF IInv
<1>1. /\ wait[p] /\ step[p] \in {"off", "free"} /\ req[p] \in Requests /\ req[p] <= used
      /\ result[req[p]] # "none" /\ req[p] \in Ids
  BY WaitsIdle DEF Poll
<1>2. /\ UNCHANGED <<place, result, calls, used, step, recovering, visible, fresh>>
      /\ wait' = Is(wait, p, FALSE) /\ req' = Is(req, p, None) /\ mine' \in [Programs -> Ids]
  BY DEF Poll, screen, TypeOK, Is
<1>3. /\ wait' \in [Programs -> BOOLEAN] /\ req' \in [Programs -> Ids]
      /\ ~wait'[p] /\ req'[p] = None /\ \A q \in Programs : q # p => wait'[q] = wait[q] /\ req'[q] = req[q]
  BY <1>2 DEF TypeOK, Is
<1> DEFINE f == Is(fate, req[p], "shown")
<1>4. /\ f \in [Requests -> Fates] /\ f[req[p]] = "shown"
      /\ \A x \in Requests : x # req[p] => f[x] = fate[x]
  BY <1>1, ToldIs DEF Fates
<1>5. \/ Clear(req[p], f) /\ UNCHANGED page
      \/ Keep(f) /\ page' = Is(page, p, Page("result", req[p]))
  BY DEF Poll
<1> HIDE DEF f
<1>6. /\ note' \in [id : Requests, submitted : BOOLEAN] \cup {NoNote} /\ note'.id \in {note.id, None}
      /\ fate' \in [Requests -> Fates] /\ troubles' \in Nat
      /\ \A x \in Requests : /\ fate'[x] = f[x] \/ (x = note.id /\ f[x] = "open" /\ fate'[x] = "robbed")
                             /\ fate'[x] = "open" /\ note.id = x => note'.id = x
  <2>1. CASE Clear(req[p], f)
    <3>1. f[req[p]] # "open"
      BY <1>4
    <3> QED BY <1>1, <1>4, <2>1, <3>1, ClearIs
  <2>2. CASE Keep(f)
    BY <1>4, <2>2 DEF Keep, NoTrouble, TypeOK
  <2> QED BY <1>5, <2>1, <2>2
<1>7. /\ page' \in [Programs -> [label : {"none", "pending", "result"}, of : Ids]]
      /\ \A q \in Programs : page'[q].label = "result" => page'[q] = page[q] \/ page'[q].of = req[p]
  <2>1. CASE UNCHANGED page
    BY <2>1 DEF TypeOK
  <2>2. CASE page' = Is(page, p, Page("result", req[p]))
    BY <2>2, <1>1, Pages DEF TypeOK, Is
  <2> QED BY <1>5, <2>1, <2>2
<1>8. TypeOK'
  BY <1>2, <1>3, <1>6, <1>7 DEF TypeOK
<1>9. \A x \in Requests : x = note.id => x <= used
  BY DEF Unused, TypeOK
<1>10. \A x \in Requests :
         /\ fate'[x] = "open" => fate[x] = "open" /\ (note.id = x => note'.id = x)
         /\ fate'[x] = "denied" => fate[x] = "denied"
         /\ fate'[x] = "shown" => result[x] # "none"
         /\ fate[x] = "shown" => fate'[x] = "shown"
         /\ fate'[x] = fate[x] \/ x <= used
         /\ x = req[p] => fate'[x] = "shown"
  <2> TAKE x \in Requests
  <2>1. CASE x = req[p]
    BY <2>1, <1>1, <1>4, <1>6
  <2>2. CASE x # req[p]
    BY <2>2, <1>4, <1>6, <1>9 DEF Showing
  <2> QED BY <2>1, <2>2
<1>11. \A q \in Programs : page'[q].label = "result" =>
         \/ page'[q] = page[q]
         \/ page'[q].of \in Requests /\ fate'[page'[q].of] = "shown"
  BY <1>1, <1>7, <1>10
<1>12. \A q \in Programs : /\ \/ step'[q] = step[q] /\ req'[q] = req[q]
                              \/ step'[q] \in {"off", "free"} /\ req'[q] \in {None, req[q]}
                           /\ wait'[q] => wait[q] /\ req'[q] = req[q]
  BY <1>1, <1>2, <1>3
<1> QED BY <1>2, <1>6, <1>8, <1>10, <1>11, <1>12, AsideKeeps

(* A result that is found.                                                 *)
LEMMA PollNotedKeeps == ASSUME IInv, NEW p \in Programs, PollNoted(p) PROVE IInv'
<1> USE DEF IInv
<1> DEFINE r == mine[p]
<1>1. r \in Requests /\ r \in Ids /\ result[r] # "none"
  BY DEF PollNoted, Answered, TypeOK
<1>2. /\ UNCHANGED <<place, result, calls, used, note, step, req, wait, visible, fresh, troubles>>
      /\ recovering' \in [Programs -> BOOLEAN] /\ mine' \in [Programs -> Ids]
      /\ page' = Is(page, p, Page("result", r)) /\ fate' = Is(fate, r, "shown")
  BY DEF PollNoted, card, screen, TypeOK, Is
<1> HIDE DEF r
<1>3. /\ page' \in [Programs -> [label : {"none", "pending", "result"}, of : Ids]]
      /\ \A q \in Programs : page'[q] = page[q] \/ page'[q].of = r
  BY <1>1, <1>2, Pages DEF TypeOK, Is
<1>4. /\ fate' \in [Requests -> Fates] /\ fate'[r] = "shown"
      /\ \A x \in Requests : x # r => fate'[x] = fate[x]
  BY <1>1, <1>2, ToldIs DEF Fates
<1>5. TypeOK'
  BY <1>2, <1>3, <1>4 DEF TypeOK
<1>6. \A x \in Requests :
         /\ fate'[x] = "open" => fate[x] = "open" /\ (note.id = x => note'.id = x)
         /\ fate'[x] = "denied" => fate[x] = "denied"
         /\ fate'[x] = "shown" => result[x] # "none"
         /\ fate[x] = "shown" => fate'[x] = "shown"
         /\ fate'[x] = fate[x] \/ x <= used
  <2> TAKE x \in Requests
  <2>1. result[x] # "none" => x <= used
    BY DEF Unused, Evidence, TypeOK
  <2> QED BY <2>1, <1>1, <1>2, <1>4 DEF Showing
<1> QED BY <1>1, <1>2, <1>3, <1>4, <1>5, <1>6, AsideKeeps

(* A page that is closed.                                                  *)
LEMMA CloseKeeps == ASSUME IInv, NEW p \in Programs, Close(p) PROVE IInv'
<1> USE DEF IInv
<1>1. /\ UNCHANGED <<place, result, calls, used, step, req, wait, recovering, visible, fresh>>
      /\ mine' \in [Programs -> Ids] /\ page' = Is(page, p, NoPage)
  <2>1. mine' = Is(mine, p, None) \/ UNCHANGED mine
    BY DEF Close
  <2>2. mine' \in [Programs -> Ids]
    <3>1. None \in Ids /\ mine \in [Programs -> Ids]
      BY DEF TypeOK
    <3>2. Is(mine, p, None) \in [Programs -> Ids]
      BY <3>1 DEF Is
    <3> QED BY <2>1, <3>1, <3>2
  <2>3. page' = Is(page, p, NoPage)
    BY DEF Close
  <2>4. UNCHANGED <<place, result, calls, used, step, req, wait, recovering, visible, fresh>>
    BY DEF Close, screen
  <2> QED BY <2>2, <2>3, <2>4
<1>2. /\ page' \in [Programs -> [label : {"none", "pending", "result"}, of : Ids]]
      /\ \A q \in Programs : page'[q].label = "result" => page'[q] = page[q]
  BY <1>1, Pages DEF TypeOK, Is
<1>3. /\ note' \in [id : Requests, submitted : BOOLEAN] \cup {NoNote} /\ note'.id \in {note.id, None}
      /\ fate' \in [Requests -> Fates] /\ troubles' \in Nat
      /\ \A x \in Requests : /\ fate'[x] = fate[x] \/ (x = note.id /\ fate[x] = "open" /\ fate'[x] = "robbed")
                             /\ fate'[x] = "open" /\ note.id = x => note'.id = x
  <2>1. CASE Terminal(p) /\ Clear(page[p].of, fate)
    <3>1. page[p].of \in Requests /\ fate[page[p].of] # "open"
      BY <2>1 DEF Terminal, Showing
    <3>2. fate \in [Requests -> Fates]
      BY DEF TypeOK
    <3> QED BY <2>1, <3>1, <3>2, ClearIs
  <2>2. CASE Keep(fate)
    BY <2>2 DEF Keep, NoTrouble, TypeOK
  <2> QED BY <2>1, <2>2 DEF Close
<1>4. TypeOK'
  BY <1>1, <1>2, <1>3 DEF TypeOK
<1>5. \A x \in Requests : x = note.id => x <= used
  BY DEF Unused, TypeOK
<1>6. \A x \in Requests :
         /\ fate'[x] = "open" => fate[x] = "open" /\ (note.id = x => note'.id = x)
         /\ fate'[x] = "denied" => fate[x] = "denied"
         /\ fate'[x] = "shown" => result[x] # "none"
         /\ fate[x] = "shown" => fate'[x] = "shown"
         /\ fate'[x] = fate[x] \/ x <= used
  BY <1>3, <1>5 DEF Showing
<1> QED BY <1>1, <1>2, <1>3, <1>4, <1>6, AsideKeeps

-----------------------------------------------------------------------------
(***************************************************************************)
(* The beginning of a program.                                             *)
(***************************************************************************)
(* A program that begins, or that looks at the note, has nothing under     *)
(* way; whose note it denies has no evidence, and is not previewed either. *)
LEMMA BeginKeeps ==
  ASSUME IInv, NEW p \in Programs, UNCHANGED <<place, result, calls, used, req, wait>>,
         step' \in [Programs -> Steps], visible' \in BOOLEAN, fresh' \in BOOLEAN,
         \A q \in Programs : step'[q] = step[q] \/ step'[q] = "free",
         Restore(p) \/ Skip \/ (Keep(fate) /\ UNCHANGED <<mine, recovering, page>>)
  PROVE  IInv'
<1> USE DEF IInv
<1>1. \A x \in Requests : x = note.id => x <= used
  BY DEF Unused, TypeOK
<1>2. \A q \in Programs : \/ step'[q] = step[q] /\ req'[q] = req[q]
                          \/ step'[q] \in {"off", "free"} /\ req'[q] \in {None, req[q]}
  OBVIOUS
<1>3. \A q \in Programs : wait'[q] => wait[q] /\ req'[q] = req[q]
  OBVIOUS
<1>a. CASE /\ UNCHANGED <<note, fate, mine, recovering, page>> /\ troubles' \in Nat
  <2>1. TypeOK'
    BY <1>a DEF TypeOK
  <2> QED BY <1>2, <1>3, <1>a, <2>1, SilentKeeps
<1>b. CASE /\ note # NoNote /\ ~HasSubmission /\ UNCHANGED <<mine, recovering, page>>
           /\ Clear(note.id, Is(fate, note.id, IF UnderWay(note.id) THEN "hasty" ELSE "denied"))
  <2> DEFINE r == note.id
             v == IF UnderWay(r) THEN "hasty" ELSE "denied"
             f == Is(fate, r, v)
  <2>1. r \in Requests /\ ~Evidence(r) /\ v \in Fates /\ v \in {"hasty", "denied"}
    BY <1>b, NoteId DEF HasSubmission, Fates
  <2>2. v = "denied" => /\ r \notin calls
                        /\ \A q \in Programs : req[q] = r =>
                             step[q] \notin {"previewing", "sending", "calling", "marking"}
    BY <2>1 DEF UnderWay, Progress
  <2>3. Clear(r, f)
    BY <1>b
  <2>r. r = note.id
    OBVIOUS
  <2> HIDE DEF v, r
  <2>4. /\ f \in [Requests -> Fates] /\ f[r] = v
        /\ \A x \in Requests : x # r => f[x] = fate[x]
    BY <2>1, ToldIs
  <2> HIDE DEF f
  <2>5. /\ note' \in [id : Requests, submitted : BOOLEAN] \cup {NoNote} /\ note'.id \in {note.id, None}
        /\ fate' \in [Requests -> Fates] /\ troubles' \in Nat
        /\ \A x \in Requests : /\ fate'[x] = f[x] \/ (x = note.id /\ f[x] = "open" /\ fate'[x] = "robbed")
                               /\ fate'[x] = "open" /\ note.id = x => note'.id = x
    <3>1. f[r] # "open"
      BY <2>1, <2>4
    <3> QED BY <2>1, <2>3, <2>4, <3>1, ClearIs
  <2>6. TypeOK'
    BY <1>b, <2>5 DEF TypeOK
  <2>7. fate[r] # "shown"
    BY <2>1 DEF Showing, Evidence
  <2>8. \A x \in Requests :
         /\ fate'[x] = "open" => fate[x] = "open" /\ (note.id = x => note'.id = x)
         /\ fate'[x] = "denied" =>
              \/ fate[x] = "denied"
              \/ /\ ~Evidence(x) /\ x \notin calls
                 /\ \A q \in Programs : req'[q] = x =>
                      step'[q] \notin {"previewing", "sending", "calling", "marking"}
         /\ fate'[x] = "shown" => result[x] # "none"
         /\ fate[x] = "shown" => fate'[x] = "shown"
         /\ fate'[x] = fate[x] \/ x <= used
    <3> TAKE x \in Requests
    <3>1. CASE x = r
      <4>1. fate'[x] = v
        BY <3>1, <2>1, <2>4, <2>5
      <4> QED BY <3>1, <4>1, <2>1, <2>2, <2>7, <2>r, <1>1, <1>2
    <3>2. CASE x # r
      <4>1. fate'[x] = fate[x]
        BY <3>2, <2>r, <2>4, <2>5
      <4> QED BY <3>2, <4>1, <2>r DEF Showing
    <3> QED BY <3>1, <3>2
  <2> QED BY <1>2, <1>3, <1>b, <2>5, <2>6, <2>8, AsideKeeps
<1>c. CASE /\ note # NoNote /\ mine' = Is(mine, p, note.id) /\ Answered(note.id)
           /\ Keep(Is(fate, note.id, "shown"))
           /\ recovering' = Is(recovering, p, FALSE) /\ page' = Is(page, p, Page("result", note.id))
  <2> DEFINE r == note.id
  <2>1. r \in Requests /\ r \in Ids /\ r <= used /\ result[r] # "none"
    BY <1>c, <1>1, NoteId DEF Answered
  <2>2. /\ fate' \in [Requests -> Fates] /\ fate'[r] = "shown"
        /\ \A x \in Requests : x # r => fate'[x] = fate[x]
    BY <1>c, <2>1, ToldIs DEF Keep, Fates
  <2>3. /\ page' \in [Programs -> [label : {"none", "pending", "result"}, of : Ids]]
        /\ \A q \in Programs : page'[q] = page[q] \/ page'[q].of = r
    BY <1>c, <2>1, Pages DEF TypeOK, Is
  <2>4. /\ mine' \in [Programs -> Ids] /\ recovering' \in [Programs -> BOOLEAN]
        /\ UNCHANGED <<note, troubles>>
    BY <1>c, <2>1 DEF TypeOK, Is, Keep, NoTrouble
  <2>5. TypeOK'
    BY <2>2, <2>3, <2>4 DEF TypeOK
  <2> HIDE DEF r
  <2>6. \A x \in Requests :
         /\ fate'[x] = "open" => fate[x] = "open" /\ (note.id = x => note'.id = x)
         /\ fate'[x] = "denied" => fate[x] = "denied"
         /\ fate'[x] = "shown" => result[x] # "none"
         /\ fate[x] = "shown" => fate'[x] = "shown"
         /\ fate'[x] = fate[x] \/ x <= used
    BY <2>1, <2>2, <2>4 DEF Showing
  <2> QED BY <1>2, <1>3, <2>1, <2>2, <2>3, <2>4, <2>5, <2>6, AsideKeeps
<1>d. CASE /\ note # NoNote /\ mine' = Is(mine, p, note.id) /\ Keep(fate)
           /\ recovering' = Is(recovering, p, TRUE) /\ page' = Is(page, p, Page("pending", note.id))
  <2>1. note.id \in Ids
    BY NoteId
  <2>2. /\ page' \in [Programs -> [label : {"none", "pending", "result"}, of : Ids]]
        /\ \A q \in Programs : page'[q] = page[q] \/ page'[q].label = "pending"
    BY <1>d, <2>1, Pages DEF TypeOK, Is
  <2>3. /\ mine' \in [Programs -> Ids] /\ recovering' \in [Programs -> BOOLEAN]
        /\ UNCHANGED <<note, fate, troubles>>
    BY <1>d, <2>1 DEF TypeOK, Is, Keep, NoTrouble
  <2>4. TypeOK'
    BY <2>2, <2>3 DEF TypeOK
  <2> QED BY <1>2, <1>3, <2>2, <2>3, <2>4, SilentKeeps
<1>e. Skip => UNCHANGED <<note, fate, mine, recovering, page>> /\ troubles' \in Nat
  BY DEF Skip, Trouble, TypeOK
<1>f. Keep(fate) => UNCHANGED <<note, fate>> /\ troubles' \in Nat
  BY DEF Keep, NoTrouble, TypeOK
<1> QED BY <1>a, <1>b, <1>c, <1>d, <1>e, <1>f DEF Restore

LEMMA OpenKeeps == ASSUME IInv, Open PROVE IInv'
<1> USE DEF IInv
<1>1. /\ step' \in [Programs -> Steps] /\ "app" \in Programs
      /\ \A q \in Programs : step'[q] = step[q] \/ step'[q] = "free"
  BY DEF Open, Becomes, TypeOK, Steps, Programs
<1>2. /\ UNCHANGED <<place, result, calls, used, req, wait>>
      /\ visible' \in BOOLEAN /\ fresh' \in BOOLEAN
      /\ Restore("app") \/ Skip
  BY DEF Open, screen, TypeOK
<1> QED BY <1>1, <1>2, BeginKeeps

LEMMA ShowKeeps == ASSUME IInv, Show PROVE IInv'
<1> USE DEF IInv
<1>1. /\ step' \in [Programs -> Steps] /\ "overlay" \in Programs
      /\ \A q \in Programs : step'[q] = step[q] \/ step'[q] = "free"
  BY DEF Show, Is, TypeOK, Steps, Programs
<1>2. /\ UNCHANGED <<place, result, calls, used, req, wait>>
      /\ visible' \in BOOLEAN /\ fresh' \in BOOLEAN
      /\ Restore("overlay") \/ Skip \/ (Keep(fate) /\ UNCHANGED <<mine, recovering, page>>)
  BY DEF Show
<1> QED BY <1>1, <1>2, BeginKeeps

-----------------------------------------------------------------------------
(***************************************************************************)
(* A request on its way.                                                   *)
(***************************************************************************)
(* A code that is confirmed gets an id that nobody has.                    *)
LEMMA ConfirmKeeps == ASSUME IInv, NEW p \in Programs, Confirm(p) PROVE IInv'
<1> USE DEF IInv
<1> DEFINE r == used + 1
<1>1. /\ UNCHANGED <<note, place, result, calls, wait, mine, recovering, page, visible, fresh, fate, troubles>>
      /\ used' = r /\ r \in Requests /\ r > used /\ used \in Nat
      /\ step[p] = "free" /\ ~wait[p]
  BY DEF Confirm, card, screen, TypeOK
<1>2. /\ step' \in [Programs -> Steps] /\ req' \in [Programs -> Ids]
      /\ step'[p] = "previewing" /\ req'[p] = r
      /\ \A q \in Programs : q # p => step'[q] = step[q] /\ req'[q] = req[q]
  BY <1>1 DEF Confirm, Becomes, Is, TypeOK, Steps
<1> HIDE DEF r
<1>3. /\ ~Evidence(r) /\ r \notin calls /\ note.id # r /\ fate[r] = "open"
      /\ \A q \in Programs : req[q] # r
  BY <1>1 DEF Unused, TypeOK
<1>4. TypeOK'
  BY <1>1, <1>2 DEF TypeOK
<1>5. \A x \in Requests : Evidence(x)' = Evidence(x)
  BY <1>1 DEF Evidence
<1>6. Unused'
  <2>1. \A x \in Requests : x > used' => x > used
    BY <1>1
  <2>2. \A q \in Programs : req'[q] <= used'
    <3> TAKE q \in Programs
    <3>1. req[q] <= used /\ req[q] \in Ids /\ used \in Ids
      BY DEF Unused, TypeOK
    <3> QED BY <3>1, <1>1, <1>2 DEF r
  <2>3. \A x \in Requests : x > used' => ~Evidence(x)' /\ x \notin calls' /\ note'.id # x /\ fate'[x] = "open"
    BY <2>1, <1>1, <1>5 DEF Unused
  <2> QED BY <2>2, <2>3 DEF Unused
<1>7. OneEach'
  BY <1>1, <1>2, <1>3 DEF OneEach
<1>8. Progress'
  <2>1. \A q \in Programs :
          /\ step'[q] \in {"previewing", "sending", "refused"} =>
               place[req'[q]] = "none" /\ result[req'[q]] = "none" /\ req'[q] \notin calls
          /\ step'[q] = "previewing" => note.id # req'[q]
          /\ step'[q] = "calling" => req'[q] \in calls
    BY <1>2, <1>3 DEF Progress, Evidence
  <2>2. \A x \in calls : place[x] = "none" /\ result[x] = "none"
    BY DEF Progress, Evidence
  <2> QED BY <2>1, <2>2, <1>1 DEF Progress, Evidence
<1>9. Denials'
  BY <1>1, <1>2, <1>3, <1>5 DEF Denials
<1>10. Noted'
  <2> SUFFICES ASSUME NEW x \in Requests, fate[x] = "open", (Evidence(x) \/ UnderWay(x))'
               PROVE  note.id = x
    BY <1>1 DEF Noted
  <2>1. Evidence(x) \/ UnderWay(x)
    BY <1>1, <1>2, <1>5 DEF UnderWay
  <2> QED BY <2>1 DEF Noted
<1>11. Showing'
  BY <1>1 DEF Showing
<1> QED BY <1>4, <1>6, <1>7, <1>8, <1>9, <1>10, <1>11

(* The note before the submission.                                         *)
LEMMA PrepareKeeps == ASSUME IInv, NEW p \in Programs, Prepare(p) PROVE IInv'
<1> USE DEF IInv
<1>1. /\ UNCHANGED <<place, result, calls, used, wait, mine, recovering, page, visible, fresh>>
      /\ step[p] = "previewing"
  BY DEF Prepare, screen
<1>t. troubles' \in Nat
  <2>1. Trouble \/ NoTrouble
    BY DEF Prepare
  <2> QED BY <2>1 DEF Trouble, NoTrouble, TypeOK
<1>2. /\ req[p] \in Requests /\ ~wait[p] /\ req[p] <= used
      /\ ~Evidence(req[p]) /\ req[p] \notin calls /\ note.id # req[p]
  BY <1>1 DEF OneEach, Progress, Unused
<1>3. \A x \in Requests : x = note.id => x <= used
  BY DEF Unused, TypeOK
<1>4. \A x \in Requests : Evidence(x)' = Evidence(x)
  BY <1>1 DEF Evidence
<1>a. CASE Trouble /\ CutShort(req[p]) /\ Becomes(p, "free") /\ req' = Is(req, p, None)
  <2>1. /\ step' \in [Programs -> Steps] /\ req' \in [Programs -> Ids]
        /\ step'[p] = "free" /\ req'[p] = None
        /\ \A q \in Programs : q # p => step'[q] = step[q] /\ req'[q] = req[q]
    BY <1>a DEF Becomes, Is, TypeOK, Steps
  <2>2. /\ note' \in [id : Requests, submitted : BOOLEAN] \cup {NoNote} /\ note'.id \in {note.id, None}
        /\ fate' \in [Requests -> Fates]
        /\ \A x \in Requests : /\ fate'[x] = fate[x] \/ (x = note.id /\ fate[x] = "open" /\ fate'[x] \in {"torn", "robbed"})
                               /\ fate'[x] = "open" /\ note.id = x => note'.id = x
    BY <1>2, <1>a, CutShortIs
  <2>3. TypeOK'
    BY <1>1, <1>t, <2>1, <2>2 DEF TypeOK
  <2>4. \A x \in Requests :
         /\ fate'[x] = "open" => fate[x] = "open" /\ (note.id = x => note'.id = x)
         /\ fate'[x] = "denied" => fate[x] = "denied"
         /\ fate'[x] = "shown" => result[x] # "none"
         /\ fate[x] = "shown" => fate'[x] = "shown"
         /\ fate'[x] = fate[x] \/ x <= used
    BY <2>2, <1>3 DEF Showing
  <2>5. \A q \in Programs : /\ \/ step'[q] = step[q] /\ req'[q] = req[q]
                               \/ step'[q] \in {"off", "free"} /\ req'[q] \in {None, req[q]}
                            /\ wait'[q] => wait[q] /\ req'[q] = req[q]
    BY <1>1, <1>2, <2>1
  <2> QED BY <1>1, <2>2, <2>3, <2>4, <2>5, AsideKeeps
<1>b. CASE Write(req[p], FALSE) /\ Becomes(p, "sending") /\ UNCHANGED req
  <2>1. /\ step' \in [Programs -> Steps] /\ step'[p] = "sending"
        /\ \A q \in Programs : q # p => step'[q] = step[q]
    BY <1>b DEF Becomes, TypeOK, Steps
  <2>2. /\ note' \in [id : Requests, submitted : BOOLEAN] /\ note'.id = req[p]
        /\ fate' \in [Requests -> Fates]
        /\ \A x \in Requests : /\ fate'[x] = fate[x] \/ (x = note.id /\ fate[x] = "open" /\ fate'[x] = "robbed")
                               /\ fate'[x] = "open" /\ note.id = x => x = req[p]
    BY <1>2, <1>b, WriteIs
  <2>3. TypeOK'
    BY <1>1, <1>t, <1>b, <2>1, <2>2 DEF TypeOK
  <2>4. Unused'
    BY <1>1, <1>2, <1>3, <1>4, <1>b, <2>2 DEF Unused, TypeOK
  <2>5. OneEach'
    BY <1>1, <1>2, <1>b, <2>1 DEF OneEach
  <2>6. Progress'
    <3>1. \A q \in Programs : q # p => req[q] # req[p]
      BY <1>2 DEF OneEach
    <3>2. \A q \in Programs :
            /\ step'[q] \in {"previewing", "sending", "refused"} =>
                 place[req[q]] = "none" /\ result[req[q]] = "none" /\ req[q] \notin calls
            /\ step'[q] = "previewing" => req[p] # req[q]
            /\ step'[q] = "calling" => req[q] \in calls
      BY <1>2, <2>1, <3>1 DEF Progress, Evidence
    <3>3. \A x \in calls : place[x] = "none" /\ result[x] = "none"
      BY DEF Progress, Evidence
    <3> QED BY <3>2, <3>3, <1>1, <1>b, <2>2 DEF Progress, Evidence
  <2>7. Denials'
    BY <1>1, <1>4, <1>b, <2>1, <2>2 DEF Denials
  <2>8. Noted'
    <3> SUFFICES ASSUME NEW x \in Requests, fate'[x] = "open", (Evidence(x) \/ UnderWay(x))'
                 PROVE  x = req[p]
      BY <2>2 DEF Noted
    <3>1. fate[x] = "open" /\ (note.id = x => x = req[p])
      BY <2>2
    <3>2. CASE x # req[p]
      <4>1. Evidence(x) \/ UnderWay(x)
        BY <3>2, <1>1, <1>4, <1>b, <2>1 DEF UnderWay
      <4> QED BY <3>1, <4>1 DEF Noted
    <3> QED BY <3>2
  <2>9. Showing'
    BY <1>1, <2>2 DEF Showing
  <2> QED BY <2>3, <2>4, <2>5, <2>6, <2>7, <2>8, <2>9
<1> QED BY <1>a, <1>b DEF Prepare

(* The submission.                                                         *)
LEMMA SendKeeps == ASSUME IInv, NEW p \in Programs, Send(p) PROVE IInv'
<1> USE DEF IInv
<1>1. /\ UNCHANGED <<note, result, used, req, wait, mine, recovering, page, visible, fresh, fate>>
      /\ step[p] = "sending"
  BY DEF Send, screen
<1>t. troubles' \in Nat
  <2>1. Trouble \/ NoTrouble
    BY DEF Send
  <2> QED BY <2>1 DEF Trouble, NoTrouble, TypeOK
<1> DEFINE r == req[p]
<1>2. /\ r \in Requests /\ r <= used /\ ~Evidence(r) /\ r \notin calls
      /\ \A q \in Programs : q # p => req[q] # r
  BY <1>1 DEF OneEach, Progress, Unused
<1>3. fate[r] = "open" => note.id = r
  BY <1>1, <1>2 DEF Noted, UnderWay
<1>4. fate[r] \notin {"denied", "shown"}
  BY <1>1, <1>2 DEF Denials, Showing, Evidence
<1>5. /\ step' \in [Programs -> Steps] /\ step'[p] \in {"calling", "marking", "refused"}
      /\ \A q \in Programs : q # p => step'[q] = step[q]
      /\ calls' \subseteq Requests /\ place' \in [Requests -> {"none", "pending", "done"}]
      /\ \A x \in Requests : x # r => place'[x] = place[x] /\ (x \in calls' <=> x \in calls)
      /\ step'[p] = "calling" => r \in calls'
      /\ step'[p] \in {"marking", "refused"} => r \notin calls'
      /\ step'[p] \in {"calling", "refused"} => place'[r] = place[r]
  <2>1. CASE step' = [step EXCEPT ![p] = "calling"] /\ calls' = calls \cup {r} /\ UNCHANGED place
    BY <2>1, <1>1, <1>2 DEF TypeOK, Steps
  <2>2. CASE step' = [step EXCEPT ![p] = "marking"] /\ place' = Is(place, r, "pending") /\ UNCHANGED calls
    BY <2>2, <1>1, <1>2 DEF TypeOK, Is, Steps
  <2>3. CASE step' = [step EXCEPT ![p] = "refused"] /\ UNCHANGED <<place, calls>>
    BY <2>3, <1>1, <1>2 DEF TypeOK, Steps
  <2> QED BY <2>1, <2>2, <2>3 DEF Send, Becomes
<1> HIDE DEF r
<1>6. TypeOK'
  BY <1>1, <1>t, <1>5 DEF TypeOK
<1>7. \A x \in Requests : x # r => Evidence(x)' = Evidence(x)
  BY <1>1, <1>5 DEF Evidence
<1>r. r = req[p]
  BY DEF r
<1>9. Unused'
  BY <1>1, <1>2, <1>5, <1>7 DEF Unused, TypeOK
<1>10. OneEach'
  BY <1>1, <1>2, <1>5, <1>r DEF OneEach
<1>11. Progress'
  <2>1. \A x \in calls' : place'[x] = "none" /\ result[x] = "none"
    <3> TAKE x \in calls'
    <3>1. x \in calls => place[x] = "none" /\ result[x] = "none"
      BY DEF Progress, Evidence
    <3>2. CASE x = r
      BY <3>2, <1>2, <1>5 DEF Evidence
    <3> QED BY <3>1, <3>2, <1>5
  <2>2. \A q \in Programs :
          /\ step'[q] \in {"previewing", "sending", "refused"} =>
               place'[req[q]] = "none" /\ result[req[q]] = "none" /\ req[q] \notin calls'
          /\ step'[q] = "previewing" => note.id # req[q]
          /\ step'[q] = "calling" => req[q] \in calls'
    <3> TAKE q \in Programs
    <3>1. CASE q = p
      BY <3>1, <1>2, <1>5, <1>r DEF Evidence
    <3>2. CASE q # p
      <4>1. step[q] \in {"previewing", "sending", "refused", "calling"} => req[q] \in Requests /\ req[q] # r
        BY <3>2, <1>2 DEF OneEach
      <4> QED BY <3>2, <4>1, <1>5 DEF Progress, Evidence
    <3> QED BY <3>1, <3>2
  <2> QED BY <2>1, <2>2, <1>1 DEF Progress, Evidence
<1>12. Denials'
  BY <1>1, <1>2, <1>4, <1>5, <1>7 DEF Denials
<1>13. Noted'
  <2> SUFFICES ASSUME NEW x \in Requests, fate[x] = "open", (Evidence(x) \/ UnderWay(x))'
               PROVE  note.id = x
    BY <1>1 DEF Noted
  <2>1. CASE x # r
    <3>1. Evidence(x) \/ UnderWay(x)
      BY <2>1, <1>1, <1>5, <1>7, <1>r DEF UnderWay
    <3> QED BY <3>1 DEF Noted
  <2> QED BY <2>1, <1>3
<1>14. Showing'
  BY <1>1 DEF Showing
<1> QED BY <1>6, <1>9, <1>10, <1>11, <1>12, <1>13, <1>14

(* The service answers a call.                                             *)
LEMMA AcceptKeeps == ASSUME IInv, NEW r \in Requests, Accept(r) PROVE IInv'
<1> USE DEF IInv
<1>1. /\ UNCHANGED <<note, result, used, req, wait, mine, recovering, page, visible, fresh, fate, troubles>>
      /\ r \in calls /\ calls' = calls \ {r}
  BY DEF Accept, screen
<1>2. ~Evidence(r) /\ r <= used
  BY <1>1 DEF Progress, Unused, TypeOK
<1>3. fate[r] \notin {"denied", "shown"} /\ (fate[r] = "open" => note.id = r)
  BY <1>1, <1>2 DEF Denials, Showing, Noted, Evidence, UnderWay
<1>4. /\ place' \in [Requests -> {"none", "pending", "done"}] /\ step' \in [Programs -> Steps]
      /\ \A x \in Requests : x # r => place'[x] = place[x]
      /\ \A q \in Programs : \/ step'[q] = step[q] /\ ~(step[q] = "calling" /\ req[q] = r)
                             \/ step[q] = "calling" /\ req[q] = r /\ step'[q] = "marking"
                             \/ /\ step[q] = "calling" /\ req[q] = r /\ step'[q] = "refused"
                                /\ place'[r] = place[r]
  <2>1. CASE /\ place' = Is(place, r, "pending")
             /\ step' = [p \in Programs |-> IF step[p] = "calling" /\ req[p] = r THEN "marking" ELSE step[p]]
    BY <2>1 DEF TypeOK, Is, Steps
  <2>2. CASE /\ UNCHANGED place
             /\ step' = [p \in Programs |-> IF step[p] = "calling" /\ req[p] = r THEN "refused" ELSE step[p]]
    BY <2>2 DEF TypeOK, Steps
  <2> QED BY <2>1, <2>2 DEF Accept
<1>5. TypeOK'
  BY <1>1, <1>4 DEF TypeOK
<1>6. \A x \in Requests : x # r => Evidence(x)' = Evidence(x)
  BY <1>1, <1>4 DEF Evidence
<1>7. Unused'
  BY <1>1, <1>2, <1>6 DEF Unused, TypeOK
<1>8. OneEach'
  BY <1>1, <1>4 DEF OneEach
<1>9. Progress'
  <2>1. \A x \in calls' : place'[x] = "none" /\ result[x] = "none"
    BY <1>1, <1>4 DEF Progress, Evidence, TypeOK
  <2>2. \A q \in Programs :
          /\ step'[q] \in {"previewing", "sending", "refused"} =>
               place'[req[q]] = "none" /\ result[req[q]] = "none" /\ req[q] \notin calls'
          /\ step'[q] = "previewing" => note.id # req[q]
          /\ step'[q] = "calling" => req[q] \in calls'
    <3> TAKE q \in Programs
    <3>1. CASE step'[q] = step[q] /\ ~(step[q] = "calling" /\ req[q] = r)
      <4>1. step[q] \in {"previewing", "sending", "refused", "calling"} => req[q] \in Requests /\ req[q] # r
        BY <3>1, <1>1 DEF OneEach, Progress
      <4> QED BY <3>1, <4>1, <1>1, <1>4 DEF Progress, Evidence
    <3>2. CASE req[q] = r /\ step'[q] = "marking"
      BY <3>2
    <3>3. CASE req[q] = r /\ step'[q] = "refused" /\ place'[r] = place[r]
      BY <3>3, <1>1, <1>2 DEF Evidence
    <3> QED BY <3>1, <3>2, <3>3, <1>4
  <2> QED BY <2>1, <2>2, <1>1 DEF Progress, Evidence
<1>10. Denials'
  <2> SUFFICES ASSUME NEW x \in Requests, fate[x] = "denied"
               PROVE  /\ ~Evidence(x)' /\ x \notin calls'
                      /\ \A q \in Programs : req[q] = x => step'[q] \notin {"previewing", "sending", "calling", "marking"}
    BY <1>1 DEF Denials
  <2>1. x # r
    BY <1>3
  <2> QED BY <2>1, <1>1, <1>4, <1>6 DEF Denials
<1>11. Noted'
  <2> SUFFICES ASSUME NEW x \in Requests, fate[x] = "open", (Evidence(x) \/ UnderWay(x))'
               PROVE  note.id = x
    BY <1>1 DEF Noted
  <2>1. CASE x # r
    <3>1. Evidence(x) \/ UnderWay(x)
      BY <2>1, <1>1, <1>4, <1>6 DEF UnderWay
    <3> QED BY <3>1 DEF Noted
  <2> QED BY <2>1, <1>3
<1>12. Showing'
  BY <1>1 DEF Showing
<1> QED BY <1>5, <1>7, <1>8, <1>9, <1>10, <1>11, <1>12

(* The mark of a submission.                                               *)
LEMMA MarkKeeps == ASSUME IInv, NEW p \in Programs, Mark(p) PROVE IInv'
<1> USE DEF IInv
<1>1. /\ UNCHANGED <<place, result, calls, used, req, recovering, page, visible, fresh>>
      /\ step[p] = "marking"
  BY DEF Mark, screen
<1>2. req[p] \in Requests /\ req[p] <= used
  BY <1>1 DEF OneEach, Unused
<1>3. /\ step' \in [Programs -> Steps] /\ step'[p] = "free" /\ \A q \in Programs : q # p => step'[q] = step[q]
      /\ wait' \in [Programs -> BOOLEAN] /\ \A q \in Programs : q # p => wait'[q] = wait[q]
  BY DEF Mark, Becomes, Is, TypeOK, Steps
<1>4. /\ note' \in [id : Requests, submitted : BOOLEAN] \cup {NoNote} /\ note'.id \in {note.id, None, req[p]}
      /\ fate' \in [Requests -> Fates] /\ troubles' \in Nat
      /\ \A x \in Requests : /\ fate'[x] = fate[x] \/ (x = note.id /\ fate[x] = "open" /\ fate'[x] \in {"torn", "robbed"})
                             /\ fate'[x] = "open" /\ note.id = x => note'.id = x
  <2>1. CASE NoTrouble /\ Write(req[p], TRUE)
    BY <2>1, <1>2, WriteIs DEF NoTrouble, TypeOK
  <2>2. CASE Trouble /\ CutShort(req[p])
    BY <2>2, <1>2, CutShortIs DEF Trouble, TypeOK
  <2> QED BY <2>1, <2>2 DEF Mark
<1>5. mine' \in [Programs -> Ids]
  <2>1. \A i \in Ids : Is(mine, p, i) \in [Programs -> Ids]
    BY DEF TypeOK, Is
  <2>2. req[p] \in Ids /\ note'.id \in Ids
    BY <1>2, <1>4, NoteId
  <2>3. (IF p = "app" THEN req[p] ELSE note'.id) \in Ids
    BY <2>2
  <2> QED BY <2>1, <2>3 DEF Mark
<1>6. TypeOK'
  BY <1>1, <1>3, <1>4, <1>5 DEF TypeOK
<1>7. \A x \in Requests : Evidence(x)' = Evidence(x)
  BY <1>1 DEF Evidence
<1>8. Unused'
  <2>1. \A x \in Requests : x > used => fate[x] = "open" /\ note.id # x /\ req[p] # x
    BY <1>2 DEF Unused, TypeOK
  <2> QED BY <2>1, <1>1, <1>4, <1>7 DEF Unused
<1>9. OneEach'
  BY <1>1, <1>2, <1>3 DEF OneEach
<1>10. Progress'
  <2>1. \A q \in Programs :
          /\ step'[q] \in {"previewing", "sending", "refused"} =>
               place[req[q]] = "none" /\ result[req[q]] = "none" /\ req[q] \notin calls
          /\ step'[q] = "calling" => req[q] \in calls
    BY <1>3 DEF Progress, Evidence
  <2>2. \A q \in Programs : step'[q] = "previewing" => note'.id # req[q]
    <3>1. \A q \in Programs : step'[q] = "previewing" =>
            q # p /\ step[q] = "previewing" /\ req[q] \in Requests /\ note.id # req[q]
      BY <1>3 DEF OneEach, Progress
    <3>2. \A q \in Programs : q # p /\ req[q] = req[p] => FALSE
      BY <1>2 DEF OneEach
    <3> QED BY <3>1, <3>2, <1>4
  <2>3. \A x \in calls : place[x] = "none" /\ result[x] = "none"
    BY DEF Progress, Evidence
  <2> QED BY <2>1, <2>2, <2>3, <1>1 DEF Progress, Evidence
<1>11. Denials'
  BY <1>1, <1>3, <1>4, <1>7 DEF Denials
<1>12. Noted'
  <2> SUFFICES ASSUME NEW x \in Requests, fate'[x] = "open", (Evidence(x) \/ UnderWay(x))'
               PROVE  note'.id = x
    BY DEF Noted
  <2>1. Evidence(x) \/ UnderWay(x)
    BY <1>1, <1>3, <1>7 DEF UnderWay
  <2> QED BY <2>1, <1>4 DEF Noted
<1>13. Showing'
  BY <1>1, <1>4 DEF Showing
<1> QED BY <1>6, <1>8, <1>9, <1>10, <1>11, <1>12, <1>13

(* The service executes a request.                                         *)
LEMMA ServeKeeps == ASSUME IInv, NEW r \in Requests, Serve(r) PROVE IInv'
<1> USE DEF IInv
<1>1. /\ UNCHANGED <<note, calls, used, step, req, wait, mine, recovering, page, visible, fresh, fate>>
      /\ place[r] = "pending" /\ place' = Is(place, r, "done")
  BY DEF Serve, program, screen
<1>2. /\ result' \in [Requests -> {"none", "ok", "error"}] /\ troubles' \in Nat
      /\ \A x \in Requests : result[x] # "none" => result'[x] # "none"
      /\ \A x \in Requests : x # r => result'[x] = result[x]
  <2>1. CASE NoTrouble /\ \E answer \in {"ok", "error"} : result' = Is(result, r, answer)
    BY <2>1 DEF NoTrouble, TypeOK, Is
  <2>2. CASE Trouble /\ UNCHANGED result
    BY <2>2 DEF Trouble, TypeOK
  <2> QED BY <2>1, <2>2 DEF Serve
<1>3. /\ place' \in [Requests -> {"none", "pending", "done"}] /\ place'[r] = "done"
      /\ \A x \in Requests : x # r => place'[x] = place[x]
  BY <1>1 DEF TypeOK, Is
<1>4. Evidence(r)
  BY <1>1 DEF Evidence
<1>5. \A x \in Requests : Evidence(x)' = Evidence(x)
  BY <1>2, <1>3, <1>4 DEF Evidence
<1>6. TypeOK'
  BY <1>1, <1>2, <1>3 DEF TypeOK
<1>7. Unused'
  BY <1>1, <1>5 DEF Unused
<1>8. OneEach'
  BY <1>1 DEF OneEach
<1>9. Progress'
  <2>1. \A x \in calls : place'[x] = "none" /\ result'[x] = "none"
    BY <1>2, <1>3, <1>4 DEF Progress, Evidence, TypeOK
  <2>2. \A q \in Programs : step[q] \in {"previewing", "sending", "refused"} =>
          place'[req[q]] = "none" /\ result'[req[q]] = "none"
    <3> TAKE q \in Programs
    <3> HAVE step[q] \in {"previewing", "sending", "refused"}
    <3>1. req[q] \in Requests /\ place[req[q]] = "none" /\ result[req[q]] = "none"
      BY DEF OneEach, Progress, Evidence
    <3>2. req[q] # r
      BY <3>1, <1>1
    <3> QED BY <3>1, <3>2, <1>2, <1>3
  <2> QED BY <2>1, <2>2, <1>1 DEF Progress, Evidence
<1>10. Denials'
  BY <1>1, <1>5 DEF Denials
<1>11. Noted'
  BY <1>1, <1>5 DEF Noted, UnderWay
<1>12. Showing'
  BY <1>1, <1>2 DEF Showing
<1> QED BY <1>6, <1>7, <1>8, <1>9, <1>10, <1>11, <1>12

(* The next run of the service: a call without an answer is taken for sent.*)
LEMMA RestartKeeps == ASSUME IInv, Restart PROVE IInv'
<1> USE DEF IInv
<1>1. /\ UNCHANGED <<note, place, result, used, req, wait, mine, recovering, page, visible, fate>>
      /\ calls' = {} /\ fresh' \in BOOLEAN /\ troubles' \in Nat
  BY DEF Restart, card, Trouble, TypeOK
<1>2. /\ step' \in [Programs -> Steps]
      /\ \A q \in Programs : \/ step'[q] = step[q] /\ step[q] # "calling"
                             \/ step'[q] = "marking" /\ step[q] = "calling"
  <2>1. step' = [p \in Programs |-> IF step[p] = "calling" THEN "marking" ELSE step[p]]
    BY DEF Restart
  <2>2. step \in [Programs -> Steps]
    BY DEF TypeOK
  <2> QED BY <2>1, <2>2 DEF Steps
<1>3. \A x \in Requests : Evidence(x)' = Evidence(x)
  BY <1>1 DEF Evidence
<1>4. TypeOK'
  BY <1>1, <1>2 DEF TypeOK
<1>5. Unused'
  BY <1>1, <1>3 DEF Unused
<1>6. OneEach'
  BY <1>1, <1>2 DEF OneEach
<1>7. Progress'
  <2>1. \A q \in Programs :
          /\ step'[q] \in {"previewing", "sending", "refused"} => place[req[q]] = "none" /\ result[req[q]] = "none"
          /\ step'[q] = "previewing" => note.id # req[q]
          /\ step'[q] # "calling"
    BY <1>2 DEF Progress, Evidence
  <2> QED BY <2>1, <1>1 DEF Progress, Evidence
<1>8. Denials'
  BY <1>1, <1>2, <1>3 DEF Denials
<1>9. Noted'
  <2> SUFFICES ASSUME NEW x \in Requests, fate[x] = "open", (Evidence(x) \/ UnderWay(x))'
               PROVE  note.id = x
    BY <1>1 DEF Noted
  <2>1. Evidence(x) \/ UnderWay(x)
    BY <1>1, <1>2, <1>3 DEF UnderWay
  <2> QED BY <2>1 DEF Noted
<1>10. Showing'
  BY <1>1 DEF Showing
<1> QED BY <1>4, <1>5, <1>6, <1>7, <1>8, <1>9, <1>10

-----------------------------------------------------------------------------
(***************************************************************************)
(* The theorems.                                                           *)
(***************************************************************************)
LEMMA InitIInv == Init => IInv
<1> SUFFICES ASSUME Init PROVE IInv
  OBVIOUS
<1>1. /\ note = NoNote /\ calls = {} /\ used = 0 /\ visible = FALSE /\ fresh = TRUE /\ troubles = 0
      /\ place = [r \in Requests |-> "none"] /\ result = [r \in Requests |-> "none"]
      /\ fate = [r \in Requests |-> "open"]
      /\ step = [p \in Programs |-> "off"] /\ req = [p \in Programs |-> None]
      /\ wait = [p \in Programs |-> FALSE] /\ mine = [p \in Programs |-> None]
      /\ recovering = [p \in Programs |-> FALSE] /\ page = [p \in Programs |-> NoPage]
  BY DEF Init
<1>2. TypeOK
  <2>1. None \in Ids
    OBVIOUS
  <2>2. /\ step \in [Programs -> Steps] /\ req \in [Programs -> Ids] /\ mine \in [Programs -> Ids]
        /\ fate \in [Requests -> Fates]
    BY <1>1, <2>1 DEF Steps, Fates
  <2>3. page \in [Programs -> [label : {"none", "pending", "result"}, of : Ids]]
    BY <1>1, Pages
  <2>4. wait \in [Programs -> BOOLEAN] /\ recovering \in [Programs -> BOOLEAN]
    BY <1>1
  <2>5. place \in [Requests -> {"none", "pending", "done"}] /\ result \in [Requests -> {"none", "ok", "error"}]
    BY <1>1
  <2> QED BY <1>1, <2>1, <2>2, <2>3, <2>4, <2>5 DEF TypeOK
<1>3. \A r \in Requests : ~Evidence(r) /\ ~UnderWay(r)
  BY <1>1 DEF Evidence, UnderWay
<1>4. Unused
  BY <1>1, <1>3, NoNoteFacts DEF Unused
<1>5. OneEach /\ Progress /\ Denials /\ Noted
  BY <1>1, <1>3 DEF OneEach, Progress, Denials, Noted
<1>6. Showing
  BY <1>1, Pages DEF Showing
<1> QED BY <1>2, <1>4, <1>5, <1>6 DEF IInv

LEMMA NextIInv == IInv /\ [Next]_vars => IInv'
<1> SUFFICES ASSUME IInv, [Next]_vars PROVE IInv'
  OBVIOUS
<1>1. ASSUME NEW p \in Programs, Program(p) PROVE IInv'
  BY <1>1, ConfirmKeeps, PrepareKeeps, SendKeeps, MarkKeeps, RefusedKeeps, PollKeeps, PollNotedKeeps,
     GiveUpKeeps, CloseKeeps, ReopenKeeps, QuitKeeps, DieKeeps DEF Program, Submit, Look
<1>2. CASE Open \/ Show \/ Hide
  BY <1>2, OpenKeeps, ShowKeeps, HideKeeps
<1>3. ASSUME NEW r \in Requests, Accept(r) \/ Serve(r) PROVE IInv'
  BY <1>3, AcceptKeeps, ServeKeeps
<1>4. CASE Restart
  BY <1>4, RestartKeeps
<1>5. CASE UNCHANGED vars
  BY <1>5, StutterKeeps
<1> QED BY <1>1, <1>2, <1>3, <1>4, <1>5 DEF Next

LEMMA SpecIInv == Spec => []IInv
BY InitIInv, NextIInv, PTL DEF Spec

(* Every variable keeps its type; a note is whole or there is none.        *)
THEOREM TypeCorrect == Spec => []TypeOK
<1>1. IInv => TypeOK
  BY DEF IInv
<1> QED BY <1>1, SpecIInv, PTL

(* Where a child was told that a code was not sent, the service never gets *)
(* its request: neither a failed storage call, nor a program that ends in  *)
(* the middle of a submission, nor a restart of the service brings it there*)
(* afterwards.                                                             *)
THEOREM DenialsHold == Spec => []DenialIsTrue
<1>1. IInv => DenialIsTrue
  BY DEF IInv, Denials, DenialIsTrue
<1> QED BY <1>1, SpecIInv, PTL

(* A request that reached the service keeps its note until its outcome was *)
(* shown, or something else was told of it, or another write has taken the *)
(* note away.                                                              *)
THEOREM OutcomesKept == Spec => []OutcomeKept
<1>1. IInv => OutcomeKept
  BY DEF IInv, Denials, Noted, OutcomeKept
<1> QED BY <1>1, SpecIInv, PTL

=============================================================================
