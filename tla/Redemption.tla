------------------------------ MODULE Redemption ------------------------------
(***************************************************************************)
(* The redemption of an offline code, as the child sees it.  Two programs  *)
(* may redeem one, the application and the overlay that can be shown over  *)
(* it.  Before a confirmed code is sent, the program notes the request in  *)
(* pending-redemption.json, one file for both; whichever starts next       *)
(* finds the note and goes on waiting for the answer, or tells the child   *)
(* that nothing was sent.                                                  *)
(*                                                                         *)
(* What the service does for the code is Transaction's, how the answer     *)
(* travels is Delivery's: here a request is in the inbox or not, and has a *)
(* result or not.  While the overlay is visible the application takes no   *)
(* input, but its loop goes on; a hidden overlay does nothing.             *)
(***************************************************************************)
EXTENDS Naturals

CONSTANTS
  MaxRequests,   \* bound: codes confirmed
  MaxTroubles    \* bound: storage calls that fail, starts that skip the note,
                 \* programs that end in a submission and restarts of the service

ASSUME BoundsAssumption == MaxRequests \in Nat /\ MaxTroubles \in Nat

Requests == 1..MaxRequests     \* request ids, in the order they are given out
None     == 0
Programs == {"app", "overlay"}

VARIABLES
  note,          \* pending-redemption.json: a request, and whether it is "submitted"
  place, result, \* where a request's file is, and what is in results/
  calls,         \* requests whose IPC call has not been answered yet
  used,          \* the last id that was given out
  step,          \* what a program does about a confirmed code
  req,           \* active_request_id: the request it submits or waits for
  wait,          \* it waits for the transport's answer
  mine,          \* pending_redemption, its copy of the note
  recovering,    \* it polls results/ for that one
  page,          \* the result page: absent, "pending" or showing a "result" of a request
  visible,       \* the overlay is shown and owns the input
  fresh,         \* the overlay has not looked at the note in this run of the service
  fate,          \* history: what the child was told of a request: "open", nothing yet;
                 \* "shown", its outcome; "denied", that it was not sent, or "hasty",
                 \* the same while it was on its way.  Or why nothing will be told:
                 \* its note gave way to another's, "robbed", or is "torn"
  troubles

card    == <<note, place, result>>
program == <<step, req, wait, mine, recovering, page>>
screen  == <<visible, fresh>>
vars    == <<card, calls, used, program, screen, fate, troubles>>

Trouble   == troubles < MaxTroubles /\ troubles' = troubles + 1
NoTrouble == UNCHANGED troubles

Input(p) == IF p = "app" THEN ~visible ELSE visible      \* the child can use it
Runs(p)  == p = "app" \/ visible                         \* its loop goes round
Is(f, x, v) == [f EXCEPT ![x] = v]
Between  == {"free", "previewing"}                       \* between two frames

Page(label, r) == [label |-> label, of |-> r]
NoPage         == Page("none", None)

Note(r, submitted) == [id |-> r, submitted |-> submitted]
NoNote             == Note(None, FALSE)
UnderWay(r) == \/ r \in calls
               \/ \E p \in Programs : req[p] = r /\ step[p] \in {"sending", "calling", "marking"}

-----------------------------------------------------------------------------
Init ==
  /\ note = NoNote
  /\ place = [r \in Requests |-> "none"] /\ result = [r \in Requests |-> "none"]
  /\ calls = {} /\ used = 0
  /\ step = [p \in Programs |-> "off"] /\ req = [p \in Programs |-> None]
  /\ wait = [p \in Programs |-> FALSE] /\ mine = [p \in Programs |-> None]
  /\ recovering = [p \in Programs |-> FALSE] /\ page = [p \in Programs |-> NoPage]
  /\ visible = FALSE /\ fresh = TRUE
  /\ fate = [r \in Requests |-> "open"] /\ troubles = 0

(***************************************************************************)
(* The note.  write_text_atomic removes the old file before the new one    *)
(* takes its name, so that a failure, or an end of the program, in between *)
(* leaves none.  Neither writing nor clearing looks at whose note is there.*)
(***************************************************************************)
Robbed(f, r) ==      \* the note goes in an action for r
  [x \in Requests |-> IF x = note.id /\ x # r /\ f[x] = "open" THEN "robbed" ELSE f[x]]

Write(r, submitted) == note' = Note(r, submitted) /\ fate' = Robbed(fate, r)

(* A write for r that does not complete.                                   *)
CutShort(r) ==
  \/ UNCHANGED <<note, fate>>
  \/ /\ note' = NoNote
     /\ fate' = IF note.id = r /\ fate[r] = "open" THEN Is(fate, r, "torn") ELSE Robbed(fate, r)

Clear(r, f) ==
  \/ NoTrouble /\ note' = NoNote /\ fate' = Robbed(f, r)
  \/ Trouble /\ note # NoNote /\ UNCHANGED note /\ fate' = f

Keep(f) == NoTrouble /\ UNCHANGED note /\ fate' = f

Evidence(r) == place[r] # "none" \/ result[r] # "none"

(* Mutant: only the mark in the note counts as evidence. *)
MarkOnly == note.submitted

HasSubmission == note.submitted \/ Evidence(note.id)

(***************************************************************************)
(* A confirmed code.  The estimate is asked for once more; when it has not *)
(* changed the code is sent without further input: note it, send it, mark  *)
(* it as submitted.                                                        *)
(***************************************************************************)
Becomes(p, label) == step' = [step EXCEPT ![p] = label]

Confirm(p) ==
  /\ Input(p) /\ step[p] = "free" /\ ~wait[p] /\ ~recovering[p] /\ page[p] = NoPage
  /\ used < MaxRequests /\ used' = used + 1
  /\ req' = Is(req, p, used') /\ Becomes(p, "previewing")
  /\ UNCHANGED <<card, calls, wait, mine, recovering, page, screen, fate, troubles>>

Prepare(p) ==
  /\ step[p] = "previewing" /\ Runs(p)
  /\ \/ NoTrouble /\ Write(req[p], FALSE) /\ Becomes(p, "sending") /\ UNCHANGED req
     \/ Trouble /\ CutShort(req[p]) /\ Becomes(p, "free") /\ req' = Is(req, p, None)
  /\ UNCHANGED <<place, result, calls, used, wait, mine, recovering, page, screen>>

(* Over IPC, or where there is no connection as a file into the inbox.     *)
Send(p) ==
  /\ step[p] = "sending"
  /\ \/ NoTrouble /\ Becomes(p, "calling") /\ calls' = calls \cup {req[p]} /\ UNCHANGED place
     \/ NoTrouble /\ Becomes(p, "marking") /\ place' = Is(place, req[p], "pending") /\ UNCHANGED calls
     \/ Trouble /\ Becomes(p, "refused") /\ UNCHANGED <<place, calls>>
  /\ UNCHANGED <<note, result, used, req, wait, mine, recovering, page, screen, fate>>

(* The service is busy, hands over, or cannot store the request.           *)
Accept(r) ==
  /\ r \in calls /\ calls' = calls \ {r}
  /\ \/ place' = Is(place, r, "pending")
        /\ step' = [p \in Programs |-> IF step[p] = "calling" /\ req[p] = r THEN "marking" ELSE step[p]]
     \/ UNCHANGED place
        /\ step' = [p \in Programs |-> IF step[p] = "calling" /\ req[p] = r THEN "refused" ELSE step[p]]
  /\ UNCHANGED <<note, result, used, req, wait, mine, recovering, page, screen, fate, troubles>>

(* The overlay reads the note back into its copy, the application has it.  *)
Mark(p) ==
  /\ step[p] = "marking" /\ Becomes(p, "free")
  /\ \/ NoTrouble /\ Write(req[p], TRUE)
     \/ Trouble /\ CutShort(req[p])
  /\ wait' = Is(wait, p, TRUE)
  /\ mine' = Is(mine, p, IF p = "app" THEN req[p] ELSE note'.id)
  /\ UNCHANGED <<place, result, calls, used, req, recovering, page, screen>>

(* "The submission failed, the code was not consumed."                     *)
Refused(p) ==
  /\ step[p] = "refused" /\ Becomes(p, "free")
  /\ Clear(req[p], Is(fate, req[p], "denied")) /\ req' = Is(req, p, None)
  /\ UNCHANGED <<place, result, calls, used, wait, mine, recovering, page, screen>>

-----------------------------------------------------------------------------
(***************************************************************************)
(* The answer.  A failure is shown by the application in a message, which  *)
(* needs no handling, so that it clears the note at once; everything else  *)
(* is shown on the result page and the note cleared when that is closed.   *)
(***************************************************************************)
Poll(p) ==
  /\ wait[p] /\ step[p] \in Between /\ Runs(p) /\ result[req[p]] # "none"
  /\ wait' = Is(wait, p, FALSE) /\ req' = Is(req, p, None)
  /\ mine' = Is(mine, p, IF recovering[p] THEN mine[p] ELSE None)
  /\ IF p = "app" /\ result[req[p]] = "error"
       THEN Clear(req[p], Is(fate, req[p], "shown")) /\ UNCHANGED page
       ELSE Keep(Is(fate, req[p], "shown")) /\ page' = Is(page, p, Page("result", req[p]))
  /\ UNCHANGED <<place, result, calls, used, step, recovering, screen>>

(* The time limit is over, or the transport has no answer to give.         *)
GiveUp(p) ==
  /\ wait[p] /\ step[p] \in Between /\ Runs(p)
  /\ wait' = Is(wait, p, FALSE) /\ req' = Is(req, p, None)
  /\ recovering' = Is(recovering, p, TRUE) /\ page' = Is(page, p, Page("pending", req[p]))
  /\ UNCHANGED <<card, calls, used, step, mine, screen, fate, troubles>>

(* Mutant: the recovery takes a refused code for an unreadable result. *)
OkOnly(r) == r # None /\ result[r] = "ok"

Answered(r) == r # None /\ result[r] # "none"

PollNoted(p) ==
  /\ recovering[p] /\ step[p] \in Between /\ Runs(p) /\ Answered(mine[p])
  /\ recovering' = Is(recovering, p, FALSE) /\ page' = Is(page, p, Page("result", mine[p]))
  /\ mine' = Is(mine, p, IF wait[p] THEN mine[p] ELSE None)
  /\ fate' = Is(fate, mine[p], "shown")
  /\ UNCHANGED <<card, calls, used, step, req, wait, screen, troubles>>

(* Mutant: closing the page ends the matter, whatever it showed. *)
AnyPage(p) == page[p].label \in {"pending", "result"}

Terminal(p) == page[p].label = "result"

(* The page is closed; the child may open it again while nothing is known. *)
Close(p) ==
  /\ Input(p) /\ step[p] \in Between /\ page[p] # NoPage
  /\ page' = Is(page, p, NoPage)
  /\ IF Terminal(p)
       THEN Clear(page[p].of, fate) /\ mine' = Is(mine, p, None)
       ELSE Keep(fate) /\ UNCHANGED mine
  /\ UNCHANGED <<place, result, calls, used, step, req, wait, recovering, screen>>

Reopen(p) ==
  /\ Input(p) /\ step[p] = "free" /\ recovering[p] /\ page[p] = NoPage
  /\ page' = Is(page, p, Page("pending", mine[p]))
  /\ UNCHANGED <<card, calls, used, step, req, wait, mine, recovering, screen, fate, troubles>>

(***************************************************************************)
(* The beginning of a program.  The result is looked for at once; an       *)
(* overlay that has just polled waits for its next frame.                  *)
(***************************************************************************)
Restore(p) ==
  \/ note = NoNote /\ Keep(fate) /\ UNCHANGED <<mine, recovering, page>>
  \/ /\ note # NoNote /\ ~HasSubmission                \* "interrupted before the submission"
     /\ Clear(note.id, Is(fate, note.id, IF UnderWay(note.id) THEN "hasty" ELSE "denied"))
     /\ UNCHANGED <<mine, recovering, page>>
  \/ /\ note # NoNote /\ HasSubmission
     /\ mine' = Is(mine, p, note.id)
     /\ \/ /\ Answered(note.id) /\ Keep(Is(fate, note.id, "shown"))
           /\ recovering' = Is(recovering, p, FALSE) /\ page' = Is(page, p, Page("result", note.id))
        \/ /\ p = "overlay" \/ ~Answered(note.id)
           /\ Keep(fate)
           /\ recovering' = Is(recovering, p, TRUE) /\ page' = Is(page, p, Page("pending", note.id))

(* The note cannot be read, or the application finds no service to expect. *)
Skip == Trouble /\ UNCHANGED <<note, fate, mine, recovering, page>>

Open ==
  /\ step["app"] = "off" /\ Becomes("app", "free")
  /\ Restore("app") \/ Skip
  /\ UNCHANGED <<place, result, calls, used, req, wait, screen>>

Show ==
  /\ ~visible /\ step["overlay"] \in {"off"} \cup Between
  /\ visible' = TRUE /\ fresh' = FALSE
  /\ step' = IF step["overlay"] = "off" THEN Is(step, "overlay", "free") ELSE step
  /\ IF fresh THEN Restore("overlay") \/ Skip
              ELSE Keep(fate) /\ UNCHANGED <<mine, recovering, page>>
  /\ UNCHANGED <<place, result, calls, used, req, wait>>

Hide ==
  /\ visible /\ step["overlay"] \in Between
  /\ visible' = FALSE
  /\ UNCHANGED <<card, calls, used, program, fresh, fate, troubles>>

(***************************************************************************)
(* The end of a program, between two frames or, a power cut or a crash, in *)
(* the middle of a submission.                                             *)
(***************************************************************************)
Gone(p) ==
  /\ Becomes(p, "off") /\ req' = Is(req, p, None) /\ wait' = Is(wait, p, FALSE)
  /\ mine' = Is(mine, p, None) /\ recovering' = Is(recovering, p, FALSE)
  /\ page' = Is(page, p, NoPage)
  /\ IF p = "overlay" THEN visible' = FALSE /\ fresh' = TRUE ELSE UNCHANGED screen

Quit(p) ==
  /\ step[p] \in Between /\ Gone(p)
  /\ UNCHANGED <<card, calls, used, fate, troubles>>

Die(p) ==
  /\ Trouble
  /\ step[p] \notin {"off", "free"} /\ Runs(p)
  /\ Gone(p)
  /\ IF step[p] \in {"previewing", "marking"} THEN CutShort(req[p])
                                              ELSE UNCHANGED <<note, fate>>
  /\ UNCHANGED <<place, result, calls, used>>

(***************************************************************************)
(* The service.  A result that cannot be written is missing for good.      *)
(***************************************************************************)
Serve(r) ==
  /\ place[r] = "pending" /\ place' = Is(place, r, "done")
  /\ \/ NoTrouble /\ \E answer \in {"ok", "error"} : result' = Is(result, r, answer)
     \/ Trouble /\ UNCHANGED result
  /\ UNCHANGED <<note, calls, used, program, screen, fate>>

(* The next run of the service.  A call that was not answered may have     *)
(* been served or not: the client takes it for sent.                       *)
Restart ==
  /\ Trouble
  /\ calls' = {} /\ fresh' = TRUE
  /\ step' = [p \in Programs |-> IF step[p] = "calling" THEN "marking" ELSE step[p]]
  /\ UNCHANGED <<card, used, req, wait, mine, recovering, page, visible, fate>>

-----------------------------------------------------------------------------
Submit(p) == Prepare(p) \/ Send(p) \/ Mark(p) \/ Refused(p)
Look(p)   == Poll(p) \/ PollNoted(p)

Program(p) ==
  \/ Confirm(p) \/ Submit(p) \/ Look(p) \/ GiveUp(p)
  \/ Close(p) \/ Reopen(p) \/ Quit(p) \/ Die(p)

Next ==
  \/ \E p \in Programs : Program(p)
  \/ Open \/ Show \/ Hide
  \/ \E r \in Requests : Accept(r) \/ Serve(r)
  \/ Restart

Spec == Init /\ [][Next]_vars

(***************************************************************************)
(* A loop goes round while its program runs; the service goes on; and a    *)
(* child opens and closes the programs, and closes what they show, but     *)
(* need not redeem a code.                                                 *)
(***************************************************************************)
Fairness ==
  /\ \A p \in Programs : WF_vars(Submit(p)) /\ WF_vars(Look(p)) /\ WF_vars(Close(p)) /\ WF_vars(Quit(p))
  /\ WF_vars(Open) /\ WF_vars(Show) /\ WF_vars(\E r \in Requests : Accept(r))

FairSpec == Spec /\ Fairness

(* What a child was told has not been sent is never executed: the code can *)
(* be entered again.  Only a program that looks at the note while another  *)
(* one, or a call that outlived its caller, is sending it, is mistaken.    *)
DenialIsTrue == \A r \in Requests : fate[r] = "denied" => ~Evidence(r) /\ r \notin calls

(* A request that reached the service keeps its note until its outcome was *)
(* shown, whatever ends in between, unless the note was lost in its own    *)
(* rewriting or another request's took its place.                          *)
OutcomeKept ==
  \A r \in Requests : fate[r] \in {"open", "denied"} /\ Evidence(r) => note.id = r

(* An outcome that the service has written is shown in the end.  Results   *)
(* and fates are final, so this is the leads-to for every request.         *)
OutcomeShown ==
  <>[](\A r \in Requests : result[r] # "none" => fate[r] \in {"shown", "hasty", "robbed", "torn"})

(* Claims of the documents that do not hold (README, the table of claims): *)
(* a request whose note was found without a mark is never executed.        *)
UnsubmittedIsUnconsumed == \A r \in Requests : fate[r] \in {"denied", "hasty"} => ~Evidence(r)

(* The note goes when its own request's final result has been shown.       *)
NoteIsHandled == \A r \in Requests : fate[r] # "robbed"

=============================================================================
