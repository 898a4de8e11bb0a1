---------------------------- MODULE Transaction ----------------------------
(***************************************************************************)
(* The write path of the background service: one recovery journal          *)
(* (recovery/active/) shared by the requests of the inbox and by the       *)
(* enforcement tick, over a file system that can refuse a write, tear one  *)
(* or lose power between any two of them.                                  *)
(*                                                                         *)
(* The content of an item is abstracted to the set of facts it records:    *)
(* an effect <<r, n>> (the n-th execution of request r granted its time)   *)
(* or a mark.  The empty set is the file that is not there: a rewrite      *)
(* removes the old file before it renames the new one into place, so an    *)
(* interrupted rewrite leaves nothing.  The empty set as "pctl" stands for *)
(* settings written in part.                                               *)
(***************************************************************************)
EXTENDS Integers, Sequences, FiniteSets

CONSTANTS
  Requests,      \* ids of the request files a client may drop in the inbox
  Kind,          \* what each request asks for
  Code,          \* the offline code a "code" request redeems
  Enforcer,      \* the background owner, "enforce" in meta.json
  Nobody,        \* no journal: recovery/active/meta.json is absent
  MaxCrashes,    \* bound: power losses and restarts
  MaxFaults,     \* bound: storage and PCTL calls that fail
  MaxFlips       \* bound: times the console is docked or undocked

ASSUME KindAssumption == Kind \in [Requests -> {"add", "code", "buffer", "waive"}]
ASSUME ActorsAssumption == /\ Enforcer \notin Requests
                           /\ Nobody \notin Requests \cup {Enforcer}
ASSUME BoundsAssumption == /\ MaxCrashes \in Nat
                           /\ MaxFaults \in Nat
                           /\ MaxFlips \in Nat

VARIABLES
  inbox,         \* where the file of a request is
  result,        \* results/<request_id>.json
  tries,         \* how often a request has been taken (history)
  store,         \* the live content of every item
  owner,         \* meta.json.request_id of recovery/active, or Nobody
  have,          \* the preimages still present in recovery/active
  saved,         \* the preimages recovery_begin wrote
  disabled,      \* flags/disable.flag is there
  undocked,      \* the dock policy wants a restriction
  pc, actor,     \* what the service's one worker does, and for whom
  at,            \* position in the body, or in the rollback
  next,          \* what the handler has decided to write
  cont,          \* what follows the rollback or the clearing under way
  undoOk,        \* recovery_rollback's ok
  crashes, faults, flips,
  harmed         \* how the transaction protocol was defeated (history)

files   == <<store, owner, have, saved, disabled>>
worker  == <<pc, actor, at, next, cont, undoOk>>
history == <<crashes, faults, flips, harmed>>
vars    == <<inbox, result, tries, files, undocked, worker, history>>

(***************************************************************************)
(* Contents.                                                               *)
(***************************************************************************)
Item   == {"pctl", "rules", "state", "ledger", "redeemed"}
Effect == Requests \X Nat
Base     == <<"base", 0>>       \* the installed defaults
Old      == <<"old", 0>>        \* a nonce of an earlier date
Blocked  == <<"blocked", 0>>    \* PCTL target BLOCKED
Released == <<"released", 0>>   \* PCTL as a completed setup leaves it
Enforced == <<"enforced", 0>>   \* state.dock_enforced
Waived   == <<"waived", 0>>     \* state.dock_waived for today
Pending  == <<"pending", 0>>    \* state.apply_pending_confirmation
Mark   == {Base, Old, Blocked, Released, Enforced, Waived, Pending}
Fact   == Effect \cup Mark
Actor  == Requests \cup {Enforcer}

ASSUME MarkAssumption == \A m \in Mark : m[1] \notin Requests

Grants(content) == content \ Mark

(* The composed target: a restriction hides the rules' allowance.          *)
Target(allowance, blocked) == IF blocked THEN {Blocked} ELSE allowance

(* Rules and state that are missing are read as the defaults.              *)
Loaded(item) == IF store[item] = {} THEN {Base} ELSE store[item]
rules == Loaded("rules")
state == Loaded("state")

DockBlocks == undocked /\ Waived \notin state

(* Mutant: a replay is recognised by the request instead of by the code.   *)
RedeemedByRequest(r) == \E e \in Grants(store["ledger"]) : e[1] = r

Redeemed(r) == \E e \in Grants(store["ledger"]) : Code[e[1]] = Code[r]

BufferClaimed == \E e \in Grants(state) : Kind[e[1]] = "buffer"

(***************************************************************************)
(* What a handler has decided to write once its checks have passed.        *)
(***************************************************************************)
Grant(r) ==
  LET e == <<r, tries[r]>>
      base(item) == IF item = "pctl" THEN rules
                    ELSE IF item \in {"rules", "state"} THEN Loaded(item) ELSE store[item]
  IN [i \in Item |-> IF i \in {"ledger", "redeemed"} /\ Kind[r] # "code"
                     THEN store[i] ELSE base(i) \cup {e}]

(* Under disable.flag a waiver lifts only a restriction the dock imposed.  *)
Waive ==
  [store EXCEPT
     !["rules"] = rules,
     !["state"] = (state \cup {Waived}) \ {Enforced, Pending},
     !["pctl"]  = IF disabled /\ Enforced \notin state
                  THEN @ ELSE Target(rules, FALSE)]

Enforce ==
  [store EXCEPT
     !["state"] = IF DockBlocks THEN state \cup {Enforced} ELSE state \ {Enforced},
     !["pctl"]  = Target(rules, DockBlocks)]

Plan(a) == IF a = Enforcer THEN Enforce ELSE IF Kind[a] = "waive" THEN Waive ELSE Grant(a)

(* The writes of a handler between recovery_begin and recovery_clear.      *)
Body(a) ==
  IF a = Enforcer THEN <<"pctl", "observe", "state">>
  ELSE CASE Kind[a] = "add"    -> <<"rules", "pctl", "observe", "state", "result">>
         [] Kind[a] = "buffer" -> <<"pctl", "observe", "rules", "state", "result">>
         [] Kind[a] = "code"   -> <<"pctl", "observe", "rules", "result",
                                    "redeemed", "state", "ledger">>
         [] Kind[a] = "waive"  -> <<"rules", "waived", "pctl", "observe", "state", "result">>

(* Mutant: the rollback forgets the redemption history.                    *)
UndoOrderShort == <<"pctl", "rules", "state", "ledger">>

UndoOrder == <<"pctl", "rules", "state", "ledger", "redeemed">>

Written(step) == IF step = "waived" THEN "state" ELSE step
Content(step) == IF step = "waived" THEN state \cup {Waived} ELSE next[step]

(* What a write that fails, or is cut short, leaves behind: a rewrite has  *)
(* already removed the file, an append has or has not reached the card,    *)
(* settings may have been written in part.                                 *)
Torn(item, content) ==
  CASE item = "ledger" /\ pc = "body" -> {store[item], content}
    [] item = "pctl" /\ content # store[item] -> {store[item], content, {}}
    [] item = "pctl"                  -> {content}
    [] OTHER                          -> {store[item], {}}

Fault == /\ faults < MaxFaults
         /\ faults' = faults + 1
NoFault == UNCHANGED faults

Goto(label) == pc' = label
Undo(c)  == Goto("undo") /\ at' = 1 /\ undoOk' = TRUE /\ cont' = c
Clear(c) == Goto("clear") /\ cont' = c

(* The place a rollback or a clearing returns to.                          *)
After(c) ==
  CASE c = "commit"  -> IF actor = Enforcer THEN "idle" ELSE "retire"
    [] c = "silent"  -> "retire"
    [] c = "tick"    -> "idle"
    [] c = "confirm" -> "sample"      \* the tick goes on after the confirmation
    [] OTHER         -> c

-----------------------------------------------------------------------------
Init ==
  /\ inbox  = [r \in Requests |-> "none"]
  /\ result = [r \in Requests |-> "none"]
  /\ tries  = [r \in Requests |-> 0]
  /\ store  = [i \in Item |-> CASE i = "ledger"   -> {Old}
                                [] i = "redeemed" -> {}
                                [] OTHER          -> {Base}]
  /\ owner = Nobody /\ have = {} /\ saved = [i \in Item |-> {}]
  /\ disabled = FALSE /\ undocked = FALSE
  /\ pc = "boot" /\ actor = Enforcer /\ at = 1 /\ cont = "boot" /\ undoOk = TRUE
  /\ next = [i \in Item |-> {}]
  /\ crashes = 0 /\ faults = 0 /\ flips = 0 /\ harmed = {}

(***************************************************************************)
(* The environment: a client drops a request file, the console is docked   *)
(* or undocked, a parent completes the setup again after a protection      *)
(* stop (COMPLETE_SETUP is refused while a journal is open), power fails.  *)
(***************************************************************************)
Submit(r) ==
  /\ inbox[r] = "none"
  /\ inbox' = [inbox EXCEPT ![r] = "pending"]
  /\ UNCHANGED <<result, tries, files, undocked, worker, history>>

Flip ==
  /\ pc = "idle" /\ flips < MaxFlips
  /\ flips' = flips + 1 /\ undocked' = ~undocked
  /\ UNCHANGED <<inbox, result, tries, files, worker, crashes, faults, harmed>>

ParentResume ==
  /\ pc = "idle" /\ disabled /\ owner = Nobody
  /\ disabled' = FALSE
  /\ store' = [store EXCEPT !["pctl"] = {Released}]
  /\ UNCHANGED <<inbox, result, tries, owner, have, saved, undocked, worker, history>>

(* The item a power loss can tear now, and what it may then hold.          *)
Cut ==
  CASE pc = "sample" -> [item |-> "state", outcomes |-> Torn("state", state)]
    [] pc = "compact" -> [item |-> "ledger", outcomes |-> Torn("ledger", {})]
    [] pc = "body" /\ Written(Body(actor)[at]) \in Item ->
         LET step == Body(actor)[at]
         IN [item |-> Written(step), outcomes |-> Torn(Written(step), Content(step))]
    [] pc = "undo" ->
         [item |-> UndoOrder[at], outcomes |-> Torn(UndoOrder[at], saved[UndoOrder[at]])]
    [] OTHER -> [item |-> "state", outcomes |-> {store["state"]}]

(* A clearing cut short has removed some preimages, or meta.json too.      *)
Crash ==
  /\ pc # "boot" /\ crashes < MaxCrashes
  /\ crashes' = crashes + 1
  /\ \E content \in Cut.outcomes : store' = [store EXCEPT ![Cut.item] = content]
  /\ IF pc = "clear"
     THEN \/ owner' = Nobody /\ have' = {}
          \/ UNCHANGED owner /\ have' \in SUBSET have
     ELSE UNCHANGED <<owner, have>>
  /\ result' = IF pc = "report" \/ (pc = "body" /\ Body(actor)[at] = "result")
               THEN [result EXCEPT ![actor] = "none"] ELSE result
  /\ harmed' = harmed \cup (IF owner = Nobody /\ store' # store THEN {"file"} ELSE {})
  /\ Goto("boot") /\ actor' = Enforcer /\ at' = 1 /\ cont' = "boot" /\ undoOk' = TRUE
  /\ next' = [i \in Item |-> {}]
  /\ disabled' \in IF pc = "flag" THEN {disabled, FALSE} ELSE {disabled}
  /\ UNCHANGED <<inbox, tries, saved, undocked, faults, flips>>

(***************************************************************************)
(* Start-up: missing rules and state are created from the defaults, an     *)
(* abandoned journal is rolled back and the service disabled, and the      *)
(* requests that were being processed go back to the inbox.                *)
(***************************************************************************)
(* Mutant: start-up does not look for an abandoned journal.                *)
BootIgnoresJournal ==
  /\ pc = "boot" /\ Goto("requeue")
  /\ store' = [i \in Item |-> IF i \in {"rules", "state"} /\ store[i] = {}
                              THEN {Base} ELSE store[i]]
  /\ UNCHANGED <<inbox, result, tries, owner, have, saved, disabled, undocked,
                 actor, at, undoOk, cont, next, history>>

Boot ==
  /\ pc = "boot"
  /\ store' = [i \in Item |-> IF i \in {"rules", "state"} /\ store[i] = {}
                              THEN {Base} ELSE store[i]]
  /\ IF owner = Nobody THEN Goto("requeue") /\ UNCHANGED <<at, undoOk, cont>>
                       ELSE Undo("boot")
  /\ UNCHANGED <<inbox, result, tries, owner, have, saved, disabled, undocked,
                 actor, next, history>>

(* Mutant: start-up leaves the requests it was processing where they are.  *)
RequeueNothing ==
  /\ pc = "requeue" /\ Goto("idle")
  /\ UNCHANGED <<inbox, result, tries, files, undocked, actor, at, next, cont, undoOk, history>>

Requeue ==
  /\ pc = "requeue"
  /\ inbox' = [r \in Requests |-> IF inbox[r] = "processing" THEN "pending" ELSE inbox[r]]
  /\ Goto("idle")
  /\ UNCHANGED <<result, tries, files, undocked, actor, at, next, cont, undoOk, history>>

(***************************************************************************)
(* recovery_rollback: restore the preimages in order, go on after a        *)
(* failure, clear the journal only if all of them are back.                *)
(***************************************************************************)
Restorable(item) == item \in have \/ (item # "pctl" /\ saved[item] = {})

Harm(kinds) == harmed' = harmed \cup kinds

(* The next preimage, restored or not; a damaged snapshot ends it at once. *)
UndoMove(ok, last) ==
  /\ undoOk' = ok
  /\ IF last \/ at = Len(UndoOrder)
     THEN /\ Goto(IF ok THEN "clear" ELSE "flag")
          /\ UNCHANGED at
          /\ Harm(IF ok THEN {} ELSE {"undo"})
     ELSE pc' = pc /\ at' = at + 1 /\ UNCHANGED harmed
  /\ UNCHANGED <<inbox, result, tries, owner, have, saved, disabled, undocked,
                 actor, next, cont, crashes, flips>>

UndoRestore ==
  LET item == UndoOrder[at] IN
  /\ pc = "undo" /\ owner # Nobody /\ Restorable(item)
  /\ store' = [store EXCEPT ![item] = saved[item]]
  /\ NoFault
  /\ UndoMove(undoOk, FALSE)

UndoDamaged ==
  LET item == UndoOrder[at] IN
  /\ pc = "undo" /\ owner # Nobody /\ ~Restorable(item)
  /\ NoFault /\ UNCHANGED store
  /\ UndoMove(FALSE, item = "pctl")

UndoFault ==
  LET item == UndoOrder[at] IN
  /\ pc = "undo" /\ owner # Nobody /\ Restorable(item) /\ Fault
  /\ \E content \in Torn(item, saved[item]) : store' = [store EXCEPT ![item] = content]
  /\ UndoMove(FALSE, FALSE)

UndoNothing ==       \* no meta.json: nothing to roll back
  /\ pc = "undo" /\ owner = Nobody
  /\ Goto(After(cont))
  /\ UNCHANGED <<inbox, result, tries, files, undocked, actor, at, next, cont, undoOk, history>>

(* recovery_clear removes the tree in directory order and ignores a        *)
(* failure; the journal is gone as soon as meta.json is.                   *)
Committing == cont \in {"commit", "confirm"}

ClearDone ==
  /\ pc = "clear"
  /\ owner' = Nobody /\ have' = {}
  /\ Goto(IF cont = "boot" THEN "flag" ELSE After(cont))
  /\ UNCHANGED <<inbox, result, tries, store, saved, disabled, undocked,
                 actor, at, next, cont, undoOk, history>>

ClearFault ==
  /\ pc = "clear" /\ Fault
  /\ have' \in SUBSET have
  /\ Goto(IF cont = "boot" THEN "flag" ELSE After(cont))
  /\ Harm(IF Committing THEN {"clear"} ELSE {})
  /\ UNCHANGED <<inbox, result, tries, store, owner, saved, disabled, undocked,
                 actor, at, next, cont, undoOk, crashes, flips>>

(* write_disable_flag ignores a failure of its own write, which has then   *)
(* perhaps removed the flag that was there.                                *)
Flag ==
  /\ pc = "flag"
  /\ \/ disabled' = TRUE /\ NoFault
     \/ Fault /\ disabled' \in {disabled, FALSE}
  /\ Goto(CASE cont = "boot" -> "requeue" [] cont = "sample" -> "report" [] OTHER -> After(cont))
  /\ UNCHANGED <<inbox, result, tries, store, owner, have, saved, undocked,
                 actor, at, next, cont, undoOk, crashes, flips, harmed>>

(***************************************************************************)
(* One request: taken from pending/, answered, moved to done/.             *)
(***************************************************************************)
Take(r) ==
  /\ pc = "idle" /\ inbox[r] = "pending"
  /\ inbox' = [inbox EXCEPT ![r] = "processing"]
  /\ tries' = [tries EXCEPT ![r] = @ + 1]
  /\ actor' = r /\ Goto("gate")
  /\ UNCHANGED <<result, files, undocked, at, next, cont, undoOk, history>>

Foreign == owner \notin {Nobody, actor}

(* Mutant: a disabled service still takes grants.                          *)
GateIgnoresDisable ==
  /\ pc = "gate" /\ ~Foreign /\ Goto("sample")
  /\ UNCHANGED <<inbox, result, tries, files, undocked, actor, at, cont, undoOk, next, history>>

(* process_request_text: another owner's journal makes a request answer    *)
(* CONTROL_BUSY, except a parent's recovery request, which resolves it.    *)
Gate ==
  /\ pc = "gate"
  /\ \/ /\ ~Foreign
        /\ Goto(IF disabled /\ Kind[actor] \in {"add", "buffer"} THEN "fail" ELSE "sample")
        /\ UNCHANGED <<at, cont, undoOk>>
     \/ Foreign /\ Kind[actor] # "waive" /\ Goto("fail") /\ UNCHANGED <<at, cont, undoOk>>
     \/ Foreign /\ Kind[actor] = "waive" /\ Undo("sample")
  /\ UNCHANGED <<inbox, result, tries, files, undocked, actor, next, history>>

(* The usage sample is saved to state.json before any journal is opened.   *)
Sample ==
  /\ pc = "sample"
  /\ \/ store' = [store EXCEPT !["state"] = state] /\ Goto("admit") /\ NoFault /\ UNCHANGED harmed
     \/ /\ Fault
        /\ \E content \in Torn("state", state) : store' = [store EXCEPT !["state"] = content]
        /\ Harm(IF owner = Nobody /\ store' # store THEN {"file"} ELSE {})
        /\ Goto(IF actor = Enforcer THEN "flag" ELSE "fail")
  /\ cont' = IF actor = Enforcer THEN "tick" ELSE cont
  /\ UNCHANGED <<inbox, result, tries, owner, have, saved, disabled, undocked,
                 actor, at, next, undoOk, crashes, flips>>

Refused(r) ==
  /\ Kind[r] # "waive"
  /\ \/ DockBlocks
     \/ Kind[r] = "code" /\ (disabled \/ Redeemed(r))
     \/ Kind[r] = "buffer" /\ BufferClaimed

(* The tick has nothing to do when PCTL shows the composed target and the  *)
(* reasons are those it last recorded.  The target it last recorded is not *)
(* part of the contents: a tick that finds it stale writes a transaction   *)
(* that changes nothing else.                                              *)
Settled == Enforce = store

Admit ==
  /\ pc = "admit"
  /\ IF actor = Enforcer
     THEN Goto("begin") \/ (Settled /\ Goto("idle"))
     ELSE Goto(IF Refused(actor) THEN "fail" ELSE "begin")
  /\ next' = IF pc' = "begin" THEN Plan(actor) ELSE next
  /\ UNCHANGED <<inbox, result, tries, files, undocked, actor, at, cont, undoOk, history>>

(***************************************************************************)
(* recovery_begin: a journal that is already open is joined by its owner   *)
(* and refused to others; otherwise the ledger is compacted, the preimages *)
(* are written and meta.json last.                                         *)
(***************************************************************************)
DockEntry == actor = Enforcer /\ Enforced \in next["state"] \ store["state"]

(* The tick rolls back, whoever owns the journal, when entering the dock   *)
(* restriction fails; otherwise it gives up until the next tick.           *)
BeginRefused ==
  IF actor # Enforcer THEN Goto("fail") /\ UNCHANGED <<at, cont, undoOk>>
  ELSE IF DockEntry THEN Undo("tick")
  ELSE Goto("idle") /\ UNCHANGED <<at, cont, undoOk>>

StartBody ==
  /\ Goto("body")
  /\ at' = IF actor = Enforcer /\ next["pctl"] = store["pctl"] THEN 2 ELSE 1
  /\ UNCHANGED <<cont, undoOk>>

(* The files have lost something since the journal was opened: who takes   *)
(* it up again, instead of rolling it back, will make the loss final.      *)
Drifted == \E i \in Item \ {"pctl"} : ~(saved[i] \subseteq store[i] \cup {Enforced, Pending})

Begin ==
  /\ pc = "begin"
  /\ \/ /\ NoFault
        /\ IF owner = Nobody THEN Goto("compact") /\ UNCHANGED <<at, cont, undoOk>>
           ELSE IF owner = actor THEN StartBody
           ELSE BeginRefused
     \/ DockEntry /\ Fault /\ Undo("tick")     \* PCTL could not be read
  /\ Harm(IF pc' = "body" /\ Drifted THEN {"join"} ELSE {})
  /\ UNCHANGED <<inbox, result, tries, files, undocked, actor, next, crashes, flips>>

Compact ==
  /\ pc = "compact"
  /\ \/ /\ store' = [store EXCEPT !["ledger"] = @ \ {Old}]
        /\ next' = [next EXCEPT !["ledger"] = @ \ {Old}]
        /\ Goto("open") /\ NoFault
        /\ UNCHANGED <<harmed, at, cont, undoOk>>
     \/ /\ Old \in store["ledger"] /\ Fault
        /\ \E content \in Torn("ledger", {}) : store' = [store EXCEPT !["ledger"] = content]
        /\ Harm(IF store' # store THEN {"file"} ELSE {})
        /\ BeginRefused /\ UNCHANGED next
  /\ UNCHANGED <<inbox, result, tries, owner, have, saved, disabled, undocked,
                 actor, crashes, flips>>

Open ==
  /\ pc = "open"
  /\ \/ /\ owner' = actor /\ have' = Item /\ saved' = store
        /\ StartBody /\ NoFault
     \/ Fault /\ BeginRefused /\ UNCHANGED <<owner, have, saved>>
  /\ UNCHANGED <<inbox, result, tries, store, disabled, undocked,
                 actor, next, crashes, flips, harmed>>

(***************************************************************************)
(* The body.  A failed step rolls back; a tick's rollback ends the tick, a *)
(* request's goes on to an error answer, except that a success answer that *)
(* cannot be written leaves no answer at all.                              *)
(***************************************************************************)
Step == Body(actor)[at]

(* Mutant: a request leaves its journal.                                   *)
FinishKeepsJournal ==
  IF actor \in Requests THEN Goto("retire") /\ UNCHANGED <<at, cont>>
  ELSE Clear("commit") /\ UNCHANGED at

(* Confirmed: the journal is cleared.  Unconfirmed: it stays open.         *)
Finish ==
  IF actor = Enforcer /\ Pending \in next["state"]
  THEN Goto("idle") /\ UNCHANGED <<at, cont>>
  ELSE Clear("commit") /\ UNCHANGED at

Advance ==
  IF at = Len(Body(actor)) THEN Finish
  ELSE pc' = pc /\ at' = at + 1 /\ UNCHANGED cont

(* Mutant: a failed step clears the journal instead of rolling it back.    *)
AbortClears(c) == Clear(IF actor = Enforcer THEN "tick" ELSE c) /\ UNCHANGED <<at, undoOk>>

Abort(c) == Undo(IF actor = Enforcer THEN "tick" ELSE c)

(* A write of the body fails.  offline_code then removes the success       *)
(* answer it wrote before, and does not look whether that failed too.      *)
Withdraw ==
  LET said == \E k \in 1 .. at - 1 : Body(actor)[k] = "result" IN
  \/ /\ Fault /\ UNCHANGED harmed
     /\ result' = IF said THEN [result EXCEPT ![actor] = "none"] ELSE result
  \/ /\ said /\ faults + 1 < MaxFaults /\ faults' = faults + 2
     /\ UNCHANGED result /\ Harm({"answer"})

BodyWrite ==
  /\ pc = "body" /\ Written(Step) \in Item
  /\ \/ /\ store' = [store EXCEPT ![Written(Step)] = Content(Step)]
        /\ Advance /\ NoFault /\ UNCHANGED <<result, undoOk, harmed>>
     \/ /\ Withdraw
        /\ \E content \in Torn(Written(Step), Content(Step)) :
             store' = [store EXCEPT ![Written(Step)] = content]
        /\ Abort("fail")
  /\ UNCHANGED <<inbox, tries, owner, have, saved, disabled, undocked,
                 actor, next, crashes, flips>>

(* The read-back.  A tick that reads other settings waits for a            *)
(* confirmation with its journal open; a failed read rolls back.           *)
BodyObserve ==
  /\ pc = "body" /\ Step = "observe"
  /\ \/ /\ next' = [next EXCEPT !["state"] = @ \ {Pending}]
        /\ Advance /\ NoFault /\ UNCHANGED undoOk
     \/ /\ actor = Enforcer /\ Fault
        /\ next' = [next EXCEPT !["state"] = @ \cup {Pending}]
        /\ Advance /\ UNCHANGED undoOk
     \/ Fault /\ Abort("fail") /\ UNCHANGED next
  /\ UNCHANGED <<inbox, result, tries, files, undocked, actor, crashes, flips, harmed>>

BodyResult ==
  /\ pc = "body" /\ Step = "result"
  /\ \/ /\ result' = [result EXCEPT ![actor] = "ok"]
        /\ Advance /\ NoFault /\ UNCHANGED undoOk
     \/ /\ Fault
        /\ \E answer \in {result[actor], "none"} : result' = [result EXCEPT ![actor] = answer]
        /\ Abort("silent")
  /\ UNCHANGED <<inbox, tries, files, undocked, actor, next, crashes, flips, harmed>>

(***************************************************************************)
(* finish_with_error: roll back a journal of this request that is still    *)
(* open, then answer.                                                      *)
(***************************************************************************)
(* Mutant: the error path rolls back whatever journal is open.             *)
FailUndoesAny ==
  /\ pc = "fail" /\ Undo("report")
  /\ UNCHANGED <<inbox, result, tries, files, undocked, actor, next, history>>

Fail ==
  /\ pc = "fail"
  /\ IF owner = actor THEN Undo("report") ELSE Goto("report") /\ UNCHANGED <<at, undoOk, cont>>
  /\ UNCHANGED <<inbox, result, tries, files, undocked, actor, next, history>>

Report ==
  /\ pc = "report"
  /\ \/ result' = [result EXCEPT ![actor] = "error"] /\ NoFault
     \/ /\ Fault
        /\ \E answer \in {result[actor], "none"} : result' = [result EXCEPT ![actor] = answer]
  /\ Goto("retire")
  /\ UNCHANGED <<inbox, tries, files, undocked, actor, at, next, cont, undoOk,
                 crashes, flips, harmed>>

Retire ==            \* a rename that fails leaves the file in processing/
  /\ pc = "retire"
  /\ \/ inbox' = [inbox EXCEPT ![actor] = "done"] /\ NoFault
     \/ Fault /\ UNCHANGED inbox
  /\ Goto("idle") /\ actor' = Enforcer
  /\ UNCHANGED <<result, tries, files, undocked, at, next, cont, undoOk,
                 crashes, flips, harmed>>

(***************************************************************************)
(* The enforcement tick.  It runs after the inbox was drained; a request   *)
(* that arrives while it runs waits, as one that arrives after it does.    *)
(***************************************************************************)
Tick ==
  /\ pc = "idle" /\ \A r \in Requests : inbox[r] # "pending"
  /\ ~disabled /\ Pending \notin store["state"]
  /\ actor' = Enforcer /\ Goto("sample")
  /\ UNCHANGED <<inbox, result, tries, files, undocked, at, next, cont, undoOk, history>>

(* The branch that disables the service when a confirmation is pending     *)
(* without its journal is not taken: PendingHasJournal.                    *)
TickPending ==
  /\ pc = "idle" /\ \A r \in Requests : inbox[r] # "pending"
  /\ ~disabled /\ Pending \in store["state"] /\ owner = Enforcer
  /\ actor' = Enforcer

(* Mutant: the confirmation clears the journal and the mark stays.         *)
TickConfirmForgets ==
  /\ TickPending
  /\ Clear("confirm") /\ NoFault
  /\ UNCHANGED <<inbox, result, tries, store, owner, have, saved, disabled, undocked,
                 at, next, undoOk, crashes, flips, harmed>>

TickConfirm ==
  /\ TickPending
  /\ \/ /\ store' = [store EXCEPT !["state"] = @ \ {Pending}]
        /\ Clear("confirm") /\ NoFault
     \/ /\ Fault
        /\ \E content \in Torn("state", {}) : store' = [store EXCEPT !["state"] = content]
        /\ Goto("flag") /\ cont' = "tick"
  /\ UNCHANGED <<inbox, result, tries, owner, have, saved, disabled, undocked,
                 at, next, undoOk, crashes, flips, harmed>>

TickTimeout ==
  /\ TickPending
  /\ Undo("tick")
  /\ UNCHANGED <<inbox, result, tries, files, undocked, next, history>>

-----------------------------------------------------------------------------
Environment == Flip \/ ParentResume \/ Crash \/ \E r \in Requests : Submit(r)

Rollback == UndoRestore \/ UndoDamaged \/ UndoFault \/ UndoNothing
Handler  == \/ Gate \/ Sample \/ Admit \/ Begin \/ Compact \/ Open
            \/ BodyWrite \/ BodyObserve \/ BodyResult \/ Fail \/ Report \/ Retire
Ticking  == Tick \/ TickConfirm \/ TickTimeout
Service  == \/ Boot \/ Requeue \/ Rollback \/ ClearDone \/ ClearFault \/ Flag
            \/ Handler \/ Ticking \/ \E r \in Requests : Take(r)

Next == Environment \/ Service
Spec == Init /\ [][Next]_vars

(* The worker's loop never stops while the console has power.              *)
FairSpec == Spec /\ WF_vars(Service)

-----------------------------------------------------------------------------
Contents == [Item -> SUBSET Fact]
Label    == {"boot", "undo", "clear", "flag", "requeue", "idle", "gate", "sample", "admit",
             "begin", "compact", "open", "body", "fail", "report", "retire"}
Return   == {"boot", "sample", "fail", "report", "silent", "tick", "commit", "confirm"}

TypeOK ==
  /\ inbox \in [Requests -> {"none", "pending", "processing", "done"}]
  /\ result \in [Requests -> {"none", "ok", "error"}]
  /\ tries \in [Requests -> Nat]
  /\ store \in Contents /\ saved \in Contents /\ next \in Contents
  /\ owner \in Actor \cup {Nobody} /\ have \in SUBSET Item
  /\ disabled \in BOOLEAN /\ undocked \in BOOLEAN /\ undoOk \in BOOLEAN
  /\ pc \in Label /\ actor \in Actor /\ at \in 1 .. 7 /\ cont \in Return
  /\ crashes \in 0 .. MaxCrashes /\ faults \in 0 .. MaxFaults /\ flips \in 0 .. MaxFlips
  /\ harmed \in SUBSET {"file", "undo", "join", "clear", "answer"}

(* What the next start-up would find once it has resolved the journal.     *)
View == IF owner = Nobody THEN store ELSE saved

Intact == harmed \cap {"file", "undo", "join"} = {}

(***************************************************************************)
(* Properties.                                                             *)
(***************************************************************************)
(* Whatever is interrupted, a grant is in the rules and in the day's       *)
(* summary or in neither, and the replay ledger and the redemption history *)
(* hold exactly the offline codes among them: recovery_rollback undoes a   *)
(* transaction's writes all together (sysmodule_storage.c).                *)
WholeGrants ==
  Intact => /\ Grants(View["rules"]) = Grants(View["state"])
            /\ Grants(View["ledger"]) = Grants(View["redeemed"])
            /\ Grants(View["ledger"]) = {e \in Grants(View["rules"]) : Kind[e[1]] = "code"}

(* The implementation keeps one trustworthy book of grants: a code is      *)
(* redeemed once, the buffer is claimed once a day, a grant once entered   *)
(* is never struck out (process_offline_code, process_claim_daily_buffer). *)
Book == INSTANCE GrantBook WITH book <- Grants(View["rules"]), trusted <- Intact
GrantsAreBooked == Book!Spec

(* A request writes only under a journal of its own and rolls back or      *)
(* clears only its own journal, a parent's recovery request excepted       *)
(* (process_request_text, finish_with_error).                              *)
OwnJournalOnly ==
  /\ pc = "body" => owner = actor
  /\ pc \in {"undo", "clear"} /\ actor \in Requests /\ cont # "sample" => owner \in {Nobody, actor}

(* While nothing runs, a target waiting for its confirmation still has the *)
(* journal to go back with, and it is the tick's, whatever was interrupted *)
(* or failed (ptc_sysmodule_enforce_request).                              *)
PendingHasJournal ==
  pc = "idle" /\ Pending \in store["state"] => owner = Enforcer

(* An archived success answer is true: its grant is in the book.  Short of *)
(* a clearing that failed, of a fault while recovering from a crash, and   *)
(* of an answer that a code which is rolled back could not take back.      *)
OkIsGranted ==
  Intact /\ harmed \cap {"clear", "answer"} = {} /\ (crashes = 0 \/ faults = 0)
    => \A r \in Requests : inbox[r] = "done" /\ result[r] = "ok" =>
         IF Kind[r] = "waive" THEN Waived \in View["state"]
                              ELSE \E e \in Grants(View["rules"]) : e[1] = r

(* While the service has not been restarted, an archived request without a *)
(* success answer has granted nothing and consumed nothing.                *)
FailedIsUnconsumed ==
  Intact /\ "clear" \notin harmed /\ crashes = 0
    => \A r \in Requests : inbox[r] = "done" /\ result[r] # "ok" =>
         \A i \in Item : \A e \in Grants(View[i]) : e[1] # r

(* Start-up never hands over to the scheduler with an unresolved journal,  *)
(* unless the service is disabled or a call failed once more               *)
(* (ptc_sysmodule_bootstrap_setup).                                        *)
BootResolvesJournal ==
  pc = "requeue" /\ faults = 0 => owner = Nobody \/ disabled

(* A disabled service grants nothing: no step adds to the book while       *)
(* disable.flag is there.                                                  *)
DisabledGrantsNothing ==
  [][disabled => Grants(View["rules"])' \subseteq Grants(View["rules"])]_vars

(* Every request file is eventually archived and the worker comes back to  *)
(* its loop, however often it was interrupted; only a call that failed can *)
(* leave a file in processing/ (ptc_sysmodule_process_all).                *)
InboxDrains ==
  \A r \in Requests :
    inbox[r] = "pending" ~> (pc = "idle" /\ inbox[r] \in {"done"} \cup (IF faults > 0 THEN {"processing"} ELSE {}))

(* A target waiting for its confirmation is confirmed, rolled back or      *)
(* given up with the service disabled: the 30 s deadline always ends it.   *)
ConfirmationEnds ==
  Pending \in store["state"] ~> (Pending \notin store["state"] \/ disabled)

(* What the documents claim and the code does not keep.                    *)
(* PROTOCOL.md: "A durable result commits the transaction": no rollback    *)
(* undoes a request whose success answer is on the card.                   *)
DurableResultCommits ==
  ~(pc = "undo" /\ cont = "boot" /\ owner \in Requests /\ result[owner] = "ok")

(* PROTOCOL.md: "Failure indicates the code was unconsumed".               *)
FailureMeansUnconsumed ==
  \A r \in Requests : Kind[r] = "code" /\ inbox[r] = "done" /\ result[r] = "error"
    => \A e \in Grants(View["ledger"]) : e[1] # r

(* PROTOCOL.md: "Transactions are isolated by meta.json.request_id": the   *)
(* background owner never rolls back the journal of a request.             *)
TickLeavesForeignJournal ==
  ~(pc = "undo" /\ cont = "tick" /\ owner \in Requests)

(* PROTOCOL.md: the buffer can be claimed only "where buffer has not been  *)
(* claimed today".                                                         *)
BufferOncePerDay ==
  \A e, f \in Grants(store["rules"]) :
    Kind[e[1]] = "buffer" /\ Kind[f[1]] = "buffer" => e = f

=============================================================================
