------------------------------ MODULE Handover ------------------------------
(***************************************************************************)
(* Loading a new version of the service without a reboot.  The application *)
(* (the launcher) asks the running service for quiet, takes its boot flag  *)
(* away, waits until it has left, puts the flag back and starts the        *)
(* installed version.  A journal, replaced by way of a temporary file,     *)
(* says how to put the flag back after an interruption.                    *)
(*                                                                         *)
(* Each call that changes a file is one step of the launcher or of a       *)
(* service; the application may be killed and the power lost between any   *)
(* two of them, and in the middle of a write.                              *)
(***************************************************************************)
EXTENDS Integers, FiniteSets

CONSTANTS
  Samples,       \* absent samples that prove the source gone, 3
  MaxAttempts,   \* launches, 2
  MaxQuiet,      \* ticks a service stays quiet, 120
  MaxTxns,       \* bound: hand-offs begun
  MaxProcesses,  \* bound: service processes started
  MaxFaults,     \* bound: calls that fail
  MaxCuts        \* bound: power losses and killed applications

ASSUME LimitsAssumption == /\ Samples \in Nat \ {0} /\ MaxAttempts \in Nat \ {0}
                           /\ MaxQuiet \in Nat \ {0}
                           /\ MaxProcesses \in Nat \ {0}
                           /\ MaxTxns \in Nat /\ MaxFaults \in Nat /\ MaxCuts \in Nat

VARIABLES
  boot,          \* where the boot flag is: "flag", or "backup"
  journal, temp, \* reload.json and reload.json.tmp
  intent, draft, \* the transaction in intent.json, 0 if none; is there intent.json.tmp
  ready,         \* transaction and service in ready.json
  runtime,       \* the service in runtime-ready.json
  stage,         \* what each service process does
  seen, quiet,   \* the transaction it is about to answer; its quiesce_ticks
  pc, task,      \* the launcher's next step, and on whose behalf
  phase,         \* PtcHotReloadController.phase
  mem,           \* its .journal
  disabled,      \* its .boot_disabled
  absent, attempts, ok,
  overtaken,     \* history: the application was opened while a service was leaving
  born, txns, faults, cuts

record   == <<journal, temp>>
letters  == <<intent, draft, ready>>
service  == <<stage, seen, quiet>>
control  == <<pc, task, phase>>
memory   == <<mem, disabled, absent, attempts, ok>>
counts   == <<born, txns, cuts>>
vars     == <<boot, record, letters, runtime, service, control, memory, overtaken, counts, faults>>

Fault   == faults < MaxFaults /\ faults' = faults + 1
NoFault == UNCHANGED faults

Pids     == 1..MaxProcesses
NoRecord == [txn |-> 0, phase |-> "none", source |-> 0, target |-> 0]
Torn     == [NoRecord EXCEPT !.phase = "torn"]
NoAck    == <<0, 0>>

Running == {p \in Pids : stage[p] \notin {"none", "gone"}}
Old(p)  == p = 1              \* the release that ran before the update; others run the installed one
Leaving == {p \in Pids : stage[p] \in {"leaving", "tidying", "exiting"}}

(* A journal that read_journal accepts can be made of what is on the card. *)
Readable == IF temp \in {NoRecord, Torn} THEN journal # NoRecord
            ELSE journal = NoRecord \/ journal.txn = temp.txn

-----------------------------------------------------------------------------
Init ==
  /\ boot = "flag" /\ journal = NoRecord /\ temp = NoRecord
  /\ intent = 0 /\ draft = FALSE /\ ready = NoAck /\ runtime = 1
  /\ stage = [p \in Pids |-> IF p = 1 THEN "tick" ELSE "none"]
  /\ seen = [p \in Pids |-> 0] /\ quiet = [p \in Pids |-> 0]
  /\ pc = "off" /\ task = "none" /\ phase = "idle" /\ mem = NoRecord
  /\ disabled = FALSE /\ absent = 0 /\ attempts = 0 /\ ok = TRUE
  /\ overtaken = FALSE /\ born = 1 /\ txns = 0 /\ faults = 0 /\ cuts = 0

(* A call that changes the card and commits: a failure may be the call's,  *)
(* which then did nothing, or the commit's, after the change.              *)
Durably(change, keep, next, failed) ==
  \/ NoFault /\ change /\ next
  \/ Fault /\ (change \/ keep) /\ failed

(* A call whose failure the code ignores.                                  *)
Tried(change, keep) == (change /\ NoFault) \/ (keep /\ Fault)

Goto(step)      == pc' = step /\ UNCHANGED <<task, phase>>
Pause(newPhase) == pc' = "rest" /\ task' = "none" /\ phase' = newPhase

Off ==               \* the application's memory is gone
  /\ pc' = "off" /\ task' = "none" /\ phase' = "idle" /\ mem' = NoRecord
  /\ disabled' = FALSE /\ absent' = 0 /\ attempts' = 0 /\ ok' = TRUE

(* fail(): give the flag back if it was taken, clear the letters, and drop *)
(* the journal only if the source cannot have begun to leave.              *)
Fails(taken) ==
  /\ disabled' = taken /\ ok' = TRUE
  /\ pc' = IF taken THEN "read" ELSE "clear"
  /\ task' = "fail"

GiveUp == /\ Fails(disabled) /\ UNCHANGED <<phase, mem, absent, attempts>>

(***************************************************************************)
(* What follows a restored flag and a failed attempt to restore it.        *)
(***************************************************************************)
Restored ==
  /\ disabled' = FALSE /\ UNCHANGED <<mem, absent, attempts, ok>>
  /\ \/ task # "exit" /\ Goto("clear")
     \/ task = "exit" /\ phase = "exit" /\ Goto("clear")

RestoredAndOff == task = "exit" /\ phase # "exit" /\ Off

RestoreFailed ==
  \/ task = "tick" /\ GiveUp
  \/ task = "recover" /\ Pause("failed") /\ UNCHANGED memory
  \/ /\ task = "fail" \/ (task = "exit" /\ phase = "exit")
     /\ ok' = FALSE /\ Goto("clear") /\ UNCHANGED <<mem, disabled, absent, attempts>>
  \/ task = "exit" /\ phase # "exit" /\ Off

(* Mutant: a target that is not ready in time is started again, there or not. *)
MayLaunchAnyway(made) == made < MaxAttempts
MayLaunch(made) == Running = {} /\ made < MaxAttempts

(* launch_target returned false: once more from the tick that saw the      *)
(* source gone, if there is no process and an attempt is left.             *)
LaunchFailed(made) ==
  IF task = "tick" /\ MayLaunch(made)
  THEN Goto("launch") /\ attempts' = made /\ UNCHANGED <<mem, disabled, absent, ok>>
  ELSE Fails(FALSE) /\ attempts' = made /\ UNCHANGED <<phase, mem, absent>>

(***************************************************************************)
(* write_journal, for the phase in mem: temporary file, removal of the old *)
(* record, renaming.                                                       *)
(***************************************************************************)
Written ==
  \/ mem.phase = "prepared" /\ Goto("intent") /\ UNCHANGED memory
  \/ /\ mem.phase = "boot_disabled" /\ Pause("exit")
     /\ disabled' = TRUE /\ UNCHANGED <<mem, absent, attempts, ok>>
  \/ mem.phase = "boot_restored" /\ (Restored \/ RestoredAndOff)
  \/ mem.phase = "target_launched" /\ Pause("ready") /\ UNCHANGED memory

WriteFailed ==
  \/ mem.phase = "prepared" /\ GiveUp
  \/ mem.phase = "boot_disabled" /\ Goto("revert") /\ UNCHANGED memory
  \/ mem.phase = "boot_restored" /\ RestoreFailed
  \/ mem.phase = "target_launched" /\ LaunchFailed(attempts)

WriteTemp ==
  /\ pc = "write"
  /\ \/ temp # NoRecord /\ WriteFailed /\ NoFault /\ UNCHANGED temp
     \/ temp = NoRecord /\ Durably(temp' = mem, temp' \in {NoRecord, Torn},
                                   Goto("swap") /\ UNCHANGED memory, WriteFailed)
  /\ UNCHANGED <<boot, journal, letters, runtime, service, overtaken, counts>>

(* Mutant: when the renaming fails the temporary file is cleaned up.       *)
SwapCleansUp ==
  /\ pc = "swap"
  /\ \/ /\ journal # NoRecord
        /\ Durably(journal' = NoRecord, UNCHANGED journal,
                   UNCHANGED <<control, memory>>, WriteFailed)
        /\ UNCHANGED temp
     \/ /\ journal = NoRecord
        /\ Durably(journal' = temp /\ temp' = NoRecord, temp' = NoRecord /\ UNCHANGED journal,
                   Written, WriteFailed)
  /\ UNCHANGED <<boot, letters, runtime, service, overtaken, counts>>

Swap ==
  /\ pc = "swap"
  /\ \/ /\ journal # NoRecord
        /\ Durably(journal' = NoRecord, UNCHANGED journal,
                   UNCHANGED <<control, memory>>, WriteFailed)
        /\ UNCHANGED temp
     \/ /\ journal = NoRecord
        /\ Durably(journal' = temp /\ temp' = NoRecord, UNCHANGED record, Written, WriteFailed)
  /\ UNCHANGED <<boot, letters, runtime, service, overtaken, counts>>

(***************************************************************************)
(* read_journal: a complete temporary file of the same transaction is the  *)
(* newer record; an incomplete one is dropped if there is a record.        *)
(***************************************************************************)
Accept(r) == mem' = r /\ Goto("restore") /\ UNCHANGED <<disabled, absent, attempts, ok>>

Read ==
  /\ pc = "read"
  /\ \/ Readable /\ temp = NoRecord /\ Accept(journal) /\ NoFault /\ UNCHANGED record
     \/ /\ Readable /\ temp = Torn
        /\ Durably(temp' = NoRecord, UNCHANGED temp, Accept(journal), RestoreFailed)
        /\ UNCHANGED journal
     \/ /\ Readable /\ temp \notin {NoRecord, Torn} /\ journal # NoRecord
        /\ Durably(journal' = NoRecord, UNCHANGED journal,
                   UNCHANGED <<control, memory>>, RestoreFailed)
        /\ UNCHANGED temp
     \/ /\ Readable /\ temp \notin {NoRecord, Torn} /\ journal = NoRecord
        /\ Durably(journal' = temp /\ temp' = NoRecord, UNCHANGED record, Accept(temp), RestoreFailed)
     \/ ~Readable /\ RestoreFailed /\ NoFault /\ UNCHANGED record
  /\ UNCHANGED <<boot, letters, runtime, service, overtaken, counts>>

(* restore_boot, up to its write_journal.                                  *)
RestoreBoot ==
  /\ pc = "restore"
  /\ LET Record == /\ mem' = [mem EXCEPT !.phase = "boot_restored"] /\ Goto("write")
                   /\ UNCHANGED <<disabled, absent, attempts, ok>>
     IN  \/ boot = "backup" /\ Durably(boot' = "flag", UNCHANGED boot, Record, RestoreFailed)
         \/ boot = "flag" /\ Record /\ NoFault /\ UNCHANGED boot
  /\ UNCHANGED <<record, letters, runtime, service, overtaken, counts>>

(* clear_handoff: what fails is ignored.                                   *)
ClearIntent ==
  /\ pc = "clear" /\ Goto("clear2")
  /\ Tried(intent' = 0, UNCHANGED intent)
  /\ UNCHANGED <<boot, record, draft, ready, runtime, service, memory, overtaken, counts>>

(* Mutant: a hand-off that fails always takes its journal with it.         *)
SourceStaysAlways == TRUE
SourceStays == phase \in {"idle", "ack"}

ClearReady ==
  /\ pc = "clear2"
  /\ Tried(ready' = NoAck, UNCHANGED ready)
  /\ \/ task = "tick" /\ Goto("launch") /\ UNCHANGED memory
     \/ task = "recover" /\ Goto("look") /\ UNCHANGED memory
     \/ /\ task \in {"fail", "exit"} /\ ok
        /\ SourceStays /\ Goto("finish") /\ UNCHANGED memory
     \/ task = "fail" /\ ~(ok /\ SourceStays) /\ Pause("failed") /\ UNCHANGED memory
     \/ task = "exit" /\ ~(ok /\ SourceStays) /\ Off
  /\ UNCHANGED <<boot, record, intent, draft, runtime, service, overtaken, counts>>

(* finish_journal removes both files, the second also when the first could *)
(* not be removed, and neither while the flag is put aside.                *)
Finish ==
  /\ pc = "finish" /\ Goto("finish2")
  /\ IF boot = "backup"
     THEN ok' = FALSE /\ NoFault /\ UNCHANGED journal
     ELSE \/ journal' = NoRecord /\ NoFault /\ UNCHANGED ok
          \/ UNCHANGED journal /\ Fault /\ ok' = FALSE
  /\ UNCHANGED <<boot, temp, letters, runtime, service, mem, disabled, absent, attempts,
                 overtaken, counts>>

(* Mutant: the result of finish_journal is not looked at.                  *)
FinishedBlindly(fine) ==
  \/ task = "fail" /\ Pause("failed") /\ UNCHANGED memory
  \/ task = "exit" /\ Off
  \/ task = "ready" /\ Pause("done") /\ UNCHANGED memory
  \/ task = "recover" /\ Pause("idle") /\ UNCHANGED memory

Finished(fine) ==
  \/ task = "fail" /\ Pause("failed") /\ UNCHANGED memory
  \/ task = "exit" /\ Off
  \/ task = "ready" /\ fine /\ Pause("done") /\ UNCHANGED memory
  \/ task = "ready" /\ ~fine /\ GiveUp
  \/ task = "recover" /\ Pause(IF fine THEN "idle" ELSE "failed") /\ UNCHANGED memory

FinishTemp ==
  /\ pc = "finish2"
  /\ \/ /\ temp' = (IF boot = "backup" THEN temp ELSE NoRecord)
        /\ NoFault /\ Finished(ok)
     \/ UNCHANGED temp /\ Fault /\ Finished(FALSE)
  /\ UNCHANGED <<boot, journal, letters, runtime, service, overtaken, counts>>

-----------------------------------------------------------------------------
(***************************************************************************)
(* The launcher, step by step.                                             *)
(***************************************************************************)
(* Mutant: recovery looks for the journal itself only.                     *)
NothingLeftOfJournal == journal = NoRecord
NothingLeft == record = <<NoRecord, NoRecord>> /\ boot = "flag"

Open ==              \* recover_startup, and inspect when there is nothing to recover
  /\ pc = "off"
  /\ IF NothingLeft
     THEN Pause("idle")
     ELSE pc' = "read" /\ task' = "recover" /\ phase' = "idle"
  /\ UNCHANGED <<boot, record, letters, runtime, service, memory, overtaken, counts, faults>>

Begin ==             \* inspect and begin, when the parent asks for it
  /\ pc = "rest" /\ phase = "idle" /\ txns < MaxTxns
  /\ record = <<NoRecord, NoRecord>> /\ boot = "flag" /\ intent = 0 /\ ready = NoAck
  /\ \E p \in Running :
       /\ runtime = p /\ Old(p)
       /\ mem' = [txn |-> txns + 1, phase |-> "prepared", source |-> p, target |-> 0]
  /\ txns' = txns + 1 /\ pc' = "write" /\ task' = "begin"
  /\ UNCHANGED <<boot, record, letters, runtime, service, phase, disabled, absent, attempts, ok,
                 overtaken, born, cuts, faults>>

WriteIntent ==       \* write_atomic refuses while its own temporary file is there
  /\ pc = "intent"
  /\ \/ /\ ~draft /\ NoFault /\ Pause("ack")
        /\ intent' = mem.txn /\ UNCHANGED <<draft, memory>>
     \/ ~draft /\ Fault /\ GiveUp /\ draft' \in BOOLEAN /\ UNCHANGED intent
     \/ draft /\ NoFault /\ GiveUp /\ UNCHANGED <<intent, draft>>
  /\ UNCHANGED <<boot, record, ready, runtime, service, overtaken, counts>>

AckReady == ready = <<mem.txn, mem.source>>

TickAck ==
  /\ pc = "rest" /\ phase = "ack"
  /\ \/ AckReady /\ Goto("disable") /\ UNCHANGED memory
     \/ ~AckReady /\ GiveUp
  /\ UNCHANGED <<boot, record, letters, runtime, service, overtaken, counts, faults>>

(* confirm_ipc_closed: disable_boot.  If it fails after the renaming the   *)
(* source may have seen that the flag is gone.                             *)
DisableFailed(taken) == Fails(taken) /\ phase' = "exit" /\ UNCHANGED <<mem, absent, attempts>>

DisableBoot ==
  /\ pc = "disable" /\ boot = "flag" /\ journal.txn = mem.txn /\ journal.phase = "prepared"
  /\ \/ /\ NoFault /\ boot' = "backup" /\ Goto("write")
        /\ mem' = [mem EXCEPT !.phase = "boot_disabled"]
        /\ UNCHANGED <<disabled, absent, attempts, ok>>
     \/ \E b \in {"flag", "backup"} : Fault /\ boot' = b /\ DisableFailed(b = "backup")
  /\ UNCHANGED <<record, letters, runtime, service, overtaken, counts>>

Revert ==            \* the record of the change could not be written
  /\ pc = "revert"
  /\ \E b \in {"flag", "backup"} :
       /\ boot' = b /\ DisableFailed(b = "backup")
       /\ IF b = "flag" THEN NoFault ELSE Fault
  /\ UNCHANGED <<record, letters, runtime, service, overtaken, counts>>

TickExit ==
  /\ pc = "rest" /\ phase = "exit"
  /\ \/ /\ Running = {} /\ absent + 1 < Samples
        /\ absent' = absent + 1 /\ UNCHANGED <<control, mem, disabled, attempts, ok>>
     \/ /\ Running = {} /\ absent + 1 = Samples /\ absent' = 0
        /\ pc' = "restore" /\ task' = "tick" /\ ok' = TRUE
        /\ UNCHANGED <<phase, mem, disabled, attempts>>
  /\ UNCHANGED <<boot, record, letters, runtime, service, overtaken, counts, faults>>

(* A recovery that found nobody has its samples long before the limit.     *)
TickExitTimeout ==
  /\ pc = "rest" /\ phase = "exit" /\ disabled /\ (Running = {} => absent + 1 < Samples)
  /\ GiveUp
  /\ UNCHANGED <<boot, record, letters, runtime, service, overtaken, counts, faults>>

(* pmshellLaunchProgram starts a process whatever is running.              *)
Launch ==
  /\ pc = "launch" /\ born < MaxProcesses /\ runtime' = 0
  /\ \/ /\ NoFault /\ born' = born + 1
        /\ stage' = [stage EXCEPT ![born + 1] = "starting"]
        /\ mem' = [mem EXCEPT !.target = born + 1, !.phase = "target_launched"]
        /\ attempts' = attempts + 1 /\ Goto("write")
        /\ UNCHANGED <<disabled, absent, ok>>
     \/ Fault /\ LaunchFailed(attempts + 1) /\ UNCHANGED <<born, stage>>
  /\ UNCHANGED <<boot, record, letters, seen, quiet, overtaken, txns, cuts>>

TargetReady == mem.target \in Running /\ runtime = mem.target

(* Mutant: there is no time limit for a target that runs but is not ready. *)
TickReadyPatiently ==
  /\ pc = "rest" /\ phase = "ready"
  /\ \/ /\ TargetReady /\ pc' = "finish" /\ task' = "ready" /\ ok' = TRUE
        /\ UNCHANGED <<phase, mem, disabled, absent, attempts>>
     \/ /\ ~TargetReady /\ MayLaunch(attempts)
        /\ pc' = "launch" /\ task' = "ready" /\ UNCHANGED <<phase, memory>>
  /\ UNCHANGED <<boot, record, letters, runtime, service, overtaken, counts, faults>>

TickReady ==
  /\ pc = "rest" /\ phase = "ready"
  /\ \/ /\ TargetReady /\ pc' = "finish" /\ task' = "ready" /\ ok' = TRUE
        /\ UNCHANGED <<phase, mem, disabled, absent, attempts>>
     \/ /\ ~TargetReady /\ MayLaunch(attempts)
        /\ pc' = "launch" /\ task' = "ready" /\ UNCHANGED <<phase, memory>>
     \/ ~TargetReady /\ ~MayLaunch(attempts) /\ GiveUp
  /\ UNCHANGED <<boot, record, letters, runtime, service, overtaken, counts, faults>>

(* recover_startup, after the flag is back: who is running?                *)
(* Mutant: the recovery reports that there is no service and waits for the *)
(* next one.                                                               *)
MissingReported == Pause("failed") /\ UNCHANGED memory
Missing == Pause("exit") /\ UNCHANGED memory

Look ==
  /\ pc = "look"
  /\ \/ Running = {} /\ NoFault /\ Missing
     \/ Fault /\ Pause("failed") /\ UNCHANGED memory     \* pm:shell or the installed files are bad
     \/ \E p \in Running : NoFault /\
          LET isTarget == mem.target = p
              known    == runtime = p
              isSource == known /\ p = mem.source
              isLater  == known /\ mem.target = 0 /\ ~Old(p)
          IN  \/ isTarget /\ Pause("ready") /\ UNCHANGED memory
              \/ ~isTarget /\ isSource /\ Goto("finish") /\ UNCHANGED memory
              \/ /\ ~isTarget /\ ~isSource /\ isLater /\ Pause("ready")
                 /\ mem' = [mem EXCEPT !.target = p]
                 /\ UNCHANGED <<disabled, absent, attempts, ok>>
              \/ ~isTarget /\ ~isSource /\ ~isLater /\ Pause("failed") /\ UNCHANGED memory
  /\ overtaken' = (overtaken \/ mem.source \in Leaving)
  /\ UNCHANGED <<boot, record, letters, runtime, service, counts>>

(* ptc_hot_reload_exit, when the application is closed; during a hand-off  *)
(* that is one of the bounded interruptions.                               *)
Waiting == phase \in {"ack", "exit", "ready"}

Exit ==
  /\ pc = "rest"
  /\ IF Waiting THEN cuts < MaxCuts /\ cuts' = cuts + 1 ELSE UNCHANGED cuts
  /\ \/ /\ disabled \/ phase \in {"ack", "exit"}
        /\ pc' = (IF disabled THEN "read" ELSE "clear") /\ task' = "exit" /\ ok' = TRUE
        /\ UNCHANGED <<phase, mem, disabled, absent, attempts>>
     \/ ~disabled /\ phase \notin {"ack", "exit"} /\ Off
  /\ UNCHANGED <<boot, record, letters, runtime, service, overtaken, born, txns, faults>>

-----------------------------------------------------------------------------
(***************************************************************************)
(* A service: its start, and handoff_tick of its main loop.                *)
(***************************************************************************)
Moves(p, label) == stage' = [stage EXCEPT ![p] = label]

Start(p) ==          \* write_runtime_ready; an incomplete update ends the process before it
  /\ stage[p] = "starting"
  /\ \/ Moves(p, "tick") /\ Tried(runtime' = p, UNCHANGED runtime)
     \/ Moves(p, "gone") /\ Fault /\ UNCHANGED runtime
  /\ UNCHANGED <<boot, record, letters, seen, quiet, control, memory, overtaken, counts>>

ReadIntent(p) ==
  /\ stage[p] = "tick"
  /\ \/ /\ intent = 0 /\ quiet[p] # 0
        /\ quiet' = [quiet EXCEPT ![p] = 0] /\ UNCHANGED <<stage, seen>>
     \/ /\ intent # 0 /\ Moves(p, "acking")
        /\ seen' = [seen EXCEPT ![p] = intent] /\ UNCHANGED quiet
  /\ UNCHANGED <<boot, record, letters, runtime, control, memory, overtaken, counts, faults>>

WriteReady(p) ==
  /\ stage[p] = "acking" /\ Moves(p, "checking")
  /\ Tried(ready' = <<seen[p], p>>, UNCHANGED ready)
  /\ seen' = [seen EXCEPT ![p] = 0]
  /\ UNCHANGED <<boot, record, intent, draft, runtime, quiet, control, memory, overtaken, counts>>

QuietTooLong(p) == quiet[p] + 1 >= MaxQuiet

CheckFlag(p) ==
  /\ stage[p] = "checking"
  /\ \/ boot = "backup" /\ Moves(p, "leaving") /\ quiet' = [quiet EXCEPT ![p] = 0]
     \/ /\ boot = "flag" /\ ~QuietTooLong(p) /\ Moves(p, "tick")
        /\ quiet' = [quiet EXCEPT ![p] = IF @ < MaxQuiet THEN @ + 1 ELSE @]
     \/ /\ boot = "flag" /\ QuietTooLong(p) /\ Moves(p, "yielding")
        /\ quiet' = [quiet EXCEPT ![p] = 0]
  /\ UNCHANGED <<boot, record, letters, runtime, seen, control, memory, overtaken, counts, faults>>

RemoveIntent(p) ==
  /\ \/ stage[p] = "leaving" /\ Moves(p, "tidying")
     \/ stage[p] = "yielding" /\ Moves(p, "resuming")
  /\ Tried(intent' = 0, UNCHANGED intent)
  /\ UNCHANGED <<boot, record, draft, ready, runtime, seen, quiet, control, memory, overtaken, counts>>

RemoveReady(p) ==
  /\ \/ stage[p] = "tidying" /\ Moves(p, "exiting")
     \/ stage[p] = "resuming" /\ Moves(p, "tick")
  /\ Tried(ready' = NoAck, UNCHANGED ready)
  /\ UNCHANGED <<boot, record, intent, draft, runtime, seen, quiet, control, memory, overtaken, counts>>

Leave(p) ==
  /\ stage[p] = "exiting" /\ Moves(p, "gone")
  /\ UNCHANGED <<boot, record, letters, runtime, seen, quiet, control, memory, overtaken, counts, faults>>

-----------------------------------------------------------------------------
(***************************************************************************)
(* Interruptions.  A write that is under way may leave its temporary file  *)
(* behind, incomplete.  With the power back, boot2 starts the installed    *)
(* service if the flag is there.                                           *)
(***************************************************************************)
Interrupted ==
  /\ cuts < MaxCuts /\ cuts' = cuts + 1 /\ Off
  /\ temp' \in {temp} \cup (IF pc = "write" /\ temp = NoRecord THEN {Torn} ELSE {})
  /\ draft' \in {draft} \cup (IF pc = "intent" THEN {TRUE} ELSE {})
  /\ UNCHANGED <<boot, journal, intent, ready, runtime, overtaken, txns, faults>>

Kill == pc # "off" /\ Interrupted /\ UNCHANGED <<service, born>>

PowerLoss ==
  /\ Interrupted
  /\ LET ended == [p \in Pids |-> IF stage[p] = "none" THEN "none" ELSE "gone"]
     IN  \/ /\ boot = "flag" /\ born < MaxProcesses /\ born' = born + 1
            /\ stage' = [ended EXCEPT ![born + 1] = "starting"]
         \/ boot = "backup" /\ UNCHANGED born /\ stage' = ended
  /\ seen' = [p \in Pids |-> 0] /\ quiet' = [p \in Pids |-> 0]

Service(p) ==
  \/ Start(p) \/ ReadIntent(p) \/ WriteReady(p) \/ CheckFlag(p)
  \/ RemoveIntent(p) \/ RemoveReady(p) \/ Leave(p)

Launcher ==
  \/ WriteTemp \/ Swap \/ Read \/ RestoreBoot \/ ClearIntent \/ ClearReady \/ Finish \/ FinishTemp
  \/ WriteIntent \/ TickAck \/ DisableBoot \/ Revert \/ TickExit \/ TickExitTimeout
  \/ Launch \/ TickReady \/ Look

Next == \/ Launcher \/ Open \/ Begin \/ Exit \/ Kill \/ PowerLoss
        \/ \E p \in Pids : Service(p)

Spec == Init /\ [][Next]_vars

(***************************************************************************)
(* The launcher is polled in every frame and the service's loop runs.  For *)
(* what a restart of the application repairs, the parent is taken to close *)
(* it after a failure and to open it again; how often he interrupts a      *)
(* hand-off is bounded by MaxCuts.                                         *)
(***************************************************************************)
Fairness == WF_vars(Launcher) /\ WF_vars(\E p \in Pids : Service(p))
Parent   == WF_vars(Open) /\ WF_vars(Exit /\ phase = "failed")

LiveSpec == Spec /\ Fairness /\ Parent

-----------------------------------------------------------------------------
Steps == {"off", "rest", "write", "swap", "read", "restore", "clear", "clear2", "finish", "finish2",
          "intent", "disable", "revert", "launch", "look"}
Stages == {"none", "starting", "tick", "acking", "checking", "leaving", "tidying", "exiting",
           "yielding", "resuming", "gone"}
Records == [txn : 0..MaxTxns,
            phase : {"none", "prepared", "boot_disabled", "boot_restored", "target_launched"},
            source : Pids \cup {0}, target : Pids \cup {0}]

(* Type invariant.  No more launches than launch_attempts allows.          *)
TypeOK ==
  /\ boot \in {"flag", "backup"} /\ journal \in Records /\ temp \in Records \cup {Torn}
  /\ intent \in 0..MaxTxns /\ draft \in BOOLEAN /\ ready \in (0..MaxTxns) \X (Pids \cup {0})
  /\ runtime \in Pids \cup {0} /\ born \in Pids
  /\ stage \in [Pids -> Stages] /\ seen \in [Pids -> 0..MaxTxns] /\ quiet \in [Pids -> 0..(MaxQuiet - 1)]
  /\ pc \in Steps /\ task \in {"none", "begin", "recover", "tick", "fail", "exit", "ready"}
  /\ phase \in {"idle", "ack", "exit", "ready", "done", "failed"} /\ mem \in Records
  /\ disabled \in BOOLEAN /\ ok \in BOOLEAN /\ overtaken \in BOOLEAN
  /\ absent \in 0..(Samples - 1) /\ attempts \in 0..MaxAttempts
  /\ txns \in 0..MaxTxns /\ faults \in 0..MaxFaults /\ cuts \in 0..MaxCuts

(* There are never two services, whatever was interrupted or came too late *)
(* on either side (launch_target behind process_absent).                   *)
OneService == \A p, q \in Running : p = q

(* Whenever the boot flag is put aside, the files of the journal are such  *)
(* that recover_startup can put it back: write_journal and read_journal    *)
(* replace one record by another without ever leaving none.                *)
DisabledIsRecoverable == boot = "backup" => Readable

(* An application that reports no hand-off, or a successful one, has left  *)
(* nothing of it on the card, and after a success the new version runs and *)
(* has told its identity.                                                  *)
Settled ==
  pc = "rest" /\ phase \in {"idle", "done"} =>
    /\ NothingLeft
    /\ phase = "done" => \E p \in Running : ~Old(p) /\ runtime = p

(* A service that has seen its flag gone and is on its way out is one the  *)
(* journal still speaks of, so that a later start of the application finds *)
(* that a service is missing.  The exception is a recovery that found the  *)
(* source still running when it looked.                                    *)
LeavingIsRecorded == Leaving # {} /\ ~overtaken => Readable

(* Every hand-off and every recovery comes to an end.                      *)
HandoffEnds ==
  pc \notin {"off", "rest"} \/ phase \in {"ack", "exit", "ready"}
    ~> pc \in {"off", "rest"} /\ phase \in {"idle", "done", "failed"}

(* The boot flag comes back.                                               *)
FlagReturns == boot = "backup" ~> boot = "flag"

(* When no service runs and the journal speaks of it, one is running again *)
(* after the application was opened.                                       *)
ServiceReturns == Running = {} /\ Readable /\ ~overtaken ~> Running # {}
=============================================================================
