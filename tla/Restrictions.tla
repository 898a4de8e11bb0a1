---------------------------- MODULE Restrictions ----------------------------
(***************************************************************************)
(* Three reasons block the console: bedtime, the rest of the eyes and the  *)
(* television policy.  PCTL has one setting for each day, so the service   *)
(* composes them, and keeps for every reason the settings it found.  A     *)
(* tick (ptc_sysmodule_enforce_request without a request) or a request of  *)
(* the parent is a job of several steps, each one write of the card or of  *)
(* PCTL; the power may go between two of them.                             *)
(*                                                                         *)
(* The clock and the mode of the console stand still during a job.  The    *)
(* day's allowance is one setting, "open".                                 *)
(***************************************************************************)
EXTENDS Naturals

CONSTANTS
  None,
  Last,        \* the last period of the time line
  Day,         \* the day of each period of the time line
  Window,      \* the bedtime window that covers it, by its first period, or None
  MaxFaults,   \* bound: calls that fail, and power cuts
  MaxMoves     \* bound: requests, rests that begin, changes of the mode

Period == 0..Last
Setting == {"open", "blocked"}

ASSUME TimeLineAssumption ==
  /\ Last \in Nat /\ Day \in [Period -> Nat] /\ Window \in [Period -> Period \cup {None}] /\ None \notin Period
  /\ \A p, q \in Period : p <= q => Day[p] <= Day[q]
  /\ \A p \in Period : Window[p] # None => Window[p] \in 0..p
  /\ \A p, q \in Period : Window[q] # None /\ Window[q] <= p /\ p <= q => Window[p] = Window[q]
  /\ \A p, q \in Period : Window[p] # None /\ Window[q] # None /\ Window[p] # Window[q] =>
       Day[Window[p]] # Day[Window[q]]

(* What the service keeps: the settings as a reason found them, its state, *)
(* the card, and what a transaction would put back.                        *)
Date  == {Day[p] : p \in Period}
Slots == [Date -> Setting]
Snapshot ==
  [slots : Slots, win : Period \cup {None}, of : SUBSET {"bed", "rest", "dock"}]
State ==
  [bed : Period \cup {None}, skipped : Period \cup {None}, dock : BOOLEAN, rest : Nat \cup {None},
   last : (Date \X Setting) \cup {None}, pending : Setting \cup {None}, waived : Date \cup {None}]
Disk ==
  [st : State, on : BOOLEAN, bed : Snapshot \cup {None}, eye : Snapshot \cup {None},
   dock : Snapshot \cup {None}]
Journals == [by : {"enforce", "request"}, disk : Disk, pctl : Slots, whole : BOOLEAN]

ASSUME NoneAssumption == None \notin Snapshot /\ None \notin Journals /\ None \notin Date \X Setting
ASSUME BoundsAssumption == MaxFaults \in Nat /\ MaxMoves \in Nat

VARIABLES
  disk,      \* state.json, the switch of rules.json, a snapshot for each reason
  pctl,      \* the setting of each day
  journal,   \* recovery/active: whose it is, and what it found
  flag,      \* disable.flag
  job,
  power, clock, away,    \* away: the television policy would block
  faults, moves,
  harmed     \* history: what a call that failed has spoilt for good

vars == <<disk, pctl, journal, flag, job, power, clock, away, faults, moves, harmed>>

Today == Day[clock]

(* bed: the window in force; rest: when it ends; last: the day and target  *)
(* last written; pending: the target that has not been seen yet.           *)
Calm == [bed |-> None, skipped |-> None, dock |-> FALSE, rest |-> None,
         last |-> None, pending |-> None, waived |-> None]
Idle == [op |-> "idle", at |-> "end", then |-> "end", st |-> Calm, before |-> Calm, win |-> None,
         in |-> FALSE, out |-> FALSE, moved |-> FALSE]

Init ==
  /\ disk = [st |-> Calm, on |-> TRUE, bed |-> None, eye |-> None, dock |-> None]
  /\ pctl = [d \in Date |-> "open"]
  /\ journal = None /\ flag = FALSE /\ job = Idle
  /\ power = TRUE /\ clock = 0 /\ away = FALSE /\ faults = 0 /\ moves = 0 /\ harmed = {}

-----------------------------------------------------------------------------
(* The reasons: ptc_bedtime_evaluate, dock_policy_blocks.                  *)
Standing == disk.on /\ Window[clock] # None
BedDue(st) == Standing /\ st.skipped # Window[clock]
DockDue(st) == away /\ st.waived # Today
DueBed(st) == IF BedDue(st) THEN Window[clock] ELSE None
Target(st) == IF BedDue(st) \/ st.rest # None \/ DockDue(st) THEN "blocked" ELSE "open"

(* bedtime_instance_is_upcoming                                            *)
Upcoming(w) == disk.on /\ (w = Window[clock] \/ w > clock)

(* The settings as they are; of: the reasons that hold today blocked.      *)
Seen == [slots |-> pctl, win |-> None,
         of |-> {r \in {"bed", "rest", "dock"} :
                   /\ pctl[Today] = "blocked"
                   /\ CASE r = "bed"  -> disk.st.bed # None
                        [] r = "rest" -> disk.st.rest # None
                        [] r = "dock" -> disk.st.dock}]
For(snap) == [snap EXCEPT !.win = Window[clock]]

-----------------------------------------------------------------------------
(* Steps of a job.                                                         *)
At(label) == job.at = label
To(label) == IF label = "end" THEN Idle ELSE [job EXCEPT !.at = label]
By == IF job.op = "tick" THEN "enforce" ELSE "request"
Fault == faults < MaxFaults /\ faults' = faults + 1
Same == UNCHANGED <<power, clock, away>>
Go(j) == job' = j /\ UNCHANGED <<disk, pctl, journal, flag, faults, moves, harmed>> /\ Same

(* Where an enforcement that gives up returns to.                          *)
After == CASE job.op = "tick" -> "end"
           [] job.op \in {"waive", "clear"} -> "check"
           [] OTHER -> "refuse"

(* What a failing call spoils: "lost", the state or the rules, outside a    *)
(* transaction; "flag", the flag of a service that stops; "clear", the end *)
(* of a transaction.                                                       *)
Harm(h) == harmed' = harmed \cup {h}

(* write_disable_flag, and on to label.  Nobody looks whether it fails,    *)
(* and a flag that was there may be lost with it.                          *)
Stopping(label) == [job EXCEPT !.at = "stop", !.then = label]
Stop ==
  /\ At("stop") /\ job' = To(job.then)
  /\ \/ flag' = TRUE /\ UNCHANGED <<faults, harmed>>
     \/ Fault /\ flag' \in {flag, FALSE} /\ IF flag' THEN UNCHANGED harmed ELSE Harm("flag")
  /\ UNCHANGED <<disk, pctl, journal, moves>> /\ Same

(* write_text_atomic: a file is replaced, or the call fails.               *)
Write(d, then, failed) ==
  /\ \/ disk' = d /\ job' = then /\ UNCHANGED faults
     \/ Fault /\ disk' = disk /\ job' = failed
  /\ UNCHANGED <<pctl, journal, flag, moves, harmed>> /\ Same

(* The old file is removed before the new one gets its name: a call that   *)
(* fails, or that the power interrupts, may leave none (then PowerOff is   *)
(* the next step).  A state that is not there is read as Calm, and rules   *)
(* that are not there have no bedtime.  A transaction gives the file back. *)
Unguarded == journal = None \/ (At("save") /\ job.op = "clear")
Lose(d, failed) ==
  /\ Fault /\ disk' = d /\ job' = failed
  /\ IF Unguarded /\ <<d.st, d.on>> # <<disk.st, disk.on>> THEN Harm("lost") ELSE UNCHANGED harmed
  /\ UNCHANGED <<pctl, journal, flag, moves>> /\ Same

WriteState(st, then, failed) ==
  \/ Write([disk EXCEPT !.st = st], then, failed)
  \/ Lose([disk EXCEPT !.st = Calm], failed)
WriteBed(snap, then, failed) ==
  \/ Write([disk EXCEPT !.bed = snap], then, failed)
  \/ Lose([disk EXCEPT !.bed = None], failed)
WriteEye(snap, then, failed) ==
  \/ Write([disk EXCEPT !.eye = snap], then, failed)
  \/ Lose([disk EXCEPT !.eye = None], failed)
WriteDock(snap, then, failed) ==
  \/ Write([disk EXCEPT !.dock = snap], then, failed)
  \/ Lose([disk EXCEPT !.dock = None], failed)

(* Snapshots are removed, and nobody looks whether it fails.               *)
Remove(bed, eye, dock, then) ==
  /\ \/ disk' = [disk EXCEPT !.bed = bed, !.eye = eye, !.dock = dock] /\ UNCHANGED faults
     \/ /\ Fault
        /\ disk' \in {[disk EXCEPT !.bed = b, !.eye = e, !.dock = d] :
                        b \in {disk.bed, bed}, e \in {disk.eye, eye}, d \in {disk.dock, dock}}
  /\ job' = then /\ UNCHANGED <<pctl, journal, flag, moves, harmed>> /\ Same

(* recovery_clear: nobody looks whether it fails.  What it leaves is the   *)
(* journal, or a part of it that cannot be rolled back.                    *)
Cleared ==
  \/ journal' = None /\ UNCHANGED <<faults, harmed>>
  \/ /\ journal # None /\ Fault /\ Harm("clear")
     /\ journal' \in {journal, [journal EXCEPT !.whole = FALSE]}
Clear(then) == Cleared /\ job' = then /\ UNCHANGED <<disk, pctl, flag, moves>> /\ Same

(* A write of PCTL, or its read-back, fails: it may have had its effect.   *)
WritePctl(p, then, failed) ==
  /\ \/ pctl' = p /\ job' = then /\ UNCHANGED faults
     \/ Fault /\ pctl' \in {pctl, p} /\ job' \in failed
  /\ UNCHANGED <<disk, journal, flag, moves, harmed>> /\ Same
Slot(mode) == [pctl EXCEPT ![Today] = mode]

(* recovery_begin: a journal is opened, or joined when it is one's own.    *)
Begin(then, failed) ==
  \/ journal # None /\ Go(IF journal.by = By THEN then ELSE failed)
  \/ /\ journal = None
     /\ journal' = [by |-> By, disk |-> disk, pctl |-> pctl, whole |-> TRUE]
     /\ job' = then /\ UNCHANGED <<disk, pctl, flag, faults, moves, harmed>> /\ Same
  \/ /\ journal = None /\ Fault /\ job' = failed
     /\ UNCHANGED <<disk, pctl, journal, flag, moves, harmed>> /\ Same

(* recovery_rollback: every file is given back, then the journal cleared.  *)
(* One that fails goes on with the other files, and keeps the journal.     *)
Mixed(found) ==
  [st : {disk.st, found.st, Calm}, on : {disk.on, found.on, FALSE}, bed : {disk.bed, found.bed, None},
   eye : {disk.eye, found.eye, None}, dock : {disk.dock, found.dock, None}]
Rollback(then, failed) ==
  \/ journal = None /\ Go(then)
  \/ /\ journal # None
     /\ \/ journal.whole /\ pctl' = journal.pctl /\ disk' = journal.disk /\ Cleared /\ job' = then
        \/ /\ Fault \/ (~journal.whole /\ UNCHANGED faults)
           /\ pctl' \in {pctl, journal.pctl} /\ disk' \in Mixed(journal.disk)
           /\ job' = failed /\ UNCHANGED <<journal, harmed>>
     /\ UNCHANGED <<flag, moves>> /\ Same

Undo == At("undo") /\ Rollback(To(After), Stopping(After))

-----------------------------------------------------------------------------
(* ptc_sysmodule_enforce_request                                           *)
Free == job.op = "idle" /\ power

Tick ==
  /\ Free /\ ~flag
  /\ Go([Idle EXCEPT !.op = "tick", !.at = IF disk.st.pending # None THEN "settle" ELSE "sample"])

(* Mutant: a confirmation that is late is awaited without an end.          *)
SettleWaits == At("settle") /\ Go(IF pctl[Today] = disk.st.pending THEN To("confirm") ELSE Idle)

(* A target that waits for its confirmation is seen, or its 30 s are over. *)
(* That its journal is there, and the tick's, is SnapshotsSound.           *)
Settle == At("settle") /\ Go(To(IF pctl[Today] = disk.st.pending THEN "confirm" ELSE "undo"))

Confirm == At("confirm") /\ WriteState([disk.st EXCEPT !.pending = None], To("confirmed"), Stopping("end"))
Confirmed == At("confirmed") /\ Clear(To("sample"))

(* Whether a rest begins is up to the usage (eye_care_sample_direct); a    *)
(* bedtime in force has started the count anew (reset_eye_care_cycle).     *)
(* The usage that was seen is saved first, as a part of the state.         *)
Sampled ==
  /\ LET st  == disk.st
         out == st.rest # None /\ (BedDue(st) \/ clock >= st.rest)
         end == IF out THEN None ELSE st.rest
         may == st.rest = None /\ st.bed = None /\ ~BedDue(st) /\ ~DockDue(st) /\ pctl[Today] = "open"
     IN \/ /\ job' = [To("dock") EXCEPT !.st = [st EXCEPT !.rest = end], !.out = out]
           /\ UNCHANGED moves
        \/ /\ may /\ moves < MaxMoves /\ moves' = moves + 1
           /\ job' = [To("eye") EXCEPT !.st = [st EXCEPT !.rest = clock + 1], !.in = TRUE]
  /\ UNCHANGED <<disk, pctl, journal, flag, faults, harmed>> /\ Same
Unsaved ==
  \/ Fault /\ job' = Stopping(After) /\ UNCHANGED <<disk, pctl, journal, flag, moves, harmed>> /\ Same
  \/ Lose([disk EXCEPT !.st = Calm], Stopping(After))
Sample == At("sample") /\ (Sampled \/ Unsaved)

Eye == At("eye") /\ WriteEye(Seen, To("dock"), To(After))

(* The policy blocks from now on; its snapshot is that of the reason that  *)
(* blocks already.                                                         *)
DockSource ==
  IF job.st.bed # None THEN disk.bed
  ELSE IF job.st.rest # None /\ ~job.in THEN disk.eye ELSE Seen

Dock ==
  /\ At("dock")
  /\ IF DockDue(job.st) /\ ~job.st.dock THEN Begin(To("keepDock"), To("undo")) ELSE Go(To("handOver"))
KeepDock ==
  /\ At("keepDock")
  /\ IF DockSource = None THEN Go(To("undo")) ELSE WriteDock(DockSource, To("handOver"), To("undo"))

(* A rest that bedtime ends hands its snapshot over.                       *)
HandOver ==
  /\ At("handOver")
  /\ IF job.out /\ BedDue(job.st)
     THEN IF disk.eye = None THEN Go(To(After))
          ELSE WriteBed(For(disk.eye), [To("exit") EXCEPT !.moved = TRUE], To(After))
     ELSE Go(To("exit"))

Exit ==
  /\ At("exit")
  /\ Go(To(IF job.st.bed # None /\ job.st.bed # DueBed(job.st) THEN "lift" ELSE "target"))

(* Nothing to do, as far as the state and today's setting tell; a reading  *)
(* that fails is taken for one that agrees.                                *)
InForce(st) ==
  st.last = <<Today, Target(st)>> /\ st.bed = DueBed(st) /\ st.dock = DockDue(st)
Compose ==
  /\ At("target")
  /\ LET st == job.st
         keep == IF st = disk.st THEN "forgetEye" ELSE "keepState"
     IN \/ InForce(st) /\ pctl[Today] = Target(st) /\ job' = To(keep) /\ UNCHANGED faults
        \/ InForce(st) /\ pctl[Today] # Target(st) /\ Fault /\ job' = To(keep)
        \/ /\ ~(InForce(st) /\ pctl[Today] = Target(st))
           /\ job' = To(IF BedDue(st) /\ st.bed = None /\ ~job.moved THEN "keepBed" ELSE "begin")
           /\ UNCHANGED faults
  /\ UNCHANGED <<disk, pctl, journal, flag, moves, harmed>> /\ Same

KeepState == At("keepState") /\ WriteState(job.st, To("forgetEye"), Stopping(After))
ForgetEye ==
  At("forgetEye") /\ Remove(disk.bed, IF job.out THEN None ELSE disk.eye, disk.dock, To(After))

(* Mutant: bedtime keeps the settings in force, whoever shaped them.       *)
SeenAlways == Seen

BedSource == IF job.st.dock THEN disk.dock ELSE Seen
KeepBed ==
  /\ At("keepBed")
  /\ IF BedSource = None THEN Go(To(After)) ELSE WriteBed(For(BedSource), To("begin"), To(After))

Enters(st) == BedDue(st) /\ st.bed = None
Start == At("begin") /\ Begin(To("write"), To("drop"))

(* apply_target, where the target is not in force.  PCTL may take it and   *)
(* not show it yet: the job goes on, and the journal stays.                *)
Apply ==
  /\ At("write")
  /\ LET mode == Target(job.st) IN
     \/ pctl[Today] = mode /\ Go(To("record"))
     \/ pctl[Today] # mode /\ WritePctl(Slot(mode), To("record"), {To("undoWrite"), To("undo")})
     \/ /\ pctl[Today] # mode /\ Fault /\ job' = [To("record") EXCEPT !.st.pending = mode]
        /\ UNCHANGED <<disk, pctl, journal, flag, moves, harmed>> /\ Same
UndoWrite == At("undoWrite") /\ Rollback(To("drop"), Stopping("drop"))
Drop ==
  /\ At("drop")
  /\ Remove(IF Enters(job.st) THEN None ELSE disk.bed, IF job.in THEN None ELSE disk.eye, disk.dock,
            To(After))

Recorded(st) ==
  [st EXCEPT !.bed = DueBed(st), !.dock = DockDue(st), !.last = <<Today, Target(st)>>]
Record ==
  At("record") /\ WriteState(Recorded(job.st), To("forget"), To("undo"))

Forget ==
  /\ At("forget")
  /\ Remove(disk.bed, IF job.out THEN None ELSE disk.eye, IF DockDue(job.st) THEN disk.dock ELSE None,
            IF job.op = "tick" /\ job.st.pending = None THEN To("close") ELSE To(After))
Close == At("close") /\ Clear(Idle)

-----------------------------------------------------------------------------
(* restore_bedtime_base, for a tick and for a request.  When it fails the  *)
(* service stops, and a tick leaves the journal for the next start.        *)
Lift == At("lift") /\ Begin(To("lifting"), Stopping(After))

(* Mutant: the other reasons are not looked at.                            *)
AloneAlways(st) == TRUE

Alone(st) == ~DockDue(st) /\ st.rest = None

Lifting ==
  /\ At("lifting")
  /\ LET st == job.st
         failed == {To("undoLift"), Stopping(After)}
     IN IF ~Alone(st)
        THEN IF pctl[Today] = "blocked" THEN Go(To("lifted"))
             ELSE WritePctl(Slot("blocked"), To("lifted"), failed)
        ELSE IF Today = Day[st.bed] /\ disk.bed # None /\ disk.bed.win = st.bed
             THEN WritePctl(disk.bed.slots, To("lifted"), {Stopping(After)})
             ELSE WritePctl(Slot("open"), To("lifted"), failed)
UndoLift == At("undoLift") /\ Rollback(Stopping(After), Stopping(After))

Lifted ==
  /\ At("lifted")
  /\ LET st == [job.st EXCEPT !.bed = None, !.last = None]
     IN  WriteState(st, [To("forgetBed") EXCEPT !.st = st], Stopping(After))
ForgetBed ==
  /\ At("forgetBed")
  /\ Remove(None, disk.eye, disk.dock,
            To(CASE job.op = "tick" -> "closeLift"
                 [] job.op \in {"skip", "disable"} -> "keepRules"
                 [] OTHER -> "target"))
CloseLift == At("closeLift") /\ Clear(To("target"))

-----------------------------------------------------------------------------
(* Requests of the parent (process_request_text).  A request that gives    *)
(* back first undoes a transaction that it finds.                          *)
Accept(op, w) ==
  /\ Free /\ moves < MaxMoves /\ moves' = moves + 1
  /\ job' = [Idle EXCEPT !.op = op, !.win = w, !.at = IF journal = None THEN "load" ELSE "resolve"]
  /\ UNCHANGED <<disk, pctl, journal, flag, faults, harmed>> /\ Same
Resolve == At("resolve") /\ Rollback(To("load"), Stopping("end"))

Load(st, label) == Go([To(label) EXCEPT !.st = st, !.before = disk.st])

(* process_bedtime_recovery_request                                        *)
Lifts(w) == Standing /\ disk.st.bed # None /\ (job.op = "disable" \/ w = Window[clock])
Skip(w) == Upcoming(w) /\ Accept("skip", w)
Disable == disk.on /\ Accept("disable", None)
Loosen ==
  /\ At("load") /\ job.op \in {"skip", "disable"}
  /\ Load(IF job.op = "skip" THEN [disk.st EXCEPT !.skipped = job.win] ELSE disk.st,
          IF Lifts(job.win) THEN "lift" ELSE "keepRules")
KeepRules ==
  /\ At("keepRules")
  /\ \/ Write([disk EXCEPT !.on = @ /\ job.op = "skip"], To("save"), To("refuse"))
     \/ Lose([disk EXCEPT !.on = FALSE], To("refuse"))

ClearSkip(w) ==
  ~flag /\ journal = None /\ w = disk.st.skipped /\ Upcoming(w) /\ Accept("clear", w)
Active == job.win = Window[clock]
Tighten ==
  At("load") /\ job.op = "clear" /\ Load([disk.st EXCEPT !.skipped = None], IF Active THEN "journal" ELSE "save")

(* process_eye_care_skip                                                   *)
SkipEye ==
  /\ disk.st.rest # None /\ (flag \/ clock < disk.st.rest) /\ ~BedDue(disk.st)
  /\ Accept("rest", None)
Resting(st) == st.rest # None /\ ~BedDue(st)
Wake ==
  /\ At("load") /\ job.op = "rest"
  /\ IF Resting(disk.st) THEN Load([disk.st EXCEPT !.rest = None], "journal") ELSE Load(disk.st, "refuse")
WakeWrite ==
  /\ At("wake")
  /\ LET st == [job.st EXCEPT !.last = <<Today, Target(job.st)>>]
     IN  WritePctl(Slot(Target(st)), [To("save") EXCEPT !.st = st], {To("undo")})

(* process_dock_request                                                    *)
Waive == away /\ disk.st.waived # Today /\ Accept("waive", None)
WaiveLoad ==
  At("load") /\ job.op = "waive" /\ Load([disk.st EXCEPT !.waived = Today], "journal")

Journal ==
  /\ At("journal")
  /\ Begin(To(IF job.op = "rest" THEN "wake" ELSE "save"), To("refuse"))

Nested == job.op = "waive" \/ (job.op = "clear" /\ Active)
Save ==
  /\ At("save")
  /\ LET next == IF ~Nested THEN "answer"
                 ELSE IF ~flag THEN "sample"
                 ELSE IF job.st.dock THEN "release" ELSE "answer"
         failed == CASE job.op = "clear" -> "withdraw" [] job.op = "rest" -> "takeBack" [] OTHER -> "refuse"
     IN  WriteState(job.st, To(next), To(failed))

(* Under disable.flag a waiver lifts its own reason only.                  *)
Release ==
  /\ At("release")
  /\ LET st == [job.st EXCEPT !.dock = FALSE, !.last = <<Today, Target(job.st)>>]
     IN  IF pctl[Today] = Target(st) THEN Go([To("released") EXCEPT !.st = st])
         ELSE WritePctl(Slot(Target(st)), [To("released") EXCEPT !.st = st], {To("undo"), To("refuse")})
Released == At("released") /\ WriteState(job.st, To("answer"), To("refuse"))

(* What the enforcement within the request has come to.                    *)
Waived == disk.st.waived = Today /\ disk.st.dock = DockDue(disk.st) /\ pctl[Today] = Target(disk.st)
Confirms == disk.st.pending = None /\ IF job.op = "waive" THEN Waived ELSE disk.st.bed = job.win
Check ==
  At("check") /\ Go(To(IF Confirms THEN "answer" ELSE IF job.op = "waive" THEN "refuse" ELSE "revert"))

(* A clearing that is not confirmed keeps the skip.                        *)
Revert == At("revert") /\ Rollback(To("revertBed"), Stopping("refuse"))
RevertBed == At("revertBed") /\ Remove(None, disk.eye, disk.dock, To("revertState"))
RevertState == At("revertState") /\ WriteState(job.before, To("refuse"), Stopping("refuse"))
Withdraw == At("withdraw") /\ Clear(To("refuse"))

(* write_current_status_result, and the end of the transaction.            *)
Answer ==
  /\ At("answer")
  /\ \/ job' = To("commit") /\ UNCHANGED faults
     \/ Fault /\ job' = To("takeBack")
  /\ UNCHANGED <<disk, pctl, journal, flag, moves, harmed>> /\ Same
TakeBack == At("takeBack") /\ Rollback(Idle, Stopping("end"))
Commit == At("commit") /\ Clear(IF job.op = "rest" THEN To("forgetRest") ELSE Idle)
ForgetRest == At("forgetRest") /\ Remove(disk.bed, None, disk.dock, Idle)

(* Mutant: an error is answered and nothing is taken back.                 *)
RefuseOnly == At("refuse") /\ Clear(Idle)

(* finish_with_error                                                       *)
Refuse == At("refuse") /\ Rollback(Idle, Stopping("end"))

-----------------------------------------------------------------------------
(* What the service does not do.                                           *)
Advance ==
  /\ job.op = "idle" /\ clock + 1 \in Period /\ clock' = clock + 1
  /\ UNCHANGED <<disk, pctl, journal, flag, job, power, away, faults, moves, harmed>>

Move ==
  /\ job.op = "idle" /\ moves < MaxMoves /\ moves' = moves + 1 /\ away' = ~away
  /\ UNCHANGED <<disk, pctl, journal, flag, job, power, clock, faults, harmed>>

(* A target that was taken shows at last.                                  *)
Appear ==
  /\ job.op = "idle" /\ disk.st.pending # None
  /\ LET p == [pctl EXCEPT ![disk.st.last[1]] = disk.st.pending] IN p # pctl /\ pctl' = p
  /\ UNCHANGED <<disk, journal, flag, job, power, clock, away, faults, moves, harmed>>

PowerOff ==
  /\ power /\ Fault /\ power' = FALSE /\ job' = Idle
  /\ UNCHANGED <<disk, pctl, journal, flag, clock, away, moves, harmed>>

(* The service starts, and undoes a transaction first; then it waits,      *)
(* disabled, for the parent (startup_transaction_restored).                *)
PowerOn ==
  /\ ~power /\ power' = TRUE
  /\ job' = IF journal = None THEN Idle ELSE [Idle EXCEPT !.op = "boot", !.at = "boot"]
  /\ UNCHANGED <<disk, pctl, journal, flag, clock, away, faults, moves, harmed>>
Boot == At("boot") /\ Rollback(Stopping("end"), Stopping("end"))

-----------------------------------------------------------------------------
Enforcement ==
  \/ Settle \/ Confirm \/ Confirmed \/ Sample \/ Eye \/ Dock \/ KeepDock \/ HandOver \/ Exit
  \/ Compose \/ KeepState \/ ForgetEye \/ KeepBed \/ Start \/ Apply \/ UndoWrite \/ Drop
  \/ Record \/ Forget \/ Close \/ Undo \/ Stop
  \/ Lift \/ Lifting \/ UndoLift \/ Lifted \/ ForgetBed \/ CloseLift

Request ==
  \/ Disable \/ SkipEye \/ Waive
  \/ \E w \in Period : Window[w] = w /\ (Skip(w) \/ ClearSkip(w))

Handling ==
  \/ Resolve \/ Loosen \/ KeepRules \/ Tighten \/ Wake \/ WakeWrite \/ WaiveLoad \/ Journal
  \/ Save \/ Release \/ Released \/ Check \/ Revert \/ RevertBed \/ RevertState \/ Withdraw
  \/ Answer \/ TakeBack \/ Commit \/ ForgetRest \/ Refuse \/ Boot

JobStep == Enforcement \/ Handling
Next == Tick \/ JobStep \/ Request \/ Advance \/ Move \/ Appear \/ PowerOff \/ PowerOn

Spec == Init /\ [][Next]_vars

-----------------------------------------------------------------------------
(* A window that is over, and of an earlier day: nothing of its snapshot   *)
(* would be put back (restore_bedtime_base, the comparison of the dates).  *)
Gone(w) == w # Window[clock] /\ Day[w] < Today

(* While nothing runs, every reason in force has the settings it found,    *)
(* bedtime those of its own window unless it is gone, and a target that    *)
(* waits for its confirmation has the tick's journal, whatever was         *)
(* interrupted between the snapshots, the journal and the state.  No       *)
(* snapshot is of settings that bedtime or the television policy had       *)
(* shaped; only the policy may find those of a rest that ends in the same  *)
(* tick.  Three failures break it, and are excepted: a state or rules that *)
(* were lost outside a transaction, a stop that left no flag, and a        *)
(* journal that could not be cleared.                                      *)
SnapshotsSound ==
  job.op = "idle" /\ power /\ ~flag /\ harmed = {} =>
    LET st == disk.st IN
    /\ st.bed # None => IF disk.bed = None THEN Gone(st.bed)
                      ELSE disk.bed.win = st.bed /\ disk.bed.of \subseteq {"rest"}
    /\ st.rest # None => disk.eye # None /\ disk.eye.of = {}
    /\ st.dock => disk.dock # None /\ disk.dock.of \subseteq {"rest"}
    /\ st.pending # None => journal # None /\ journal.by = "enforce"

(* Lifting one reason never opens the console while another one stands     *)
(* ("must not transiently reopen another restriction"): undoing aside, a   *)
(* step that opens today's setting finds no reason but the one it lifts.   *)
(* Two windows of bedtime are two liftings: the one that is over is lifted *)
(* before the next one is entered.                                         *)
LiftsBed ==
  At("lifting") /\ (job.op = "disable" \/ (job.op = "skip" /\ Active) \/ job.st.bed # Window[clock])
Stands ==
  \/ BedDue(disk.st) /\ ~LiftsBed
  \/ DockDue(disk.st)
  \/ disk.st.rest # None /\ clock < disk.st.rest /\ job.op # "rest"
NeverReopens ==
  [][At("lifting") \/ At("write") \/ At("wake") \/ At("release") =>
       (pctl[Today] = "blocked" /\ pctl'[Today] = "open" => ~Stands)]_vars

(* A skip, its clearing or a waiver that was refused has changed nothing   *)
(* of the state, however far it had got, when no further call failed; but  *)
(* the state may be gone that a request could not save outside a           *)
(* transaction, and the journal refused may be another's that could not be *)
(* cleared.                                                                *)
RefusedChangesNothing ==
  [][At("refuse") /\ power' /\ faults' = faults /\ ~flag /\ harmed = {} => disk'.st = job.before]_vars

-----------------------------------------------------------------------------
FairSpec == Spec /\ WF_vars(JobStep) /\ WF_vars(Tick) /\ WF_vars(PowerOn)

(* A window is recorded without its snapshot.  An enforcement within a     *)
(* request has lifted it, could not enter the next one, took both back and *)
(* then dropped the snapshot for the one it was entering                   *)
(* (sysmodule_core.c:391).  That it never happens ("rollback restores both *)
(* bedtime snapshot and instance metadata", test_control_safety.c) is      *)
(* BedComplete, which does not hold.                                       *)
Orphaned == disk.st.bed # None /\ disk.bed = None
BedComplete == job.op = "idle" /\ power /\ ~flag => ~Orphaned

(* A reason in force has no snapshot: that, or what harmed tells of.       *)
Bare ==
  LET st == disk.st IN
  \/ Orphaned
  \/ st.rest # None /\ disk.eye = None
  \/ st.dock /\ disk.dock = None

(* A request was answered and its journal is still there: a tick finds a   *)
(* transaction that is not its own (recovery_begin), and writes no target. *)
LeftOver == journal # None /\ journal.by = "request"

(* When nothing moves any more, the console comes to be blocked if and     *)
(* only if a reason stands, unless the service has stopped, a reason in    *)
(* force has no snapshot to hand on, or the journal of a request that      *)
(* could not be cleared stands in the way (sysmodule_storage.c:510, 573).  *)
TargetEnforced == <>[](flag \/ Bare \/ LeftOver \/ pctl[Today] = Target(disk.st))

=============================================================================
