------------------------------- MODULE Setup -------------------------------
(***************************************************************************)
(* The take-over of the console's parental control: how the service gets   *)
(* from the settings the parent had made to its own, keeps the old ones    *)
(* and gives them back.  A request, or a tick of the scheduler, is a job   *)
(* of several steps, each one write of the card or of PCTL; the power may  *)
(* go between two of them.                                                 *)
(*                                                                         *)
(* The settings of PCTL are a slot for each weekday.  A week has two days  *)
(* here, and a date is remembered only as today's or an earlier one.       *)
(***************************************************************************)
EXTENDS Naturals, Sequences

CONSTANTS
  None,
  Natives,     \* the settings a parent may have made
  MaxFaults,   \* bound: calls that fail, and power cuts
  MaxMoves     \* bound: changes by the parent outside the requests, upgrades

Weekday == {0, 1}
Slot == {"empty", "free", "limit", "odd", "plan"}  \* odd: its total cannot be read
Settings == [Weekday -> Slot]
Kind == {"free", "limit", "plan"}                  \* a day rule
Reason == {"fingerprint", "release_failed", "other"}   \* why disable.flag is there
Today(k) == [kind |-> k, fresh |-> TRUE]
Rule == [kind : Kind, fresh : BOOLEAN]
Dated == Rule \cup {None}
Journal == [pctl : Settings, rule : Dated]

ASSUME NativesAssumption ==
  Natives \subseteq Settings /\ None \notin Settings \cup Reason \cup Rule \cup Journal
ASSUME BoundsAssumption == MaxFaults \in Nat /\ MaxMoves \in Nat

VARIABLES
  card,     \* the files: see Init
  pctl,     \* the settings in force
  job,      \* what the service is doing, with its copy of setup.json
  power,    \* "on" or "off", and whether this boot looked for a transaction
  weekday,
  ghost,    \* for the properties: what was done to PCTL
  faults, moves

vars == <<card, pctl, job, power, weekday, ghost, faults, moves>>

Phase  == {"unconfigured", "protection", "pending", "released", "active", "failed", "restored"}
State  == [phase : Phase, hand : Dated, grace : BOOLEAN, offered : BOOLEAN]
Fresh  == [phase |-> "unconfigured", hand |-> None, grace |-> FALSE, offered |-> FALSE]
Idle   == [op |-> "idle", at |-> "none", s |-> Fresh, base |-> None, orig |-> None, flag |-> None, ok |-> TRUE]

Card(s, snap, rule) ==
  [setup |-> s, snap |-> snap,          \* setup.json; install_pctl_snapshot.json
   rule |-> rule,                       \* today_override of rules.json
   flag |-> None,                       \* disable.flag
   journal |-> None,                    \* recovery/active
   restore |-> FALSE, retry |-> FALSE,  \* the flags of a repair by hand
   accepted |-> TRUE]                   \* compatibility.json is of this release

(* A new installation, or one that an older release left in its grace      *)
(* period with today's allowance still to be written back.                 *)
Init ==
  /\ weekday = 0
  /\ \E n \in Natives :
       \/ /\ card = Card(Fresh, None, None) /\ pctl = n
          /\ ghost = [written |-> FALSE, touched |-> FALSE, undone |-> FALSE, told |-> TRUE,
                       kept |-> None, lifted |-> None]
       \/ /\ n[0] \in Kind
          /\ card = Card([phase |-> "released", hand |-> Today(n[0]), grace |-> TRUE, offered |-> TRUE], n, Today(n[0]))
          /\ pctl = [n EXCEPT ![0] = "free"]
          /\ ghost = [written |-> TRUE, touched |-> FALSE, undone |-> FALSE, told |-> TRUE,
                       kept |-> None, lifted |-> None]
  /\ job = Idle
  /\ power = [on |-> TRUE, checked |-> FALSE]
  /\ faults = 0 /\ moves = 0

-----------------------------------------------------------------------------
(* Steps of a job.                                                         *)
At(label) == job.at = label
To(label) == [job EXCEPT !.at = label]
Same == UNCHANGED <<power, weekday, moves>>
Fault == faults < MaxFaults /\ faults' = faults + 1

Go(j) == job' = j /\ UNCHANGED <<card, pctl, ghost, faults>> /\ Same

(* A file is made or removed, or the call fails.                           *)
Write(c, then, failed) ==
  /\ \/ card' = c /\ job' = then /\ UNCHANGED faults
        /\ ghost' = [ghost EXCEPT !.told = ~At("failed") /\ (@ \/ At("flag"))]
     \/ Fault /\ card' = card /\ job' = failed /\ UNCHANGED ghost
  /\ UNCHANGED pctl /\ Same

(* To replace a file the old one is removed and the new one renamed to its *)
(* place: what breaks off between the two, a failing call or a power cut,  *)
(* leaves no file, which reads as that of a new installation.  Without     *)
(* rules.json nothing of today's allowance is kept.                        *)
Off == [on |-> FALSE, checked |-> FALSE]
Broken(failed) == \/ job' = failed /\ UNCHANGED power
                  \/ job' = Idle /\ power' = Off
Lose(gone, failed) ==
  /\ Fault /\ card' = gone /\ Broken(failed)
  /\ ghost' = [ghost EXCEPT !.kept = IF gone.rule = card.rule THEN @ ELSE None]
  /\ UNCHANGED <<pctl, weekday, moves>>

Replace(c, gone, then, failed) == Write(c, then, failed) \/ Lose(gone, failed)

NoSetup == [card EXCEPT !.setup = Fresh]
NoRules == [card EXCEPT !.rule = None]

(* The service writes PCTL, and reads back what it wrote; a failure may    *)
(* leave either.                                                           *)
WritePctl(p, then, failed) ==
  /\ \/ pctl' = p /\ job' = then /\ UNCHANGED faults
     \/ Fault /\ pctl' \in {pctl, p} /\ job' = failed
  /\ ghost' = [ghost EXCEPT !.written = TRUE, !.touched = FALSE,
                            !.kept = IF job.op = "enforce" THEN @ ELSE None,
                            !.lifted = IF At("lift") THEN pctl ELSE @]
  /\ UNCHANGED card /\ Same

Save(s, then, failed) == Replace([card EXCEPT !.setup = s], NoSetup, [then EXCEPT !.s = s], failed)
(* A save whose result the code does not look at.                          *)
SaveAnyway(s, then) == Save(s, then, [then EXCEPT !.s = s])

(* Recovery_rollback: PCTL and the rules as the transaction found them.    *)
Rollback(then, failed) ==
  /\ \/ pctl' = card.journal.pctl /\ job' = then /\ UNCHANGED <<power, faults>>
        /\ card' = [card EXCEPT !.rule = card.journal.rule, !.journal = None]
     \/ Fault /\ pctl' \in {pctl, card.journal.pctl} /\ Broken(failed)
        /\ card' \in {card, [card EXCEPT !.rule = card.journal.rule], NoRules}
  /\ ghost' = [ghost EXCEPT !.undone = @ \/ card.setup.phase = "restored", !.kept = None]
  /\ UNCHANGED <<weekday, moves>>

Start(op, label) == Go([Idle EXCEPT !.op = op, !.at = label, !.s = card.setup, !.flag = card.flag])
Fails(s, reason, label) == [job EXCEPT !.s = s, !.flag = reason, !.ok = FALSE, !.at = label]

Settled(s) == [s EXCEPT !.grace = FALSE]
In(phase, s) == [s EXCEPT !.phase = phase]

-----------------------------------------------------------------------------
(* Requests of the parent.  An answer that changes nothing is no step.     *)
Free == job.op = "idle" /\ power.on /\ power.checked
Ready == Free /\ card.journal = None

(* Mutant: the confirmation after a restore is refused.                    *)
ResumableUnlessRestored(s, flag) ==
  s.phase = "active" \/ (s.hand # None /\ flag = "release_failed")

Reconfirming(s, flag) == s.phase = "protection" /\ flag = "fingerprint"
Resumable(s, flag) ==
  \/ s.phase \in {"restored", "active"}
  \/ Reconfirming(s, flag)
  \/ s.hand # None /\ flag = "release_failed"

(* process_complete_setup                                                  *)
Complete ==
  LET s == card.setup IN
  /\ Ready
  /\ card.flag # None => Resumable(s, card.flag)
  /\ \/ /\ \/ s.phase \in {"unconfigured", "protection", "restored"}
           \/ s.phase = "pending" /\ s.hand # None
           \/ card.flag # None
        /\ Start("complete", "preflight")
     \/ s.phase = "released" /\ card.flag = None /\ Start("complete", "grace")

(* process_retry_setup_release                                             *)
Retry ==
  /\ Ready /\ card.setup.phase \in {"pending", "failed", "protection"}
  /\ Start("retry", "preflight")

(* process_restore_install_snapshot; the gate before it undoes the         *)
(* transaction it finds.                                                   *)
Restore ==
  /\ Free /\ card.snap # None
  /\ Start("restore", IF card.journal # None THEN "undo_first" ELSE "give_back")

UndoFirst ==
  /\ At("undo_first")
  /\ Rollback(To("give_back"), Fails(job.s, "other", "flag"))

-----------------------------------------------------------------------------
(* run_release_preflight, and what becomes of a failure.                   *)
Stale(s) == s.hand # None /\ ~s.hand.fresh

Captures(s) ==
  \/ Stale(s)
  \/ /\ s.hand = None
     /\ \/ job.op = "retry" \/ s.phase = "unconfigured"
        \/ s.phase = "protection" /\ ~Reconfirming(s, job.flag)

(* capture_handover_today: today's allowance as the parent left it.        *)
Captured(s) ==
  IF ~Captures(s) THEN s
  ELSE [s EXCEPT !.hand = IF pctl[weekday] \in Kind THEN Today(pctl[weekday]) ELSE None]

Unreadable(s) == Captures(s) /\ pctl[weekday] = "odd"

Refused(s) ==
  IF job.op = "complete" /\ job.flag = None THEN In("protection", s) ELSE s

(* PCTL cannot be read; or today's allowance cannot be told; or the        *)
(* environment is accepted, which may fail when the allowance is captured. *)
Preflight ==
  LET refused(s) == [To("refuse") EXCEPT !.s = Refused(s)]
      accepted   == [To("rule") EXCEPT !.s = Captured(job.s), !.base = IF Stale(job.s) THEN pctl ELSE None]
  IN
  /\ At("preflight")
  /\ \/ Fault /\ job' = refused(job.s) /\ UNCHANGED <<card, pctl, ghost>> /\ Same
     \/ Unreadable(job.s) /\ Go(refused([job.s EXCEPT !.hand = None]))
     \/ /\ ~Unreadable(job.s)
        /\ Replace([card EXCEPT !.accepted = TRUE], [card EXCEPT !.accepted = FALSE], accepted,
                   refused(Captured(job.s)))

Refuse == At("refuse") /\ SaveAnyway(job.s, Idle)

(* Mutant: today's allowance is adopted but no rule for today is written.  *)
PersistNoRule == At("rule") /\ Go(To("pending"))

(* persist_handover_today_rule                                             *)
PersistRule ==
  /\ At("rule")
  /\ IF job.s.hand = None THEN Go(To("pending"))
     ELSE Replace([card EXCEPT !.rule = job.s.hand], NoRules, To("pending"),
                  [To("refuse") EXCEPT !.s = IF job.op = "complete" THEN In("protection", @) ELSE @])

SavePending ==
  /\ At("pending")
  /\ LET s == In("pending", IF job.op = "retry" THEN Settled(job.s) ELSE job.s)
     IN  Save(s, To(IF s.hand # None THEN "direct" ELSE "snapshot"), Idle)

-----------------------------------------------------------------------------
(* direct_handover_now: the settings are kept as they are.                 *)
(* Mutant: the install snapshot is written anew by each take-over.         *)
SnapshotAnew(s) == s

(* save_install_snapshot: never over one that is there.                    *)
Snapshot(s) == IF card.snap # None THEN card.snap ELSE s

Expected == IF job.base # None THEN job.base ELSE card.snap

Direct ==
  /\ At("direct")
  /\ LET then == [To("adopt") EXCEPT !.s.offered = TRUE]
     IN  IF card.snap # None
         THEN Go(IF pctl = Expected THEN then ELSE Idle)
         ELSE Write([card EXCEPT !.snap = Snapshot(pctl)], then, Idle)

Adopt ==
  /\ At("adopt")
  /\ LET s == [Settled(In("active", job.s)) EXCEPT !.hand = None]
     IN  IF pctl[weekday] # job.s.hand.kind THEN Go(Idle)
         ELSE \/ /\ card' = [card EXCEPT !.setup = s] /\ job' = [To("unflag") EXCEPT !.s = s]
                 /\ ghost' = [ghost EXCEPT !.kept = pctl[weekday]]
                 /\ UNCHANGED <<pctl, faults>> /\ Same
              \/ Fault /\ job' = Idle /\ UNCHANGED <<card, pctl, ghost>> /\ Same
              \/ Lose(NoSetup, Idle)

(* A take-over that succeeded: only now disable.flag goes, where the       *)
(* request saw one.                                                        *)
Unflag ==
  /\ At("unflag")
  /\ IF (job.op = "complete" /\ job.flag = None) \/ card.flag = None THEN Go(Idle)
     ELSE Write([card EXCEPT !.flag = None], Idle, Idle)

-----------------------------------------------------------------------------
(* release_setup_now: today's restriction is lifted, the plan follows.     *)
Failure(s) == Settled(In("failed", s))

TakeSnapshot ==
  /\ At("snapshot")
  /\ LET image == Snapshot(pctl)
         then  == [To(IF pctl[weekday] = "free" THEN "released" ELSE "lift") EXCEPT
                     !.s.offered = TRUE, !.orig = IF job.base # None THEN job.base ELSE image]
     IN  IF card.snap = image THEN Go(then)
         ELSE Write([card EXCEPT !.snap = image], then,
                    Fails([Failure(job.s) EXCEPT !.offered = FALSE], "other", "failed"))

Lift ==
  /\ At("lift")
  /\ WritePctl([pctl EXCEPT ![weekday] = "free"], To("released"), To("undo"))

SaveReleased ==
  /\ At("released")
  /\ Save(Settled(In("released", job.s)), To(IF job.op = "complete" THEN "grace" ELSE "unflag"), Idle)

(* Mutant: a release that failed leaves the settings as it made them.      *)
UndoNothing ==
  At("undo") /\ Go(Fails(Failure(job.s), "release_failed", "failed"))

Undo ==
  /\ At("undo")
  /\ WritePctl(job.orig, Fails(Failure(job.s), "release_failed", "failed"),
                         Fails(Failure(job.s), "other", "failed"))

SaveGrace == At("grace") /\ Save([job.s EXCEPT !.grace = TRUE], To("unflag"), Idle)

SaveFailed == At("failed") /\ SaveAnyway(job.s, To("flag"))

(* write_disable_flag, and what a repair by restore flag still removes.    *)
WriteFlag ==
  /\ At("flag")
  /\ LET then == IF job.op = "by_hand" THEN To("remove_restore")
                 ELSE IF job.op = "activate" /\ job.ok THEN To("clear") ELSE Idle
     IN  Replace([card EXCEPT !.flag = job.flag], [card EXCEPT !.flag = None], then, then)

-----------------------------------------------------------------------------
(* restore_install_snapshot_now                                            *)
(* Mutant: the settings given back are not those of the installation.      *)
GiveBackNothing ==
  At("give_back") /\ Go([To("rules") EXCEPT !.s.offered = TRUE])

GiveBack ==
  /\ At("give_back")
  /\ LET failed == Fails([Failure(job.s) EXCEPT !.offered = TRUE], "other", "failed") IN
     /\ \/ pctl' = card.snap /\ job' = To("rules") /\ UNCHANGED faults
           /\ ghost' = [ghost EXCEPT !.touched = FALSE, !.undone = FALSE, !.kept = None]
        \/ Fault /\ pctl' \in {pctl, card.snap} /\ job' = failed
           /\ ghost' = [ghost EXCEPT !.kept = None]
     /\ UNCHANGED card /\ Same

(* Bedtime, eye care and the dock limit are switched off.                  *)
RestrictNothing ==
  At("rules") /\ Replace(card, NoRules, To("restored"), Fails(job.s, "other", "flag"))

SaveRestored ==
  /\ At("restored")
  /\ Save([Settled(In("restored", job.s)) EXCEPT !.offered = TRUE],
          [To("flag") EXCEPT !.flag = "other"], Fails(job.s, "other", "flag"))

RemoveRestore ==
  /\ At("remove_restore")
  /\ LET then == IF job.ok THEN To("clear") ELSE Idle
     IN  Write([card EXCEPT !.restore = FALSE], then, then)

Clear == At("clear") /\ Write([card EXCEPT !.journal = None], Idle, Idle)

-----------------------------------------------------------------------------
(* ptc_sysmodule_bootstrap_setup, on each tick of the scheduler: a repair  *)
(* asked for by a file on the card, the transaction the last boot left,    *)
(* once, the check of the environment and the end of the grace period.     *)
Tick == job.op = "idle" /\ power.on
Checked == power' = [power EXCEPT !.checked = TRUE]
Starts(op, label) == job' = [Idle EXCEPT !.op = op, !.at = label, !.s = card.setup, !.ok = card.snap # None]

RestoreByHand ==
  /\ Tick /\ card.restore /\ Checked
  /\ Starts("by_hand", IF card.snap = None THEN "remove_restore" ELSE "give_back")
  /\ UNCHANGED <<card, pctl, weekday, ghost, faults, moves>>

RetryByHand ==
  /\ Tick /\ ~card.restore /\ card.retry /\ Checked
  /\ Starts("again", IF card.journal # None THEN "undo_left" ELSE "rearm")
  /\ UNCHANGED <<card, pctl, weekday, ghost, faults, moves>>

UndoLeft ==
  /\ At("undo_left")
  /\ IF job.op = "again" THEN Rollback(To("rearm"), Fails(job.s, "other", "flag"))
     ELSE Rollback(Fails(job.s, "other", "flag"), Fails(job.s, "other", "flag"))

Rearm == At("rearm") /\ SaveAnyway(Settled(In("pending", job.s)), To("remove_retry"))

RemoveRetry ==
  /\ At("remove_retry")
  /\ LET then == IF job.ok THEN To("remove_flag") ELSE Idle
     IN  Write([card EXCEPT !.retry = FALSE], then, then)

RemoveFlag == At("remove_flag") /\ Write([card EXCEPT !.flag = None], Idle, Idle)

Controlled == card.setup.phase \in {"active", "released"}
Park == job' = [Idle EXCEPT !.op = "gate", !.at = "failed", !.s = In("protection", card.setup),
                            !.flag = "fingerprint"]

Startup ==
  /\ Tick /\ ~power.checked /\ ~card.restore /\ ~card.retry /\ Checked
  /\ \/ card.journal # None /\ Starts("startup", "undo_left") /\ UNCHANGED faults
     \/ card.journal = None /\ UNCHANGED <<job, faults>>
     \/ card.journal = None /\ Controlled /\ Fault /\ Park   \* PCTL cannot be read
  /\ UNCHANGED <<card, pctl, weekday, ghost, moves>>

(* validate_runtime_fingerprint: the files are another release's.          *)
Gate ==
  /\ Free /\ ~card.restore /\ ~card.retry /\ Controlled /\ ~card.accepted /\ Park
  /\ UNCHANGED <<card, pctl, power, weekday, ghost, faults, moves>>

Activate ==
  /\ Free /\ ~card.restore /\ ~card.retry /\ card.accepted
  /\ card.setup.phase = "released" /\ card.setup.grace
  /\ Starts("activate", IF card.setup.hand = None THEN "active" ELSE "old")
  /\ UNCHANGED <<card, pctl, power, weekday, ghost, faults, moves>>

SaveActive == At("active") /\ Save(Settled(In("active", job.s)), Idle, Idle)

(* activate_handover_today: an older release had lifted the restriction;   *)
(* today's allowance is written back, or all is given back.                *)
GivesUp == [To("give_back") EXCEPT !.s.hand = None]

Record == IF card.journal # None THEN card.journal ELSE [pctl |-> pctl, rule |-> card.rule]

Old ==
  /\ At("old")
  /\ IF Stale(job.s) THEN Save([job.s EXCEPT !.hand = None], To("active"), Idle)
     ELSE IF card.rule # job.s.hand THEN Go(GivesUp)
     ELSE Write([card EXCEPT !.journal = Record], To("write_back"), GivesUp)

WriteBack ==
  /\ At("write_back")
  /\ WritePctl([pctl EXCEPT ![weekday] = job.s.hand.kind], To("settle"), To("undo_old"))

UndoOld == At("undo_old") /\ Rollback(GivesUp, GivesUp)

Settle ==
  /\ At("settle")
  /\ LET s == [job.s EXCEPT !.hand = None] IN
     \/ /\ card' = [card EXCEPT !.setup = s] /\ job' = [To("clear_old") EXCEPT !.s = s]
        /\ ghost' = [ghost EXCEPT !.kept = pctl[weekday]]
        /\ UNCHANGED <<pctl, faults>> /\ Same
     \/ Fault /\ job' = GivesUp /\ UNCHANGED <<card, pctl, ghost>> /\ Same
     \/ Lose(NoSetup, GivesUp)

ClearOld == At("clear_old") /\ Write([card EXCEPT !.journal = None], To("active"), To("active"))

-----------------------------------------------------------------------------
(* ptc_sysmodule_enforce_request: the plan is written, where it is not in  *)
(* force, as a transaction.                                                *)
Plan == IF card.rule # None /\ card.rule.fresh THEN card.rule.kind ELSE "plan"
Enforces == Free /\ card.setup.phase = "active" /\ card.flag = None

Enforce ==
  /\ Enforces /\ card.journal = None /\ pctl[weekday] # Plan
  /\ Write([card EXCEPT !.journal = Record], [Idle EXCEPT !.op = "enforce", !.at = "apply"], Idle)

Apply ==
  At("apply") /\ WritePctl([pctl EXCEPT ![weekday] = Plan], To("commit"), To("undo_apply"))

UndoApply == At("undo_apply") /\ Rollback(Idle, Fails(job.s, "other", "flag"))

(* An effect that is not seen leaves the transaction open for a while.     *)
Commit == At("commit") /\ Write([card EXCEPT !.journal = None], Idle, Idle)

Confirm ==
  /\ Enforces /\ card.journal # None
  /\ job' = [Idle EXCEPT !.op = "enforce", !.at = IF pctl[weekday] = Plan THEN "commit" ELSE "undo_apply"]
  /\ UNCHANGED <<card, pctl, power, weekday, ghost, faults, moves>>

-----------------------------------------------------------------------------
(* What the service does not do.                                           *)
Aged(d) == IF d = None THEN None ELSE [d EXCEPT !.fresh = FALSE]

NextDay ==
  /\ job.op = "idle" /\ weekday' = 1 - weekday
  /\ card' = [card EXCEPT !.setup.hand = Aged(@), !.rule = Aged(@),
                          !.journal = IF @ = None THEN None ELSE [pctl |-> @.pctl, rule |-> Aged(@.rule)]]
  /\ ghost' = [ghost EXCEPT !.kept = None]
  /\ UNCHANGED <<pctl, job, power, faults, moves>>

Moves == moves < MaxMoves /\ moves' = moves + 1

(* The parent uses Nintendo's own settings.                                *)
ParentMoves ==
  /\ Moves /\ job.op = "idle" /\ pctl' \in Natives \ {pctl}
  /\ ghost' = [ghost EXCEPT !.touched = TRUE, !.kept = None]
  /\ UNCHANGED <<card, job, power, weekday, faults>>

(* ptc_companion_set_disable_flag, and the files of a repair by hand.      *)
Place ==
  /\ Moves
  /\ \/ card.flag = None /\ card' = [card EXCEPT !.flag = "other"]
     \/ card' = [card EXCEPT !.restore = TRUE]
     \/ card' = [card EXCEPT !.retry = TRUE]
  /\ UNCHANGED <<pctl, job, power, weekday, ghost, faults>>

Upgrade ==
  /\ Moves /\ ~power.on /\ card' = [card EXCEPT !.accepted = FALSE]
  /\ UNCHANGED <<pctl, job, power, weekday, ghost, faults>>

PowerOff ==
  /\ power.on /\ Fault
  /\ power' = Off /\ job' = Idle
  /\ UNCHANGED <<card, pctl, weekday, ghost, moves>>

PowerOn ==
  /\ ~power.on /\ power' = [power EXCEPT !.on = TRUE]
  /\ UNCHANGED <<card, pctl, job, weekday, ghost, faults, moves>>

-----------------------------------------------------------------------------
Request == Complete \/ Retry \/ Restore
Bootstrap == RestoreByHand \/ RetryByHand \/ Startup \/ Gate \/ Activate
Enforcement == Enforce \/ Confirm

JobStep ==
  \/ UndoFirst \/ Preflight \/ Refuse \/ PersistRule \/ SavePending \/ Direct \/ Adopt \/ Unflag
  \/ TakeSnapshot \/ Lift \/ SaveReleased \/ Undo \/ SaveGrace \/ SaveFailed \/ WriteFlag
  \/ GiveBack \/ RestrictNothing \/ SaveRestored \/ RemoveRestore \/ Clear
  \/ UndoLeft \/ Rearm \/ RemoveRetry \/ RemoveFlag \/ SaveActive
  \/ Old \/ WriteBack \/ UndoOld \/ Settle \/ ClearOld \/ Apply \/ UndoApply \/ Commit

Next == Request \/ Bootstrap \/ Enforcement \/ JobStep
        \/ NextDay \/ ParentMoves \/ Place \/ Upgrade \/ PowerOff \/ PowerOn

Spec == Init /\ [][Next]_vars

-----------------------------------------------------------------------------
(* Before the service changes PCTL for the first time, settings the parent *)
(* had made, and none of its own, are on the card, and there they stay     *)
(* through every failed, repeated or resumed take-over                     *)
(* (save_install_snapshot).                                                *)
OriginalIsKept ==
  /\ [](ghost.written \/ card.setup.phase = "active" => card.snap \in Natives)
  /\ [][card.snap # None => card.snap' = card.snap]_vars

(* After "restore the settings before the installation" PCTL has these     *)
(* settings until the parent changes them, whatever Enforce, a tick or a   *)
(* take-over that was under way does; only a transaction of the boot       *)
(* before, undone at the next startup, comes after it.                     *)
RestoredIsOriginal ==
  card.setup.phase = "restored" /\ job.op = "idle" /\ ~ghost.touched /\ ~ghost.undone => pctl = card.snap

(* No exception is made for the transaction of the boot before.            *)
RestoreIsFinal ==
  card.setup.phase = "restored" /\ job.op = "idle" /\ ~ghost.touched => pctl = card.snap

(* A release that failed leaves the console as it was: with the flag       *)
(* "setup_release_failed" today's restriction is in force again, as it was *)
(* when this attempt, or the installation, found it.  The flag must be of  *)
(* this failure: one that cannot be written leaves the flag of an earlier. *)
FailedReleaseIsUndone ==
  /\ card.flag = "release_failed" /\ card.setup.phase = "failed" /\ ghost.told
  /\ job.op = "idle" /\ ~ghost.touched
  => pctl \in {ghost.lifted, card.snap}

(* A direct take-over leaves today's allowance alone: until the day is     *)
(* over, or the parent asks for something else, no Enforce changes the     *)
(* slot it found.  Where a replacement loses rules.json nothing is kept.   *)
TodayIsKept ==
  ghost.kept # None /\ card.setup.phase = "active" => pctl[weekday] = ghost.kept

-----------------------------------------------------------------------------
(* The parent, who wants the console controlled, confirms the take-over    *)
(* whenever it is offered, each day, and restores where nothing else is    *)
(* left.                                                                   *)
Stranded == ~ENABLED Complete /\ ~ENABLED Retry
Fairness ==
  /\ WF_vars(JobStep) /\ WF_vars(PowerOn) /\ SF_vars(Bootstrap) /\ SF_vars(Enforcement)
  /\ SF_vars(Stranded /\ Restore) /\ SF_vars(NextDay)
  /\ \A d \in Weekday : SF_vars(weekday = d /\ Complete) /\ SF_vars(weekday = d /\ Retry)
FairSpec == Spec /\ Fairness

Controlling == card.setup.phase = "active" /\ card.flag = None

(* The one dead end: the emergency stop before the first take-over, or in  *)
(* one whose setup.json was lost before there was a snapshot.              *)
DeadEnd == card.setup.phase = "unconfigured" /\ card.flag # None /\ card.snap = None

(* Whatever fails, a bounded number of times, the parent's confirmations   *)
(* bring the console under control in the end, or show the dead end.       *)
TakesOver == []<>(Controlling \/ DeadEnd)

=============================================================================
