----------------------------- MODULE DockUsage -----------------------------
(***************************************************************************)
(* How the service counts the play away from the television.  PCTL tells   *)
(* one total a day; the service asks once a second in which mode the       *)
(* console is, and charges the differences of the total to the allowance   *)
(* for handheld play, unless both ends of the interval were on television. *)
(* The adapter asks PCTL itself only every Age seconds.                    *)
(*                                                                         *)
(* The clock counts thirds of a day, the units in which it is set and the  *)
(* console sleeps; seconds are counted as play and as the age of a         *)
(* reading.  No play goes on over midnight.                                *)
(*                                                                         *)
(* A sample is saved before a control transaction copies state.json, and   *)
(* the transaction may take one more.  The file is removed before the new  *)
(* one is renamed, so that a save that is broken off may lose it.          *)
(***************************************************************************)
EXTENDS Naturals

CONSTANTS
  None,
  Limit,      \* the allowance for handheld play, in seconds
  Age,        \* the seconds for which a reading is used again
  MaxPlay,    \* bound: seconds of play a day
  MaxThird,   \* bound: the clock
  MaxFaults,  \* bound: calls that fail
  MaxMoves    \* bound: what is done to the console, and ticks that change PCTL

ASSUME ParametersAssumption == Age \in Nat \ {0} /\ Limit \in Nat
ASSUME BoundsAssumption == {MaxPlay, MaxThird, MaxFaults, MaxMoves} \subseteq Nat

VARIABLES
  clock,    \* thirds of days
  mode,     \* "tv" or "hand"; looked: the service read it since it changed
  looked,
  spent,    \* PCTL's total of today
  adapter,  \* what the adapter keeps: the last reading, the highest total
  on,       \* the service runs; sampled: dock_boot_sampled
  sampled,
  enabled,  \* an allowance for handheld play is set
  state,    \* the fields of state.json about it
  journal,  \* None, or what an open transaction copied; left: it was to be removed
  blocks,   \* the service keeps PCTL blocked
  ghost,    \* for the properties: see Ghost
  faults, moves

vars == <<clock, mode, looked, spent, adapter, on, sampled, enabled, state, journal, blocks, ghost, faults, moves>>

Date(third) == third \div 3
Today == Date(clock)
Long(from, to) == to - from > 4             \* 129600 s are four and a half thirds
Modes == {"tv", "hand", "unknown"}

NoCounter == [direct |-> FALSE, known |-> FALSE, day |-> 0, total |-> 0, at |-> 0]
NoReading == [taken |-> FALSE, day |-> 0, at |-> 0, total |-> None, age |-> 0, hand |-> 0]
NoAdapter == [reading |-> NoReading, highDay |-> None, high |-> 0]

NewState ==
  [tracking |-> FALSE, known |-> FALSE, unknown |-> FALSE, incomplete |-> FALSE,
   day |-> 0, used |-> 0, mode |-> "unknown", counter |-> NoCounter, waived |-> None]

(* What an older release, which knew no direct total, may have left: a     *)
(* count of an earlier day, or of today, with or without a gap.            *)
Legacy(day, known, unknown) ==
  [NewState EXCEPT !.tracking = TRUE, !.known = known, !.unknown = unknown, !.day = day]

(* For today: the handheld play under an allowance since its counter was   *)
(* started, the part of it that the last sample could know of, and how     *)
(* often the console was put back to the television.  lost: a sample was   *)
(* not saved, or was rolled back, a transaction kept the service from      *)
(* seeing two changes of the mode, or the date was put back, and nothing   *)
(* is promised any more.                                                   *)
Ghost == [hand |-> 0, read |-> 0, docked |-> 0, lost |-> FALSE]
Lost == [Ghost EXCEPT !.lost = TRUE]
Know(played) == IF ghost.lost THEN ghost ELSE [ghost EXCEPT !.read = played]

Init ==
  /\ clock = 3 /\ mode = "hand" /\ looked = FALSE /\ spent = 0
  /\ adapter = NoAdapter /\ on = TRUE /\ sampled = FALSE /\ enabled = TRUE /\ blocks = FALSE
  /\ \/ state = NewState
     \/ \E day \in {0, 1}, known \in BOOLEAN : state = Legacy(day, known, ~known)
  /\ journal = None
  /\ ghost = Ghost /\ faults = 0 /\ moves = 0

-----------------------------------------------------------------------------
(* read_display_usage and direct_usage_sample: PCTL is asked again when    *)
(* the last reading is too old, or of another date.                        *)
Asked(ok) ==
  [taken |-> TRUE, day |-> Today, at |-> clock, age |-> 0, hand |-> ghost.hand,
   total |-> IF ok /\ (adapter.highDay = Today => spent >= adapter.high) THEN spent ELSE None]

Usable(r) == r.taken /\ r.day = Today /\ r.at <= clock

Kept(r) ==
  IF r.total = None THEN [adapter EXCEPT !.reading = r]
  ELSE [reading |-> r, highDay |-> r.day, high |-> r.total]

Sample(r) == [direct |-> TRUE, known |-> TRUE, day |-> r.day, total |-> r.total, at |-> r.at]

(* ptc_usage_counter_step: the kind of step from counter b to sample s.    *)
StepKind(b, s) ==
  IF ~b.known \/ ~b.direct THEN "baseline"
  ELSE CASE s.at >= b.at /\ s.day = b.day /\ s.total >= b.total         -> "delta"
         [] s.at > b.at /\ s.day = b.day + 1 /\ ~Long(b.at, s.at)       -> "next day"
         [] OTHER                                                      -> "unknown"

Delta(b, s) ==
  CASE StepKind(b, s) = "delta"    -> s.total - b.total
    [] StepKind(b, s) = "next day" -> s.total
    [] OTHER                       -> 0

-----------------------------------------------------------------------------
(* dock_sample_direct: the sample s, read with the console in mode m; gap: *)
(* the first one since the service was started.                            *)
Uncertain(t) == [t EXCEPT !.known = FALSE, !.unknown = TRUE]

(* A gap that an older release left belongs to an earlier day; all of      *)
(* today's play is charged.                                                *)
Migrated(t, s) ==
  IF ~t.counter.direct /\ ~t.counter.known /\ t.tracking /\ s.day > t.day
  THEN [t EXCEPT !.used = s.total, !.day = s.day, !.incomplete = FALSE, !.known = TRUE, !.unknown = FALSE]
  ELSE t

OrdinaryDay(t, s) ==
  t.day + 1 = Today /\ t.counter.at > 0 /\ s.at > t.counter.at /\ ~Long(t.counter.at, s.at)

NewDay(t) == IF t.tracking /\ t.day # Today THEN [t EXCEPT !.used = 0, !.incomplete = FALSE] ELSE t

(* Mutant: an interval is charged by the mode at its end alone.            *)
ChargedAtEnd(t, kind, m, gap) == kind = "next day" \/ gap \/ t.unknown \/ m # "tv"

(* Only an interval with the console on television at both ends is free.   *)
Charged(t, kind, m, gap) ==
  kind = "next day" \/ gap \/ t.unknown \/ t.mode # "tv" \/ m # "tv"

Counted(t, s, m, gap) ==
  LET kind == StepKind(t.counter, s)
      mig  == Migrated(t, s)
      new  == NewDay(mig)
      lacks == new.incomplete \/ (~t.counter.direct /\ new.tracking /\ (~new.known \/ new.unknown))
  IN  IF kind = "unknown" THEN Uncertain(t)
      ELSE IF mig.tracking /\ mig.day # Today /\ kind # "next day" /\ ~OrdinaryDay(mig, s) THEN Uncertain(mig)
      ELSE [tracking |-> TRUE, incomplete |-> lacks, known |-> ~lacks, unknown |-> FALSE,
            day |-> Today, mode |-> m, counter |-> s, waived |-> t.waived,
            used |-> new.used + IF Charged(new, kind, m, gap) THEN Delta(t.counter, s) ELSE 0]

(* Mutant: switching the allowance off forgets what was played.            *)
UnwatchedRefunds(t) == [t EXCEPT !.counter.known = FALSE, !.used = 0]

(* dock_sample_usage without an allowance.                                 *)
Unwatched(t) ==
  [t EXCEPT !.incomplete = @ \/ (t.counter.direct /\ t.tracking /\ (~t.known \/ t.unknown)),
            !.counter.known = FALSE]

Sampled(t, allowance, r, m, gap) ==
  IF ~allowance THEN Unwatched(t)
  ELSE IF r.total = None THEN Uncertain(t)
  ELSE Counted(t, Sample(r), m, gap)

(* dock_policy_blocks                                                      *)
Blocks(t, allowance, m) ==
  allowance /\ t.waived # Today /\ m # "tv" /\ (m = "unknown" \/ t.day # Today \/ ~t.known \/ t.used >= Limit)

-----------------------------------------------------------------------------
(* The service reads the mode and PCTL; each of the calls may fail, and    *)
(* failed others after it.                                                 *)
Looks(r, m, failed) ==
  LET cost == (IF r.total = None /\ ~Usable(adapter.reading) THEN 1 ELSE 0) + (IF m = "unknown" THEN 1 ELSE 0)
  IN  /\ on
      /\ IF Usable(adapter.reading) THEN r = adapter.reading ELSE r \in {Asked(TRUE), Asked(FALSE)}
      /\ faults' = faults + cost + failed /\ faults' <= MaxFaults
      /\ adapter' = Kept(r) /\ sampled' = TRUE /\ looked' = TRUE

Readings == {adapter.reading, Asked(TRUE), Asked(FALSE)}
Knows(r) == IF r.total = None THEN ghost ELSE Know(r.hand)

(* A transaction copies the files as they are; one that a failing          *)
(* recovery_clear left behind is joined, with the copies it has.  A tick    *)
(* that waits for the effect of one looks at nothing else (Settling).      *)
Copied(t, left) == [state |-> t, enabled |-> enabled, blocks |-> blocks, left |-> left]
Settling == journal # None /\ ~journal.left

(* The tick that enforces, or a request about today: what it saw is saved  *)
(* before anything else, and it may open a transaction.                    *)
Tick ==
  \E r \in Readings, m \in {mode, "unknown"} :
    /\ ~Settling /\ Looks(r, m, 0)
    /\ state' = Sampled(state, enabled, r, m, ~sampled)
    /\ journal' \in {journal, IF journal = None THEN Copied(state', FALSE) ELSE [journal EXCEPT !.left = FALSE]}
    /\ IF journal' = journal THEN moves' = moves ELSE moves < MaxMoves /\ moves' = moves + 1
    /\ blocks' = Blocks(state', enabled, m)
    /\ ghost' = Knows(r)
    /\ UNCHANGED <<clock, mode, spent, on, enabled>>

(* The save of a sample, in a tick or in dock_blocks_grants, is broken off *)
(* by a failing call or by a power cut: the sample is gone, and with it    *)
(* all of state.json when that was removed already.                        *)
Unsaved ==
  \E r \in Readings, m \in {mode, "unknown"} :
    /\ ~Settling /\ Looks(r, m, 1)
    /\ Sampled(state, enabled, r, m, ~sampled) # state
    /\ on' \in BOOLEAN /\ state' \in {state, NewState} /\ ghost' = Lost
    /\ UNCHANGED <<clock, mode, spent, enabled, journal, blocks, moves>>

(* dock_rebaseline: a transaction that does not block PCTL takes one more  *)
(* sample when PCTL shows its target, and saves it with its own record.    *)
Rebase ==
  \E r \in Readings, m \in {mode, "unknown"} :
    /\ Settling /\ state = journal.state /\ enabled /\ ~blocks /\ Looks(r, m, 0)
    /\ state' = Sampled(state, TRUE, r, m, FALSE)
    /\ ghost' = Knows(r)
    /\ UNCHANGED <<clock, mode, spent, on, enabled, journal, blocks, moves>>

(* The transaction is over when PCTL shows its target; a recovery_clear    *)
(* that fails leaves the journal, which nobody notices.                    *)
Confirm ==
  /\ on /\ Settling
  /\ \/ journal' = None /\ faults' = faults
     \/ journal' = [journal EXCEPT !.left = TRUE] /\ faults < MaxFaults /\ faults' = faults + 1
  /\ UNCHANGED <<clock, mode, looked, spent, adapter, on, sampled, enabled, state, blocks, ghost, moves>>

(* A save inside a transaction is broken off: the journal has the copy.    *)
Break ==
  /\ journal # None /\ faults < MaxFaults /\ faults' = faults + 1
  /\ state' = NewState /\ journal' = [journal EXCEPT !.left = TRUE] /\ ghost' = Lost
  /\ UNCHANGED <<clock, mode, looked, spent, adapter, on, sampled, enabled, blocks, moves>>

(* recovery_rollback puts the copies back: the sample of the transaction,  *)
(* and those after it when the journal was left, are taken back with it.   *)
Undone ==
  /\ journal' = None
  /\ IF journal = None THEN UNCHANGED <<state, enabled, blocks, ghost>>
     ELSE state' = journal.state /\ enabled' = journal.enabled /\ blocks' = journal.blocks /\ ghost' = Lost

Rollback ==
  /\ on /\ journal # None /\ Undone
  /\ UNCHANGED <<clock, mode, looked, spent, adapter, on, sampled, faults, moves>>

(* process_dock_request: one more sample, the new policy, and enforcement, *)
(* with a journal that is removed, or left, at the end.  A request that    *)
(* fails is the tick's sample, and a transaction that is rolled back.      *)
Started(t) ==
  IF ~enabled /\ ~t.tracking THEN [t EXCEPT !.tracking = TRUE, !.day = Today, !.known = TRUE] ELSE t

Ends(first, r, m) ==
  \/ Looks(r, m, 0) /\ journal' = None
  \/ Looks(r, m, 1) /\ journal' = Copied(first, TRUE)

SetPolicy ==
  \E r \in Readings, m \in {mode} :
    /\ moves < MaxMoves /\ moves' = moves + 1
    /\ journal = None /\ enabled' = ~enabled
    /\ LET first == Sampled(state, enabled, r, m, ~sampled)
       IN  Ends(first, r, m) /\ state' = Sampled(Started(first), ~enabled, r, m, FALSE)
    /\ blocks' = Blocks(state', ~enabled, m)
    /\ ghost' = IF enabled THEN [Knows(r) EXCEPT !.hand = Knows(r).read] ELSE Knows(r)
    /\ UNCHANGED <<clock, mode, spent, on>>

(* The parent lifts the rules about the television for today.              *)
Waive ==
  \E r \in Readings, m \in {mode} :
    /\ moves < MaxMoves /\ moves' = moves + 1
    /\ journal = None
    /\ LET first == Sampled(state, enabled, r, m, ~sampled)
       IN  Ends(first, r, m) /\ state' = Sampled([first EXCEPT !.waived = Today], enabled, r, m, FALSE)
    /\ blocks' = Blocks(state', enabled, m)
    /\ ghost' = Knows(r)
    /\ UNCHANGED <<clock, mode, spent, on, enabled>>

(* read_grant_status: a grant has PCTL asked anew.                         *)
Grant ==
  /\ on /\ adapter' = Kept(Asked(TRUE))
  /\ UNCHANGED <<clock, mode, looked, spent, on, sampled, enabled, state, journal, blocks, ghost, faults, moves>>

-----------------------------------------------------------------------------
(* The console.                                                            *)
Expired == [adapter EXCEPT !.reading = NoReading]
Older == IF adapter.reading.age + 1 < Age THEN [adapter EXCEPT !.reading.age = @ + 1] ELSE Expired

Play ==
  /\ ~blocks /\ spent < MaxPlay /\ spent' = spent + 1 /\ adapter' = Older
  /\ ghost' = IF mode = "hand" /\ enabled /\ state.counter.known /\ ~ghost.lost
              THEN [ghost EXCEPT !.hand = @ + 1] ELSE ghost
  /\ UNCHANGED <<clock, mode, looked, on, sampled, enabled, state, journal, blocks, faults, moves>>

(* The service, when it runs, notices each change of the mode, but for a    *)
(* tick that waits for the effect of a transaction, thirty seconds at most. *)
Move ==
  /\ (on /\ ~Settling => looked) /\ looked' = FALSE
  /\ mode' = IF mode = "tv" THEN "hand" ELSE "tv"
  /\ ghost' = IF on /\ ~looked THEN Lost
              ELSE IF mode = "hand" /\ ~ghost.lost THEN [ghost EXCEPT !.docked = @ + 1] ELSE ghost
  /\ moves < MaxMoves /\ moves' = moves + 1
  /\ UNCHANGED <<clock, spent, adapter, on, sampled, enabled, state, journal, blocks, faults>>

(* Time goes by without play, the console awake, asleep or off.            *)
Rest ==
  /\ \E n \in {0, 3, 5, 6} : clock + n <= MaxThird /\ clock' = clock + n
  /\ IF Date(clock') = Today THEN spent' = spent /\ ghost' = ghost
     ELSE spent' = 0 /\ ghost' = IF ghost.lost THEN ghost ELSE Ghost
  /\ adapter' = Expired
  /\ UNCHANGED <<mode, looked, on, sampled, enabled, state, journal, blocks, faults, moves>>

(* The clock is put back.  What PCTL makes of an earlier date is not known, *)
(* and what is played then is not promised to be counted; nor is what is    *)
(* played before the count of the date began, when the gap to the last     *)
(* sample is made shorter than it was.                                     *)
PutBack ==
  /\ moves < MaxMoves /\ moves' = moves + 1 /\ \E n \in {1, 3} : n <= clock /\ clock' = clock - n
  /\ IF Date(clock') = Today
     THEN spent' = spent /\ ghost' = IF state.day = Today THEN ghost ELSE Lost
     ELSE spent' \in {0, spent} /\ ghost' = Lost
  /\ UNCHANGED <<mode, looked, adapter, on, sampled, enabled, state, journal, blocks, faults>>

Stop ==
  /\ on /\ moves < MaxMoves /\ moves' = moves + 1
  /\ on' = FALSE /\ sampled' = FALSE /\ adapter' = NoAdapter /\ looked' = FALSE
  /\ UNCHANGED <<clock, mode, spent, enabled, state, journal, blocks, ghost, faults>>

(* A service that starts rolls an open transaction back; one that cannot   *)
(* is disabled, which for the count is as if it had not been started.      *)
Start ==
  /\ ~on /\ on' = TRUE /\ sampled' = FALSE /\ adapter' = NoAdapter /\ looked' = FALSE
  /\ Undone
  /\ UNCHANGED <<clock, mode, spent, faults, moves>>

Next ==
  \/ Tick \/ Unsaved \/ Rebase \/ Confirm \/ Break \/ Rollback \/ SetPolicy \/ Waive \/ Grant
  \/ Play \/ Move \/ Rest \/ PutBack \/ Stop \/ Start

Spec == Init /\ [][Next]_vars
FairSpec == Spec /\ WF_vars(Tick) /\ WF_vars(Start)

-----------------------------------------------------------------------------
(* Whatever the console goes through, the count that is said to be known   *)
(* holds the handheld play up to the last sample, but for the seconds in   *)
(* which one reading is used again, once for each return to television     *)
(* (dock_sample_direct).  A sample that was not saved, or that a rollback  *)
(* took back, is left out.                                                 *)
CountsAll ==
  enabled /\ state.known /\ state.day = Today /\ ~ghost.lost
    => ghost.read <= state.used + (Age - 1) * ghost.docked

(* No restart, change of the policy, waiver, reset of PCTL or of the clock  *)
(* gives handheld play of a date back (dock_sample_usage), or an earlier    *)
(* date a second time (dock_sample_direct).  A transaction may put back the *)
(* count it copied, and never less: what it copied is the count with the    *)
(* tick's own sample.  A save that is broken off may lose all of            *)
(* state.json, and the count then begins anew.                             *)
NotLess(t, u) == u.day >= t.day /\ (u.day = t.day => u.used >= t.used)
Copies == {state} \cup IF journal = None THEN {} ELSE {journal.state}
FileLost == faults' > faults /\ state' = NewState

NothingRefunded ==
  [][\A u \in Copies' : (\E t \in Copies : NotLess(t, u)) \/ (FileLost /\ u = NewState)]_vars

(* A new local day starts a new count (docs: PROTOCOL.md, TV mode policy),  *)
(* once PCTL and the mode can be read.                                      *)
Behind == enabled /\ state.day # Today
NewDayCounts == Behind ~> ~Behind
=============================================================================
