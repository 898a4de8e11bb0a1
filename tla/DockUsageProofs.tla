--------------------------- MODULE DockUsageProofs ---------------------------
(***************************************************************************)
(* Proofs about the count of the play away from the television, for any    *)
(* allowance, any age of a reading, and any number of seconds of play,     *)
(* days, failed calls and moves.                                           *)
(***************************************************************************)
EXTENDS DockUsage, TLAPS

Counters == [direct : BOOLEAN, known : BOOLEAN, day : Nat, total : Nat, at : Nat]
Times == Nat \cup {None}
States ==
  [tracking : BOOLEAN, known : BOOLEAN, unknown : BOOLEAN, incomplete : BOOLEAN,
   day : Nat, used : Nat, mode : Modes, counter : Counters, waived : Times]
Taken == [taken : BOOLEAN, day : Nat, at : Nat, total : Times, age : Nat, hand : Nat]
Adapters == [reading : Taken, highDay : Times, high : Nat]
Ghosts == [hand : Nat, read : Nat, docked : Nat, lost : BOOLEAN]

(* The type invariant, in two parts.                                       *)
ConsoleOK ==
  /\ clock \in Nat /\ mode \in {"tv", "hand"} /\ looked \in BOOLEAN /\ spent \in Nat
  /\ on \in BOOLEAN /\ sampled \in BOOLEAN /\ enabled \in BOOLEAN
  /\ adapter \in Adapters
  /\ ghost \in Ghosts
  /\ faults \in Nat /\ moves \in Nat
StateOK == state \in States

(* What the fields of state.json are to each other.                        *)
Sound(t) ==
  /\ ~t.tracking => t.day = 0 /\ ~t.counter.direct
  /\ t.counter.known => t.counter.direct
  /\ t.counter.direct => t.tracking /\ t.counter.day = t.day /\ Date(t.counter.at) = t.day
  /\ ~t.counter.direct => t.counter.at = 0

(* A reading the service may use now.                                      *)
Current(r) == r \in Taken /\ r.taken /\ r.day = Today /\ r.at = clock

(* No reading is older than this moment, so that one used again is of it.   *)
Timely == adapter.reading.taken => adapter.reading.at >= clock

(* The base of the inductive invariant.                                    *)
Base == ConsoleOK /\ StateOK /\ Sound(state) /\ Timely

(* The play that may go uncounted, and the seconds of play so far by which *)
(* the count, were it taken now or with the reading r, would fall short of *)
(* all handheld play but x seconds.                                        *)
Slack == (Age - 1) * ghost.docked
Fresh(r) == Usable(r) /\ r.total # None

Bounded(t, x, r) ==
  /\ ghost.hand + t.counter.total + x <= t.used + Slack + spent
  /\ Fresh(r) /\ r.total >= t.counter.total
       => r.hand + t.counter.total + x <= t.used + Slack + r.total

(* The interval to the next sample will be charged.                        *)
Due(t, gap) == gap \/ t.unknown \/ t.mode # "tv"

(* A count without a gap goes on: in the hand all play will be charged, and *)
(* on television it has been, or will be but for one reading's.            *)
Running(t, gap, seen, r) ==
  t.counter.known /\ t.counter.day = Today /\ ~t.incomplete =>
    /\ mode = "hand" => Bounded(t, 0, r) /\ (Due(t, gap) \/ ~seen)
    /\ mode = "tv" => \/ ghost.hand <= t.used + Slack
                      \/ Due(t, gap) /\ Bounded(t, Age - 1, r)

(* A count that was put aside without a gap holds everything.              *)
Parked(t) ==
  ~t.counter.known /\ t.day = Today /\ ~t.incomplete => ghost.hand <= t.used + Slack

(* Play of a date that the count has not come to is never counted as if    *)
(* the last sample was the one before midnight; read: what is known of it. *)
TooFar(t) == t.day + 1 # Today \/ t.counter.at = 0 \/ Long(t.counter.at, clock)
Early(t, read) ==
  /\ ~t.counter.direct => ghost.hand = 0
  /\ t.tracking /\ t.day # Today /\ (read > 0 \/ (~t.counter.known /\ ghost.hand > 0)) => TooFar(t)

Dated(t) ==
  /\ t.day <= Today
  /\ t.counter.known /\ t.counter.day = Today => t.counter.total <= spent

(* What a count that is said to be known holds.                            *)
Holds(t, read) == t.known /\ t.day = Today => read <= t.used + Slack

Owed(t, gap, seen, r, read) ==
  Running(t, gap, seen, r) /\ Parked(t) /\ Early(t, read) /\ Dated(t) /\ Holds(t, read)

(* What a reading tells of the play so far.                                *)
Tells(r) ==
  Fresh(r) => /\ r.total <= spent /\ r.hand <= r.total /\ r.hand <= ghost.hand
              /\ ghost.hand + r.total <= r.hand + spent
              /\ ghost.hand <= r.hand + r.age /\ r.age < Age

Played ==
  /\ ghost.hand <= spent /\ ghost.read <= ghost.hand
  /\ ghost.docked = 0 /\ mode = "tv" => ghost.hand = 0

(* A count said to be known has no gap.                                    *)
Clear(t) == t.known => ~t.incomplete /\ ~t.unknown

Gap == ~on \/ ~sampled
Off == ~enabled => ~state.counter.known
Owes ==
  ~ghost.lost => /\ Played /\ Tells(adapter.reading)
                 /\ Owed(state, Gap, looked, adapter.reading, ghost.read)

USE DEF Adapters, Ghosts

-----------------------------------------------------------------------------
LEMMA DateType == ASSUME NEW c \in Nat PROVE Date(c) \in Nat
BY DEF Date

LEMMA DateMonotone == ASSUME NEW c \in Nat, NEW n \in Nat PROVE Date(c) <= Date(c + n)
BY DEF Date

(* The sample that a reading with a total makes.                           *)
LEMMA SampleType ==
  ASSUME clock \in Nat, NEW r, Current(r), r.total # None
  PROVE  /\ Sample(r) \in Counters /\ Sample(r).day = Today /\ Sample(r).total = r.total
         /\ Sample(r).known /\ Sample(r).direct /\ Sample(r).at = clock /\ Today \in Nat
BY DateType DEF Current, Taken, Times, Sample, Counters, Today

LEMMA DeltaType ==
  ASSUME NEW b \in Counters, NEW s \in Counters
  PROVE  Delta(b, s) \in Nat
BY DEF Counters, Delta, StepKind

LEMMA UncertainKeeps ==
  ASSUME NEW t \in States, Sound(t)
  PROVE  Uncertain(t) \in States /\ Sound(Uncertain(t)) /\ NotLess(t, Uncertain(t))
<1> DEFINE u == Uncertain(t)
<1>1. u \in States /\ ~u.known
  BY DEF States, Uncertain
<1>2. /\ u.tracking = t.tracking /\ u.day = t.day /\ u.used = t.used /\ u.counter = t.counter
  BY DEF States, Uncertain
<1>3. t.day \in Nat /\ t.used \in Nat
  BY DEF States
<1>4. u \in States /\ Sound(u) /\ NotLess(t, u)
  <2> HIDE DEF u
  <2> QED BY <1>1, <1>2, <1>3 DEF Sound, NotLess
<1> QED BY <1>4

LEMMA UnwatchedKeeps ==
  ASSUME NEW t \in States, Sound(t)
  PROVE  Unwatched(t) \in States /\ Sound(Unwatched(t)) /\ NotLess(t, Unwatched(t))
<1> DEFINE u == Unwatched(t)
           i == t.incomplete \/ (t.counter.direct /\ t.tracking /\ (~t.known \/ t.unknown))
<1>1. u = [[t EXCEPT !.incomplete = i] EXCEPT !.counter = [t.counter EXCEPT !.known = FALSE]]
  BY DEF Unwatched, States
<1>2. t.counter \in Counters /\ t.day \in Nat /\ t.used \in Nat
  BY DEF States
<1>3. [t.counter EXCEPT !.known = FALSE] \in Counters
  BY <1>2 DEF Counters
<1>4. /\ u.tracking = t.tracking /\ u.day = t.day /\ u.used = t.used /\ u.known = t.known
      /\ u.unknown = t.unknown /\ u.incomplete = i /\ u.counter = [t.counter EXCEPT !.known = FALSE]
  BY <1>1 DEF States
<1>5. u \in States
  BY <1>1, <1>3 DEF States
<1>6. ~u.counter.known /\ u.counter.direct = t.counter.direct /\ u.counter.at = t.counter.at
      /\ u.counter.day = t.counter.day
  BY <1>2, <1>4 DEF Counters
<1>7. u \in States /\ Sound(u) /\ NotLess(t, u)
  <2> HIDE DEF u, i
  <2> QED BY <1>2, <1>4, <1>5, <1>6 DEF Sound, NotLess
<1> QED BY <1>7

LEMMA MigratedKeeps ==
  ASSUME NEW t \in States, Sound(t), NEW s \in Counters
  PROVE  /\ Migrated(t, s) \in States /\ Sound(Migrated(t, s)) /\ NotLess(t, Migrated(t, s))
         /\ Migrated(t, s).counter = t.counter /\ Migrated(t, s).tracking = t.tracking
         /\ Migrated(t, s).waived = t.waived
<1> DEFINE u == Migrated(t, s)
<1>1. CASE ~t.counter.direct /\ ~t.counter.known /\ t.tracking /\ s.day > t.day
  <2>1. u = [t EXCEPT !.used = s.total, !.day = s.day, !.incomplete = FALSE, !.known = TRUE, !.unknown = FALSE]
    BY <1>1 DEF Migrated
  <2>2. s.total \in Nat /\ s.day \in Nat /\ t.day \in Nat
    BY DEF Counters, States
  <2>3. u \in States
    BY <2>1, <2>2 DEF States
  <2>4. /\ u.tracking = t.tracking /\ u.counter = t.counter /\ u.waived = t.waived
        /\ u.day = s.day /\ ~u.incomplete /\ ~u.unknown
    BY <2>1 DEF States
  <2>5. Sound(u) /\ NotLess(t, u)
    <3> HIDE DEF u
    <3> QED BY <1>1, <2>2, <2>4 DEF Sound, NotLess
  <2> QED BY <2>3, <2>4, <2>5
<1>2. CASE ~(~t.counter.direct /\ ~t.counter.known /\ t.tracking /\ s.day > t.day)
  BY <1>2 DEF Migrated, NotLess, States
<1> QED BY <1>1, <1>2

(* A sample that is counted is of the date of the count, or of a later one. *)
LEMMA CountedKeeps ==
  ASSUME clock \in Nat, NEW t \in States, Sound(t), NEW r, Current(r), r.total # None,
         NEW m \in Modes, NEW gap \in BOOLEAN
  PROVE  LET u == Counted(t, Sample(r), m, gap) IN u \in States /\ Sound(u) /\ NotLess(t, u)
<1> DEFINE s     == Sample(r)
           kind  == StepKind(t.counter, s)
           mig   == Migrated(t, s)
           new   == NewDay(mig)
           lacks == new.incomplete \/ (~t.counter.direct /\ new.tracking /\ (~new.known \/ new.unknown))
           add   == IF Charged(new, kind, m, gap) THEN Delta(t.counter, s) ELSE 0
           u     == Counted(t, s, m, gap)
<1>1. s \in Counters /\ s.day = Today /\ s.known /\ s.direct /\ s.at = clock /\ Today \in Nat
  BY SampleType
<1>2. mig \in States /\ Sound(mig) /\ NotLess(t, mig) /\ mig.counter = t.counter /\ mig.tracking = t.tracking
  BY <1>1, MigratedKeeps
<1>3. CASE kind = "unknown"
  BY <1>3, UncertainKeeps DEF Counted
<1>4. CASE kind # "unknown" /\ mig.tracking /\ mig.day # Today /\ kind # "next day" /\ ~OrdinaryDay(mig, s)
  <2>1. u = Uncertain(mig)
    BY <1>4 DEF Counted
  <2>2. Uncertain(mig) \in States /\ Sound(Uncertain(mig)) /\ NotLess(mig, Uncertain(mig))
    BY <1>2, UncertainKeeps
  <2>3. NotLess(t, Uncertain(mig))
    <3> HIDE DEF mig
    <3> QED BY <1>2, <2>2 DEF NotLess, States, Uncertain
  <2> QED BY <2>1, <2>2, <2>3
<1>5. CASE kind # "unknown" /\ ~(mig.tracking /\ mig.day # Today /\ kind # "next day" /\ ~OrdinaryDay(mig, s))
  <2>1. u = [tracking |-> TRUE, incomplete |-> lacks, known |-> ~lacks, unknown |-> FALSE,
             day |-> Today, mode |-> m, counter |-> s, waived |-> t.waived, used |-> new.used + add]
    BY <1>5 DEF Counted
  <2>2. /\ new.used \in Nat /\ lacks \in BOOLEAN /\ add \in Nat
        /\ ~mig.tracking \/ mig.day = Today => new.used = mig.used
    <3>1. Delta(t.counter, s) \in Nat
      BY <1>1, DeltaType DEF States
    <3> HIDE DEF mig, s
    <3> QED BY <1>2, <3>1 DEF NewDay, States, Counters
  <2>3. ~mig.tracking \/ mig.day = Today \/ mig.day + 1 = Today
    <3>1. kind = "next day" => t.counter.known /\ s.day = t.counter.day + 1
      BY DEF StepKind
    <3> HIDE DEF mig, s, kind
    <3> QED BY <1>1, <1>2, <1>5, <3>1 DEF OrdinaryDay, Sound, States, Counters
  <2>4. u \in States /\ Sound(u)
    <3>1. Date(s.at) = s.day
      BY <1>1 DEF Today
    <3> HIDE DEF lacks, add, new, s
    <3> QED BY <1>1, <2>1, <2>2, <3>1 DEF States, Sound
  <2>5. NotLess(mig, u)
    <3>1. ~mig.tracking => mig.day = 0
      BY <1>2 DEF Sound
    <3>2. u.day = Today /\ u.used = new.used + add
      BY <2>1
    <3>3. mig.day \in Nat /\ mig.used \in Nat
      BY <1>2 DEF States
    <3> HIDE DEF lacks, add, new, s, u, mig, kind
    <3>4. Today >= mig.day /\ (Today = mig.day => new.used = mig.used)
      BY <1>1, <2>2, <2>3, <3>1, <3>3
    <3> QED BY <1>1, <2>2, <3>2, <3>3, <3>4 DEF NotLess
  <2>6. NotLess(t, u)
    <3> HIDE DEF u, mig, s
    <3> QED BY <1>2, <2>4, <2>5 DEF NotLess, States
  <2> QED BY <2>4, <2>6
<1> QED BY <1>3, <1>4, <1>5

LEMMA SampledKeeps ==
  ASSUME clock \in Nat, NEW t \in States, Sound(t), NEW a \in BOOLEAN, NEW r, Current(r),
         NEW m \in Modes, NEW gap \in BOOLEAN
  PROVE  LET u == Sampled(t, a, r, m, gap) IN u \in States /\ Sound(u) /\ NotLess(t, u)
<1>1. CASE ~a
  BY <1>1, UnwatchedKeeps DEF Sampled
<1>2. CASE a /\ r.total = None
  BY <1>2, UncertainKeeps DEF Sampled
<1>3. CASE a /\ r.total # None
  BY <1>3, CountedKeeps DEF Sampled
<1> QED BY <1>1, <1>2, <1>3

-----------------------------------------------------------------------------
(* What every step has to establish.                                       *)
Step == Base' /\ NotLess(state, state')

LEMMA AskedIsCurrent ==
  ASSUME ConsoleOK, NEW ok \in BOOLEAN
  PROVE  Current(Asked(ok)) /\ Today \in Nat
<1>1. clock \in Nat /\ spent \in Nat /\ ghost.hand \in Nat
  BY DEF ConsoleOK
<1>2. Today \in Nat
  BY <1>1, DateType DEF Today
<1>3. (IF ok /\ (adapter.highDay = Today => spent >= adapter.high) THEN spent ELSE None) \in Times
  BY <1>1 DEF Times
<1> QED BY <1>1, <1>2, <1>3 DEF Current, Asked, Taken

LEMMA KeptType ==
  ASSUME ConsoleOK, NEW r \in Taken
  PROVE  Kept(r) \in Adapters /\ Kept(r).reading = r
<1>1. CASE r.total = None
  BY <1>1 DEF ConsoleOK, Kept
<1>2. CASE r.total # None
  BY <1>2 DEF ConsoleOK, Kept, Taken, Times
<1> QED BY <1>1, <1>2

(* The service works with a reading of this moment, and keeps it.          *)
LEMMA LooksGives ==
  ASSUME Base, NEW r, NEW m \in Modes, NEW n \in Nat, Looks(r, m, n)
  PROVE  /\ Current(r)
         /\ adapter' \in Adapters /\ adapter'.reading = r
         /\ faults' \in Nat
<1>1. Current(r)
  <2>1. CASE Usable(adapter.reading)
    <3>1. r = adapter.reading /\ r \in Taken /\ r.taken /\ r.day = Today
      BY <2>1 DEF Looks, Base, ConsoleOK, Usable
    <3>2. r.at = clock
      <4>1. r.at >= clock /\ r.at <= clock /\ r.at \in Nat /\ clock \in Nat
        BY <2>1, <3>1 DEF Base, ConsoleOK, Taken, Timely, Usable
      <4> QED BY <4>1
    <3> QED BY <3>1, <3>2 DEF Current
  <2>2. CASE ~Usable(adapter.reading)
    BY <2>2, AskedIsCurrent DEF Looks, Base
  <2> QED BY <2>1, <2>2
<1>2. adapter' = Kept(r)
  BY DEF Looks
<1>3. faults' \in Nat
  <2> DEFINE cost == (IF r.total = None /\ ~Usable(adapter.reading) THEN 1 ELSE 0) + (IF m = "unknown" THEN 1 ELSE 0)
  <2>1. cost \in Nat
    OBVIOUS
  <2>2. faults' = faults + cost + n /\ faults \in Nat
    BY DEF Looks, Base, ConsoleOK
  <2> HIDE DEF cost
  <2> QED BY <2>1, <2>2
<1> QED BY <1>1, <1>2, <1>3, KeptType DEF Current, Base

(* A step in which the service looks, and the clock stands.                *)
LEMMA LookingStep ==
  ASSUME Base, NEW r \in Taken, adapter' \in Adapters,
         adapter'.reading = r, Current(r), clock' = clock, mode' = mode, spent' = spent, on' \in BOOLEAN,
         looked' = TRUE, sampled' = TRUE, enabled' \in BOOLEAN, faults' \in Nat, moves' \in Nat,
         ghost' \in Ghosts,
         state' \in States, Sound(state')
  PROVE  Base'
<1>1. ConsoleOK'
  BY DEF Base, ConsoleOK
<1>2. StateOK' /\ Sound(state)'
  BY DEF StateOK, Sound
<1>3. Timely'
  <2>1. clock \in Nat
    BY DEF Base, ConsoleOK
  <2> QED BY <2>1 DEF Timely, Current
<1> QED BY <1>1, <1>2, <1>3 DEF Base

(* What the properties remember keeps its type.                            *)
LEMMA GhostType ==
  ASSUME ghost \in Ghosts, NEW r \in Taken
  PROVE  /\ Knows(r) \in Ghosts /\ Lost \in Ghosts /\ Ghost \in Ghosts
         /\ [Knows(r) EXCEPT !.hand = Knows(r).read] \in Ghosts
<1>1. Lost \in Ghosts /\ Ghost \in Ghosts
  BY DEF Ghosts, Lost, Ghost
<1>2. Knows(r) \in Ghosts
  BY DEF Ghosts, Knows, Know, Taken
<1>3. [Knows(r) EXCEPT !.hand = Knows(r).read] \in Ghosts
  BY <1>2 DEF Ghosts
<1> QED BY <1>1, <1>2, <1>3

LEMMA TickStep == ASSUME Base, Tick PROVE Step
<1>1. PICK r \in Readings, m \in {mode, "unknown"} :
        /\ Looks(r, m, 0)
        /\ state' = Sampled(state, enabled, r, m, ~sampled)
        /\ ghost' = Knows(r) /\ moves' \in {moves, moves + 1}
        /\ UNCHANGED <<clock, mode, spent, on, enabled>>
  BY DEF Tick
<1>2. m \in Modes
  BY DEF Base, ConsoleOK, Modes
<1>3. Current(r) /\ r \in Taken /\ adapter' \in Adapters
      /\ adapter'.reading = r /\ faults' \in Nat
  BY <1>1, <1>2, LooksGives DEF Current
<1>4. clock \in Nat /\ state \in States /\ enabled \in BOOLEAN /\ (~sampled) \in BOOLEAN /\ ghost \in Ghosts
  BY DEF Base, ConsoleOK, StateOK, Ghosts
<1>5. state' \in States /\ Sound(state') /\ NotLess(state, state')
  BY <1>1, <1>2, <1>3, <1>4, SampledKeeps DEF Base
<1>6. looked' = TRUE /\ sampled' = TRUE
  BY <1>1 DEF Looks
<1>7. ghost' \in Ghosts /\ moves' \in Nat /\ enabled' \in BOOLEAN /\ on' \in BOOLEAN
  <2>1. ghost' \in Ghosts
    BY <1>1, <1>3, <1>4, GhostType
  <2>2. moves' \in Nat
    BY <1>1 DEF Base, ConsoleOK
  <2> QED BY <1>1, <1>4, <2>1, <2>2 DEF Base, ConsoleOK
<1> QED BY <1>1, <1>3, <1>5, <1>6, <1>7, LookingStep DEF Step, Ghosts

LEMMA RebaseStep == ASSUME Base, Rebase PROVE Step
<1>1. PICK r \in Readings, m \in {mode, "unknown"} :
        /\ Looks(r, m, 0)
        /\ state' = Sampled(state, TRUE, r, m, FALSE)
        /\ ghost' = Knows(r)
        /\ UNCHANGED <<clock, mode, spent, on, enabled, moves>>
  BY DEF Rebase
<1>2. m \in Modes
  BY DEF Base, ConsoleOK, Modes
<1>3. Current(r) /\ r \in Taken /\ adapter' \in Adapters
      /\ adapter'.reading = r /\ faults' \in Nat
  BY <1>1, <1>2, LooksGives DEF Current
<1>4. clock \in Nat /\ state \in States /\ ghost \in Ghosts
  BY DEF Base, ConsoleOK, StateOK, Ghosts
<1>5. state' \in States /\ Sound(state') /\ NotLess(state, state')
  BY <1>1, <1>2, <1>3, <1>4, SampledKeeps DEF Base
<1>6. looked' = TRUE /\ sampled' = TRUE
  BY <1>1 DEF Looks
<1>7. ghost' \in Ghosts /\ moves' \in Nat /\ enabled' \in BOOLEAN /\ on' \in BOOLEAN
  BY <1>1, <1>3, <1>4, GhostType DEF Base, ConsoleOK
<1> QED BY <1>1, <1>3, <1>5, <1>6, <1>7, LookingStep DEF Step, Ghosts

(* state.json as it is when there is none.                                 *)
LEMMA NewStateType ==
  /\ NoCounter \in Counters /\ ~NoCounter.known /\ ~NoCounter.direct /\ NoCounter.at = 0
  /\ NewState \in States /\ NewState.counter = NoCounter /\ NewState.day = 0 /\ ~NewState.tracking
  /\ ~NewState.known /\ Sound(NewState)
<1>1. NoCounter \in Counters /\ ~NoCounter.known /\ ~NoCounter.direct /\ NoCounter.at = 0
  BY DEF NoCounter, Counters
<1>2. /\ NewState \in States /\ NewState.counter = NoCounter /\ NewState.day = 0 /\ ~NewState.tracking
      /\ ~NewState.known
  BY <1>1 DEF NewState, States, Modes, Times
<1> QED BY <1>1, <1>2 DEF Sound

LEMMA UnsavedStep == ASSUME Base, Unsaved PROVE Base'
<1>1. PICK r \in Readings, m \in {mode, "unknown"} :
        /\ Looks(r, m, 1) /\ ghost' = Lost /\ on' \in BOOLEAN /\ state' \in {state, NewState}
        /\ UNCHANGED <<clock, mode, spent, enabled, moves>>
  BY DEF Unsaved
<1>2. m \in Modes
  BY DEF Base, ConsoleOK, Modes
<1>3. Current(r) /\ r \in Taken /\ adapter' \in Adapters
      /\ adapter'.reading = r /\ faults' \in Nat
  BY <1>1, <1>2, LooksGives DEF Current
<1>4. state' \in States /\ Sound(state')
  BY <1>1, NewStateType DEF Base, StateOK
<1>5. looked' = TRUE /\ sampled' = TRUE
  BY <1>1 DEF Looks
<1>6. ghost' \in Ghosts /\ moves' \in Nat /\ enabled' \in BOOLEAN
  BY <1>1, <1>3, GhostType DEF Base, ConsoleOK, Ghosts
<1> QED BY <1>1, <1>3, <1>4, <1>5, <1>6, LookingStep DEF Ghosts

(* The count starts with the policy.                                       *)
LEMMA StartedKeeps ==
  ASSUME clock \in Nat, NEW t \in States, Sound(t)
  PROVE  LET u == Started(t) IN u \in States /\ Sound(u) /\ NotLess(t, u)
<1> DEFINE u == Started(t)
<1>1. CASE ~enabled /\ ~t.tracking
  <2>1. u = [t EXCEPT !.tracking = TRUE, !.day = Today, !.known = TRUE]
    BY <1>1 DEF Started
  <2>2. Today \in Nat /\ t.day = 0 /\ t.used \in Nat
    BY <1>1, DateType DEF Today, Sound, States
  <2>3. u \in States
    BY <2>1, <2>2 DEF States
  <2>4. u.tracking /\ u.day = Today /\ u.used = t.used /\ u.counter = t.counter
    BY <2>1 DEF States
  <2>5. Sound(u) /\ NotLess(t, u)
    <3> HIDE DEF u
    <3> QED BY <1>1, <2>2, <2>4 DEF Sound, NotLess
  <2> QED BY <2>3, <2>5
<1>2. CASE ~(~enabled /\ ~t.tracking)
  BY <1>2 DEF Started, NotLess, States
<1> QED BY <1>1, <1>2

LEMMA NotLessTransitive ==
  ASSUME NEW t \in States, NEW u \in States, NEW v \in States, NotLess(t, u), NotLess(u, v)
  PROVE  NotLess(t, v)
<1>1. /\ t.day \in Nat /\ u.day \in Nat /\ v.day \in Nat
      /\ t.used \in Nat /\ u.used \in Nat /\ v.used \in Nat
  BY DEF States
<1> QED BY <1>1 DEF NotLess

LEMMA SetPolicyStep == ASSUME Base, SetPolicy PROVE Step
<1>1. PICK r \in Readings, m \in {mode} :
        /\ moves < MaxMoves /\ moves' = moves + 1
        /\ Ends(Sampled(state, enabled, r, m, ~sampled), r, m) /\ enabled' = ~enabled
        /\ state' = Sampled(Started(Sampled(state, enabled, r, m, ~sampled)), ~enabled, r, m, FALSE)
        /\ ghost' = IF enabled THEN [Knows(r) EXCEPT !.hand = Knows(r).read] ELSE Knows(r)
        /\ UNCHANGED <<clock, mode, spent, on>>
  BY DEF SetPolicy
<1>2. m \in Modes /\ \E n \in {0, 1} : Looks(r, m, n)
  BY <1>1 DEF Base, ConsoleOK, Modes, Ends
<1>3. Current(r) /\ r \in Taken /\ adapter' \in Adapters
      /\ adapter'.reading = r /\ faults' \in Nat
  BY <1>1, <1>2, LooksGives DEF Current
<1>4. clock \in Nat /\ state \in States /\ enabled \in BOOLEAN /\ (~sampled) \in BOOLEAN /\ ghost \in Ghosts
  BY DEF Base, ConsoleOK, StateOK, Ghosts
<1> DEFINE u == Sampled(state, enabled, r, m, ~sampled)
           v == Started(u)
<1>5. u \in States /\ Sound(u) /\ NotLess(state, u)
  BY <1>2, <1>3, <1>4, SampledKeeps DEF Base
<1>6. v \in States /\ Sound(v) /\ NotLess(u, v)
  <2> HIDE DEF u
  <2> QED BY <1>4, <1>5, StartedKeeps
<1>7. state' = Sampled(v, ~enabled, r, m, FALSE)
  BY <1>1
<1> HIDE DEF u, v
<1>8. state' \in States /\ Sound(state') /\ NotLess(v, state')
  BY <1>2, <1>3, <1>4, <1>6, <1>7, SampledKeeps
<1>9. NotLess(state, state')
  BY <1>4, <1>5, <1>6, <1>8, NotLessTransitive
<1>10. looked' = TRUE /\ sampled' = TRUE
  BY <1>2 DEF Looks
<1>11. ghost' \in Ghosts /\ moves' \in Nat /\ enabled' \in BOOLEAN /\ on' \in BOOLEAN
  <2>1. ghost' \in Ghosts
    BY <1>1, <1>3, <1>4, GhostType
  <2>2. moves' \in Nat
    BY <1>1 DEF Base, ConsoleOK
  <2> QED BY <1>1, <2>1, <2>2 DEF Base, ConsoleOK
<1> QED BY <1>1, <1>3, <1>8, <1>9, <1>10, <1>11, LookingStep DEF Step, Ghosts

LEMMA WaiveStep == ASSUME Base, Waive PROVE Step
<1>1. PICK r \in Readings, m \in {mode} :
        /\ moves < MaxMoves /\ moves' = moves + 1
        /\ Ends(Sampled(state, enabled, r, m, ~sampled), r, m)
        /\ state' = Sampled([Sampled(state, enabled, r, m, ~sampled) EXCEPT !.waived = Today], enabled, r, m, FALSE)
        /\ ghost' = Knows(r)
        /\ UNCHANGED <<clock, mode, spent, on, enabled>>
  BY DEF Waive
<1>2. m \in Modes /\ \E n \in {0, 1} : Looks(r, m, n)
  BY <1>1 DEF Base, ConsoleOK, Modes, Ends
<1>3. Current(r) /\ r \in Taken /\ adapter' \in Adapters
      /\ adapter'.reading = r /\ faults' \in Nat
  BY <1>1, <1>2, LooksGives DEF Current
<1>4. clock \in Nat /\ state \in States /\ enabled \in BOOLEAN /\ (~sampled) \in BOOLEAN /\ ghost \in Ghosts
  BY DEF Base, ConsoleOK, StateOK, Ghosts
<1> DEFINE u == Sampled(state, enabled, r, m, ~sampled)
           v == [u EXCEPT !.waived = Today]
<1>5. u \in States /\ Sound(u) /\ NotLess(state, u)
  BY <1>2, <1>3, <1>4, SampledKeeps DEF Base
<1>6. v \in States /\ Sound(v) /\ NotLess(u, v)
  <2> HIDE DEF u
  <2>1. Today \in Times
    BY <1>4, DateType DEF Today, Times
  <2>2. v \in States /\ v.tracking = u.tracking /\ v.day = u.day /\ v.used = u.used /\ v.counter = u.counter
    BY <1>5, <2>1 DEF States
  <2>3. u.day \in Nat /\ u.used \in Nat
    BY <1>5 DEF States
  <2> HIDE DEF v
  <2> QED BY <1>5, <2>2, <2>3 DEF Sound, NotLess
<1>7. state' = Sampled(v, enabled, r, m, FALSE)
  BY <1>1
<1> HIDE DEF u, v
<1>8. state' \in States /\ Sound(state') /\ NotLess(v, state')
  BY <1>2, <1>3, <1>4, <1>6, <1>7, SampledKeeps
<1>9. NotLess(state, state')
  BY <1>4, <1>5, <1>6, <1>8, NotLessTransitive
<1>10. looked' = TRUE /\ sampled' = TRUE
  BY <1>2 DEF Looks
<1>11. ghost' \in Ghosts /\ moves' \in Nat /\ enabled' \in BOOLEAN /\ on' \in BOOLEAN
  <2>1. ghost' \in Ghosts
    BY <1>1, <1>3, <1>4, GhostType
  <2>2. moves' \in Nat
    BY <1>1 DEF Base, ConsoleOK
  <2> QED BY <1>1, <1>4, <2>1, <2>2 DEF Base, ConsoleOK
<1> QED BY <1>1, <1>3, <1>8, <1>9, <1>10, <1>11, LookingStep DEF Step, Ghosts

(* A step that leaves state.json alone.                                    *)
LEMMA StandingStep ==
  ASSUME Base, state' = state, ConsoleOK', Timely'
  PROVE  Step
<1>1. StateOK' /\ Sound(state)'
  BY DEF Base, StateOK, Sound
<1>2. NotLess(state, state')
  BY DEF Base, StateOK, States, NotLess
<1> QED BY <1>1, <1>2 DEF Step, Base

LEMMA GrantStep == ASSUME Base, Grant PROVE Step
<1>1. Current(Asked(TRUE)) /\ Asked(TRUE) \in Taken
  BY AskedIsCurrent DEF Base, Current
<1>2. adapter' \in Adapters /\ adapter'.reading = Asked(TRUE)
  BY <1>1, KeptType DEF Base, Grant
<1>3. ConsoleOK'
  BY <1>2 DEF Base, ConsoleOK, Grant
<1>4. Timely'
  <2>1. clock \in Nat
    BY DEF Base, ConsoleOK
  <2>2. adapter'.reading.at = clock /\ clock' = clock
    BY <1>1, <1>2 DEF Current, Grant
  <2> QED BY <2>1, <2>2 DEF Timely
<1> QED BY <1>3, <1>4, StandingStep DEF Grant

(* What becomes of a reading.                                              *)
LEMMA ExpiredType ==
  ASSUME ConsoleOK
  PROVE  /\ Expired \in Adapters /\ ~Expired.reading.taken
         /\ NoAdapter \in Adapters /\ ~NoAdapter.reading.taken
<1>1. NoReading \in Taken /\ ~NoReading.taken
  BY DEF NoReading, Taken, Times
<1> QED BY <1>1 DEF ConsoleOK, Expired, NoAdapter, Times

LEMMA OlderType ==
  ASSUME ConsoleOK
  PROVE  /\ Older \in Adapters
         /\ Older.reading.taken => Older.reading = [adapter.reading EXCEPT !.age = @ + 1]
<1>1. CASE adapter.reading.age + 1 < Age
  <2>1. Older = [adapter EXCEPT !.reading.age = @ + 1]
    BY <1>1 DEF Older
  <2>2. adapter.reading \in Taken
    BY DEF ConsoleOK
  <2>3. [adapter.reading EXCEPT !.age = @ + 1] \in Taken
    BY <2>2 DEF Taken
  <2>4. Older = [adapter EXCEPT !.reading = [adapter.reading EXCEPT !.age = @ + 1]]
    BY <2>1
  <2> QED BY <2>3, <2>4 DEF ConsoleOK
<1>2. CASE ~(adapter.reading.age + 1 < Age)
  BY <1>2, ExpiredType DEF Older
<1> QED BY <1>1, <1>2

LEMMA PlayStep == ASSUME Base, Play PROVE Step
<1>1. ConsoleOK' /\ ghost' \in Ghosts
  <2>1. ghost' \in Ghosts
    BY DEF Base, ConsoleOK, Play, Ghosts
  <2> QED BY <2>1, OlderType DEF Base, ConsoleOK, Play, Ghosts
<1>2. Timely'
  <2>1. adapter.reading \in Taken /\ clock' = clock
    BY DEF Base, ConsoleOK, Play
  <2>2. [adapter.reading EXCEPT !.age = @ + 1].at = adapter.reading.at
        /\ [adapter.reading EXCEPT !.age = @ + 1].taken = adapter.reading.taken
    BY <2>1 DEF Taken
  <2> QED BY <2>1, <2>2, OlderType DEF Base, Timely, Play
<1> QED BY <1>1, <1>2, StandingStep DEF Play

LEMMA MoveStep == ASSUME Base, Move PROVE Step
<1>1. ghost' \in Ghosts
  <2>1. Lost \in Ghosts
    BY DEF Ghosts, Lost, Ghost
  <2>2. ghost \in Ghosts /\ [ghost EXCEPT !.docked = @ + 1] \in Ghosts
    BY DEF Base, ConsoleOK, Ghosts
  <2> QED BY <2>1, <2>2 DEF Move
<1>2. mode' \in {"tv", "hand"} /\ moves' \in Nat
  BY DEF Base, ConsoleOK, Move
<1>3. ConsoleOK' /\ Timely'
  BY <1>1, <1>2 DEF Base, ConsoleOK, Timely, Move, Ghosts
<1> QED BY <1>3, StandingStep DEF Move

LEMMA RestStep == ASSUME Base, Rest PROVE Step
<1>1. clock' \in Nat /\ spent' \in Nat
  BY DEF Base, ConsoleOK, Rest
<1>2. ghost' \in Ghosts
  BY GhostType DEF Base, ConsoleOK, Rest, Ghost, Ghosts
<1>3. ConsoleOK'
  BY <1>1, <1>2, ExpiredType DEF Base, ConsoleOK, Rest, Ghosts
<1>4. Timely'
  BY ExpiredType DEF Base, Timely, Rest
<1> QED BY <1>3, <1>4, StandingStep DEF Rest

LEMMA PutBackStep == ASSUME Base, PutBack PROVE Step
<1>1. clock' \in Nat /\ spent' \in Nat /\ clock' < clock /\ clock \in Nat
  BY DEF Base, ConsoleOK, PutBack
<1>2. ghost' \in Ghosts
  BY GhostType DEF Base, ConsoleOK, PutBack, Ghosts
<1>3. ConsoleOK'
  BY <1>1, <1>2 DEF Base, ConsoleOK, PutBack, Ghosts
<1>4. Timely'
  BY <1>1 DEF Base, ConsoleOK, Taken, Timely, PutBack
<1> QED BY <1>3, <1>4, StandingStep DEF PutBack

LEMMA StopStep == ASSUME Base, Stop PROVE Step
<1>1. moves' \in Nat
  BY DEF Base, ConsoleOK, Stop
<1>2. ConsoleOK'
  BY <1>1, ExpiredType DEF Base, ConsoleOK, Stop
<1>3. Timely'
  BY ExpiredType DEF Base, Timely, Stop
<1> QED BY <1>2, <1>3, StandingStep DEF Stop

LEMMA ConfirmStep == ASSUME Base, Confirm PROVE Step
<1>1. faults' \in Nat
  BY DEF Base, ConsoleOK, Confirm
<1>2. ConsoleOK' /\ Timely'
  BY <1>1 DEF Base, ConsoleOK, Timely, Confirm
<1> QED BY <1>2, StandingStep DEF Confirm

LEMMA BreakStep == ASSUME Base, Break PROVE Base'
<1>1. faults' \in Nat /\ ghost' \in Ghosts
  <2>1. Lost \in Ghosts
    BY DEF Lost, Ghost, Ghosts
  <2> QED BY <2>1 DEF Base, ConsoleOK, Break
<1>2. ConsoleOK' /\ Timely'
  BY <1>1 DEF Base, ConsoleOK, Timely, Break, Ghosts
<1>3. StateOK' /\ Sound(state)'
  BY NewStateType DEF StateOK, Break
<1> QED BY <1>2, <1>3 DEF Base

(* What is put back is as sound as it was when it was copied.              *)
Journals == [state : States, enabled : BOOLEAN, blocks : BOOLEAN, left : BOOLEAN]
CopyOK == blocks \in BOOLEAN /\ (journal # None => journal \in Journals /\ Sound(journal.state))

LEMMA UndoneKeeps ==
  ASSUME Base, CopyOK, Undone
  PROVE  /\ state' \in States /\ Sound(state') /\ enabled' \in BOOLEAN /\ ghost' \in Ghosts
         /\ journal' = None /\ (state' = state \/ (journal # None /\ state' = journal.state))
<1>1. CASE journal = None
  BY <1>1 DEF Undone, Base, StateOK, ConsoleOK
<1>2. CASE journal # None
  BY <1>2, GhostType DEF Undone, CopyOK, Journals, Base, ConsoleOK
<1> QED BY <1>1, <1>2

LEMMA RollbackStep == ASSUME Base, CopyOK, Rollback PROVE Base'
<1>1. state' \in States /\ Sound(state') /\ enabled' \in BOOLEAN /\ ghost' \in Ghosts
  BY UndoneKeeps DEF Rollback
<1>2. ConsoleOK' /\ Timely'
  BY <1>1 DEF Base, ConsoleOK, Timely, Rollback, Ghosts
<1> QED BY <1>1, <1>2 DEF Base, StateOK, Sound

LEMMA StartStep == ASSUME Base, CopyOK, Start PROVE Base'
<1>1. state' \in States /\ Sound(state') /\ enabled' \in BOOLEAN /\ ghost' \in Ghosts
  BY UndoneKeeps DEF Start
<1>2. ConsoleOK'
  BY <1>1, ExpiredType DEF Base, ConsoleOK, Start, Ghosts
<1>3. Timely'
  BY ExpiredType DEF Base, Timely, Start
<1> QED BY <1>1, <1>2, <1>3 DEF Base, StateOK, Sound

-----------------------------------------------------------------------------
LEMMA BaseInit == ASSUME Init PROVE Base
<1>1. NoReading \in Taken /\ ~NoReading.taken
  BY DEF NoReading, Taken, Times
<1>2. NoAdapter \in Adapters /\ ~NoAdapter.reading.taken
  BY <1>1 DEF NoAdapter, Times
<1>3. ConsoleOK
  <2>1. Ghost \in Ghosts
    BY DEF Ghost, Ghosts
  <2> QED BY <1>2, <2>1 DEF Init, ConsoleOK, Ghosts
<1>4. Timely
  BY <1>2 DEF Init, Timely
<1>5. NoCounter \in Counters /\ ~NoCounter.known /\ ~NoCounter.direct /\ NoCounter.at = 0
  BY NewStateType
<1>6. NewState \in States /\ NewState.counter = NoCounter /\ NewState.day = 0 /\ ~NewState.tracking
  BY NewStateType
<1>7. ASSUME NEW day \in {0, 1}, NEW known \in BOOLEAN, NEW unknown \in BOOLEAN
      PROVE  /\ Legacy(day, known, unknown) \in States
             /\ Legacy(day, known, unknown).counter = NoCounter
             /\ Legacy(day, known, unknown).tracking
  <2>1. Legacy(day, known, unknown) =
          [NewState EXCEPT !.tracking = TRUE, !.known = known, !.unknown = unknown, !.day = day]
    BY DEF Legacy
  <2>2. day \in Nat
    OBVIOUS
  <2> QED BY <1>6, <2>1, <2>2 DEF States
<1>8. state \in States /\ state.counter = NoCounter /\ (~state.tracking => state.day = 0)
  <2>1. CASE state = NewState
    BY <1>6, <2>1
  <2>2. CASE \E day \in {0, 1}, known \in BOOLEAN : state = Legacy(day, known, ~known)
    <3>1. PICK day \in {0, 1}, known \in BOOLEAN : state = Legacy(day, known, ~known)
      BY <2>2
    <3>2. (~known) \in BOOLEAN
      OBVIOUS
    <3> QED BY <1>7, <3>1, <3>2
  <2> QED BY <2>1, <2>2 DEF Init
<1> QED BY <1>3, <1>4, <1>5, <1>8 DEF Base, StateOK, Sound

LEMMA CopyInit == ASSUME Init PROVE CopyOK
BY DEF Init, CopyOK

(* The copies are of counts as they are saved.                             *)
LEMMA CopiedOK ==
  ASSUME Base, blocks \in BOOLEAN, NEW t \in States, Sound(t), NEW left \in BOOLEAN
  PROVE  Copied(t, left) \in Journals /\ Sound(Copied(t, left).state) /\ Copied(t, left).state = t
BY DEF Copied, Journals, Base, ConsoleOK

LEMMA BlocksType == ASSUME NEW t, NEW a \in BOOLEAN, NEW m PROVE Blocks(t, a, m) \in BOOLEAN
BY DEF Blocks

(* How the journal changes: it may be kept or removed, marked, or made of   *)
(* the count that a sample made.                                           *)
Marked == journal # None /\ \E left \in BOOLEAN : journal' = [journal EXCEPT !.left = left]
Made == \E t \in States, left \in BOOLEAN : Sound(t) /\ NotLess(state, t) /\ journal' = Copied(t, left)

LEMMA JournalStep ==
  ASSUME Base, CopyOK, [Next]_vars
  PROVE  journal' = journal \/ journal' = None \/ Marked \/ Made
<1>1. CASE Tick
  <2>1. PICK r \in Readings, m \in {mode, "unknown"} :
          /\ Looks(r, m, 0) /\ state' = Sampled(state, enabled, r, m, ~sampled)
          /\ journal' \in {journal, IF journal = None THEN Copied(state', FALSE) ELSE [journal EXCEPT !.left = FALSE]}
    BY <1>1 DEF Tick
  <2>2. state' \in States /\ Sound(state') /\ NotLess(state, state')
    <3>1. Base' /\ NotLess(state, state')
      BY <1>1, TickStep DEF Step
    <3> QED BY <3>1 DEF Base, StateOK, Sound
  <2> QED BY <2>1, <2>2 DEF Marked, Made
<1>2. CASE SetPolicy
  <2>1. PICK r \in Readings, m \in {mode} : Ends(Sampled(state, enabled, r, m, ~sampled), r, m)
    BY <1>2 DEF SetPolicy
  <2> DEFINE u == Sampled(state, enabled, r, m, ~sampled)
  <2>2. m \in Modes /\ \E n \in {0, 1} : Looks(r, m, n)
    BY <2>1 DEF Base, ConsoleOK, Modes, Ends
  <2>3. u \in States /\ Sound(u) /\ NotLess(state, u)
    <3>1. Current(r) /\ clock \in Nat /\ state \in States /\ enabled \in BOOLEAN /\ (~sampled) \in BOOLEAN
      BY <2>2, LooksGives DEF Base, ConsoleOK, StateOK
    <3> QED BY <2>2, <3>1, SampledKeeps DEF Base
  <2>4. journal' = None \/ journal' = Copied(u, TRUE)
    BY <2>1 DEF Ends
  <2> HIDE DEF u
  <2> QED BY <2>3, <2>4 DEF Made
<1>3. CASE Waive
  <2>1. PICK r \in Readings, m \in {mode} : Ends(Sampled(state, enabled, r, m, ~sampled), r, m)
    BY <1>3 DEF Waive
  <2> DEFINE u == Sampled(state, enabled, r, m, ~sampled)
  <2>2. m \in Modes /\ \E n \in {0, 1} : Looks(r, m, n)
    BY <2>1 DEF Base, ConsoleOK, Modes, Ends
  <2>3. u \in States /\ Sound(u) /\ NotLess(state, u)
    <3>1. Current(r) /\ clock \in Nat /\ state \in States /\ enabled \in BOOLEAN /\ (~sampled) \in BOOLEAN
      BY <2>2, LooksGives DEF Base, ConsoleOK, StateOK
    <3> QED BY <2>2, <3>1, SampledKeeps DEF Base
  <2>4. journal' = None \/ journal' = Copied(u, TRUE)
    BY <2>1 DEF Ends
  <2> HIDE DEF u
  <2> QED BY <2>3, <2>4 DEF Made
<1>4. CASE Confirm
  BY <1>4 DEF Confirm, Settling, Marked
<1>5. CASE Break
  BY <1>5 DEF Break, Marked
<1>6. CASE Rollback \/ Start
  BY <1>6 DEF Rollback, Start, Undone
<1>7. CASE Unsaved \/ Rebase \/ Grant \/ Play \/ Move \/ Rest \/ PutBack \/ Stop \/ UNCHANGED vars
  BY <1>7 DEF Unsaved, Rebase, Grant, Play, Move, Rest, PutBack, Stop, vars
<1> QED BY <1>1, <1>2, <1>3, <1>4, <1>5, <1>6, <1>7 DEF Next

LEMMA CopyStep == ASSUME Base, CopyOK, [Next]_vars PROVE CopyOK'
<1>1. blocks' \in BOOLEAN
  <2>1. enabled \in BOOLEAN /\ (~enabled) \in BOOLEAN /\ blocks \in BOOLEAN
    BY DEF Base, ConsoleOK, CopyOK
  <2>2. Undone => blocks' \in BOOLEAN
    BY <2>1 DEF Undone, CopyOK, Journals
  <2> QED BY <2>1, <2>2, BlocksType DEF Next, Tick, Unsaved, Rebase, Confirm, Break, Rollback, SetPolicy, Waive,
             Grant, Play, Move, Rest, PutBack, Stop, Start, vars
<1>2. CASE journal' = journal \/ journal' = None
  BY <1>1, <1>2 DEF CopyOK, Sound
<1>3. CASE Marked
  <2>1. journal' \in Journals /\ journal'.state = journal.state
    BY <1>3 DEF Marked, CopyOK, Journals
  <2> QED BY <1>1, <1>3, <2>1 DEF CopyOK, Marked, Sound
<1>4. CASE Made
  <2>1. PICK t \in States, left \in BOOLEAN : Sound(t) /\ journal' = Copied(t, left)
    BY <1>4 DEF Made
  <2>2. journal' \in Journals /\ journal'.state = t
    BY <2>1, CopiedOK DEF CopyOK
  <2> QED BY <1>1, <2>1, <2>2 DEF CopyOK, Sound
<1> QED BY <1>2, <1>3, <1>4, JournalStep

(* Every step keeps the base; one that takes something from the count puts *)
(* a copy back, or a call of it fails and the file is lost.                *)
LEMMA BaseStep ==
  ASSUME Base, CopyOK, [Next]_vars
  PROVE  /\ Base'
         /\ \/ NotLess(state, state')
            \/ journal # None /\ state' = journal.state
            \/ FileLost
<1>1. CASE Tick      BY <1>1, TickStep DEF Step
<1>2. CASE Unsaved
  <2>1. faults' > faults
    <3>1. PICK r, m : Looks(r, m, 1)
      BY <1>2 DEF Unsaved
    <3> DEFINE cost == (IF r.total = None /\ ~Usable(adapter.reading) THEN 1 ELSE 0) + (IF m = "unknown" THEN 1 ELSE 0)
    <3>2. cost \in Nat /\ faults' = faults + cost + 1 /\ faults \in Nat
      BY <3>1 DEF Looks, Base, ConsoleOK
    <3> HIDE DEF cost
    <3> QED BY <3>2
  <2>2. state' = state \/ state' = NewState
    BY <1>2 DEF Unsaved
  <2>3. NotLess(state, state)
    BY DEF Base, StateOK, States, NotLess
  <2> QED BY <1>2, <2>1, <2>2, <2>3, UnsavedStep DEF FileLost
<1>3. CASE Rebase    BY <1>3, RebaseStep DEF Step
<1>4. CASE Confirm   BY <1>4, ConfirmStep DEF Step
<1>5. CASE Break
  <2>1. faults' > faults /\ state' = NewState
    BY <1>5 DEF Break, Base, ConsoleOK
  <2> QED BY <1>5, <2>1, BreakStep DEF FileLost
<1>6. CASE Rollback  BY <1>6, RollbackStep DEF Rollback, Undone
<1>7. CASE SetPolicy BY <1>7, SetPolicyStep DEF Step
<1>8. CASE Waive     BY <1>8, WaiveStep DEF Step
<1>9. CASE Grant     BY <1>9, GrantStep DEF Step
<1>10. CASE Play     BY <1>10, PlayStep DEF Step
<1>11. CASE Move     BY <1>11, MoveStep DEF Step
<1>12. CASE Rest     BY <1>12, RestStep DEF Step
<1>13. CASE PutBack  BY <1>13, PutBackStep DEF Step
<1>14. CASE Stop     BY <1>14, StopStep DEF Step
<1>15. CASE Start
  <2>1. NotLess(state, state)
    BY DEF Base, StateOK, States, NotLess
  <2>2. state' = state \/ (journal # None /\ state' = journal.state)
    BY <1>15, UndoneKeeps DEF Start
  <2> QED BY <1>15, <2>1, <2>2, StartStep
<1>16. CASE UNCHANGED vars
  <2>1. ConsoleOK' /\ Timely'
    BY <1>16 DEF Base, ConsoleOK, Timely, vars
  <2> QED BY <1>16, <2>1, StandingStep DEF Step, vars
<1> QED BY <1>1, <1>2, <1>3, <1>4, <1>5, <1>6, <1>7, <1>8, <1>9, <1>10, <1>11, <1>12, <1>13, <1>14, <1>15, <1>16 DEF Next

(* Whatever the service, the parent and the console do, the variables keep *)
(* their types and the fields of state.json fit together, in the file and  *)
(* in the copy that a transaction has.                                     *)
THEOREM BaseInvariant == Spec => [](Base /\ CopyOK)
<1>1. Init => Base /\ CopyOK
  BY BaseInit, CopyInit
<1>2. Base /\ CopyOK /\ [Next]_vars => (Base /\ CopyOK)'
  BY BaseStep, CopyStep
<1> QED BY <1>1, <1>2, PTL DEF Spec

(* No restart, change of the policy, waiver, reset of PCTL or of the clock *)
(* gives play of a date back, nor a date a second time (dock_sample_direct, *)
(* dock_sample_usage): a step makes a count no less, puts back one that a   *)
(* transaction copied, or loses the file in a save that is broken off.     *)
THEOREM NeverRefunded == Spec => NothingRefunded
<1>1. ASSUME Base, CopyOK, [Next]_vars, NEW u \in Copies'
      PROVE  (\E t \in Copies : NotLess(t, u)) \/ (FileLost /\ u = NewState)
  <2>1. state \in Copies /\ NotLess(state, state) /\ (journal # None => journal.state \in Copies)
    <3>1. state.day \in Nat /\ state.used \in Nat
      BY <1>1 DEF Base, StateOK, States
    <3>2. NotLess(state, state)
      BY <3>1 DEF NotLess
    <3> QED BY <3>2 DEF Copies
  <2>2. journal # None => NotLess(journal.state, journal.state)
    <3> SUFFICES ASSUME journal # None PROVE NotLess(journal.state, journal.state)
      OBVIOUS
    <3>1. journal.state \in States
      BY <1>1 DEF CopyOK, Journals
    <3>2. journal.state.day \in Nat /\ journal.state.used \in Nat
      BY <3>1 DEF States
    <3> QED BY <3>2 DEF NotLess
  <2>3. CASE u = state'
    BY <1>1, <2>1, <2>2, <2>3, BaseStep DEF FileLost
  <2>4. CASE journal' # None /\ u = journal'.state
    <3>1. CASE journal' = journal
      BY <2>1, <2>2, <2>4, <3>1
    <3>2. CASE Marked
      <4>1. u = journal.state
        BY <2>4, <3>2 DEF Marked, CopyOK, Journals
      <4> QED BY <2>1, <2>2, <3>2, <4>1 DEF Marked
    <3>3. CASE Made
      <4>1. PICK t \in States, left \in BOOLEAN : Sound(t) /\ NotLess(state, t) /\ journal' = Copied(t, left)
        BY <3>3 DEF Made
      <4>2. u = t
        BY <2>4, <4>1 DEF Copied
      <4> QED BY <2>1, <4>1, <4>2
    <3> QED BY <1>1, <2>4, <3>1, <3>2, <3>3, JournalStep
  <2> QED BY <2>3, <2>4 DEF Copies
<1>2. Base /\ CopyOK /\ [Next]_vars =>
        [\A u \in Copies' : (\E t \in Copies : NotLess(t, u)) \/ (FileLost /\ u = NewState)]_vars
  BY <1>1
<1> QED BY <1>2, BaseInvariant, PTL DEF Spec, NothingRefunded

-----------------------------------------------------------------------------
(***************************************************************************)
(* The count holds the handheld play.                                      *)
(***************************************************************************)
USE ParametersAssumption
HIDE DEF Ghosts, Adapters

LEMMA SlackType ==
  ASSUME ghost \in Ghosts
  PROVE  Slack \in Nat /\ Age - 1 \in Nat /\ (ghost.docked # 0 => Slack >= Age - 1)
<1>1. ghost.docked \in Nat /\ Age - 1 \in Nat
  BY DEF Ghosts
<1>2. ASSUME NEW a \in Nat, NEW d \in Nat PROVE a * d \in Nat /\ (d # 0 => a * d >= a)
  OBVIOUS
<1> QED BY <1>1, <1>2 DEF Slack

(* The state in which a reading of this moment is put to the count.        *)
Looking(t, r, m, read) ==
  /\ Base /\ t \in States /\ Sound(t) /\ Current(r) /\ m \in {mode, "unknown"} /\ read \in Nat
  /\ Played /\ Tells(r) /\ read <= ghost.hand
  /\ m \in Modes /\ mode \in {"tv", "hand"}

(* What is known of the play after the reading.                            *)
ReadNow(r, read) == IF r.total = None THEN read ELSE r.hand

(* The numbers involved.                                                   *)
LEMMA Numbers ==
  ASSUME NEW t, NEW r, NEW m, NEW read, Looking(t, r, m, read)
  PROVE  /\ t.used \in Nat /\ t.day \in Nat /\ t.counter \in Counters /\ t.counter.total \in Nat
         /\ t.counter.day \in Nat /\ t.counter.at \in Nat
         /\ spent \in Nat /\ ghost.hand \in Nat /\ clock \in Nat /\ Today \in Nat
         /\ Slack \in Nat /\ Age - 1 \in Nat /\ (ghost.docked # 0 => Slack >= Age - 1)
         /\ r \in Taken /\ r.hand \in Nat /\ r.age \in Nat /\ (r.total # None => r.total \in Nat /\ Fresh(r))
         /\ read \in Nat /\ ReadNow(r, read) \in Nat /\ ReadNow(r, read) <= ghost.hand
<1>1. t.used \in Nat /\ t.day \in Nat /\ t.counter \in Counters
  BY DEF Looking, States
<1>2. t.counter.total \in Nat /\ t.counter.day \in Nat /\ t.counter.at \in Nat
  BY <1>1 DEF Counters
<1>3. spent \in Nat /\ ghost \in Ghosts /\ clock \in Nat /\ ghost.hand \in Nat
  BY DEF Looking, Base, ConsoleOK, Ghosts
<1>4. Today \in Nat
  BY <1>3, DateType DEF Today
<1>5. r \in Taken /\ r.hand \in Nat /\ r.age \in Nat /\ (r.total # None => r.total \in Nat /\ Fresh(r))
  BY <1>3 DEF Looking, Current, Taken, Times, Fresh, Usable
<1>6. read \in Nat /\ ReadNow(r, read) \in Nat /\ ReadNow(r, read) <= ghost.hand
  BY <1>5 DEF Looking, ReadNow, Tells
<1> QED BY <1>1, <1>2, <1>3, <1>4, <1>5, <1>6, SlackType

(* A count of an earlier date that the sample cannot be joined to is too   *)
(* far away.                                                               *)
LEMMA Unjoined ==
  ASSUME NEW t, NEW r, NEW m, NEW read, Looking(t, r, m, read), r.total # None,
         t.tracking, t.day # Today,
         \/ StepKind(t.counter, Sample(r)) = "unknown"
         \/ ~OrdinaryDay(t, Sample(r))
  PROVE  TooFar(t)
<1> DEFINE s == Sample(r)
<1>1. s.at = clock /\ s.day = Today /\ clock \in Nat /\ Today \in Nat
  BY Numbers, SampleType DEF Looking
<1>2. t.counter.at \in Nat /\ t.day \in Nat /\ t.counter.day \in Nat
  BY Numbers
<1>3. CASE ~t.counter.direct
  BY <1>3 DEF Looking, Sound, TooFar
<1>4. CASE t.counter.direct
  <2>1. t.counter.day = t.day /\ Date(t.counter.at) = t.day
    BY <1>4 DEF Looking, Sound
  <2>2. t.day + 1 = Today => clock > t.counter.at
    <3>1. CASE clock <= t.counter.at
      <4>1. Date(clock) <= Date(t.counter.at)
        BY <1>1, <1>2, <3>1 DEF Date
      <4> QED BY <1>1, <1>2, <2>1, <4>1 DEF Today
    <3> QED BY <1>1, <1>2, <3>1
  <2>3. CASE StepKind(t.counter, s) = "unknown"
    <3>1. ~(s.at > t.counter.at /\ s.day = t.counter.day + 1 /\ ~Long(t.counter.at, s.at))
      BY <2>3 DEF StepKind
    <3> QED BY <1>1, <1>2, <2>1, <2>2, <3>1 DEF TooFar
  <2>4. CASE ~OrdinaryDay(t, s)
    BY <1>1, <1>2, <2>2, <2>4 DEF OrdinaryDay, TooFar
  <2> QED BY <2>3, <2>4
<1> QED BY <1>3, <1>4

(* What the measures of a count depend on.                                 *)
LEMMA Measures ==
  ASSUME NEW t, NEW u, u.used = t.used, u.day = t.day, u.counter.total = t.counter.total,
         u.counter.at = t.counter.at
  PROVE  /\ TooFar(u) <=> TooFar(t)
         /\ \A x, r : Bounded(u, x, r) <=> Bounded(t, x, r)
BY DEF TooFar, Bounded

LEMMA UncertainOwed ==
  ASSUME NEW t, NEW r, NEW m, NEW read, Looking(t, r, m, read), NEW gap, NEW seen,
         Owed(t, gap, seen, r, read), NEW new,
         t.tracking /\ t.day # Today /\ new > 0 => TooFar(t)
  PROVE  Owed(Uncertain(t), FALSE, TRUE, r, new)
<1> DEFINE u == Uncertain(t)
<1>1. /\ u.tracking = t.tracking /\ u.day = t.day /\ u.used = t.used /\ u.counter = t.counter
      /\ u.incomplete = t.incomplete /\ u.unknown /\ ~u.known
  BY DEF Looking, States, Uncertain
<1>2. SUFFICES Owed(u, FALSE, TRUE, r, new)
  OBVIOUS
<1> HIDE DEF u
<1>3. (TooFar(u) <=> TooFar(t)) /\ \A x : Bounded(u, x, r) <=> Bounded(t, x, r)
  BY <1>1, Measures
<1>4. Running(u, FALSE, TRUE, r)
  BY <1>1, <1>3 DEF Owed, Running, Due
<1>5. Parked(u) /\ Dated(u) /\ Holds(u, new)
  BY <1>1 DEF Owed, Parked, Dated, Holds
<1>6. Early(u, new)
  BY <1>1, <1>3 DEF Owed, Early
<1> QED BY <1>4, <1>5, <1>6 DEF Owed

(* A count without a counter, which no allowance asks for.                 *)
LEMMA UnwatchedOwed ==
  ASSUME NEW t \in States, Sound(t), Clear(t), ~t.counter.known, NEW gap, NEW seen, NEW r, NEW read, NEW new,
         Owed(t, gap, seen, r, read), new \in Nat, new <= ghost.hand, ghost \in Ghosts,
         Today \in Nat
  PROVE  \A g, s : Owed(Unwatched(t), g, s, r, new)
<1> DEFINE u == Unwatched(t)
<1>1. /\ u.tracking = t.tracking /\ u.day = t.day /\ u.used = t.used /\ u.known = t.known
      /\ u.counter.direct = t.counter.direct /\ ~u.counter.known /\ u.counter.total = t.counter.total
      /\ u.counter.at = t.counter.at /\ u.counter.day = t.counter.day
      /\ ~u.incomplete => ~t.incomplete /\ (~t.counter.direct \/ (t.known /\ ~t.unknown))
  <2>1. t.counter \in Counters
    BY DEF States
  <2> QED BY <2>1 DEF Sound, States, Counters, Unwatched
<1>2. SUFFICES ASSUME NEW g, NEW s PROVE Owed(u, g, s, r, new)
  OBVIOUS
<1>3. ghost.hand \in Nat /\ t.used \in Nat /\ Slack \in Nat
  BY SlackType DEF Ghosts, States
<1> HIDE DEF u
<1>4. TooFar(u) <=> TooFar(t)
  BY <1>1, Measures
<1>5. Running(u, g, s, r) /\ Parked(u) /\ Dated(u)
  BY <1>1 DEF Owed, Running, Parked, Dated
<1>6. Early(u, new)
  BY <1>1, <1>3, <1>4 DEF Owed, Early
<1>7. Holds(u, new)
  BY <1>1, <1>3 DEF Owed, Holds, Parked, Clear
<1> QED BY <1>5, <1>6, <1>7 DEF Owed

(* A counted sample, when the count goes on from a counter of today.       *)
LEMMA GoingOn ==
  ASSUME NEW t, NEW r, NEW m, NEW read, Looking(t, r, m, read), NEW gap, NEW seen,
         Owed(t, gap, seen, r, read), r.total # None,
         t.counter.known, t.counter.day = Today, ~t.incomplete, r.total >= t.counter.total,
         NEW used \in Nat, used >= t.used,
         Due(t, gap) \/ m # "tv" => used = t.used + (r.total - t.counter.total)
  PROVE  /\ r.hand <= used + Slack
         /\ mode = "hand" => /\ ghost.hand + r.total <= used + Slack + spent
         /\ mode = "tv" => ghost.hand <= used + Slack
<1>0. /\ t.used \in Nat /\ t.counter.total \in Nat /\ spent \in Nat /\ ghost.hand \in Nat
      /\ Slack \in Nat /\ Age - 1 \in Nat /\ r.hand \in Nat /\ r.age \in Nat /\ r.total \in Nat /\ Fresh(r)
  BY Numbers
<1>1. /\ r.hand <= ghost.hand /\ ghost.hand + r.total <= r.hand + spent /\ ghost.hand <= r.hand + r.age
      /\ r.age <= Age - 1
  BY <1>0 DEF Looking, Tells
<1> USE <1>0
<1>2. CASE mode = "hand"
  <2>1. m # "tv" /\ Bounded(t, 0, r)
    BY <1>2 DEF Looking, Owed, Running
  <2>2. r.hand + t.counter.total <= t.used + Slack + r.total /\ used = t.used + (r.total - t.counter.total)
    BY <1>1, <2>1 DEF Bounded
  <2> QED BY <1>1, <1>2, <2>2
<1>3. CASE mode = "tv"
  <2>1. CASE ghost.hand <= t.used + Slack
    BY <1>1, <1>3, <2>1
  <2>2. CASE Due(t, gap) /\ Bounded(t, Age - 1, r)
    <3>1. r.hand + t.counter.total + (Age - 1) <= t.used + Slack + r.total /\ used = t.used + (r.total - t.counter.total)
      BY <1>1, <2>2 DEF Bounded
    <3> HIDE ParametersAssumption
    <3> QED BY <1>1, <1>3, <3>1
  <2> QED BY <1>3, <2>1, <2>2 DEF Owed, Running
<1> QED BY <1>2, <1>3 DEF Looking

(* What a counted sample has to show.                                      *)
LEMMA CountedParts ==
  ASSUME NEW t, NEW r, NEW m, NEW read, Looking(t, r, m, read), r.total # None,
         NEW u, u.tracking, u.day = Today, u.counter = Sample(r), u.mode = m, ~u.unknown,
         u.known <=> ~u.incomplete, u.incomplete \in BOOLEAN, u.used \in Nat,
         ~u.incomplete => /\ r.hand <= u.used + Slack
                          /\ mode = "hand" => ghost.hand + r.total <= u.used + Slack + spent
                          /\ mode = "tv" => ghost.hand <= u.used + Slack
  PROVE  Owed(u, FALSE, TRUE, r, r.hand)
<1>1. /\ u.counter.known /\ u.counter.direct /\ u.counter.total = r.total /\ r.total <= spent
  BY Numbers, SampleType DEF Looking, Tells
<1>2. /\ r.total \in Nat /\ r.hand \in Nat /\ Slack \in Nat /\ spent \in Nat /\ ghost.hand \in Nat
      /\ Today \in Nat /\ r.hand <= ghost.hand
  BY Numbers DEF Looking, Tells
<1>3. Parked(u) /\ Dated(u)
  BY <1>1, <1>2 DEF Parked, Dated
<1>4. Early(u, r.hand) /\ Holds(u, r.hand)
  BY <1>1 DEF Early, Holds
<1>5. Running(u, FALSE, TRUE, r)
  <2>1. CASE ~u.incomplete /\ mode = "hand"
    <3>1. Bounded(u, 0, r)
      BY <1>1, <1>2, <2>1 DEF Bounded
    <3>2. m # "tv"
      BY <2>1 DEF Looking
    <3> QED BY <2>1, <3>1, <3>2 DEF Running, Due
  <2>2. CASE ~u.incomplete /\ mode = "tv"
    BY <2>2 DEF Running
  <2>3. CASE u.incomplete
    BY <2>3 DEF Running
  <2> QED BY <2>1, <2>2, <2>3 DEF Looking
<1> QED BY <1>3, <1>4, <1>5 DEF Owed

LEMMA CountedOwed ==
  ASSUME NEW t, NEW r, NEW m, NEW read, Looking(t, r, m, read), NEW gap \in BOOLEAN, NEW seen,
         Owed(t, gap, seen, r, read), r.total # None
  PROVE  Owed(Counted(t, Sample(r), m, gap), FALSE, TRUE, r, r.hand)
<1> DEFINE s     == Sample(r)
           kind  == StepKind(t.counter, s)
           mig   == Migrated(t, s)
           new   == NewDay(mig)
           lacks == new.incomplete \/ (~t.counter.direct /\ new.tracking /\ (~new.known \/ new.unknown))
           add   == IF Charged(new, kind, m, gap) THEN Delta(t.counter, s) ELSE 0
           u     == Counted(t, s, m, gap)
<1>1. /\ s \in Counters /\ s.day = Today /\ s.known /\ s.direct /\ s.at = clock /\ s.total = r.total
      /\ t \in States /\ Sound(t) /\ clock \in Nat
  BY SampleType, Numbers DEF Looking
<1>2. /\ t.used \in Nat /\ t.counter.total \in Nat /\ spent \in Nat /\ ghost.hand \in Nat /\ Slack \in Nat
      /\ r.hand \in Nat /\ r.age \in Nat /\ r.total \in Nat /\ Today \in Nat /\ t.day \in Nat /\ Age - 1 \in Nat
      /\ (ghost.docked # 0 => Slack >= Age - 1) /\ t.incomplete \in BOOLEAN /\ ghost.docked \in Nat
  BY Numbers DEF Looking, States, Base, ConsoleOK, Ghosts, Adapters
<1>3. /\ r.total <= spent /\ r.hand <= r.total /\ r.hand <= ghost.hand
      /\ ghost.hand + r.total <= r.hand + spent /\ ghost.hand <= r.hand + r.age /\ r.age <= Age - 1
  <2>1. Fresh(r) /\ Tells(r)
    BY Numbers DEF Looking
  <2> QED BY <1>2, <2>1 DEF Tells
<1>4. /\ mig \in States /\ Sound(mig) /\ mig.counter = t.counter /\ mig.tracking = t.tracking
  BY <1>1, MigratedKeeps
<1>5. mig = t \/ (mig.day = Today /\ ~t.counter.direct)
  <2>1. CASE ~t.counter.direct /\ ~t.counter.known /\ t.tracking /\ s.day > t.day
    BY <1>1, <2>1 DEF Migrated, States
  <2>2. CASE ~(~t.counter.direct /\ ~t.counter.known /\ t.tracking /\ s.day > t.day)
    BY <2>2 DEF Migrated
  <2> QED BY <2>1, <2>2
<1>6. CASE kind = "unknown"
  <2>1. u = Uncertain(t)
    BY <1>6 DEF Counted
  <2>2. t.tracking /\ t.day # Today /\ r.hand > 0 => TooFar(t)
    BY <1>6, Unjoined
  <2> QED BY <2>1, <2>2, UncertainOwed
<1>7. CASE kind # "unknown" /\ mig.tracking /\ mig.day # Today /\ kind # "next day" /\ ~OrdinaryDay(mig, s)
  <2>1. u = Uncertain(t)
    BY <1>5, <1>7 DEF Counted
  <2>2. t.tracking /\ t.day # Today /\ r.hand > 0 => TooFar(t)
    BY <1>5, <1>7, Unjoined
  <2> QED BY <2>1, <2>2, UncertainOwed
<1>8. CASE kind # "unknown" /\ ~(mig.tracking /\ mig.day # Today /\ kind # "next day" /\ ~OrdinaryDay(mig, s))
  <2>1. u = [tracking |-> TRUE, incomplete |-> lacks, known |-> ~lacks, unknown |-> FALSE,
             day |-> Today, mode |-> m, counter |-> s, waived |-> t.waived, used |-> new.used + add]
    BY <1>8 DEF Counted
  <2>2. /\ u.tracking /\ u.day = Today /\ u.counter = s /\ u.mode = m /\ ~u.unknown
        /\ (u.known <=> ~u.incomplete) /\ u.incomplete = lacks /\ u.used = new.used + add
        /\ lacks \in BOOLEAN
    <3>1. lacks \in BOOLEAN
      <4> HIDE DEF mig, s
      <4> QED BY <1>1, <1>4 DEF NewDay, States, Counters
    <3> HIDE DEF lacks, add, new, s, u
    <3> QED BY <2>1, <3>1
  <2>3. new.used \in Nat /\ add \in Nat
    <3>1. Delta(t.counter, s) \in Nat
      BY <1>1, DeltaType DEF States
    <3> HIDE DEF mig, s
    <3> QED BY <1>4, <3>1 DEF NewDay, States
  <2>4. ASSUME ~lacks
        PROVE  /\ r.hand <= new.used + add + Slack
               /\ mode = "hand" => ghost.hand + r.total <= new.used + add + Slack + spent
               /\ mode = "tv" => ghost.hand <= new.used + add + Slack
    <3>1. CASE kind = "next day"
      <4>1. /\ t.counter.known /\ t.counter.direct /\ s.day = t.counter.day + 1
        BY <3>1 DEF StepKind
      <4>2. mig = t /\ t.tracking /\ t.day # Today
        BY <1>1, <1>2, <1>5, <4>1 DEF Sound
      <4>3. new.used = 0 /\ add = r.total
        BY <1>1, <3>1, <4>2 DEF NewDay, Charged, Delta, States
      <4>4. ghost.hand <= r.total + Slack \/ mode = "hand"
        <5>1. mode = "tv" /\ ghost.docked = 0 => ghost.hand = 0
          BY DEF Looking, Played
        <5> QED BY <1>2, <1>3, <5>1 DEF Looking
      <4>5. ghost.hand <= spent
        BY DEF Looking, Played
      <4> HIDE DEF new, add
      <4> QED BY <1>2, <1>3, <4>3, <4>4, <4>5
    <3>2. CASE kind = "delta"
      <4>1. /\ t.counter.known /\ t.counter.direct /\ s.day = t.counter.day /\ s.total >= t.counter.total
        BY <3>2 DEF StepKind
      <4>2. mig = t /\ t.tracking /\ t.day = Today /\ t.counter.day = Today /\ new = t
        BY <1>1, <1>5, <4>1 DEF Sound, NewDay
      <4>3. ~t.incomplete
        BY <2>4, <4>2
      <4>4. /\ new.used = t.used /\ new.used + add \in Nat /\ new.used + add >= t.used
            /\ Due(t, gap) \/ m # "tv" => new.used + add = t.used + (r.total - t.counter.total)
        <5>1. Charged(t, kind, m, gap) <=> Due(t, gap) \/ m # "tv"
          BY <3>2 DEF Charged, Due
        <5>2. Delta(t.counter, s) = r.total - t.counter.total
          BY <1>1, <3>2 DEF Delta
        <5>3. add = IF Charged(t, kind, m, gap) THEN r.total - t.counter.total ELSE 0
          BY <4>2, <5>2
        <5> HIDE DEF add, new
        <5> QED BY <1>2, <2>3, <4>2, <5>1, <5>3
      <4> HIDE DEF add, new
      <4> QED BY <1>1, <1>2, <4>1, <4>2, <4>3, <4>4, GoingOn
    <3>3. CASE kind = "baseline"
      <4>1. ~t.counter.known \/ ~t.counter.direct
        BY <3>3 DEF StepKind
      <4>2. ~t.counter.known
        BY <1>1, <4>1 DEF Sound
      <4>3. ghost.hand <= new.used + Slack
        <5>1. CASE ghost.hand = 0
          <6> HIDE DEF new
          <6> QED BY <1>2, <2>3, <5>1
        <5>2. CASE ghost.hand > 0
          <6>1. t.counter.direct /\ t.tracking /\ mig = t
            BY <1>1, <1>2, <1>5, <5>2 DEF Owed, Early, Sound
          <6>2. t.day = Today
            <7>1. CASE t.day # Today
              <8>1. TooFar(t) /\ OrdinaryDay(t, s)
                BY <1>8, <3>3, <4>2, <5>2, <6>1, <7>1 DEF Owed, Early
              <8> QED BY <1>1, <8>1 DEF TooFar, OrdinaryDay
            <7> QED BY <7>1
          <6>3. new = t
            BY <6>1, <6>2 DEF NewDay
          <6>4. ~t.incomplete
            BY <2>4, <6>3
          <6> QED BY <4>2, <6>2, <6>3, <6>4 DEF Owed, Parked
        <5> QED BY <1>2, <5>1, <5>2
      <4> HIDE DEF new, add
      <4> QED BY <1>2, <1>3, <2>3, <4>3
    <3>4. kind \in {"baseline", "delta", "next day", "unknown"}
      BY DEF StepKind
    <3> QED BY <1>8, <3>1, <3>2, <3>3, <3>4
  <2>5. u.incomplete \in BOOLEAN /\ u.used \in Nat
    <3> HIDE DEF u, lacks, add, new
    <3> QED BY <2>2, <2>3
  <2>6. ~u.incomplete => /\ r.hand <= u.used + Slack
                         /\ mode = "hand" => ghost.hand + r.total <= u.used + Slack + spent
                         /\ mode = "tv" => ghost.hand <= u.used + Slack
    <3> HIDE DEF u, lacks, add, new
    <3> QED BY <2>2, <2>4
  <2>7. Owed(u, FALSE, TRUE, r, r.hand)
    <3> HIDE DEF u, lacks, add, new
    <3> QED BY <2>2, <2>5, <2>6, CountedParts
  <2> QED BY <2>7
<1> QED BY <1>6, <1>7, <1>8

(* A sample under an allowance leaves a count that is clear.               *)
LEMMA SampledOwed ==
  ASSUME NEW t, NEW r, NEW m, NEW read, Looking(t, r, m, read), NEW gap \in BOOLEAN, NEW seen,
         Owed(t, gap, seen, r, read)
  PROVE  Owed(Sampled(t, TRUE, r, m, gap), FALSE, TRUE, r, ReadNow(r, read))
<1>1. CASE r.total = None
  <2>1. t.tracking /\ t.day # Today /\ read > 0 => TooFar(t)
    BY DEF Owed, Early
  <2> QED BY <1>1, <2>1, UncertainOwed DEF Sampled, ReadNow
<1>2. CASE r.total # None
  BY <1>2, CountedOwed DEF Sampled, ReadNow
<1> QED BY <1>1, <1>2

LEMMA SampledClear ==
  ASSUME NEW t \in States, NEW a \in BOOLEAN, NEW r, NEW m, NEW gap, a \/ Clear(t)
  PROVE  Clear(Sampled(t, a, r, m, gap)) /\ (~a => ~Sampled(t, a, r, m, gap).counter.known)
<1>1. CASE ~a
  <2>1. t.counter \in Counters
    BY DEF States
  <2> QED BY <1>1, <2>1 DEF Sampled, Unwatched, Clear, States, Counters
<1>2. CASE a /\ r.total = None
  BY <1>2 DEF Sampled, Uncertain, Clear, States
<1>3. CASE a /\ r.total # None
  <2> DEFINE u == Counted(t, Sample(r), m, gap)
             mig == Migrated(t, Sample(r))
  <2>1. CASE u = Uncertain(t)
    BY <1>3, <2>1 DEF Sampled, Uncertain, Clear, States
  <2>2. CASE u = Uncertain(mig)
    <3>1. mig = t \/ mig = [t EXCEPT !.used = Sample(r).total, !.day = Sample(r).day, !.incomplete = FALSE,
                                     !.known = TRUE, !.unknown = FALSE]
      BY DEF Migrated
    <3>2. ~Uncertain(mig).known
      <4>1. CASE mig = t
        BY <4>1 DEF Uncertain, States
      <4>2. CASE mig # t
        BY <3>1, <4>2 DEF Uncertain, States
      <4> QED BY <4>1, <4>2
    <3> HIDE DEF mig
    <3> QED BY <1>3, <2>2, <3>2 DEF Sampled, Clear
  <2>3. CASE u # Uncertain(t) /\ u # Uncertain(mig)
    <3> DEFINE kind  == StepKind(t.counter, Sample(r))
               new   == NewDay(mig)
               lacks == new.incomplete \/ (~t.counter.direct /\ new.tracking /\ (~new.known \/ new.unknown))
               used  == new.used + IF Charged(new, kind, m, gap) THEN Delta(t.counter, Sample(r)) ELSE 0
    <3>1. u = [tracking |-> TRUE, incomplete |-> lacks, known |-> ~lacks, unknown |-> FALSE,
               day |-> Today, mode |-> m, counter |-> Sample(r), waived |-> t.waived, used |-> used]
      BY <2>3 DEF Counted
    <3>2. Sampled(t, a, r, m, gap) = u
      BY <1>3 DEF Sampled
    <3> HIDE DEF u, lacks, used
    <3>3. u.unknown = FALSE /\ (u.known => ~u.incomplete)
      BY <3>1
    <3> QED BY <1>3, <3>2, <3>3 DEF Clear
  <2> QED BY <2>1, <2>2, <2>3
<1> QED BY <1>1, <1>2, <1>3

(* Nothing is promised any more, for good.                                 *)
LEMMA LostForGood == ASSUME Base, Next, ghost.lost PROVE ghost'.lost
<1>1. ghost \in Ghosts
  BY DEF Base, ConsoleOK, Ghosts
<1>2. Lost.lost
  BY DEF Lost, Ghost
<1>3. ASSUME NEW r PROVE Knows(r).lost /\ [Knows(r) EXCEPT !.hand = Knows(r).read].lost
  BY <1>1 DEF Knows, Know, Ghosts
<1>4. Undone => ghost'.lost
  BY <1>2 DEF Undone
<1> QED BY <1>1, <1>2, <1>3, <1>4 DEF Next, Tick, Unsaved, Rebase, Confirm, Break, Rollback, SetPolicy, Waive,
                                    Grant, Play, Move, Rest, PutBack, Stop, Start

(* What the service looks at.                                              *)
LEMMA LooksOwed ==
  ASSUME Base, Owes, ~ghost.lost, NEW r, NEW m \in {mode, "unknown"}, NEW n \in Nat, Looks(r, m, n)
  PROVE  /\ Looking(state, r, m, ghost.read)
         /\ Owed(state, ~sampled, looked, r, ghost.read)
<1> DEFINE rd == adapter.reading
<1>1. m \in Modes /\ mode \in {"tv", "hand"} /\ ghost \in Ghosts /\ state \in States /\ spent \in Nat
  BY DEF Base, ConsoleOK, StateOK, Modes, Ghosts
<1>2. Current(r)
  BY <1>1, LooksGives
<1>3. Played /\ Tells(rd) /\ Owed(state, Gap, looked, rd, ghost.read)
  BY DEF Owes
<1>4. CASE Usable(rd)
  <2>1. r = rd
    BY <1>4 DEF Looks
  <2> QED BY <1>1, <1>2, <1>3, <2>1 DEF Looking, Base, Ghosts, Played, Looks, Gap
<1>5. CASE ~Usable(rd)
  <2>1. r.hand = ghost.hand /\ r.age = 0 /\ r.total \in {None, spent}
    BY <1>5 DEF Looks, Asked
  <2>2. Tells(r)
    BY <1>1, <1>3, <2>1 DEF Tells, Fresh, Played, Ghosts
  <2>3. \A x : Bounded(state, x, rd) => Bounded(state, x, r)
    BY <2>1 DEF Bounded, Fresh
  <2>4. Running(state, ~sampled, looked, r)
    BY <1>3, <2>3 DEF Owed, Running, Looks, Gap, Due
  <2>5. Looking(state, r, m, ghost.read)
    BY <1>1, <1>2, <1>3, <2>2 DEF Looking, Base, Ghosts, Played
  <2> QED BY <1>3, <2>4, <2>5 DEF Owed
<1> QED BY <1>4, <1>5

(* A step in which the service looks keeps what it owes.                   *)
LEMMA LookedOwes ==
  ASSUME clock' = clock, mode' = mode, spent' = spent, on, on' = on, looked' = TRUE, sampled' = TRUE,
         ghost \in Ghosts, NEW r, adapter'.reading = r, Tells(r), Played, NEW read \in Nat, read <= ghost.hand,
         ghost' = [ghost EXCEPT !.read = read],
         Owed(state', FALSE, TRUE, r, read)
  PROVE  Owes'
<1>1. ghost'.hand = ghost.hand /\ ghost'.docked = ghost.docked /\ ghost'.read = read
  BY DEF Ghosts
<1>2. Slack' = Slack /\ Today' = Today /\ Gap' = FALSE
  BY <1>1 DEF Slack, Today, Gap
<1>3. Played' /\ Tells(adapter.reading)'
  BY <1>1, <1>2 DEF Played, Tells, Fresh, Usable
<1>4. Running(state, Gap, looked, adapter.reading)'
  BY <1>1, <1>2 DEF Owed, Running, Bounded, Due, Fresh, Usable
<1>5. Parked(state)' /\ Dated(state)' /\ Holds(state, ghost.read)'
  BY <1>1, <1>2 DEF Owed, Parked, Dated, Holds
<1>6. Early(state, ghost.read)'
  BY <1>1, <1>2 DEF Owed, Early, TooFar
<1> QED BY <1>3, <1>4, <1>5, <1>6 DEF Owes, Owed

CountInv == Base /\ Off /\ Clear(state) /\ Owes

(* What a step has to establish besides the base.                          *)
CountKept == Off' /\ Clear(state)' /\ Owes'

(* The ghost after a look that was saved.                                  *)
LEMMA KnowsRead ==
  ASSUME ~ghost.lost, ghost \in Ghosts, NEW r
  PROVE  Knows(r) = [ghost EXCEPT !.read = ReadNow(r, ghost.read)]
BY DEF Knows, Know, ReadNow, Ghosts

LEMMA TickCount == ASSUME CountInv, Tick, ~ghost.lost PROVE CountKept
<1>1. PICK r \in Readings, m \in {mode, "unknown"} :
        /\ Looks(r, m, 0)
        /\ state' = Sampled(state, enabled, r, m, ~sampled)
        /\ ghost' = Knows(r)
        /\ UNCHANGED <<clock, mode, spent, on, enabled>>
  BY DEF Tick
<1> DEFINE read == ReadNow(r, ghost.read)
<1>2. Looking(state, r, m, ghost.read) /\ Owed(state, ~sampled, looked, r, ghost.read)
  BY <1>1, LooksOwed DEF CountInv
<1>3. /\ state \in States /\ Sound(state) /\ Clear(state) /\ enabled \in BOOLEAN /\ (~sampled) \in BOOLEAN
      /\ ghost \in Ghosts /\ Today \in Nat /\ read \in Nat /\ read <= ghost.hand
  BY <1>2, Numbers DEF CountInv, Base, StateOK, ConsoleOK, Ghosts
<1>4. Owed(state', FALSE, TRUE, r, read)
  <2>1. CASE enabled
    <3>1. enabled = TRUE
      BY <1>3, <2>1
    <3> QED BY <1>1, <1>2, <1>3, <3>1, SampledOwed
  <2>2. CASE ~enabled
    <3>1. state' = Unwatched(state) /\ ~state.counter.known
      BY <1>1, <2>2 DEF Sampled, CountInv, Off
    <3> QED BY <1>2, <1>3, <3>1, UnwatchedOwed
  <2> QED BY <2>1, <2>2
<1>5. Clear(state') /\ (~enabled => ~state'.counter.known)
  BY <1>1, <1>3, SampledClear
<1>6. Owes'
  <2>1. looked' = TRUE /\ sampled' = TRUE /\ on /\ adapter'.reading = r
    BY <1>1, <1>2, LooksGives DEF Looks, Looking
  <2>2. ghost' = [ghost EXCEPT !.read = read]
    BY <1>1, <1>3, KnowsRead
  <2> HIDE DEF read
  <2> QED BY <1>1, <1>2, <1>3, <1>4, <2>1, <2>2, LookedOwes DEF Looking
<1> QED BY <1>1, <1>5, <1>6 DEF CountKept, Off, Clear

(* The second sample of a transaction, which was begun by a first.         *)
LEMMA RebaseCount == ASSUME CountInv, Rebase, on => sampled, ~ghost.lost PROVE CountKept
<1>1. PICK r \in Readings, m \in {mode, "unknown"} :
        /\ Looks(r, m, 0)
        /\ state' = Sampled(state, TRUE, r, m, FALSE)
        /\ ghost' = Knows(r) /\ enabled
        /\ UNCHANGED <<clock, mode, spent, on, enabled>>
  BY DEF Rebase
<1> DEFINE read == ReadNow(r, ghost.read)
<1>2. Looking(state, r, m, ghost.read) /\ Owed(state, FALSE, looked, r, ghost.read)
  <2>1. (~sampled) = FALSE
    BY <1>1 DEF Looks, CountInv, Base, ConsoleOK
  <2> QED BY <1>1, <2>1, LooksOwed DEF CountInv
<1>3. /\ state \in States /\ Clear(state)
      /\ ghost \in Ghosts /\ Today \in Nat /\ read \in Nat /\ read <= ghost.hand
  BY <1>2, Numbers DEF CountInv, Base, StateOK, ConsoleOK, Ghosts
<1>4. Owed(state', FALSE, TRUE, r, read)
  BY <1>1, <1>2, SampledOwed
<1>5. Clear(state')
  BY <1>1, <1>3, SampledClear
<1>6. Owes'
  <2>1. looked' = TRUE /\ sampled' = TRUE /\ on /\ adapter'.reading = r
    BY <1>1, <1>2, LooksGives DEF Looks, Looking
  <2>2. ghost' = [ghost EXCEPT !.read = read]
    BY <1>1, <1>3, KnowsRead
  <2> HIDE DEF read
  <2> QED BY <1>1, <1>2, <1>3, <1>4, <2>1, <2>2, LookedOwes DEF Looking
<1> QED BY <1>1, <1>5, <1>6 DEF CountKept, Off, Clear

(* The count that starts with the policy has nothing to hold yet.          *)
LEMMA StartedOwed ==
  ASSUME NEW t \in States, Sound(t), ~t.counter.known, NEW gap, NEW seen, NEW r, NEW read \in Nat,
         Owed(t, gap, seen, r, read), ghost \in Ghosts, Today \in Nat, read <= ghost.hand
  PROVE  Owed(Started(t), gap, seen, r, read) /\ Started(t).counter = t.counter
<1>1. CASE ~enabled /\ ~t.tracking
  <2> DEFINE u == Started(t)
  <2>1. u = [t EXCEPT !.tracking = TRUE, !.day = Today, !.known = TRUE]
    BY <1>1 DEF Started
  <2>2. /\ u.tracking /\ u.day = Today /\ u.used = t.used /\ u.counter = t.counter
    BY <2>1 DEF States
  <2>3. ghost.hand = 0 /\ read = 0 /\ Slack \in Nat /\ t.used \in Nat
    BY <1>1, SlackType DEF Sound, Owed, Early, Ghosts, States
  <2>4. Owed(u, gap, seen, r, read)
    <3> HIDE DEF u
    <3> QED BY <2>2, <2>3 DEF Owed, Running, Parked, Early, Dated, Holds
  <2> QED BY <2>2, <2>4
<1>2. CASE ~(~enabled /\ ~t.tracking)
  BY <1>2 DEF Started
<1> QED BY <1>1, <1>2

(* The allowance is taken away: what was read is what was played.          *)
LEMMA PutAside ==
  ASSUME clock' = clock, mode' = mode, spent' = spent, ghost \in Ghosts, spent \in Nat, Today \in Nat,
         NEW r \in Taken, NEW read \in Nat, Tells(r), Played, read <= ghost.hand,
         Fresh(r) => read = r.hand, adapter'.reading = r,
         NEW u \in States, Sound(u), Owed(u, FALSE, TRUE, r, read), Clear(u), state' = Unwatched(u),
         ghost' = [ghost EXCEPT !.hand = read, !.read = read]
  PROVE  Owes'
<1>1. /\ ghost'.hand = read /\ ghost'.docked = ghost.docked /\ ghost'.read = read
      /\ ghost.hand \in Nat
  BY DEF Ghosts
<1>2. /\ Slack' = Slack /\ Today' = Today /\ Slack \in Nat
  BY <1>1, SlackType DEF Slack, Today
<1>3. Played'
  BY <1>1 DEF Played
<1>4. Tells(adapter.reading)'
  <2>1. Fresh(r) => r.total \in Nat /\ r.hand \in Nat /\ r.age \in Nat
    BY DEF Fresh, Taken, Times
  <2>2. Fresh(adapter.reading)' => Fresh(r)
    BY <1>2 DEF Fresh, Usable
  <2> QED BY <1>1, <2>1, <2>2 DEF Tells
<1> DEFINE v == Unwatched(u)
<1>5. /\ v.tracking = u.tracking /\ v.day = u.day /\ v.used = u.used /\ v.known = u.known
      /\ v.counter.direct = u.counter.direct /\ ~v.counter.known /\ v.counter.at = u.counter.at
      /\ ~v.incomplete => (~u.counter.direct \/ (u.known /\ ~u.unknown))
      /\ u.used \in Nat
  <2>1. u.counter \in Counters
    BY DEF States
  <2> QED BY <2>1 DEF Sound, States, Counters, Unwatched
<1>6. state' = v
  OBVIOUS
<1> HIDE DEF v
<1>7. Running(state, Gap, looked, adapter.reading)' /\ Dated(state)' /\ Holds(state, ghost.read)'
  BY <1>1, <1>2, <1>5, <1>6 DEF Running, Owed, Dated, Holds
<1>8. Parked(state)'
  <2>1. ~u.counter.direct => read = 0
    BY <1>1 DEF Owed, Early
  <2> QED BY <1>1, <1>2, <1>5, <1>6, <2>1 DEF Parked, Owed, Holds
<1>9. Early(state, ghost.read)'
  <2>1. ~u.counter.direct => read = 0
    BY <1>1 DEF Owed, Early
  <2>2. u.tracking /\ u.day # Today /\ read > 0 => TooFar(u)
    BY DEF Owed, Early
  <2>3. TooFar(state)' <=> TooFar(u)
    BY <1>2, <1>5, <1>6 DEF TooFar
  <2> QED BY <1>1, <1>2, <1>5, <1>6, <2>1, <2>2, <2>3 DEF Early
<1> QED BY <1>3, <1>4, <1>7, <1>8, <1>9 DEF Owes, Owed

LEMMA SetPolicyCount == ASSUME CountInv, SetPolicy, ~ghost.lost PROVE CountKept
<1>1. PICK r \in Readings, m \in {mode} :
        /\ Ends(Sampled(state, enabled, r, m, ~sampled), r, m) /\ enabled' = ~enabled
        /\ state' = Sampled(Started(Sampled(state, enabled, r, m, ~sampled)), ~enabled, r, m, FALSE)
        /\ ghost' = IF enabled THEN [Knows(r) EXCEPT !.hand = Knows(r).read] ELSE Knows(r)
        /\ UNCHANGED <<clock, mode, spent, on>>
  BY DEF SetPolicy
<1> DEFINE read == ReadNow(r, ghost.read)
           u == Sampled(state, enabled, r, m, ~sampled)
           v == Started(u)
<1>0. PICK n \in {0, 1} : Looks(r, m, n)
  BY <1>1 DEF Ends
<1>2. Looking(state, r, m, ghost.read) /\ Owed(state, ~sampled, looked, r, ghost.read)
  BY <1>0, LooksOwed DEF CountInv
<1>3. /\ state \in States /\ Sound(state) /\ Clear(state) /\ enabled \in BOOLEAN /\ (~sampled) \in BOOLEAN
      /\ ghost \in Ghosts /\ Today \in Nat /\ read \in Nat /\ read <= ghost.hand /\ clock \in Nat /\ spent \in Nat
      /\ (~enabled) \in BOOLEAN /\ m \in Modes /\ r \in Taken /\ ghost.read \in Nat /\ ghost.read <= ghost.hand
      /\ Current(r) /\ Tells(r) /\ Played
  BY <1>2, Numbers DEF CountInv, Base, StateOK, ConsoleOK, Ghosts, Looking
<1>4. looked' = TRUE /\ sampled' = TRUE /\ on /\ adapter'.reading = r
  BY <1>0, <1>2, LooksGives DEF Looks, Looking
<1>5. u \in States /\ Sound(u) /\ Clear(u) /\ (~enabled => ~u.counter.known)
  BY <1>3, SampledKeeps, SampledClear
<1>6. v \in States /\ Sound(v)
  <2> HIDE DEF u
  <2> QED BY <1>3, <1>5, StartedKeeps
<1>7. Knows(r) = [ghost EXCEPT !.read = read]
  BY <1>3, KnowsRead
<1>8. CASE enabled
  <2>1. enabled = TRUE /\ v = u
    BY <1>3, <1>8 DEF Started
  <2>2. Owed(u, FALSE, TRUE, r, read)
    BY <1>2, <1>3, <2>1, SampledOwed
  <2>3. state' = Unwatched(u)
    BY <1>1, <2>1 DEF Sampled
  <2>4. ghost' = [ghost EXCEPT !.hand = read, !.read = read]
    <3>1. [ghost EXCEPT !.read = read].read = read
      BY <1>3 DEF Ghosts
    <3>2. ghost' = [[ghost EXCEPT !.read = read] EXCEPT !.hand = read]
      BY <1>1, <1>7, <1>8, <3>1
    <3> HIDE DEF read
    <3> QED BY <1>3, <3>2 DEF Ghosts
  <2>5. Fresh(r) => read = r.hand
    BY DEF Fresh, ReadNow
  <2>6. Owes'
    <3> HIDE DEF u, read
    <3> QED BY <1>1, <1>3, <1>4, <1>5, <2>2, <2>3, <2>4, <2>5, PutAside
  <2>7. Clear(state') /\ ~state'.counter.known
    <3> HIDE DEF u
    <3>1. state' = Sampled(u, FALSE, r, m, FALSE)
      BY <2>3 DEF Sampled
    <3> QED BY <1>5, <3>1, SampledClear
  <2> QED BY <2>6, <2>7 DEF CountKept, Off, Clear
<1>9. CASE ~enabled
  <2>1. u = Unwatched(state) /\ ~state.counter.known
    BY <1>9 DEF Sampled, CountInv, Off
  <2>2. Owed(u, FALSE, TRUE, r, ghost.read)
    BY <1>2, <1>3, <2>1, UnwatchedOwed
  <2>3. Owed(v, FALSE, TRUE, r, ghost.read) /\ ~v.counter.known
    <3> HIDE DEF u
    <3> QED BY <1>3, <1>5, <1>9, <2>2, StartedOwed
  <2>4. state' = Sampled(v, TRUE, r, m, FALSE)
    <3>1. (~enabled) = TRUE
      BY <1>9
    <3> QED BY <1>1, <3>1
  <2>5. Looking(v, r, m, ghost.read)
    <3> HIDE DEF v
    <3> QED BY <1>2, <1>6 DEF Looking
  <2>6. Owed(state', FALSE, TRUE, r, read)
    <3> HIDE DEF v
    <3> QED BY <2>3, <2>4, <2>5, SampledOwed
  <2>7. ghost' = [ghost EXCEPT !.read = read]
    BY <1>1, <1>7, <1>9
  <2>8. Owes'
    <3> HIDE DEF read
    <3> QED BY <1>1, <1>3, <1>4, <2>6, <2>7, LookedOwes
  <2>9. Clear(state')
    <3> HIDE DEF v
    <3> QED BY <1>6, <2>4, SampledClear
  <2> QED BY <1>1, <1>9, <2>8, <2>9 DEF CountKept, Off, Clear
<1> QED BY <1>8, <1>9

LEMMA WaiveCount == ASSUME CountInv, Waive, ~ghost.lost PROVE CountKept
<1>1. PICK r \in Readings, m \in {mode} :
        /\ Ends(Sampled(state, enabled, r, m, ~sampled), r, m)
        /\ state' = Sampled([Sampled(state, enabled, r, m, ~sampled) EXCEPT !.waived = Today], enabled, r, m, FALSE)
        /\ ghost' = Knows(r)
        /\ UNCHANGED <<clock, mode, spent, on, enabled>>
  BY DEF Waive
<1> DEFINE read == ReadNow(r, ghost.read)
           u == Sampled(state, enabled, r, m, ~sampled)
           v == [u EXCEPT !.waived = Today]
<1>0. PICK n \in {0, 1} : Looks(r, m, n)
  BY <1>1 DEF Ends
<1>2. Looking(state, r, m, ghost.read) /\ Owed(state, ~sampled, looked, r, ghost.read)
  BY <1>0, LooksOwed DEF CountInv
<1>3. /\ state \in States /\ Sound(state) /\ Clear(state) /\ enabled \in BOOLEAN /\ (~sampled) \in BOOLEAN
      /\ ghost \in Ghosts /\ Today \in Nat /\ read \in Nat /\ read <= ghost.hand /\ clock \in Nat
      /\ m \in Modes /\ Current(r) /\ Tells(r) /\ Played
  BY <1>2, Numbers DEF CountInv, Base, StateOK, ConsoleOK, Ghosts, Looking
<1>4. looked' = TRUE /\ sampled' = TRUE /\ on /\ adapter'.reading = r
  BY <1>0, <1>2, LooksGives DEF Looks, Looking
<1>5. u \in States /\ Sound(u) /\ Clear(u) /\ (~enabled => ~u.counter.known)
  BY <1>3, SampledKeeps, SampledClear
<1>6. Owed(u, FALSE, TRUE, r, read)
  <2>1. CASE enabled
    <3>1. enabled = TRUE
      BY <1>3, <2>1
    <3> QED BY <1>2, <1>3, <3>1, SampledOwed
  <2>2. CASE ~enabled
    <3>1. u = Unwatched(state) /\ ~state.counter.known
      BY <2>2 DEF Sampled, CountInv, Off
    <3> QED BY <1>2, <1>3, <3>1, UnwatchedOwed
  <2> QED BY <2>1, <2>2
<1>7. /\ v \in States /\ Sound(v) /\ Clear(v) /\ (~enabled => ~v.counter.known)
      /\ Owed(v, FALSE, TRUE, r, read)
  <2> HIDE DEF u
  <2>1. Today \in Times
    BY <1>3 DEF Times
  <2>2. /\ v \in States /\ v.tracking = u.tracking /\ v.known = u.known /\ v.unknown = u.unknown
        /\ v.incomplete = u.incomplete /\ v.day = u.day /\ v.used = u.used /\ v.mode = u.mode
        /\ v.counter = u.counter
    BY <1>5, <2>1 DEF States
  <2> HIDE DEF v
  <2>3. Sound(v) /\ Clear(v) /\ (~enabled => ~v.counter.known)
    BY <1>5, <2>2 DEF Sound, Clear
  <2>4. (TooFar(v) <=> TooFar(u)) /\ \A x : Bounded(v, x, r) <=> Bounded(u, x, r)
    BY <2>2, Measures
  <2>5. Owed(v, FALSE, TRUE, r, read)
    BY <1>6, <2>2, <2>4 DEF Owed, Running, Due, Parked, Early, Dated, Holds
  <2> QED BY <2>2, <2>3, <2>5
<1>8. state' = Sampled(v, enabled, r, m, FALSE)
  BY <1>1
<1>9. Looking(v, r, m, read)
  <2> HIDE DEF v, read
  <2> QED BY <1>2, <1>3, <1>7 DEF Looking
<1>10. ReadNow(r, read) = read
  BY DEF ReadNow
<1> HIDE DEF u, v, read
<1>11. Owed(state', FALSE, TRUE, r, read)
  <2>1. CASE enabled
    <3>1. enabled = TRUE
      BY <1>3, <2>1
    <3> QED BY <1>7, <1>8, <1>9, <1>10, <3>1, SampledOwed
  <2>2. CASE ~enabled
    <3>1. state' = Unwatched(v)
      BY <1>8, <2>2 DEF Sampled
    <3> QED BY <1>3, <1>7, <2>2, <3>1, UnwatchedOwed
  <2> QED BY <2>1, <2>2
<1>12. Clear(state') /\ (~enabled => ~state'.counter.known)
  BY <1>3, <1>7, <1>8, SampledClear
<1>13. Owes'
  <2>1. ghost' = [ghost EXCEPT !.read = read]
    BY <1>1, <1>3, KnowsRead DEF read
  <2> QED BY <1>1, <1>3, <1>4, <1>11, <2>1, LookedOwes
<1> QED BY <1>1, <1>12, <1>13 DEF CountKept, Off, Clear

-----------------------------------------------------------------------------
(* The steps in which the service does not look.                           *)
LEMMA Whole ==
  ASSUME CountInv, ~ghost.lost
  PROVE  /\ Played /\ Tells(adapter.reading) /\ Owed(state, Gap, looked, adapter.reading, ghost.read)
         /\ ghost \in Ghosts /\ ghost.hand \in Nat /\ ghost.read \in Nat /\ spent \in Nat /\ clock \in Nat
         /\ Today \in Nat /\ Slack \in Nat /\ Age - 1 \in Nat /\ adapter.reading \in Taken
         /\ state \in States /\ state.used \in Nat /\ state.counter.total \in Nat /\ state.day \in Nat
         /\ state.counter.day \in Nat /\ state.counter.at \in Nat /\ Sound(state)
<1>1. ghost \in Ghosts /\ spent \in Nat /\ clock \in Nat /\ adapter.reading \in Taken /\ state \in States
  BY DEF CountInv, Base, ConsoleOK, StateOK, Ghosts, Adapters
<1>2. state.counter \in Counters /\ state.used \in Nat /\ state.day \in Nat
  BY <1>1 DEF States
<1>3. state.counter.total \in Nat /\ state.counter.day \in Nat /\ state.counter.at \in Nat
  BY <1>2 DEF Counters
<1>4. ghost.hand \in Nat /\ ghost.read \in Nat
  BY <1>1 DEF Ghosts
<1> QED BY <1>1, <1>2, <1>3, <1>4, SlackType, DateType DEF CountInv, Owes, Today, Base

LEMMA GrantCount == ASSUME CountInv, Grant, ~ghost.lost PROVE CountKept
<1> DEFINE r == Asked(TRUE)
<1>1. adapter'.reading = r
  BY AskedIsCurrent, KeptType DEF CountInv, Base, Current, Grant
<1>2. r.hand = ghost.hand /\ r.age = 0 /\ r.total \in {None, spent}
  BY DEF Asked
<1>3. /\ clock' = clock /\ mode' = mode /\ looked' = looked /\ spent' = spent /\ on' = on /\ sampled' = sampled
      /\ enabled' = enabled /\ state' = state /\ ghost' = ghost
  BY DEF Grant
<1>4. Today' = Today /\ Slack' = Slack /\ Gap' = Gap
  BY <1>3 DEF Today, Slack, Gap
<1> HIDE DEF r
<1>5. Played' /\ Tells(adapter.reading)'
  BY <1>1, <1>2, <1>3, <1>4, Whole DEF Played, Tells, Fresh
<1>6. \A x : Bounded(state, x, adapter.reading) => Bounded(state, x, adapter.reading)'
  BY <1>1, <1>2, <1>3, <1>4 DEF Bounded, Fresh
<1>7. Running(state, Gap, looked, adapter.reading)'
  BY <1>3, <1>4, <1>6, Whole DEF Running, Owed, Due
<1>8. Parked(state)' /\ Dated(state)' /\ Holds(state, ghost.read)' /\ Early(state, ghost.read)'
  BY <1>3, <1>4, Whole DEF Owed, Parked, Dated, Holds, Early, TooFar
<1> QED BY <1>3, <1>5, <1>7, <1>8 DEF CountInv, CountKept, Off, Clear, Owes, Owed

(* A second of play: in the hand and counted, or not.                      *)
LEMMA PlayCount == ASSUME CountInv, Play, ~ghost.lost PROVE CountKept
<1> DEFINE r == adapter.reading
           q == adapter'.reading
           d == ghost'.hand - ghost.hand
<1>1. /\ clock' = clock /\ mode' = mode /\ looked' = looked /\ spent' = spent + 1 /\ on' = on
      /\ sampled' = sampled /\ enabled' = enabled /\ state' = state
  BY DEF Play
<1>2. /\ ghost'.docked = ghost.docked /\ ghost'.read = ghost.read /\ ghost'.lost = FALSE
      /\ \/ ghost'.hand = ghost.hand
         \/ ghost'.hand = ghost.hand + 1 /\ mode = "hand" /\ enabled /\ state.counter.known
  BY Whole DEF Play, Ghosts
<1>3. Today' = Today /\ Slack' = Slack /\ Gap' = Gap
  BY <1>1, <1>2 DEF Today, Slack, Gap
<1>4. Fresh(adapter.reading)' => /\ Fresh(r) /\ q.total = r.total /\ q.hand = r.hand
                                 /\ q.age = r.age + 1 /\ r.age + 1 < Age
                                 /\ r.total \in Nat /\ r.hand \in Nat /\ r.age \in Nat
  <2>1. CASE r.age + 1 < Age
    <3>1. q = [r EXCEPT !.age = @ + 1]
      <4>1. adapter' = [adapter EXCEPT !.reading.age = @ + 1]
        BY <2>1 DEF Play, Older
      <4>2. adapter.reading \in Taken /\ adapter \in Adapters
        BY DEF CountInv, Base, ConsoleOK, Ghosts, Adapters
      <4> QED BY <4>1, <4>2
    <3>2. /\ q.total = r.total /\ q.hand = r.hand /\ q.age = r.age + 1 /\ q.taken = r.taken
          /\ q.day = r.day /\ q.at = r.at /\ r.hand \in Nat /\ r.age \in Nat /\ r.total \in Times
      BY <3>1, Whole DEF Taken
    <3>3. Fresh(adapter.reading)' => q.taken /\ q.day = Today /\ q.at <= clock /\ q.total # None
      BY <1>1, <1>3 DEF Fresh, Usable
    <3>4. Fresh(r) <=> r.taken /\ r.day = Today /\ r.at <= clock /\ r.total # None
      BY DEF Fresh, Usable
    <3> HIDE DEF q, r
    <3> QED BY <2>1, <3>2, <3>3, <3>4 DEF Times
  <2>2. CASE ~(r.age + 1 < Age)
    <3>1. ~q.taken
      BY <2>2, ExpiredType DEF Play, Older, CountInv, Base
    <3> QED BY <3>1 DEF Fresh, Usable
  <2> QED BY <2>1, <2>2
<1> HIDE DEF q
<1>5. Played'
  BY <1>1, <1>2, Whole DEF Played
<1>6. Tells(adapter.reading)'
  BY <1>1, <1>2, <1>4, Whole DEF Tells, q
<1>7. ASSUME NEW x \in Nat, Bounded(state, x, r)
      PROVE  Bounded(state, x, adapter.reading)'
  <2>1. (ghost.hand + state.counter.total + x <= state.used + Slack + spent)'
    BY <1>1, <1>2, <1>3, <1>7, Whole DEF Bounded
  <2>2. Fresh(adapter.reading)' /\ q.total >= state'.counter.total
          => q.hand + state'.counter.total + x <= state'.used + Slack + q.total
    BY <1>1, <1>4, <1>7 DEF Bounded
  <2> QED BY <1>3, <2>1, <2>2 DEF Bounded, q
<1>8. Running(state, Gap, looked, adapter.reading)'
  <2>1. 0 \in Nat /\ Age - 1 \in Nat
    BY Whole
  <2> QED BY <1>1, <1>2, <1>3, <1>7, <2>1, Whole DEF Running, Owed, Due
<1>9. Parked(state)' /\ Dated(state)' /\ Holds(state, ghost.read)'
  BY <1>1, <1>2, <1>3, Whole DEF Owed, Parked, Dated, Holds
<1>10. Early(state, ghost.read)'
  BY <1>1, <1>2, <1>3, Whole DEF Owed, Early, TooFar, Sound
<1> QED BY <1>1, <1>5, <1>6, <1>8, <1>9, <1>10 DEF CountInv, CountKept, Off, Clear, Owes, Owed

(* Back on television a reading's play may be lost, for which the next     *)
(* sample is charged.                                                      *)
LEMMA MoveCount == ASSUME CountInv, Move, ~ghost.lost PROVE CountKept
<1>1. /\ clock' = clock /\ looked' = FALSE /\ spent' = spent /\ on' = on
      /\ sampled' = sampled /\ enabled' = enabled /\ state' = state /\ adapter' = adapter
      /\ on \in BOOLEAN /\ mode \in {"tv", "hand"}
  BY DEF Move, CountInv, Base, ConsoleOK
<1>2. Today' = Today /\ Gap' = Gap
  BY <1>1 DEF Today, Gap
<1>a. CASE on /\ ~looked
  <2>1. Lost.lost /\ ghost' = Lost
    BY <1>a DEF Move, Lost, Ghost
  <2> QED BY <1>1, <2>1 DEF CountInv, CountKept, Off, Clear, Owes
<1>3. CASE (on => looked) /\ mode = "hand"
  <2>1. /\ mode' = "tv" /\ ghost'.docked = ghost.docked + 1 /\ ghost'.hand = ghost.hand
        /\ ghost'.read = ghost.read /\ ghost.docked \in Nat /\ ghost'.lost = FALSE
    BY <1>3, Whole DEF Move, Ghosts
  <2>2. Slack' = Slack + (Age - 1)
    <3>1. ASSUME NEW a \in Nat, NEW n \in Nat PROVE a * (n + 1) = a * n + a
      OBVIOUS
    <3> QED BY <2>1, <3>1, Whole DEF Slack
  <2>3. Played' /\ Tells(adapter.reading)'
    BY <1>1, <1>2, <2>1, Whole DEF Played, Tells, Fresh, Usable
  <2>4. Running(state, Gap, looked, adapter.reading)'
    <3>1. CASE state.counter.known /\ state.counter.day = Today /\ ~state.incomplete
      <4>1. Bounded(state, 0, adapter.reading) /\ Due(state, Gap)
        BY <1>1, <1>3, <3>1, Whole DEF Owed, Running, Gap, Due
      <4>2. Bounded(state, Age - 1, adapter.reading)'
        <5> DEFINE r == adapter.reading
        <5>1. Fresh(r) => r.total \in Nat /\ r.hand \in Nat
          BY Whole DEF Fresh, Taken, Times
        <5>2. Fresh(r)' => Fresh(r)
          BY <1>1, <1>2 DEF Fresh, Usable
        <5>3. adapter'.reading = r
          BY <1>1
        <5> HIDE DEF r
        <5>4. (ghost.hand + state.counter.total + (Age - 1) <= state.used + Slack + spent)'
          BY <1>1, <2>1, <2>2, <4>1, Whole DEF Bounded, r
        <5>5. Fresh(r) /\ r.total >= state.counter.total
                => r.hand + state.counter.total + (Age - 1) <= state.used + (Slack + (Age - 1)) + r.total
          BY <4>1, <5>1, Whole DEF Bounded, r
        <5> QED BY <1>1, <2>1, <2>2, <5>2, <5>3, <5>4, <5>5 DEF Bounded, r
      <4> QED BY <1>1, <1>2, <2>1, <4>1, <4>2 DEF Running, Due
    <3>2. CASE ~(state.counter.known /\ state.counter.day = Today /\ ~state.incomplete)
      BY <1>1, <1>2, <3>2 DEF Running
    <3> QED BY <3>1, <3>2
  <2>5. Parked(state)' /\ Dated(state)' /\ Holds(state, ghost.read)' /\ Early(state, ghost.read)'
    BY <1>1, <1>2, <2>1, <2>2, Whole DEF Owed, Parked, Dated, Holds, Early, TooFar
  <2> QED BY <1>1, <2>3, <2>4, <2>5 DEF CountInv, CountKept, Off, Clear, Owes, Owed
<1>4. CASE (on => looked) /\ mode = "tv"
  <2>1. mode' = "hand" /\ ghost' = ghost
    BY <1>4 DEF Move
  <2>2. Slack' = Slack
    BY <2>1 DEF Slack
  <2>3. Played' /\ Tells(adapter.reading)'
    BY <1>1, <1>2, <2>1, Whole DEF Played, Tells, Fresh, Usable
  <2>4. Running(state, Gap, looked, adapter.reading)'
    <3>1. CASE state.counter.known /\ state.counter.day = Today /\ ~state.incomplete
      <4> DEFINE r == adapter.reading
      <4>1. state.counter.total <= spent
        BY <3>1, Whole DEF Owed, Dated
      <4>2. Fresh(r) => r.total \in Nat /\ r.hand \in Nat /\ r.hand <= ghost.hand
        BY Whole DEF Fresh, Taken, Times, Tells
      <4>3. ghost.hand <= state.used + Slack \/ Bounded(state, Age - 1, r)
        BY <1>4, <3>1, Whole DEF Owed, Running
      <4> HIDE DEF r
      <4>4. Bounded(state, 0, r)
        BY <4>1, <4>2, <4>3, Whole DEF Bounded
      <4>5. Bounded(state, 0, adapter.reading)'
        BY <1>1, <1>2, <2>1, <2>2, <4>4 DEF Bounded, Fresh, Usable, r
      <4> QED BY <1>1, <2>1, <4>5 DEF Running
    <3>2. CASE ~(state.counter.known /\ state.counter.day = Today /\ ~state.incomplete)
      BY <1>1, <1>2, <3>2 DEF Running
    <3> QED BY <3>1, <3>2
  <2>5. Parked(state)' /\ Dated(state)' /\ Holds(state, ghost.read)' /\ Early(state, ghost.read)'
    BY <1>1, <1>2, <2>1, <2>2, Whole DEF Owed, Parked, Dated, Holds, Early, TooFar
  <2> QED BY <1>1, <2>3, <2>4, <2>5 DEF CountInv, CountKept, Off, Clear, Owes, Owed
<1> QED BY <1>1, <1>a, <1>3, <1>4

(* Time that goes by makes a gap only longer; a new date starts with       *)
(* nothing played.                                                         *)
LEMMA RestCount == ASSUME CountInv, Rest, ~ghost.lost PROVE CountKept
<1>1. /\ looked' = looked /\ on' = on /\ sampled' = sampled /\ enabled' = enabled /\ state' = state
      /\ mode' = mode /\ ~adapter'.reading.taken
  BY ExpiredType DEF Rest, CountInv, Base
<1>2. PICK n \in Nat : clock' = clock + n
  BY DEF Rest
<1>3. Today <= Today' /\ Today' \in Nat /\ Gap' = Gap
  BY <1>1, <1>2, DateMonotone, DateType, Whole DEF Today, Gap
<1>4. ~Fresh(adapter.reading)'
  BY <1>1 DEF Fresh, Usable
<1>5. TooFar(state) /\ Today' = Today => TooFar(state)'
  BY <1>1, <1>2, Whole DEF TooFar, Long
<1>6. CASE Today' = Today
  <2>1. spent' = spent /\ ghost' = ghost
    BY <1>6 DEF Rest, Today
  <2>2. Slack' = Slack
    BY <2>1 DEF Slack
  <2>3. Played' /\ Tells(adapter.reading)'
    BY <1>1, <1>4, <2>1, Whole DEF Played, Tells
  <2>4. \A x : Bounded(state, x, adapter.reading) => Bounded(state, x, adapter.reading)'
    BY <1>1, <1>4, <2>1, <2>2 DEF Bounded
  <2>5. Running(state, Gap, looked, adapter.reading)'
    BY <1>1, <1>3, <1>6, <2>1, <2>2, <2>4, Whole DEF Owed, Running, Due
  <2>6. Parked(state)' /\ Dated(state)' /\ Holds(state, ghost.read)' /\ Early(state, ghost.read)'
    BY <1>1, <1>5, <1>6, <2>1, <2>2, Whole DEF Owed, Parked, Dated, Holds, Early
  <2> QED BY <1>1, <2>3, <2>5, <2>6 DEF CountInv, CountKept, Off, Clear, Owes, Owed
<1>7. CASE Today' # Today
  <2>1. spent' = 0 /\ ghost' = Ghost
    BY <1>7 DEF Rest, Today
  <2>2. /\ ghost'.hand = 0 /\ ghost'.read = 0 /\ ghost'.docked = 0 /\ ghost' \in Ghosts
    BY <2>1, GhostType, Whole DEF Ghost, Ghosts
  <2>3. state.day < Today' /\ (state.counter.known => state.counter.day = state.day)
    BY <1>3, <1>7, Whole DEF Owed, Dated, Sound
  <2>4. Played' /\ Tells(adapter.reading)'
    BY <1>4, <2>1, <2>2 DEF Played, Tells
  <2>5. Running(state, Gap, looked, adapter.reading)' /\ Parked(state)' /\ Dated(state)'
        /\ Holds(state, ghost.read)' /\ Early(state, ghost.read)'
    BY <1>1, <1>3, <2>2, <2>3, Whole DEF Running, Parked, Dated, Holds, Early
  <2> QED BY <1>1, <2>4, <2>5 DEF CountInv, CountKept, Off, Clear, Owes, Owed
<1> QED BY <1>6, <1>7

(* Nothing is promised for a date that comes again, nor for one whose      *)
(* count has not begun.                                                    *)
LEMMA PutBackCount == ASSUME CountInv, PutBack, ~ghost.lost PROVE CountKept
<1>1. /\ looked' = looked /\ on' = on /\ sampled' = sampled /\ enabled' = enabled /\ state' = state
      /\ mode' = mode /\ adapter' = adapter /\ clock' < clock /\ clock' \in Nat
  BY Whole DEF PutBack
<1>2. CASE ghost'.lost
  BY <1>1, <1>2 DEF CountInv, CountKept, Off, Clear, Owes
<1>3. CASE ~ghost'.lost
  <2>1. Lost.lost
    BY DEF Lost, Ghost
  <2>2. Today' = Today /\ spent' = spent /\ state.day = Today /\ ghost' = ghost
    BY <1>3, <2>1 DEF PutBack, Today
  <2>3. ~Fresh(adapter.reading)'
    <3>1. adapter.reading.taken => adapter.reading.at >= clock /\ adapter.reading.at \in Nat
      BY Whole DEF CountInv, Base, Timely, Taken
    <3> QED BY <1>1, <3>1, Whole DEF Fresh, Usable
  <2>4. Slack' = Slack /\ Gap' = Gap
    BY <1>1, <2>2 DEF Slack, Gap
  <2>5. Played' /\ Tells(adapter.reading)'
    BY <1>1, <2>2, <2>3, Whole DEF Played, Tells
  <2>6. \A x : Bounded(state, x, adapter.reading) => Bounded(state, x, adapter.reading)'
    BY <1>1, <2>2, <2>3, <2>4 DEF Bounded
  <2>7. Running(state, Gap, looked, adapter.reading)'
    BY <1>1, <2>2, <2>4, <2>6, Whole DEF Owed, Running, Due
  <2>8. Parked(state)' /\ Dated(state)' /\ Holds(state, ghost.read)' /\ Early(state, ghost.read)'
    BY <1>1, <2>2, <2>4, Whole DEF Owed, Parked, Dated, Holds, Early
  <2> QED BY <1>1, <2>5, <2>7, <2>8 DEF CountInv, CountKept, Off, Clear, Owes, Owed
<1> QED BY <1>2, <1>3

(* After a stop, and until the first sample, the whole interval is due.    *)
LEMMA StopStartCount == ASSUME CountInv, Stop \/ (Start /\ journal = None), ~ghost.lost PROVE CountKept
<1>1. /\ clock' = clock /\ mode' = mode /\ spent' = spent /\ enabled' = enabled /\ state' = state
      /\ ghost' = ghost /\ Gap'
      /\ adapter' = adapter \/ ~adapter'.reading.taken
  <2>1. CASE Stop
    BY <2>1, ExpiredType DEF Stop, Gap, CountInv, Base
  <2>2. CASE Start /\ journal = None
    BY <2>2, ExpiredType DEF Start, Undone, Gap, CountInv, Base
  <2> QED BY <2>1, <2>2
<1>2. Today' = Today /\ Slack' = Slack
  BY <1>1 DEF Today, Slack
<1>3. Fresh(adapter.reading)' => Fresh(adapter.reading) /\ adapter' = adapter
  BY <1>1, <1>2 DEF Fresh, Usable
<1>4. Played' /\ Tells(adapter.reading)'
  BY <1>1, <1>3, Whole DEF Played, Tells
<1>5. \A x : Bounded(state, x, adapter.reading) => Bounded(state, x, adapter.reading)'
  BY <1>1, <1>2, <1>3 DEF Bounded
<1>6. Running(state, Gap, looked, adapter.reading)'
  BY <1>1, <1>2, <1>5, Whole DEF Owed, Running, Due
<1>7. Parked(state)' /\ Dated(state)' /\ Holds(state, ghost.read)' /\ Early(state, ghost.read)'
  BY <1>1, <1>2, Whole DEF Owed, Parked, Dated, Holds, Early, TooFar
<1> QED BY <1>1, <1>4, <1>6, <1>7 DEF CountInv, CountKept, Off, Clear, Owes, Owed

LEMMA CountInit == ASSUME Init PROVE CountInv
<1>1. Base
  BY BaseInit
<1>2. /\ NoCounter.known = FALSE /\ NoCounter.direct = FALSE
      /\ NewState.counter = NoCounter /\ NewState.known = FALSE /\ NewState.day = 0 /\ NewState.used = 0
  BY DEF NoCounter, NewState
<1>3. ASSUME NEW day \in {0, 1}, NEW known \in BOOLEAN, state = Legacy(day, known, ~known)
      PROVE  /\ state.counter = NoCounter /\ state.known = known /\ state.unknown = ~known
             /\ state.incomplete = FALSE /\ state.day = day /\ state.used = 0
  BY <1>3 DEF Legacy, NewState
<1>4. /\ ~state.counter.known /\ ~state.counter.direct /\ Clear(state) /\ state.day \in {0, 1} /\ state.used = 0
  <2>1. CASE state = NewState
    BY <1>2, <2>1 DEF Clear
  <2>2. CASE \E day \in {0, 1}, known \in BOOLEAN : state = Legacy(day, known, ~known)
    <3>1. PICK day \in {0, 1}, known \in BOOLEAN : state = Legacy(day, known, ~known)
      BY <2>2
    <3>2. /\ state.counter = NoCounter /\ state.known = known /\ state.unknown = ~known
          /\ state.incomplete = FALSE /\ state.day = day /\ state.used = 0
      BY <1>3, <3>1
    <3> QED BY <1>2, <3>2 DEF Clear
  <2> QED BY <2>1, <2>2 DEF Init
<1>5. /\ ghost.hand = 0 /\ ghost.read = 0 /\ ghost.docked = 0 /\ spent = 0 /\ ~adapter.reading.taken
      /\ clock = 3 /\ ghost \in Ghosts
  BY DEF Init, Ghost, NoAdapter, NoReading, Ghosts
<1>6. Today = 1 /\ Slack \in Nat
  BY <1>5, SlackType DEF Today, Date
<1>7. Played /\ Tells(adapter.reading)
  BY <1>5 DEF Played, Tells, Fresh, Usable
<1>8. Owed(state, Gap, looked, adapter.reading, ghost.read)
  BY <1>4, <1>5, <1>6 DEF Owed, Running, Parked, Early, Dated, Holds
<1> QED BY <1>1, <1>4, <1>7, <1>8 DEF CountInv, Off, Owes

(* When nothing is promised, nothing is owed.                              *)
LEMMA NothingOwed == ASSUME ghost'.lost, Off', Clear(state)' PROVE CountKept
BY DEF CountKept, Owes

LEMMA NewStateClear == Clear(NewState) /\ ~NewState.counter.known
BY NewStateType DEF Clear

LEMMA UnsavedCount == ASSUME CountInv, Unsaved PROVE CountKept
<1>1. ghost'.lost /\ state' \in {state, NewState} /\ enabled' = enabled
  BY DEF Unsaved, Lost, Ghost
<1>2. Off' /\ Clear(state)'
  BY <1>1, NewStateClear DEF CountInv, Off, Clear
<1> QED BY <1>1, <1>2, NothingOwed

LEMMA BreakCount == ASSUME CountInv, Break PROVE CountKept
<1>1. ghost'.lost /\ state' = NewState
  BY DEF Break, Lost, Ghost
<1>2. Off' /\ Clear(state)'
  BY <1>1, NewStateClear DEF Off, Clear
<1> QED BY <1>1, <1>2, NothingOwed

LEMMA ConfirmCount == ASSUME CountInv, Confirm PROVE CountKept
BY DEF CountInv, CountKept, Confirm, Off, Clear, Owes, Played, Tells, Fresh, Usable, Today, Owed, Gap, Running,
     Bounded, Slack, Due, Parked, Early, TooFar, Dated, Holds

(* What an open transaction copied is as clear as what it was copied from; *)
(* one begins with a sample.                                               *)
CopyClear ==
  journal # None => /\ Clear(journal.state) /\ (~journal.enabled => ~journal.state.counter.known)
                    /\ on => sampled

LEMMA UndoneCount == ASSUME CountInv, CopyOK, CopyClear, Rollback \/ Start, journal # None PROVE CountKept
<1>1. ghost'.lost /\ state' = journal.state /\ enabled' = journal.enabled
  BY DEF Rollback, Start, Undone, Lost, Ghost
<1>2. Off' /\ Clear(state)'
  BY <1>1 DEF CopyClear, Off, Clear
<1> QED BY <1>1, <1>2, NothingOwed

(* Every sample that is saved is clear.                                    *)
LEMMA FirstClear ==
  ASSUME CountInv, NEW r, NEW m
  PROVE  LET u == Sampled(state, enabled, r, m, ~sampled)
         IN  Clear(u) /\ (~enabled => ~u.counter.known)
<1>1. state \in States /\ Clear(state) /\ enabled \in BOOLEAN
  BY DEF CountInv, Base, StateOK, ConsoleOK
<1> QED BY <1>1, SampledClear

LEMMA CopyClearStep == ASSUME CountInv, CopyOK, CopyClear, [Next]_vars PROVE CopyClear'
<1> SUFFICES ASSUME journal' # None
             PROVE  /\ Clear(journal'.state) /\ (~journal'.enabled => ~journal'.state.counter.known)
                    /\ on' => sampled'
  BY DEF CopyClear, Clear
<1>1. ASSUME NEW t, NEW left, journal' = Copied(t, left), Clear(t), ~enabled => ~t.counter.known
      PROVE  Clear(journal'.state) /\ (~journal'.enabled => ~journal'.state.counter.known)
  BY <1>1 DEF Copied
<1>2. ASSUME journal # None, NEW left, journal' = [journal EXCEPT !.left = left]
      PROVE  Clear(journal'.state) /\ (~journal'.enabled => ~journal'.state.counter.known)
  <2>1. journal'.state = journal.state /\ journal'.enabled = journal.enabled
    BY <1>2 DEF CopyOK, Journals
  <2> QED BY <1>2, <2>1 DEF CopyClear
<1>3. CASE Tick
  <2>1. PICK r \in Readings, m \in {mode, "unknown"} :
          /\ Looks(r, m, 0) /\ state' = Sampled(state, enabled, r, m, ~sampled)
          /\ journal' \in {journal, IF journal = None THEN Copied(state', FALSE) ELSE [journal EXCEPT !.left = FALSE]}
    BY <1>3 DEF Tick
  <2>2. Clear(state') /\ (~enabled => ~state'.counter.known) /\ sampled'
    BY <2>1, FirstClear DEF Looks
  <2>3. CASE journal' = journal
    BY <2>2, <2>3 DEF CopyClear
  <2>4. CASE journal = None /\ journal' = Copied(state', FALSE)
    BY <1>1, <2>2, <2>4
  <2>5. CASE journal # None /\ journal' = [journal EXCEPT !.left = FALSE]
    BY <1>2, <2>2, <2>5
  <2> QED BY <2>1, <2>3, <2>4, <2>5
<1>4. CASE SetPolicy \/ Waive
  <2>1. PICK r \in Readings, m \in {mode} : Ends(Sampled(state, enabled, r, m, ~sampled), r, m)
    BY <1>4 DEF SetPolicy, Waive
  <2>2. sampled' /\ journal' = Copied(Sampled(state, enabled, r, m, ~sampled), TRUE)
    BY <2>1 DEF Ends, Looks
  <2> QED BY <1>1, <2>2, FirstClear
<1>5. CASE Confirm
  BY <1>2, <1>5 DEF Confirm, Settling, CopyClear
<1>6. CASE Break
  BY <1>2, <1>6 DEF Break, CopyClear
<1>7. CASE Rollback \/ Start
  BY <1>7 DEF Rollback, Start, Undone
<1>8. CASE Unsaved \/ Rebase
  <2>1. journal' = journal /\ sampled'
    BY <1>8 DEF Unsaved, Rebase, Looks
  <2> QED BY <2>1 DEF CopyClear
<1>9. CASE Grant \/ Play \/ Move \/ Rest \/ PutBack \/ UNCHANGED vars
  <2>1. journal' = journal /\ on' = on /\ sampled' = sampled
    BY <1>9 DEF Grant, Play, Move, Rest, PutBack, vars
  <2> QED BY <2>1 DEF CopyClear
<1>10. CASE Stop
  BY <1>10 DEF Stop, CopyClear
<1> QED BY <1>3, <1>4, <1>5, <1>6, <1>7, <1>8, <1>9, <1>10 DEF Next

(* Where nothing is promised, nothing is owed: what the policy and the     *)
(* counter are to each other stays.                                        *)
LEMMA LostCount == ASSUME CountInv, CopyOK, CopyClear, Next, ghost.lost PROVE CountKept
<1>1. ghost'.lost
  BY LostForGood DEF CountInv
<1>2. /\ state \in States /\ Sound(state) /\ Clear(state) /\ (~enabled => ~state.counter.known)
      /\ enabled \in BOOLEAN /\ (~enabled) \in BOOLEAN /\ clock \in Nat
  BY DEF CountInv, Base, StateOK, ConsoleOK, Off
<1>3. SUFFICES Off' /\ Clear(state)'
  BY <1>1, NothingOwed
<1>4. CASE Tick
  <2>1. PICK r, m : state' = Sampled(state, enabled, r, m, ~sampled) /\ enabled' = enabled
    BY <1>4 DEF Tick
  <2> QED BY <1>2, <2>1, SampledClear DEF Off, Clear
<1>5. CASE SetPolicy
  <2>1. PICK r \in Readings, m \in {mode} :
          /\ Ends(Sampled(state, enabled, r, m, ~sampled), r, m) /\ enabled' = ~enabled
          /\ state' = Sampled(Started(Sampled(state, enabled, r, m, ~sampled)), ~enabled, r, m, FALSE)
    BY <1>5 DEF SetPolicy
  <2> DEFINE u == Sampled(state, enabled, r, m, ~sampled)
  <2>2. u \in States /\ Sound(u) /\ Clear(u)
    <3>1. m \in Modes /\ (~sampled) \in BOOLEAN /\ \E n \in {0, 1} : Looks(r, m, n)
      BY <2>1 DEF CountInv, Base, ConsoleOK, Modes, Ends
    <3>2. Current(r)
      BY <3>1, LooksGives DEF CountInv
    <3> QED BY <1>2, <3>1, <3>2, SampledKeeps, SampledClear
  <2>3. state' = Sampled(Started(u), ~enabled, r, m, FALSE)
    BY <2>1
  <2> HIDE DEF u
  <2>4. Started(u) \in States /\ (enabled => Started(u) = u)
    BY <1>2, <2>2, StartedKeeps DEF Started
  <2> QED BY <1>2, <2>1, <2>2, <2>3, <2>4, SampledClear DEF Off, Clear
<1>6. CASE Waive
  <2>1. PICK r \in Readings, m \in {mode} :
          /\ Ends(Sampled(state, enabled, r, m, ~sampled), r, m) /\ enabled' = enabled
          /\ state' = Sampled([Sampled(state, enabled, r, m, ~sampled) EXCEPT !.waived = Today], enabled, r, m, FALSE)
    BY <1>6 DEF Waive
  <2> DEFINE u == Sampled(state, enabled, r, m, ~sampled)
             v == [u EXCEPT !.waived = Today]
  <2>2. u \in States /\ Clear(u)
    <3>1. m \in Modes /\ (~sampled) \in BOOLEAN /\ \E n \in {0, 1} : Looks(r, m, n)
      BY <2>1 DEF CountInv, Base, ConsoleOK, Modes, Ends
    <3>2. Current(r)
      BY <3>1, LooksGives DEF CountInv
    <3> QED BY <1>2, <3>1, <3>2, SampledKeeps, SampledClear
  <2>3. v \in States /\ Clear(v)
    <3> HIDE DEF u
    <3>1. Today \in Times
      BY <1>2, DateType DEF Today, Times
    <3> QED BY <2>2, <3>1 DEF States, Clear
  <2>4. state' = Sampled(v, enabled, r, m, FALSE) /\ enabled' = enabled
    BY <2>1
  <2> HIDE DEF v
  <2>5. Clear(state') /\ (~enabled => ~state'.counter.known)
    BY <1>2, <2>3, <2>4, SampledClear
  <2> QED BY <2>4, <2>5 DEF Off, Clear
<1>7. CASE Rebase
  <2>1. PICK r, m : state' = Sampled(state, TRUE, r, m, FALSE) /\ enabled' = enabled /\ enabled
    BY <1>7 DEF Rebase
  <2> QED BY <1>2, <2>1, SampledClear DEF Off, Clear
<1>8. CASE Unsaved \/ Break \/ ((Rollback \/ Start) /\ journal # None)
  BY <1>8, UnsavedCount, BreakCount, UndoneCount DEF CountKept
<1>9. CASE Confirm \/ Grant \/ Play \/ Move \/ Rest \/ PutBack \/ Stop \/ (Start /\ journal = None)
  <2>1. state' = state /\ enabled' = enabled
    BY <1>9 DEF Confirm, Grant, Play, Move, Rest, PutBack, Stop, Start, Undone
  <2> QED BY <1>2, <2>1 DEF Off, Clear
<1>10. Rollback => journal # None
  BY DEF Rollback
<1> QED BY <1>4, <1>5, <1>6, <1>7, <1>8, <1>9, <1>10 DEF Next

LEMMA CountStep ==
  ASSUME CountInv, CopyOK, CopyClear, [Next]_vars
  PROVE  CountInv' /\ CopyClear'
<1>1. Base' /\ CopyClear'
  BY BaseStep, CopyClearStep DEF CountInv
<1>2. CASE Next /\ ~ghost.lost
  <2>1. Rebase => (on => sampled)
    BY DEF CopyClear, Rebase, Settling
  <2>2. Rollback => journal # None
    BY DEF Rollback
  <2>3. CountKept
    BY <1>2, <2>1, <2>2, TickCount, UnsavedCount, RebaseCount, ConfirmCount, BreakCount, UndoneCount, SetPolicyCount,
       WaiveCount, GrantCount, PlayCount, MoveCount, RestCount, PutBackCount, StopStartCount DEF Next
  <2> QED BY <1>1, <2>3 DEF CountInv, CountKept
<1>3. CASE Next /\ ghost.lost
  BY <1>1, <1>3, LostCount DEF CountInv, CountKept
<1>4. CASE UNCHANGED vars
  BY <1>1, <1>4 DEF CountInv, Off, Clear, Owes, vars, Played, Tells, Fresh, Usable, Today, Owed, Gap, Running,
     Bounded, Slack, Due, Parked, Early, TooFar, Dated, Holds
<1> QED BY <1>1, <1>2, <1>3, <1>4

(* Whatever the console goes through, a count that is said to be known      *)
(* holds the handheld play up to the last sample, but for the seconds in   *)
(* which one reading is used again, once for each return to television     *)
(* (dock_sample_direct, dock_sample_usage).                                *)
THEOREM CountIsWhole == Spec => []CountsAll
<1>1. Init => CountInv /\ CopyOK /\ CopyClear
  BY CountInit, CopyInit DEF CopyClear, Init
<1>2. CountInv /\ CopyOK /\ CopyClear /\ [Next]_vars => (CountInv /\ CopyOK /\ CopyClear)'
  BY CountStep, CopyStep DEF CountInv
<1>3. CountInv => CountsAll
  <2> SUFFICES ASSUME CountInv, enabled, state.known, state.day = Today, ~ghost.lost
               PROVE  ghost.read <= state.used + (Age - 1) * ghost.docked
    BY DEF CountsAll
  <2> QED BY DEF CountInv, Owes, Owed, Holds, Slack
<1> QED BY <1>1, <1>2, <1>3, PTL DEF Spec
=============================================================================
