------------------------- MODULE RestrictionsProofs -------------------------
(***************************************************************************)
(* Proofs about the three reasons over one setting, for any time line, and *)
(* any number of requests, rests, changes of the mode, failing calls and   *)
(* power cuts.                                                             *)
(***************************************************************************)
EXTENDS Restrictions, TLAPS

(***************************************************************************)
(* The inductive invariant.                                                *)
(***************************************************************************)
Ops == {"idle", "boot", "tick", "skip", "disable", "clear", "rest", "waive"}
Asked == {"skip", "disable", "clear", "rest", "waive"}
Enforcer == {"tick", "waive", "clear"}

(* From the sample to the state that is written; a lifting; the steps of   *)
(* an enforcement, and those of a request.                                 *)
ComposeAts ==
  {"eye", "dock", "keepDock", "handOver", "exit", "target", "keepState", "keepBed", "begin",
   "write", "record"}
LiftAts == {"lift", "lifting", "undoLift", "lifted", "forgetBed"}
EnforceAts ==
  ComposeAts \cup LiftAts
    \cup {"sample", "forgetEye", "undoWrite", "drop", "forget", "undo", "stop"}
AnswerAts == {"load", "resolve", "save", "answer", "commit", "takeBack", "refuse", "stop"}
Ats == EnforceAts \cup AnswerAts \cup
  {"end", "boot", "settle", "confirm", "confirmed", "closeLift", "close", "journal", "check",
   "release", "released", "withdraw", "revert", "revertBed", "revertState", "wake",
   "forgetRest", "keepRules"}

JobSet ==
  [op : Ops, at : Ats, then : Ats, st : State, before : State, win : Period \cup {None},
   in : BOOLEAN, out : BOOLEAN, moved : BOOLEAN]

(* The type invariant.                                                     *)
TypeOK ==
  /\ disk \in Disk /\ pctl \in Slots /\ journal \in Journals \cup {None} /\ flag \in BOOLEAN
  /\ job \in JobSet
  /\ power \in BOOLEAN /\ clock \in Period /\ away \in BOOLEAN /\ faults \in Nat /\ moves \in Nat
  /\ harmed \in SUBSET {"lost", "flag", "clear"}

(* The steps of each job.                                                  *)
Labels ==
  /\ job.op = "idle" => job.at = "end"
  /\ job.op = "boot" => job.at \in {"boot", "stop"}
  /\ job.op = "tick" =>
         job.at \in EnforceAts \cup {"settle", "confirm", "confirmed", "closeLift", "close"}
  /\ job.op = "waive" =>
         job.at \in EnforceAts \cup AnswerAts \cup {"journal", "check", "release", "released"}
  /\ job.op = "clear" =>
         job.at \in EnforceAts \cup AnswerAts \cup {"journal", "check", "withdraw", "revert",
                                                    "revertBed", "revertState"}
  /\ job.op = "rest" => job.at \in AnswerAts \cup {"journal", "wake", "undo", "forgetRest"}
  /\ job.op \in {"skip", "disable"} => job.at \in AnswerAts \cup LiftAts \cup {"keepRules"}
  /\ job.at = "stop" => job.then \in {"end", "check", "refuse", "drop"}
  /\ job.at = "stop" /\ job.then = "check" => job.op \in {"waive", "clear"}
  /\ job.at = "stop" /\ job.then = "refuse" => job.op \in Asked
  /\ job.at = "stop" /\ job.then = "drop" => job.op \in Enforcer
  /\ ~power => job.op = "idle"

(* The service enforces only while it has not stopped itself.              *)
Running ==
  /\ job.op \in Enforcer /\ job.at \in EnforceAts => ~flag \/ job.at \in {"undo", "stop", "drop"}
  /\ job.op = "tick" /\ job.at \in {"settle", "confirm", "confirmed", "closeLift", "close"} =>
         ~flag
  /\ job.op = "clear" /\ job.at \in {"resolve", "load", "journal", "save"} => ~flag

(* What a request that lifts carries is the state but for what it lifts.   *)
Kept(s, d) == s.bed = d.bed /\ s.dock = d.dock /\ s.last = d.last
Loaded ==
  LET st == job.st
      d == disk.st IN
  /\ job.op \in {"skip", "disable"}
     /\ job.at \in {"lift", "lifting", "lifted", "forgetBed", "keepRules", "save"} =>
       /\ Kept(st, d) /\ st.waived = d.waived /\ st.rest = d.rest
       /\ st.skipped = IF job.op = "skip" THEN job.win ELSE d.skipped
  /\ job.op = "skip" /\ job.at \in LiftAts => Active
  /\ job.op = "rest" /\ job.at \in {"journal", "wake"} =>
       Kept(st, d) /\ st.waived = d.waived /\ st.skipped = d.skipped /\ st.rest = None
  /\ job.op = "rest" /\ job.at = "save" =>
       st.bed = d.bed /\ st.dock = d.dock /\ st.waived = d.waived /\ st.skipped = d.skipped
       /\ st.rest = None
  /\ job.op \in {"waive", "clear"} /\ job.at \in {"journal", "save"} =>
       /\ Kept(st, d) /\ st.rest = d.rest
       /\ IF job.op = "waive" THEN st.skipped = d.skipped
          ELSE st.skipped = None /\ st.waived = d.waived
  /\ job.at = "release" => st = d

(* A rest and bedtime are never recorded together.                         *)
Plain(st) == st.rest # None => st.bed = None
Apart ==
  /\ Plain(disk.st) /\ Plain(job.st) /\ Plain(job.before)
  /\ journal # None => Plain(journal.disk.st)

(* A job carries no rest that begins or ends before its sample.            *)
Fresh ==
  /\ job.op \notin Enforcer => ~job.in /\ ~job.out /\ ~job.moved
  /\ job.at \in {"settle", "confirm", "confirmed", "load", "resolve", "journal", "save",
                 "sample"} =>
       ~job.in /\ ~job.out /\ ~job.moved

(* What an enforcement carries is the state, but for a rest that begins    *)
(* (in) or ends (out).                                                     *)
Follows ==
  LET st == job.st
      d == disk.st IN
  job.op \in Enforcer =>
  /\ job.at \in ComposeAts \cup {"lift", "lifting", "lifted", "forgetBed", "closeLift"} =>
       Kept(st, d) /\ st.skipped = d.skipped /\ st.waived = d.waived
  /\ job.at \in ComposeAts =>
       /\ job.in => d.rest = None /\ st.bed = None /\ ~BedDue(st) /\ ~DockDue(st) /\ ~job.out
       /\ job.out => d.rest # None /\ st.rest = None /\ (BedDue(st) \/ clock >= d.rest)
       /\ ~job.in /\ ~job.out => st.rest = d.rest
       /\ st.rest # None => ~BedDue(st)
       /\ job.moved => job.out
  /\ job.at \in {"lift", "lifting", "lifted", "forgetBed", "closeLift"} =>
       ~job.in /\ ~job.out /\ ~job.moved /\ st.rest = None /\ d.rest = None
  /\ job.at \in {"lift", "lifting", "lifted"} => st.bed # None /\ st.bed # DueBed(st)
  /\ job.at \in {"forgetBed", "closeLift"} => st.bed = None
  /\ job.at \in {"target", "keepState", "keepBed", "begin", "write", "record"} =>
         st.bed \in {None, DueBed(st)}
  /\ job.at = "keepDock" => DockDue(st) /\ ~st.dock
  /\ job.at = "keepBed" => Enters(st)
  /\ job.at = "keepState" => InForce(st)
  /\ job.at = "forgetEye" => (job.out => d.rest = None)
  /\ job.at = "forget" => (job.out => d.rest = None) /\ (d.dock => DockDue(st))

(* A state the service can have written.                                   *)
Sane(st) ==
  /\ st.rest # None => st.bed = None /\ (st.last = None \/ st.last[2] = "blocked")
  /\ st.bed # None => Window[st.bed] = st.bed /\ st.bed <= clock /\ st.skipped # st.bed

(* Every reason in force has the settings it found.                        *)
Held(snap) == snap # None /\ snap.of \subseteq {"rest"}
Sound(d) ==
  /\ d.st.bed # None =>
         IF d.bed = None THEN Gone(d.st.bed) ELSE d.bed.win = d.st.bed /\ Held(d.bed)
  /\ d.st.rest # None => d.eye # None /\ d.eye.of = {}
  /\ d.st.dock => Held(d.dock)

(* The journal, if any, would put back a sound card; without one the card  *)
(* is sound itself, and with one it is but for an undoing that failed.     *)
Journalled ==
  /\ Sane(disk.st) /\ (job.at = "forgetBed" => disk.st.bed = None)
  /\ journal = None => Sound(disk) /\ disk.st.pending = None
  /\ journal # None =>
       /\ journal.whole
       /\ Sane(journal.disk.st) /\ Sound(journal.disk) /\ journal.disk.st.pending = None
       /\ ~journal.disk.on => ~disk.on
       /\ Sound(disk) \/ job.at \in {"stop", "boot"} \/ ~power

(* Whose journal there is, and where there is one.                         *)
Owned ==
  /\ journal # None =>
       /\ job.op = "idle" /\ power => journal.by = "enforce"
       /\ job.op = "tick" => journal.by = "enforce"
       /\ job.op \in Asked /\ job.at \notin {"resolve", "stop"} => journal.by = "request"
       /\ job.op \in Enforcer \cup {"idle"} /\ job.at # "stop" /\ power =>
              journal.disk.on = disk.on
  /\ job.at \in {"load", "drop", "forgetRest", "revertBed", "revertState"} => journal = None
  /\ job.at \in {"write", "record", "undoWrite", "lifting", "lifted"} => journal # None
  /\ job.at = "forgetBed" /\ job.op # "tick" => journal # None
  /\ job.op \in {"waive", "clear"} /\ job.at \in EnforceAts \ {"drop", "stop"} => journal # None
  /\ job.at = "save" /\ Nested => journal # None
  /\ job.at \notin {"release", "released"}

(* Where the state has no target that waits, and where none is carried.    *)
Settled ==
  /\ job.at \in ComposeAts \cup
                 {"load", "journal", "wake", "save", "keepRules", "withdraw", "answer", "commit",
                  "forgetRest", "sample", "forgetEye", "lift", "lifting", "lifted", "forgetBed",
                  "closeLift", "close", "confirmed"} =>
       disk.st.pending = None
  /\ job.at \in (ComposeAts \ {"record"}) \cup
                 {"settle", "confirm", "confirmed", "load", "resolve", "journal", "wake", "save",
                  "keepRules", "sample", "lift", "lifting", "lifted", "forgetBed", "closeLift"} =>
       job.st.pending = None
  /\ job.at = "forget" => disk.st.pending = job.st.pending

(* The snapshots that are taken on the way to the new state.               *)
Taken ==
  LET st == job.st IN
  job.op \in Enforcer =>
  /\ job.at = "eye" => job.in /\ pctl[Today] = "open"
  /\ job.at \in ComposeAts \ {"eye"} /\ job.in => disk.eye # None /\ disk.eye.of = {}
  /\ job.at \in (ComposeAts \ {"eye", "dock", "keepDock"})
                  \cup {"lift", "lifting", "lifted", "forgetBed", "closeLift"}
     /\ DockDue(st) =>
       Held(disk.dock)
  /\ job.at \in ComposeAts /\ job.moved =>
       BedDue(st) /\ st.bed = None /\ job.out /\ Held(disk.bed) /\ disk.bed.win = Window[clock]
  /\ job.at \in {"begin", "write", "record"} /\ Enters(st) =>
         Held(disk.bed) /\ disk.bed.win = Window[clock]

(* What is taken back may lose its snapshot only if it would not be put    *)
(* back.                                                                   *)
Lost(w) == w = None \/ Gone(w)
Undone ==
  LET st == job.st
      d == disk.st
      o == journal.disk.st IN
  /\ job.op \in Enforcer /\ journal # None =>
     /\ job.at \in {"sample", "eye", "dock", "keepDock", "handOver", "exit", "lift", "lifting",
                    "lifted"} =>
          o.bed = d.bed
     /\ (\/ job.at \in {"target", "keepState", "keepBed", "begin", "write", "undoWrite"}
         \/ job.at = "forgetBed" /\ job.op # "tick") =>
          (Enters(st) => Lost(o.bed))
     /\ job.at \in (ComposeAts \ {"record"})
                     \cup {"sample", "lift", "lifting", "lifted", "forgetBed"} =>
          (o.rest # None => d.rest # None)
     /\ job.at = "undoWrite" => (job.in => o.rest = None)
  /\ job.at = "drop" => (Enters(st) => Lost(d.bed)) /\ (job.in => d.rest = None)

(* The journal a tick has left behind without a target that waits.         *)
Left ==
  LET st == job.st
      d == disk.st
      o == journal.disk.st IN
  journal # None /\ d.pending = None /\ job.op \in {"tick", "idle"} /\ power =>
    /\ job.at \in {"end", "sample", "eye", "dock", "forgetEye"} =>
         o.bed = None /\ d.bed = None /\ ~d.dock /\ (o.rest # None => d.rest # None)
    /\ job.at \in {"keepDock", "handOver", "exit", "target", "keepState"} =>
         ~d.dock /\ o.bed = d.bed /\ (d.bed # None => DockDue(st))
    /\ job.at = "keepBed" => ~d.dock /\ o.bed = d.bed

(* What a request found is what its refusal leaves.                        *)
Found ==
  LET d == disk.st IN
  job.op \in Asked =>
  /\ job.at \notin {"load", "resolve", "answer", "commit", "takeBack", "forgetRest", "stop"} =>
       IF journal = None THEN d = job.before ELSE journal.disk.st = job.before
  /\ (\/ job.at \in {"journal", "wake", "withdraw"}
      \/ job.at = "save" /\ job.op \in {"clear", "waive", "rest"}) =>
       d = job.before
  /\ job.op = "rest" /\ job.at \in {"answer", "commit", "forgetRest"} => d.rest = None

(* The window a request names.                                             *)
Named ==
  LET d == disk.st IN
  /\ job.op = "skip" =>
       /\ job.win # None
       /\ job.at \in {"load", "resolve"} =>
              disk.on /\ (job.win = Window[clock] \/ job.win > clock)
       /\ job.at \in {"keepRules", "save"} => job.st.bed # job.win
  /\ job.op = "clear" =>
       /\ job.win # None /\ job.at # "resolve"
       /\ job.at = "load" => d.skipped = job.win
       /\ job.at # "load" => job.before.skipped = job.win
       /\ job.at \in (EnforceAts \ {"stop"})
                       \cup {"journal", "check", "revert", "revertBed", "revertState"} => Active

(* The rest holds of a service that has not stopped, and of which nothing  *)
(* was spoilt.                                                             *)
Rest == Journalled /\ Owned /\ Settled /\ Taken /\ Undone /\ Left /\ Found /\ Named
IInv ==
  /\ TypeOK /\ Labels /\ Running /\ Loaded /\ Apart /\ Fresh /\ Follows
  /\ ~flag /\ harmed = {} => Rest

USE BoundsAssumption, NoneAssumption DEF At

-----------------------------------------------------------------------------
(***************************************************************************)
(* The fields of the records, and of what the steps put there.             *)
(***************************************************************************)
DiskHas(d, st, on, bed, eye, dock) ==
  d \in Disk /\ d.st = st /\ d.on = on /\ d.bed = bed /\ d.eye = eye /\ d.dock = dock

StateHas(s, bed, skipped, dock, rest, last, pending, waived) ==
  /\ s \in State /\ s.bed = bed /\ s.skipped = skipped /\ s.dock = dock /\ s.rest = rest
  /\ s.last = last /\ s.pending = pending /\ s.waived = waived

JobHas(j, op, at, then, st, before, win, in, out, moved) ==
  /\ j \in JobSet /\ j.op = op /\ j.at = at /\ j.then = then /\ j.st = st /\ j.before = before
  /\ j.win = win /\ j.in = in /\ j.out = out /\ j.moved = moved

(* A job that goes on, that stops the service first, that has ended, and   *)
(* that gives an enforcement up.                                           *)
Carries(j, at, st) == JobHas(j, job.op, at, job.then, st, job.before, job.win, job.in, job.out,
                             job.moved)
GoesOn(j, at) == Carries(j, at, job.st)
Stops(j, then) == JobHas(j, job.op, "stop", then, job.st, job.before, job.win, job.in, job.out,
                         job.moved)
Ends(j) == JobHas(j, "idle", "end", "end", Calm, Calm, None, FALSE, FALSE, FALSE)
GivesUp(j) ==
  \/ job.op = "tick" /\ Ends(j)
  \/ job.op \in {"waive", "clear"} /\ GoesOn(j, "check")
  \/ job.op \notin {"tick", "waive", "clear"} /\ GoesOn(j, "refuse")
StopsAfter(j) ==
  \/ job.op = "tick" /\ Stops(j, "end")
  \/ job.op \in {"waive", "clear"} /\ Stops(j, "check")
  \/ job.op \notin {"tick", "waive", "clear"} /\ Stops(j, "refuse")

LEMMA CalmIs == StateHas(Calm, None, None, FALSE, None, None, None, None)
BY DEF StateHas, State, Calm

LEMMA IdleIs == Ends(Idle)
BY CalmIs DEF Ends, JobHas, JobSet, Idle, Ops, Ats, StateHas

LEMMA TypeFields ==
  ASSUME TypeOK
  PROVE  /\ DiskHas(disk, disk.st, disk.on, disk.bed, disk.eye, disk.dock)
         /\ disk.st \in State /\ disk.on \in BOOLEAN
         /\ disk.bed \in Snapshot \cup {None} /\ disk.eye \in Snapshot \cup {None}
         /\ disk.dock \in Snapshot \cup {None}
         /\ JobHas(job, job.op, job.at, job.then, job.st, job.before, job.win, job.in, job.out,
                   job.moved)
         /\ job.st \in State /\ job.before \in State /\ job.op \in Ops /\ job.at \in Ats
         /\ job.then \in Ats
         /\ journal # None =>
              /\ journal \in Journals /\ journal.disk \in Disk /\ journal.pctl \in Slots
              /\ journal.disk.st \in State /\ journal.disk.on \in BOOLEAN
BY DEF TypeOK, DiskHas, JobHas, Disk, JobSet, Journals

LEMMA StateFields ==
  ASSUME NEW s \in State
  PROVE  /\ StateHas(s, s.bed, s.skipped, s.dock, s.rest, s.last, s.pending, s.waived)
         /\ s.bed \in Period \cup {None} /\ s.skipped \in Period \cup {None} /\ s.dock \in BOOLEAN
         /\ s.rest \in Nat \cup {None} /\ s.last \in (Date \X Setting) \cup {None}
         /\ s.pending \in Setting \cup {None} /\ s.waived \in Date \cup {None}
BY DEF State, StateHas

LEMMA DiskEdits ==
  ASSUME TypeOK
  PROVE  /\ \A s \in State : DiskHas([disk EXCEPT !.st = s], s, disk.on, disk.bed, disk.eye,
                                     disk.dock)
         /\ \A b \in BOOLEAN : DiskHas([disk EXCEPT !.on = b], disk.st, b, disk.bed, disk.eye,
                                       disk.dock)
         /\ \A n \in Snapshot \cup {None} :
              /\ DiskHas([disk EXCEPT !.bed = n], disk.st, disk.on, n, disk.eye, disk.dock)
              /\ DiskHas([disk EXCEPT !.eye = n], disk.st, disk.on, disk.bed, n, disk.dock)
              /\ DiskHas([disk EXCEPT !.dock = n], disk.st, disk.on, disk.bed, disk.eye, n)
         /\ \A n, m, k \in Snapshot \cup {None} :
              DiskHas([disk EXCEPT !.bed = n, !.eye = m, !.dock = k], disk.st, disk.on, n, m, k)
BY DEF TypeOK, Disk, DiskHas

LEMMA ToHas ==
  ASSUME TypeOK, NEW l \in Ats \ {"end"}
  PROVE  /\ GoesOn(To(l), l)
         /\ \A s \in State : Carries([To(l) EXCEPT !.st = s], l, s)
BY DEF TypeOK, JobSet, GoesOn, Carries, JobHas, To

LEMMA ToEnd == Ends(To("end"))
BY IdleIs DEF To

LEMMA StoppingHas ==
  ASSUME TypeOK, NEW l \in Ats
  PROVE  Stops(Stopping(l), l)
<1>1. "stop" \in Ats
  BY DEF Ats, AnswerAts
<1> QED BY <1>1 DEF TypeOK, JobSet, Stops, JobHas, Stopping

LEMMA AfterIs ==
  ASSUME TypeOK
  PROVE  GivesUp(To(After)) /\ StopsAfter(Stopping(After))
<1>1. CASE job.op = "tick"
  <2>1. After = "end" BY <1>1 DEF After
  <2> QED BY <1>1, <2>1, ToEnd, StoppingHas DEF GivesUp, StopsAfter, Ats
<1>2. CASE job.op \in {"waive", "clear"}
  <2>1. After = "check" BY <1>2 DEF After
  <2> QED BY <1>2, <2>1, ToHas, StoppingHas DEF GivesUp, StopsAfter, Ats
<1>3. CASE job.op \notin {"tick", "waive", "clear"}
  <2>1. After = "refuse" BY <1>3 DEF After
  <2> QED BY <1>3, <2>1, ToHas, StoppingHas DEF GivesUp, StopsAfter, Ats, AnswerAts
<1> QED BY <1>1, <1>2, <1>3

-----------------------------------------------------------------------------
(***************************************************************************)
(* What each kind of step leaves.                                          *)
(***************************************************************************)
Counted ==
  /\ faults' \in Nat /\ moves' \in Nat
  /\ harmed' \in SUBSET {"lost", "flag", "clear"} /\ (harmed' = {} => harmed = {})
Around == power' = power /\ clock' = clock /\ away' = away

Went(j) ==
  /\ job' = j /\ disk' = disk /\ pctl' = pctl /\ journal' = journal /\ flag' = flag /\ Counted
  /\ Around
Wrote(d, then, failed) ==
  /\ \/ disk' = d /\ job' = then
     \/ disk' = disk /\ job' = failed
  /\ pctl' = pctl /\ journal' = journal /\ flag' = flag /\ Counted /\ Around
Loses(d, failed) ==
  /\ disk' = d /\ job' = failed
  /\ harmed' = {} /\ (journal = None \/ (job.at = "save" /\ job.op = "clear")) =>
       d.st = disk.st /\ d.on = disk.on
  /\ pctl' = pctl /\ journal' = journal /\ flag' = flag /\ Counted /\ Around
Removed(bed, eye, dock, then) ==
  /\ disk' \in Disk /\ disk'.st = disk.st /\ disk'.on = disk.on
  /\ disk'.bed \in {disk.bed, bed} /\ disk'.eye \in {disk.eye, eye}
  /\ disk'.dock \in {disk.dock, dock}
  /\ job' = then /\ pctl' = pctl /\ journal' = journal /\ flag' = flag /\ Counted /\ Around
Emptied ==
  \/ journal' = None
  \/ journal # None /\ journal' \in Journals /\ journal'.disk = journal.disk /\ harmed' # {}
Closed(then) ==
  /\ Emptied /\ job' = then /\ disk' = disk /\ pctl' = pctl /\ flag' = flag /\ Counted /\ Around
WrotePctl(p, then, failed) ==
  /\ \/ pctl' = p /\ job' = then
     \/ pctl' \in {pctl, p} /\ job' \in failed
  /\ disk' = disk /\ journal' = journal /\ flag' = flag /\ Counted /\ Around
Opened ==
  journal' \in Journals /\ journal'.by = By /\ journal'.disk = disk /\ journal'.pctl = pctl
  /\ journal'.whole
Began(then, failed) ==
  /\ \/ journal # None /\ journal' = journal /\ journal.by = By /\ job' = then
     \/ journal # None /\ journal' = journal /\ journal.by # By /\ job' = failed
     \/ journal = None /\ Opened /\ job' = then
     \/ journal = None /\ journal' = None /\ job' = failed
  /\ disk' = disk /\ pctl' = pctl /\ flag' = flag /\ Counted /\ Around
Unrolled(then) == journal = None /\ journal' = None /\ disk' = disk /\ pctl' = pctl /\ job' = then
Rolled(then) ==
  /\ journal # None /\ Emptied /\ disk' = journal.disk /\ pctl' = journal.pctl /\ job' = then
Halfway(failed) ==
  /\ journal # None /\ journal' = journal /\ disk' \in Disk /\ job' = failed
  /\ pctl' \in {pctl, journal.pctl}
  /\ disk'.st \in {disk.st, journal.disk.st, Calm}
  /\ disk'.on \in {disk.on, journal.disk.on, FALSE}
RolledBack(then, failed) ==
  /\ Unrolled(then) \/ Rolled(then) \/ Halfway(failed)
  /\ flag' = flag /\ Counted /\ Around

LEMMA GoIs ==
  ASSUME TypeOK, NEW j, Go(j)
  PROVE  Went(j)
BY DEF TypeOK, Go, Same, Went, Counted, Around

LEMMA WriteIs ==
  ASSUME TypeOK, NEW d, NEW then, NEW failed, Write(d, then, failed)
  PROVE  Wrote(d, then, failed)
<1>1. \/ disk' = d /\ job' = then
      \/ disk' = disk /\ job' = failed
  BY Zenon DEF Write
<1>2. pctl' = pctl /\ journal' = journal /\ flag' = flag /\ Counted /\ Around
  BY DEF TypeOK, Write, Fault, Same, Counted, Around
<1> QED BY <1>1, <1>2 DEF Wrote

LEMMA LoseIs ==
  ASSUME TypeOK, NEW d, NEW failed, Lose(d, failed)
  PROVE  Loses(d, failed)
<1>1. /\ disk' = d /\ job' = failed /\ pctl' = pctl /\ journal' = journal /\ flag' = flag
      /\ Around
      /\ faults' \in Nat /\ moves' \in Nat
  BY DEF TypeOK, Lose, Fault, Same, Around
<1>2. CASE d.st = disk.st /\ d.on = disk.on
  <2>1. harmed' = harmed
    BY <1>2 DEF Lose
  <2> QED BY <1>1, <1>2, <2>1 DEF TypeOK, Loses, Counted
<1>3. CASE ~Unguarded
  <2>1. harmed' = harmed
    BY <1>3 DEF Lose
  <2> QED BY <1>1, <1>3, <2>1 DEF TypeOK, Loses, Counted, Unguarded
<1>4. CASE Unguarded /\ ~(d.st = disk.st /\ d.on = disk.on)
  <2>1. harmed' = harmed \cup {"lost"}
    BY <1>4 DEF Lose, Harm
  <2>2. harmed' # {} /\ harmed' \in SUBSET {"lost", "flag", "clear"}
    BY <2>1 DEF TypeOK
  <2> QED BY <1>1, <2>2 DEF Loses, Counted
<1> QED BY <1>2, <1>3, <1>4

LEMMA WriteFileIs ==
  ASSUME TypeOK, NEW st, NEW snap, NEW then, NEW failed
  PROVE  /\ WriteState(st, then, failed) =>
              Wrote([disk EXCEPT !.st = st], then, failed) \/ Loses([disk EXCEPT !.st = Calm],
                  failed)
         /\ WriteBed(snap, then, failed) =>
              Wrote([disk EXCEPT !.bed = snap], then, failed) \/ Loses([disk EXCEPT !.bed = None],
                  failed)
         /\ WriteEye(snap, then, failed) =>
              Wrote([disk EXCEPT !.eye = snap], then, failed) \/ Loses([disk EXCEPT !.eye = None],
                  failed)
         /\ WriteDock(snap, then, failed) =>
              Wrote([disk EXCEPT !.dock = snap], then,
                    failed) \/ Loses([disk EXCEPT !.dock = None], failed)
BY WriteIs, LoseIs DEF WriteState, WriteBed, WriteEye, WriteDock

LEMMA LostFiles ==
  ASSUME TypeOK
  PROVE  /\ DiskHas([disk EXCEPT !.st = Calm], Calm, disk.on, disk.bed, disk.eye, disk.dock)
         /\ DiskHas([disk EXCEPT !.on = FALSE], disk.st, FALSE, disk.bed, disk.eye, disk.dock)
         /\ DiskHas([disk EXCEPT !.bed = None], disk.st, disk.on, None, disk.eye, disk.dock)
         /\ DiskHas([disk EXCEPT !.eye = None], disk.st, disk.on, disk.bed, None, disk.dock)
         /\ DiskHas([disk EXCEPT !.dock = None], disk.st, disk.on, disk.bed, disk.eye, None)
         /\ StateHas(Calm, None, None, FALSE, None, None, None, None)
<1>1. Calm \in State /\ FALSE \in BOOLEAN /\ None \in Snapshot \cup {None}
  BY CalmIs DEF StateHas
<1> QED BY <1>1, CalmIs, DiskEdits

LEMMA RemoveIs ==
  ASSUME TypeOK, NEW bed \in Snapshot \cup {None}, NEW eye \in Snapshot \cup {None},
         NEW dock \in Snapshot \cup {None}, NEW then, Remove(bed, eye, dock, then)
  PROVE  Removed(bed, eye, dock, then)
<1>1. PICK b \in {disk.bed, bed}, e \in {disk.eye, eye}, d \in {disk.dock, dock} :
        disk' = [disk EXCEPT !.bed = b, !.eye = e, !.dock = d]
  <2>1. CASE disk' = [disk EXCEPT !.bed = bed, !.eye = eye, !.dock = dock]
    BY <2>1
  <2>2. CASE disk' \in {[disk EXCEPT !.bed = b, !.eye = e, !.dock = d] :
                          b \in {disk.bed, bed}, e \in {disk.eye, eye}, d \in {disk.dock, dock}}
    BY <2>2
  <2> QED BY <2>1, <2>2 DEF Remove
<1>2. DiskHas(disk', disk.st, disk.on, b, e, d)
  <2>1. b \in Snapshot \cup {None} /\ e \in Snapshot \cup {None} /\ d \in Snapshot \cup {None}
    BY TypeFields
  <2> QED BY <1>1, <2>1, DiskEdits
<1>3. job' = then /\ pctl' = pctl /\ journal' = journal /\ flag' = flag /\ Counted /\ Around
  BY DEF TypeOK, Remove, Fault, Same, Counted, Around
<1> QED BY <1>2, <1>3 DEF Removed, DiskHas

LEMMA ClearedIs ==
  ASSUME TypeOK, Cleared
  PROVE  /\ Emptied /\ faults' \in Nat
         /\ harmed' \in SUBSET {"lost", "flag", "clear"} /\ (harmed' = {} => harmed = {})
<1>1. CASE journal' = None /\ UNCHANGED <<faults, harmed>>
  BY <1>1 DEF TypeOK, Emptied
<1>2. CASE /\ journal # None /\ Fault /\ Harm("clear")
           /\ journal' \in {journal, [journal EXCEPT !.whole = FALSE]}
  <2>1. journal' \in Journals /\ journal'.disk = journal.disk
    BY <1>2, TypeFields DEF TypeOK, Journals
  <2> QED BY <1>2, <2>1 DEF TypeOK, Fault, Harm, Emptied
<1> QED BY <1>1, <1>2 DEF Cleared

LEMMA ClearIs ==
  ASSUME TypeOK, NEW then, Clear(then)
  PROVE  Closed(then)
BY ClearedIs DEF TypeOK, Clear, Same, Closed, Counted, Around

LEMMA WritePctlIs ==
  ASSUME TypeOK, NEW p, NEW then, NEW failed, WritePctl(p, then, failed)
  PROVE  WrotePctl(p, then, failed)
<1>1. \/ pctl' = p /\ job' = then
      \/ pctl' \in {pctl, p} /\ job' \in failed
  BY Zenon DEF WritePctl
<1>2. disk' = disk /\ journal' = journal /\ flag' = flag /\ Counted /\ Around
  BY DEF TypeOK, WritePctl, Fault, Same, Counted, Around
<1> QED BY <1>1, <1>2 DEF WrotePctl

LEMMA BeginIs ==
  ASSUME TypeOK, NEW then, NEW failed, Begin(then, failed)
  PROVE  Began(then, failed)
<1>1. CASE journal # None /\ Go(IF journal.by = By THEN then ELSE failed)
  <2>1. Went(IF journal.by = By THEN then ELSE failed)
    BY <1>1, GoIs
  <2> QED BY <1>1, <2>1 DEF Went, Began
<1>2. CASE /\ journal = None
           /\ journal' = [by |-> By, disk |-> disk, pctl |-> pctl, whole |-> TRUE]
           /\ job' = then /\ UNCHANGED <<disk, pctl, flag, faults, moves, harmed>> /\ Same
  <2>1. By \in {"enforce", "request"}
    BY DEF By
  <2>2. Opened
    BY <1>2, <2>1 DEF TypeOK, Opened, Journals
  <2> QED BY <1>2, <2>2 DEF TypeOK, Began, Same, Counted, Around
<1>3. CASE /\ journal = None /\ Fault /\ job' = failed
           /\ UNCHANGED <<disk, pctl, journal, flag, moves, harmed>> /\ Same
  BY <1>3 DEF TypeOK, Began, Fault, Same, Counted, Around
<1> QED BY <1>1, <1>2, <1>3 DEF Begin

LEMMA RollbackIs ==
  ASSUME TypeOK, NEW then, NEW failed, Rollback(then, failed)
  PROVE  RolledBack(then, failed)
<1>1. CASE journal = None /\ Go(then)
  BY <1>1, GoIs DEF Went, RolledBack, Unrolled
<1>2. CASE journal # None /\ pctl' = journal.pctl /\ disk' = journal.disk /\ Cleared
           /\ job' = then
  <2>1. Counted /\ Emptied /\ flag' = flag /\ Around
    BY <1>2, ClearedIs DEF TypeOK, Rollback, Go, Same, Counted, Around
  <2> QED BY <1>2, <2>1 DEF RolledBack, Rolled
<1>3. CASE /\ journal # None
           /\ Fault \/ (~journal.whole /\ UNCHANGED faults)
           /\ pctl' \in {pctl, journal.pctl} /\ disk' \in Mixed(journal.disk)
           /\ job' = failed /\ UNCHANGED <<journal, harmed>>
  <2>1. /\ disk' \in Disk /\ disk'.st \in {disk.st, journal.disk.st, Calm}
        /\ disk'.on \in {disk.on, journal.disk.on, FALSE}
    <3>1. disk \in Disk /\ journal.disk \in Disk
      BY <1>3, TypeFields DEF TypeOK
    <3>2. Calm \in State
      BY CalmIs DEF StateHas
    <3> QED BY <1>3, <3>1, <3>2 DEF Mixed, Disk
  <2>2. flag' = flag /\ Counted /\ Around
    BY <1>3 DEF TypeOK, Rollback, Go, Fault, Same, Counted, Around
  <2>3. journal # None /\ journal' = journal /\ pctl' \in {pctl, journal.pctl} /\ job' = failed
    BY <1>3
  <2> QED BY <2>1, <2>2, <2>3 DEF RolledBack, Halfway
<1> QED BY <1>1, <1>2, <1>3 DEF Rollback

(* Of a card nothing was spoilt on the journal is gone.                    *)
LEMMA RollsBack ==
  ASSUME NEW then, NEW failed, RolledBack(then, failed), harmed' = {}
  PROVE  /\ Unrolled(then) \/ (Rolled(then) /\ journal' = None) \/ Halfway(failed)
         /\ flag' = flag /\ Around
<1>1. /\ Unrolled(then) \/ Rolled(then) \/ Halfway(failed)
      /\ flag' = flag /\ Around
  BY Zenon DEF RolledBack
<1>2. Rolled(then) => journal' = None
  BY DEF Rolled, Emptied
<1> QED BY <1>1, <1>2

-----------------------------------------------------------------------------
(***************************************************************************)
(* Time, and snapshots.                                                    *)
(***************************************************************************)
LEMMA TodayIs ==
  ASSUME TypeOK
  PROVE  /\ Today \in Date /\ pctl[Today] \in Setting
         /\ \A m \in Setting : Slot(m) \in Slots /\ Slot(m)[Today] = m
BY TimeLineAssumption DEF TypeOK, Today, Date, Slots, Slot

(* A window that has begun and is not the one in force, which is another,  *)
(* is over.                                                                *)
LEMMA GoneIs ==
  ASSUME clock \in Period, NEW w \in Period, Window[w] = w, w <= clock,
         Window[clock] # None, Window[clock] # w
  PROVE  Gone(w)
<1>0. Window[clock] \in 0 .. clock
  BY TimeLineAssumption
<1>1. PICK c \in Period : c = Window[clock] /\ c <= clock
  BY <1>0, TimeLineAssumption DEF Period
<1>2. Window[c] = c
  BY <1>1, TimeLineAssumption DEF Period
<1>3. ~(c <= w)
  BY <1>1, TimeLineAssumption DEF Period
<1>4. Day[w] # Day[c]
  BY <1>1, <1>2, TimeLineAssumption DEF Period
<1>5. Day[w] <= Day[c] /\ Day[c] <= Day[clock] /\ Day[w] \in Nat /\ Day[c] \in Nat
      /\ Day[clock] \in Nat
  BY <1>1, <1>3, TimeLineAssumption DEF Period
<1> QED BY <1>1, <1>4, <1>5 DEF Gone, Today

(* And it stays so.                                                        *)
LEMMA GoneStays ==
  ASSUME clock \in Period, clock' \in Period, clock <= clock', NEW w \in Period, Window[w] = w,
         w <= clock, Gone(w)
  PROVE  Gone(w)'
<1>1. Window[clock'] # w
  BY TimeLineAssumption DEF Gone, Period
<1>2. Day[w] < Day[clock']
  BY TimeLineAssumption DEF Gone, Today, Period
<1> QED BY <1>1, <1>2 DEF Gone, Today

LEMMA SeenIs ==
  ASSUME TypeOK
  PROVE  /\ Seen \in Snapshot /\ Seen # None
         /\ disk.st.bed = None /\ ~disk.st.dock => Held(Seen)
         /\ pctl[Today] = "open" => Seen.of = {}
<1>1. Seen \in Snapshot
  BY DEF TypeOK, Seen, Snapshot
<1>2. disk.st.bed = None /\ ~disk.st.dock => Seen.of \subseteq {"rest"}
  BY DEF Seen
<1>3. pctl[Today] = "open" => Seen.of = {}
  BY DEF Seen
<1> QED BY <1>1, <1>2, <1>3 DEF Held

LEMMA ForIs ==
  ASSUME TypeOK, NEW snap \in Snapshot
  PROVE  For(snap) \in Snapshot /\ For(snap).win = Window[clock] /\ For(snap).of = snap.of
         /\ For(snap) # None
<1>1. Window[clock] \in Period \cup {None}
  BY TimeLineAssumption DEF TypeOK
<1> QED BY <1>1 DEF For, Snapshot

LEMMA DueIs ==
  ASSUME TypeOK, NEW s \in State
  PROVE  /\ DueBed(s) \in Period \cup {None} /\ DockDue(s) \in BOOLEAN /\ BedDue(s) \in BOOLEAN
         /\ Target(s) \in Setting
         /\ BedDue(s) => DueBed(s) \in Period /\ DueBed(s) # None
<1>1. Window[clock] \in Period \cup {None} /\ None \notin Period
  BY TimeLineAssumption DEF TypeOK
<1>2. DockDue(s) \in BOOLEAN /\ BedDue(s) \in BOOLEAN
  BY DEF TypeOK, DockDue, BedDue, Standing, Disk
<1> QED BY <1>1, <1>2 DEF DueBed, BedDue, Standing, Target, Setting

LEMMA RecordedIs ==
  ASSUME TypeOK, NEW s \in State
  PROVE  StateHas(Recorded(s), DueBed(s), s.skipped, DockDue(s), s.rest, <<Today, Target(s)>>,
                  s.pending, s.waived)
<1>1. <<Today, Target(s)>> \in Date \X Setting
  BY TodayIs, DueIs
<1> QED BY <1>1, DueIs DEF Recorded, State, StateHas

LEMMA BeginsIs ==
  ASSUME NEW o \in Ops, NEW l \in Ats, NEW w \in Period \cup {None}
  PROVE  /\ JobHas([Idle EXCEPT !.op = o, !.at = l], o, l, "end", Calm, Calm, None, FALSE, FALSE,
                   FALSE)
         /\ JobHas([Idle EXCEPT !.op = o, !.win = w, !.at = l], o, l, "end", Calm, Calm, w, FALSE,
                   FALSE, FALSE)
BY CalmIs DEF JobHas, JobSet, Idle, StateHas, Ats

LEMMA SampledIs ==
  ASSUME TypeOK, NEW r \in Nat \cup {None}, NEW b \in BOOLEAN, NEW l \in Ats \ {"end"}
  PROVE  /\ StateHas([disk.st EXCEPT !.rest = r], disk.st.bed, disk.st.skipped, disk.st.dock, r,
                     disk.st.last, disk.st.pending, disk.st.waived)
         /\ JobHas([To(l) EXCEPT !.st = [disk.st EXCEPT !.rest = r], !.out = b], job.op, l,
                   job.then,
                   [disk.st EXCEPT !.rest = r], job.before, job.win, job.in, b, job.moved)
         /\ JobHas([To(l) EXCEPT !.st = [disk.st EXCEPT !.rest = r], !.in = b], job.op, l,
                   job.then,
                   [disk.st EXCEPT !.rest = r], job.before, job.win, b, job.out, job.moved)
<1>1. StateHas([disk.st EXCEPT !.rest = r], disk.st.bed, disk.st.skipped, disk.st.dock, r,
               disk.st.last, disk.st.pending, disk.st.waived)
  BY TypeFields DEF State, StateHas
<1>2. [disk.st EXCEPT !.rest = r] \in State
  BY <1>1 DEF StateHas
<1> QED BY <1>1, <1>2 DEF JobHas, TypeOK, JobSet, To

LEMMA LaterIs == TypeOK => clock + 1 \in Nat
BY TimeLineAssumption DEF TypeOK, Period

LEMMA StateEdits ==
  ASSUME NEW s \in State
  PROVE  /\ StateHas([s EXCEPT !.pending = None], s.bed, s.skipped, s.dock, s.rest, s.last, None,
                     s.waived)
         /\ StateHas([s EXCEPT !.rest = None], s.bed, s.skipped, s.dock, None, s.last, s.pending,
                     s.waived)
         /\ StateHas([s EXCEPT !.skipped = None], s.bed, None, s.dock, s.rest, s.last, s.pending,
                     s.waived)
         /\ \A w \in Period : StateHas([s EXCEPT !.skipped = w], s.bed, w, s.dock, s.rest, s.last,
                                       s.pending, s.waived)
         /\ \A t \in Date : StateHas([s EXCEPT !.waived = t], s.bed, s.skipped, s.dock, s.rest,
                                     s.last, s.pending, t)
         /\ \A p \in Setting : StateHas([s EXCEPT !.pending = p], s.bed, s.skipped, s.dock,
                                        s.rest, s.last, p, s.waived)
         /\ StateHas([s EXCEPT !.bed = None, !.last = None], None, s.skipped, s.dock, s.rest,
                     None, s.pending, s.waived)
BY DEF State, StateHas

LEMMA AcceptIs ==
  ASSUME TypeOK, NEW o \in Asked, NEW w \in Period \cup {None}, Accept(o, w)
  PROVE  \E j, l : /\ Went(j) /\ JobHas(j, o, l, "end", Calm, Calm, w, FALSE, FALSE, FALSE)
         /\ Calm.pending = None
                   /\ l = IF journal = None THEN "load" ELSE "resolve"
<1>1. PICK l \in {"load", "resolve"} : l = IF journal = None THEN "load" ELSE "resolve"
  OBVIOUS
<1>2. PICK j : /\ j = [Idle EXCEPT !.op = o, !.win = w, !.at = l]
               /\ JobHas(j, o, l, "end", Calm, Calm, w, FALSE, FALSE, FALSE)
  <2>1. o \in Ops /\ l \in Ats
    BY <1>1 DEF Asked, Ops, Ats, AnswerAts
  <2>2. JobHas([Idle EXCEPT !.op = o, !.win = w, !.at = l], o, l, "end", Calm, Calm, w, FALSE,
               FALSE, FALSE)
    BY <2>1, BeginsIs
  <2> QED BY <2>2
<1>3. job' = j
  BY <1>1, <1>2 DEF Accept
<1>4. Went(j)
  BY <1>3 DEF TypeOK, Accept, Same, Went, Counted, Around
<1>5. Calm.pending = None
  BY CalmIs DEF StateHas
<1> QED BY <1>1, <1>2, <1>4, <1>5

LEMMA LoadIs ==
  ASSUME TypeOK, NEW s \in State, NEW l \in Ats \ {"end"}, Load(s, l)
  PROVE  \E j : Went(j) /\ JobHas(j, job.op, l, job.then, s, disk.st, job.win, job.in, job.out,
                                  job.moved)
<1>1. PICK j : /\ j = [To(l) EXCEPT !.st = s, !.before = disk.st]
               /\ JobHas(j, job.op, l, job.then, s, disk.st, job.win, job.in, job.out, job.moved)
  <2>1. job \in JobSet /\ disk.st \in State
    BY TypeFields DEF TypeOK
  <2>2. JobHas([job EXCEPT !.at = l, !.st = s, !.before = disk.st], job.op, l, job.then, s,
               disk.st, job.win, job.in, job.out, job.moved)
    BY <2>1 DEF JobSet, JobHas
  <2>3. [To(l) EXCEPT !.st = s, !.before = disk.st] = [job EXCEPT !.at = l, !.st = s,
                                                       !.before = disk.st]
    BY <2>1 DEF JobSet, To
  <2> QED BY <2>2, <2>3
<1>2. Went(j)
  BY <1>1, GoIs DEF Load
<1> QED BY <1>1, <1>2

LEMMA LastIs ==
  ASSUME TypeOK, NEW s \in State
  PROVE  /\ [s EXCEPT !.last = <<Today, Target(s)>>] \in State
         /\ StateHas([s EXCEPT !.last = <<Today, Target(s)>>], s.bed, s.skipped, s.dock, s.rest,
                     <<Today, Target(s)>>, s.pending, s.waived)
<1>1. <<Today, Target(s)>> \in Date \X Setting
  BY TodayIs, DueIs
<1> QED BY <1>1 DEF State, StateHas

-----------------------------------------------------------------------------
(***************************************************************************)
(* Every step keeps the invariant.                                         *)
(***************************************************************************)
(* An enforcement.  In each proof <1>1 is where the job stands, <1>2 what  *)
(* the step leaves, and then comes one step for each part.                 *)
LEMMA TickKeeps ==
  ASSUME IInv, Tick
  PROVE  IInv'
<1>1. job.op = "idle" /\ job.at = "end" /\ power /\ ~flag
  BY DEF IInv, TypeOK, JobSet, Ops, Labels, Tick, ComposeAts, LiftAts, EnforceAts, AnswerAts,
     Enforcer, Asked, Free
<1>2. PICK j :
     /\ Went(j) /\ Calm.pending = None
     /\ JobHas(j, "tick", IF disk.st.pending # None THEN "settle" ELSE "sample", "end", Calm,
               Calm, None, FALSE, FALSE, FALSE)
  <2>1. PICK l \in {"settle", "sample"} : l = IF disk.st.pending # None THEN "settle"
                                              ELSE "sample"
    OBVIOUS
  <2>2. PICK j : /\ j = [Idle EXCEPT !.op = "tick", !.at = l]
                 /\ JobHas(j, "tick", l, "end", Calm, Calm, None, FALSE, FALSE, FALSE)
    BY BeginsIs DEF Ops, Ats, EnforceAts
  <2>3. Went(j)
    BY <2>1, <2>2, GoIs DEF Tick, IInv
  <2>4. Calm.pending = None
    BY CalmIs DEF StateHas
  <2> QED BY <2>1, <2>2, <2>3, <2>4
<1>3. TypeOK'
  BY <1>1, <1>2 DEF IInv, TypeOK, Went, JobHas, Around, Counted
<1>4. Labels'
  BY <1>1, <1>2 DEF IInv, Labels, ComposeAts, LiftAts, EnforceAts, AnswerAts, Enforcer, Asked,
     Went, JobHas, Around, Counted
<1>5. Running'
  BY <1>1, <1>2 DEF IInv, Running, Labels, ComposeAts, LiftAts, EnforceAts, AnswerAts, Enforcer,
     Asked, Went, JobHas, Around, Counted
<1>6. Loaded'
  BY <1>1, <1>2 DEF IInv, Loaded, Labels, Kept, Active, ComposeAts, LiftAts, EnforceAts,
     AnswerAts, Enforcer, Asked, Went, JobHas, Around, Counted
<1>7. Apart'
  BY <1>1, <1>2, CalmIs DEF StateHas, IInv, Labels, Apart, Plain, Follows, Fresh, Kept, Loaded,
     Target, DueBed, BedDue, ComposeAts, LiftAts, EnforceAts, AnswerAts, Enforcer, Asked, Went,
     DiskHas, JobHas, Carries, GoesOn, Stops, Ends, GivesUp, StopsAfter, Around, Counted
<1>8. Fresh'
  BY <1>1, <1>2 DEF IInv, Fresh, Labels, ComposeAts, LiftAts, EnforceAts, AnswerAts, Enforcer,
     Asked, Went, DiskHas, JobHas, Carries, GoesOn, Stops, Ends, GivesUp, StopsAfter, Around,
     Counted
<1>9. Follows'
  BY <1>1, <1>2 DEF IInv, TypeOK, Labels, Follows, Fresh, Apart, Plain, Kept, Loaded, Standing,
     BedDue, DockDue, DueBed, Enters, Target, Today, Gone, Active, Nested, InForce, By,
     ComposeAts, LiftAts, EnforceAts, AnswerAts, Enforcer, Asked, Went, DiskHas, JobHas, Carries,
     GoesOn, Stops, Ends, GivesUp, StopsAfter, Around, Counted
<1>10. ASSUME ~flag', harmed' = {}
       PROVE  Rest'
  <2>0. ~flag /\ harmed = {} /\ Rest /\ Follows /\ Fresh
    BY <1>2, <1>10 DEF IInv, Counted, Went
  <2>1. Journalled'
    BY <1>1, <1>2, <2>0 DEF Rest, Journalled, Sane, Sound, Held, Today, Gone, Went, JobHas,
       Around, Counted
  <2>2. Owned'
    BY <1>1, <1>2, <2>0 DEF Rest, Owned, Active, Nested, ComposeAts, LiftAts, EnforceAts,
       Enforcer, Asked, Went, JobHas, Around, Counted
  <2>3. Settled'
    BY <1>1, <1>2, <2>0 DEF Rest, Settled, Fresh, ComposeAts, Enforcer, Went, JobHas, Around,
       Counted
  <2>4. Taken'
    BY <1>1, <1>2, <2>0 DEF Rest, Taken, Held, Standing, BedDue, DockDue, Enters, Today,
       ComposeAts, Enforcer, Went, JobHas, Around, Counted
  <2>5. Undone'
    BY <1>1, <1>2, <2>0 DEF Rest, Undone, Lost, Standing, BedDue, DockDue, Enters, Today, Gone,
       ComposeAts, Enforcer, Went, JobHas, Around, Counted, Left
  <2>6. Left'
    BY <1>1, <1>2, <2>0 DEF Rest, Left, DockDue, Today, Went, JobHas, Around, Counted
  <2>7. Found'
    BY <1>1, <1>2, <2>0 DEF Rest, Found, Asked, Went, JobHas, Around, Counted
  <2>8. Named'
    BY <1>1, <1>2, <2>0 DEF Rest, Named, Active, ComposeAts, LiftAts, EnforceAts, Went, JobHas,
       Around, Counted
  <2> QED BY <2>1, <2>2, <2>3, <2>4, <2>5, <2>6, <2>7, <2>8 DEF Rest
<1> QED BY <1>3, <1>4, <1>5, <1>6, <1>7, <1>8, <1>9, <1>10 DEF IInv

LEMMA SettleKeeps ==
  ASSUME IInv, Settle
  PROVE  IInv'
<1>1. job.at = "settle" /\ job.op = "tick"
  BY DEF IInv, TypeOK, JobSet, Ops, Labels, Settle, ComposeAts, LiftAts, EnforceAts, AnswerAts,
     Enforcer, Asked
<1>2. PICK l, j : l \in {"confirm", "undo"} /\ Went(j) /\ GoesOn(j, l)
  <2>1. PICK l \in {"confirm", "undo"} : l = IF pctl[Today] = disk.st.pending THEN "confirm"
                                             ELSE "undo"
    OBVIOUS
  <2>2. Went(To(l))
    BY <2>1, GoIs DEF Settle, IInv
  <2>3. GoesOn(To(l), l)
    BY ToHas DEF IInv, Ats, EnforceAts
  <2> QED BY <2>2, <2>3
<1>3. TypeOK'
  BY <1>1, <1>2 DEF IInv, TypeOK, Went, JobHas, Carries, GoesOn, Around, Counted
<1>4. Labels'
  BY <1>1, <1>2 DEF IInv, Labels, ComposeAts, LiftAts, EnforceAts, AnswerAts, Enforcer, Asked,
     Went, JobHas, Carries, GoesOn, Around, Counted
<1>5. Running'
  BY <1>1, <1>2 DEF IInv, Running, Labels, ComposeAts, LiftAts, EnforceAts, AnswerAts, Enforcer,
     Asked, Went, JobHas, Carries, GoesOn, Around, Counted
<1>6. Loaded'
  BY <1>1, <1>2 DEF IInv, Loaded, Labels, Kept, Active, ComposeAts, LiftAts, EnforceAts,
     AnswerAts, Enforcer, Asked, Went, JobHas, Carries, GoesOn, Around, Counted
<1>7. Apart'
  BY <1>1, <1>2, CalmIs DEF StateHas, IInv, Labels, Apart, Plain, Follows, Fresh, Kept, Loaded,
     Target, DueBed, BedDue, ComposeAts, LiftAts, EnforceAts, AnswerAts, Enforcer, Asked, Went,
     DiskHas, JobHas, Carries, GoesOn, Stops, Ends, GivesUp, StopsAfter, Around, Counted
<1>8. Fresh'
  BY <1>1, <1>2 DEF IInv, Fresh, Labels, ComposeAts, LiftAts, EnforceAts, AnswerAts, Enforcer,
     Asked, Went, DiskHas, JobHas, Carries, GoesOn, Stops, Ends, GivesUp, StopsAfter, Around,
     Counted
<1>9. Follows'
  BY <1>1, <1>2 DEF IInv, TypeOK, Labels, Follows, Fresh, Apart, Plain, Kept, Loaded, Standing,
     BedDue, DockDue, DueBed, Enters, Target, Today, Gone, Active, Nested, InForce, By,
     ComposeAts, LiftAts, EnforceAts, AnswerAts, Enforcer, Asked, Went, DiskHas, JobHas, Carries,
     GoesOn, Stops, Ends, GivesUp, StopsAfter, Around, Counted
<1>10. ASSUME ~flag', harmed' = {}
       PROVE  Rest'
  <2>0. ~flag /\ harmed = {} /\ Rest /\ Follows /\ Fresh
    BY <1>2, <1>10 DEF IInv, Counted, Went
  <2>1. Journalled'
    BY <1>1, <1>2, <2>0 DEF Rest, Journalled, Sane, Sound, Held, Today, Gone, Went, JobHas,
       Carries, GoesOn, Around, Counted
  <2>2. Owned'
    BY <1>1, <1>2, <2>0 DEF Rest, Owned, Active, Nested, ComposeAts, LiftAts, EnforceAts,
       Enforcer, Asked, Went, JobHas, Carries, GoesOn, Around, Counted
  <2>3. Settled'
    BY <1>1, <1>2, <2>0 DEF Rest, Settled, Fresh, ComposeAts, Enforcer, Went, JobHas, Carries,
       GoesOn, Around, Counted
  <2>4. Taken'
    BY <1>1, <1>2, <2>0 DEF Rest, Taken, Held, Standing, BedDue, DockDue, Enters, Today,
       ComposeAts, Enforcer, Went, JobHas, Carries, GoesOn, Around, Counted
  <2>5. Undone'
    BY <1>1, <1>2, <2>0 DEF Rest, Undone, Lost, Standing, BedDue, Enters, Today, Gone, ComposeAts,
       Enforcer, Went, JobHas, Carries, GoesOn, Around, Counted
  <2>6. Left'
    BY <1>1, <1>2, <2>0 DEF Rest, Left, DockDue, Today, Went, JobHas, Carries, GoesOn, Around,
       Counted
  <2>7. Found'
    BY <1>1, <1>2, <2>0 DEF Rest, Found, Asked, Went, JobHas, Carries, GoesOn, Around, Counted
  <2>8. Named'
    BY <1>1, <1>2, <2>0 DEF Rest, Named, Active, ComposeAts, LiftAts, EnforceAts, Went, JobHas,
       Carries, GoesOn, Around, Counted
  <2> QED BY <2>1, <2>2, <2>3, <2>4, <2>5, <2>6, <2>7, <2>8 DEF Rest
<1> QED BY <1>3, <1>4, <1>5, <1>6, <1>7, <1>8, <1>9, <1>10 DEF IInv

LEMMA ConfirmKeeps ==
  ASSUME IInv, Confirm
  PROVE  IInv'
<1>1. job.at = "confirm" /\ job.op = "tick"
  BY DEF IInv, TypeOK, JobSet, Ops, Labels, Confirm, ComposeAts, LiftAts, EnforceAts, AnswerAts,
     Enforcer, Asked
<1>2. PICK d, t, f, s, g :
     /\ Wrote(d, t, f) \/ Loses(g, f)
     /\ DiskHas(d, s, disk.on, disk.bed, disk.eye, disk.dock)
     /\ StateHas(s, disk.st.bed, disk.st.skipped, disk.st.dock, disk.st.rest, disk.st.last, None,
                 disk.st.waived)
     /\ DiskHas(g, Calm, disk.on, disk.bed, disk.eye, disk.dock)
     /\ StateHas(Calm, None, None, FALSE, None, None, None, None)
     /\ GoesOn(t, "confirmed") /\ Stops(f, "end")
  <2>1. PICK s : /\ s = [disk.st EXCEPT !.pending = None]
                 /\ StateHas(s, disk.st.bed, disk.st.skipped, disk.st.dock, disk.st.rest,
                             disk.st.last, None, disk.st.waived)
    BY StateEdits, TypeFields DEF IInv
  <2>2. PICK d : d = [disk EXCEPT !.st = s]
             /\ DiskHas(d, s, disk.on, disk.bed, disk.eye, disk.dock)
    BY <2>1, DiskEdits DEF IInv, StateHas
  <2>3. Wrote(d, To("confirmed"), Stopping("end")) \/ Loses([disk EXCEPT !.st = Calm],
                                                            Stopping("end"))
    BY <2>1, <2>2, WriteFileIs DEF Confirm, IInv
  <2>4. GoesOn(To("confirmed"), "confirmed") /\ Stops(Stopping("end"), "end")
    BY ToHas, StoppingHas DEF IInv, Ats
  <2> QED BY <2>1, <2>2, <2>3, <2>4, LostFiles DEF IInv
<1>3. TypeOK'
  BY <1>1, <1>2 DEF IInv, TypeOK, Wrote, Loses, StateHas, DiskHas, JobHas, Carries, GoesOn, Stops,
     Around, Counted
<1>4. Labels'
  BY <1>1, <1>2 DEF IInv, Labels, ComposeAts, LiftAts, EnforceAts, AnswerAts, Enforcer, Asked,
     Wrote, Loses, StateHas, DiskHas, JobHas, Carries, GoesOn, Stops, Around, Counted
<1>5. Running'
  BY <1>1, <1>2 DEF IInv, Running, Labels, ComposeAts, LiftAts, EnforceAts, AnswerAts, Enforcer,
     Asked, Wrote, Loses, StateHas, DiskHas, JobHas, Carries, GoesOn, Stops, Around, Counted
<1>6. Loaded'
  BY <1>1, <1>2 DEF IInv, Loaded, Labels, Kept, Active, ComposeAts, LiftAts, EnforceAts,
     AnswerAts, Enforcer, Asked, Wrote, Loses, StateHas, DiskHas, JobHas, Carries, GoesOn, Stops,
     Around, Counted
<1>7. Apart'
  BY <1>1, <1>2, CalmIs DEF StateHas, IInv, Labels, Apart, Plain, Follows, Fresh, Kept, Loaded,
     Target, DueBed, BedDue, ComposeAts, LiftAts, EnforceAts, AnswerAts, Enforcer, Asked, Wrote,
     Loses, StateHas, DiskHas, JobHas, Carries, GoesOn, Stops, Ends, GivesUp, StopsAfter, Around,
     Counted
<1>8. Fresh'
  BY <1>1, <1>2 DEF IInv, Fresh, Labels, ComposeAts, LiftAts, EnforceAts, AnswerAts, Enforcer,
     Asked, Wrote, Loses, StateHas, DiskHas, JobHas, Carries, GoesOn, Stops, Ends, GivesUp,
     StopsAfter, Around, Counted
<1>9. Follows'
  BY <1>1, <1>2 DEF IInv, TypeOK, Labels, Follows, Fresh, Apart, Plain, Kept, Loaded, Standing,
     BedDue, DockDue, DueBed, Enters, Target, Today, Gone, Active, Nested, InForce, By,
     ComposeAts, LiftAts, EnforceAts, AnswerAts, Enforcer, Asked, Wrote, Loses, StateHas, DiskHas,
     JobHas, Carries, GoesOn, Stops, Ends, GivesUp, StopsAfter, Around, Counted
<1>10. ASSUME ~flag', harmed' = {}
       PROVE  Rest'
  <2>0. ~flag /\ harmed = {} /\ Rest /\ Follows /\ Fresh
    BY <1>2, <1>10 DEF IInv, Counted, Wrote, Loses, StateHas
  <2>1. Journalled'
    BY <1>1, <1>2, <1>10, <2>0 DEF Rest, Journalled, Sane, Sound, Held, Today, Gone, Wrote, Loses,
       StateHas, DiskHas, JobHas, Carries, GoesOn, Stops, Around, Counted
  <2>2. Owned'
    BY <1>1, <1>2, <1>10, <2>0 DEF Rest, Owned, Active, Nested, ComposeAts, LiftAts, EnforceAts,
       Enforcer, Asked, Wrote, Loses, StateHas, DiskHas, JobHas, Carries, GoesOn, Stops, Around,
       Counted
  <2>3. Settled'
    BY <1>1, <1>2, <1>10, <2>0 DEF Rest, Settled, Fresh, ComposeAts, Enforcer, Wrote, Loses,
       StateHas, DiskHas, JobHas, Carries, GoesOn, Stops, Around, Counted
  <2>4. Taken'
    BY <1>1, <1>2, <1>10, <2>0 DEF Rest, Taken, Held, Standing, BedDue, DockDue, Enters, Today,
       ComposeAts, Enforcer, Wrote, Loses, StateHas, DiskHas, JobHas, Carries, GoesOn, Stops,
       Around, Counted
  <2>5. Undone'
    BY <1>1, <1>2, <1>10, <2>0 DEF Rest, Undone, Lost, Standing, BedDue, Enters, Today, Gone,
       ComposeAts, Enforcer, Wrote, Loses, StateHas, DiskHas, JobHas, Carries, GoesOn, Stops,
       Around, Counted
  <2>6. Left'
    BY <1>1, <1>2, <1>10, <2>0 DEF Rest, Left, DockDue, Today, Wrote, Loses, StateHas, DiskHas,
       JobHas, Carries, GoesOn, Stops, Around, Counted
  <2>7. Found'
    BY <1>1, <1>2, <1>10, <2>0 DEF Rest, Found, Asked, Wrote, Loses, StateHas, DiskHas, JobHas,
       Carries, GoesOn, Stops, Around, Counted
  <2>8. Named'
    BY <1>1, <1>2, <1>10, <2>0 DEF Rest, Named, Active, ComposeAts, LiftAts, EnforceAts, Wrote,
       Loses, StateHas, DiskHas, JobHas, Carries, GoesOn, Stops, Around, Counted
  <2> QED BY <2>1, <2>2, <2>3, <2>4, <2>5, <2>6, <2>7, <2>8 DEF Rest
<1> QED BY <1>3, <1>4, <1>5, <1>6, <1>7, <1>8, <1>9, <1>10 DEF IInv

LEMMA ConfirmedKeeps ==
  ASSUME IInv, Confirmed
  PROVE  IInv'
<1>1. job.at = "confirmed" /\ job.op = "tick"
  BY DEF IInv, TypeOK, JobSet, Ops, Labels, Confirmed, ComposeAts, LiftAts, EnforceAts, AnswerAts,
     Enforcer, Asked
<1>2. PICK t : Closed(t) /\ GoesOn(t, "sample")
  BY ClearIs, ToHas DEF Confirmed, IInv, Ats, EnforceAts
<1>3. TypeOK'
  BY <1>1, <1>2 DEF IInv, TypeOK, Closed, Emptied, JobHas, Carries, GoesOn, Around, Counted
<1>4. Labels'
  BY <1>1, <1>2 DEF IInv, Labels, ComposeAts, LiftAts, EnforceAts, AnswerAts, Enforcer, Asked,
     Closed, Emptied, JobHas, Carries, GoesOn, Around, Counted
<1>5. Running'
  BY <1>1, <1>2 DEF IInv, Running, Labels, ComposeAts, LiftAts, EnforceAts, AnswerAts, Enforcer,
     Asked, Closed, Emptied, JobHas, Carries, GoesOn, Around, Counted
<1>6. Loaded'
  BY <1>1, <1>2 DEF IInv, Loaded, Labels, Kept, Active, ComposeAts, LiftAts, EnforceAts,
     AnswerAts, Enforcer, Asked, Closed, Emptied, JobHas, Carries, GoesOn, Around, Counted
<1>7. Apart'
  BY <1>1, <1>2, CalmIs DEF StateHas, IInv, Labels, Apart, Plain, Follows, Fresh, Kept, Loaded,
     Target, DueBed, BedDue, ComposeAts, LiftAts, EnforceAts, AnswerAts, Enforcer, Asked, Closed,
     Emptied, DiskHas, JobHas, Carries, GoesOn, Stops, Ends, GivesUp, StopsAfter, Around, Counted
<1>8. Fresh'
  BY <1>1, <1>2 DEF IInv, Fresh, Labels, ComposeAts, LiftAts, EnforceAts, AnswerAts, Enforcer,
     Asked, Closed, Emptied, DiskHas, JobHas, Carries, GoesOn, Stops, Ends, GivesUp, StopsAfter,
     Around, Counted
<1>9. Follows'
  BY <1>1, <1>2 DEF IInv, TypeOK, Labels, Follows, Fresh, Apart, Plain, Kept, Loaded, Standing,
     BedDue, DockDue, DueBed, Enters, Target, Today, Gone, Active, Nested, InForce, By,
     ComposeAts, LiftAts, EnforceAts, AnswerAts, Enforcer, Asked, Closed, Emptied, DiskHas,
     JobHas, Carries, GoesOn, Stops, Ends, GivesUp, StopsAfter, Around, Counted
<1>10. ASSUME ~flag', harmed' = {}
       PROVE  Rest'
  <2>0. ~flag /\ harmed = {} /\ Rest /\ Follows /\ Fresh
    BY <1>2, <1>10 DEF IInv, Counted, Closed, Emptied
  <2>1. Journalled'
    BY <1>1, <1>2, <1>10, <2>0 DEF IInv, Labels, Rest, Journalled, Settled, Fresh, Sane, Sound,
       Held, Today, Gone, ComposeAts, LiftAts, EnforceAts, AnswerAts, Enforcer, Asked, Closed,
       Emptied, JobHas, Carries, GoesOn, Around, Counted
  <2>2. Owned'
    BY <1>1, <1>2, <1>10, <2>0 DEF Rest, Owned, Active, Nested, ComposeAts, LiftAts, EnforceAts,
       Enforcer, Asked, Closed, Emptied, JobHas, Carries, GoesOn, Around, Counted
  <2>3. Settled'
    BY <1>1, <1>2, <1>10, <2>0 DEF Rest, Settled, Fresh, ComposeAts, Enforcer, Closed, Emptied,
       JobHas, Carries, GoesOn, Around, Counted
  <2>4. Taken'
    BY <1>1, <1>2, <1>10, <2>0 DEF Rest, Taken, Held, Standing, BedDue, DockDue, Enters, Today,
       ComposeAts, Enforcer, Closed, Emptied, JobHas, Carries, GoesOn, Around, Counted
  <2>5. Undone'
    BY <1>1, <1>2, <1>10, <2>0 DEF Rest, Undone, Lost, Standing, BedDue, Enters, Today, Gone,
       ComposeAts, Enforcer, Closed, Emptied, JobHas, Carries, GoesOn, Around, Counted
  <2>6. Left'
    BY <1>1, <1>2, <1>10, <2>0 DEF Rest, Left, DockDue, Today, Closed, Emptied, JobHas, Carries,
       GoesOn, Around, Counted
  <2>7. Found'
    BY <1>1, <1>2, <1>10, <2>0 DEF Rest, Found, Asked, Closed, Emptied, JobHas, Carries, GoesOn,
       Around, Counted
  <2>8. Named'
    BY <1>1, <1>2, <1>10, <2>0 DEF Rest, Named, Active, ComposeAts, LiftAts, EnforceAts, Closed,
       Emptied, JobHas, Carries, GoesOn, Around, Counted
  <2> QED BY <2>1, <2>2, <2>3, <2>4, <2>5, <2>6, <2>7, <2>8 DEF Rest
<1> QED BY <1>3, <1>4, <1>5, <1>6, <1>7, <1>8, <1>9, <1>10 DEF IInv

LEMMA SampledKeeps ==
  ASSUME IInv, At("sample"), Sampled
  PROVE  IInv'
<1>1. job.at = "sample" /\ job.op \in Enforcer
  BY DEF IInv, TypeOK, JobSet, Ops, Labels, Sampled, ComposeAts, LiftAts, EnforceAts, AnswerAts,
     Enforcer, Asked
<1>2. PICK s, r, j :
     /\ Went(j)
     /\ StateHas(s, disk.st.bed, disk.st.skipped, disk.st.dock, r, disk.st.last, disk.st.pending,
                 disk.st.waived)
     /\ \/ \E out \in BOOLEAN :
             /\ JobHas(j, job.op, "dock", job.then, s, job.before, job.win, job.in, out,
                       job.moved)
             /\ out =>
                    r = None /\ disk.st.rest # None /\ (BedDue(disk.st) \/ clock >= disk.st.rest)
             /\ ~out => r = disk.st.rest /\ (r # None => ~BedDue(disk.st))
        \/ /\ JobHas(j, job.op, "eye", job.then, s, job.before, job.win, TRUE, job.out, job.moved)
           /\ disk.st.rest = None /\ disk.st.bed = None /\ ~BedDue(disk.st) /\ ~DockDue(disk.st)
           /\ pctl[Today] = "open"
  <2>1. "dock" \in Ats \ {"end"} /\ "eye" \in Ats \ {"end"} /\ TypeOK
        /\ disk.st.rest \in Nat \cup {None}
    BY TypeFields, StateFields DEF IInv, Ats, EnforceAts, ComposeAts
  <2>2. ASSUME NEW j, job' = j, UNCHANGED moves \/ moves' = moves + 1,
               UNCHANGED <<disk, pctl, journal, flag, faults, harmed>>, Same
        PROVE  Went(j)
    BY <2>1, <2>2 DEF Went, Same, Counted, Around, TypeOK
  <2>3. PICK out \in BOOLEAN, end \in Nat \cup {None} :
          /\ out <=> disk.st.rest # None /\ (BedDue(disk.st) \/ clock >= disk.st.rest)
          /\ end = IF out THEN None ELSE disk.st.rest
          /\ \/ job' = [To("dock") EXCEPT !.st = [disk.st EXCEPT !.rest = end], !.out = out]
                /\ UNCHANGED moves
             \/ /\ job' = [To("eye") EXCEPT !.st = [disk.st EXCEPT !.rest = clock + 1],
                           !.in = TRUE]
                /\ moves' = moves + 1
                /\ disk.st.rest = None /\ disk.st.bed = None /\ ~BedDue(disk.st)
                /\ ~DockDue(disk.st) /\ pctl[Today] = "open"
    BY <2>1, Zenon DEF Sampled
  <2>4. UNCHANGED <<disk, pctl, journal, flag, faults, harmed>> /\ Same
    BY DEF Sampled
  <2>5. CASE job' = [To("dock") EXCEPT !.st = [disk.st EXCEPT !.rest = end], !.out = out]
             /\ UNCHANGED moves
    <3>1. PICK s, j :
            /\ s = [disk.st EXCEPT !.rest = end] /\ j = [To("dock") EXCEPT !.st = s, !.out = out]
            /\ StateHas(s, disk.st.bed, disk.st.skipped, disk.st.dock, end, disk.st.last,
                        disk.st.pending, disk.st.waived)
            /\ JobHas(j, job.op, "dock", job.then, s, job.before, job.win, job.in, out, job.moved)
      BY <2>1, SampledIs
    <3>2. Went(j)
      BY <2>2, <2>4, <2>5, <3>1
    <3>3. /\ out =>
                 end = None /\ disk.st.rest # None /\ (BedDue(disk.st) \/ clock >= disk.st.rest)
          /\ ~out => end = disk.st.rest /\ (end # None => ~BedDue(disk.st))
      BY <2>3
    <3> QED BY <3>1, <3>2, <3>3
  <2>6. CASE /\ job' = [To("eye") EXCEPT !.st = [disk.st EXCEPT !.rest = clock + 1], !.in = TRUE]
             /\ moves' = moves + 1
             /\ disk.st.rest = None /\ disk.st.bed = None /\ ~BedDue(disk.st)
             /\ ~DockDue(disk.st) /\ pctl[Today] = "open"
    <3>1. clock + 1 \in Nat \cup {None}
      BY <2>1, LaterIs
    <3>2. PICK s, j :
            /\ s = [disk.st EXCEPT !.rest = clock + 1]
            /\ j = [To("eye") EXCEPT !.st = s, !.in = TRUE]
            /\ StateHas(s, disk.st.bed, disk.st.skipped, disk.st.dock, clock + 1, disk.st.last,
                        disk.st.pending, disk.st.waived)
            /\ JobHas(j, job.op, "eye", job.then, s, job.before, job.win, TRUE, job.out,
                      job.moved)
      BY <2>1, <3>1, SampledIs
    <3>3. Went(j)
      BY <2>2, <2>4, <2>6, <3>2
    <3> QED BY <2>6, <3>2, <3>3
  <2> QED BY <2>3, <2>5, <2>6
<1>3. TypeOK'
  BY <1>1, <1>2 DEF IInv, TypeOK, Went, StateHas, DiskHas, JobHas, Carries, GoesOn, Stops, Ends,
     GivesUp, StopsAfter, Around, Counted
<1>4. Labels'
  BY <1>1, <1>2 DEF IInv, Labels, ComposeAts, LiftAts, EnforceAts, AnswerAts, Enforcer, Asked,
     Went, StateHas, DiskHas, JobHas, Carries, GoesOn, Stops, Ends, GivesUp, StopsAfter, Around,
     Counted
<1>5. Running'
  BY <1>1, <1>2 DEF IInv, Running, Labels, ComposeAts, LiftAts, EnforceAts, AnswerAts, Enforcer,
     Asked, Went, StateHas, DiskHas, JobHas, Carries, GoesOn, Stops, Ends, GivesUp, StopsAfter,
     Around, Counted
<1>6. Loaded'
  BY <1>1, <1>2 DEF IInv, Loaded, Labels, Kept, Today, Active, ComposeAts, LiftAts, EnforceAts,
     AnswerAts, Enforcer, Asked, Went, StateHas, DiskHas, JobHas, Carries, GoesOn, Stops, Ends,
     GivesUp, StopsAfter, Around, Counted
<1>7. Apart'
  BY <1>1, <1>2, CalmIs DEF StateHas, IInv, Labels, Apart, Plain, Follows, Fresh, Kept, Loaded,
     Target, DueBed, BedDue, ComposeAts, LiftAts, EnforceAts, AnswerAts, Enforcer, Asked, Went,
     StateHas, DiskHas, JobHas, Carries, GoesOn, Stops, Ends, GivesUp, StopsAfter, Around, Counted
<1>8. Fresh'
  BY <1>1, <1>2 DEF IInv, Fresh, Labels, ComposeAts, LiftAts, EnforceAts, AnswerAts, Enforcer,
     Asked, Went, StateHas, DiskHas, JobHas, Carries, GoesOn, Stops, Ends, GivesUp, StopsAfter,
     Around, Counted
<1>9. Follows'
  BY <1>1, <1>2 DEF IInv, TypeOK, Labels, Follows, Fresh, Apart, Plain, Kept, Loaded, Standing,
     BedDue, DockDue, DueBed, Enters, Target, Today, Gone, Active, Nested, InForce, By,
     ComposeAts, LiftAts, EnforceAts, AnswerAts, Enforcer, Asked, Went, StateHas, DiskHas, JobHas,
     Carries, GoesOn, Stops, Ends, GivesUp, StopsAfter, Around, Counted
<1>10. ASSUME ~flag', harmed' = {}
       PROVE  Rest'
  <2>0. ~flag /\ harmed = {} /\ Rest /\ Follows /\ Fresh
    BY <1>2, <1>10 DEF IInv, Counted, Went, StateHas
  <2>1. Journalled'
    BY <1>1, <1>2, <1>10, <2>0 DEF IInv, TypeOK, Labels, Rest, Journalled, Owned, Settled,
       Follows, Taken, Undone, Sane, Sound, Held, Lost, Kept, Loaded, Found, Named, Recorded,
       Standing, BedDue, DockDue, DueBed, Enters, Target, Today, Gone, Active, Nested, InForce,
       By, ComposeAts, LiftAts, EnforceAts, AnswerAts, Enforcer, Asked, Went, StateHas, DiskHas,
       JobHas, Carries, GoesOn, Stops, Ends, GivesUp, StopsAfter, Around, Counted
  <2>2. Owned'
    BY <1>1, <1>2, <1>10, <2>0 DEF IInv, TypeOK, Labels, Rest, Owned, Journalled, Standing,
       BedDue, DockDue, DueBed, Enters, Target, Today, Gone, Active, Nested, InForce, By,
       ComposeAts, LiftAts, EnforceAts, AnswerAts, Enforcer, Asked, Went, StateHas, DiskHas,
       JobHas, Carries, GoesOn, Stops, Ends, GivesUp, StopsAfter, Around, Counted
  <2>3. Settled'
    BY <1>1, <1>2, <1>10, <2>0 DEF IInv, TypeOK, Labels, Rest, Settled, Journalled, Owned, Loaded,
       Fresh, Standing, BedDue, DockDue, DueBed, Enters, Target, Today, Gone, Active, Nested,
       InForce, By, ComposeAts, LiftAts, EnforceAts, AnswerAts, Enforcer, Asked, Went, StateHas,
       DiskHas, JobHas, Carries, GoesOn, Stops, Ends, GivesUp, StopsAfter, Around, Counted
  <2>4. Taken'
    BY <1>1, <1>2, <1>10, <2>0 DEF IInv, TypeOK, Labels, Rest, Taken, Follows, Journalled, Sound,
       Sane, Held, Kept, Settled, Fresh, Standing, BedDue, DockDue, DueBed, Enters, Target, Today,
       Gone, Active, Nested, InForce, By, ComposeAts, LiftAts, EnforceAts, AnswerAts, Enforcer,
       Asked, Went, StateHas, DiskHas, JobHas, Carries, GoesOn, Stops, Ends, GivesUp, StopsAfter,
       Around, Counted
  <2>5. Undone'
    BY <1>1, <1>2, <1>10, <2>0 DEF IInv, TypeOK, Labels, Rest, Undone, Follows, Journalled, Owned,
       Sane, Lost, Kept, Settled, Fresh, Loaded, Found, Named, Standing, BedDue, DockDue, DueBed,
       Enters, Target, Today, Gone, Active, Nested, InForce, By, ComposeAts, LiftAts, EnforceAts,
       AnswerAts, Enforcer, Asked, Went, StateHas, DiskHas, JobHas, Carries, GoesOn, Stops, Ends,
       GivesUp, StopsAfter, Around, Counted
  <2>6. Left'
    BY <1>1, <1>2, <1>10, <2>0 DEF IInv, TypeOK, Labels, Rest, Left, Undone, Follows, Journalled,
       Owned, Sane, Kept, Settled, Fresh, Standing, BedDue, DockDue, DueBed, Enters, Target,
       Today, Gone, Active, Nested, InForce, By, ComposeAts, LiftAts, EnforceAts, AnswerAts,
       Enforcer, Asked, Went, StateHas, DiskHas, JobHas, Carries, GoesOn, Stops, Ends, GivesUp,
       StopsAfter, Around, Counted
  <2>7. Found'
    BY <1>1, <1>2, <1>10, <2>0 DEF IInv, TypeOK, Labels, Rest, Found, Owned, Loaded, Journalled,
       Standing, BedDue, DockDue, DueBed, Enters, Target, Today, Gone, Active, Nested, InForce,
       By, ComposeAts, LiftAts, EnforceAts, AnswerAts, Enforcer, Asked, Went, StateHas, DiskHas,
       JobHas, Carries, GoesOn, Stops, Ends, GivesUp, StopsAfter, Around, Counted
  <2>8. Named'
    BY <1>1, <1>2, <1>10, <2>0 DEF IInv, TypeOK, Labels, Rest, Named, Found, Loaded, Journalled,
       Owned, Standing, BedDue, DockDue, DueBed, Enters, Target, Today, Gone, Active, Nested,
       InForce, By, ComposeAts, LiftAts, EnforceAts, AnswerAts, Enforcer, Asked, Went, StateHas,
       DiskHas, JobHas, Carries, GoesOn, Stops, Ends, GivesUp, StopsAfter, Around, Counted
  <2> QED BY <2>1, <2>2, <2>3, <2>4, <2>5, <2>6, <2>7, <2>8 DEF Rest
<1> QED BY <1>3, <1>4, <1>5, <1>6, <1>7, <1>8, <1>9, <1>10 DEF IInv

LEMMA UnsavedKeeps ==
  ASSUME IInv, At("sample"), Unsaved
  PROVE  IInv'
<1>1. job.at = "sample" /\ job.op \in Enforcer
  BY DEF IInv, TypeOK, JobSet, Ops, Labels, Unsaved, ComposeAts, LiftAts, EnforceAts, AnswerAts,
     Enforcer, Asked
<1>2. PICK f, g :
     /\ Went(f) \/ Loses(g, f)
     /\ StopsAfter(f) /\ DiskHas(g, Calm, disk.on, disk.bed, disk.eye, disk.dock)
     /\ StateHas(Calm, None, None, FALSE, None, None, None, None)
  <2>1. Went(Stopping(After)) \/ Loses([disk EXCEPT !.st = Calm], Stopping(After))
    <3>1. CASE Fault /\ job' = Stopping(After)
               /\ UNCHANGED <<disk, pctl, journal, flag, moves, harmed>> /\ Same
      BY <3>1 DEF Fault, Same, Went, Counted, Around, IInv, TypeOK
    <3>2. CASE Lose([disk EXCEPT !.st = Calm], Stopping(After))
      BY <3>2, LoseIs DEF IInv
    <3> QED BY <3>1, <3>2 DEF Unsaved
  <2>2. StopsAfter(Stopping(After))
    BY AfterIs DEF IInv
  <2> QED BY <2>1, <2>2, LostFiles DEF IInv
<1>3. TypeOK'
  BY <1>1, <1>2 DEF IInv, TypeOK, Went, Loses, StateHas, DiskHas, JobHas, Carries, GoesOn, Stops,
     Ends, GivesUp, StopsAfter, Around, Counted
<1>4. Labels'
  BY <1>1, <1>2 DEF IInv, Labels, ComposeAts, LiftAts, EnforceAts, AnswerAts, Enforcer, Asked,
     Went, Loses, StateHas, DiskHas, JobHas, Carries, GoesOn, Stops, Ends, GivesUp, StopsAfter,
     Around, Counted
<1>5. Running'
  BY <1>1, <1>2 DEF IInv, Running, Labels, ComposeAts, LiftAts, EnforceAts, AnswerAts, Enforcer,
     Asked, Went, Loses, StateHas, DiskHas, JobHas, Carries, GoesOn, Stops, Ends, GivesUp,
     StopsAfter, Around, Counted
<1>6. Loaded'
  BY <1>1, <1>2 DEF IInv, Loaded, Labels, Kept, Today, Active, ComposeAts, LiftAts, EnforceAts,
     AnswerAts, Enforcer, Asked, Went, Loses, StateHas, DiskHas, JobHas, Carries, GoesOn, Stops,
     Ends, GivesUp, StopsAfter, Around, Counted
<1>7. Apart'
  BY <1>1, <1>2, CalmIs DEF StateHas, IInv, Labels, Apart, Plain, Follows, Fresh, Kept, Loaded,
     Target, DueBed, BedDue, ComposeAts, LiftAts, EnforceAts, AnswerAts, Enforcer, Asked, Went,
     Loses, StateHas, DiskHas, JobHas, Carries, GoesOn, Stops, Ends, GivesUp, StopsAfter, Around,
     Counted
<1>8. Fresh'
  BY <1>1, <1>2 DEF IInv, Fresh, Labels, ComposeAts, LiftAts, EnforceAts, AnswerAts, Enforcer,
     Asked, Went, Loses, StateHas, DiskHas, JobHas, Carries, GoesOn, Stops, Ends, GivesUp,
     StopsAfter, Around, Counted
<1>9. Follows'
  BY <1>1, <1>2 DEF IInv, TypeOK, Labels, Follows, Fresh, Apart, Plain, Kept, Loaded, Standing,
     BedDue, DockDue, DueBed, Enters, Target, Today, Gone, Active, Nested, InForce, By,
     ComposeAts, LiftAts, EnforceAts, AnswerAts, Enforcer, Asked, Went, Loses, StateHas, DiskHas,
     JobHas, Carries, GoesOn, Stops, Ends, GivesUp, StopsAfter, Around, Counted
<1>10. ASSUME ~flag', harmed' = {}
       PROVE  Rest'
  <2>0. ~flag /\ harmed = {} /\ Rest /\ Follows /\ Fresh
    BY <1>2, <1>10 DEF IInv, Counted, Went, Loses, StateHas
  <2>1. Journalled'
    BY <1>1, <1>2, <1>10, <2>0, CalmIs DEF IInv, TypeOK, Labels, Rest, Journalled, Owned, Settled,
       Follows, Taken, Undone, Sane, Sound, Held, Lost, Kept, Loaded, Found, Named, Recorded,
       Standing, BedDue, DockDue, DueBed, Enters, Target, Today, Gone, Active, Nested, InForce,
       By, ComposeAts, LiftAts, EnforceAts, AnswerAts, Enforcer, Asked, Went, Loses, StateHas,
       DiskHas, JobHas, Carries, GoesOn, Stops, Ends, GivesUp, StopsAfter, Around, Counted
  <2>2. Owned'
    BY <1>1, <1>2, <1>10, <2>0, CalmIs DEF IInv, TypeOK, Labels, Rest, Owned, Journalled,
       Standing, BedDue, DockDue, DueBed, Enters, Target, Today, Gone, Active, Nested, InForce,
       By, ComposeAts, LiftAts, EnforceAts, AnswerAts, Enforcer, Asked, Went, Loses, StateHas,
       DiskHas, JobHas, Carries, GoesOn, Stops, Ends, GivesUp, StopsAfter, Around, Counted
  <2>3. Settled'
    BY <1>1, <1>2, <1>10, <2>0, CalmIs DEF IInv, TypeOK, Labels, Rest, Settled, Journalled, Owned,
       Loaded, Fresh, Standing, BedDue, DockDue, DueBed, Enters, Target, Today, Gone, Active,
       Nested, InForce, By, ComposeAts, LiftAts, EnforceAts, AnswerAts, Enforcer, Asked, Went,
       Loses, StateHas, DiskHas, JobHas, Carries, GoesOn, Stops, Ends, GivesUp, StopsAfter,
       Around, Counted
  <2>4. Taken'
    BY <1>1, <1>2, <1>10, <2>0, CalmIs DEF IInv, TypeOK, Labels, Rest, Taken, Follows, Journalled,
       Sound, Sane, Held, Kept, Settled, Fresh, Standing, BedDue, DockDue, DueBed, Enters, Target,
       Today, Gone, Active, Nested, InForce, By, ComposeAts, LiftAts, EnforceAts, AnswerAts,
       Enforcer, Asked, Went, Loses, StateHas, DiskHas, JobHas, Carries, GoesOn, Stops, Ends,
       GivesUp, StopsAfter, Around, Counted
  <2>5. Undone'
    BY <1>1, <1>2, <1>10, <2>0, CalmIs DEF IInv, TypeOK, Labels, Rest, Undone, Follows,
       Journalled, Owned, Sane, Lost, Kept, Settled, Fresh, Loaded, Found, Named, Standing,
       BedDue, DockDue, DueBed, Enters, Target, Today, Gone, Active, Nested, InForce, By,
       ComposeAts, LiftAts, EnforceAts, AnswerAts, Enforcer, Asked, Went, Loses, StateHas,
       DiskHas, JobHas, Carries, GoesOn, Stops, Ends, GivesUp, StopsAfter, Around, Counted
  <2>6. Left'
    BY <1>1, <1>2, <1>10, <2>0, CalmIs DEF IInv, TypeOK, Labels, Rest, Left, Undone, Follows,
       Journalled, Owned, Sane, Kept, Settled, Fresh, Standing, BedDue, DockDue, DueBed, Enters,
       Target, Today, Gone, Active, Nested, InForce, By, ComposeAts, LiftAts, EnforceAts,
       AnswerAts, Enforcer, Asked, Went, Loses, StateHas, DiskHas, JobHas, Carries, GoesOn, Stops,
       Ends, GivesUp, StopsAfter, Around, Counted
  <2>7. Found'
    BY <1>1, <1>2, <1>10, <2>0, CalmIs DEF IInv, TypeOK, Labels, Rest, Found, Owned, Loaded,
       Journalled, Standing, BedDue, DockDue, DueBed, Enters, Target, Today, Gone, Active, Nested,
       InForce, By, ComposeAts, LiftAts, EnforceAts, AnswerAts, Enforcer, Asked, Went, Loses,
       StateHas, DiskHas, JobHas, Carries, GoesOn, Stops, Ends, GivesUp, StopsAfter, Around,
       Counted
  <2>8. Named'
    BY <1>1, <1>2, <1>10, <2>0, CalmIs DEF IInv, TypeOK, Labels, Rest, Named, Found, Loaded,
       Journalled, Owned, Standing, BedDue, DockDue, DueBed, Enters, Target, Today, Gone, Active,
       Nested, InForce, By, ComposeAts, LiftAts, EnforceAts, AnswerAts, Enforcer, Asked, Went,
       Loses, StateHas, DiskHas, JobHas, Carries, GoesOn, Stops, Ends, GivesUp, StopsAfter,
       Around, Counted
  <2> QED BY <2>1, <2>2, <2>3, <2>4, <2>5, <2>6, <2>7, <2>8 DEF Rest
<1> QED BY <1>3, <1>4, <1>5, <1>6, <1>7, <1>8, <1>9, <1>10 DEF IInv

LEMMA SampleKeeps ==
  ASSUME IInv, Sample
  PROVE  IInv'
BY SampledKeeps, UnsavedKeeps DEF Sample

LEMMA EyeKeeps ==
  ASSUME IInv, Eye
  PROVE  IInv'
<1>1. job.at = "eye" /\ job.op \in Enforcer
  BY DEF IInv, TypeOK, JobSet, Ops, Labels, Eye, ComposeAts, LiftAts, EnforceAts, AnswerAts,
     Enforcer, Asked
<1>2. PICK d, t, f, g :
     /\ Wrote(d, t, f) \/ Loses(g, f)
     /\ DiskHas(d, disk.st, disk.on, disk.bed, Seen, disk.dock)
     /\ DiskHas(g, disk.st, disk.on, disk.bed, None, disk.dock)
     /\ GoesOn(t, "dock") /\ GivesUp(f)
  <2>1. \/ Wrote([disk EXCEPT !.eye = Seen], To("dock"), To(After))
        \/ Loses([disk EXCEPT !.eye = None], To(After))
    BY WriteFileIs DEF Eye, IInv
  <2>2. DiskHas([disk EXCEPT !.eye = Seen], disk.st, disk.on, disk.bed, Seen, disk.dock)
    BY SeenIs, DiskEdits DEF IInv
  <2>3. GoesOn(To("dock"), "dock") /\ GivesUp(To(After))
    BY ToHas, AfterIs DEF IInv, Ats, EnforceAts, ComposeAts
  <2> QED BY <2>1, <2>2, <2>3, LostFiles DEF IInv
<1>3. TypeOK'
  BY <1>1, <1>2, SeenIs DEF IInv, TypeOK, Wrote, Loses, DiskHas, JobHas, Carries, GoesOn, Ends,
     GivesUp, Around, Counted
<1>4. Labels'
  BY <1>1, <1>2, SeenIs DEF IInv, Labels, ComposeAts, LiftAts, EnforceAts, AnswerAts, Enforcer,
     Asked, Wrote, Loses, DiskHas, JobHas, Carries, GoesOn, Ends, GivesUp, Around, Counted
<1>5. Running'
  BY <1>1, <1>2, SeenIs DEF IInv, Running, Labels, ComposeAts, LiftAts, EnforceAts, AnswerAts,
     Enforcer, Asked, Wrote, Loses, DiskHas, JobHas, Carries, GoesOn, Ends, GivesUp, Around,
     Counted
<1>6. Loaded'
  BY <1>1, <1>2, SeenIs DEF IInv, Loaded, Labels, Kept, Today, Active, ComposeAts, LiftAts,
     EnforceAts, AnswerAts, Enforcer, Asked, Wrote, Loses, DiskHas, JobHas, Carries, GoesOn, Ends,
     GivesUp, Around, Counted
<1>7. Apart'
  BY <1>1, <1>2, CalmIs, SeenIs DEF StateHas, IInv, Labels, Apart, Plain, Follows, Fresh, Kept,
     Loaded, Target, DueBed, BedDue, ComposeAts, LiftAts, EnforceAts, AnswerAts, Enforcer, Asked,
     Wrote, Loses, DiskHas, JobHas, Carries, GoesOn, Stops, Ends, GivesUp, StopsAfter, Around,
     Counted
<1>8. Fresh'
  BY <1>1, <1>2, SeenIs DEF IInv, Fresh, Labels, ComposeAts, LiftAts, EnforceAts, AnswerAts,
     Enforcer, Asked, Wrote, Loses, DiskHas, JobHas, Carries, GoesOn, Stops, Ends, GivesUp,
     StopsAfter, Around, Counted
<1>9. Follows'
  BY <1>1, <1>2, SeenIs DEF IInv, TypeOK, Labels, Follows, Fresh, Apart, Plain, Kept, Loaded,
     Standing, BedDue, DockDue, DueBed, Enters, Target, Today, Gone, Active, Nested, InForce, By,
     ComposeAts, LiftAts, EnforceAts, AnswerAts, Enforcer, Asked, Wrote, Loses, DiskHas, JobHas,
     Carries, GoesOn, Stops, Ends, GivesUp, StopsAfter, Around, Counted
<1>10. ASSUME ~flag', harmed' = {}
       PROVE  Rest'
  <2>0. ~flag /\ harmed = {} /\ Rest /\ Follows /\ Fresh
    BY <1>2, <1>10 DEF IInv, Counted, Wrote, Loses
  <2>1. Journalled'
    BY <1>1, <1>2, <1>10, <2>0, SeenIs, CalmIs DEF Rest, Journalled, Follows, Taken, Sane, Sound,
       Held, Kept, Standing, BedDue, DockDue, DueBed, Enters, Target, Today, Gone, InForce,
       ComposeAts, Enforcer, Wrote, Loses, DiskHas, JobHas, Carries, GoesOn, Ends, GivesUp,
       Around, Counted, StateHas
  <2>2. Owned'
    BY <1>1, <1>2, <1>10, <2>0, SeenIs, CalmIs DEF Rest, Owned, Today, Active, Nested, ComposeAts,
       LiftAts, EnforceAts, Enforcer, Asked, Wrote, Loses, DiskHas, JobHas, Carries, GoesOn, Ends,
       GivesUp, Around, Counted, StateHas
  <2>3. Settled'
    BY <1>1, <1>2, <1>10, <2>0, SeenIs, CalmIs DEF Rest, Settled, Fresh, Today, ComposeAts,
       Enforcer, Wrote, Loses, DiskHas, JobHas, Carries, GoesOn, Ends, GivesUp, Around, Counted,
       StateHas
  <2>4. Taken'
    BY <1>1, <1>2, <1>10, <2>0, SeenIs, CalmIs DEF IInv, Rest, Taken, Held, Standing, BedDue,
       DockDue, Enters, Today, ComposeAts, Enforcer, Wrote, Loses, DiskHas, JobHas, Carries,
       GoesOn, Ends, GivesUp, Around, Counted, StateHas
  <2>5. Undone'
    BY <1>1, <1>2, <1>10, <2>0, SeenIs, CalmIs DEF Rest, Undone, Lost, Standing, BedDue, Enters,
       Today, Gone, ComposeAts, Enforcer, Wrote, Loses, DiskHas, JobHas, Carries, GoesOn, Ends,
       GivesUp, Around, Counted, StateHas
  <2>6. Left'
    <3>1. disk'.st = disk.st /\ journal' = journal /\ power' = power
          /\ (GoesOn(job', "dock") \/ GivesUp(job'))
      BY <1>2, Zenon DEF Wrote, Loses, DiskHas, Around
    <3>2. journal # None /\ disk.st.pending = None /\ job.op = "tick" /\ power =>
            journal.disk.st.bed = None /\ disk.st.bed = None /\ ~disk.st.dock
            /\ (journal.disk.st.rest # None => disk.st.rest # None)
      BY <1>1, <2>0 DEF Rest, Left
    <3>3. job'.op \in {"tick", "idle"} => job.op = "tick" /\ job'.at \in {"dock", "end"}
      BY <1>1, <3>1 DEF GoesOn, Carries, JobHas, GivesUp, Ends, Enforcer
    <3> QED BY <3>1, <3>2, <3>3 DEF Left
  <2>7. Found'
    BY <1>1, <1>2, <1>10, <2>0, SeenIs, CalmIs DEF Rest, Found, Today, Enforcer, Asked, Wrote,
       Loses, DiskHas, JobHas, Carries, GoesOn, Ends, GivesUp, Around, Counted, StateHas
  <2>8. Named'
    BY <1>1, <1>2, <1>10, <2>0, SeenIs, CalmIs DEF Rest, Named, Today, Active, ComposeAts,
       LiftAts, EnforceAts, Enforcer, Wrote, Loses, DiskHas, JobHas, Carries, GoesOn, Ends,
       GivesUp, Around, Counted, StateHas
  <2> QED BY <2>1, <2>2, <2>3, <2>4, <2>5, <2>6, <2>7, <2>8 DEF Rest
<1> QED BY <1>3, <1>4, <1>5, <1>6, <1>7, <1>8, <1>9, <1>10 DEF IInv

LEMMA DockKeeps ==
  ASSUME IInv, Dock
  PROVE  IInv'
<1>1. job.at = "dock" /\ job.op \in Enforcer
  BY DEF IInv, TypeOK, JobSet, Ops, Labels, Dock, ComposeAts, LiftAts, EnforceAts, AnswerAts,
     Enforcer, Asked
<1>2. PICK t, f, g :
     /\ GoesOn(t, "keepDock") /\ GoesOn(f, "undo") /\ GoesOn(g, "handOver")
     /\ \/ DockDue(job.st) /\ ~job.st.dock /\ Began(t, f)
        \/ (DockDue(job.st) => job.st.dock) /\ Went(g)
  <2>1. GoesOn(To("keepDock"), "keepDock") /\ GoesOn(To("undo"), "undo")
        /\ GoesOn(To("handOver"), "handOver")
    BY ToHas DEF IInv, Ats, EnforceAts, ComposeAts
  <2>2. CASE DockDue(job.st) /\ ~job.st.dock
    BY <2>1, <2>2, BeginIs DEF Dock, IInv
  <2>3. CASE ~(DockDue(job.st) /\ ~job.st.dock)
    BY <2>1, <2>3, GoIs DEF Dock, IInv
  <2> QED BY <2>2, <2>3
<1>3. TypeOK'
  BY <1>1, <1>2 DEF IInv, TypeOK, Went, Began, Opened, JobHas, Carries, GoesOn, Around, Counted
<1>4. Labels'
  BY <1>1, <1>2 DEF IInv, Labels, ComposeAts, LiftAts, EnforceAts, AnswerAts, Enforcer, Asked,
     Went, Began, Opened, JobHas, Carries, GoesOn, Around, Counted
<1>5. Running'
  BY <1>1, <1>2 DEF IInv, Running, Labels, ComposeAts, LiftAts, EnforceAts, AnswerAts, Enforcer,
     Asked, Went, Began, Opened, JobHas, Carries, GoesOn, Around, Counted
<1>6. Loaded'
  BY <1>1, <1>2 DEF IInv, Loaded, Labels, Kept, Today, Active, ComposeAts, LiftAts, EnforceAts,
     AnswerAts, Enforcer, Asked, Went, Began, Opened, JobHas, Carries, GoesOn, Around, Counted
<1>7. Apart'
  BY <1>1, <1>2, CalmIs DEF StateHas, IInv, Labels, Apart, Plain, Follows, Fresh, Kept, Loaded,
     Target, DueBed, BedDue, ComposeAts, LiftAts, EnforceAts, AnswerAts, Enforcer, Asked, Went,
     Began, Opened, DiskHas, JobHas, Carries, GoesOn, Stops, Ends, GivesUp, StopsAfter, Around,
     Counted
<1>8. Fresh'
  BY <1>1, <1>2 DEF IInv, Fresh, Labels, ComposeAts, LiftAts, EnforceAts, AnswerAts, Enforcer,
     Asked, Went, Began, Opened, DiskHas, JobHas, Carries, GoesOn, Stops, Ends, GivesUp,
     StopsAfter, Around, Counted
<1>9. Follows'
  BY <1>1, <1>2 DEF IInv, TypeOK, Labels, Follows, Fresh, Apart, Plain, Kept, Loaded, Standing,
     BedDue, DockDue, DueBed, Enters, Target, Today, Gone, Active, Nested, InForce, By,
     ComposeAts, LiftAts, EnforceAts, AnswerAts, Enforcer, Asked, Went, Began, Opened, DiskHas,
     JobHas, Carries, GoesOn, Stops, Ends, GivesUp, StopsAfter, Around, Counted
<1>10. ASSUME ~flag', harmed' = {}
       PROVE  Rest'
  <2>0. ~flag /\ harmed = {} /\ Rest /\ Follows /\ Fresh
    BY <1>2, <1>10 DEF IInv, Counted, Went, Began, Opened
  <2>1. Journalled'
    BY <1>1, <1>2, <2>0 DEF Rest, Journalled, Sane, Sound, Held, DockDue, Today, Gone, By,
       Enforcer, Went, Began, Opened, JobHas, Carries, GoesOn, Around, Counted
  <2>2. Owned'
    BY <1>1, <1>2, <2>0 DEF Rest, Owned, DockDue, Today, Active, Nested, By, ComposeAts, LiftAts,
       EnforceAts, Enforcer, Asked, Went, Began, Opened, JobHas, Carries, GoesOn, Around, Counted
  <2>3. Settled'
    BY <1>1, <1>2, <2>0 DEF Rest, Settled, Fresh, DockDue, Today, By, ComposeAts, Enforcer, Went,
       Began, Opened, JobHas, Carries, GoesOn, Around, Counted
  <2>4. Taken'
    BY <1>1, <1>2, <2>0 DEF IInv, Labels, Rest, Taken, Follows, Journalled, Sound, Sane, Held,
       Kept, Standing, BedDue, DockDue, DueBed, Enters, Target, Today, Gone, InForce, By,
       ComposeAts, LiftAts, EnforceAts, AnswerAts, Enforcer, Asked, Went, Began, Opened, JobHas,
       Carries, GoesOn, Around, Counted
  <2>5. Undone'
    BY <1>1, <1>2, <2>0 DEF Rest, Undone, Lost, Standing, BedDue, DockDue, Enters, Today, Gone,
       By, ComposeAts, Enforcer, Went, Began, Opened, JobHas, Carries, GoesOn, Around, Counted
  <2>6. Left'
    <3>1. DockDue(job.st)' = DockDue(job.st) /\ disk'.st = disk.st /\ job.st.dock = disk.st.dock
      BY <1>1, <1>2, <2>0 DEF Went, Began, Around, GoesOn, Carries, JobHas, DockDue, Today, Rest,
         Follows, Kept, ComposeAts
    <3>2. CASE DockDue(job.st) /\ ~job.st.dock /\ Began(t, f)
      BY <1>1, <1>2, <2>0, <3>1, <3>2 DEF IInv, Labels, Rest, Left, Began, Opened, Around, GoesOn,
         Carries, JobHas, DockDue, Today
    <3>3. CASE (DockDue(job.st) => job.st.dock) /\ Went(g)
      BY <1>1, <1>2, <2>0, <3>1, <3>3 DEF IInv, Labels, Rest, Left, Went, Around, GoesOn, Carries,
         JobHas
    <3> QED BY <1>2, <3>2, <3>3
  <2>7. Found'
    BY <1>1, <1>2, <2>0 DEF Rest, Found, DockDue, Today, By, Enforcer, Asked, Went, Began, Opened,
       JobHas, Carries, GoesOn, Around, Counted
  <2>8. Named'
    BY <1>1, <1>2, <2>0 DEF Rest, Named, DockDue, Today, Active, By, ComposeAts, LiftAts,
       EnforceAts, Enforcer, Went, Began, Opened, JobHas, Carries, GoesOn, Around, Counted
  <2> QED BY <2>1, <2>2, <2>3, <2>4, <2>5, <2>6, <2>7, <2>8 DEF Rest
<1> QED BY <1>3, <1>4, <1>5, <1>6, <1>7, <1>8, <1>9, <1>10 DEF IInv

(* The snapshot of the policy is that of the reason that blocks already.   *)
LEMMA KeepDockKeeps ==
  ASSUME IInv, KeepDock
  PROVE  IInv'
<1>1. job.at = "keepDock" /\ job.op \in Enforcer
  BY DEF IInv, TypeOK, JobSet, Ops, Labels, KeepDock, ComposeAts, LiftAts, EnforceAts, AnswerAts,
     Enforcer, Asked
<1>2. PICK d, t, f, g :
     /\ GoesOn(t, "handOver") /\ GoesOn(f, "undo")
     /\ \/ DockSource = None /\ Went(f)
        \/ DockSource # None /\ Wrote(d, t, f)
        \/ DockSource # None /\ Loses(g, f)
     /\ DiskHas(d, disk.st, disk.on, disk.bed, disk.eye, DockSource)
     /\ DiskHas(g, disk.st, disk.on, disk.bed, disk.eye, None)
  <2>1. GoesOn(To("undo"), "undo") /\ GoesOn(To("handOver"), "handOver")
    BY ToHas DEF IInv, Ats, EnforceAts, ComposeAts
  <2>2. DockSource \in Snapshot \cup {None}
    BY TypeFields, SeenIs DEF IInv, DockSource
  <2>3. DiskHas([disk EXCEPT !.dock = DockSource], disk.st, disk.on, disk.bed, disk.eye,
                DockSource)
    BY <2>2, DiskEdits DEF IInv
  <2>4. \/ DockSource = None /\ Went(To("undo"))
        \/ DockSource # None /\ Wrote([disk EXCEPT !.dock = DockSource], To("handOver"),
                                      To("undo"))
        \/ DockSource # None /\ Loses([disk EXCEPT !.dock = None], To("undo"))
    BY GoIs, WriteFileIs DEF KeepDock, IInv
  <2> QED BY <2>1, <2>3, <2>4, LostFiles DEF IInv
<1>3. TypeOK'
  BY <1>1, <1>2 DEF IInv, TypeOK, Went, Wrote, Loses, DiskHas, JobHas, Carries, GoesOn, Around,
     Counted
<1>4. Labels'
  BY <1>1, <1>2 DEF IInv, Labels, ComposeAts, LiftAts, EnforceAts, AnswerAts, Enforcer, Asked,
     Went, Wrote, Loses, DiskHas, JobHas, Carries, GoesOn, Around, Counted
<1>5. Running'
  BY <1>1, <1>2 DEF IInv, Running, Labels, ComposeAts, LiftAts, EnforceAts, AnswerAts, Enforcer,
     Asked, Went, Wrote, Loses, DiskHas, JobHas, Carries, GoesOn, Around, Counted
<1>6. Loaded'
  BY <1>1, <1>2 DEF IInv, Loaded, Labels, Kept, Active, ComposeAts, LiftAts, EnforceAts,
     AnswerAts, Enforcer, Asked, Went, Wrote, Loses, DiskHas, JobHas, Carries, GoesOn, Around,
     Counted
<1>7. Apart'
  BY <1>1, <1>2, CalmIs DEF StateHas, IInv, Labels, Apart, Plain, Follows, Fresh, Kept, Loaded,
     Target, DueBed, BedDue, ComposeAts, LiftAts, EnforceAts, AnswerAts, Enforcer, Asked, Went,
     Wrote, Loses, DiskHas, JobHas, Carries, GoesOn, Stops, Ends, GivesUp, StopsAfter, Around,
     Counted
<1>8. Fresh'
  BY <1>1, <1>2 DEF IInv, Fresh, Labels, ComposeAts, LiftAts, EnforceAts, AnswerAts, Enforcer,
     Asked, Went, Wrote, Loses, DiskHas, JobHas, Carries, GoesOn, Stops, Ends, GivesUp,
     StopsAfter, Around, Counted
<1>9. Follows'
  BY <1>1, <1>2 DEF IInv, TypeOK, Labels, Follows, Fresh, Apart, Plain, Kept, Loaded, Standing,
     BedDue, DockDue, DueBed, Enters, Target, Today, Gone, Active, Nested, InForce, By,
     ComposeAts, LiftAts, EnforceAts, AnswerAts, Enforcer, Asked, Went, Wrote, Loses, DiskHas,
     JobHas, Carries, GoesOn, Stops, Ends, GivesUp, StopsAfter, Around, Counted
<1>10. ASSUME ~flag', harmed' = {}
       PROVE  Rest'
  <2>0. ~flag /\ harmed = {} /\ Rest /\ Follows /\ Fresh
    BY <1>2, <1>10 DEF IInv, Counted, Went, Wrote, Loses
  <2>1. Journalled'
    BY <1>1, <1>2, <1>10, <2>0 DEF Rest, Journalled, Follows, Sane, Sound, Held, Kept, Standing,
       BedDue, DockDue, DueBed, Enters, Target, Today, Gone, InForce, ComposeAts, Enforcer, Went,
       Wrote, Loses, DiskHas, JobHas, Carries, GoesOn, Around, Counted, StateHas
  <2>2. Owned'
    BY <1>1, <1>2, <1>10, <2>0 DEF Rest, Owned, Active, Nested, ComposeAts, LiftAts, EnforceAts,
       Enforcer, Asked, Went, Wrote, Loses, DiskHas, JobHas, Carries, GoesOn, Around, Counted,
       StateHas
  <2>3. Settled'
    BY <1>1, <1>2, <1>10, <2>0 DEF Rest, Settled, Fresh, ComposeAts, Enforcer, Went, Wrote, Loses,
       DiskHas, JobHas, Carries, GoesOn, Around, Counted, StateHas
  <2>4. Taken'
    <3>1. CASE GoesOn(job', "undo")
      BY <3>1 DEF Taken, GoesOn, Carries, JobHas, ComposeAts
    <3>2. CASE disk' = d /\ GoesOn(job', "handOver") /\ DockSource # None
      <4>1. Held(DockSource)
        <5>1. job.st.bed = disk.st.bed /\ job.st.dock = disk.st.dock /\ ~job.st.dock
              /\ (~job.in /\ job.st.rest # None => disk.st.rest # None)
          BY <1>1, <2>0 DEF Rest, Follows, Kept, ComposeAts
        <5>2. Sound(disk)
          BY <1>1, <2>0 DEF IInv, Labels, Rest, Journalled, Enforcer
        <5> QED BY <3>2, <5>1, <5>2, SeenIs DEF IInv, Sound, Held, DockSource
      <4> QED BY <1>1, <1>2, <2>0, <3>2, <4>1 DEF IInv, Rest, Taken, Follows, Wrote, Loses, Went,
         Around, DiskHas, GoesOn, Carries, JobHas, ComposeAts, BedDue, Standing, Today
    <3> QED BY <1>2, <3>1, <3>2 DEF Went, Wrote, Loses
  <2>5. Undone'
    BY <1>1, <1>2, <1>10, <2>0 DEF Rest, Undone, Lost, Standing, BedDue, Enters, Today, Gone,
       ComposeAts, Enforcer, Went, Wrote, Loses, DiskHas, JobHas, Carries, GoesOn, Around,
       Counted, StateHas
  <2>6. Left'
    <3>1. DockDue(job.st)' = DockDue(job.st) /\ disk'.st = disk.st /\ journal' = journal
          /\ job.st' = job.st
          /\ job'.op = job.op /\ job'.at \in {"undo", "handOver"} /\ power' = power
      BY <1>1, <1>2, <2>0 DEF Went, Wrote, Loses, Around, DiskHas, GoesOn, Carries, JobHas,
         DockDue, Today
    <3> QED BY <1>1, <2>0, <3>1 DEF Rest, Left
  <2>7. Found'
    BY <1>1, <1>2, <1>10, <2>0 DEF Rest, Found, Enforcer, Asked, Went, Wrote, Loses, DiskHas,
       JobHas, Carries, GoesOn, Around, Counted, StateHas
  <2>8. Named'
    BY <1>1, <1>2, <1>10, <2>0 DEF Rest, Named, Active, ComposeAts, LiftAts, EnforceAts, Enforcer,
       Went, Wrote, Loses, DiskHas, JobHas, Carries, GoesOn, Around, Counted, StateHas
  <2> QED BY <2>1, <2>2, <2>3, <2>4, <2>5, <2>6, <2>7, <2>8 DEF Rest
<1> QED BY <1>3, <1>4, <1>5, <1>6, <1>7, <1>8, <1>9, <1>10 DEF IInv

(* A rest that bedtime ends hands its snapshot over: no window was in      *)
(* force.                                                                  *)
LEMMA HandOverKeeps ==
  ASSUME IInv, HandOver
  PROVE  IInv'
<1>1. job.at = "handOver" /\ job.op \in Enforcer
  BY DEF IInv, TypeOK, JobSet, Ops, Labels, HandOver, ComposeAts, LiftAts, EnforceAts, AnswerAts,
     Enforcer, Asked
<1>2. PICK d, t, f, g, n, h :
     /\ JobHas(t, job.op, "exit", job.then, job.st, job.before, job.win, job.in, job.out, TRUE)
     /\ GivesUp(f) /\ GoesOn(g, "exit")
     /\ \/ job.out /\ BedDue(job.st) /\ disk.eye = None /\ Went(f)
        \/ /\ job.out /\ BedDue(job.st) /\ disk.eye # None /\ Wrote(d, t, f)
           /\ n \in Snapshot /\ n # None /\ n.win = Window[clock] /\ n.of = disk.eye.of
           /\ DiskHas(d, disk.st, disk.on, n, disk.eye, disk.dock)
        \/ job.out /\ BedDue(job.st) /\ disk.eye # None /\ Loses(h, f)
        \/ ~(job.out /\ BedDue(job.st)) /\ Went(g)
     /\ DiskHas(h, disk.st, disk.on, None, disk.eye, disk.dock)
  <2>0. PICK h : h = [disk EXCEPT !.bed = None]
             /\ DiskHas(h, disk.st, disk.on, None, disk.eye, disk.dock)
    BY LostFiles DEF IInv
  <2>1. PICK t, f, g :
          /\ t = [To("exit") EXCEPT !.moved = TRUE] /\ f = To(After) /\ g = To("exit")
          /\ JobHas(t, job.op, "exit", job.then, job.st, job.before, job.win, job.in, job.out,
                    TRUE)
          /\ GivesUp(f) /\ GoesOn(g, "exit")
    <3>1. JobHas([To("exit") EXCEPT !.moved = TRUE], job.op, "exit", job.then, job.st, job.before,
                 job.win, job.in, job.out, TRUE)
      BY DEF IInv, TypeOK, JobSet, JobHas, To, Ats, EnforceAts, ComposeAts
    <3> QED BY <3>1, ToHas, AfterIs DEF IInv, Ats, EnforceAts, ComposeAts
  <2>2. CASE ~(job.out /\ BedDue(job.st))
    BY <2>0, <2>1, <2>2, GoIs DEF HandOver, IInv
  <2>3. CASE job.out /\ BedDue(job.st) /\ disk.eye = None
    BY <2>0, <2>1, <2>3, GoIs DEF HandOver, IInv
  <2>4. CASE job.out /\ BedDue(job.st) /\ disk.eye # None
    <3>1. PICK n, d : /\ n \in Snapshot /\ n # None /\ n.win = Window[clock] /\ n.of = disk.eye.of
                      /\ n = For(disk.eye) /\ d = [disk EXCEPT !.bed = n]
                      /\ DiskHas(d, disk.st, disk.on, n, disk.eye, disk.dock)
      <4>1. disk.eye \in Snapshot
        BY <2>4, TypeFields DEF IInv
      <4>2. For(disk.eye) \in Snapshot /\ For(disk.eye).win = Window[clock]
            /\ For(disk.eye).of = disk.eye.of /\ For(disk.eye) # None
        BY <4>1, ForIs DEF IInv
      <4>3. DiskHas([disk EXCEPT !.bed = For(disk.eye)], disk.st, disk.on, For(disk.eye),
                    disk.eye, disk.dock)
        BY <4>2, DiskEdits DEF IInv
      <4> QED BY <4>2, <4>3
    <3>2. Wrote(d, t, f) \/ Loses(h, f)
      BY <2>0, <2>1, <2>4, <3>1, WriteFileIs DEF HandOver, IInv
    <3> QED BY <2>0, <2>1, <2>4, <3>1, <3>2
  <2> QED BY <2>2, <2>3, <2>4
<1>3. TypeOK'
  BY <1>1, <1>2 DEF IInv, TypeOK, Went, Wrote, Loses, DiskHas, JobHas, Carries, GoesOn, Ends,
     GivesUp, Around, Counted
<1>4. Labels'
  BY <1>1, <1>2 DEF IInv, Labels, ComposeAts, LiftAts, EnforceAts, AnswerAts, Enforcer, Asked,
     Went, Wrote, Loses, DiskHas, JobHas, Carries, GoesOn, Ends, GivesUp, Around, Counted
<1>5. Running'
  BY <1>1, <1>2 DEF IInv, Running, Labels, ComposeAts, LiftAts, EnforceAts, AnswerAts, Enforcer,
     Asked, Went, Wrote, Loses, DiskHas, JobHas, Carries, GoesOn, Ends, GivesUp, Around, Counted
<1>6. Loaded'
  BY <1>1, <1>2 DEF IInv, Loaded, Labels, Kept, Active, ComposeAts, LiftAts, EnforceAts,
     AnswerAts, Enforcer, Asked, Went, Wrote, Loses, DiskHas, JobHas, Carries, GoesOn, Ends,
     GivesUp, Around, Counted
<1>7. Apart'
  BY <1>1, <1>2, CalmIs DEF StateHas, IInv, Labels, Apart, Plain, Follows, Fresh, Kept, Loaded,
     Target, DueBed, BedDue, ComposeAts, LiftAts, EnforceAts, AnswerAts, Enforcer, Asked, Went,
     Wrote, Loses, DiskHas, JobHas, Carries, GoesOn, Stops, Ends, GivesUp, StopsAfter, Around,
     Counted
<1>8. Fresh'
  BY <1>1, <1>2 DEF IInv, Fresh, Labels, ComposeAts, LiftAts, EnforceAts, AnswerAts, Enforcer,
     Asked, Went, Wrote, Loses, DiskHas, JobHas, Carries, GoesOn, Stops, Ends, GivesUp,
     StopsAfter, Around, Counted
<1>9. Follows'
  BY <1>1, <1>2 DEF IInv, TypeOK, Labels, Follows, Fresh, Apart, Plain, Kept, Loaded, Standing,
     BedDue, DockDue, DueBed, Enters, Target, Today, Gone, Active, Nested, InForce, By,
     ComposeAts, LiftAts, EnforceAts, AnswerAts, Enforcer, Asked, Went, Wrote, Loses, DiskHas,
     JobHas, Carries, GoesOn, Stops, Ends, GivesUp, StopsAfter, Around, Counted
<1>10. ASSUME ~flag', harmed' = {}
       PROVE  Rest'
  <2>0. ~flag /\ harmed = {} /\ Rest /\ Follows /\ Fresh
    BY <1>2, <1>10 DEF IInv, Counted, Went, Wrote, Loses
  <2>1. Journalled'
    BY <1>1, <1>2, <1>10, <2>0, CalmIs DEF Rest, Journalled, Follows, Sane, Sound, Held, Kept,
       Standing, BedDue, DockDue, DueBed, Enters, Target, Today, Gone, InForce, ComposeAts,
       Enforcer, Went, Wrote, Loses, DiskHas, JobHas, Carries, GoesOn, Ends, GivesUp, Around,
       Counted, StateHas
  <2>2. Owned'
    BY <1>1, <1>2, <1>10, <2>0, CalmIs DEF Rest, Owned, Standing, BedDue, Active, Nested,
       ComposeAts, LiftAts, EnforceAts, Enforcer, Asked, Went, Wrote, Loses, DiskHas, JobHas,
       Carries, GoesOn, Ends, GivesUp, Around, Counted, StateHas
  <2>3. Settled'
    BY <1>1, <1>2, <1>10, <2>0, CalmIs DEF Rest, Settled, Fresh, Standing, BedDue, ComposeAts,
       Enforcer, Went, Wrote, Loses, DiskHas, JobHas, Carries, GoesOn, Ends, GivesUp, Around,
       Counted, StateHas
  <2>4. Taken'
    BY <1>1, <1>2, <1>10, <2>0, CalmIs DEF IInv, Labels, Rest, Taken, Follows, Journalled, Sound,
       Sane, Held, Kept, Standing, BedDue, DockDue, DueBed, Enters, Target, Today, Gone, InForce,
       ComposeAts, LiftAts, EnforceAts, AnswerAts, Enforcer, Asked, Went, Wrote, Loses, DiskHas,
       JobHas, Carries, GoesOn, Ends, GivesUp, Around, Counted, StateHas
  <2>5. Undone'
    BY <1>1, <1>2, <1>10, <2>0, CalmIs DEF Rest, Undone, Lost, Standing, BedDue, Enters, Today,
       Gone, ComposeAts, Enforcer, Went, Wrote, Loses, DiskHas, JobHas, Carries, GoesOn, Ends,
       GivesUp, Around, Counted, StateHas
  <2>6. Left'
    <3>1. CASE job'.at = "exit"
      <4>1. disk'.st = disk.st /\ journal' = journal /\ power' = power /\ job'.op = job.op
            /\ job'.st = job.st
            /\ clock' = clock /\ away' = away
        BY <1>1, <1>2, <3>1 DEF Went, Wrote, Loses, Around, DiskHas, JobHas, GoesOn, Carries,
           GivesUp, Ends
      <4> QED BY <1>1, <2>0, <3>1, <4>1 DEF Rest, Left, DockDue, Today
    <3>2. CASE job'.at = "end" /\ job.out /\ BedDue(job.st) /\ disk'.st = disk.st
               /\ journal' = journal /\ job.op = "tick" /\ power' = power
      <4>1. disk.st.rest # None /\ disk.st.bed = None
        BY <1>1, <2>0, <3>2 DEF Rest, Follows, Journalled, Sane, ComposeAts
      <4> QED BY <1>1, <2>0, <3>2, <4>1 DEF Rest, Left, Undone, Enforcer
    <3>3. CASE job'.op \in {"waive", "clear"}
      BY <3>3 DEF Left
    <3> QED BY <1>1, <1>2, <3>1, <3>2, <3>3 DEF Went, Wrote, Loses, DiskHas, JobHas, GoesOn,
       Carries, GivesUp, Ends, Enforcer, Around
  <2>7. Found'
    BY <1>1, <1>2, <1>10, <2>0, CalmIs DEF Rest, Found, Standing, BedDue, Enforcer, Asked, Went,
       Wrote, Loses, DiskHas, JobHas, Carries, GoesOn, Ends, GivesUp, Around, Counted, StateHas
  <2>8. Named'
    BY <1>1, <1>2, <1>10, <2>0, CalmIs DEF Rest, Named, Standing, BedDue, Active, ComposeAts,
       LiftAts, EnforceAts, Enforcer, Went, Wrote, Loses, DiskHas, JobHas, Carries, GoesOn, Ends,
       GivesUp, Around, Counted, StateHas
  <2> QED BY <2>1, <2>2, <2>3, <2>4, <2>5, <2>6, <2>7, <2>8 DEF Rest
<1> QED BY <1>3, <1>4, <1>5, <1>6, <1>7, <1>8, <1>9, <1>10 DEF IInv

(* A window that is lifted had no rest beside it, which neither begins nor *)
(* ends now.                                                               *)
LEMMA ExitKeeps ==
  ASSUME IInv, Exit
  PROVE  IInv'
<1>1. job.at = "exit" /\ job.op \in Enforcer
  BY DEF IInv, TypeOK, JobSet, Ops, Labels, Exit, ComposeAts, LiftAts, EnforceAts, AnswerAts,
     Enforcer, Asked
<1>2. PICK l, j :
     /\ l \in {"lift", "target"}
     /\ Went(j) /\ GoesOn(j, l)
     /\ l = "lift" => job.st.bed # None /\ job.st.bed # DueBed(job.st)
     /\ l = "target" => job.st.bed \in {None, DueBed(job.st)}
  <2>1. PICK l \in {"lift", "target"} : l = IF job.st.bed # None /\ job.st.bed # DueBed(job.st) THEN "lift" ELSE "target"
    OBVIOUS
  <2>2. Went(To(l))
    BY <2>1, GoIs DEF Exit, IInv
  <2>3. GoesOn(To(l), l)
    BY ToHas DEF IInv, Ats, EnforceAts, ComposeAts, LiftAts
  <2> QED BY <2>1, <2>2, <2>3
<1>3. TypeOK'
  BY <1>1, <1>2 DEF IInv, TypeOK, Went, JobHas, Carries, GoesOn, Around, Counted
<1>4. Labels'
  BY <1>1, <1>2 DEF IInv, Labels, ComposeAts, LiftAts, EnforceAts, AnswerAts, Enforcer, Asked,
     Went, JobHas, Carries, GoesOn, Around, Counted
<1>5. Running'
  BY <1>1, <1>2 DEF IInv, Running, Labels, ComposeAts, LiftAts, EnforceAts, AnswerAts, Enforcer,
     Asked, Went, JobHas, Carries, GoesOn, Around, Counted
<1>6. Loaded'
  BY <1>1, <1>2 DEF IInv, Loaded, Labels, Kept, Active, ComposeAts, LiftAts, EnforceAts,
     AnswerAts, Enforcer, Asked, Went, JobHas, Carries, GoesOn, Around, Counted
<1>7. Apart'
  BY <1>1, <1>2, CalmIs DEF StateHas, IInv, Labels, Apart, Plain, Follows, Fresh, Kept, Loaded,
     Target, DueBed, BedDue, ComposeAts, LiftAts, EnforceAts, AnswerAts, Enforcer, Asked, Went,
     DiskHas, JobHas, Carries, GoesOn, Stops, Ends, GivesUp, StopsAfter, Around, Counted
<1>8. Fresh'
  BY <1>1, <1>2 DEF IInv, Fresh, Labels, ComposeAts, LiftAts, EnforceAts, AnswerAts, Enforcer,
     Asked, Went, DiskHas, JobHas, Carries, GoesOn, Stops, Ends, GivesUp, StopsAfter, Around,
     Counted
<1>9. Follows'
  BY <1>1, <1>2 DEF IInv, TypeOK, Labels, Follows, Fresh, Apart, Plain, Kept, Loaded, Standing,
     BedDue, DockDue, DueBed, Enters, Target, Today, Gone, Active, Nested, InForce, By,
     ComposeAts, LiftAts, EnforceAts, AnswerAts, Enforcer, Asked, Went, DiskHas, JobHas, Carries,
     GoesOn, Stops, Ends, GivesUp, StopsAfter, Around, Counted, Taken
<1>10. ASSUME ~flag', harmed' = {}
       PROVE  Rest'
  <2>0. ~flag /\ harmed = {} /\ Rest /\ Follows /\ Fresh
    BY <1>2, <1>10 DEF IInv, Counted, Went
  <2>1. Journalled'
    BY <1>1, <1>2, <2>0 DEF Rest, Journalled, Sane, Sound, Held, Standing, BedDue, DueBed, Today,
       Gone, Enforcer, Went, JobHas, Carries, GoesOn, Around, Counted
  <2>2. Owned'
    BY <1>1, <1>2, <2>0 DEF Rest, Owned, Standing, BedDue, DueBed, Active, Nested, ComposeAts,
       LiftAts, EnforceAts, Enforcer, Asked, Went, JobHas, Carries, GoesOn, Around, Counted
  <2>3. Settled'
    BY <1>1, <1>2, <2>0 DEF Rest, Settled, Fresh, Standing, BedDue, DueBed, ComposeAts, Enforcer,
       Went, JobHas, Carries, GoesOn, Around, Counted
  <2>4. Taken'
    BY <1>1, <1>2, <2>0 DEF Rest, Taken, Held, Standing, BedDue, DockDue, DueBed, Enters, Today,
       ComposeAts, Enforcer, Went, JobHas, Carries, GoesOn, Around, Counted
  <2>5. Undone'
    BY <1>1, <1>2, <2>0 DEF Rest, Undone, Follows, Lost, Kept, Standing, BedDue, DockDue, DueBed,
       Enters, Target, Today, Gone, InForce, ComposeAts, Enforcer, Went, JobHas, Carries, GoesOn,
       Around, Counted
  <2>6. Left'
    BY <1>1, <1>2, <2>0 DEF Rest, Left, Standing, BedDue, DockDue, DueBed, Today, Enforcer, Went,
       JobHas, Carries, GoesOn, Around, Counted
  <2>7. Found'
    BY <1>1, <1>2, <2>0 DEF Rest, Found, Standing, BedDue, DueBed, Enforcer, Asked, Went, JobHas,
       Carries, GoesOn, Around, Counted
  <2>8. Named'
    BY <1>1, <1>2, <2>0 DEF Rest, Named, Standing, BedDue, DueBed, Active, ComposeAts, LiftAts,
       EnforceAts, Enforcer, Went, JobHas, Carries, GoesOn, Around, Counted
  <2> QED BY <2>1, <2>2, <2>3, <2>4, <2>5, <2>6, <2>7, <2>8 DEF Rest
<1> QED BY <1>3, <1>4, <1>5, <1>6, <1>7, <1>8, <1>9, <1>10 DEF IInv

LEMMA ComposeKeeps ==
  ASSUME IInv, Compose
  PROVE  IInv'
<1>1. job.at = "target" /\ job.op \in Enforcer
  BY DEF IInv, TypeOK, JobSet, Ops, Labels, Compose, ComposeAts, LiftAts, EnforceAts, AnswerAts,
     Enforcer, Asked
<1>2. PICK l, j :
     /\ l \in {"forgetEye", "keepState", "keepBed", "begin"}
     /\ Went(j) /\ GoesOn(j, l)
     /\ l = "forgetEye" => InForce(job.st) /\ job.st = disk.st
     /\ l = "keepState" => InForce(job.st)
     /\ l = "keepBed" => Enters(job.st)
     /\ l = "begin" => (Enters(job.st) => job.moved)
  <2>1. PICK l \in {"forgetEye", "keepState", "keepBed", "begin"} :
          /\ job' = To(l)
          /\ l = "forgetEye" => InForce(job.st) /\ job.st = disk.st
          /\ l = "keepState" => InForce(job.st)
          /\ l = "keepBed" => Enters(job.st)
          /\ l = "begin" => (Enters(job.st) => job.moved)
    <3>1. CASE InForce(job.st) /\ job' = To(IF job.st = disk.st THEN "forgetEye" ELSE "keepState")
      BY <3>1
    <3>2. CASE job' = To(IF BedDue(job.st) /\ job.st.bed = None /\ ~job.moved THEN "keepBed" ELSE "begin")
      BY <3>2 DEF Enters
    <3> QED BY <3>1, <3>2 DEF Compose
  <2>2. Went(To(l))
    BY <2>1 DEF Compose, Went, Fault, Same, Counted, Around, IInv, TypeOK
  <2>3. GoesOn(To(l), l)
    BY ToHas DEF IInv, Ats, EnforceAts, ComposeAts, LiftAts
  <2> QED BY <2>1, <2>2, <2>3
<1>3. TypeOK'
  BY <1>1, <1>2 DEF IInv, TypeOK, Went, JobHas, Carries, GoesOn, Around, Counted
<1>4. Labels'
  BY <1>1, <1>2 DEF IInv, Labels, ComposeAts, LiftAts, EnforceAts, AnswerAts, Enforcer, Asked,
     Went, JobHas, Carries, GoesOn, Around, Counted
<1>5. Running'
  BY <1>1, <1>2 DEF IInv, Running, Labels, ComposeAts, LiftAts, EnforceAts, AnswerAts, Enforcer,
     Asked, Went, JobHas, Carries, GoesOn, Around, Counted
<1>6. Loaded'
  BY <1>1, <1>2 DEF IInv, Loaded, Labels, Kept, Today, Active, ComposeAts, LiftAts, EnforceAts,
     AnswerAts, Enforcer, Asked, Went, JobHas, Carries, GoesOn, Around, Counted
<1>7. Apart'
  BY <1>1, <1>2, CalmIs DEF StateHas, IInv, Labels, Apart, Plain, Follows, Fresh, Kept, Loaded,
     Target, DueBed, BedDue, ComposeAts, LiftAts, EnforceAts, AnswerAts, Enforcer, Asked, Went,
     DiskHas, JobHas, Carries, GoesOn, Stops, Ends, GivesUp, StopsAfter, Around, Counted
<1>8. Fresh'
  BY <1>1, <1>2 DEF IInv, Fresh, Labels, ComposeAts, LiftAts, EnforceAts, AnswerAts, Enforcer,
     Asked, Went, DiskHas, JobHas, Carries, GoesOn, Stops, Ends, GivesUp, StopsAfter, Around,
     Counted
<1>9. Follows'
  BY <1>1, <1>2 DEF IInv, TypeOK, Labels, Follows, Fresh, Apart, Plain, Kept, Loaded, Standing,
     BedDue, DockDue, DueBed, Enters, Target, Today, Gone, Active, Nested, InForce, By,
     ComposeAts, LiftAts, EnforceAts, AnswerAts, Enforcer, Asked, Went, DiskHas, JobHas, Carries,
     GoesOn, Stops, Ends, GivesUp, StopsAfter, Around, Counted
<1>10. ASSUME ~flag', harmed' = {}
       PROVE  Rest'
  <2>0. ~flag /\ harmed = {} /\ Rest /\ Follows /\ Fresh
    BY <1>2, <1>10 DEF IInv, Counted, Went
  <2>1. Journalled'
    BY <1>1, <1>2, <2>0 DEF Rest, Journalled, Sane, Sound, Held, Standing, BedDue, DockDue,
       DueBed, Enters, Target, Today, Gone, InForce, Enforcer, Went, JobHas, Carries, GoesOn,
       Around, Counted
  <2>2. Owned'
    BY <1>1, <1>2, <2>0 DEF Rest, Owned, Standing, BedDue, DockDue, DueBed, Enters, Target, Today,
       Active, Nested, InForce, ComposeAts, LiftAts, EnforceAts, Enforcer, Asked, Went, JobHas,
       Carries, GoesOn, Around, Counted
  <2>3. Settled'
    BY <1>1, <1>2, <2>0 DEF Rest, Settled, Fresh, Standing, BedDue, DockDue, DueBed, Enters,
       Target, Today, InForce, ComposeAts, Enforcer, Went, JobHas, Carries, GoesOn, Around,
       Counted
  <2>4. Taken'
    BY <1>1, <1>2, <2>0 DEF Rest, Taken, Held, Standing, BedDue, DockDue, DueBed, Enters, Target,
       Today, InForce, ComposeAts, Enforcer, Went, JobHas, Carries, GoesOn, Around, Counted
  <2>5. Undone'
    BY <1>1, <1>2, <2>0 DEF Rest, Undone, Lost, Standing, BedDue, DockDue, DueBed, Enters, Target,
       Today, Gone, InForce, ComposeAts, Enforcer, Went, JobHas, Carries, GoesOn, Around, Counted
  <2>6. Left'
    BY <1>1, <1>2, <2>0 DEF IInv, TypeOK, Rest, Left, Undone, Standing, BedDue, DockDue, DueBed,
       Enters, Target, Today, InForce, ComposeAts, Enforcer, Went, JobHas, Carries, GoesOn,
       Around, Counted
  <2>7. Found'
    BY <1>1, <1>2, <2>0 DEF Rest, Found, Standing, BedDue, DockDue, DueBed, Enters, Target, Today,
       InForce, Enforcer, Asked, Went, JobHas, Carries, GoesOn, Around, Counted
  <2>8. Named'
    BY <1>1, <1>2, <2>0 DEF Rest, Named, Standing, BedDue, DockDue, DueBed, Enters, Target, Today,
       Active, InForce, ComposeAts, LiftAts, EnforceAts, Enforcer, Went, JobHas, Carries, GoesOn,
       Around, Counted
  <2> QED BY <2>1, <2>2, <2>3, <2>4, <2>5, <2>6, <2>7, <2>8 DEF Rest
<1> QED BY <1>3, <1>4, <1>5, <1>6, <1>7, <1>8, <1>9, <1>10 DEF IInv

(* With a journal that was left behind no rest ends here: the last target  *)
(* would have been open, and a rest has a blocked one.                     *)
LEMMA KeepStateKeeps ==
  ASSUME IInv, KeepState
  PROVE  IInv'
<1>1. job.at = "keepState" /\ job.op \in Enforcer
  BY DEF IInv, TypeOK, JobSet, Ops, Labels, KeepState, ComposeAts, LiftAts, EnforceAts, AnswerAts,
     Enforcer, Asked
<1>2. PICK d, t, f, g :
     /\ Wrote(d, t, f) \/ Loses(g, f)
     /\ DiskHas(d, job.st, disk.on, disk.bed, disk.eye, disk.dock)
     /\ DiskHas(g, Calm, disk.on, disk.bed, disk.eye, disk.dock)
     /\ GoesOn(t, "forgetEye") /\ StopsAfter(f)
     /\ StateHas(Calm, None, None, FALSE, None, None, None, None)
  <2>1. DiskHas([disk EXCEPT !.st = job.st], job.st, disk.on, disk.bed, disk.eye, disk.dock)
    BY TypeFields, DiskEdits DEF IInv
  <2>2. PICK d : d = [disk EXCEPT !.st = job.st]
             /\ DiskHas(d, job.st, disk.on, disk.bed, disk.eye, disk.dock)
    BY <2>1
  <2>3. PICK g : g = [disk EXCEPT !.st = Calm]
             /\ DiskHas(g, Calm, disk.on, disk.bed, disk.eye, disk.dock)
    BY LostFiles DEF IInv
  <2>4. Wrote(d, To("forgetEye"), Stopping(After)) \/ Loses(g, Stopping(After))
    BY <2>2, <2>3, WriteFileIs DEF KeepState, IInv
  <2>5. GoesOn(To("forgetEye"), "forgetEye") /\ StopsAfter(Stopping(After))
    BY ToHas, AfterIs DEF IInv, Ats, EnforceAts
  <2> QED BY <2>2, <2>3, <2>4, <2>5, LostFiles DEF IInv
<1>3. TypeOK'
  BY <1>1, <1>2 DEF IInv, TypeOK, Wrote, Loses, DiskHas, JobHas, Carries, GoesOn, Stops,
     StopsAfter, Around, Counted
<1>4. Labels'
  BY <1>1, <1>2 DEF IInv, Labels, ComposeAts, LiftAts, EnforceAts, AnswerAts, Enforcer, Asked,
     Wrote, Loses, DiskHas, JobHas, Carries, GoesOn, Stops, StopsAfter, Around, Counted
<1>5. Running'
  BY <1>1, <1>2 DEF IInv, Running, Labels, ComposeAts, LiftAts, EnforceAts, AnswerAts, Enforcer,
     Asked, Wrote, Loses, DiskHas, JobHas, Carries, GoesOn, Stops, StopsAfter, Around, Counted
<1>6. Loaded'
  BY <1>1, <1>2 DEF IInv, Loaded, Labels, Kept, Active, ComposeAts, LiftAts, EnforceAts,
     AnswerAts, Enforcer, Asked, Wrote, Loses, DiskHas, JobHas, Carries, GoesOn, Stops,
     StopsAfter, Around, Counted
<1>7. Apart'
  BY <1>1, <1>2, CalmIs DEF StateHas, IInv, Labels, Apart, Plain, Follows, Fresh, Kept, Loaded,
     Target, DueBed, BedDue, ComposeAts, LiftAts, EnforceAts, AnswerAts, Enforcer, Asked, Wrote,
     Loses, StateHas, DiskHas, JobHas, Carries, GoesOn, Stops, Ends, GivesUp, StopsAfter, Around,
     Counted
<1>8. Fresh'
  BY <1>1, <1>2 DEF IInv, Fresh, Labels, ComposeAts, LiftAts, EnforceAts, AnswerAts, Enforcer,
     Asked, Wrote, Loses, StateHas, DiskHas, JobHas, Carries, GoesOn, Stops, Ends, GivesUp,
     StopsAfter, Around, Counted
<1>9. Follows'
  BY <1>1, <1>2 DEF IInv, TypeOK, Labels, Follows, Fresh, Apart, Plain, Kept, Loaded, Standing,
     BedDue, DockDue, DueBed, Enters, Target, Today, Gone, Active, Nested, InForce, By,
     ComposeAts, LiftAts, EnforceAts, AnswerAts, Enforcer, Asked, Wrote, Loses, StateHas, DiskHas,
     JobHas, Carries, GoesOn, Stops, Ends, GivesUp, StopsAfter, Around, Counted
<1>10. ASSUME ~flag', harmed' = {}
       PROVE  Rest'
  <2>0. ~flag /\ harmed = {} /\ Rest /\ Follows /\ Fresh
    BY <1>2, <1>10 DEF IInv, Counted, Wrote, Loses, StateHas
  <2>1. Journalled'
    BY <1>1, <1>2, <1>10, <2>0, CalmIs DEF Rest, Journalled, Settled, Fresh, Follows, Taken, Sane,
       Sound, Held, Kept, Standing, BedDue, DockDue, DueBed, Enters, Target, Today, Gone, InForce,
       ComposeAts, Enforcer, Wrote, Loses, DiskHas, JobHas, Carries, GoesOn, Stops, StopsAfter,
       Around, Counted, StateHas
  <2>2. Owned'
    BY <1>1, <1>2, <1>10, <2>0, CalmIs DEF Rest, Owned, Active, Nested, ComposeAts, LiftAts,
       EnforceAts, Enforcer, Asked, Wrote, Loses, DiskHas, JobHas, Carries, GoesOn, Stops,
       StopsAfter, Around, Counted, StateHas
  <2>3. Settled'
    BY <1>1, <1>2, <1>10, <2>0, CalmIs DEF Rest, Settled, Fresh, ComposeAts, Enforcer, Wrote,
       Loses, DiskHas, JobHas, Carries, GoesOn, Stops, StopsAfter, Around, Counted, StateHas
  <2>4. Taken'
    BY <1>1, <1>2, <1>10, <2>0, CalmIs DEF Rest, Taken, Held, Standing, BedDue, DockDue, Enters,
       Today, ComposeAts, Enforcer, Wrote, Loses, DiskHas, JobHas, Carries, GoesOn, Stops,
       StopsAfter, Around, Counted, StateHas
  <2>5. Undone'
    BY <1>1, <1>2, <1>10, <2>0, CalmIs DEF Rest, Undone, Lost, Standing, BedDue, Enters, Today,
       Gone, ComposeAts, Enforcer, Wrote, Loses, DiskHas, JobHas, Carries, GoesOn, Stops,
       StopsAfter, Around, Counted, StateHas
  <2>6. Left'
    <3>1. CASE disk'.st = job.st /\ GoesOn(job', "forgetEye") /\ journal' = journal
               /\ power' = power
      <4> SUFFICES ASSUME journal # None, job.st.pending = None, job.op = "tick", power
                   PROVE  /\ journal.disk.st.bed = None /\ job.st.bed = None /\ ~job.st.dock
                          /\ (journal.disk.st.rest # None => job.st.rest # None)
        BY <1>1, <3>1 DEF Left, GoesOn, Carries, JobHas, Enforcer
      <4>1. /\ Kept(job.st, disk.st) /\ InForce(job.st) /\ disk.st.pending = None
            /\ job.out => disk.st.rest # None /\ job.st.rest = None
            /\ ~job.out /\ disk.st.rest # None => job.st.rest # None
        BY <1>1, <2>0 DEF Rest, Follows, Settled, ComposeAts, Enforcer
      <4>2. ~disk.st.dock /\ journal.disk.st.bed = disk.st.bed
            /\ (disk.st.bed # None => DockDue(job.st))
        BY <1>1, <2>0, <4>1 DEF Rest, Left
      <4>3. ~DockDue(job.st) /\ disk.st.bed = None /\ ~BedDue(job.st)
        BY <1>1, <4>1, <4>2, DueIs, TypeFields DEF IInv, Kept, InForce, DueBed
      <4>4. journal.disk.st.rest # None => disk.st.rest # None
        BY <1>1, <2>0 DEF Rest, Undone, ComposeAts
      <4>5. ~job.out
        <5>1. <<Today, "open">> # None
          BY TodayIs DEF IInv, Setting
        <5>2. disk.st.rest # None => disk.st.last = None \/ disk.st.last[2] = "blocked"
          BY <2>0 DEF Rest, Journalled, Sane
        <5>3. job.out => disk.st.last = <<Today, "open">>
          BY <4>1, <4>3 DEF Kept, InForce, Target
        <5>4. <<Today, "open">>[2] # "blocked"
          OBVIOUS
        <5> QED BY <4>1, <5>1, <5>2, <5>3, <5>4
      <4> QED BY <4>1, <4>2, <4>3, <4>4, <4>5 DEF Kept
    <3>2. CASE job'.at = "stop"
      BY <3>2 DEF Left
    <3> QED BY <1>2, <3>1, <3>2 DEF Wrote, Loses, DiskHas, StopsAfter, Stops, JobHas, Around
  <2>7. Found'
    BY <1>1, <1>2, <1>10, <2>0, CalmIs DEF Rest, Found, Owned, Active, Nested, ComposeAts,
       LiftAts, EnforceAts, Enforcer, Asked, Wrote, Loses, DiskHas, JobHas, Carries, GoesOn,
       Stops, StopsAfter, Around, Counted, StateHas
  <2>8. Named'
    BY <1>1, <1>2, <1>10, <2>0, CalmIs DEF Rest, Named, Active, ComposeAts, LiftAts, EnforceAts,
       Enforcer, Wrote, Loses, DiskHas, JobHas, Carries, GoesOn, Stops, StopsAfter, Around,
       Counted, StateHas
  <2> QED BY <2>1, <2>2, <2>3, <2>4, <2>5, <2>6, <2>7, <2>8 DEF Rest
<1> QED BY <1>3, <1>4, <1>5, <1>6, <1>7, <1>8, <1>9, <1>10 DEF IInv

LEMMA ForgetEyeKeeps ==
  ASSUME IInv, ForgetEye
  PROVE  IInv'
<1>1. job.at = "forgetEye" /\ job.op \in Enforcer
  BY DEF IInv, TypeOK, JobSet, Ops, Labels, ForgetEye, ComposeAts, LiftAts, EnforceAts, AnswerAts,
     Enforcer, Asked
<1>2. PICK t : Removed(disk.bed, IF job.out THEN None ELSE disk.eye, disk.dock, t) /\ GivesUp(t)
  <2>1. disk.bed \in Snapshot \cup {None}
        /\ (IF job.out THEN None ELSE disk.eye) \in Snapshot \cup {None}
        /\ disk.dock \in Snapshot \cup {None}
    BY TypeFields DEF IInv
  <2>2. Removed(disk.bed, IF job.out THEN None ELSE disk.eye, disk.dock, To(After))
    BY <2>1, RemoveIs DEF ForgetEye, IInv
  <2>3. GivesUp(To(After))
    BY AfterIs DEF IInv
  <2> QED BY <2>2, <2>3
<1>3. TypeOK'
  BY <1>1, <1>2 DEF IInv, TypeOK, Removed, DiskHas, JobHas, Carries, GoesOn, Ends, GivesUp,
     Around, Counted
<1>4. Labels'
  BY <1>1, <1>2 DEF IInv, Labels, ComposeAts, LiftAts, EnforceAts, AnswerAts, Enforcer, Asked,
     Removed, DiskHas, JobHas, Carries, GoesOn, Ends, GivesUp, Around, Counted
<1>5. Running'
  BY <1>1, <1>2 DEF IInv, Running, Labels, ComposeAts, LiftAts, EnforceAts, AnswerAts, Enforcer,
     Asked, Removed, DiskHas, JobHas, Carries, GoesOn, Ends, GivesUp, Around, Counted
<1>6. Loaded'
  BY <1>1, <1>2 DEF IInv, Loaded, Labels, Kept, Active, ComposeAts, LiftAts, EnforceAts,
     AnswerAts, Enforcer, Asked, Removed, DiskHas, JobHas, Carries, GoesOn, Ends, GivesUp, Around,
     Counted
<1>7. Apart'
  BY <1>1, <1>2, CalmIs DEF StateHas, IInv, Labels, Apart, Plain, Follows, Fresh, Kept, Loaded,
     Target, DueBed, BedDue, ComposeAts, LiftAts, EnforceAts, AnswerAts, Enforcer, Asked, Removed,
     DiskHas, JobHas, Carries, GoesOn, Stops, Ends, GivesUp, StopsAfter, Around, Counted
<1>8. Fresh'
  BY <1>1, <1>2 DEF IInv, Fresh, Labels, ComposeAts, LiftAts, EnforceAts, AnswerAts, Enforcer,
     Asked, Removed, DiskHas, JobHas, Carries, GoesOn, Stops, Ends, GivesUp, StopsAfter, Around,
     Counted
<1>9. Follows'
  BY <1>1, <1>2 DEF IInv, TypeOK, Labels, Follows, Fresh, Apart, Plain, Kept, Loaded, Standing,
     BedDue, DockDue, DueBed, Enters, Target, Today, Gone, Active, Nested, InForce, By,
     ComposeAts, LiftAts, EnforceAts, AnswerAts, Enforcer, Asked, Removed, DiskHas, JobHas,
     Carries, GoesOn, Stops, Ends, GivesUp, StopsAfter, Around, Counted
<1>10. ASSUME ~flag', harmed' = {}
       PROVE  Rest'
  <2>0. ~flag /\ harmed = {} /\ Rest /\ Follows /\ Fresh
    BY <1>2, <1>10 DEF IInv, Counted, Removed
  <2>1. Journalled'
    BY <1>1, <1>2, <2>0 DEF Rest, Journalled, Follows, Sane, Sound, Held, Kept, Standing, BedDue,
       DockDue, DueBed, Enters, Target, Today, Gone, InForce, ComposeAts, Enforcer, Removed,
       DiskHas, JobHas, Carries, GoesOn, Ends, GivesUp, Around, Counted
  <2>2. Owned'
    BY <1>1, <1>2, <2>0 DEF Rest, Owned, Active, Nested, ComposeAts, LiftAts, EnforceAts,
       Enforcer, Asked, Removed, DiskHas, JobHas, Carries, GoesOn, Ends, GivesUp, Around, Counted
  <2>3. Settled'
    BY <1>1, <1>2, <2>0 DEF Rest, Settled, Fresh, ComposeAts, Enforcer, Removed, DiskHas, JobHas,
       Carries, GoesOn, Ends, GivesUp, Around, Counted
  <2>4. Taken'
    BY <1>1, <1>2, <2>0 DEF Rest, Taken, Held, Standing, BedDue, DockDue, Enters, Today,
       ComposeAts, Enforcer, Removed, DiskHas, JobHas, Carries, GoesOn, Ends, GivesUp, Around,
       Counted
  <2>5. Undone'
    BY <1>1, <1>2, <2>0 DEF Rest, Undone, Lost, Standing, BedDue, Enters, Today, Gone, ComposeAts,
       Enforcer, Removed, DiskHas, JobHas, Carries, GoesOn, Ends, GivesUp, Around, Counted
  <2>6. Left'
    BY <1>1, <1>2, <2>0 DEF Rest, Left, DockDue, Today, Enforcer, Removed, DiskHas, JobHas,
       Carries, GoesOn, Ends, GivesUp, Around, Counted
  <2>7. Found'
    BY <1>1, <1>2, <2>0 DEF Rest, Found, Enforcer, Asked, Removed, DiskHas, JobHas, Carries,
       GoesOn, Ends, GivesUp, Around, Counted
  <2>8. Named'
    BY <1>1, <1>2, <2>0 DEF Rest, Named, Active, ComposeAts, LiftAts, EnforceAts, Enforcer,
       Removed, DiskHas, JobHas, Carries, GoesOn, Ends, GivesUp, Around, Counted
  <2> QED BY <2>1, <2>2, <2>3, <2>4, <2>5, <2>6, <2>7, <2>8 DEF Rest
<1> QED BY <1>3, <1>4, <1>5, <1>6, <1>7, <1>8, <1>9, <1>10 DEF IInv

(* The first snapshot of a window is of settings that no other reason but  *)
(* a rest had shaped.                                                      *)
LEMMA KeepBedKeeps ==
  ASSUME IInv, KeepBed
  PROVE  IInv'
<1>1. job.at = "keepBed" /\ job.op \in Enforcer
  BY DEF IInv, TypeOK, JobSet, Ops, Labels, KeepBed, ComposeAts, LiftAts, EnforceAts, AnswerAts,
     Enforcer, Asked
<1>2. PICK d, t, f, n, h :
     /\ GoesOn(t, "begin") /\ GivesUp(f)
     /\ DiskHas(h, disk.st, disk.on, None, disk.eye, disk.dock)
     /\ \/ BedSource = None /\ Went(f)
        \/ BedSource # None /\ Loses(h, f)
        \/ /\ BedSource # None /\ Wrote(d, t, f)
           /\ n \in Snapshot /\ n # None /\ n.win = Window[clock] /\ n.of = BedSource.of
           /\ DiskHas(d, disk.st, disk.on, n, disk.eye, disk.dock)
  <2>1. GoesOn(To("begin"), "begin") /\ GivesUp(To(After))
    BY ToHas, AfterIs DEF IInv, Ats, EnforceAts, ComposeAts
  <2>0. PICK h : h = [disk EXCEPT !.bed = None]
             /\ DiskHas(h, disk.st, disk.on, None, disk.eye, disk.dock)
    BY LostFiles DEF IInv
  <2>2. BedSource \in Snapshot \cup {None}
    BY TypeFields, SeenIs DEF IInv, BedSource
  <2>3. CASE BedSource = None
    BY <2>0, <2>1, <2>3, GoIs DEF KeepBed, IInv
  <2>4. CASE BedSource # None
    <3>1. PICK n, d : /\ n \in Snapshot /\ n # None /\ n.win = Window[clock]
               /\ n.of = BedSource.of
                      /\ n = For(BedSource) /\ d = [disk EXCEPT !.bed = n]
                      /\ DiskHas(d, disk.st, disk.on, n, disk.eye, disk.dock)
      <4>1. BedSource \in Snapshot
        BY <2>4, <2>2
      <4>2. For(BedSource) \in Snapshot /\ For(BedSource).win = Window[clock]
            /\ For(BedSource).of = BedSource.of /\ For(BedSource) # None
        BY <4>1, ForIs DEF IInv
      <4> QED BY <4>2, DiskEdits DEF IInv
    <3>2. Wrote(d, To("begin"), To(After)) \/ Loses(h, To(After))
      BY <2>0, <2>4, <3>1, WriteFileIs DEF KeepBed, IInv
    <3> QED BY <2>0, <2>1, <2>4, <3>1, <3>2
  <2> QED BY <2>3, <2>4
<1>3. TypeOK'
  BY <1>1, <1>2 DEF IInv, TypeOK, Went, Wrote, Loses, DiskHas, JobHas, Carries, GoesOn, Ends,
     GivesUp, Around, Counted
<1>4. Labels'
  BY <1>1, <1>2 DEF IInv, Labels, ComposeAts, LiftAts, EnforceAts, AnswerAts, Enforcer, Asked,
     Went, Wrote, Loses, DiskHas, JobHas, Carries, GoesOn, Ends, GivesUp, Around, Counted
<1>5. Running'
  BY <1>1, <1>2 DEF IInv, Running, Labels, ComposeAts, LiftAts, EnforceAts, AnswerAts, Enforcer,
     Asked, Went, Wrote, Loses, DiskHas, JobHas, Carries, GoesOn, Ends, GivesUp, Around, Counted
<1>6. Loaded'
  BY <1>1, <1>2 DEF IInv, Loaded, Labels, Kept, Active, ComposeAts, LiftAts, EnforceAts,
     AnswerAts, Enforcer, Asked, Went, Wrote, Loses, DiskHas, JobHas, Carries, GoesOn, Ends,
     GivesUp, Around, Counted
<1>7. Apart'
  BY <1>1, <1>2, CalmIs DEF StateHas, IInv, Labels, Apart, Plain, Follows, Fresh, Kept, Loaded,
     Target, DueBed, BedDue, ComposeAts, LiftAts, EnforceAts, AnswerAts, Enforcer, Asked, Went,
     Wrote, Loses, DiskHas, JobHas, Carries, GoesOn, Stops, Ends, GivesUp, StopsAfter, Around,
     Counted
<1>8. Fresh'
  BY <1>1, <1>2 DEF IInv, Fresh, Labels, ComposeAts, LiftAts, EnforceAts, AnswerAts, Enforcer,
     Asked, Went, Wrote, Loses, DiskHas, JobHas, Carries, GoesOn, Stops, Ends, GivesUp,
     StopsAfter, Around, Counted
<1>9. Follows'
  BY <1>1, <1>2 DEF IInv, TypeOK, Labels, Follows, Fresh, Apart, Plain, Kept, Loaded, Standing,
     BedDue, DockDue, DueBed, Enters, Target, Today, Gone, Active, Nested, InForce, By,
     ComposeAts, LiftAts, EnforceAts, AnswerAts, Enforcer, Asked, Went, Wrote, Loses, DiskHas,
     JobHas, Carries, GoesOn, Stops, Ends, GivesUp, StopsAfter, Around, Counted
<1>10. ASSUME ~flag', harmed' = {}
       PROVE  Rest'
  <2>0. ~flag /\ harmed = {} /\ Rest /\ Follows /\ Fresh
    BY <1>2, <1>10 DEF IInv, Counted, Went, Wrote, Loses
  <2>1. Journalled'
    BY <1>1, <1>2, <1>10, <2>0, CalmIs DEF Rest, Journalled, Follows, Sane, Sound, Held, Kept,
       Standing, BedDue, DockDue, DueBed, Enters, Target, Today, Gone, InForce, ComposeAts,
       Enforcer, Went, Wrote, Loses, DiskHas, JobHas, Carries, GoesOn, Ends, GivesUp, Around,
       Counted, StateHas
  <2>2. Owned'
    BY <1>1, <1>2, <1>10, <2>0, CalmIs DEF Rest, Owned, Active, Nested, ComposeAts, LiftAts,
       EnforceAts, Enforcer, Asked, Went, Wrote, Loses, DiskHas, JobHas, Carries, GoesOn, Ends,
       GivesUp, Around, Counted, StateHas
  <2>3. Settled'
    BY <1>1, <1>2, <1>10, <2>0, CalmIs DEF Rest, Settled, Fresh, ComposeAts, Enforcer, Went,
       Wrote, Loses, DiskHas, JobHas, Carries, GoesOn, Ends, GivesUp, Around, Counted, StateHas
  <2>4. Taken'
    <3>1. CASE job'.at \in {"end", "check"}
      BY <3>1 DEF Taken, ComposeAts
    <3>2. CASE GoesOn(job', "begin") /\ DiskHas(disk', disk.st, disk.on, n, disk.eye, disk.dock)
               /\ BedSource # None
               /\ n # None /\ n.win = Window[clock] /\ n.of = BedSource.of
      <4>1. Held(n)
        <5>1. job.st.bed = disk.st.bed /\ job.st.dock = disk.st.dock /\ job.st.bed = None
          BY <1>1, <2>0 DEF Rest, Follows, Kept, Enters, ComposeAts
        <5>2. Sound(disk)
          BY <1>1, <2>0 DEF IInv, Labels, Rest, Journalled, Enforcer
        <5> QED BY <3>2, <5>1, <5>2, SeenIs DEF IInv, Sound, Held, BedSource
      <4>2. /\ job'.op = job.op /\ job'.at = "begin" /\ job'.st = job.st /\ job'.in = job.in
            /\ job'.out = job.out /\ job'.moved = job.moved
            /\ disk'.bed = n /\ disk'.eye = disk.eye /\ disk'.dock = disk.dock
            /\ disk'.on = disk.on
            /\ clock' = clock /\ away' = away /\ pctl' = pctl
        BY <1>2, <3>2 DEF GoesOn, Carries, JobHas, DiskHas, Went, Wrote, Loses, Around
      <4> QED BY <1>1, <2>0, <3>2, <4>1, <4>2 DEF Rest, Taken, ComposeAts, DockDue, BedDue,
         Standing, Today, Enforcer
    <3> QED BY <1>1, <1>2, <3>1, <3>2 DEF Went, Wrote, Loses, JobHas, GoesOn, Carries, GivesUp,
       Ends, Enforcer
  <2>5. Undone'
    BY <1>1, <1>2, <1>10, <2>0, CalmIs DEF Rest, Undone, Lost, Standing, BedDue, Enters, Today,
       Gone, ComposeAts, Enforcer, Went, Wrote, Loses, DiskHas, JobHas, Carries, GoesOn, Ends,
       GivesUp, Around, Counted, StateHas
  <2>6. Left'
    <3>1. disk'.st = disk.st /\ journal' = journal /\ power' = power
      BY <1>2 DEF Went, Wrote, Loses, DiskHas, Around
    <3>2. CASE job'.at \in {"begin", "check"}
      BY <3>2 DEF Left
    <3>3. CASE job'.at = "end" /\ job.op = "tick"
      <4>1. disk.st.bed = None
        BY <1>1, <2>0 DEF Rest, Follows, Kept, Enters, ComposeAts
      <4> QED BY <1>1, <2>0, <3>1, <3>3, <4>1 DEF Rest, Left, Undone, ComposeAts, Enforcer
    <3> QED BY <1>1, <1>2, <3>2, <3>3 DEF Went, Wrote, Loses, JobHas, GoesOn, Carries, GivesUp,
       Ends, Enforcer
  <2>7. Found'
    BY <1>1, <1>2, <1>10, <2>0, CalmIs DEF Rest, Found, Enforcer, Asked, Went, Wrote, Loses,
       DiskHas, JobHas, Carries, GoesOn, Ends, GivesUp, Around, Counted, StateHas
  <2>8. Named'
    BY <1>1, <1>2, <1>10, <2>0, CalmIs DEF Rest, Named, Active, ComposeAts, LiftAts, EnforceAts,
       Enforcer, Went, Wrote, Loses, DiskHas, JobHas, Carries, GoesOn, Ends, GivesUp, Around,
       Counted, StateHas
  <2> QED BY <2>1, <2>2, <2>3, <2>4, <2>5, <2>6, <2>7, <2>8 DEF Rest
<1> QED BY <1>3, <1>4, <1>5, <1>6, <1>7, <1>8, <1>9, <1>10 DEF IInv

LEMMA StartKeeps ==
  ASSUME IInv, Start
  PROVE  IInv'
<1>1. job.at = "begin" /\ job.op \in Enforcer
  BY DEF IInv, TypeOK, JobSet, Ops, Labels, Start, ComposeAts, LiftAts, EnforceAts, AnswerAts,
     Enforcer, Asked
<1>2. PICK t, f : Began(t, f) /\ GoesOn(t, "write") /\ GoesOn(f, "drop")
  <2>1. Began(To("write"), To("drop"))
    BY BeginIs DEF Start, IInv
  <2>2. GoesOn(To("write"), "write") /\ GoesOn(To("drop"), "drop")
    BY ToHas DEF IInv, Ats, EnforceAts, ComposeAts
  <2> QED BY <2>1, <2>2
<1>3. TypeOK'
  BY <1>1, <1>2 DEF IInv, TypeOK, Began, Opened, JobHas, Carries, GoesOn, Around, Counted
<1>4. Labels'
  BY <1>1, <1>2 DEF IInv, Labels, ComposeAts, LiftAts, EnforceAts, AnswerAts, Enforcer, Asked,
     Began, Opened, JobHas, Carries, GoesOn, Around, Counted
<1>5. Running'
  BY <1>1, <1>2 DEF IInv, Running, Labels, ComposeAts, LiftAts, EnforceAts, AnswerAts, Enforcer,
     Asked, Began, Opened, JobHas, Carries, GoesOn, Around, Counted
<1>6. Loaded'
  BY <1>1, <1>2 DEF IInv, Loaded, Labels, Kept, Active, ComposeAts, LiftAts, EnforceAts,
     AnswerAts, Enforcer, Asked, Began, Opened, JobHas, Carries, GoesOn, Around, Counted
<1>7. Apart'
  BY <1>1, <1>2, CalmIs DEF StateHas, IInv, Labels, Apart, Plain, Follows, Fresh, Kept, Loaded,
     Target, DueBed, BedDue, ComposeAts, LiftAts, EnforceAts, AnswerAts, Enforcer, Asked, Began,
     Opened, DiskHas, JobHas, Carries, GoesOn, Stops, Ends, GivesUp, StopsAfter, Around, Counted
<1>8. Fresh'
  BY <1>1, <1>2 DEF IInv, Fresh, Labels, ComposeAts, LiftAts, EnforceAts, AnswerAts, Enforcer,
     Asked, Began, Opened, DiskHas, JobHas, Carries, GoesOn, Stops, Ends, GivesUp, StopsAfter,
     Around, Counted
<1>9. Follows'
  BY <1>1, <1>2 DEF IInv, TypeOK, Labels, Follows, Fresh, Apart, Plain, Kept, Loaded, Standing,
     BedDue, DockDue, DueBed, Enters, Target, Today, Gone, Active, Nested, InForce, By,
     ComposeAts, LiftAts, EnforceAts, AnswerAts, Enforcer, Asked, Began, Opened, DiskHas, JobHas,
     Carries, GoesOn, Stops, Ends, GivesUp, StopsAfter, Around, Counted
<1>10. ASSUME ~flag', harmed' = {}
       PROVE  Rest'
  <2>0. ~flag /\ harmed = {} /\ Rest /\ Follows /\ Fresh
    BY <1>2, <1>10 DEF IInv, Counted, Began, Opened
  <2>1. Journalled'
    BY <1>1, <1>2, <2>0 DEF Rest, Journalled, Sane, Sound, Held, Today, Gone, By, Enforcer, Began,
       Opened, JobHas, Carries, GoesOn, Around, Counted
  <2>2. Owned'
    BY <1>1, <1>2, <2>0 DEF Rest, Owned, Active, Nested, By, ComposeAts, LiftAts, EnforceAts,
       Enforcer, Asked, Began, Opened, JobHas, Carries, GoesOn, Around, Counted
  <2>3. Settled'
    BY <1>1, <1>2, <2>0 DEF Rest, Settled, Fresh, By, ComposeAts, Enforcer, Began, Opened, JobHas,
       Carries, GoesOn, Around, Counted
  <2>4. Taken'
    BY <1>1, <1>2, <2>0 DEF Rest, Taken, Held, Standing, BedDue, DockDue, Enters, Today, By,
       ComposeAts, Enforcer, Began, Opened, JobHas, Carries, GoesOn, Around, Counted
  <2>5. Undone'
    BY <1>1, <1>2, <2>0 DEF Rest, Undone, Follows, Lost, Kept, Standing, BedDue, DockDue, DueBed,
       Enters, Target, Today, Gone, InForce, By, ComposeAts, Enforcer, Began, Opened, JobHas,
       Carries, GoesOn, Around, Counted
  <2>6. Left'
    BY <1>1, <1>2, <2>0 DEF Rest, Left, DockDue, Today, By, Enforcer, Began, Opened, JobHas,
       Carries, GoesOn, Around, Counted
  <2>7. Found'
    BY <1>1, <1>2, <2>0 DEF Rest, Found, By, Enforcer, Asked, Began, Opened, JobHas, Carries,
       GoesOn, Around, Counted
  <2>8. Named'
    BY <1>1, <1>2, <2>0 DEF Rest, Named, Active, By, ComposeAts, LiftAts, EnforceAts, Enforcer,
       Began, Opened, JobHas, Carries, GoesOn, Around, Counted
  <2> QED BY <2>1, <2>2, <2>3, <2>4, <2>5, <2>6, <2>7, <2>8 DEF Rest
<1> QED BY <1>3, <1>4, <1>5, <1>6, <1>7, <1>8, <1>9, <1>10 DEF IInv

LEMMA ApplyKeeps ==
  ASSUME IInv, Apply
  PROVE  IInv'
<1>1. job.at = "write" /\ job.op \in Enforcer
  BY DEF IInv, TypeOK, JobSet, Ops, Labels, Apply, ComposeAts, LiftAts, EnforceAts, AnswerAts,
     Enforcer, Asked
<1>2. PICK t, p, f, g, s, u, m :
     /\ m \in Setting
     /\ GoesOn(t, "record") /\ GoesOn(f, "undoWrite") /\ GoesOn(g, "undo")
     /\ Carries(u, "record", s)
     /\ StateHas(s, job.st.bed, job.st.skipped, job.st.dock, job.st.rest, job.st.last, m,
                 job.st.waived)
     /\ p \in Slots
     /\ \/ Went(t)
        \/ WrotePctl(p, t, {f, g})
        \/ Went(u)
  <2>1. PICK m \in Setting : m = Target(job.st)
    BY DueIs, TypeFields DEF IInv
  <2>2. PICK s : /\ s = [job.st EXCEPT !.pending = m] /\ s \in State
                 /\ StateHas(s, job.st.bed, job.st.skipped, job.st.dock, job.st.rest, job.st.last,
                             m, job.st.waived)
    <3>1. StateHas([job.st EXCEPT !.pending = m], job.st.bed, job.st.skipped, job.st.dock,
                   job.st.rest, job.st.last, m, job.st.waived)
      BY StateEdits, TypeFields DEF IInv
    <3> QED BY <3>1 DEF StateHas
  <2>3. PICK u : u = [To("record") EXCEPT !.st.pending = m] /\ Carries(u, "record", s)
    <3>1. PICK u : u = [To("record") EXCEPT !.st = s] /\ Carries(u, "record", s)
      BY <2>2, ToHas DEF IInv, Ats, EnforceAts, ComposeAts
    <3>2. To("record").st = job.st
      BY ToHas DEF IInv, Ats, EnforceAts, ComposeAts, GoesOn, Carries, JobHas
    <3>3. [To("record") EXCEPT !.st.pending = m] = [To("record") EXCEPT !.st = s]
      BY <2>2, <3>2
    <3> QED BY <3>1, <3>3
  <2>4. GoesOn(To("record"), "record") /\ GoesOn(To("undoWrite"), "undoWrite")
        /\ GoesOn(To("undo"), "undo")
    BY ToHas DEF IInv, Ats, EnforceAts, ComposeAts
  <2>5. Slot(m) \in Slots
    BY TodayIs DEF IInv
  <2>6. \/ Went(To("record"))
        \/ WrotePctl(Slot(m), To("record"), {To("undoWrite"), To("undo")})
        \/ Went(u)
    <3>1. Go(To("record")) => Went(To("record"))
      BY GoIs DEF IInv
    <3>2. WritePctl(Slot(m), To("record"), {To("undoWrite"), To("undo")}) =>
              WrotePctl(Slot(m), To("record"), {To("undoWrite"), To("undo")})
      BY WritePctlIs DEF IInv
    <3>3. Fault /\ job' = u /\ UNCHANGED <<disk, pctl, journal, flag, moves, harmed>> /\ Same =>
              Went(u)
      BY DEF Fault, Same, Went, Counted, Around, IInv, TypeOK
    <3>4. \/ Go(To("record"))
          \/ WritePctl(Slot(m), To("record"), {To("undoWrite"), To("undo")})
          \/ Fault /\ job' = u /\ UNCHANGED <<disk, pctl, journal, flag, moves, harmed>> /\ Same
      BY <2>1, <2>3, Zenon DEF Apply
    <3> QED BY <3>1, <3>2, <3>3, <3>4, Zenon
  <2>7. PICK t, p, f, g : t = To("record") /\ p = Slot(m) /\ f = To("undoWrite") /\ g = To("undo")
    OBVIOUS
  <2>8. /\ GoesOn(t, "record") /\ GoesOn(f, "undoWrite") /\ GoesOn(g, "undo") /\ p \in Slots
        /\ Went(t) \/ WrotePctl(p, t, {f, g}) \/ Went(u)
    BY <2>4, <2>5, <2>6, <2>7
  <2> QED BY <2>2, <2>3, <2>8
<1>3. TypeOK'
  BY <1>1, <1>2 DEF IInv, TypeOK, Went, WrotePctl, StateHas, JobHas, Carries, GoesOn, Around,
     Counted
<1>4. Labels'
  BY <1>1, <1>2 DEF IInv, Labels, ComposeAts, LiftAts, EnforceAts, AnswerAts, Enforcer, Asked,
     Went, WrotePctl, StateHas, JobHas, Carries, GoesOn, Around, Counted
<1>5. Running'
  BY <1>1, <1>2 DEF IInv, Running, Labels, ComposeAts, LiftAts, EnforceAts, AnswerAts, Enforcer,
     Asked, Went, WrotePctl, StateHas, JobHas, Carries, GoesOn, Around, Counted
<1>6. Loaded'
  BY <1>1, <1>2 DEF IInv, Loaded, Labels, Kept, Active, ComposeAts, LiftAts, EnforceAts,
     AnswerAts, Enforcer, Asked, Went, WrotePctl, StateHas, JobHas, Carries, GoesOn, Around,
     Counted
<1>7. Apart'
  BY <1>1, <1>2, CalmIs DEF StateHas, IInv, Labels, Apart, Plain, Follows, Fresh, Kept, Loaded,
     Target, DueBed, BedDue, ComposeAts, LiftAts, EnforceAts, AnswerAts, Enforcer, Asked, Went,
     WrotePctl, StateHas, DiskHas, JobHas, Carries, GoesOn, Stops, Ends, GivesUp, StopsAfter,
     Around, Counted
<1>8. Fresh'
  BY <1>1, <1>2 DEF IInv, Fresh, Labels, ComposeAts, LiftAts, EnforceAts, AnswerAts, Enforcer,
     Asked, Went, WrotePctl, StateHas, DiskHas, JobHas, Carries, GoesOn, Stops, Ends, GivesUp,
     StopsAfter, Around, Counted
<1>9. Follows'
  BY <1>1, <1>2 DEF IInv, TypeOK, Labels, Follows, Fresh, Apart, Plain, Kept, Loaded, Standing,
     BedDue, DockDue, DueBed, Enters, Target, Today, Gone, Active, Nested, InForce, By,
     ComposeAts, LiftAts, EnforceAts, AnswerAts, Enforcer, Asked, Went, WrotePctl, StateHas,
     DiskHas, JobHas, Carries, GoesOn, Stops, Ends, GivesUp, StopsAfter, Around, Counted
<1>10. ASSUME ~flag', harmed' = {}
       PROVE  Rest'
  <2>0. ~flag /\ harmed = {} /\ Rest /\ Follows /\ Fresh
    BY <1>2, <1>10 DEF IInv, Counted, Went, WrotePctl, StateHas
  <2>1. Journalled'
    BY <1>1, <1>2, <2>0 DEF Rest, Journalled, Sane, Sound, Held, Today, Gone, Enforcer, Went,
       WrotePctl, StateHas, JobHas, Carries, GoesOn, Around, Counted
  <2>2. Owned'
    BY <1>1, <1>2, <2>0 DEF Rest, Owned, Active, Nested, ComposeAts, LiftAts, EnforceAts,
       Enforcer, Asked, Went, WrotePctl, StateHas, JobHas, Carries, GoesOn, Around, Counted
  <2>3. Settled'
    BY <1>1, <1>2, <2>0 DEF Rest, Settled, Fresh, ComposeAts, Enforcer, Went, WrotePctl, StateHas,
       JobHas, Carries, GoesOn, Around, Counted
  <2>4. Taken'
    BY <1>1, <1>2, <2>0 DEF Rest, Taken, Held, Standing, BedDue, DockDue, Enters, Today,
       ComposeAts, Enforcer, Went, WrotePctl, StateHas, JobHas, Carries, GoesOn, Around, Counted
  <2>5. Undone'
    BY <1>1, <1>2, <2>0 DEF Rest, Undone, Follows, Lost, Kept, Standing, BedDue, DockDue, DueBed,
       Enters, Target, Today, Gone, InForce, ComposeAts, Enforcer, Went, WrotePctl, StateHas,
       JobHas, Carries, GoesOn, Around, Counted
  <2>6. Left'
    <3>1. job'.at \in {"record", "undoWrite", "undo"}
      BY <1>2 DEF Went, WrotePctl, GoesOn, Carries, JobHas
    <3> QED BY <3>1 DEF Left
  <2>7. Found'
    BY <1>1, <1>2, <2>0 DEF Rest, Found, Enforcer, Asked, Went, WrotePctl, StateHas, JobHas,
       Carries, GoesOn, Around, Counted
  <2>8. Named'
    BY <1>1, <1>2, <2>0 DEF Rest, Named, Active, ComposeAts, LiftAts, EnforceAts, Enforcer, Went,
       WrotePctl, StateHas, JobHas, Carries, GoesOn, Around, Counted
  <2> QED BY <2>1, <2>2, <2>3, <2>4, <2>5, <2>6, <2>7, <2>8 DEF Rest
<1> QED BY <1>3, <1>4, <1>5, <1>6, <1>7, <1>8, <1>9, <1>10 DEF IInv

LEMMA UndoWriteKeeps ==
  ASSUME IInv, UndoWrite
  PROVE  IInv'
<1>1. job.at = "undoWrite" /\ job.op \in Enforcer
  BY DEF IInv, TypeOK, JobSet, Ops, Labels, UndoWrite, ComposeAts, LiftAts, EnforceAts, AnswerAts,
     Enforcer, Asked
<1>2. PICK t, f : RolledBack(t, f) /\ GoesOn(t, "drop") /\ Stops(f, "drop")
  <2>1. RolledBack(To("drop"), Stopping("drop"))
    BY RollbackIs DEF UndoWrite, IInv
  <2>2. GoesOn(To("drop"), "drop") /\ Stops(Stopping("drop"), "drop")
    BY ToHas, StoppingHas DEF IInv, Ats, EnforceAts
  <2> QED BY <2>1, <2>2
<1>3. TypeOK'
  BY <1>1, <1>2 DEF IInv, TypeOK, RolledBack, Unrolled, Rolled, Halfway, Emptied, JobHas, Carries,
     GoesOn, Stops, Around, Counted, Journals
<1>4. Labels'
  BY <1>1, <1>2 DEF IInv, Labels, ComposeAts, LiftAts, EnforceAts, AnswerAts, Enforcer, Asked,
     RolledBack, Unrolled, Rolled, Halfway, Emptied, JobHas, Carries, GoesOn, Stops, Around,
     Counted
<1>5. Running'
  BY <1>1, <1>2 DEF IInv, Running, Labels, ComposeAts, LiftAts, EnforceAts, AnswerAts, Enforcer,
     Asked, RolledBack, Unrolled, Rolled, Halfway, Emptied, JobHas, Carries, GoesOn, Stops,
     Around, Counted
<1>6. Loaded'
  BY <1>1, <1>2 DEF IInv, Loaded, Labels, Kept, Active, ComposeAts, LiftAts, EnforceAts,
     AnswerAts, Enforcer, Asked, RolledBack, Unrolled, Rolled, Halfway, Emptied, JobHas, Carries,
     GoesOn, Stops, Around, Counted
<1>7. Apart'
  BY <1>1, <1>2, CalmIs DEF IInv, Apart, Plain, StateHas, RolledBack, Unrolled, Rolled, Halfway,
     Emptied, JobHas, Carries, GoesOn, Stops, Ends, GivesUp, StopsAfter
<1>8. Fresh'
  BY <1>1, <1>2 DEF IInv, Fresh, Labels, ComposeAts, LiftAts, EnforceAts, AnswerAts, Enforcer,
     Asked, RolledBack, Unrolled, Rolled, Halfway, Emptied, DiskHas, JobHas, Carries, GoesOn,
     Stops, Ends, GivesUp, StopsAfter, Around, Counted
<1>9. Follows'
  BY <1>1, <1>2 DEF IInv, TypeOK, Labels, Follows, Fresh, Apart, Plain, Kept, Loaded, Standing,
     BedDue, DockDue, DueBed, Enters, Target, Today, Gone, Active, Nested, InForce, By,
     ComposeAts, LiftAts, EnforceAts, AnswerAts, Enforcer, Asked, RolledBack, Unrolled, Rolled,
     Halfway, Emptied, DiskHas, JobHas, Carries, GoesOn, Stops, Ends, GivesUp, StopsAfter, Around,
     Counted
<1>10. ASSUME ~flag', harmed' = {}
       PROVE  Rest'
  <2>0. ~flag /\ harmed = {} /\ Rest /\ Follows /\ Fresh
    BY <1>2, <1>10 DEF IInv, Counted, RolledBack, Unrolled, Rolled, Halfway, Emptied
  <2>a. /\ Unrolled(t) \/ (Rolled(t) /\ journal' = None) \/ Halfway(f)
        /\ flag' = flag /\ Around /\ GoesOn(t, "drop") /\ Stops(f, "drop")
    BY <1>2, <1>10, RollsBack
  <2>1. Journalled'
    <3>1. CASE Unrolled(t)
      BY <1>1, <2>0, <2>a, <3>1, CalmIs DEF Rest, Journalled, Sane, Sound, Held, Gone, Today,
         ComposeAts, LiftAts, EnforceAts, AnswerAts, Enforcer, Asked, Unrolled, JobHas, Carries,
         GoesOn, Stops, Ends, GivesUp, StopsAfter, Around
    <3>2. CASE Rolled(t) /\ journal' = None
      BY <1>1, <2>0, <2>a, <3>2, CalmIs DEF Rest, Journalled, Sane, Sound, Held, Gone, Today,
         ComposeAts, LiftAts, EnforceAts, AnswerAts, Enforcer, Asked, Rolled, JobHas, Carries,
         GoesOn, Stops, Ends, GivesUp, StopsAfter, Around
    <3>3. CASE Halfway(f)
      <4>1. Sane(disk.st)'
        BY <2>0, <2>a, <3>3, CalmIs DEF Rest, Journalled, Sane, Halfway, Around, StateHas
      <4>2. journal # None => Sane(journal.disk.st)' /\ Sound(journal.disk)'
        BY <2>0, <2>a, <3>3 DEF Rest, Journalled, Sane, Sound, Held, Gone, Today, Halfway, Around
      <4>3. job'.at = "stop"
        BY <2>a, <3>3 DEF Halfway, Stops, StopsAfter, JobHas
      <4> QED BY <2>0, <3>3, <4>1, <4>2, <4>3 DEF Rest, Journalled, Halfway
    <3> QED BY <2>a, <3>1, <3>2, <3>3
  <2>2. Owned'
    <3>1. CASE Unrolled(t)
      BY <1>1, <2>0, <2>a, <3>1, CalmIs DEF Rest, Owned, Journalled, Active, Nested, ComposeAts,
         LiftAts, EnforceAts, AnswerAts, Enforcer, Asked, Unrolled, JobHas, Carries, GoesOn,
         Stops, Ends, GivesUp, StopsAfter, Around
    <3>2. CASE Rolled(t) /\ journal' = None
      BY <1>1, <2>0, <2>a, <3>2, CalmIs DEF Rest, Owned, Journalled, Active, Nested, ComposeAts,
         LiftAts, EnforceAts, AnswerAts, Enforcer, Asked, Rolled, JobHas, Carries, GoesOn, Stops,
         Ends, GivesUp, StopsAfter, Around
    <3>3. CASE Halfway(f)
      BY <1>1, <2>0, <2>a, <3>3, CalmIs DEF Rest, Owned, Journalled, Active, Nested, ComposeAts,
         LiftAts, EnforceAts, AnswerAts, Enforcer, Asked, Halfway, StateHas, JobHas, Carries,
         GoesOn, Stops, Ends, GivesUp, StopsAfter, Around
    <3> QED BY <2>a, <3>1, <3>2, <3>3
  <2>3. Settled'
    BY <1>1, <1>2, <1>10, <2>0, CalmIs DEF Rest, Settled, Fresh, ComposeAts, Enforcer, RolledBack,
       Unrolled, Rolled, Halfway, Emptied, JobHas, Carries, GoesOn, Stops, Around, Counted,
       StateHas
  <2>4. Taken'
    BY <1>1, <1>2, <1>10, <2>0, CalmIs DEF Rest, Taken, Held, Standing, BedDue, DockDue, Enters,
       Today, ComposeAts, Enforcer, RolledBack, Unrolled, Rolled, Halfway, Emptied, JobHas,
       Carries, GoesOn, Stops, Around, Counted, StateHas
  <2>5. Undone'
    <3>1. CASE Unrolled(t)
      BY <1>1, <2>0, <2>a, <3>1, CalmIs DEF Rest, IInv, Labels, Undone, Owned, Lost, Enters,
         BedDue, Standing, Gone, Today, ComposeAts, LiftAts, EnforceAts, AnswerAts, Enforcer,
         Asked, Unrolled, JobHas, Carries, GoesOn, Stops, Ends, GivesUp, StopsAfter, Around
    <3>2. CASE Rolled(t) /\ journal' = None
      BY <1>1, <2>0, <2>a, <3>2, CalmIs DEF Rest, IInv, Labels, Undone, Owned, Lost, Enters,
         BedDue, Standing, Gone, Today, ComposeAts, LiftAts, EnforceAts, AnswerAts, Enforcer,
         Asked, Rolled, JobHas, Carries, GoesOn, Stops, Ends, GivesUp, StopsAfter, Around
    <3>3. CASE Halfway(f)
      BY <1>1, <2>0, <2>a, <3>3, CalmIs DEF Rest, IInv, Labels, Undone, Owned, Lost, Enters,
         BedDue, Standing, Gone, Today, ComposeAts, LiftAts, EnforceAts, AnswerAts, Enforcer,
         Asked, Halfway, StateHas, JobHas, Carries, GoesOn, Stops, Ends, GivesUp, StopsAfter,
         Around
    <3> QED BY <2>a, <3>1, <3>2, <3>3
  <2>6. Left'
    <3>1. CASE Unrolled(t)
      BY <1>1, <2>0, <2>a, <3>1, CalmIs DEF Rest, Left, Undone, Owned, DockDue, Today, ComposeAts,
         LiftAts, EnforceAts, AnswerAts, Enforcer, Asked, Unrolled, JobHas, Carries, GoesOn,
         Stops, Ends, GivesUp, StopsAfter, Around
    <3>2. CASE Rolled(t) /\ journal' = None
      BY <1>1, <2>0, <2>a, <3>2, CalmIs DEF Rest, Left, Undone, Owned, DockDue, Today, ComposeAts,
         LiftAts, EnforceAts, AnswerAts, Enforcer, Asked, Rolled, JobHas, Carries, GoesOn, Stops,
         Ends, GivesUp, StopsAfter, Around
    <3>3. CASE Halfway(f)
      BY <1>1, <2>0, <2>a, <3>3, CalmIs DEF Rest, Left, Undone, Owned, DockDue, Today, ComposeAts,
         LiftAts, EnforceAts, AnswerAts, Enforcer, Asked, Halfway, StateHas, JobHas, Carries,
         GoesOn, Stops, Ends, GivesUp, StopsAfter, Around
    <3> QED BY <2>a, <3>1, <3>2, <3>3
  <2>7. Found'
    <3>1. CASE Unrolled(t)
      BY <1>1, <2>0, <2>a, <3>1, CalmIs DEF Rest, Found, Owned, ComposeAts, LiftAts, EnforceAts,
         AnswerAts, Enforcer, Asked, Unrolled, JobHas, Carries, GoesOn, Stops, Ends, GivesUp,
         StopsAfter, Around
    <3>2. CASE Rolled(t) /\ journal' = None
      BY <1>1, <2>0, <2>a, <3>2, CalmIs DEF Rest, Found, Owned, ComposeAts, LiftAts, EnforceAts,
         AnswerAts, Enforcer, Asked, Rolled, JobHas, Carries, GoesOn, Stops, Ends, GivesUp,
         StopsAfter, Around
    <3>3. CASE Halfway(f)
      BY <1>1, <2>0, <2>a, <3>3, CalmIs DEF Rest, Found, Owned, ComposeAts, LiftAts, EnforceAts,
         AnswerAts, Enforcer, Asked, Halfway, StateHas, JobHas, Carries, GoesOn, Stops, Ends,
         GivesUp, StopsAfter, Around
    <3> QED BY <2>a, <3>1, <3>2, <3>3
  <2>8. Named'
    <3>1. CASE Unrolled(t)
      BY <1>1, <2>0, <2>a, <3>1, CalmIs DEF Rest, Named, Owned, Journalled, Active, ComposeAts,
         LiftAts, EnforceAts, AnswerAts, Enforcer, Asked, Unrolled, JobHas, Carries, GoesOn,
         Stops, Ends, GivesUp, StopsAfter, Around
    <3>2. CASE Rolled(t) /\ journal' = None
      BY <1>1, <2>0, <2>a, <3>2, CalmIs DEF Rest, Named, Owned, Journalled, Active, ComposeAts,
         LiftAts, EnforceAts, AnswerAts, Enforcer, Asked, Rolled, JobHas, Carries, GoesOn, Stops,
         Ends, GivesUp, StopsAfter, Around
    <3>3. CASE Halfway(f)
      BY <1>1, <2>0, <2>a, <3>3, CalmIs DEF Rest, Named, Owned, Journalled, Active, ComposeAts,
         LiftAts, EnforceAts, AnswerAts, Enforcer, Asked, Halfway, StateHas, JobHas, Carries,
         GoesOn, Stops, Ends, GivesUp, StopsAfter, Around
    <3> QED BY <2>a, <3>1, <3>2, <3>3
  <2> QED BY <2>1, <2>2, <2>3, <2>4, <2>5, <2>6, <2>7, <2>8 DEF Rest
<1> QED BY <1>3, <1>4, <1>5, <1>6, <1>7, <1>8, <1>9, <1>10 DEF IInv

(* What is dropped would not be put back, or belongs to nothing in force.  *)
LEMMA DropKeeps ==
  ASSUME IInv, Drop
  PROVE  IInv'
<1>1. job.at = "drop" /\ job.op \in Enforcer
  BY DEF IInv, TypeOK, JobSet, Ops, Labels, Drop, ComposeAts, LiftAts, EnforceAts, AnswerAts,
     Enforcer, Asked
<1>2. PICK t : Removed(IF Enters(job.st) THEN None ELSE disk.bed,
                       IF job.in THEN None ELSE disk.eye, disk.dock, t) /\ GivesUp(t)
  <2>1. (IF Enters(job.st) THEN None ELSE disk.bed) \in Snapshot \cup {None}
        /\ (IF job.in THEN None ELSE disk.eye) \in Snapshot \cup {None}
        /\ disk.dock \in Snapshot \cup {None}
    BY TypeFields DEF IInv
  <2>2. Removed(IF Enters(job.st) THEN None ELSE disk.bed, IF job.in THEN None ELSE disk.eye,
                disk.dock, To(After))
    BY <2>1, RemoveIs DEF Drop, IInv
  <2>3. GivesUp(To(After))
    BY AfterIs DEF IInv
  <2> QED BY <2>2, <2>3
<1>3. TypeOK'
  BY <1>1, <1>2 DEF IInv, TypeOK, Removed, DiskHas, JobHas, Carries, GoesOn, Ends, GivesUp,
     Around, Counted
<1>4. Labels'
  BY <1>1, <1>2 DEF IInv, Labels, ComposeAts, LiftAts, EnforceAts, AnswerAts, Enforcer, Asked,
     Removed, DiskHas, JobHas, Carries, GoesOn, Ends, GivesUp, Around, Counted
<1>5. Running'
  BY <1>1, <1>2 DEF IInv, Running, Labels, ComposeAts, LiftAts, EnforceAts, AnswerAts, Enforcer,
     Asked, Removed, DiskHas, JobHas, Carries, GoesOn, Ends, GivesUp, Around, Counted
<1>6. Loaded'
  BY <1>1, <1>2 DEF IInv, Loaded, Labels, Kept, Active, ComposeAts, LiftAts, EnforceAts,
     AnswerAts, Enforcer, Asked, Removed, DiskHas, JobHas, Carries, GoesOn, Ends, GivesUp, Around,
     Counted
<1>7. Apart'
  BY <1>1, <1>2, CalmIs DEF StateHas, IInv, Labels, Apart, Plain, Follows, Fresh, Kept, Loaded,
     Target, DueBed, BedDue, ComposeAts, LiftAts, EnforceAts, AnswerAts, Enforcer, Asked, Removed,
     DiskHas, JobHas, Carries, GoesOn, Stops, Ends, GivesUp, StopsAfter, Around, Counted
<1>8. Fresh'
  BY <1>1, <1>2 DEF IInv, Fresh, Labels, ComposeAts, LiftAts, EnforceAts, AnswerAts, Enforcer,
     Asked, Removed, DiskHas, JobHas, Carries, GoesOn, Stops, Ends, GivesUp, StopsAfter, Around,
     Counted
<1>9. Follows'
  BY <1>1, <1>2 DEF IInv, TypeOK, Labels, Follows, Fresh, Apart, Plain, Kept, Loaded, Standing,
     BedDue, DockDue, DueBed, Enters, Target, Today, Gone, Active, Nested, InForce, By,
     ComposeAts, LiftAts, EnforceAts, AnswerAts, Enforcer, Asked, Removed, DiskHas, JobHas,
     Carries, GoesOn, Stops, Ends, GivesUp, StopsAfter, Around, Counted
<1>10. ASSUME ~flag', harmed' = {}
       PROVE  Rest'
  <2>0. ~flag /\ harmed = {} /\ Rest /\ Follows /\ Fresh
    BY <1>2, <1>10 DEF IInv, Counted, Removed
  <2>1. Journalled'
    BY <1>1, <1>2, <2>0 DEF Rest, Journalled, Undone, Sane, Sound, Held, Lost, Standing, BedDue,
       Enters, Today, Gone, ComposeAts, Enforcer, Removed, DiskHas, JobHas, Carries, GoesOn, Ends,
       GivesUp, Around, Counted
  <2>2. Owned'
    BY <1>1, <1>2, <2>0 DEF Rest, Owned, Standing, BedDue, Enters, Active, Nested, ComposeAts,
       LiftAts, EnforceAts, Enforcer, Asked, Removed, DiskHas, JobHas, Carries, GoesOn, Ends,
       GivesUp, Around, Counted
  <2>3. Settled'
    BY <1>1, <1>2, <2>0 DEF Rest, Settled, Fresh, Standing, BedDue, Enters, ComposeAts, Enforcer,
       Removed, DiskHas, JobHas, Carries, GoesOn, Ends, GivesUp, Around, Counted
  <2>4. Taken'
    BY <1>1, <1>2, <2>0 DEF Rest, Taken, Held, Standing, BedDue, DockDue, Enters, Today,
       ComposeAts, Enforcer, Removed, DiskHas, JobHas, Carries, GoesOn, Ends, GivesUp, Around,
       Counted
  <2>5. Undone'
    BY <1>1, <1>2, <2>0 DEF Rest, Undone, Lost, Standing, BedDue, Enters, Today, Gone, ComposeAts,
       Enforcer, Removed, DiskHas, JobHas, Carries, GoesOn, Ends, GivesUp, Around, Counted
  <2>6. Left'
    BY <1>1, <1>2, <2>0 DEF Rest, Left, Owned, Standing, BedDue, DockDue, Enters, Today, Active,
       Nested, ComposeAts, LiftAts, EnforceAts, Enforcer, Asked, Removed, DiskHas, JobHas,
       Carries, GoesOn, Ends, GivesUp, Around, Counted
  <2>7. Found'
    BY <1>1, <1>2, <2>0 DEF Rest, Found, Standing, BedDue, Enters, Enforcer, Asked, Removed,
       DiskHas, JobHas, Carries, GoesOn, Ends, GivesUp, Around, Counted
  <2>8. Named'
    BY <1>1, <1>2, <2>0 DEF Rest, Named, Standing, BedDue, Enters, Active, ComposeAts, LiftAts,
       EnforceAts, Enforcer, Removed, DiskHas, JobHas, Carries, GoesOn, Ends, GivesUp, Around,
       Counted
  <2> QED BY <2>1, <2>2, <2>3, <2>4, <2>5, <2>6, <2>7, <2>8 DEF Rest
<1> QED BY <1>3, <1>4, <1>5, <1>6, <1>7, <1>8, <1>9, <1>10 DEF IInv

(* The new state has the snapshots that were taken on the way.             *)
LEMMA RecordKeeps ==
  ASSUME IInv, Record
  PROVE  IInv'
<1>1. job.at = "record" /\ job.op \in Enforcer
  BY DEF IInv, TypeOK, JobSet, Ops, Labels, Record, ComposeAts, LiftAts, EnforceAts, AnswerAts,
     Enforcer, Asked
<1>2. PICK d, t, f, s, g :
     /\ Wrote(d, t, f) \/ Loses(g, f)
     /\ DiskHas(d, s, disk.on, disk.bed, disk.eye, disk.dock)
     /\ DiskHas(g, Calm, disk.on, disk.bed, disk.eye, disk.dock)
     /\ StateHas(Calm, None, None, FALSE, None, None, None, None)
     /\ StateHas(s, DueBed(job.st), job.st.skipped, DockDue(job.st), job.st.rest,
                 <<Today, Target(job.st)>>, job.st.pending, job.st.waived)
     /\ GoesOn(t, "forget") /\ GoesOn(f, "undo")
  <2>1. \/ Wrote([disk EXCEPT !.st = Recorded(job.st)], To("forget"), To("undo"))
        \/ Loses([disk EXCEPT !.st = Calm], To("undo"))
    BY WriteFileIs DEF Record, IInv
  <2>2. StateHas(Recorded(job.st), DueBed(job.st), job.st.skipped, DockDue(job.st), job.st.rest,
                 <<Today, Target(job.st)>>, job.st.pending, job.st.waived)
    BY RecordedIs, TypeFields DEF IInv
  <2>3. DiskHas([disk EXCEPT !.st = Recorded(job.st)], Recorded(job.st), disk.on, disk.bed,
                disk.eye, disk.dock)
    BY <2>2, DiskEdits DEF IInv, StateHas
  <2>4. GoesOn(To("forget"), "forget") /\ GoesOn(To("undo"), "undo")
    BY ToHas DEF IInv, Ats, EnforceAts
  <2> QED BY <2>1, <2>2, <2>3, <2>4, LostFiles DEF IInv
<1>3. TypeOK'
  BY <1>1, <1>2 DEF IInv, TypeOK, Wrote, Loses, StateHas, DiskHas, JobHas, Carries, GoesOn,
     Around, Counted
<1>4. Labels'
  BY <1>1, <1>2 DEF IInv, Labels, ComposeAts, LiftAts, EnforceAts, AnswerAts, Enforcer, Asked,
     Wrote, Loses, StateHas, DiskHas, JobHas, Carries, GoesOn, Around, Counted
<1>5. Running'
  BY <1>1, <1>2 DEF IInv, Running, Labels, ComposeAts, LiftAts, EnforceAts, AnswerAts, Enforcer,
     Asked, Wrote, Loses, StateHas, DiskHas, JobHas, Carries, GoesOn, Around, Counted
<1>6. Loaded'
  BY <1>1, <1>2 DEF IInv, Loaded, Labels, Kept, Today, Active, ComposeAts, LiftAts, EnforceAts,
     AnswerAts, Enforcer, Asked, Wrote, Loses, StateHas, DiskHas, JobHas, Carries, GoesOn, Around,
     Counted
<1>7. Apart'
  BY <1>1, <1>2, CalmIs DEF StateHas, IInv, Labels, Apart, Plain, Follows, Fresh, Kept, Loaded,
     Target, DueBed, BedDue, ComposeAts, LiftAts, EnforceAts, AnswerAts, Enforcer, Asked, Wrote,
     Loses, StateHas, DiskHas, JobHas, Carries, GoesOn, Stops, Ends, GivesUp, StopsAfter, Around,
     Counted
<1>8. Fresh'
  BY <1>1, <1>2 DEF IInv, Fresh, Labels, ComposeAts, LiftAts, EnforceAts, AnswerAts, Enforcer,
     Asked, Wrote, Loses, StateHas, DiskHas, JobHas, Carries, GoesOn, Stops, Ends, GivesUp,
     StopsAfter, Around, Counted
<1>9. Follows'
  <2>1. \/ GoesOn(job', "undo")
        \/ /\ GoesOn(job', "forget") /\ disk'.st.dock = DockDue(job.st)
           /\ disk'.st.rest = job.st.rest
           /\ disk'.on = disk.on
    BY <1>2 DEF Wrote, Loses, DiskHas, StateHas
  <2>2. job.out => job.st.rest = None
    BY <1>1 DEF IInv, Follows, ComposeAts
  <2>3. job'.st = job.st /\ job'.out = job.out
    BY <2>1 DEF GoesOn, Carries, JobHas
  <2>4. CASE GoesOn(job', "undo")
    BY <2>4 DEF Follows, ComposeAts, LiftAts, GoesOn, Carries, JobHas
  <2>5. CASE /\ GoesOn(job', "forget") /\ disk'.st.dock = DockDue(job.st)
             /\ disk'.st.rest = job.st.rest
             /\ disk'.on = disk.on
    <3>1. DockDue(job.st)' <=> DockDue(job.st)
      BY <1>2, <2>3, <2>5 DEF Around, DockDue, Today, Wrote, Loses
    <3>2. job'.at = "forget" /\ (disk'.st.dock => DockDue(job.st))
          /\ (job'.out => disk'.st.rest = None)
      BY <2>2, <2>3, <2>5 DEF GoesOn, Carries, JobHas
    <3>3. (disk'.st.dock => DockDue(job.st)')
      BY <3>1, <3>2
    <3> QED BY <3>2, <3>3 DEF Follows, ComposeAts, LiftAts
  <2> QED BY <2>1, <2>4, <2>5
<1>10. ASSUME ~flag', harmed' = {}
       PROVE  Rest'
  <2>0. ~flag /\ harmed = {} /\ Rest /\ Follows /\ Fresh
    BY <1>2, <1>10 DEF IInv, Counted, Wrote, Loses, StateHas
  <2>1. Journalled'
    <3>1. CASE disk' = disk \/ disk' = g
      BY <1>1, <1>2, <2>0, <3>1 DEF IInv, Rest, Journalled, Owned, Sane, Sound, Gone, Today,
         Wrote, Loses, StateHas, DiskHas, GoesOn, Carries, JobHas, Around
    <3>2. CASE disk' = d /\ GoesOn(job', "forget")
      <4>1. Sane(s)
        BY <1>1, <2>0, <1>2, TodayIs, GoneIs, TimeLineAssumption DEF IInv, TypeOK, Rest,
           Journalled, Sane, Follows, Kept, StateHas, Target, DueBed, BedDue, Standing,
           ComposeAts, Enforcer
      <4>2. Sound(d)
        BY <1>1, <1>2, <2>0, DueIs, TypeFields DEF IInv, Labels, Rest, Journalled, Owned, Sound,
           Held, Follows, Taken, Enters, DueBed, Kept, StateHas, DiskHas, ComposeAts, Enforcer
      <4> QED BY <1>1, <1>2, <2>0, <3>2, <4>1, <4>2 DEF Rest, Journalled, Owned, Sane, Sound,
         Gone, Today, DiskHas, Wrote, Loses, Around, GoesOn, Carries, JobHas
    <3> QED BY <1>2, <3>1, <3>2 DEF Wrote, Loses
  <2>2. Owned'
    BY <1>1, <1>2, <1>10, <2>0 DEF Rest, Owned, Standing, BedDue, DockDue, DueBed, Target, Today,
       Active, Nested, ComposeAts, LiftAts, EnforceAts, Enforcer, Asked, Wrote, Loses, StateHas,
       DiskHas, JobHas, Carries, GoesOn, Around, Counted
  <2>3. Settled'
    BY <1>1, <1>2, <1>10, <2>0 DEF Rest, Settled, Fresh, Standing, BedDue, DockDue, DueBed,
       Target, Today, ComposeAts, Enforcer, Wrote, Loses, StateHas, DiskHas, JobHas, Carries,
       GoesOn, Around, Counted
  <2>4. Taken'
    BY <1>1, <1>2, <1>10, <2>0 DEF Rest, Taken, Held, Standing, BedDue, DockDue, DueBed, Enters,
       Target, Today, ComposeAts, Enforcer, Wrote, Loses, StateHas, DiskHas, JobHas, Carries,
       GoesOn, Around, Counted
  <2>5. Undone'
    BY <1>1, <1>2, <1>10, <2>0 DEF Rest, Undone, Lost, Standing, BedDue, DockDue, DueBed, Enters,
       Target, Today, Gone, ComposeAts, Enforcer, Wrote, Loses, StateHas, DiskHas, JobHas,
       Carries, GoesOn, Around, Counted
  <2>6. Left'
    BY <1>1, <1>2, <1>10, <2>0 DEF Rest, Left, Standing, BedDue, DockDue, DueBed, Target, Today,
       Enforcer, Wrote, Loses, StateHas, DiskHas, JobHas, Carries, GoesOn, Around, Counted
  <2>7. Found'
    BY <1>1, <1>2, <1>10, <2>0 DEF Rest, Found, Owned, Standing, BedDue, DockDue, DueBed, Target,
       Today, Active, Nested, ComposeAts, LiftAts, EnforceAts, Enforcer, Asked, Wrote, Loses,
       StateHas, DiskHas, JobHas, Carries, GoesOn, Around, Counted
  <2>8. Named'
    BY <1>1, <1>2, <1>10, <2>0 DEF Rest, Named, Standing, BedDue, DockDue, DueBed, Target, Today,
       Active, ComposeAts, LiftAts, EnforceAts, Enforcer, Wrote, Loses, StateHas, DiskHas, JobHas,
       Carries, GoesOn, Around, Counted
  <2> QED BY <2>1, <2>2, <2>3, <2>4, <2>5, <2>6, <2>7, <2>8 DEF Rest
<1> QED BY <1>3, <1>4, <1>5, <1>6, <1>7, <1>8, <1>9, <1>10 DEF IInv

LEMMA ForgetKeeps ==
  ASSUME IInv, Forget
  PROVE  IInv'
<1>1. job.at = "forget" /\ job.op \in Enforcer
  BY DEF IInv, TypeOK, JobSet, Ops, Labels, Forget, ComposeAts, LiftAts, EnforceAts, AnswerAts,
     Enforcer, Asked
<1>2. PICK t :
     /\ Removed(disk.bed, IF job.out THEN None ELSE disk.eye,
                IF DockDue(job.st) THEN disk.dock ELSE None, t)
     /\ \/ job.op = "tick" /\ job.st.pending = None /\ GoesOn(t, "close")
        \/ ~(job.op = "tick" /\ job.st.pending = None) /\ GivesUp(t)
  <2>1. /\ disk.bed \in Snapshot \cup {None}
        /\ (IF job.out THEN None ELSE disk.eye) \in Snapshot \cup {None}
        /\ (IF DockDue(job.st) THEN disk.dock ELSE None) \in Snapshot \cup {None}
    BY TypeFields DEF IInv
  <2>2. PICK t : /\ t = IF job.op = "tick" /\ job.st.pending = None THEN To("close")
                        ELSE To(After)
                 /\ \/ job.op = "tick" /\ job.st.pending = None /\ GoesOn(t, "close")
                    \/ ~(job.op = "tick" /\ job.st.pending = None) /\ GivesUp(t)
    BY ToHas, AfterIs DEF IInv, Ats
  <2>3. Removed(disk.bed, IF job.out THEN None ELSE disk.eye,
                IF DockDue(job.st) THEN disk.dock ELSE None, t)
    BY <2>1, <2>2, RemoveIs DEF Forget, IInv
  <2> QED BY <2>2, <2>3
<1>3. TypeOK'
  BY <1>1, <1>2 DEF IInv, TypeOK, Removed, DiskHas, JobHas, Carries, GoesOn, Ends, GivesUp,
     Around, Counted
<1>4. Labels'
  BY <1>1, <1>2 DEF IInv, Labels, ComposeAts, LiftAts, EnforceAts, AnswerAts, Enforcer, Asked,
     Removed, DiskHas, JobHas, Carries, GoesOn, Ends, GivesUp, Around, Counted
<1>5. Running'
  BY <1>1, <1>2 DEF IInv, Running, Labels, ComposeAts, LiftAts, EnforceAts, AnswerAts, Enforcer,
     Asked, Removed, DiskHas, JobHas, Carries, GoesOn, Ends, GivesUp, Around, Counted
<1>6. Loaded'
  BY <1>1, <1>2 DEF IInv, Loaded, Labels, Kept, Today, Active, ComposeAts, LiftAts, EnforceAts,
     AnswerAts, Enforcer, Asked, Removed, DiskHas, JobHas, Carries, GoesOn, Ends, GivesUp, Around,
     Counted
<1>7. Apart'
  BY <1>1, <1>2, CalmIs DEF StateHas, IInv, Labels, Apart, Plain, Follows, Fresh, Kept, Loaded,
     Target, DueBed, BedDue, ComposeAts, LiftAts, EnforceAts, AnswerAts, Enforcer, Asked, Removed,
     DiskHas, JobHas, Carries, GoesOn, Stops, Ends, GivesUp, StopsAfter, Around, Counted
<1>8. Fresh'
  BY <1>1, <1>2 DEF IInv, Fresh, Labels, ComposeAts, LiftAts, EnforceAts, AnswerAts, Enforcer,
     Asked, Removed, DiskHas, JobHas, Carries, GoesOn, Stops, Ends, GivesUp, StopsAfter, Around,
     Counted
<1>9. Follows'
  BY <1>1, <1>2 DEF IInv, TypeOK, Labels, Follows, Fresh, Apart, Plain, Kept, Loaded, Standing,
     BedDue, DockDue, DueBed, Enters, Target, Today, Gone, Active, Nested, InForce, By,
     ComposeAts, LiftAts, EnforceAts, AnswerAts, Enforcer, Asked, Removed, DiskHas, JobHas,
     Carries, GoesOn, Stops, Ends, GivesUp, StopsAfter, Around, Counted
<1>10. ASSUME ~flag', harmed' = {}
       PROVE  Rest'
  <2>0. ~flag /\ harmed = {} /\ Rest /\ Follows /\ Fresh
    BY <1>2, <1>10 DEF IInv, Counted, Removed
  <2>1. Journalled'
    BY <1>1, <1>2, <2>0 DEF Rest, Journalled, Follows, Sane, Sound, Held, Kept, Standing, BedDue,
       DockDue, DueBed, Enters, Target, Today, Gone, InForce, ComposeAts, Enforcer, Removed,
       DiskHas, JobHas, Carries, GoesOn, Ends, GivesUp, Around, Counted
  <2>2. Owned'
    BY <1>1, <1>2, <2>0 DEF Rest, Owned, DockDue, Today, Active, Nested, ComposeAts, LiftAts,
       EnforceAts, Enforcer, Asked, Removed, DiskHas, JobHas, Carries, GoesOn, Ends, GivesUp,
       Around, Counted
  <2>3. Settled'
    BY <1>1, <1>2, <2>0 DEF Rest, Settled, Fresh, DockDue, Today, ComposeAts, Enforcer, Removed,
       DiskHas, JobHas, Carries, GoesOn, Ends, GivesUp, Around, Counted
  <2>4. Taken'
    BY <1>1, <1>2, <2>0 DEF Rest, Taken, Held, Standing, BedDue, DockDue, Enters, Today,
       ComposeAts, Enforcer, Removed, DiskHas, JobHas, Carries, GoesOn, Ends, GivesUp, Around,
       Counted
  <2>5. Undone'
    BY <1>1, <1>2, <2>0 DEF Rest, Undone, Lost, Standing, BedDue, DockDue, Enters, Today, Gone,
       ComposeAts, Enforcer, Removed, DiskHas, JobHas, Carries, GoesOn, Ends, GivesUp, Around,
       Counted
  <2>6. Left'
    BY <1>1, <1>2, <2>0 DEF Rest, Left, Settled, Fresh, DockDue, Today, ComposeAts, Enforcer,
       Removed, DiskHas, JobHas, Carries, GoesOn, Ends, GivesUp, Around, Counted
  <2>7. Found'
    BY <1>1, <1>2, <2>0 DEF Rest, Found, DockDue, Today, Enforcer, Asked, Removed, DiskHas,
       JobHas, Carries, GoesOn, Ends, GivesUp, Around, Counted
  <2>8. Named'
    BY <1>1, <1>2, <2>0 DEF Rest, Named, DockDue, Today, Active, ComposeAts, LiftAts, EnforceAts,
       Enforcer, Removed, DiskHas, JobHas, Carries, GoesOn, Ends, GivesUp, Around, Counted
  <2> QED BY <2>1, <2>2, <2>3, <2>4, <2>5, <2>6, <2>7, <2>8 DEF Rest
<1> QED BY <1>3, <1>4, <1>5, <1>6, <1>7, <1>8, <1>9, <1>10 DEF IInv

LEMMA CloseKeeps ==
  ASSUME IInv, Close
  PROVE  IInv'
<1>1. job.at = "close" /\ job.op = "tick"
  BY DEF IInv, TypeOK, JobSet, Ops, Labels, Close, ComposeAts, LiftAts, EnforceAts, AnswerAts,
     Enforcer, Asked
<1>2. PICK t : Closed(t) /\ Ends(t)
  <2>1. Closed(Idle)
    BY ClearIs DEF Close, IInv
  <2>2. Ends(Idle)
    BY IdleIs DEF IInv
  <2> QED BY <2>1, <2>2
<1>3. TypeOK'
  BY <1>1, <1>2 DEF IInv, TypeOK, Closed, Emptied, JobHas, Ends, Around, Counted
<1>4. Labels'
  BY <1>1, <1>2 DEF IInv, Labels, ComposeAts, LiftAts, EnforceAts, AnswerAts, Enforcer, Asked,
     Closed, Emptied, JobHas, Ends, Around, Counted
<1>5. Running'
  BY <1>1, <1>2 DEF IInv, Running, Labels, ComposeAts, LiftAts, EnforceAts, AnswerAts, Enforcer,
     Asked, Closed, Emptied, JobHas, Ends, Around, Counted
<1>6. Loaded'
  BY <1>1, <1>2 DEF IInv, Loaded, Labels, Kept, Active, ComposeAts, LiftAts, EnforceAts,
     AnswerAts, Enforcer, Asked, Closed, Emptied, JobHas, Ends, Around, Counted
<1>7. Apart'
  BY <1>1, <1>2, CalmIs DEF StateHas, IInv, Labels, Apart, Plain, Follows, Fresh, Kept, Loaded,
     Target, DueBed, BedDue, ComposeAts, LiftAts, EnforceAts, AnswerAts, Enforcer, Asked, Closed,
     Emptied, DiskHas, JobHas, Carries, GoesOn, Stops, Ends, GivesUp, StopsAfter, Around, Counted
<1>8. Fresh'
  BY <1>1, <1>2 DEF IInv, Fresh, Labels, ComposeAts, LiftAts, EnforceAts, AnswerAts, Enforcer,
     Asked, Closed, Emptied, DiskHas, JobHas, Carries, GoesOn, Stops, Ends, GivesUp, StopsAfter,
     Around, Counted
<1>9. Follows'
  BY <1>1, <1>2 DEF IInv, TypeOK, Labels, Follows, Fresh, Apart, Plain, Kept, Loaded, Standing,
     BedDue, DockDue, DueBed, Enters, Target, Today, Gone, Active, Nested, InForce, By,
     ComposeAts, LiftAts, EnforceAts, AnswerAts, Enforcer, Asked, Closed, Emptied, DiskHas,
     JobHas, Carries, GoesOn, Stops, Ends, GivesUp, StopsAfter, Around, Counted
<1>10. ASSUME ~flag', harmed' = {}
       PROVE  Rest'
  <2>0. ~flag /\ harmed = {} /\ Rest /\ Follows /\ Fresh
    BY <1>2, <1>10 DEF IInv, Counted, Closed, Emptied
  <2>1. Journalled'
    BY <1>1, <1>2, <1>10, <2>0, CalmIs DEF IInv, Labels, Rest, Journalled, Settled, Fresh, Sane,
       Sound, Held, Today, Gone, ComposeAts, LiftAts, EnforceAts, AnswerAts, Enforcer, Asked,
       Closed, Emptied, JobHas, Ends, Around, Counted, StateHas
  <2>2. Owned'
    BY <1>1, <1>2, <1>10, <2>0, CalmIs DEF Rest, Owned, Active, Nested, ComposeAts, LiftAts,
       EnforceAts, Enforcer, Asked, Closed, Emptied, JobHas, Ends, Around, Counted, StateHas
  <2>3. Settled'
    BY <1>1, <1>2, <1>10, <2>0, CalmIs DEF Rest, Settled, Fresh, ComposeAts, Enforcer, Closed,
       Emptied, JobHas, Ends, Around, Counted, StateHas
  <2>4. Taken'
    BY <1>1, <1>2, <1>10, <2>0, CalmIs DEF Rest, Taken, Held, Standing, BedDue, DockDue, Enters,
       Today, ComposeAts, Enforcer, Closed, Emptied, JobHas, Ends, Around, Counted, StateHas
  <2>5. Undone'
    BY <1>1, <1>2, <1>10, <2>0, CalmIs DEF Rest, Undone, Lost, Standing, BedDue, Enters, Today,
       Gone, ComposeAts, Enforcer, Closed, Emptied, JobHas, Ends, Around, Counted, StateHas
  <2>6. Left'
    BY <1>1, <1>2, <1>10, <2>0, CalmIs DEF Rest, Left, DockDue, Today, Closed, Emptied, JobHas,
       Ends, Around, Counted, StateHas
  <2>7. Found'
    BY <1>1, <1>2, <1>10, <2>0, CalmIs DEF Rest, Found, Asked, Closed, Emptied, JobHas, Ends,
       Around, Counted, StateHas
  <2>8. Named'
    BY <1>1, <1>2, <1>10, <2>0, CalmIs DEF Rest, Named, Active, ComposeAts, LiftAts, EnforceAts,
       Closed, Emptied, JobHas, Ends, Around, Counted, StateHas
  <2> QED BY <2>1, <2>2, <2>3, <2>4, <2>5, <2>6, <2>7, <2>8 DEF Rest
<1> QED BY <1>3, <1>4, <1>5, <1>6, <1>7, <1>8, <1>9, <1>10 DEF IInv

LEMMA UndoKeeps ==
  ASSUME IInv, Undo
  PROVE  IInv'
<1>1. job.at = "undo" /\ job.op \in {"tick", "waive", "clear", "rest"}
  BY DEF IInv, TypeOK, JobSet, Ops, Labels, Undo, ComposeAts, LiftAts, EnforceAts, AnswerAts,
     Enforcer, Asked
<1>2. PICK t, f : RolledBack(t, f) /\ GivesUp(t) /\ StopsAfter(f)
  <2>1. RolledBack(To(After), Stopping(After))
    BY RollbackIs DEF Undo, IInv
  <2>2. GivesUp(To(After)) /\ StopsAfter(Stopping(After))
    BY AfterIs DEF IInv
  <2> QED BY <2>1, <2>2
<1>3. TypeOK'
  BY <1>1, <1>2 DEF IInv, TypeOK, RolledBack, Unrolled, Rolled, Halfway, Emptied, JobHas, Carries,
     GoesOn, Stops, Ends, GivesUp, StopsAfter, Around, Counted, Journals
<1>4. Labels'
  BY <1>1, <1>2 DEF IInv, Labels, ComposeAts, LiftAts, EnforceAts, AnswerAts, Enforcer, Asked,
     RolledBack, Unrolled, Rolled, Halfway, Emptied, JobHas, Carries, GoesOn, Stops, Ends,
     GivesUp, StopsAfter, Around, Counted
<1>5. Running'
  BY <1>1, <1>2 DEF IInv, Running, Labels, ComposeAts, LiftAts, EnforceAts, AnswerAts, Enforcer,
     Asked, RolledBack, Unrolled, Rolled, Halfway, Emptied, JobHas, Carries, GoesOn, Stops, Ends,
     GivesUp, StopsAfter, Around, Counted
<1>6. Loaded'
  BY <1>1, <1>2 DEF IInv, Loaded, Labels, Kept, Active, ComposeAts, LiftAts, EnforceAts,
     AnswerAts, Enforcer, Asked, RolledBack, Unrolled, Rolled, Halfway, Emptied, JobHas, Carries,
     GoesOn, Stops, Ends, GivesUp, StopsAfter, Around, Counted
<1>7. Apart'
  BY <1>1, <1>2, CalmIs DEF IInv, Apart, Plain, StateHas, RolledBack, Unrolled, Rolled, Halfway,
     Emptied, JobHas, Carries, GoesOn, Stops, Ends, GivesUp, StopsAfter
<1>8. Fresh'
  BY <1>1, <1>2 DEF IInv, Fresh, Labels, ComposeAts, LiftAts, EnforceAts, AnswerAts, Enforcer,
     Asked, RolledBack, Unrolled, Rolled, Halfway, Emptied, DiskHas, JobHas, Carries, GoesOn,
     Stops, Ends, GivesUp, StopsAfter, Around, Counted
<1>9. Follows'
  BY <1>1, <1>2 DEF IInv, TypeOK, Labels, Follows, Fresh, Apart, Plain, Kept, Loaded, Standing,
     BedDue, DockDue, DueBed, Enters, Target, Today, Gone, Active, Nested, InForce, By,
     ComposeAts, LiftAts, EnforceAts, AnswerAts, Enforcer, Asked, RolledBack, Unrolled, Rolled,
     Halfway, Emptied, DiskHas, JobHas, Carries, GoesOn, Stops, Ends, GivesUp, StopsAfter, Around,
     Counted
<1>10. ASSUME ~flag', harmed' = {}
       PROVE  Rest'
  <2>0. ~flag /\ harmed = {} /\ Rest /\ Follows /\ Fresh
    BY <1>2, <1>10 DEF IInv, Counted, RolledBack, Unrolled, Rolled, Halfway, Emptied
  <2>a. /\ Unrolled(t) \/ (Rolled(t) /\ journal' = None) \/ Halfway(f)
        /\ flag' = flag /\ Around /\ GivesUp(t) /\ StopsAfter(f)
    BY <1>2, <1>10, RollsBack
  <2>1. Journalled'
    <3>1. CASE Unrolled(t)
      BY <1>1, <2>0, <2>a, <3>1, CalmIs DEF Rest, Journalled, Sane, Sound, Held, Gone, Today,
         ComposeAts, LiftAts, EnforceAts, AnswerAts, Enforcer, Asked, Unrolled, JobHas, Carries,
         GoesOn, Stops, Ends, GivesUp, StopsAfter, Around
    <3>2. CASE Rolled(t) /\ journal' = None
      BY <1>1, <2>0, <2>a, <3>2, CalmIs DEF Rest, Journalled, Sane, Sound, Held, Gone, Today,
         ComposeAts, LiftAts, EnforceAts, AnswerAts, Enforcer, Asked, Rolled, JobHas, Carries,
         GoesOn, Stops, Ends, GivesUp, StopsAfter, Around
    <3>3. CASE Halfway(f)
      <4>1. Sane(disk.st)'
        BY <2>0, <2>a, <3>3, CalmIs DEF Rest, Journalled, Sane, Halfway, Around, StateHas
      <4>2. journal # None => Sane(journal.disk.st)' /\ Sound(journal.disk)'
        BY <2>0, <2>a, <3>3 DEF Rest, Journalled, Sane, Sound, Held, Gone, Today, Halfway, Around
      <4>3. job'.at = "stop"
        BY <2>a, <3>3 DEF Halfway, Stops, StopsAfter, JobHas
      <4> QED BY <2>0, <3>3, <4>1, <4>2, <4>3 DEF Rest, Journalled, Halfway
    <3> QED BY <2>a, <3>1, <3>2, <3>3
  <2>2. Owned'
    <3>1. CASE Unrolled(t)
      BY <1>1, <2>0, <2>a, <3>1, CalmIs DEF Rest, Owned, Journalled, Active, Nested, ComposeAts,
         LiftAts, EnforceAts, AnswerAts, Enforcer, Asked, Unrolled, JobHas, Carries, GoesOn,
         Stops, Ends, GivesUp, StopsAfter, Around
    <3>2. CASE Rolled(t) /\ journal' = None
      BY <1>1, <2>0, <2>a, <3>2, CalmIs DEF Rest, Owned, Journalled, Active, Nested, ComposeAts,
         LiftAts, EnforceAts, AnswerAts, Enforcer, Asked, Rolled, JobHas, Carries, GoesOn, Stops,
         Ends, GivesUp, StopsAfter, Around
    <3>3. CASE Halfway(f)
      BY <1>1, <2>0, <2>a, <3>3, CalmIs DEF Rest, Owned, Journalled, Active, Nested, ComposeAts,
         LiftAts, EnforceAts, AnswerAts, Enforcer, Asked, Halfway, StateHas, JobHas, Carries,
         GoesOn, Stops, Ends, GivesUp, StopsAfter, Around
    <3> QED BY <2>a, <3>1, <3>2, <3>3
  <2>3. Settled'
    BY <1>1, <1>2, <1>10, <2>0, CalmIs DEF Rest, Settled, Fresh, ComposeAts, Enforcer, RolledBack,
       Unrolled, Rolled, Halfway, Emptied, JobHas, Carries, GoesOn, Stops, Ends, GivesUp,
       StopsAfter, Around, Counted, StateHas
  <2>4. Taken'
    BY <1>1, <1>2, <1>10, <2>0, CalmIs DEF Rest, Taken, Held, Standing, BedDue, DockDue, Enters,
       Today, ComposeAts, Enforcer, RolledBack, Unrolled, Rolled, Halfway, Emptied, JobHas,
       Carries, GoesOn, Stops, Ends, GivesUp, StopsAfter, Around, Counted, StateHas
  <2>5. Undone'
    <3>1. CASE Unrolled(t)
      BY <1>1, <2>0, <2>a, <3>1, CalmIs DEF Rest, IInv, Labels, Undone, Owned, Lost, Enters,
         BedDue, Standing, Gone, Today, ComposeAts, LiftAts, EnforceAts, AnswerAts, Enforcer,
         Asked, Unrolled, JobHas, Carries, GoesOn, Stops, Ends, GivesUp, StopsAfter, Around
    <3>2. CASE Rolled(t) /\ journal' = None
      BY <1>1, <2>0, <2>a, <3>2, CalmIs DEF Rest, IInv, Labels, Undone, Owned, Lost, Enters,
         BedDue, Standing, Gone, Today, ComposeAts, LiftAts, EnforceAts, AnswerAts, Enforcer,
         Asked, Rolled, JobHas, Carries, GoesOn, Stops, Ends, GivesUp, StopsAfter, Around
    <3>3. CASE Halfway(f)
      BY <1>1, <2>0, <2>a, <3>3, CalmIs DEF Rest, IInv, Labels, Undone, Owned, Lost, Enters,
         BedDue, Standing, Gone, Today, ComposeAts, LiftAts, EnforceAts, AnswerAts, Enforcer,
         Asked, Halfway, StateHas, JobHas, Carries, GoesOn, Stops, Ends, GivesUp, StopsAfter,
         Around
    <3> QED BY <2>a, <3>1, <3>2, <3>3
  <2>6. Left'
    <3>1. CASE Unrolled(t)
      BY <1>1, <2>0, <2>a, <3>1, CalmIs DEF Rest, Left, Undone, Owned, DockDue, Today, ComposeAts,
         LiftAts, EnforceAts, AnswerAts, Enforcer, Asked, Unrolled, JobHas, Carries, GoesOn,
         Stops, Ends, GivesUp, StopsAfter, Around
    <3>2. CASE Rolled(t) /\ journal' = None
      BY <1>1, <2>0, <2>a, <3>2, CalmIs DEF Rest, Left, Undone, Owned, DockDue, Today, ComposeAts,
         LiftAts, EnforceAts, AnswerAts, Enforcer, Asked, Rolled, JobHas, Carries, GoesOn, Stops,
         Ends, GivesUp, StopsAfter, Around
    <3>3. CASE Halfway(f)
      BY <1>1, <2>0, <2>a, <3>3, CalmIs DEF Rest, Left, Undone, Owned, DockDue, Today, ComposeAts,
         LiftAts, EnforceAts, AnswerAts, Enforcer, Asked, Halfway, StateHas, JobHas, Carries,
         GoesOn, Stops, Ends, GivesUp, StopsAfter, Around
    <3> QED BY <2>a, <3>1, <3>2, <3>3
  <2>7. Found'
    <3>1. CASE Unrolled(t)
      BY <1>1, <2>0, <2>a, <3>1, CalmIs DEF Rest, Found, Owned, ComposeAts, LiftAts, EnforceAts,
         AnswerAts, Enforcer, Asked, Unrolled, JobHas, Carries, GoesOn, Stops, Ends, GivesUp,
         StopsAfter, Around
    <3>2. CASE Rolled(t) /\ journal' = None
      BY <1>1, <2>0, <2>a, <3>2, CalmIs DEF Rest, Found, Owned, ComposeAts, LiftAts, EnforceAts,
         AnswerAts, Enforcer, Asked, Rolled, JobHas, Carries, GoesOn, Stops, Ends, GivesUp,
         StopsAfter, Around
    <3>3. CASE Halfway(f)
      BY <1>1, <2>0, <2>a, <3>3, CalmIs DEF Rest, Found, Owned, ComposeAts, LiftAts, EnforceAts,
         AnswerAts, Enforcer, Asked, Halfway, StateHas, JobHas, Carries, GoesOn, Stops, Ends,
         GivesUp, StopsAfter, Around
    <3> QED BY <2>a, <3>1, <3>2, <3>3
  <2>8. Named'
    <3>1. CASE Unrolled(t)
      BY <1>1, <2>0, <2>a, <3>1, CalmIs DEF Rest, Named, Owned, Journalled, Active, ComposeAts,
         LiftAts, EnforceAts, AnswerAts, Enforcer, Asked, Unrolled, JobHas, Carries, GoesOn,
         Stops, Ends, GivesUp, StopsAfter, Around
    <3>2. CASE Rolled(t) /\ journal' = None
      BY <1>1, <2>0, <2>a, <3>2, CalmIs DEF Rest, Named, Owned, Journalled, Active, ComposeAts,
         LiftAts, EnforceAts, AnswerAts, Enforcer, Asked, Rolled, JobHas, Carries, GoesOn, Stops,
         Ends, GivesUp, StopsAfter, Around
    <3>3. CASE Halfway(f)
      BY <1>1, <2>0, <2>a, <3>3, CalmIs DEF Rest, Named, Owned, Journalled, Active, ComposeAts,
         LiftAts, EnforceAts, AnswerAts, Enforcer, Asked, Halfway, StateHas, JobHas, Carries,
         GoesOn, Stops, Ends, GivesUp, StopsAfter, Around
    <3> QED BY <2>a, <3>1, <3>2, <3>3
  <2> QED BY <2>1, <2>2, <2>3, <2>4, <2>5, <2>6, <2>7, <2>8 DEF Rest
<1> QED BY <1>3, <1>4, <1>5, <1>6, <1>7, <1>8, <1>9, <1>10 DEF IInv

(* Nothing is claimed of a service that has stopped but where its job      *)
(* stands.                                                                 *)
LEMMA StopKeeps ==
  ASSUME IInv, Stop
  PROVE  IInv'
<1>1. job.at = "stop" /\ job.then \in Ats
  BY DEF Stop, IInv, TypeOK, JobSet
<1>2. /\ flag' \in BOOLEAN /\ (flag' => flag' = TRUE) /\ (flag' \/ harmed' # {})
      /\ disk' = disk /\ pctl' = pctl /\ journal' = journal /\ Counted /\ Around
      /\ \/ job.then = "end" /\ Ends(job')
         \/ job.then # "end" /\ GoesOn(job', job.then)
  <2>1. flag' \in BOOLEAN /\ (flag' \/ harmed' # {}) /\ Counted
    <3>1. CASE flag' = TRUE /\ UNCHANGED <<faults, harmed>>
      BY <3>1 DEF Stop, IInv, TypeOK, Counted
    <3>2. CASE Fault /\ flag' \in {flag, FALSE} /\ IF flag' THEN UNCHANGED harmed
                   ELSE Harm("flag")
      <4>a. faults' = faults + 1 /\ flag' \in {flag, FALSE} /\ moves' = moves
        BY <3>2 DEF Stop, Fault
      <4>b. flag' \in BOOLEAN
        BY <4>a, Zenon DEF IInv, TypeOK
      <4>c. faults' \in Nat /\ moves' \in Nat
        BY <4>a DEF IInv, TypeOK
      <4>1. faults' \in Nat /\ moves' \in Nat /\ flag' \in BOOLEAN
        BY <4>b, <4>c
      <4>2. CASE flag'
        <5>1. harmed' = harmed
          BY <3>2, <4>2
        <5> QED BY <4>1, <4>2, <5>1 DEF IInv, TypeOK, Counted
      <4>3. CASE ~flag'
        <5>1. harmed' = harmed \cup {"flag"}
          BY <3>2, <4>3 DEF Harm
        <5>2. harmed' # {} /\ harmed' \in SUBSET {"lost", "flag", "clear"}
          BY <5>1 DEF IInv, TypeOK
        <5> QED BY <4>1, <5>2 DEF Counted
      <4> QED BY <4>2, <4>3
    <3> QED BY <3>1, <3>2 DEF Stop
  <2>2. disk' = disk /\ pctl' = pctl /\ journal' = journal /\ Around /\ job' = To(job.then)
    BY DEF Stop, Same, Around
  <2> QED BY <1>1, <2>1, <2>2, ToHas, ToEnd DEF IInv
<1>3. TypeOK'
  BY <1>1, <1>2 DEF IInv, TypeOK, Counted, Around, Ends, GoesOn, Carries, JobHas
<1>4. Labels'
  BY <1>1, <1>2 DEF IInv, Labels, Enforcer, Asked, EnforceAts, AnswerAts, Around, Ends, GoesOn,
     Carries, JobHas
<1>5. Running'
  BY <1>1, <1>2 DEF IInv, Running, Labels, Enforcer, EnforceAts, ComposeAts, LiftAts, Around,
     Ends, GoesOn, Carries, JobHas
<1>6. Loaded'
  BY <1>1, <1>2 DEF IInv, Loaded, Labels, LiftAts, Around, Ends, GoesOn, Carries, JobHas
<1>7. Apart'
  BY <1>2, CalmIs DEF IInv, Apart, Plain, Ends, GoesOn, Carries, JobHas, StateHas
<1>8. Fresh'
  BY <1>1, <1>2 DEF IInv, Fresh, Labels, Ends, GoesOn, Carries, JobHas
<1>9. Follows'
  BY <1>1, <1>2 DEF IInv, Follows, Labels, Enforcer, ComposeAts, Ends, GoesOn, Carries, JobHas
<1> QED BY <1>2, <1>3, <1>4, <1>5, <1>6, <1>7, <1>8, <1>9 DEF IInv

LEMMA LiftKeeps ==
  ASSUME IInv, Lift
  PROVE  IInv'
<1>1. job.at = "lift" /\ job.op \in {"tick", "waive", "clear", "skip", "disable"}
  BY DEF IInv, TypeOK, JobSet, Ops, Labels, Lift, ComposeAts, LiftAts, EnforceAts, AnswerAts,
     Enforcer, Asked
<1>2. PICK t, f : Began(t, f) /\ GoesOn(t, "lifting") /\ StopsAfter(f)
  <2>1. Began(To("lifting"), Stopping(After))
    BY BeginIs DEF Lift, IInv
  <2>2. GoesOn(To("lifting"), "lifting") /\ StopsAfter(Stopping(After))
    BY ToHas, AfterIs DEF IInv, Ats, EnforceAts, LiftAts
  <2> QED BY <2>1, <2>2
<1>3. TypeOK'
  BY <1>1, <1>2 DEF IInv, TypeOK, Began, Opened, JobHas, Carries, GoesOn, Stops, StopsAfter,
     Around, Counted
<1>4. Labels'
  BY <1>1, <1>2 DEF IInv, Labels, ComposeAts, LiftAts, EnforceAts, AnswerAts, Enforcer, Asked,
     Began, Opened, JobHas, Carries, GoesOn, Stops, StopsAfter, Around, Counted
<1>5. Running'
  BY <1>1, <1>2 DEF IInv, Running, Labels, ComposeAts, LiftAts, EnforceAts, AnswerAts, Enforcer,
     Asked, Began, Opened, JobHas, Carries, GoesOn, Stops, StopsAfter, Around, Counted
<1>6. Loaded'
  BY <1>1, <1>2 DEF IInv, Loaded, Labels, Kept, Active, ComposeAts, LiftAts, EnforceAts,
     AnswerAts, Enforcer, Asked, Began, Opened, JobHas, Carries, GoesOn, Stops, StopsAfter,
     Around, Counted
<1>7. Apart'
  BY <1>1, <1>2, CalmIs DEF StateHas, IInv, Labels, Apart, Plain, Follows, Fresh, Kept, Loaded,
     Target, DueBed, BedDue, ComposeAts, LiftAts, EnforceAts, AnswerAts, Enforcer, Asked, Began,
     Opened, DiskHas, JobHas, Carries, GoesOn, Stops, Ends, GivesUp, StopsAfter, Around, Counted
<1>8. Fresh'
  BY <1>1, <1>2 DEF IInv, Fresh, Labels, ComposeAts, LiftAts, EnforceAts, AnswerAts, Enforcer,
     Asked, Began, Opened, DiskHas, JobHas, Carries, GoesOn, Stops, Ends, GivesUp, StopsAfter,
     Around, Counted
<1>9. Follows'
  BY <1>1, <1>2 DEF IInv, TypeOK, Labels, Follows, Fresh, Apart, Plain, Kept, Loaded, Standing,
     BedDue, DockDue, DueBed, Enters, Target, Today, Gone, Active, Nested, InForce, By,
     ComposeAts, LiftAts, EnforceAts, AnswerAts, Enforcer, Asked, Began, Opened, DiskHas, JobHas,
     Carries, GoesOn, Stops, Ends, GivesUp, StopsAfter, Around, Counted
<1>10. ASSUME ~flag', harmed' = {}
       PROVE  Rest'
  <2>0. ~flag /\ harmed = {} /\ Rest /\ Follows /\ Fresh
    BY <1>2, <1>10 DEF IInv, Counted, Began, Opened
  <2>1. Journalled'
    BY <1>1, <1>2, <2>0 DEF Rest, Journalled, Sane, Sound, Held, Today, Gone, By, Began, Opened,
       JobHas, Carries, GoesOn, Stops, StopsAfter, Around, Counted
  <2>2. Owned'
    BY <1>1, <1>2, <2>0 DEF Rest, Owned, Active, Nested, By, ComposeAts, LiftAts, EnforceAts,
       Enforcer, Asked, Began, Opened, JobHas, Carries, GoesOn, Stops, StopsAfter, Around, Counted
  <2>3. Settled'
    BY <1>1, <1>2, <2>0 DEF Rest, Settled, Fresh, By, ComposeAts, Enforcer, Began, Opened, JobHas,
       Carries, GoesOn, Stops, StopsAfter, Around, Counted
  <2>4. Taken'
    BY <1>1, <1>2, <2>0 DEF Rest, Taken, Held, Standing, BedDue, DockDue, Enters, Today, By,
       ComposeAts, Enforcer, Began, Opened, JobHas, Carries, GoesOn, Stops, StopsAfter, Around,
       Counted
  <2>5. Undone'
    BY <1>1, <1>2, <2>0 DEF Rest, Undone, Lost, Standing, BedDue, Enters, Today, Gone, By,
       ComposeAts, Enforcer, Began, Opened, JobHas, Carries, GoesOn, Stops, StopsAfter, Around,
       Counted
  <2>6. Left'
    BY <1>1, <1>2, <2>0 DEF Rest, Left, DockDue, Today, By, Began, Opened, JobHas, Carries,
       GoesOn, Stops, StopsAfter, Around, Counted
  <2>7. Found'
    BY <1>1, <1>2, <2>0 DEF Rest, Found, By, Asked, Began, Opened, JobHas, Carries, GoesOn, Stops,
       StopsAfter, Around, Counted
  <2>8. Named'
    BY <1>1, <1>2, <2>0 DEF Rest, Named, Active, By, ComposeAts, LiftAts, EnforceAts, Began,
       Opened, JobHas, Carries, GoesOn, Stops, StopsAfter, Around, Counted
  <2> QED BY <2>1, <2>2, <2>3, <2>4, <2>5, <2>6, <2>7, <2>8 DEF Rest
<1> QED BY <1>3, <1>4, <1>5, <1>6, <1>7, <1>8, <1>9, <1>10 DEF IInv

(* The lifting of a window.                                                *)
LEMMA LiftingKeeps ==
  ASSUME IInv, Lifting
  PROVE  IInv'
<1>1. job.at = "lifting" /\ job.op \in {"tick", "waive", "clear", "skip", "disable"}
  BY DEF IInv, TypeOK, JobSet, Ops, Labels, Lifting, ComposeAts, LiftAts, EnforceAts, AnswerAts,
     Enforcer, Asked
<1>2. PICK t, p, f, g :
     /\ GoesOn(t, "lifted") /\ GoesOn(f, "undoLift") /\ StopsAfter(g) /\ p \in Slots
     /\ \/ Went(t)
        \/ WrotePctl(p, t, {f, g})
        \/ WrotePctl(p, t, {g})
  <2>1. GoesOn(To("lifted"), "lifted") /\ GoesOn(To("undoLift"), "undoLift")
        /\ StopsAfter(Stopping(After))
    BY ToHas, AfterIs DEF IInv, Ats, EnforceAts, LiftAts
  <2>2. Slot("blocked") \in Slots /\ Slot("open") \in Slots
    BY TodayIs DEF IInv, Setting
  <2>3. CASE ~Alone(job.st) /\ pctl[Today] = "blocked"
    BY <2>1, <2>2, <2>3, GoIs DEF Lifting, IInv
  <2>4. CASE ~Alone(job.st) /\ pctl[Today] # "blocked"
    <3>1. WrotePctl(Slot("blocked"), To("lifted"), {To("undoLift"), Stopping(After)})
      BY <2>4, WritePctlIs DEF Lifting, IInv
    <3> QED BY <2>1, <2>2, <3>1
  <2>5. CASE Alone(job.st) /\ Today = Day[job.st.bed] /\ disk.bed # None
             /\ disk.bed.win = job.st.bed
    <3>1. WrotePctl(disk.bed.slots, To("lifted"), {Stopping(After)})
      BY <2>5, WritePctlIs DEF Lifting, IInv
    <3>2. disk.bed.slots \in Slots
      BY <2>5, TypeFields DEF IInv, Snapshot
    <3> QED BY <2>1, <3>1, <3>2
  <2>6. CASE Alone(job.st) /\ ~(Today = Day[job.st.bed] /\ disk.bed # None /\ disk.bed.win = job.st.bed)
    <3>1. WrotePctl(Slot("open"), To("lifted"), {To("undoLift"), Stopping(After)})
      BY <2>6, WritePctlIs DEF Lifting, IInv
    <3> QED BY <2>1, <2>2, <3>1
  <2> QED BY <2>3, <2>4, <2>5, <2>6
<1>3. TypeOK'
  BY <1>1, <1>2 DEF IInv, TypeOK, Went, WrotePctl, JobHas, Carries, GoesOn, Stops, StopsAfter,
     Around, Counted
<1>4. Labels'
  BY <1>1, <1>2 DEF IInv, Labels, ComposeAts, LiftAts, EnforceAts, AnswerAts, Enforcer, Asked,
     Went, WrotePctl, JobHas, Carries, GoesOn, Stops, StopsAfter, Around, Counted
<1>5. Running'
  BY <1>1, <1>2 DEF IInv, Running, Labels, ComposeAts, LiftAts, EnforceAts, AnswerAts, Enforcer,
     Asked, Went, WrotePctl, JobHas, Carries, GoesOn, Stops, StopsAfter, Around, Counted
<1>6. Loaded'
  BY <1>1, <1>2 DEF IInv, Loaded, Labels, Kept, Active, ComposeAts, LiftAts, EnforceAts,
     AnswerAts, Enforcer, Asked, Went, WrotePctl, JobHas, Carries, GoesOn, Stops, StopsAfter,
     Around, Counted
<1>7. Apart'
  BY <1>1, <1>2, CalmIs DEF StateHas, IInv, Labels, Apart, Plain, Follows, Fresh, Kept, Loaded,
     Target, DueBed, BedDue, ComposeAts, LiftAts, EnforceAts, AnswerAts, Enforcer, Asked, Went,
     WrotePctl, DiskHas, JobHas, Carries, GoesOn, Stops, Ends, GivesUp, StopsAfter, Around,
     Counted
<1>8. Fresh'
  BY <1>1, <1>2 DEF IInv, Fresh, Labels, ComposeAts, LiftAts, EnforceAts, AnswerAts, Enforcer,
     Asked, Went, WrotePctl, DiskHas, JobHas, Carries, GoesOn, Stops, Ends, GivesUp, StopsAfter,
     Around, Counted
<1>9. Follows'
  BY <1>1, <1>2 DEF IInv, TypeOK, Labels, Follows, Fresh, Apart, Plain, Kept, Loaded, Standing,
     BedDue, DockDue, DueBed, Enters, Target, Today, Gone, Active, Nested, InForce, By,
     ComposeAts, LiftAts, EnforceAts, AnswerAts, Enforcer, Asked, Went, WrotePctl, DiskHas,
     JobHas, Carries, GoesOn, Stops, Ends, GivesUp, StopsAfter, Around, Counted
<1>10. ASSUME ~flag', harmed' = {}
       PROVE  Rest'
  <2>0. ~flag /\ harmed = {} /\ Rest /\ Follows /\ Fresh
    BY <1>2, <1>10 DEF IInv, Counted, Went, WrotePctl
  <2>1. Journalled'
    BY <1>1, <1>2, <2>0 DEF Rest, Journalled, Sane, Sound, Held, Today, Gone, Went, WrotePctl,
       JobHas, Carries, GoesOn, Stops, StopsAfter, Around, Counted
  <2>2. Owned'
    BY <1>1, <1>2, <2>0 DEF Rest, Owned, Active, Nested, ComposeAts, LiftAts, EnforceAts,
       Enforcer, Asked, Went, WrotePctl, JobHas, Carries, GoesOn, Stops, StopsAfter, Around,
       Counted
  <2>3. Settled'
    BY <1>1, <1>2, <2>0 DEF Rest, Settled, Fresh, ComposeAts, Enforcer, Went, WrotePctl, JobHas,
       Carries, GoesOn, Stops, StopsAfter, Around, Counted
  <2>4. Taken'
    BY <1>1, <1>2, <2>0 DEF Rest, Taken, Held, Standing, BedDue, DockDue, Enters, Today,
       ComposeAts, Enforcer, Went, WrotePctl, JobHas, Carries, GoesOn, Stops, StopsAfter, Around,
       Counted
  <2>5. Undone'
    BY <1>1, <1>2, <2>0 DEF Rest, Undone, Lost, Standing, BedDue, Enters, Today, Gone, ComposeAts,
       Enforcer, Went, WrotePctl, JobHas, Carries, GoesOn, Stops, StopsAfter, Around, Counted
  <2>6. Left'
    <3>1. job'.at \in {"lifted", "undoLift", "stop"}
      BY <1>2 DEF Went, WrotePctl, GoesOn, Carries, JobHas, StopsAfter, Stops
    <3> QED BY <3>1 DEF Left
  <2>7. Found'
    BY <1>1, <1>2, <2>0 DEF Rest, Found, Asked, Went, WrotePctl, JobHas, Carries, GoesOn, Stops,
       StopsAfter, Around, Counted
  <2>8. Named'
    BY <1>1, <1>2, <2>0 DEF Rest, Named, Active, ComposeAts, LiftAts, EnforceAts, Went, WrotePctl,
       JobHas, Carries, GoesOn, Stops, StopsAfter, Around, Counted
  <2> QED BY <2>1, <2>2, <2>3, <2>4, <2>5, <2>6, <2>7, <2>8 DEF Rest
<1> QED BY <1>3, <1>4, <1>5, <1>6, <1>7, <1>8, <1>9, <1>10 DEF IInv

LEMMA UndoLiftKeeps ==
  ASSUME IInv, UndoLift
  PROVE  IInv'
<1>1. job.at = "undoLift" /\ job.op \in {"tick", "waive", "clear", "skip", "disable"}
  BY DEF IInv, TypeOK, JobSet, Ops, Labels, UndoLift, ComposeAts, LiftAts, EnforceAts, AnswerAts,
     Enforcer, Asked
<1>2. PICK t, f : RolledBack(t, f) /\ StopsAfter(t) /\ StopsAfter(f)
  <2>1. RolledBack(Stopping(After), Stopping(After))
    BY RollbackIs DEF UndoLift, IInv
  <2>2. StopsAfter(Stopping(After)) /\ StopsAfter(Stopping(After))
    BY AfterIs DEF IInv
  <2> QED BY <2>1, <2>2
<1>3. TypeOK'
  BY <1>1, <1>2 DEF IInv, TypeOK, RolledBack, Unrolled, Rolled, Halfway, Emptied, JobHas, Stops,
     StopsAfter, Around, Counted, Journals
<1>4. Labels'
  BY <1>1, <1>2 DEF IInv, Labels, ComposeAts, LiftAts, EnforceAts, AnswerAts, Enforcer, Asked,
     RolledBack, Unrolled, Rolled, Halfway, Emptied, JobHas, Stops, StopsAfter, Around, Counted
<1>5. Running'
  BY <1>1, <1>2 DEF IInv, Running, Labels, ComposeAts, LiftAts, EnforceAts, AnswerAts, Enforcer,
     Asked, RolledBack, Unrolled, Rolled, Halfway, Emptied, JobHas, Stops, StopsAfter, Around,
     Counted
<1>6. Loaded'
  BY <1>1, <1>2 DEF IInv, Loaded, Labels, Kept, Active, ComposeAts, LiftAts, EnforceAts,
     AnswerAts, Enforcer, Asked, RolledBack, Unrolled, Rolled, Halfway, Emptied, JobHas, Stops,
     StopsAfter, Around, Counted
<1>7. Apart'
  BY <1>1, <1>2, CalmIs DEF IInv, Apart, Plain, StateHas, RolledBack, Unrolled, Rolled, Halfway,
     Emptied, JobHas, Carries, GoesOn, Stops, Ends, GivesUp, StopsAfter
<1>8. Fresh'
  BY <1>1, <1>2 DEF IInv, Fresh, Labels, ComposeAts, LiftAts, EnforceAts, AnswerAts, Enforcer,
     Asked, RolledBack, Unrolled, Rolled, Halfway, Emptied, DiskHas, JobHas, Carries, GoesOn,
     Stops, Ends, GivesUp, StopsAfter, Around, Counted
<1>9. Follows'
  BY <1>1, <1>2 DEF IInv, TypeOK, Labels, Follows, Fresh, Apart, Plain, Kept, Loaded, Standing,
     BedDue, DockDue, DueBed, Enters, Target, Today, Gone, Active, Nested, InForce, By,
     ComposeAts, LiftAts, EnforceAts, AnswerAts, Enforcer, Asked, RolledBack, Unrolled, Rolled,
     Halfway, Emptied, DiskHas, JobHas, Carries, GoesOn, Stops, Ends, GivesUp, StopsAfter, Around,
     Counted
<1>10. ASSUME ~flag', harmed' = {}
       PROVE  Rest'
  <2>0. ~flag /\ harmed = {} /\ Rest /\ Follows /\ Fresh
    BY <1>2, <1>10 DEF IInv, Counted, RolledBack, Unrolled, Rolled, Halfway, Emptied
  <2>a. /\ Unrolled(t) \/ (Rolled(t) /\ journal' = None) \/ Halfway(f)
        /\ flag' = flag /\ Around /\ StopsAfter(t) /\ StopsAfter(f)
    BY <1>2, <1>10, RollsBack
  <2>1. Journalled'
    <3>1. CASE Unrolled(t)
      BY <1>1, <2>0, <2>a, <3>1, CalmIs DEF Rest, Journalled, Sane, Sound, Held, Gone, Today,
         ComposeAts, LiftAts, EnforceAts, AnswerAts, Enforcer, Asked, Unrolled, JobHas, Carries,
         GoesOn, Stops, Ends, GivesUp, StopsAfter, Around
    <3>2. CASE Rolled(t) /\ journal' = None
      BY <1>1, <2>0, <2>a, <3>2, CalmIs DEF Rest, Journalled, Sane, Sound, Held, Gone, Today,
         ComposeAts, LiftAts, EnforceAts, AnswerAts, Enforcer, Asked, Rolled, JobHas, Carries,
         GoesOn, Stops, Ends, GivesUp, StopsAfter, Around
    <3>3. CASE Halfway(f)
      <4>1. Sane(disk.st)'
        BY <2>0, <2>a, <3>3, CalmIs DEF Rest, Journalled, Sane, Halfway, Around, StateHas
      <4>2. journal # None => Sane(journal.disk.st)' /\ Sound(journal.disk)'
        BY <2>0, <2>a, <3>3 DEF Rest, Journalled, Sane, Sound, Held, Gone, Today, Halfway, Around
      <4>3. job'.at = "stop"
        BY <2>a, <3>3 DEF Halfway, Stops, StopsAfter, JobHas
      <4> QED BY <2>0, <3>3, <4>1, <4>2, <4>3 DEF Rest, Journalled, Halfway
    <3> QED BY <2>a, <3>1, <3>2, <3>3
  <2>2. Owned'
    <3>1. CASE Unrolled(t)
      BY <1>1, <2>0, <2>a, <3>1, CalmIs DEF Rest, Owned, Journalled, Active, Nested, ComposeAts,
         LiftAts, EnforceAts, AnswerAts, Enforcer, Asked, Unrolled, JobHas, Carries, GoesOn,
         Stops, Ends, GivesUp, StopsAfter, Around
    <3>2. CASE Rolled(t) /\ journal' = None
      BY <1>1, <2>0, <2>a, <3>2, CalmIs DEF Rest, Owned, Journalled, Active, Nested, ComposeAts,
         LiftAts, EnforceAts, AnswerAts, Enforcer, Asked, Rolled, JobHas, Carries, GoesOn, Stops,
         Ends, GivesUp, StopsAfter, Around
    <3>3. CASE Halfway(f)
      BY <1>1, <2>0, <2>a, <3>3, CalmIs DEF Rest, Owned, Journalled, Active, Nested, ComposeAts,
         LiftAts, EnforceAts, AnswerAts, Enforcer, Asked, Halfway, StateHas, JobHas, Carries,
         GoesOn, Stops, Ends, GivesUp, StopsAfter, Around
    <3> QED BY <2>a, <3>1, <3>2, <3>3
  <2>3. Settled'
    BY <1>1, <1>2, <1>10, <2>0, CalmIs DEF Rest, Settled, Fresh, ComposeAts, Enforcer, RolledBack,
       Unrolled, Rolled, Halfway, Emptied, JobHas, Stops, StopsAfter, Around, Counted, StateHas
  <2>4. Taken'
    BY <1>1, <1>2, <1>10, <2>0, CalmIs DEF Rest, Taken, Held, Standing, BedDue, DockDue, Enters,
       Today, ComposeAts, Enforcer, RolledBack, Unrolled, Rolled, Halfway, Emptied, JobHas, Stops,
       StopsAfter, Around, Counted, StateHas
  <2>5. Undone'
    <3>1. CASE Unrolled(t)
      BY <1>1, <2>0, <2>a, <3>1, CalmIs DEF Rest, IInv, Labels, Undone, Owned, Lost, Enters,
         BedDue, Standing, Gone, Today, ComposeAts, LiftAts, EnforceAts, AnswerAts, Enforcer,
         Asked, Unrolled, JobHas, Carries, GoesOn, Stops, Ends, GivesUp, StopsAfter, Around
    <3>2. CASE Rolled(t) /\ journal' = None
      BY <1>1, <2>0, <2>a, <3>2, CalmIs DEF Rest, IInv, Labels, Undone, Owned, Lost, Enters,
         BedDue, Standing, Gone, Today, ComposeAts, LiftAts, EnforceAts, AnswerAts, Enforcer,
         Asked, Rolled, JobHas, Carries, GoesOn, Stops, Ends, GivesUp, StopsAfter, Around
    <3>3. CASE Halfway(f)
      BY <1>1, <2>0, <2>a, <3>3, CalmIs DEF Rest, IInv, Labels, Undone, Owned, Lost, Enters,
         BedDue, Standing, Gone, Today, ComposeAts, LiftAts, EnforceAts, AnswerAts, Enforcer,
         Asked, Halfway, StateHas, JobHas, Carries, GoesOn, Stops, Ends, GivesUp, StopsAfter,
         Around
    <3> QED BY <2>a, <3>1, <3>2, <3>3
  <2>6. Left'
    <3>1. CASE Unrolled(t)
      BY <1>1, <2>0, <2>a, <3>1, CalmIs DEF Rest, Left, Undone, Owned, DockDue, Today, ComposeAts,
         LiftAts, EnforceAts, AnswerAts, Enforcer, Asked, Unrolled, JobHas, Carries, GoesOn,
         Stops, Ends, GivesUp, StopsAfter, Around
    <3>2. CASE Rolled(t) /\ journal' = None
      BY <1>1, <2>0, <2>a, <3>2, CalmIs DEF Rest, Left, Undone, Owned, DockDue, Today, ComposeAts,
         LiftAts, EnforceAts, AnswerAts, Enforcer, Asked, Rolled, JobHas, Carries, GoesOn, Stops,
         Ends, GivesUp, StopsAfter, Around
    <3>3. CASE Halfway(f)
      BY <1>1, <2>0, <2>a, <3>3, CalmIs DEF Rest, Left, Undone, Owned, DockDue, Today, ComposeAts,
         LiftAts, EnforceAts, AnswerAts, Enforcer, Asked, Halfway, StateHas, JobHas, Carries,
         GoesOn, Stops, Ends, GivesUp, StopsAfter, Around
    <3> QED BY <2>a, <3>1, <3>2, <3>3
  <2>7. Found'
    <3>1. CASE Unrolled(t)
      BY <1>1, <2>0, <2>a, <3>1, CalmIs DEF Rest, Found, Owned, ComposeAts, LiftAts, EnforceAts,
         AnswerAts, Enforcer, Asked, Unrolled, JobHas, Carries, GoesOn, Stops, Ends, GivesUp,
         StopsAfter, Around
    <3>2. CASE Rolled(t) /\ journal' = None
      BY <1>1, <2>0, <2>a, <3>2, CalmIs DEF Rest, Found, Owned, ComposeAts, LiftAts, EnforceAts,
         AnswerAts, Enforcer, Asked, Rolled, JobHas, Carries, GoesOn, Stops, Ends, GivesUp,
         StopsAfter, Around
    <3>3. CASE Halfway(f)
      BY <1>1, <2>0, <2>a, <3>3, CalmIs DEF Rest, Found, Owned, ComposeAts, LiftAts, EnforceAts,
         AnswerAts, Enforcer, Asked, Halfway, StateHas, JobHas, Carries, GoesOn, Stops, Ends,
         GivesUp, StopsAfter, Around
    <3> QED BY <2>a, <3>1, <3>2, <3>3
  <2>8. Named'
    <3>1. CASE Unrolled(t)
      BY <1>1, <2>0, <2>a, <3>1, CalmIs DEF Rest, Named, Owned, Journalled, Active, ComposeAts,
         LiftAts, EnforceAts, AnswerAts, Enforcer, Asked, Unrolled, JobHas, Carries, GoesOn,
         Stops, Ends, GivesUp, StopsAfter, Around
    <3>2. CASE Rolled(t) /\ journal' = None
      BY <1>1, <2>0, <2>a, <3>2, CalmIs DEF Rest, Named, Owned, Journalled, Active, ComposeAts,
         LiftAts, EnforceAts, AnswerAts, Enforcer, Asked, Rolled, JobHas, Carries, GoesOn, Stops,
         Ends, GivesUp, StopsAfter, Around
    <3>3. CASE Halfway(f)
      BY <1>1, <2>0, <2>a, <3>3, CalmIs DEF Rest, Named, Owned, Journalled, Active, ComposeAts,
         LiftAts, EnforceAts, AnswerAts, Enforcer, Asked, Halfway, StateHas, JobHas, Carries,
         GoesOn, Stops, Ends, GivesUp, StopsAfter, Around
    <3> QED BY <2>a, <3>1, <3>2, <3>3
  <2> QED BY <2>1, <2>2, <2>3, <2>4, <2>5, <2>6, <2>7, <2>8 DEF Rest
<1> QED BY <1>3, <1>4, <1>5, <1>6, <1>7, <1>8, <1>9, <1>10 DEF IInv

(* A window that is lifted in a request, where the next one is entered, is *)
(* gone.                                                                   *)
LEMMA LiftedKeeps ==
  ASSUME IInv, Lifted
  PROVE  IInv'
<1>1. job.at = "lifted" /\ job.op \in {"tick", "waive", "clear", "skip", "disable"}
  BY DEF IInv, TypeOK, JobSet, Ops, Labels, Lifted, ComposeAts, LiftAts, EnforceAts, AnswerAts,
     Enforcer, Asked
<1>2. PICK d, t, f, s, g :
     /\ Wrote(d, t, f) \/ Loses(g, f)
     /\ DiskHas(g, Calm, disk.on, disk.bed, disk.eye, disk.dock)
     /\ StateHas(Calm, None, None, FALSE, None, None, None, None)
     /\ DiskHas(d, s, disk.on, disk.bed, disk.eye, disk.dock)
     /\ StateHas(s, None, job.st.skipped, job.st.dock, job.st.rest, None, job.st.pending,
                 job.st.waived)
     /\ Carries(t, "forgetBed", s) /\ StopsAfter(f)
  <2>1. PICK s : /\ s = [job.st EXCEPT !.bed = None, !.last = None] /\ s \in State
                 /\ StateHas(s, None, job.st.skipped, job.st.dock, job.st.rest, None,
                             job.st.pending, job.st.waived)
    <3>1. StateHas([job.st EXCEPT !.bed = None, !.last = None], None, job.st.skipped, job.st.dock,
                   job.st.rest, None, job.st.pending, job.st.waived)
      BY StateEdits, TypeFields DEF IInv
    <3> QED BY <3>1 DEF StateHas
  <2>2. PICK d : d = [disk EXCEPT !.st = s]
             /\ DiskHas(d, s, disk.on, disk.bed, disk.eye, disk.dock)
    BY <2>1, DiskEdits DEF IInv
  <2>3. PICK t : t = [To("forgetBed") EXCEPT !.st = s] /\ Carries(t, "forgetBed", s)
    BY <2>1, ToHas DEF IInv, Ats, EnforceAts, LiftAts
  <2>4. Wrote(d, t, Stopping(After)) \/ Loses([disk EXCEPT !.st = Calm], Stopping(After))
    BY <2>1, <2>2, <2>3, WriteFileIs DEF Lifted, IInv
  <2>5. StopsAfter(Stopping(After))
    BY AfterIs DEF IInv
  <2> QED BY <2>1, <2>2, <2>3, <2>4, <2>5, LostFiles DEF IInv
<1>3. TypeOK'
  BY <1>1, <1>2 DEF IInv, TypeOK, Wrote, Loses, StateHas, DiskHas, JobHas, Carries, Stops,
     StopsAfter, Around, Counted
<1>4. Labels'
  BY <1>1, <1>2 DEF IInv, Labels, ComposeAts, LiftAts, EnforceAts, AnswerAts, Enforcer, Asked,
     Wrote, Loses, StateHas, DiskHas, JobHas, Carries, Stops, StopsAfter, Around, Counted
<1>5. Running'
  BY <1>1, <1>2 DEF IInv, Running, Labels, ComposeAts, LiftAts, EnforceAts, AnswerAts, Enforcer,
     Asked, Wrote, Loses, StateHas, DiskHas, JobHas, Carries, Stops, StopsAfter, Around, Counted
<1>6. Loaded'
  BY <1>1, <1>2 DEF IInv, Loaded, Labels, Kept, Active, ComposeAts, LiftAts, EnforceAts,
     AnswerAts, Enforcer, Asked, Wrote, Loses, StateHas, DiskHas, JobHas, Carries, Stops,
     StopsAfter, Around, Counted
<1>7. Apart'
  BY <1>1, <1>2, CalmIs DEF StateHas, IInv, Labels, Apart, Plain, Follows, Fresh, Kept, Loaded,
     Target, DueBed, BedDue, ComposeAts, LiftAts, EnforceAts, AnswerAts, Enforcer, Asked, Wrote,
     Loses, StateHas, DiskHas, JobHas, Carries, GoesOn, Stops, Ends, GivesUp, StopsAfter, Around,
     Counted
<1>8. Fresh'
  BY <1>1, <1>2 DEF IInv, Fresh, Labels, ComposeAts, LiftAts, EnforceAts, AnswerAts, Enforcer,
     Asked, Wrote, Loses, StateHas, DiskHas, JobHas, Carries, GoesOn, Stops, Ends, GivesUp,
     StopsAfter, Around, Counted
<1>9. Follows'
  BY <1>1, <1>2 DEF IInv, TypeOK, Labels, Follows, Fresh, Apart, Plain, Kept, Loaded, Standing,
     BedDue, DockDue, DueBed, Enters, Target, Today, Gone, Active, Nested, InForce, By,
     ComposeAts, LiftAts, EnforceAts, AnswerAts, Enforcer, Asked, Wrote, Loses, StateHas, DiskHas,
     JobHas, Carries, GoesOn, Stops, Ends, GivesUp, StopsAfter, Around, Counted
<1>10. ASSUME ~flag', harmed' = {}
       PROVE  Rest'
  <2>0. ~flag /\ harmed = {} /\ Rest /\ Follows /\ Fresh
    BY <1>2, <1>10 DEF IInv, Counted, Wrote, Loses, StateHas
  <2>1. Journalled'
    BY <1>1, <1>2, <1>10, <2>0, CalmIs DEF IInv, Rest, Journalled, Settled, Fresh, Follows, Sane,
       Sound, Held, Kept, Loaded, Standing, BedDue, DockDue, DueBed, Enters, Target, Today, Gone,
       Active, InForce, ComposeAts, LiftAts, Enforcer, Wrote, Loses, StateHas, DiskHas, JobHas,
       Carries, Stops, StopsAfter, Around, Counted
  <2>2. Owned'
    BY <1>1, <1>2, <1>10, <2>0, CalmIs DEF Rest, Owned, Active, Nested, ComposeAts, LiftAts,
       EnforceAts, Enforcer, Asked, Wrote, Loses, StateHas, DiskHas, JobHas, Carries, Stops,
       StopsAfter, Around, Counted
  <2>3. Settled'
    BY <1>1, <1>2, <1>10, <2>0, CalmIs DEF Rest, Settled, Fresh, ComposeAts, Enforcer, Wrote,
       Loses, StateHas, DiskHas, JobHas, Carries, Stops, StopsAfter, Around, Counted
  <2>4. Taken'
    BY <1>1, <1>2, <1>10, <2>0, CalmIs DEF Rest, Taken, Held, Standing, BedDue, DockDue, Enters,
       Today, ComposeAts, Enforcer, Wrote, Loses, StateHas, DiskHas, JobHas, Carries, Stops,
       StopsAfter, Around, Counted
  <2>5. Undone'
    <3>1. CASE job'.at = "stop"
      BY <1>2, <3>1 DEF Undone, LiftAts, ComposeAts, EnforceAts
    <3>2. CASE Carries(job', "forgetBed", s) /\ disk'.st = s
      <4>1. journal' = journal /\ job'.op = job.op /\ job'.at = "forgetBed" /\ job'.st = s
            /\ clock' = clock /\ disk'.on = disk.on
        BY <1>2, <3>2 DEF Wrote, Loses, Around, DiskHas, Carries, JobHas
      <4>2. ASSUME journal # None, job.op \in {"waive", "clear"}, Enters(s)'
            PROVE  Lost(journal.disk.st.bed)'
        <5>1. journal.disk.st.bed = disk.st.bed /\ disk.st.bed = job.st.bed /\ job.st.bed # None
              /\ job.st.bed # DueBed(job.st)
          BY <1>1, <2>0, <4>2 DEF Rest, Undone, Follows, Kept, Enforcer
        <5>2. Window[clock] # None /\ DueBed(job.st) = Window[clock]
          BY <1>2, <4>1, <4>2 DEF Enters, DueBed, BedDue, Standing, StateHas
        <5>3. disk.st.bed \in Period /\ Window[disk.st.bed] = disk.st.bed /\ disk.st.bed <= clock
          BY <2>0, <5>1, TypeFields, StateFields DEF IInv, Rest, Journalled, Sane
        <5>4. Gone(disk.st.bed)
          BY <5>1, <5>2, <5>3, GoneIs DEF IInv, TypeOK
        <5> QED BY <4>1, <5>1, <5>4 DEF Lost, Gone, Today
      <4>3. journal # None /\ job.op \in Enforcer =>
                (journal.disk.st.rest # None => s.rest # None)
        BY <1>1, <1>2, <2>0 DEF Rest, Undone, Follows, StateHas
      <4> QED BY <1>1, <3>2, <4>1, <4>2, <4>3 DEF Undone, ComposeAts, LiftAts, Enforcer
    <3> QED BY <1>1, <1>2, <3>1, <3>2 DEF Wrote, Loses, DiskHas, StopsAfter, Stops, JobHas
  <2>6. Left'
    BY <1>1, <1>2, <1>10, <2>0, CalmIs DEF Rest, Left, DockDue, Today, Wrote, Loses, StateHas,
       DiskHas, JobHas, Carries, Stops, StopsAfter, Around, Counted
  <2>7. Found'
    BY <1>1, <1>2, <1>10, <2>0, CalmIs DEF Rest, Found, Owned, Active, Nested, ComposeAts,
       LiftAts, EnforceAts, Enforcer, Asked, Wrote, Loses, StateHas, DiskHas, JobHas, Carries,
       Stops, StopsAfter, Around, Counted
  <2>8. Named'
    BY <1>1, <1>2, <1>10, <2>0, CalmIs DEF Rest, Named, Active, ComposeAts, LiftAts, EnforceAts,
       Wrote, Loses, StateHas, DiskHas, JobHas, Carries, Stops, StopsAfter, Around, Counted
  <2> QED BY <2>1, <2>2, <2>3, <2>4, <2>5, <2>6, <2>7, <2>8 DEF Rest
<1> QED BY <1>3, <1>4, <1>5, <1>6, <1>7, <1>8, <1>9, <1>10 DEF IInv

LEMMA ForgetBedKeeps ==
  ASSUME IInv, ForgetBed
  PROVE  IInv'
<1>1. job.at = "forgetBed" /\ job.op \in {"tick", "waive", "clear", "skip", "disable"}
  BY DEF IInv, TypeOK, JobSet, Ops, Labels, ForgetBed, ComposeAts, LiftAts, EnforceAts, AnswerAts,
     Enforcer, Asked
<1>2. PICK t, l :
     /\ Removed(None, disk.eye, disk.dock, t) /\ GoesOn(t, l)
     /\ \/ job.op = "tick" /\ l = "closeLift"
        \/ job.op \in {"skip", "disable"} /\ l = "keepRules"
        \/ job.op \in {"waive", "clear"} /\ l = "target"
  <2>2. PICK l \in {"closeLift", "keepRules", "target"} :
          /\ l = CASE job.op = "tick" -> "closeLift" [] job.op \in {"skip",
                 "disable"} -> "keepRules" [] OTHER -> "target"
          /\ \/ job.op = "tick" /\ l = "closeLift"
             \/ job.op \in {"skip", "disable"} /\ l = "keepRules"
             \/ job.op \in {"waive", "clear"} /\ l = "target"
    BY <1>1
  <2>3. PICK t : t = To(l) /\ GoesOn(t, l)
    BY <2>2, ToHas DEF IInv, Ats, EnforceAts, ComposeAts
  <2>4. Removed(None, disk.eye, disk.dock, t)
    BY <2>2, <2>3, RemoveIs, TypeFields DEF ForgetBed, IInv
  <2> QED BY <2>2, <2>3, <2>4
<1>3. TypeOK'
  BY <1>1, <1>2 DEF IInv, TypeOK, Removed, DiskHas, JobHas, Carries, GoesOn, Around, Counted
<1>4. Labels'
  BY <1>1, <1>2 DEF IInv, Labels, ComposeAts, LiftAts, EnforceAts, AnswerAts, Enforcer, Asked,
     Removed, DiskHas, JobHas, Carries, GoesOn, Around, Counted
<1>5. Running'
  BY <1>1, <1>2 DEF IInv, Running, Labels, ComposeAts, LiftAts, EnforceAts, AnswerAts, Enforcer,
     Asked, Removed, DiskHas, JobHas, Carries, GoesOn, Around, Counted
<1>6. Loaded'
  BY <1>1, <1>2 DEF IInv, Loaded, Labels, Kept, Active, ComposeAts, LiftAts, EnforceAts,
     AnswerAts, Enforcer, Asked, Removed, DiskHas, JobHas, Carries, GoesOn, Around, Counted
<1>7. Apart'
  BY <1>1, <1>2, CalmIs DEF StateHas, IInv, Labels, Apart, Plain, Follows, Fresh, Kept, Loaded,
     Target, DueBed, BedDue, ComposeAts, LiftAts, EnforceAts, AnswerAts, Enforcer, Asked, Removed,
     DiskHas, JobHas, Carries, GoesOn, Stops, Ends, GivesUp, StopsAfter, Around, Counted
<1>8. Fresh'
  BY <1>1, <1>2 DEF IInv, Fresh, Labels, ComposeAts, LiftAts, EnforceAts, AnswerAts, Enforcer,
     Asked, Removed, DiskHas, JobHas, Carries, GoesOn, Stops, Ends, GivesUp, StopsAfter, Around,
     Counted
<1>9. Follows'
  BY <1>1, <1>2 DEF IInv, TypeOK, Labels, Follows, Fresh, Apart, Plain, Kept, Loaded, Standing,
     BedDue, DockDue, DueBed, Enters, Target, Today, Gone, Active, Nested, InForce, By,
     ComposeAts, LiftAts, EnforceAts, AnswerAts, Enforcer, Asked, Removed, DiskHas, JobHas,
     Carries, GoesOn, Stops, Ends, GivesUp, StopsAfter, Around, Counted
<1>10. ASSUME ~flag', harmed' = {}
       PROVE  Rest'
  <2>0. ~flag /\ harmed = {} /\ Rest /\ Follows /\ Fresh
    BY <1>2, <1>10 DEF IInv, Counted, Removed
  <2>1. Journalled'
    BY <1>1, <1>2, <2>0 DEF Rest, Journalled, Sane, Sound, Held, Today, Gone, Removed, DiskHas,
       JobHas, Carries, GoesOn, Around, Counted
  <2>2. Owned'
    BY <1>1, <1>2, <2>0 DEF Rest, Owned, Active, Nested, ComposeAts, LiftAts, EnforceAts,
       Enforcer, Asked, Removed, DiskHas, JobHas, Carries, GoesOn, Around, Counted
  <2>3. Settled'
    BY <1>1, <1>2, <2>0 DEF Rest, Settled, Fresh, ComposeAts, Enforcer, Removed, DiskHas, JobHas,
       Carries, GoesOn, Around, Counted
  <2>4. Taken'
    BY <1>1, <1>2, <2>0 DEF Rest, Taken, Follows, Held, Kept, Standing, BedDue, DockDue, DueBed,
       Enters, Target, Today, InForce, ComposeAts, Enforcer, Removed, DiskHas, JobHas, Carries,
       GoesOn, Around, Counted
  <2>5. Undone'
    BY <1>1, <1>2, <2>0 DEF Rest, Undone, Lost, Standing, BedDue, Enters, Today, Gone, ComposeAts,
       Enforcer, Removed, DiskHas, JobHas, Carries, GoesOn, Around, Counted
  <2>6. Left'
    BY <1>1, <1>2, <2>0 DEF Rest, Left, DockDue, Today, Removed, DiskHas, JobHas, Carries, GoesOn,
       Around, Counted
  <2>7. Found'
    BY <1>1, <1>2, <2>0 DEF Rest, Found, Asked, Removed, DiskHas, JobHas, Carries, GoesOn, Around,
       Counted
  <2>8. Named'
    BY <1>1, <1>2, <2>0 DEF IInv, Rest, Named, Loaded, Journalled, Active, ComposeAts, LiftAts,
       EnforceAts, Removed, DiskHas, JobHas, Carries, GoesOn, Around, Counted, Kept
  <2> QED BY <2>1, <2>2, <2>3, <2>4, <2>5, <2>6, <2>7, <2>8 DEF Rest
<1> QED BY <1>3, <1>4, <1>5, <1>6, <1>7, <1>8, <1>9, <1>10 DEF IInv

LEMMA CloseLiftKeeps ==
  ASSUME IInv, CloseLift
  PROVE  IInv'
<1>1. job.at = "closeLift" /\ job.op = "tick"
  BY DEF IInv, TypeOK, JobSet, Ops, Labels, CloseLift, ComposeAts, LiftAts, EnforceAts, AnswerAts,
     Enforcer, Asked
<1>2. PICK t : Closed(t) /\ GoesOn(t, "target")
  <2>1. Closed(To("target"))
    BY ClearIs DEF CloseLift, IInv
  <2>2. GoesOn(To("target"), "target")
    BY ToHas DEF IInv, Ats, EnforceAts, ComposeAts
  <2> QED BY <2>1, <2>2
<1>3. TypeOK'
  BY <1>1, <1>2 DEF IInv, TypeOK, Closed, Emptied, JobHas, Carries, GoesOn, Around, Counted
<1>4. Labels'
  BY <1>1, <1>2 DEF IInv, Labels, ComposeAts, LiftAts, EnforceAts, AnswerAts, Enforcer, Asked,
     Closed, Emptied, JobHas, Carries, GoesOn, Around, Counted
<1>5. Running'
  BY <1>1, <1>2 DEF IInv, Running, Labels, ComposeAts, LiftAts, EnforceAts, AnswerAts, Enforcer,
     Asked, Closed, Emptied, JobHas, Carries, GoesOn, Around, Counted
<1>6. Loaded'
  BY <1>1, <1>2 DEF IInv, Loaded, Labels, Kept, Active, ComposeAts, LiftAts, EnforceAts,
     AnswerAts, Enforcer, Asked, Closed, Emptied, JobHas, Carries, GoesOn, Around, Counted
<1>7. Apart'
  BY <1>1, <1>2, CalmIs DEF StateHas, IInv, Labels, Apart, Plain, Follows, Fresh, Kept, Loaded,
     Target, DueBed, BedDue, ComposeAts, LiftAts, EnforceAts, AnswerAts, Enforcer, Asked, Closed,
     Emptied, DiskHas, JobHas, Carries, GoesOn, Stops, Ends, GivesUp, StopsAfter, Around, Counted
<1>8. Fresh'
  BY <1>1, <1>2 DEF IInv, Fresh, Labels, ComposeAts, LiftAts, EnforceAts, AnswerAts, Enforcer,
     Asked, Closed, Emptied, DiskHas, JobHas, Carries, GoesOn, Stops, Ends, GivesUp, StopsAfter,
     Around, Counted
<1>9. Follows'
  BY <1>1, <1>2 DEF IInv, TypeOK, Labels, Follows, Fresh, Apart, Plain, Kept, Loaded, Standing,
     BedDue, DockDue, DueBed, Enters, Target, Today, Gone, Active, Nested, InForce, By,
     ComposeAts, LiftAts, EnforceAts, AnswerAts, Enforcer, Asked, Closed, Emptied, DiskHas,
     JobHas, Carries, GoesOn, Stops, Ends, GivesUp, StopsAfter, Around, Counted
<1>10. ASSUME ~flag', harmed' = {}
       PROVE  Rest'
  <2>0. ~flag /\ harmed = {} /\ Rest /\ Follows /\ Fresh
    BY <1>2, <1>10 DEF IInv, Counted, Closed, Emptied
  <2>1. Journalled'
    BY <1>1, <1>2, <1>10, <2>0 DEF IInv, Labels, Rest, Journalled, Settled, Fresh, Sane, Sound,
       Held, Today, Gone, ComposeAts, LiftAts, EnforceAts, AnswerAts, Enforcer, Asked, Closed,
       Emptied, JobHas, Carries, GoesOn, Around, Counted
  <2>2. Owned'
    BY <1>1, <1>2, <1>10, <2>0 DEF Rest, Owned, Active, Nested, ComposeAts, LiftAts, EnforceAts,
       Enforcer, Asked, Closed, Emptied, JobHas, Carries, GoesOn, Around, Counted
  <2>3. Settled'
    BY <1>1, <1>2, <1>10, <2>0 DEF Rest, Settled, Fresh, ComposeAts, Enforcer, Closed, Emptied,
       JobHas, Carries, GoesOn, Around, Counted
  <2>4. Taken'
    BY <1>1, <1>2, <1>10, <2>0 DEF Rest, Taken, Follows, Held, Kept, Standing, BedDue, DockDue,
       DueBed, Enters, Target, Today, InForce, ComposeAts, Enforcer, Closed, Emptied, JobHas,
       Carries, GoesOn, Around, Counted
  <2>5. Undone'
    BY <1>1, <1>2, <1>10, <2>0 DEF Rest, Undone, Lost, Standing, BedDue, Enters, Today, Gone,
       ComposeAts, Enforcer, Closed, Emptied, JobHas, Carries, GoesOn, Around, Counted
  <2>6. Left'
    BY <1>1, <1>2, <1>10, <2>0 DEF Rest, Left, DockDue, Today, Closed, Emptied, JobHas, Carries,
       GoesOn, Around, Counted
  <2>7. Found'
    BY <1>1, <1>2, <1>10, <2>0 DEF Rest, Found, Asked, Closed, Emptied, JobHas, Carries, GoesOn,
       Around, Counted
  <2>8. Named'
    BY <1>1, <1>2, <1>10, <2>0 DEF Rest, Named, Active, ComposeAts, LiftAts, EnforceAts, Closed,
       Emptied, JobHas, Carries, GoesOn, Around, Counted
  <2> QED BY <2>1, <2>2, <2>3, <2>4, <2>5, <2>6, <2>7, <2>8 DEF Rest
<1> QED BY <1>3, <1>4, <1>5, <1>6, <1>7, <1>8, <1>9, <1>10 DEF IInv

(* The requests of the parent.                                             *)
LEMMA DisableKeeps ==
  ASSUME IInv, Disable
  PROVE  IInv'
<1>1. job.op = "idle" /\ job.at = "end" /\ power
  BY DEF IInv, TypeOK, JobSet, Ops, Labels, Disable, ComposeAts, LiftAts, EnforceAts, AnswerAts,
     Enforcer, Asked, Accept, Free
<1>2. PICK j, l :
     /\ Went(j) /\ JobHas(j, "disable", l, "end", Calm, Calm, None, FALSE, FALSE, FALSE)
     /\ Calm.pending = None
     /\ l = IF journal = None THEN "load" ELSE "resolve"
     /\ disk.on
  <2>1. disk.on
    BY DEF Disable, Upcoming
  <2>2. Accept("disable", None)
    BY DEF Disable
  <2> QED BY <2>1, <2>2, AcceptIs DEF IInv, Asked
<1>3. TypeOK'
  BY <1>1, <1>2 DEF IInv, TypeOK, Went, JobHas, Around, Counted
<1>4. Labels'
  BY <1>1, <1>2 DEF IInv, Labels, ComposeAts, LiftAts, EnforceAts, AnswerAts, Enforcer, Asked,
     Went, JobHas, Around, Counted
<1>5. Running'
  BY <1>1, <1>2 DEF IInv, Running, Labels, ComposeAts, LiftAts, EnforceAts, AnswerAts, Enforcer,
     Asked, Went, JobHas, Around, Counted
<1>6. Loaded'
  BY <1>1, <1>2 DEF IInv, Loaded, Labels, Kept, Active, ComposeAts, LiftAts, EnforceAts,
     AnswerAts, Enforcer, Asked, Went, JobHas, Around, Counted
<1>7. Apart'
  BY <1>1, <1>2, CalmIs DEF StateHas, IInv, Labels, Apart, Plain, Follows, Fresh, Kept, Loaded,
     Target, DueBed, BedDue, ComposeAts, LiftAts, EnforceAts, AnswerAts, Enforcer, Asked, Went,
     DiskHas, JobHas, Carries, GoesOn, Stops, Ends, GivesUp, StopsAfter, Around, Counted
<1>8. Fresh'
  BY <1>1, <1>2 DEF IInv, Fresh, Labels, ComposeAts, LiftAts, EnforceAts, AnswerAts, Enforcer,
     Asked, Went, DiskHas, JobHas, Carries, GoesOn, Stops, Ends, GivesUp, StopsAfter, Around,
     Counted
<1>9. Follows'
  BY <1>1, <1>2 DEF IInv, TypeOK, Labels, Follows, Fresh, Apart, Plain, Kept, Loaded, Standing,
     BedDue, DockDue, DueBed, Enters, Target, Today, Gone, Active, Nested, InForce, By,
     ComposeAts, LiftAts, EnforceAts, AnswerAts, Enforcer, Asked, Went, DiskHas, JobHas, Carries,
     GoesOn, Stops, Ends, GivesUp, StopsAfter, Around, Counted
<1>10. ASSUME ~flag', harmed' = {}
       PROVE  Rest'
  <2>0. ~flag /\ harmed = {} /\ Rest /\ Follows /\ Fresh
    BY <1>2, <1>10 DEF IInv, Counted, Went
  <2>1. Journalled'
    BY <1>1, <1>2, <2>0 DEF Rest, Journalled, Sane, Sound, Held, Today, Gone, Went, JobHas,
       Around, Counted
  <2>2. Owned'
    BY <1>1, <1>2, <2>0 DEF Rest, Owned, Active, Nested, ComposeAts, LiftAts, EnforceAts,
       Enforcer, Asked, Went, JobHas, Around, Counted
  <2>3. Settled'
    BY <1>1, <1>2, <2>0 DEF Rest, Settled, Fresh, Journalled, ComposeAts, Enforcer, Went, JobHas,
       Around, Counted
  <2>4. Taken'
    BY <1>1, <1>2, <2>0 DEF Rest, Taken, Held, Standing, BedDue, DockDue, Enters, Today,
       ComposeAts, Enforcer, Went, JobHas, Around, Counted
  <2>5. Undone'
    BY <1>1, <1>2, <2>0 DEF Rest, Undone, Lost, Standing, BedDue, Enters, Today, Gone, ComposeAts,
       Enforcer, Went, JobHas, Around, Counted
  <2>6. Left'
    BY <1>1, <1>2, <2>0 DEF Rest, Left, DockDue, Today, Went, JobHas, Around, Counted
  <2>7. Found'
    BY <1>1, <1>2, <2>0 DEF Rest, Found, Asked, Went, JobHas, Around, Counted
  <2>8. Named'
    BY <1>1, <1>2, <2>0 DEF Rest, Named, Active, ComposeAts, LiftAts, EnforceAts, Went, JobHas,
       Around, Counted
  <2> QED BY <2>1, <2>2, <2>3, <2>4, <2>5, <2>6, <2>7, <2>8 DEF Rest
<1> QED BY <1>3, <1>4, <1>5, <1>6, <1>7, <1>8, <1>9, <1>10 DEF IInv

LEMMA SkipEyeKeeps ==
  ASSUME IInv, SkipEye
  PROVE  IInv'
<1>1. job.op = "idle" /\ job.at = "end" /\ power
  BY DEF IInv, TypeOK, JobSet, Ops, Labels, SkipEye, ComposeAts, LiftAts, EnforceAts, AnswerAts,
     Enforcer, Asked, Accept, Free
<1>2. PICK j, l :
     /\ Went(j) /\ JobHas(j, "rest", l, "end", Calm, Calm, None, FALSE, FALSE, FALSE)
     /\ Calm.pending = None
     /\ l = IF journal = None THEN "load" ELSE "resolve"
     /\ disk.st.rest # None
  <2>1. disk.st.rest # None
    BY DEF SkipEye, Upcoming
  <2>2. Accept("rest", None)
    BY DEF SkipEye
  <2> QED BY <2>1, <2>2, AcceptIs DEF IInv, Asked
<1>3. TypeOK'
  BY <1>1, <1>2 DEF IInv, TypeOK, Went, JobHas, Around, Counted
<1>4. Labels'
  BY <1>1, <1>2 DEF IInv, Labels, ComposeAts, LiftAts, EnforceAts, AnswerAts, Enforcer, Asked,
     Went, JobHas, Around, Counted
<1>5. Running'
  BY <1>1, <1>2 DEF IInv, Running, Labels, ComposeAts, LiftAts, EnforceAts, AnswerAts, Enforcer,
     Asked, Went, JobHas, Around, Counted
<1>6. Loaded'
  BY <1>1, <1>2 DEF IInv, Loaded, Labels, Kept, Active, ComposeAts, LiftAts, EnforceAts,
     AnswerAts, Enforcer, Asked, Went, JobHas, Around, Counted
<1>7. Apart'
  BY <1>1, <1>2, CalmIs DEF StateHas, IInv, Labels, Apart, Plain, Follows, Fresh, Kept, Loaded,
     Target, DueBed, BedDue, ComposeAts, LiftAts, EnforceAts, AnswerAts, Enforcer, Asked, Went,
     DiskHas, JobHas, Carries, GoesOn, Stops, Ends, GivesUp, StopsAfter, Around, Counted
<1>8. Fresh'
  BY <1>1, <1>2 DEF IInv, Fresh, Labels, ComposeAts, LiftAts, EnforceAts, AnswerAts, Enforcer,
     Asked, Went, DiskHas, JobHas, Carries, GoesOn, Stops, Ends, GivesUp, StopsAfter, Around,
     Counted
<1>9. Follows'
  BY <1>1, <1>2 DEF IInv, TypeOK, Labels, Follows, Fresh, Apart, Plain, Kept, Loaded, Standing,
     BedDue, DockDue, DueBed, Enters, Target, Today, Gone, Active, Nested, InForce, By,
     ComposeAts, LiftAts, EnforceAts, AnswerAts, Enforcer, Asked, Went, DiskHas, JobHas, Carries,
     GoesOn, Stops, Ends, GivesUp, StopsAfter, Around, Counted
<1>10. ASSUME ~flag', harmed' = {}
       PROVE  Rest'
  <2>0. ~flag /\ harmed = {} /\ Rest /\ Follows /\ Fresh
    BY <1>2, <1>10 DEF IInv, Counted, Went
  <2>1. Journalled'
    BY <1>1, <1>2, <2>0 DEF Rest, Journalled, Sane, Sound, Held, Today, Gone, Went, JobHas,
       Around, Counted
  <2>2. Owned'
    BY <1>1, <1>2, <2>0 DEF Rest, Owned, Active, Nested, ComposeAts, LiftAts, EnforceAts,
       Enforcer, Asked, Went, JobHas, Around, Counted
  <2>3. Settled'
    BY <1>1, <1>2, <2>0 DEF Rest, Settled, Fresh, Journalled, ComposeAts, Enforcer, Went, JobHas,
       Around, Counted
  <2>4. Taken'
    BY <1>1, <1>2, <2>0 DEF Rest, Taken, Held, Standing, BedDue, DockDue, Enters, Today,
       ComposeAts, Enforcer, Went, JobHas, Around, Counted
  <2>5. Undone'
    BY <1>1, <1>2, <2>0 DEF Rest, Undone, Lost, Standing, BedDue, Enters, Today, Gone, ComposeAts,
       Enforcer, Went, JobHas, Around, Counted
  <2>6. Left'
    BY <1>1, <1>2, <2>0 DEF Rest, Left, DockDue, Today, Went, JobHas, Around, Counted
  <2>7. Found'
    BY <1>1, <1>2, <2>0 DEF Rest, Found, Asked, Went, JobHas, Around, Counted
  <2>8. Named'
    BY <1>1, <1>2, <2>0 DEF Rest, Named, Active, ComposeAts, LiftAts, EnforceAts, Went, JobHas,
       Around, Counted
  <2> QED BY <2>1, <2>2, <2>3, <2>4, <2>5, <2>6, <2>7, <2>8 DEF Rest
<1> QED BY <1>3, <1>4, <1>5, <1>6, <1>7, <1>8, <1>9, <1>10 DEF IInv

LEMMA WaiveKeeps ==
  ASSUME IInv, Waive
  PROVE  IInv'
<1>1. job.op = "idle" /\ job.at = "end" /\ power
  BY DEF IInv, TypeOK, JobSet, Ops, Labels, Waive, ComposeAts, LiftAts, EnforceAts, AnswerAts,
     Enforcer, Asked, Accept, Free
<1>2. PICK j, l :
     /\ Went(j) /\ JobHas(j, "waive", l, "end", Calm, Calm, None, FALSE, FALSE, FALSE)
     /\ Calm.pending = None
     /\ l = IF journal = None THEN "load" ELSE "resolve"
     /\ away
  <2>1. away
    BY DEF Waive, Upcoming
  <2>2. Accept("waive", None)
    BY DEF Waive
  <2> QED BY <2>1, <2>2, AcceptIs DEF IInv, Asked
<1>3. TypeOK'
  BY <1>1, <1>2 DEF IInv, TypeOK, Went, JobHas, Around, Counted
<1>4. Labels'
  BY <1>1, <1>2 DEF IInv, Labels, ComposeAts, LiftAts, EnforceAts, AnswerAts, Enforcer, Asked,
     Went, JobHas, Around, Counted
<1>5. Running'
  BY <1>1, <1>2 DEF IInv, Running, Labels, ComposeAts, LiftAts, EnforceAts, AnswerAts, Enforcer,
     Asked, Went, JobHas, Around, Counted
<1>6. Loaded'
  BY <1>1, <1>2 DEF IInv, Loaded, Labels, Kept, Active, ComposeAts, LiftAts, EnforceAts,
     AnswerAts, Enforcer, Asked, Went, JobHas, Around, Counted
<1>7. Apart'
  BY <1>1, <1>2, CalmIs DEF StateHas, IInv, Labels, Apart, Plain, Follows, Fresh, Kept, Loaded,
     Target, DueBed, BedDue, ComposeAts, LiftAts, EnforceAts, AnswerAts, Enforcer, Asked, Went,
     DiskHas, JobHas, Carries, GoesOn, Stops, Ends, GivesUp, StopsAfter, Around, Counted
<1>8. Fresh'
  BY <1>1, <1>2 DEF IInv, Fresh, Labels, ComposeAts, LiftAts, EnforceAts, AnswerAts, Enforcer,
     Asked, Went, DiskHas, JobHas, Carries, GoesOn, Stops, Ends, GivesUp, StopsAfter, Around,
     Counted
<1>9. Follows'
  BY <1>1, <1>2 DEF IInv, TypeOK, Labels, Follows, Fresh, Apart, Plain, Kept, Loaded, Standing,
     BedDue, DockDue, DueBed, Enters, Target, Today, Gone, Active, Nested, InForce, By,
     ComposeAts, LiftAts, EnforceAts, AnswerAts, Enforcer, Asked, Went, DiskHas, JobHas, Carries,
     GoesOn, Stops, Ends, GivesUp, StopsAfter, Around, Counted
<1>10. ASSUME ~flag', harmed' = {}
       PROVE  Rest'
  <2>0. ~flag /\ harmed = {} /\ Rest /\ Follows /\ Fresh
    BY <1>2, <1>10 DEF IInv, Counted, Went
  <2>1. Journalled'
    BY <1>1, <1>2, <2>0 DEF Rest, Journalled, Sane, Sound, Held, Today, Gone, Went, JobHas,
       Around, Counted
  <2>2. Owned'
    BY <1>1, <1>2, <2>0 DEF Rest, Owned, Active, Nested, ComposeAts, LiftAts, EnforceAts,
       Enforcer, Asked, Went, JobHas, Around, Counted
  <2>3. Settled'
    BY <1>1, <1>2, <2>0 DEF Rest, Settled, Fresh, Journalled, ComposeAts, Enforcer, Went, JobHas,
       Around, Counted
  <2>4. Taken'
    BY <1>1, <1>2, <2>0 DEF Rest, Taken, Held, Standing, BedDue, DockDue, Enters, Today,
       ComposeAts, Enforcer, Went, JobHas, Around, Counted
  <2>5. Undone'
    BY <1>1, <1>2, <2>0 DEF Rest, Undone, Lost, Standing, BedDue, Enters, Today, Gone, ComposeAts,
       Enforcer, Went, JobHas, Around, Counted
  <2>6. Left'
    BY <1>1, <1>2, <2>0 DEF Rest, Left, DockDue, Today, Went, JobHas, Around, Counted
  <2>7. Found'
    BY <1>1, <1>2, <2>0 DEF Rest, Found, Asked, Went, JobHas, Around, Counted
  <2>8. Named'
    BY <1>1, <1>2, <2>0 DEF Rest, Named, Active, ComposeAts, LiftAts, EnforceAts, Went, JobHas,
       Around, Counted
  <2> QED BY <2>1, <2>2, <2>3, <2>4, <2>5, <2>6, <2>7, <2>8 DEF Rest
<1> QED BY <1>3, <1>4, <1>5, <1>6, <1>7, <1>8, <1>9, <1>10 DEF IInv

LEMMA SkipKeeps ==
  ASSUME IInv, NEW w \in Period, Skip(w)
  PROVE  IInv'
<1>1. job.op = "idle" /\ job.at = "end" /\ power
  BY DEF IInv, TypeOK, JobSet, Ops, Labels, Skip, ComposeAts, LiftAts, EnforceAts, AnswerAts,
     Enforcer, Asked, Accept, Free
<1>2. PICK j, l :
     /\ Went(j) /\ JobHas(j, "skip", l, "end", Calm, Calm, w, FALSE, FALSE, FALSE)
     /\ Calm.pending = None
     /\ l = IF journal = None THEN "load" ELSE "resolve"
     /\ disk.on /\ (w = Window[clock] \/ w > clock)
  <2>1. disk.on /\ (w = Window[clock] \/ w > clock)
    BY DEF Skip, Upcoming
  <2>2. Accept("skip", w)
    BY DEF Skip
  <2> QED BY <2>1, <2>2, AcceptIs DEF IInv, Asked
<1>3. TypeOK'
  BY <1>1, <1>2, TimeLineAssumption DEF IInv, TypeOK, Went, JobHas, Around, Counted
<1>4. Labels'
  BY <1>1, <1>2, TimeLineAssumption DEF IInv, Labels, ComposeAts, LiftAts, EnforceAts, AnswerAts,
     Enforcer, Asked, Went, JobHas, Around, Counted
<1>5. Running'
  BY <1>1, <1>2, TimeLineAssumption DEF IInv, Running, Labels, ComposeAts, LiftAts, EnforceAts,
     AnswerAts, Enforcer, Asked, Went, JobHas, Around, Counted
<1>6. Loaded'
  BY <1>1, <1>2, TimeLineAssumption DEF IInv, Loaded, Labels, Kept, Active, ComposeAts, LiftAts,
     EnforceAts, AnswerAts, Enforcer, Asked, Went, JobHas, Around, Counted
<1>7. Apart'
  BY <1>1, <1>2, CalmIs, TimeLineAssumption DEF StateHas, IInv, Labels, Apart, Plain, Follows,
     Fresh, Kept, Loaded, Target, DueBed, BedDue, ComposeAts, LiftAts, EnforceAts, AnswerAts,
     Enforcer, Asked, Went, DiskHas, JobHas, Carries, GoesOn, Stops, Ends, GivesUp, StopsAfter,
     Around, Counted
<1>8. Fresh'
  BY <1>1, <1>2, TimeLineAssumption DEF IInv, Fresh, Labels, ComposeAts, LiftAts, EnforceAts,
     AnswerAts, Enforcer, Asked, Went, DiskHas, JobHas, Carries, GoesOn, Stops, Ends, GivesUp,
     StopsAfter, Around, Counted
<1>9. Follows'
  BY <1>1, <1>2, TimeLineAssumption DEF IInv, TypeOK, Labels, Follows, Fresh, Apart, Plain, Kept,
     Loaded, Standing, BedDue, DockDue, DueBed, Enters, Target, Today, Gone, Active, Nested,
     InForce, By, ComposeAts, LiftAts, EnforceAts, AnswerAts, Enforcer, Asked, Went, DiskHas,
     JobHas, Carries, GoesOn, Stops, Ends, GivesUp, StopsAfter, Around, Counted
<1>10. ASSUME ~flag', harmed' = {}
       PROVE  Rest'
  <2>0. ~flag /\ harmed = {} /\ Rest /\ Follows /\ Fresh
    BY <1>2, <1>10 DEF IInv, Counted, Went
  <2>1. Journalled'
    BY <1>1, <1>2, <2>0, TimeLineAssumption DEF Rest, Journalled, Sane, Sound, Held, Today, Gone,
       Went, JobHas, Around, Counted
  <2>2. Owned'
    BY <1>1, <1>2, <2>0, TimeLineAssumption DEF Rest, Owned, Active, Nested, ComposeAts, LiftAts,
       EnforceAts, Enforcer, Asked, Went, JobHas, Around, Counted
  <2>3. Settled'
    BY <1>1, <1>2, <2>0, TimeLineAssumption DEF Rest, Settled, Fresh, Journalled, ComposeAts,
       Enforcer, Went, JobHas, Around, Counted
  <2>4. Taken'
    BY <1>1, <1>2, <2>0, TimeLineAssumption DEF Rest, Taken, Held, Standing, BedDue, DockDue,
       Enters, Today, ComposeAts, Enforcer, Went, JobHas, Around, Counted
  <2>5. Undone'
    BY <1>1, <1>2, <2>0, TimeLineAssumption DEF Rest, Undone, Lost, Standing, BedDue, Enters,
       Today, Gone, ComposeAts, Enforcer, Went, JobHas, Around, Counted
  <2>6. Left'
    BY <1>1, <1>2, <2>0, TimeLineAssumption DEF Rest, Left, DockDue, Today, Went, JobHas, Around,
       Counted
  <2>7. Found'
    BY <1>1, <1>2, <2>0, TimeLineAssumption DEF Rest, Found, Asked, Went, JobHas, Around, Counted
  <2>8. Named'
    BY <1>1, <1>2, <2>0, TimeLineAssumption DEF Rest, Named, Active, ComposeAts, LiftAts,
       EnforceAts, Went, JobHas, Around, Counted
  <2> QED BY <2>1, <2>2, <2>3, <2>4, <2>5, <2>6, <2>7, <2>8 DEF Rest
<1> QED BY <1>3, <1>4, <1>5, <1>6, <1>7, <1>8, <1>9, <1>10 DEF IInv

LEMMA ClearSkipKeeps ==
  ASSUME IInv, NEW w \in Period, ClearSkip(w)
  PROVE  IInv'
<1>1. job.op = "idle" /\ job.at = "end" /\ power
  BY DEF IInv, TypeOK, JobSet, Ops, Labels, ClearSkip, ComposeAts, LiftAts, EnforceAts, AnswerAts,
     Enforcer, Asked, Accept, Free
<1>2. PICK j, l :
     /\ Went(j) /\ JobHas(j, "clear", l, "end", Calm, Calm, w, FALSE, FALSE, FALSE)
     /\ Calm.pending = None
     /\ l = IF journal = None THEN "load" ELSE "resolve"
     /\ ~flag /\ disk.st.skipped = w /\ journal = None
  <2>1. ~flag /\ disk.st.skipped = w /\ journal = None
    BY DEF ClearSkip, Upcoming
  <2>2. Accept("clear", w)
    BY DEF ClearSkip
  <2> QED BY <2>1, <2>2, AcceptIs DEF IInv, Asked
<1>3. TypeOK'
  BY <1>1, <1>2, TimeLineAssumption DEF IInv, TypeOK, Went, JobHas, Around, Counted
<1>4. Labels'
  BY <1>1, <1>2, TimeLineAssumption DEF IInv, Labels, ComposeAts, LiftAts, EnforceAts, AnswerAts,
     Enforcer, Asked, Went, JobHas, Around, Counted
<1>5. Running'
  BY <1>1, <1>2, TimeLineAssumption DEF IInv, Running, Labels, ComposeAts, LiftAts, EnforceAts,
     AnswerAts, Enforcer, Asked, Went, JobHas, Around, Counted
<1>6. Loaded'
  BY <1>1, <1>2, TimeLineAssumption DEF IInv, Loaded, Labels, Kept, Active, ComposeAts, LiftAts,
     EnforceAts, AnswerAts, Enforcer, Asked, Went, JobHas, Around, Counted
<1>7. Apart'
  BY <1>1, <1>2, CalmIs, TimeLineAssumption DEF StateHas, IInv, Labels, Apart, Plain, Follows,
     Fresh, Kept, Loaded, Target, DueBed, BedDue, ComposeAts, LiftAts, EnforceAts, AnswerAts,
     Enforcer, Asked, Went, DiskHas, JobHas, Carries, GoesOn, Stops, Ends, GivesUp, StopsAfter,
     Around, Counted
<1>8. Fresh'
  BY <1>1, <1>2, TimeLineAssumption DEF IInv, Fresh, Labels, ComposeAts, LiftAts, EnforceAts,
     AnswerAts, Enforcer, Asked, Went, DiskHas, JobHas, Carries, GoesOn, Stops, Ends, GivesUp,
     StopsAfter, Around, Counted
<1>9. Follows'
  BY <1>1, <1>2, TimeLineAssumption DEF IInv, TypeOK, Labels, Follows, Fresh, Apart, Plain, Kept,
     Loaded, Standing, BedDue, DockDue, DueBed, Enters, Target, Today, Gone, Active, Nested,
     InForce, By, ComposeAts, LiftAts, EnforceAts, AnswerAts, Enforcer, Asked, Went, DiskHas,
     JobHas, Carries, GoesOn, Stops, Ends, GivesUp, StopsAfter, Around, Counted
<1>10. ASSUME ~flag', harmed' = {}
       PROVE  Rest'
  <2>0. ~flag /\ harmed = {} /\ Rest /\ Follows /\ Fresh
    BY <1>2, <1>10 DEF IInv, Counted, Went
  <2>1. Journalled'
    BY <1>1, <1>2, <2>0, TimeLineAssumption DEF Rest, Journalled, Sane, Sound, Held, Today, Gone,
       Went, JobHas, Around, Counted
  <2>2. Owned'
    BY <1>1, <1>2, <2>0, TimeLineAssumption DEF Rest, Owned, Active, Nested, ComposeAts, LiftAts,
       EnforceAts, Enforcer, Asked, Went, JobHas, Around, Counted
  <2>3. Settled'
    BY <1>1, <1>2, <2>0, TimeLineAssumption DEF Rest, Settled, Fresh, Journalled, ComposeAts,
       Enforcer, Went, JobHas, Around, Counted
  <2>4. Taken'
    BY <1>1, <1>2, <2>0, TimeLineAssumption DEF Rest, Taken, Held, Standing, BedDue, DockDue,
       Enters, Today, ComposeAts, Enforcer, Went, JobHas, Around, Counted
  <2>5. Undone'
    BY <1>1, <1>2, <2>0, TimeLineAssumption DEF Rest, Undone, Lost, Standing, BedDue, Enters,
       Today, Gone, ComposeAts, Enforcer, Went, JobHas, Around, Counted
  <2>6. Left'
    BY <1>1, <1>2, <2>0, TimeLineAssumption DEF Rest, Left, DockDue, Today, Went, JobHas, Around,
       Counted
  <2>7. Found'
    BY <1>1, <1>2, <2>0, TimeLineAssumption DEF Rest, Found, Asked, Went, JobHas, Around, Counted
  <2>8. Named'
    BY <1>1, <1>2, <2>0, TimeLineAssumption DEF Rest, Named, Active, ComposeAts, LiftAts,
       EnforceAts, Went, JobHas, Around, Counted
  <2> QED BY <2>1, <2>2, <2>3, <2>4, <2>5, <2>6, <2>7, <2>8 DEF Rest
<1> QED BY <1>3, <1>4, <1>5, <1>6, <1>7, <1>8, <1>9, <1>10 DEF IInv

LEMMA ResolveKeeps ==
  ASSUME IInv, Resolve
  PROVE  IInv'
<1>1. job.at = "resolve" /\ job.op \in Asked
  BY DEF IInv, TypeOK, JobSet, Ops, Labels, Resolve, ComposeAts, LiftAts, EnforceAts, AnswerAts,
     Enforcer, Asked
<1>2. PICK t, f : RolledBack(t, f) /\ GoesOn(t, "load") /\ Stops(f, "end")
  <2>1. RolledBack(To("load"), Stopping("end"))
    BY RollbackIs DEF Resolve, IInv
  <2>2. GoesOn(To("load"), "load") /\ Stops(Stopping("end"), "end")
    BY ToHas, StoppingHas DEF IInv, Ats, AnswerAts
  <2> QED BY <2>1, <2>2
<1>3. TypeOK'
  BY <1>1, <1>2 DEF IInv, TypeOK, RolledBack, Unrolled, Rolled, Halfway, Emptied, JobHas, Carries,
     GoesOn, Stops, Around, Counted, Journals
<1>4. Labels'
  BY <1>1, <1>2 DEF IInv, Labels, ComposeAts, LiftAts, EnforceAts, AnswerAts, Enforcer, Asked,
     RolledBack, Unrolled, Rolled, Halfway, Emptied, JobHas, Carries, GoesOn, Stops, Around,
     Counted
<1>5. Running'
  BY <1>1, <1>2 DEF IInv, Running, Labels, ComposeAts, LiftAts, EnforceAts, AnswerAts, Enforcer,
     Asked, RolledBack, Unrolled, Rolled, Halfway, Emptied, JobHas, Carries, GoesOn, Stops,
     Around, Counted
<1>6. Loaded'
  BY <1>1, <1>2 DEF IInv, Loaded, Labels, Kept, Active, ComposeAts, LiftAts, EnforceAts,
     AnswerAts, Enforcer, Asked, RolledBack, Unrolled, Rolled, Halfway, Emptied, JobHas, Carries,
     GoesOn, Stops, Around, Counted
<1>7. Apart'
  BY <1>1, <1>2, CalmIs DEF IInv, Apart, Plain, StateHas, RolledBack, Unrolled, Rolled, Halfway,
     Emptied, JobHas, Carries, GoesOn, Stops, Ends, GivesUp, StopsAfter
<1>8. Fresh'
  BY <1>1, <1>2 DEF IInv, Fresh, Labels, ComposeAts, LiftAts, EnforceAts, AnswerAts, Enforcer,
     Asked, RolledBack, Unrolled, Rolled, Halfway, Emptied, DiskHas, JobHas, Carries, GoesOn,
     Stops, Ends, GivesUp, StopsAfter, Around, Counted
<1>9. Follows'
  BY <1>1, <1>2 DEF IInv, TypeOK, Labels, Follows, Fresh, Apart, Plain, Kept, Loaded, Standing,
     BedDue, DockDue, DueBed, Enters, Target, Today, Gone, Active, Nested, InForce, By,
     ComposeAts, LiftAts, EnforceAts, AnswerAts, Enforcer, Asked, RolledBack, Unrolled, Rolled,
     Halfway, Emptied, DiskHas, JobHas, Carries, GoesOn, Stops, Ends, GivesUp, StopsAfter, Around,
     Counted
<1>10. ASSUME ~flag', harmed' = {}
       PROVE  Rest'
  <2>0. ~flag /\ harmed = {} /\ Rest /\ Follows /\ Fresh
    BY <1>2, <1>10 DEF IInv, Counted, RolledBack, Unrolled, Rolled, Halfway, Emptied
  <2>a. /\ Unrolled(t) \/ (Rolled(t) /\ journal' = None) \/ Halfway(f)
        /\ flag' = flag /\ Around /\ GoesOn(t, "load") /\ Stops(f, "end")
    BY <1>2, <1>10, RollsBack
  <2>1. Journalled'
    <3>1. CASE Unrolled(t)
      BY <1>1, <2>0, <2>a, <3>1, CalmIs DEF Rest, Journalled, Sane, Sound, Held, Gone, Today,
         ComposeAts, LiftAts, EnforceAts, AnswerAts, Enforcer, Asked, Unrolled, JobHas, Carries,
         GoesOn, Stops, Ends, GivesUp, StopsAfter, Around
    <3>2. CASE Rolled(t) /\ journal' = None
      BY <1>1, <2>0, <2>a, <3>2, CalmIs DEF Rest, Journalled, Sane, Sound, Held, Gone, Today,
         ComposeAts, LiftAts, EnforceAts, AnswerAts, Enforcer, Asked, Rolled, JobHas, Carries,
         GoesOn, Stops, Ends, GivesUp, StopsAfter, Around
    <3>3. CASE Halfway(f)
      <4>1. Sane(disk.st)'
        BY <2>0, <2>a, <3>3, CalmIs DEF Rest, Journalled, Sane, Halfway, Around, StateHas
      <4>2. journal # None => Sane(journal.disk.st)' /\ Sound(journal.disk)'
        BY <2>0, <2>a, <3>3 DEF Rest, Journalled, Sane, Sound, Held, Gone, Today, Halfway, Around
      <4>3. job'.at = "stop"
        BY <2>a, <3>3 DEF Halfway, Stops, StopsAfter, JobHas
      <4> QED BY <2>0, <3>3, <4>1, <4>2, <4>3 DEF Rest, Journalled, Halfway
    <3> QED BY <2>a, <3>1, <3>2, <3>3
  <2>2. Owned'
    <3>1. CASE Unrolled(t)
      BY <1>1, <2>0, <2>a, <3>1, CalmIs DEF Rest, Owned, Journalled, Active, Nested, ComposeAts,
         LiftAts, EnforceAts, AnswerAts, Enforcer, Asked, Unrolled, JobHas, Carries, GoesOn,
         Stops, Ends, GivesUp, StopsAfter, Around
    <3>2. CASE Rolled(t) /\ journal' = None
      BY <1>1, <2>0, <2>a, <3>2, CalmIs DEF Rest, Owned, Journalled, Active, Nested, ComposeAts,
         LiftAts, EnforceAts, AnswerAts, Enforcer, Asked, Rolled, JobHas, Carries, GoesOn, Stops,
         Ends, GivesUp, StopsAfter, Around
    <3>3. CASE Halfway(f)
      BY <1>1, <2>0, <2>a, <3>3, CalmIs DEF Rest, Owned, Journalled, Active, Nested, ComposeAts,
         LiftAts, EnforceAts, AnswerAts, Enforcer, Asked, Halfway, StateHas, JobHas, Carries,
         GoesOn, Stops, Ends, GivesUp, StopsAfter, Around
    <3> QED BY <2>a, <3>1, <3>2, <3>3
  <2>3. Settled'
    BY <1>1, <1>2, <1>10, <2>0, CalmIs DEF Rest, Settled, Fresh, Journalled, ComposeAts, Enforcer,
       Asked, RolledBack, Unrolled, Rolled, Halfway, Emptied, JobHas, Carries, GoesOn, Stops,
       Around, Counted, StateHas
  <2>4. Taken'
    BY <1>1, <1>2, <1>10, <2>0, CalmIs DEF Rest, Taken, Held, Standing, BedDue, DockDue, Enters,
       Today, ComposeAts, Enforcer, Asked, RolledBack, Unrolled, Rolled, Halfway, Emptied, JobHas,
       Carries, GoesOn, Stops, Around, Counted, StateHas
  <2>5. Undone'
    <3>1. CASE Unrolled(t)
      BY <1>1, <2>0, <2>a, <3>1, CalmIs DEF Rest, IInv, Labels, Undone, Owned, Lost, Enters,
         BedDue, Standing, Gone, Today, ComposeAts, LiftAts, EnforceAts, AnswerAts, Enforcer,
         Asked, Unrolled, JobHas, Carries, GoesOn, Stops, Ends, GivesUp, StopsAfter, Around
    <3>2. CASE Rolled(t) /\ journal' = None
      BY <1>1, <2>0, <2>a, <3>2, CalmIs DEF Rest, IInv, Labels, Undone, Owned, Lost, Enters,
         BedDue, Standing, Gone, Today, ComposeAts, LiftAts, EnforceAts, AnswerAts, Enforcer,
         Asked, Rolled, JobHas, Carries, GoesOn, Stops, Ends, GivesUp, StopsAfter, Around
    <3>3. CASE Halfway(f)
      BY <1>1, <2>0, <2>a, <3>3, CalmIs DEF Rest, IInv, Labels, Undone, Owned, Lost, Enters,
         BedDue, Standing, Gone, Today, ComposeAts, LiftAts, EnforceAts, AnswerAts, Enforcer,
         Asked, Halfway, StateHas, JobHas, Carries, GoesOn, Stops, Ends, GivesUp, StopsAfter,
         Around
    <3> QED BY <2>a, <3>1, <3>2, <3>3
  <2>6. Left'
    <3>1. CASE Unrolled(t)
      BY <1>1, <2>0, <2>a, <3>1, CalmIs DEF Rest, Left, Undone, Owned, DockDue, Today, ComposeAts,
         LiftAts, EnforceAts, AnswerAts, Enforcer, Asked, Unrolled, JobHas, Carries, GoesOn,
         Stops, Ends, GivesUp, StopsAfter, Around
    <3>2. CASE Rolled(t) /\ journal' = None
      BY <1>1, <2>0, <2>a, <3>2, CalmIs DEF Rest, Left, Undone, Owned, DockDue, Today, ComposeAts,
         LiftAts, EnforceAts, AnswerAts, Enforcer, Asked, Rolled, JobHas, Carries, GoesOn, Stops,
         Ends, GivesUp, StopsAfter, Around
    <3>3. CASE Halfway(f)
      BY <1>1, <2>0, <2>a, <3>3, CalmIs DEF Rest, Left, Undone, Owned, DockDue, Today, ComposeAts,
         LiftAts, EnforceAts, AnswerAts, Enforcer, Asked, Halfway, StateHas, JobHas, Carries,
         GoesOn, Stops, Ends, GivesUp, StopsAfter, Around
    <3> QED BY <2>a, <3>1, <3>2, <3>3
  <2>7. Found'
    <3>1. CASE Unrolled(t)
      BY <1>1, <2>0, <2>a, <3>1, CalmIs DEF Rest, Found, Owned, ComposeAts, LiftAts, EnforceAts,
         AnswerAts, Enforcer, Asked, Unrolled, JobHas, Carries, GoesOn, Stops, Ends, GivesUp,
         StopsAfter, Around
    <3>2. CASE Rolled(t) /\ journal' = None
      BY <1>1, <2>0, <2>a, <3>2, CalmIs DEF Rest, Found, Owned, ComposeAts, LiftAts, EnforceAts,
         AnswerAts, Enforcer, Asked, Rolled, JobHas, Carries, GoesOn, Stops, Ends, GivesUp,
         StopsAfter, Around
    <3>3. CASE Halfway(f)
      BY <1>1, <2>0, <2>a, <3>3, CalmIs DEF Rest, Found, Owned, ComposeAts, LiftAts, EnforceAts,
         AnswerAts, Enforcer, Asked, Halfway, StateHas, JobHas, Carries, GoesOn, Stops, Ends,
         GivesUp, StopsAfter, Around
    <3> QED BY <2>a, <3>1, <3>2, <3>3
  <2>8. Named'
    <3>1. CASE Unrolled(t)
      BY <1>1, <2>0, <2>a, <3>1, CalmIs DEF Rest, Named, Owned, Journalled, Active, ComposeAts,
         LiftAts, EnforceAts, AnswerAts, Enforcer, Asked, Unrolled, JobHas, Carries, GoesOn,
         Stops, Ends, GivesUp, StopsAfter, Around
    <3>2. CASE Rolled(t) /\ journal' = None
      BY <1>1, <2>0, <2>a, <3>2, CalmIs DEF Rest, Named, Owned, Journalled, Active, ComposeAts,
         LiftAts, EnforceAts, AnswerAts, Enforcer, Asked, Rolled, JobHas, Carries, GoesOn, Stops,
         Ends, GivesUp, StopsAfter, Around
    <3>3. CASE Halfway(f)
      BY <1>1, <2>0, <2>a, <3>3, CalmIs DEF Rest, Named, Owned, Journalled, Active, ComposeAts,
         LiftAts, EnforceAts, AnswerAts, Enforcer, Asked, Halfway, StateHas, JobHas, Carries,
         GoesOn, Stops, Ends, GivesUp, StopsAfter, Around
    <3> QED BY <2>a, <3>1, <3>2, <3>3
  <2> QED BY <2>1, <2>2, <2>3, <2>4, <2>5, <2>6, <2>7, <2>8 DEF Rest
<1> QED BY <1>3, <1>4, <1>5, <1>6, <1>7, <1>8, <1>9, <1>10 DEF IInv

(* A skip names the window in force, or one that is to come.               *)
LEMMA LoosenKeeps ==
  ASSUME IInv, Loosen
  PROVE  IInv'
<1>1. job.at = "load" /\ job.op \in {"skip", "disable"}
  BY DEF IInv, TypeOK, JobSet, Ops, Labels, Loosen, ComposeAts, LiftAts, EnforceAts, AnswerAts,
     Enforcer, Asked
<1>2. PICK s, j, l :
     /\ Went(j) /\ JobHas(j, job.op, l, job.then, s, disk.st, job.win, job.in, job.out, job.moved)
     /\ StateHas(s, disk.st.bed, IF job.op = "skip" THEN job.win ELSE disk.st.skipped,
                 disk.st.dock, disk.st.rest, disk.st.last, disk.st.pending, disk.st.waived)
     /\ l = IF Lifts(job.win) THEN "lift" ELSE "keepRules"
  <2>1. PICK l \in {"lift", "keepRules"} : l = IF Lifts(job.win) THEN "lift" ELSE "keepRules"
    OBVIOUS
  <2>2. PICK s : /\ s = (IF job.op = "skip" THEN [disk.st EXCEPT !.skipped = job.win] ELSE disk.st) /\ s \in State
                 /\ StateHas(s, disk.st.bed, IF job.op = "skip" THEN job.win ELSE disk.st.skipped,
                             disk.st.dock, disk.st.rest, disk.st.last, disk.st.pending,
                             disk.st.waived)
    <3>1. disk.st \in State /\ job.win \in Period \cup {None}
      BY TypeFields DEF IInv, TypeOK, JobSet
    <3>2. StateHas([disk.st EXCEPT !.skipped = job.win], disk.st.bed, job.win, disk.st.dock,
                   disk.st.rest, disk.st.last, disk.st.pending, disk.st.waived)
      BY <3>1, StateEdits
    <3>3. StateHas(disk.st, disk.st.bed, disk.st.skipped, disk.st.dock, disk.st.rest,
                   disk.st.last, disk.st.pending, disk.st.waived)
      BY <3>1, StateFields
    <3> QED BY <3>2, <3>3 DEF StateHas
  <2>3. Load(s, l)
    BY <2>1, <2>2 DEF Loosen
  <2> QED BY <2>1, <2>2, <2>3, LoadIs DEF IInv, Ats, EnforceAts, LiftAts
<1>3. TypeOK'
  BY <1>1, <1>2, TimeLineAssumption DEF IInv, TypeOK, Went, StateHas, Lifts, JobHas, Around,
     Counted
<1>4. Labels'
  BY <1>1, <1>2, TimeLineAssumption DEF IInv, Labels, ComposeAts, LiftAts, EnforceAts, AnswerAts,
     Enforcer, Asked, Went, StateHas, Lifts, JobHas, Around, Counted
<1>5. Running'
  BY <1>1, <1>2, TimeLineAssumption DEF IInv, Running, Labels, ComposeAts, LiftAts, EnforceAts,
     AnswerAts, Enforcer, Asked, Went, StateHas, Lifts, JobHas, Around, Counted
<1>6. Loaded'
  BY <1>1, <1>2, TimeLineAssumption DEF IInv, Loaded, Labels, Kept, Active, ComposeAts, LiftAts,
     EnforceAts, AnswerAts, Enforcer, Asked, Went, StateHas, Lifts, JobHas, Around, Counted
<1>7. Apart'
  BY <1>1, <1>2, CalmIs, TimeLineAssumption DEF StateHas, IInv, Labels, Apart, Plain, Follows,
     Fresh, Kept, Loaded, Target, DueBed, BedDue, ComposeAts, LiftAts, EnforceAts, AnswerAts,
     Enforcer, Asked, Went, StateHas, Lifts, DiskHas, JobHas, Carries, GoesOn, Stops, Ends,
     GivesUp, StopsAfter, Around, Counted
<1>8. Fresh'
  BY <1>1, <1>2, TimeLineAssumption DEF IInv, Fresh, Labels, ComposeAts, LiftAts, EnforceAts,
     AnswerAts, Enforcer, Asked, Went, StateHas, Lifts, DiskHas, JobHas, Carries, GoesOn, Stops,
     Ends, GivesUp, StopsAfter, Around, Counted
<1>9. Follows'
  BY <1>1, <1>2, TimeLineAssumption DEF IInv, TypeOK, Labels, Follows, Fresh, Apart, Plain, Kept,
     Loaded, Standing, BedDue, DockDue, DueBed, Enters, Target, Today, Gone, Active, Nested,
     InForce, By, ComposeAts, LiftAts, EnforceAts, AnswerAts, Enforcer, Asked, Went, StateHas,
     Lifts, DiskHas, JobHas, Carries, GoesOn, Stops, Ends, GivesUp, StopsAfter, Around, Counted
<1>10. ASSUME ~flag', harmed' = {}
       PROVE  Rest'
  <2>0. ~flag /\ harmed = {} /\ Rest /\ Follows /\ Fresh
    BY <1>2, <1>10 DEF IInv, Counted, Went, StateHas, Lifts
  <2>1. Journalled'
    BY <1>1, <1>2, <2>0, TimeLineAssumption DEF Rest, Journalled, Sane, Sound, Held, Standing,
       Today, Gone, Went, StateHas, Lifts, JobHas, Around, Counted
  <2>2. Owned'
    BY <1>1, <1>2, <2>0, TimeLineAssumption DEF Rest, Owned, Standing, Active, Nested, ComposeAts,
       LiftAts, EnforceAts, Enforcer, Asked, Went, StateHas, Lifts, JobHas, Around, Counted
  <2>3. Settled'
    BY <1>1, <1>2, <2>0, TimeLineAssumption DEF Rest, Settled, Fresh, Standing, ComposeAts,
       Enforcer, Went, StateHas, Lifts, JobHas, Around, Counted
  <2>4. Taken'
    BY <1>1, <1>2, <2>0, TimeLineAssumption DEF Rest, Taken, Held, Standing, BedDue, DockDue,
       Enters, Today, ComposeAts, Enforcer, Went, StateHas, Lifts, JobHas, Around, Counted
  <2>5. Undone'
    BY <1>1, <1>2, <2>0, TimeLineAssumption DEF Rest, Undone, Lost, Standing, BedDue, Enters,
       Today, Gone, ComposeAts, Enforcer, Went, StateHas, Lifts, JobHas, Around, Counted
  <2>6. Left'
    BY <1>1, <1>2, <2>0, TimeLineAssumption DEF Rest, Left, Standing, DockDue, Today, Went,
       StateHas, Lifts, JobHas, Around, Counted
  <2>7. Found'
    BY <1>1, <1>2, <2>0, TimeLineAssumption DEF Rest, Found, Owned, Standing, Active, Nested,
       ComposeAts, LiftAts, EnforceAts, Enforcer, Asked, Went, StateHas, Lifts, JobHas, Around,
       Counted
  <2>8. Named'
    <3>1. disk' = disk /\ clock' = clock /\ job'.op = job.op /\ job'.win = job.win /\ job'.st = s
          /\ job'.before = disk.st /\ job'.at = l
      BY <1>2 DEF Went, Around, JobHas
    <3>2. job.op = "skip" =>
            /\ job.win # None /\ disk.on /\ (job.win = Window[clock] \/ job.win > clock)
            /\ job.win \in Period
            /\ l = "keepRules" => s.bed # job.win
      <4> SUFFICES ASSUME job.op = "skip"
                   PROVE  /\ job.win # None /\ disk.on
                          /\ (job.win = Window[clock] \/ job.win > clock) /\ job.win \in Period
                          /\ l = "keepRules" => s.bed # job.win
        OBVIOUS
      <4>1. job.win # None /\ disk.on /\ (job.win = Window[clock] \/ job.win > clock)
            /\ job.win \in Period
        BY <1>1, <2>0 DEF IInv, TypeOK, JobSet, Rest, Named
      <4>2. ASSUME s.bed = job.win PROVE Lifts(job.win)
        <5>1. disk.st.bed = job.win
          BY <1>2, <4>2 DEF StateHas
        <5>2. disk.st.bed <= clock /\ clock \in Nat /\ disk.st.bed \in Nat
          BY <2>0, <4>1, <5>1, TimeLineAssumption DEF IInv, TypeOK, Rest, Journalled, Sane, Period
        <5> QED BY <4>1, <5>1, <5>2 DEF Lifts, Standing
      <4> QED BY <1>2, <4>1, <4>2
    <3> QED BY <1>1, <3>1, <3>2, <1>2 DEF Named, LiftAts
  <2> QED BY <2>1, <2>2, <2>3, <2>4, <2>5, <2>6, <2>7, <2>8 DEF Rest
<1> QED BY <1>3, <1>4, <1>5, <1>6, <1>7, <1>8, <1>9, <1>10 DEF IInv

LEMMA KeepRulesKeeps ==
  ASSUME IInv, KeepRules
  PROVE  IInv'
<1>1. job.at = "keepRules" /\ job.op \in {"skip", "disable"}
  BY DEF IInv, TypeOK, JobSet, Ops, Labels, KeepRules, ComposeAts, LiftAts, EnforceAts, AnswerAts,
     Enforcer, Asked
<1>2. PICK d, t, f, g :
     /\ Wrote(d, t, f) \/ Loses(g, f)
     /\ DiskHas(d, disk.st, disk.on /\ job.op = "skip", disk.bed, disk.eye, disk.dock)
     /\ DiskHas(g, disk.st, FALSE, disk.bed, disk.eye, disk.dock)
     /\ GoesOn(t, "save") /\ GoesOn(f, "refuse")
     /\ StateHas(Calm, None, None, FALSE, None, None, None, None)
  <2>1. DiskHas([disk EXCEPT !.on = @ /\ job.op = "skip"], disk.st, disk.on /\ job.op = "skip",
                disk.bed, disk.eye, disk.dock)
    <3>1. PICK b \in BOOLEAN : b = (disk.on /\ job.op = "skip")
      BY TypeFields DEF IInv
    <3>2. DiskHas([disk EXCEPT !.on = b], disk.st, b, disk.bed, disk.eye, disk.dock)
      BY DiskEdits DEF IInv
    <3> QED BY <3>1, <3>2
  <2>2. PICK d : d = [disk EXCEPT !.on = @ /\ job.op = "skip"]
             /\ DiskHas(d, disk.st, disk.on /\ job.op = "skip", disk.bed, disk.eye, disk.dock)
    BY <2>1
  <2>3. PICK g : g = [disk EXCEPT !.on = FALSE]
             /\ DiskHas(g, disk.st, FALSE, disk.bed, disk.eye, disk.dock)
    BY LostFiles DEF IInv
  <2>4. Wrote(d, To("save"), To("refuse")) \/ Loses(g, To("refuse"))
    BY <2>2, <2>3, WriteIs, LoseIs DEF KeepRules, IInv
  <2>5. GoesOn(To("save"), "save") /\ GoesOn(To("refuse"), "refuse")
    BY ToHas DEF IInv, Ats, AnswerAts
  <2> QED BY <2>2, <2>3, <2>4, <2>5, LostFiles DEF IInv
<1>3. TypeOK'
  BY <1>1, <1>2 DEF IInv, TypeOK, Wrote, Loses, DiskHas, JobHas, Carries, GoesOn, Around, Counted
<1>4. Labels'
  BY <1>1, <1>2 DEF IInv, Labels, ComposeAts, LiftAts, EnforceAts, AnswerAts, Enforcer, Asked,
     Wrote, Loses, DiskHas, JobHas, Carries, GoesOn, Around, Counted
<1>5. Running'
  BY <1>1, <1>2 DEF IInv, Running, Labels, ComposeAts, LiftAts, EnforceAts, AnswerAts, Enforcer,
     Asked, Wrote, Loses, DiskHas, JobHas, Carries, GoesOn, Around, Counted
<1>6. Loaded'
  BY <1>1, <1>2 DEF IInv, Loaded, Labels, Kept, Active, ComposeAts, LiftAts, EnforceAts,
     AnswerAts, Enforcer, Asked, Wrote, Loses, DiskHas, JobHas, Carries, GoesOn, Around, Counted
<1>7. Apart'
  BY <1>1, <1>2, CalmIs DEF StateHas, IInv, Labels, Apart, Plain, Follows, Fresh, Kept, Loaded,
     Target, DueBed, BedDue, ComposeAts, LiftAts, EnforceAts, AnswerAts, Enforcer, Asked, Wrote,
     Loses, StateHas, DiskHas, JobHas, Carries, GoesOn, Stops, Ends, GivesUp, StopsAfter, Around,
     Counted
<1>8. Fresh'
  BY <1>1, <1>2 DEF IInv, Fresh, Labels, ComposeAts, LiftAts, EnforceAts, AnswerAts, Enforcer,
     Asked, Wrote, Loses, StateHas, DiskHas, JobHas, Carries, GoesOn, Stops, Ends, GivesUp,
     StopsAfter, Around, Counted
<1>9. Follows'
  BY <1>1, <1>2 DEF IInv, TypeOK, Labels, Follows, Fresh, Apart, Plain, Kept, Loaded, Standing,
     BedDue, DockDue, DueBed, Enters, Target, Today, Gone, Active, Nested, InForce, By,
     ComposeAts, LiftAts, EnforceAts, AnswerAts, Enforcer, Asked, Wrote, Loses, StateHas, DiskHas,
     JobHas, Carries, GoesOn, Stops, Ends, GivesUp, StopsAfter, Around, Counted
<1>10. ASSUME ~flag', harmed' = {}
       PROVE  Rest'
  <2>0. ~flag /\ harmed = {} /\ Rest /\ Follows /\ Fresh
    BY <1>2, <1>10 DEF IInv, Counted, Wrote, Loses, StateHas
  <2>1. Journalled'
    BY <1>1, <1>2, <1>10, <2>0 DEF IInv, TypeOK, Rest, Journalled, Sane, Sound, Held, Today, Gone,
       Wrote, Loses, DiskHas, JobHas, Carries, GoesOn, Around, Counted, StateHas
  <2>2. Owned'
    BY <1>1, <1>2, <1>10, <2>0 DEF Rest, Owned, Active, Nested, ComposeAts, LiftAts, EnforceAts,
       Enforcer, Asked, Wrote, Loses, DiskHas, JobHas, Carries, GoesOn, Around, Counted, StateHas
  <2>3. Settled'
    BY <1>1, <1>2, <1>10, <2>0 DEF Rest, Settled, Fresh, ComposeAts, Enforcer, Wrote, Loses,
       DiskHas, JobHas, Carries, GoesOn, Around, Counted, StateHas
  <2>4. Taken'
    BY <1>1, <1>2, <1>10, <2>0 DEF Rest, Taken, Held, Standing, BedDue, DockDue, Enters, Today,
       ComposeAts, Enforcer, Wrote, Loses, DiskHas, JobHas, Carries, GoesOn, Around, Counted,
       StateHas
  <2>5. Undone'
    BY <1>1, <1>2, <1>10, <2>0 DEF Rest, Undone, Lost, Standing, BedDue, Enters, Today, Gone,
       ComposeAts, Enforcer, Wrote, Loses, DiskHas, JobHas, Carries, GoesOn, Around, Counted,
       StateHas
  <2>6. Left'
    BY <1>1, <1>2, <1>10, <2>0 DEF Rest, Left, DockDue, Today, Wrote, Loses, DiskHas, JobHas,
       Carries, GoesOn, Around, Counted, StateHas
  <2>7. Found'
    BY <1>1, <1>2, <1>10, <2>0 DEF Rest, Found, Asked, Wrote, Loses, DiskHas, JobHas, Carries,
       GoesOn, Around, Counted, StateHas
  <2>8. Named'
    BY <1>1, <1>2, <1>10, <2>0 DEF Rest, Named, Active, ComposeAts, LiftAts, EnforceAts, Wrote,
       Loses, DiskHas, JobHas, Carries, GoesOn, Around, Counted, StateHas
  <2> QED BY <2>1, <2>2, <2>3, <2>4, <2>5, <2>6, <2>7, <2>8 DEF Rest
<1> QED BY <1>3, <1>4, <1>5, <1>6, <1>7, <1>8, <1>9, <1>10 DEF IInv

LEMMA TightenKeeps ==
  ASSUME IInv, Tighten
  PROVE  IInv'
<1>1. job.at = "load" /\ job.op = "clear"
  BY DEF IInv, TypeOK, JobSet, Ops, Labels, Tighten, ComposeAts, LiftAts, EnforceAts, AnswerAts,
     Enforcer, Asked
<1>2. PICK s, j, l :
     /\ Went(j) /\ JobHas(j, job.op, l, job.then, s, disk.st, job.win, job.in, job.out, job.moved)
     /\ StateHas(s, disk.st.bed, None, disk.st.dock, disk.st.rest, disk.st.last, disk.st.pending,
                 disk.st.waived)
     /\ l = IF Active THEN "journal" ELSE "save"
  <2>1. PICK l \in {"journal", "save"} : l = IF Active THEN "journal" ELSE "save"
    OBVIOUS
  <2>2. PICK s : /\ s = [disk.st EXCEPT !.skipped = None] /\ s \in State
                 /\ StateHas(s, disk.st.bed, None, disk.st.dock, disk.st.rest, disk.st.last,
                             disk.st.pending, disk.st.waived)
    <3>1. StateHas([disk.st EXCEPT !.skipped = None], disk.st.bed, None, disk.st.dock,
                   disk.st.rest, disk.st.last, disk.st.pending, disk.st.waived)
      BY TypeFields, StateEdits DEF IInv
    <3> QED BY <3>1 DEF StateHas
  <2>3. Load(s, l)
    BY <2>1, <2>2 DEF Tighten
  <2> QED BY <2>1, <2>2, <2>3, LoadIs DEF IInv, Ats, AnswerAts
<1>3. TypeOK'
  BY <1>1, <1>2 DEF IInv, TypeOK, Went, StateHas, JobHas, Around, Counted
<1>4. Labels'
  BY <1>1, <1>2 DEF IInv, Labels, ComposeAts, LiftAts, EnforceAts, AnswerAts, Enforcer, Asked,
     Went, StateHas, JobHas, Around, Counted
<1>5. Running'
  BY <1>1, <1>2 DEF IInv, Running, Labels, ComposeAts, LiftAts, EnforceAts, AnswerAts, Enforcer,
     Asked, Went, StateHas, JobHas, Around, Counted
<1>6. Loaded'
  BY <1>1, <1>2 DEF IInv, Loaded, Labels, Kept, Active, ComposeAts, LiftAts, EnforceAts,
     AnswerAts, Enforcer, Asked, Went, StateHas, JobHas, Around, Counted
<1>7. Apart'
  BY <1>1, <1>2, CalmIs DEF StateHas, IInv, Labels, Apart, Plain, Follows, Fresh, Kept, Loaded,
     Target, DueBed, BedDue, ComposeAts, LiftAts, EnforceAts, AnswerAts, Enforcer, Asked, Went,
     StateHas, DiskHas, JobHas, Carries, GoesOn, Stops, Ends, GivesUp, StopsAfter, Around, Counted
<1>8. Fresh'
  BY <1>1, <1>2 DEF IInv, Fresh, Labels, ComposeAts, LiftAts, EnforceAts, AnswerAts, Enforcer,
     Asked, Went, StateHas, DiskHas, JobHas, Carries, GoesOn, Stops, Ends, GivesUp, StopsAfter,
     Around, Counted
<1>9. Follows'
  BY <1>1, <1>2 DEF IInv, TypeOK, Labels, Follows, Fresh, Apart, Plain, Kept, Loaded, Standing,
     BedDue, DockDue, DueBed, Enters, Target, Today, Gone, Active, Nested, InForce, By,
     ComposeAts, LiftAts, EnforceAts, AnswerAts, Enforcer, Asked, Went, StateHas, DiskHas, JobHas,
     Carries, GoesOn, Stops, Ends, GivesUp, StopsAfter, Around, Counted
<1>10. ASSUME ~flag', harmed' = {}
       PROVE  Rest'
  <2>0. ~flag /\ harmed = {} /\ Rest /\ Follows /\ Fresh
    BY <1>2, <1>10 DEF IInv, Counted, Went, StateHas
  <2>1. Journalled'
    BY <1>1, <1>2, <2>0 DEF Rest, Journalled, Sane, Sound, Held, Today, Gone, Active, Went,
       StateHas, JobHas, Around, Counted
  <2>2. Owned'
    BY <1>1, <1>2, <2>0 DEF Rest, Owned, Active, Nested, ComposeAts, LiftAts, EnforceAts,
       Enforcer, Asked, Went, StateHas, JobHas, Around, Counted
  <2>3. Settled'
    BY <1>1, <1>2, <2>0 DEF Rest, Settled, Fresh, Active, ComposeAts, Enforcer, Went, StateHas,
       JobHas, Around, Counted
  <2>4. Taken'
    BY <1>1, <1>2, <2>0 DEF Rest, Taken, Held, Standing, BedDue, DockDue, Enters, Today, Active,
       ComposeAts, Enforcer, Went, StateHas, JobHas, Around, Counted
  <2>5. Undone'
    BY <1>1, <1>2, <2>0 DEF Rest, Undone, Lost, Standing, BedDue, Enters, Today, Gone, Active,
       ComposeAts, Enforcer, Went, StateHas, JobHas, Around, Counted
  <2>6. Left'
    BY <1>1, <1>2, <2>0 DEF Rest, Left, DockDue, Today, Active, Went, StateHas, JobHas, Around,
       Counted
  <2>7. Found'
    BY <1>1, <1>2, <2>0 DEF Rest, Found, Owned, Active, Nested, ComposeAts, LiftAts, EnforceAts,
       Enforcer, Asked, Went, StateHas, JobHas, Around, Counted
  <2>8. Named'
    BY <1>1, <1>2, <2>0 DEF Rest, Named, Active, ComposeAts, LiftAts, EnforceAts, Went, StateHas,
       JobHas, Around, Counted
  <2> QED BY <2>1, <2>2, <2>3, <2>4, <2>5, <2>6, <2>7, <2>8 DEF Rest
<1> QED BY <1>3, <1>4, <1>5, <1>6, <1>7, <1>8, <1>9, <1>10 DEF IInv

LEMMA WakeKeeps ==
  ASSUME IInv, Wake
  PROVE  IInv'
<1>1. job.at = "load" /\ job.op = "rest"
  BY DEF IInv, TypeOK, JobSet, Ops, Labels, Wake, ComposeAts, LiftAts, EnforceAts, AnswerAts,
     Enforcer, Asked
<1>2. PICK s, j, l :
     /\ Went(j) /\ JobHas(j, job.op, l, job.then, s, disk.st, job.win, job.in, job.out, job.moved)
     /\ \/ /\ l = "journal" /\ Resting(disk.st)
           /\ StateHas(s, disk.st.bed, disk.st.skipped, disk.st.dock, None, disk.st.last,
                       disk.st.pending, disk.st.waived)
        \/ l = "refuse" /\ s = disk.st
  <2>1. CASE Resting(disk.st)
    <3>1. PICK s : /\ s = [disk.st EXCEPT !.rest = None] /\ s \in State
                   /\ StateHas(s, disk.st.bed, disk.st.skipped, disk.st.dock, None, disk.st.last,
                               disk.st.pending, disk.st.waived)
      <4>1. StateHas([disk.st EXCEPT !.rest = None], disk.st.bed, disk.st.skipped, disk.st.dock,
                     None, disk.st.last, disk.st.pending, disk.st.waived)
        BY TypeFields, StateEdits DEF IInv
      <4> QED BY <4>1 DEF StateHas
    <3>2. Load(s, "journal")
      BY <2>1, <3>1 DEF Wake
    <3>3. PICK j : Went(j) /\ JobHas(j, job.op, "journal", job.then, s, disk.st, job.win, job.in,
                                     job.out, job.moved)
      BY <3>1, <3>2, LoadIs DEF IInv, Ats
    <3> QED BY <2>1, <3>1, <3>3
  <2>2. CASE ~Resting(disk.st)
    <3>1. Load(disk.st, "refuse")
      BY <2>2 DEF Wake
    <3>2. PICK j : Went(j) /\ JobHas(j, job.op, "refuse", job.then, disk.st, disk.st, job.win,
                                     job.in, job.out, job.moved)
      BY <3>1, LoadIs, TypeFields DEF IInv, Ats, AnswerAts
    <3> QED BY <3>2
  <2> QED BY <2>1, <2>2
<1>3. TypeOK'
  BY <1>1, <1>2 DEF IInv, TypeOK, Went, StateHas, JobHas, Around, Counted
<1>4. Labels'
  BY <1>1, <1>2 DEF IInv, Labels, ComposeAts, LiftAts, EnforceAts, AnswerAts, Enforcer, Asked,
     Went, StateHas, JobHas, Around, Counted
<1>5. Running'
  BY <1>1, <1>2 DEF IInv, Running, Labels, ComposeAts, LiftAts, EnforceAts, AnswerAts, Enforcer,
     Asked, Went, StateHas, JobHas, Around, Counted
<1>6. Loaded'
  BY <1>1, <1>2 DEF IInv, Loaded, Labels, Kept, Active, ComposeAts, LiftAts, EnforceAts,
     AnswerAts, Enforcer, Asked, Went, StateHas, JobHas, Around, Counted
<1>7. Apart'
  BY <1>1, <1>2, CalmIs DEF StateHas, IInv, Labels, Apart, Plain, Follows, Fresh, Kept, Loaded,
     Target, DueBed, BedDue, ComposeAts, LiftAts, EnforceAts, AnswerAts, Enforcer, Asked, Went,
     StateHas, DiskHas, JobHas, Carries, GoesOn, Stops, Ends, GivesUp, StopsAfter, Around, Counted
<1>8. Fresh'
  BY <1>1, <1>2 DEF IInv, Fresh, Labels, ComposeAts, LiftAts, EnforceAts, AnswerAts, Enforcer,
     Asked, Went, StateHas, DiskHas, JobHas, Carries, GoesOn, Stops, Ends, GivesUp, StopsAfter,
     Around, Counted
<1>9. Follows'
  BY <1>1, <1>2 DEF IInv, TypeOK, Labels, Follows, Fresh, Apart, Plain, Kept, Loaded, Standing,
     BedDue, DockDue, DueBed, Enters, Target, Today, Gone, Active, Nested, InForce, By,
     ComposeAts, LiftAts, EnforceAts, AnswerAts, Enforcer, Asked, Went, StateHas, DiskHas, JobHas,
     Carries, GoesOn, Stops, Ends, GivesUp, StopsAfter, Around, Counted
<1>10. ASSUME ~flag', harmed' = {}
       PROVE  Rest'
  <2>0. ~flag /\ harmed = {} /\ Rest /\ Follows /\ Fresh
    BY <1>2, <1>10 DEF IInv, Counted, Went, StateHas
  <2>1. Journalled'
    BY <1>1, <1>2, <2>0 DEF Rest, Journalled, Sane, Sound, Held, Standing, BedDue, Today, Gone,
       Went, StateHas, JobHas, Around, Counted
  <2>2. Owned'
    BY <1>1, <1>2, <2>0 DEF Rest, Owned, Standing, BedDue, Active, Nested, ComposeAts, LiftAts,
       EnforceAts, Enforcer, Asked, Went, StateHas, JobHas, Around, Counted
  <2>3. Settled'
    BY <1>1, <1>2, <2>0 DEF Rest, Settled, Fresh, Standing, BedDue, ComposeAts, Enforcer, Went,
       StateHas, JobHas, Around, Counted
  <2>4. Taken'
    BY <1>1, <1>2, <2>0 DEF Rest, Taken, Held, Standing, BedDue, DockDue, Enters, Today,
       ComposeAts, Enforcer, Went, StateHas, JobHas, Around, Counted
  <2>5. Undone'
    BY <1>1, <1>2, <2>0 DEF Rest, Undone, Lost, Standing, BedDue, Enters, Today, Gone, ComposeAts,
       Enforcer, Went, StateHas, JobHas, Around, Counted
  <2>6. Left'
    BY <1>1, <1>2, <2>0 DEF Rest, Left, Standing, BedDue, DockDue, Today, Went, StateHas, JobHas,
       Around, Counted
  <2>7. Found'
    BY <1>1, <1>2, <2>0 DEF Rest, Found, Owned, Standing, BedDue, Active, Nested, ComposeAts,
       LiftAts, EnforceAts, Enforcer, Asked, Went, StateHas, JobHas, Around, Counted
  <2>8. Named'
    BY <1>1, <1>2, <2>0 DEF Rest, Named, Standing, BedDue, Active, ComposeAts, LiftAts,
       EnforceAts, Went, StateHas, JobHas, Around, Counted
  <2> QED BY <2>1, <2>2, <2>3, <2>4, <2>5, <2>6, <2>7, <2>8 DEF Rest
<1> QED BY <1>3, <1>4, <1>5, <1>6, <1>7, <1>8, <1>9, <1>10 DEF IInv

LEMMA WakeWriteKeeps ==
  ASSUME IInv, WakeWrite
  PROVE  IInv'
<1>1. job.at = "wake" /\ job.op = "rest"
  BY DEF IInv, TypeOK, JobSet, Ops, Labels, WakeWrite, ComposeAts, LiftAts, EnforceAts, AnswerAts,
     Enforcer, Asked
<1>2. PICK s, t, f, p :
     /\ WrotePctl(p, t, {f}) /\ p \in Slots /\ Carries(t, "save", s) /\ GoesOn(f, "undo")
     /\ StateHas(s, job.st.bed, job.st.skipped, job.st.dock, job.st.rest,
                 <<Today, Target(job.st)>>, job.st.pending, job.st.waived)
  <2>1. PICK s : /\ s = [job.st EXCEPT !.last = <<Today, Target(job.st)>>] /\ s \in State
                 /\ StateHas(s, job.st.bed, job.st.skipped, job.st.dock, job.st.rest,
                             <<Today, Target(job.st)>>, job.st.pending, job.st.waived)
    BY LastIs, TypeFields DEF IInv
  <2>2. PICK t : t = [To("save") EXCEPT !.st = s] /\ Carries(t, "save", s)
    BY <2>1, ToHas DEF IInv, Ats, AnswerAts
  <2>3. GoesOn(To("undo"), "undo")
    BY ToHas DEF IInv, Ats, EnforceAts
  <2>4. WrotePctl(Slot(Target(s)), t, {To("undo")})
    BY <2>1, <2>2, WritePctlIs DEF WakeWrite, IInv
  <2>5. Slot(Target(s)) \in Slots
    BY <2>1, DueIs, TodayIs DEF IInv
  <2> QED BY <2>1, <2>2, <2>3, <2>4, <2>5
<1>3. TypeOK'
  BY <1>1, <1>2 DEF IInv, TypeOK, WrotePctl, StateHas, JobHas, Carries, GoesOn, Around, Counted
<1>4. Labels'
  BY <1>1, <1>2 DEF IInv, Labels, ComposeAts, LiftAts, EnforceAts, AnswerAts, Enforcer, Asked,
     WrotePctl, StateHas, JobHas, Carries, GoesOn, Around, Counted
<1>5. Running'
  BY <1>1, <1>2 DEF IInv, Running, Labels, ComposeAts, LiftAts, EnforceAts, AnswerAts, Enforcer,
     Asked, WrotePctl, StateHas, JobHas, Carries, GoesOn, Around, Counted
<1>6. Loaded'
  BY <1>1, <1>2 DEF IInv, Loaded, Labels, Kept, Today, Active, ComposeAts, LiftAts, EnforceAts,
     AnswerAts, Enforcer, Asked, WrotePctl, StateHas, JobHas, Carries, GoesOn, Around, Counted
<1>7. Apart'
  BY <1>1, <1>2, CalmIs DEF StateHas, IInv, Labels, Apart, Plain, Follows, Fresh, Kept, Loaded,
     Target, DueBed, BedDue, ComposeAts, LiftAts, EnforceAts, AnswerAts, Enforcer, Asked,
     WrotePctl, StateHas, DiskHas, JobHas, Carries, GoesOn, Stops, Ends, GivesUp, StopsAfter,
     Around, Counted
<1>8. Fresh'
  BY <1>1, <1>2 DEF IInv, Fresh, Labels, ComposeAts, LiftAts, EnforceAts, AnswerAts, Enforcer,
     Asked, WrotePctl, StateHas, DiskHas, JobHas, Carries, GoesOn, Stops, Ends, GivesUp,
     StopsAfter, Around, Counted
<1>9. Follows'
  BY <1>1, <1>2 DEF IInv, TypeOK, Labels, Follows, Fresh, Apart, Plain, Kept, Loaded, Standing,
     BedDue, DockDue, DueBed, Enters, Target, Today, Gone, Active, Nested, InForce, By,
     ComposeAts, LiftAts, EnforceAts, AnswerAts, Enforcer, Asked, WrotePctl, StateHas, DiskHas,
     JobHas, Carries, GoesOn, Stops, Ends, GivesUp, StopsAfter, Around, Counted
<1>10. ASSUME ~flag', harmed' = {}
       PROVE  Rest'
  <2>0. ~flag /\ harmed = {} /\ Rest /\ Follows /\ Fresh
    BY <1>2, <1>10 DEF IInv, Counted, WrotePctl, StateHas
  <2>1. Journalled'
    BY <1>1, <1>2, <2>0 DEF Rest, Journalled, Sane, Sound, Held, Standing, BedDue, DockDue,
       Target, Today, Gone, WrotePctl, StateHas, JobHas, Carries, GoesOn, Around, Counted
  <2>2. Owned'
    BY <1>1, <1>2, <2>0 DEF Rest, Owned, Standing, BedDue, DockDue, Target, Today, Active, Nested,
       ComposeAts, LiftAts, EnforceAts, Enforcer, Asked, WrotePctl, StateHas, JobHas, Carries,
       GoesOn, Around, Counted
  <2>3. Settled'
    BY <1>1, <1>2, <2>0 DEF Rest, Settled, Fresh, Standing, BedDue, DockDue, Target, Today,
       ComposeAts, Enforcer, WrotePctl, StateHas, JobHas, Carries, GoesOn, Around, Counted
  <2>4. Taken'
    BY <1>1, <1>2, <2>0 DEF Rest, Taken, Held, Standing, BedDue, DockDue, Enters, Target, Today,
       ComposeAts, Enforcer, WrotePctl, StateHas, JobHas, Carries, GoesOn, Around, Counted
  <2>5. Undone'
    BY <1>1, <1>2, <2>0 DEF Rest, Undone, Lost, Standing, BedDue, DockDue, Enters, Target, Today,
       Gone, ComposeAts, Enforcer, WrotePctl, StateHas, JobHas, Carries, GoesOn, Around, Counted
  <2>6. Left'
    BY <1>1, <1>2, <2>0 DEF Rest, Left, Standing, BedDue, DockDue, Target, Today, WrotePctl,
       StateHas, JobHas, Carries, GoesOn, Around, Counted
  <2>7. Found'
    BY <1>1, <1>2, <2>0 DEF Rest, Found, Standing, BedDue, DockDue, Target, Today, Asked,
       WrotePctl, StateHas, JobHas, Carries, GoesOn, Around, Counted
  <2>8. Named'
    BY <1>1, <1>2, <2>0 DEF Rest, Named, Standing, BedDue, DockDue, Target, Today, Active,
       ComposeAts, LiftAts, EnforceAts, WrotePctl, StateHas, JobHas, Carries, GoesOn, Around,
       Counted
  <2> QED BY <2>1, <2>2, <2>3, <2>4, <2>5, <2>6, <2>7, <2>8 DEF Rest
<1> QED BY <1>3, <1>4, <1>5, <1>6, <1>7, <1>8, <1>9, <1>10 DEF IInv

LEMMA WaiveLoadKeeps ==
  ASSUME IInv, WaiveLoad
  PROVE  IInv'
<1>1. job.at = "load" /\ job.op = "waive"
  BY DEF IInv, TypeOK, JobSet, Ops, Labels, WaiveLoad, ComposeAts, LiftAts, EnforceAts, AnswerAts,
     Enforcer, Asked
<1>2. PICK s, j :
     /\ Went(j)
     /\ JobHas(j, job.op, "journal", job.then, s, disk.st, job.win, job.in, job.out, job.moved)
     /\ StateHas(s, disk.st.bed, disk.st.skipped, disk.st.dock, disk.st.rest, disk.st.last,
                 disk.st.pending, Today)
  <2>1. PICK s : /\ s = [disk.st EXCEPT !.waived = Today] /\ s \in State
                 /\ StateHas(s, disk.st.bed, disk.st.skipped, disk.st.dock, disk.st.rest,
                             disk.st.last, disk.st.pending, Today)
    <3>1. StateHas([disk.st EXCEPT !.waived = Today], disk.st.bed, disk.st.skipped, disk.st.dock,
                   disk.st.rest, disk.st.last, disk.st.pending, Today)
      BY TypeFields, StateEdits, TodayIs DEF IInv
    <3> QED BY <3>1 DEF StateHas
  <2>2. Load(s, "journal")
    BY <2>1 DEF WaiveLoad
  <2> QED BY <2>1, <2>2, LoadIs DEF IInv, Ats
<1>3. TypeOK'
  BY <1>1, <1>2 DEF IInv, TypeOK, Went, StateHas, JobHas, Around, Counted
<1>4. Labels'
  BY <1>1, <1>2 DEF IInv, Labels, ComposeAts, LiftAts, EnforceAts, AnswerAts, Enforcer, Asked,
     Went, StateHas, JobHas, Around, Counted
<1>5. Running'
  BY <1>1, <1>2 DEF IInv, Running, Labels, ComposeAts, LiftAts, EnforceAts, AnswerAts, Enforcer,
     Asked, Went, StateHas, JobHas, Around, Counted
<1>6. Loaded'
  BY <1>1, <1>2 DEF IInv, Loaded, Labels, Kept, Today, Active, ComposeAts, LiftAts, EnforceAts,
     AnswerAts, Enforcer, Asked, Went, StateHas, JobHas, Around, Counted
<1>7. Apart'
  BY <1>1, <1>2, CalmIs DEF StateHas, IInv, Labels, Apart, Plain, Follows, Fresh, Kept, Loaded,
     Target, DueBed, BedDue, ComposeAts, LiftAts, EnforceAts, AnswerAts, Enforcer, Asked, Went,
     StateHas, DiskHas, JobHas, Carries, GoesOn, Stops, Ends, GivesUp, StopsAfter, Around, Counted
<1>8. Fresh'
  BY <1>1, <1>2 DEF IInv, Fresh, Labels, ComposeAts, LiftAts, EnforceAts, AnswerAts, Enforcer,
     Asked, Went, StateHas, DiskHas, JobHas, Carries, GoesOn, Stops, Ends, GivesUp, StopsAfter,
     Around, Counted
<1>9. Follows'
  BY <1>1, <1>2 DEF IInv, TypeOK, Labels, Follows, Fresh, Apart, Plain, Kept, Loaded, Standing,
     BedDue, DockDue, DueBed, Enters, Target, Today, Gone, Active, Nested, InForce, By,
     ComposeAts, LiftAts, EnforceAts, AnswerAts, Enforcer, Asked, Went, StateHas, DiskHas, JobHas,
     Carries, GoesOn, Stops, Ends, GivesUp, StopsAfter, Around, Counted
<1>10. ASSUME ~flag', harmed' = {}
       PROVE  Rest'
  <2>0. ~flag /\ harmed = {} /\ Rest /\ Follows /\ Fresh
    BY <1>2, <1>10 DEF IInv, Counted, Went, StateHas
  <2>1. Journalled'
    BY <1>1, <1>2, <2>0 DEF Rest, Journalled, Sane, Sound, Held, Today, Gone, Went, StateHas,
       JobHas, Around, Counted
  <2>2. Owned'
    BY <1>1, <1>2, <2>0 DEF Rest, Owned, Today, Active, Nested, ComposeAts, LiftAts, EnforceAts,
       Enforcer, Asked, Went, StateHas, JobHas, Around, Counted
  <2>3. Settled'
    BY <1>1, <1>2, <2>0 DEF Rest, Settled, Fresh, Today, ComposeAts, Enforcer, Went, StateHas,
       JobHas, Around, Counted
  <2>4. Taken'
    BY <1>1, <1>2, <2>0 DEF Rest, Taken, Held, Standing, BedDue, DockDue, Enters, Today,
       ComposeAts, Enforcer, Went, StateHas, JobHas, Around, Counted
  <2>5. Undone'
    BY <1>1, <1>2, <2>0 DEF Rest, Undone, Lost, Standing, BedDue, Enters, Today, Gone, ComposeAts,
       Enforcer, Went, StateHas, JobHas, Around, Counted
  <2>6. Left'
    BY <1>1, <1>2, <2>0 DEF Rest, Left, DockDue, Today, Went, StateHas, JobHas, Around, Counted
  <2>7. Found'
    BY <1>1, <1>2, <2>0 DEF Rest, Found, Owned, Today, Active, Nested, ComposeAts, LiftAts,
       EnforceAts, Enforcer, Asked, Went, StateHas, JobHas, Around, Counted
  <2>8. Named'
    BY <1>1, <1>2, <2>0 DEF Rest, Named, Today, Active, ComposeAts, LiftAts, EnforceAts, Went,
       StateHas, JobHas, Around, Counted
  <2> QED BY <2>1, <2>2, <2>3, <2>4, <2>5, <2>6, <2>7, <2>8 DEF Rest
<1> QED BY <1>3, <1>4, <1>5, <1>6, <1>7, <1>8, <1>9, <1>10 DEF IInv

LEMMA JournalKeeps ==
  ASSUME IInv, Journal
  PROVE  IInv'
<1>1. job.at = "journal" /\ job.op \in {"clear", "waive", "rest"}
  BY DEF IInv, TypeOK, JobSet, Ops, Labels, Journal, ComposeAts, LiftAts, EnforceAts, AnswerAts,
     Enforcer, Asked
<1>2. PICK t, f : Began(t, f) /\ GoesOn(f, "refuse")
           /\ ((job.op = "rest" /\ GoesOn(t, "wake")) \/ (job.op # "rest" /\ GoesOn(t, "save")))
  <2>1. PICK t : /\ t = To(IF job.op = "rest" THEN "wake" ELSE "save")
                 /\ (job.op = "rest" /\ GoesOn(t, "wake")) \/ (job.op # "rest" /\ GoesOn(t,
                        "save"))
    BY ToHas DEF IInv, Ats, AnswerAts
  <2>2. Began(t, To("refuse"))
    BY <2>1, BeginIs DEF Journal, IInv
  <2>3. GoesOn(To("refuse"), "refuse")
    BY ToHas DEF IInv, Ats, AnswerAts
  <2> QED BY <2>1, <2>2, <2>3
<1>3. TypeOK'
  BY <1>1, <1>2 DEF IInv, TypeOK, Began, Opened, JobHas, Carries, GoesOn, Around, Counted
<1>4. Labels'
  BY <1>1, <1>2 DEF IInv, Labels, ComposeAts, LiftAts, EnforceAts, AnswerAts, Enforcer, Asked,
     Began, Opened, JobHas, Carries, GoesOn, Around, Counted
<1>5. Running'
  BY <1>1, <1>2 DEF IInv, Running, Labels, ComposeAts, LiftAts, EnforceAts, AnswerAts, Enforcer,
     Asked, Began, Opened, JobHas, Carries, GoesOn, Around, Counted
<1>6. Loaded'
  BY <1>1, <1>2 DEF IInv, Loaded, Labels, Kept, Active, ComposeAts, LiftAts, EnforceAts,
     AnswerAts, Enforcer, Asked, Began, Opened, JobHas, Carries, GoesOn, Around, Counted
<1>7. Apart'
  BY <1>1, <1>2, CalmIs DEF StateHas, IInv, Labels, Apart, Plain, Follows, Fresh, Kept, Loaded,
     Target, DueBed, BedDue, ComposeAts, LiftAts, EnforceAts, AnswerAts, Enforcer, Asked, Began,
     Opened, DiskHas, JobHas, Carries, GoesOn, Stops, Ends, GivesUp, StopsAfter, Around, Counted
<1>8. Fresh'
  BY <1>1, <1>2 DEF IInv, Fresh, Labels, ComposeAts, LiftAts, EnforceAts, AnswerAts, Enforcer,
     Asked, Began, Opened, DiskHas, JobHas, Carries, GoesOn, Stops, Ends, GivesUp, StopsAfter,
     Around, Counted
<1>9. Follows'
  BY <1>1, <1>2 DEF IInv, TypeOK, Labels, Follows, Fresh, Apart, Plain, Kept, Loaded, Standing,
     BedDue, DockDue, DueBed, Enters, Target, Today, Gone, Active, Nested, InForce, By,
     ComposeAts, LiftAts, EnforceAts, AnswerAts, Enforcer, Asked, Began, Opened, DiskHas, JobHas,
     Carries, GoesOn, Stops, Ends, GivesUp, StopsAfter, Around, Counted
<1>10. ASSUME ~flag', harmed' = {}
       PROVE  Rest'
  <2>0. ~flag /\ harmed = {} /\ Rest /\ Follows /\ Fresh
    BY <1>2, <1>10 DEF IInv, Counted, Began, Opened
  <2>1. Journalled'
    BY <1>1, <1>2, <2>0 DEF Rest, Journalled, Sane, Sound, Held, Today, Gone, By, Began, Opened,
       JobHas, Carries, GoesOn, Around, Counted
  <2>2. Owned'
    BY <1>1, <1>2, <2>0 DEF Rest, Owned, Active, Nested, By, ComposeAts, LiftAts, EnforceAts,
       Enforcer, Asked, Began, Opened, JobHas, Carries, GoesOn, Around, Counted
  <2>3. Settled'
    BY <1>1, <1>2, <2>0 DEF Rest, Settled, Fresh, By, ComposeAts, Enforcer, Began, Opened, JobHas,
       Carries, GoesOn, Around, Counted
  <2>4. Taken'
    BY <1>1, <1>2, <2>0 DEF Rest, Taken, Held, Standing, BedDue, DockDue, Enters, Today, By,
       ComposeAts, Enforcer, Began, Opened, JobHas, Carries, GoesOn, Around, Counted
  <2>5. Undone'
    BY <1>1, <1>2, <2>0 DEF Rest, Undone, Lost, Standing, BedDue, Enters, Today, Gone, By,
       ComposeAts, Enforcer, Began, Opened, JobHas, Carries, GoesOn, Around, Counted
  <2>6. Left'
    BY <1>1, <1>2, <2>0 DEF Rest, Left, DockDue, Today, By, Began, Opened, JobHas, Carries,
       GoesOn, Around, Counted
  <2>7. Found'
    BY <1>1, <1>2, <2>0 DEF Rest, Found, By, Asked, Began, Opened, JobHas, Carries, GoesOn,
       Around, Counted
  <2>8. Named'
    BY <1>1, <1>2, <2>0 DEF Rest, Named, Active, By, ComposeAts, LiftAts, EnforceAts, Began,
       Opened, JobHas, Carries, GoesOn, Around, Counted
  <2> QED BY <2>1, <2>2, <2>3, <2>4, <2>5, <2>6, <2>7, <2>8 DEF Rest
<1> QED BY <1>3, <1>4, <1>5, <1>6, <1>7, <1>8, <1>9, <1>10 DEF IInv

LEMMA SaveKeeps ==
  ASSUME IInv, Save
  PROVE  IInv'
<1>1. job.at = "save" /\ job.op \in Asked
  BY DEF IInv, TypeOK, JobSet, Ops, Labels, Save, ComposeAts, LiftAts, EnforceAts, AnswerAts,
     Enforcer, Asked
<1>2. PICK d, t, f, l, m, g :
     /\ Wrote(d, t, f) \/ Loses(g, f)
     /\ DiskHas(g, Calm, disk.on, disk.bed, disk.eye, disk.dock)
     /\ StateHas(Calm, None, None, FALSE, None, None, None, None)
     /\ DiskHas(d, job.st, disk.on, disk.bed, disk.eye, disk.dock)
     /\ GoesOn(t, l) /\ GoesOn(f, m)
     /\ l = IF ~Nested THEN "answer" ELSE IF ~flag THEN "sample"
                                          ELSE IF job.st.dock THEN "release" ELSE "answer"
     /\ \/ job.op = "clear" /\ m = "withdraw"
        \/ job.op = "rest" /\ m = "takeBack"
        \/ job.op \notin {"clear", "rest"} /\ m = "refuse"
  <2>1. PICK l \in {"answer", "sample", "release"} :
          l = IF ~Nested THEN "answer" ELSE IF ~flag THEN "sample"
                                            ELSE IF job.st.dock THEN "release" ELSE "answer"
    OBVIOUS
  <2>2. PICK m \in {"withdraw", "takeBack", "refuse"} :
          /\ m = CASE job.op = "clear" -> "withdraw" [] job.op = "rest" -> "takeBack" [] OTHER -> "refuse"
          /\ \/ job.op = "clear" /\ m = "withdraw"
             \/ job.op = "rest" /\ m = "takeBack"
             \/ job.op \notin {"clear", "rest"} /\ m = "refuse"
    OBVIOUS
  <2>3. PICK d : d = [disk EXCEPT !.st = job.st]
             /\ DiskHas(d, job.st, disk.on, disk.bed, disk.eye, disk.dock)
    BY TypeFields, DiskEdits DEF IInv
  <2>4. PICK t, f : t = To(l) /\ f = To(m) /\ GoesOn(t, l) /\ GoesOn(f, m)
    BY <2>1, <2>2, ToHas DEF IInv, Ats, EnforceAts, AnswerAts
  <2>5. Wrote(d, t, f) \/ Loses([disk EXCEPT !.st = Calm], f)
    BY <2>1, <2>2, <2>3, <2>4, WriteFileIs DEF Save, IInv
  <2> QED BY <2>1, <2>2, <2>3, <2>4, <2>5, LostFiles DEF IInv
<1>3. TypeOK'
  BY <1>1, <1>2 DEF IInv, TypeOK, Wrote, Loses, DiskHas, JobHas, Carries, GoesOn, Around, Counted
<1>4. Labels'
  BY <1>1, <1>2 DEF IInv, Labels, ComposeAts, LiftAts, EnforceAts, AnswerAts, Enforcer, Asked,
     Wrote, Loses, DiskHas, JobHas, Carries, GoesOn, Around, Counted, Nested, Running
<1>5. Running'
  BY <1>1, <1>2 DEF IInv, Running, Labels, ComposeAts, LiftAts, EnforceAts, AnswerAts, Enforcer,
     Asked, Wrote, Loses, DiskHas, JobHas, Carries, GoesOn, Around, Counted
<1>6. Loaded'
  BY <1>1, <1>2 DEF IInv, Loaded, Labels, Kept, Active, ComposeAts, LiftAts, EnforceAts,
     AnswerAts, Enforcer, Asked, Wrote, Loses, DiskHas, JobHas, Carries, GoesOn, Around, Counted
<1>7. Apart'
  BY <1>1, <1>2, CalmIs DEF StateHas, IInv, Labels, Apart, Plain, Follows, Fresh, Kept, Loaded,
     Target, DueBed, BedDue, ComposeAts, LiftAts, EnforceAts, AnswerAts, Enforcer, Asked, Wrote,
     Loses, StateHas, DiskHas, JobHas, Carries, GoesOn, Stops, Ends, GivesUp, StopsAfter, Around,
     Counted
<1>8. Fresh'
  BY <1>1, <1>2 DEF IInv, Fresh, Labels, ComposeAts, LiftAts, EnforceAts, AnswerAts, Enforcer,
     Asked, Wrote, Loses, StateHas, DiskHas, JobHas, Carries, GoesOn, Stops, Ends, GivesUp,
     StopsAfter, Around, Counted
<1>9. Follows'
  BY <1>1, <1>2 DEF IInv, TypeOK, Labels, Follows, Fresh, Apart, Plain, Kept, Loaded, Standing,
     BedDue, DockDue, DueBed, Enters, Target, Today, Gone, Active, Nested, InForce, By,
     ComposeAts, LiftAts, EnforceAts, AnswerAts, Enforcer, Asked, Wrote, Loses, StateHas, DiskHas,
     JobHas, Carries, GoesOn, Stops, Ends, GivesUp, StopsAfter, Around, Counted
<1>10. ASSUME ~flag', harmed' = {}
       PROVE  Rest'
  <2>0. ~flag /\ harmed = {} /\ Rest /\ Follows /\ Fresh
    BY <1>2, <1>10 DEF IInv, Counted, Wrote, Loses, StateHas
  <2>1. Journalled'
    BY <1>1, <1>2, <1>10, <2>0 DEF IInv, Rest, Journalled, Settled, Fresh, Sane, Sound, Held,
       Kept, Loaded, Named, Today, Gone, Active, Nested, ComposeAts, LiftAts, EnforceAts,
       Enforcer, Asked, Wrote, Loses, DiskHas, JobHas, Carries, GoesOn, Around, Counted, StateHas
  <2>2. Owned'
    BY <1>1, <1>2, <1>10, <2>0 DEF Rest, Owned, Active, Nested, ComposeAts, LiftAts, EnforceAts,
       Enforcer, Asked, Wrote, Loses, DiskHas, JobHas, Carries, GoesOn, Around, Counted, StateHas
  <2>3. Settled'
    BY <1>1, <1>2, <1>10, <2>0 DEF Rest, Settled, Fresh, Active, Nested, ComposeAts, Enforcer,
       Asked, Wrote, Loses, DiskHas, JobHas, Carries, GoesOn, Around, Counted, StateHas
  <2>4. Taken'
    BY <1>1, <1>2, <1>10, <2>0 DEF Rest, Taken, Held, Standing, BedDue, DockDue, Enters, Today,
       Active, Nested, ComposeAts, Enforcer, Asked, Wrote, Loses, DiskHas, JobHas, Carries,
       GoesOn, Around, Counted, StateHas
  <2>5. Undone'
    BY <1>1, <1>2, <1>10, <2>0 DEF IInv, Rest, Undone, Lost, Kept, Loaded, Found, Standing,
       BedDue, Enters, Today, Gone, Active, Nested, ComposeAts, LiftAts, Enforcer, Asked, Wrote,
       Loses, DiskHas, JobHas, Carries, GoesOn, Around, Counted, StateHas
  <2>6. Left'
    BY <1>1, <1>2, <1>10, <2>0 DEF Rest, Left, DockDue, Today, Active, Nested, Asked, Wrote,
       Loses, DiskHas, JobHas, Carries, GoesOn, Around, Counted, StateHas
  <2>7. Found'
    BY <1>1, <1>2, <1>10, <2>0 DEF IInv, Rest, Found, Owned, Loaded, Active, Nested, ComposeAts,
       LiftAts, EnforceAts, Enforcer, Asked, Wrote, Loses, DiskHas, JobHas, Carries, GoesOn,
       Around, Counted, StateHas
  <2>8. Named'
    BY <1>1, <1>2, <1>10, <2>0 DEF Rest, Named, Active, Nested, ComposeAts, LiftAts, EnforceAts,
       Asked, Wrote, Loses, DiskHas, JobHas, Carries, GoesOn, Around, Counted, StateHas
  <2> QED BY <2>1, <2>2, <2>3, <2>4, <2>5, <2>6, <2>7, <2>8 DEF Rest
<1> QED BY <1>3, <1>4, <1>5, <1>6, <1>7, <1>8, <1>9, <1>10 DEF IInv

LEMMA ReleaseKeeps ==
  ASSUME IInv, Release
  PROVE  IInv'
<1>1. job.at = "release" /\ job.op = "waive"
  BY DEF IInv, TypeOK, JobSet, Ops, Labels, Release, ComposeAts, LiftAts, EnforceAts, AnswerAts,
     Enforcer, Asked
<1>2. PICK s, t, f, g, p :
     /\ Went(t) \/ WrotePctl(p, t, {f, g})
     /\ p \in Slots /\ Carries(t, "released", s) /\ GoesOn(f, "undo") /\ GoesOn(g, "refuse")
     /\ s \in State /\ s.bed = job.st.bed /\ s.rest = job.st.rest
  <2>1. PICK s : s = [job.st EXCEPT !.dock = FALSE, !.last = <<Today, Target(job.st)>>]
             /\ s \in State /\ s.bed = job.st.bed /\ s.rest = job.st.rest
    <3>1. <<Today, Target(job.st)>> \in Date \X Setting /\ job.st \in State
      BY TodayIs, DueIs, TypeFields DEF IInv
    <3>2. PICK s : s = [job.st EXCEPT !.dock = FALSE, !.last = <<Today, Target(job.st)>>]
      OBVIOUS
    <3>3. s \in State /\ s.bed = job.st.bed /\ s.rest = job.st.rest
      BY <3>1, <3>2 DEF State
    <3> QED BY <3>2, <3>3
  <2>2. PICK t : t = [To("released") EXCEPT !.st = s] /\ Carries(t, "released", s)
    BY <2>1, ToHas DEF IInv, Ats
  <2>3. GoesOn(To("undo"), "undo") /\ GoesOn(To("refuse"), "refuse")
    BY ToHas DEF IInv, Ats, EnforceAts, AnswerAts
  <2>4. Slot(Target(s)) \in Slots
    BY <2>1, DueIs, TodayIs DEF IInv
  <2>5. CASE pctl[Today] = Target(s)
    <3>1. Went(t)
      BY <2>1, <2>2, <2>5, GoIs DEF Release, IInv
    <3> QED BY <2>1, <2>2, <2>3, <2>4, <3>1
  <2>6. CASE pctl[Today] # Target(s)
    <3>1. WrotePctl(Slot(Target(s)), t, {To("undo"), To("refuse")})
      BY <2>1, <2>2, <2>6, WritePctlIs DEF Release, IInv
    <3> QED BY <2>1, <2>2, <2>3, <2>4, <3>1
  <2> QED BY <2>5, <2>6
<1>3. TypeOK'
  BY <1>1, <1>2 DEF IInv, TypeOK, Went, WrotePctl, JobHas, Carries, GoesOn, Around, Counted
<1>4. Labels'
  BY <1>1, <1>2 DEF IInv, Labels, ComposeAts, LiftAts, EnforceAts, AnswerAts, Enforcer, Asked,
     Went, WrotePctl, JobHas, Carries, GoesOn, Around, Counted
<1>5. Running'
  BY <1>1, <1>2 DEF IInv, Running, Labels, ComposeAts, LiftAts, EnforceAts, AnswerAts, Enforcer,
     Asked, Went, WrotePctl, JobHas, Carries, GoesOn, Around, Counted
<1>6. Loaded'
  BY <1>1, <1>2 DEF IInv, Loaded, Labels, Kept, Active, ComposeAts, LiftAts, EnforceAts,
     AnswerAts, Enforcer, Asked, Went, WrotePctl, JobHas, Carries, GoesOn, Around, Counted
<1>7. Apart'
  BY <1>1, <1>2, CalmIs DEF StateHas, IInv, Labels, Apart, Plain, Follows, Fresh, Kept, Loaded,
     Target, DueBed, BedDue, ComposeAts, LiftAts, EnforceAts, AnswerAts, Enforcer, Asked, Went,
     WrotePctl, DiskHas, JobHas, Carries, GoesOn, Stops, Ends, GivesUp, StopsAfter, Around,
     Counted
<1>8. Fresh'
  BY <1>1, <1>2 DEF IInv, Fresh, Labels, ComposeAts, LiftAts, EnforceAts, AnswerAts, Enforcer,
     Asked, Went, WrotePctl, DiskHas, JobHas, Carries, GoesOn, Stops, Ends, GivesUp, StopsAfter,
     Around, Counted
<1>9. Follows'
  BY <1>1, <1>2 DEF IInv, TypeOK, Labels, Follows, Fresh, Apart, Plain, Kept, Loaded, Standing,
     BedDue, DockDue, DueBed, Enters, Target, Today, Gone, Active, Nested, InForce, By,
     ComposeAts, LiftAts, EnforceAts, AnswerAts, Enforcer, Asked, Went, WrotePctl, DiskHas,
     JobHas, Carries, GoesOn, Stops, Ends, GivesUp, StopsAfter, Around, Counted
<1>10. ASSUME ~flag', harmed' = {}
       PROVE  Rest'
  <2>0. ~flag /\ harmed = {} /\ Rest /\ Follows /\ Fresh
    BY <1>2, <1>10 DEF IInv, Counted, Went, WrotePctl
  <2>1. Journalled'
    BY <1>1, <1>2, <2>0 DEF Rest, Journalled, Sane, Sound, Held, Today, Gone, Went, WrotePctl,
       JobHas, Carries, GoesOn, Around, Counted
  <2>2. Owned'
    BY <1>1, <1>2, <2>0 DEF Rest, Owned, Active, Nested, ComposeAts, LiftAts, EnforceAts,
       Enforcer, Asked, Went, WrotePctl, JobHas, Carries, GoesOn, Around, Counted
  <2>3. Settled'
    BY <1>1, <1>2, <2>0 DEF Rest, Settled, Fresh, ComposeAts, Enforcer, Went, WrotePctl, JobHas,
       Carries, GoesOn, Around, Counted
  <2>4. Taken'
    BY <1>1, <1>2, <2>0 DEF Rest, Taken, Held, Standing, BedDue, DockDue, Enters, Today,
       ComposeAts, Enforcer, Went, WrotePctl, JobHas, Carries, GoesOn, Around, Counted
  <2>5. Undone'
    BY <1>1, <1>2, <2>0 DEF Rest, Undone, Lost, Standing, BedDue, Enters, Today, Gone, ComposeAts,
       Enforcer, Went, WrotePctl, JobHas, Carries, GoesOn, Around, Counted
  <2>6. Left'
    BY <1>1, <1>2, <2>0 DEF Rest, Left, Owned, DockDue, Today, Active, Nested, ComposeAts,
       LiftAts, EnforceAts, Enforcer, Asked, Went, WrotePctl, JobHas, Carries, GoesOn, Around,
       Counted
  <2>7. Found'
    BY <1>1, <1>2, <2>0 DEF Rest, Found, Asked, Went, WrotePctl, JobHas, Carries, GoesOn, Around,
       Counted
  <2>8. Named'
    BY <1>1, <1>2, <2>0 DEF Rest, Named, Active, ComposeAts, LiftAts, EnforceAts, Went, WrotePctl,
       JobHas, Carries, GoesOn, Around, Counted
  <2> QED BY <2>1, <2>2, <2>3, <2>4, <2>5, <2>6, <2>7, <2>8 DEF Rest
<1> QED BY <1>3, <1>4, <1>5, <1>6, <1>7, <1>8, <1>9, <1>10 DEF IInv

LEMMA ReleasedKeeps ==
  ASSUME IInv, Released
  PROVE  IInv'
<1>1. job.at = "released" /\ job.op = "waive"
  BY DEF IInv, TypeOK, JobSet, Ops, Labels, Released, ComposeAts, LiftAts, EnforceAts, AnswerAts,
     Enforcer, Asked
<1>2. PICK d, t, f, g :
     /\ Wrote(d, t, f) \/ Loses(g, f)
     /\ DiskHas(d, job.st, disk.on, disk.bed, disk.eye, disk.dock)
     /\ DiskHas(g, Calm, disk.on, disk.bed, disk.eye, disk.dock)
     /\ GoesOn(t, "answer") /\ GoesOn(f, "refuse")
     /\ StateHas(Calm, None, None, FALSE, None, None, None, None)
  <2>1. DiskHas([disk EXCEPT !.st = job.st], job.st, disk.on, disk.bed, disk.eye, disk.dock)
    BY TypeFields, DiskEdits DEF IInv
  <2>2. PICK d : d = [disk EXCEPT !.st = job.st]
             /\ DiskHas(d, job.st, disk.on, disk.bed, disk.eye, disk.dock)
    BY <2>1
  <2>3. PICK g : g = [disk EXCEPT !.st = Calm]
             /\ DiskHas(g, Calm, disk.on, disk.bed, disk.eye, disk.dock)
    BY LostFiles DEF IInv
  <2>4. Wrote(d, To("answer"), To("refuse")) \/ Loses(g, To("refuse"))
    BY <2>2, <2>3, WriteFileIs DEF Released, IInv
  <2>5. GoesOn(To("answer"), "answer") /\ GoesOn(To("refuse"), "refuse")
    BY ToHas DEF IInv, Ats, AnswerAts
  <2> QED BY <2>2, <2>3, <2>4, <2>5, LostFiles DEF IInv
<1>3. TypeOK'
  BY <1>1, <1>2 DEF IInv, TypeOK, Wrote, Loses, DiskHas, JobHas, Carries, GoesOn, Around, Counted
<1>4. Labels'
  BY <1>1, <1>2 DEF IInv, Labels, ComposeAts, LiftAts, EnforceAts, AnswerAts, Enforcer, Asked,
     Wrote, Loses, DiskHas, JobHas, Carries, GoesOn, Around, Counted
<1>5. Running'
  BY <1>1, <1>2 DEF IInv, Running, Labels, ComposeAts, LiftAts, EnforceAts, AnswerAts, Enforcer,
     Asked, Wrote, Loses, DiskHas, JobHas, Carries, GoesOn, Around, Counted
<1>6. Loaded'
  BY <1>1, <1>2 DEF IInv, Loaded, Labels, Kept, Active, ComposeAts, LiftAts, EnforceAts,
     AnswerAts, Enforcer, Asked, Wrote, Loses, DiskHas, JobHas, Carries, GoesOn, Around, Counted
<1>7. Apart'
  BY <1>1, <1>2, CalmIs DEF StateHas, IInv, Labels, Apart, Plain, Follows, Fresh, Kept, Loaded,
     Target, DueBed, BedDue, ComposeAts, LiftAts, EnforceAts, AnswerAts, Enforcer, Asked, Wrote,
     Loses, StateHas, DiskHas, JobHas, Carries, GoesOn, Stops, Ends, GivesUp, StopsAfter, Around,
     Counted
<1>8. Fresh'
  BY <1>1, <1>2 DEF IInv, Fresh, Labels, ComposeAts, LiftAts, EnforceAts, AnswerAts, Enforcer,
     Asked, Wrote, Loses, StateHas, DiskHas, JobHas, Carries, GoesOn, Stops, Ends, GivesUp,
     StopsAfter, Around, Counted
<1>9. Follows'
  BY <1>1, <1>2 DEF IInv, TypeOK, Labels, Follows, Fresh, Apart, Plain, Kept, Loaded, Standing,
     BedDue, DockDue, DueBed, Enters, Target, Today, Gone, Active, Nested, InForce, By,
     ComposeAts, LiftAts, EnforceAts, AnswerAts, Enforcer, Asked, Wrote, Loses, StateHas, DiskHas,
     JobHas, Carries, GoesOn, Stops, Ends, GivesUp, StopsAfter, Around, Counted
<1>10. ASSUME ~flag', harmed' = {}
       PROVE  Rest'
  <2>0. ~flag /\ harmed = {} /\ Rest /\ Follows /\ Fresh
    BY <1>2, <1>10 DEF IInv, Counted, Wrote, Loses, StateHas
  <2>1. Journalled'
    BY <1>1, <1>2, <1>10, <2>0 DEF Rest, Journalled, Owned, Sane, Sound, Held, Today, Gone,
       Active, Nested, ComposeAts, LiftAts, EnforceAts, Enforcer, Asked, Wrote, Loses, DiskHas,
       JobHas, Carries, GoesOn, Around, Counted, StateHas
  <2>2. Owned'
    BY <1>1, <1>2, <1>10, <2>0 DEF Rest, Owned, Active, Nested, ComposeAts, LiftAts, EnforceAts,
       Enforcer, Asked, Wrote, Loses, DiskHas, JobHas, Carries, GoesOn, Around, Counted, StateHas
  <2>3. Settled'
    BY <1>1, <1>2, <1>10, <2>0 DEF Rest, Settled, Fresh, Owned, Active, Nested, ComposeAts,
       LiftAts, EnforceAts, Enforcer, Asked, Wrote, Loses, DiskHas, JobHas, Carries, GoesOn,
       Around, Counted, StateHas
  <2>4. Taken'
    BY <1>1, <1>2, <1>10, <2>0 DEF Rest, Taken, Held, Standing, BedDue, DockDue, Enters, Today,
       ComposeAts, Enforcer, Wrote, Loses, DiskHas, JobHas, Carries, GoesOn, Around, Counted,
       StateHas
  <2>5. Undone'
    BY <1>1, <1>2, <1>10, <2>0 DEF Rest, Undone, Lost, Standing, BedDue, Enters, Today, Gone,
       ComposeAts, Enforcer, Wrote, Loses, DiskHas, JobHas, Carries, GoesOn, Around, Counted,
       StateHas
  <2>6. Left'
    BY <1>1, <1>2, <1>10, <2>0 DEF Rest, Left, DockDue, Today, Wrote, Loses, DiskHas, JobHas,
       Carries, GoesOn, Around, Counted, StateHas
  <2>7. Found'
    BY <1>1, <1>2, <1>10, <2>0 DEF Rest, Found, Asked, Wrote, Loses, DiskHas, JobHas, Carries,
       GoesOn, Around, Counted, StateHas
  <2>8. Named'
    BY <1>1, <1>2, <1>10, <2>0 DEF Rest, Named, Active, ComposeAts, LiftAts, EnforceAts, Wrote,
       Loses, DiskHas, JobHas, Carries, GoesOn, Around, Counted, StateHas
  <2> QED BY <2>1, <2>2, <2>3, <2>4, <2>5, <2>6, <2>7, <2>8 DEF Rest
<1> QED BY <1>3, <1>4, <1>5, <1>6, <1>7, <1>8, <1>9, <1>10 DEF IInv

LEMMA CheckKeeps ==
  ASSUME IInv, Check
  PROVE  IInv'
<1>1. job.at = "check" /\ job.op \in {"waive", "clear"}
  BY DEF IInv, TypeOK, JobSet, Ops, Labels, Check, ComposeAts, LiftAts, EnforceAts, AnswerAts,
     Enforcer, Asked
<1>2. PICK j, l :
     /\ Went(j) /\ GoesOn(j, l) /\ l \in {"answer", "refuse", "revert"}
     /\ l = "revert" => job.op = "clear"
     /\ l = "answer" => Confirms
  <2>1. PICK l \in {"answer", "refuse", "revert"} :
          l = IF Confirms THEN "answer" ELSE IF job.op = "waive" THEN "refuse" ELSE "revert"
    OBVIOUS
  <2>2. Went(To(l))
    BY <2>1, GoIs DEF Check, IInv
  <2>3. GoesOn(To(l), l)
    BY <2>1, ToHas DEF IInv, Ats, AnswerAts
  <2> QED BY <1>1, <2>1, <2>2, <2>3
<1>3. TypeOK'
  BY <1>1, <1>2 DEF IInv, TypeOK, Went, Confirms, JobHas, Carries, GoesOn, Around, Counted
<1>4. Labels'
  BY <1>1, <1>2 DEF IInv, Labels, ComposeAts, LiftAts, EnforceAts, AnswerAts, Enforcer, Asked,
     Went, Confirms, JobHas, Carries, GoesOn, Around, Counted
<1>5. Running'
  BY <1>1, <1>2 DEF IInv, Running, Labels, ComposeAts, LiftAts, EnforceAts, AnswerAts, Enforcer,
     Asked, Went, Confirms, JobHas, Carries, GoesOn, Around, Counted
<1>6. Loaded'
  BY <1>1, <1>2 DEF IInv, Loaded, Labels, Kept, Active, ComposeAts, LiftAts, EnforceAts,
     AnswerAts, Enforcer, Asked, Went, Confirms, JobHas, Carries, GoesOn, Around, Counted
<1>7. Apart'
  BY <1>1, <1>2, CalmIs DEF StateHas, IInv, Labels, Apart, Plain, Follows, Fresh, Kept, Loaded,
     Target, DueBed, BedDue, ComposeAts, LiftAts, EnforceAts, AnswerAts, Enforcer, Asked, Went,
     Confirms, DiskHas, JobHas, Carries, GoesOn, Stops, Ends, GivesUp, StopsAfter, Around, Counted
<1>8. Fresh'
  BY <1>1, <1>2 DEF IInv, Fresh, Labels, ComposeAts, LiftAts, EnforceAts, AnswerAts, Enforcer,
     Asked, Went, Confirms, DiskHas, JobHas, Carries, GoesOn, Stops, Ends, GivesUp, StopsAfter,
     Around, Counted
<1>9. Follows'
  BY <1>1, <1>2 DEF IInv, TypeOK, Labels, Follows, Fresh, Apart, Plain, Kept, Loaded, Standing,
     BedDue, DockDue, DueBed, Enters, Target, Today, Gone, Active, Nested, InForce, By,
     ComposeAts, LiftAts, EnforceAts, AnswerAts, Enforcer, Asked, Went, Confirms, DiskHas, JobHas,
     Carries, GoesOn, Stops, Ends, GivesUp, StopsAfter, Around, Counted
<1>10. ASSUME ~flag', harmed' = {}
       PROVE  Rest'
  <2>0. ~flag /\ harmed = {} /\ Rest /\ Follows /\ Fresh
    BY <1>2, <1>10 DEF IInv, Counted, Went, Confirms
  <2>1. Journalled'
    BY <1>1, <1>2, <2>0 DEF Rest, Journalled, Sane, Sound, Held, Today, Gone, Went, Confirms,
       JobHas, Carries, GoesOn, Around, Counted
  <2>2. Owned'
    BY <1>1, <1>2, <2>0 DEF Rest, Owned, Active, Nested, ComposeAts, LiftAts, EnforceAts,
       Enforcer, Asked, Went, Confirms, JobHas, Carries, GoesOn, Around, Counted
  <2>3. Settled'
    BY <1>1, <1>2, <2>0 DEF Rest, Settled, Fresh, ComposeAts, Enforcer, Went, Confirms, JobHas,
       Carries, GoesOn, Around, Counted
  <2>4. Taken'
    BY <1>1, <1>2, <2>0 DEF Rest, Taken, Held, Standing, BedDue, DockDue, Enters, Today,
       ComposeAts, Enforcer, Went, Confirms, JobHas, Carries, GoesOn, Around, Counted
  <2>5. Undone'
    BY <1>1, <1>2, <2>0 DEF Rest, Undone, Lost, Standing, BedDue, Enters, Today, Gone, ComposeAts,
       Enforcer, Went, Confirms, JobHas, Carries, GoesOn, Around, Counted
  <2>6. Left'
    BY <1>1, <1>2, <2>0 DEF Rest, Left, DockDue, Today, Went, Confirms, JobHas, Carries, GoesOn,
       Around, Counted
  <2>7. Found'
    BY <1>1, <1>2, <2>0 DEF Rest, Found, Asked, Went, Confirms, JobHas, Carries, GoesOn, Around,
       Counted
  <2>8. Named'
    BY <1>1, <1>2, <2>0 DEF Rest, Named, Active, ComposeAts, LiftAts, EnforceAts, Went, Confirms,
       JobHas, Carries, GoesOn, Around, Counted
  <2> QED BY <2>1, <2>2, <2>3, <2>4, <2>5, <2>6, <2>7, <2>8 DEF Rest
<1> QED BY <1>3, <1>4, <1>5, <1>6, <1>7, <1>8, <1>9, <1>10 DEF IInv

LEMMA RevertKeeps ==
  ASSUME IInv, Revert
  PROVE  IInv'
<1>1. job.at = "revert" /\ job.op = "clear"
  BY DEF IInv, TypeOK, JobSet, Ops, Labels, Revert, ComposeAts, LiftAts, EnforceAts, AnswerAts,
     Enforcer, Asked
<1>2. PICK t, f : RolledBack(t, f) /\ GoesOn(t, "revertBed") /\ Stops(f, "refuse")
  <2>1. RolledBack(To("revertBed"), Stopping("refuse"))
    BY RollbackIs DEF Revert, IInv
  <2>2. GoesOn(To("revertBed"), "revertBed") /\ Stops(Stopping("refuse"), "refuse")
    BY ToHas, StoppingHas DEF IInv, Ats, AnswerAts
  <2> QED BY <2>1, <2>2
<1>3. TypeOK'
  BY <1>1, <1>2 DEF IInv, TypeOK, RolledBack, Unrolled, Rolled, Halfway, Emptied, JobHas, Carries,
     GoesOn, Stops, Around, Counted, Journals
<1>4. Labels'
  BY <1>1, <1>2 DEF IInv, Labels, ComposeAts, LiftAts, EnforceAts, AnswerAts, Enforcer, Asked,
     RolledBack, Unrolled, Rolled, Halfway, Emptied, JobHas, Carries, GoesOn, Stops, Around,
     Counted
<1>5. Running'
  BY <1>1, <1>2 DEF IInv, Running, Labels, ComposeAts, LiftAts, EnforceAts, AnswerAts, Enforcer,
     Asked, RolledBack, Unrolled, Rolled, Halfway, Emptied, JobHas, Carries, GoesOn, Stops,
     Around, Counted
<1>6. Loaded'
  BY <1>1, <1>2 DEF IInv, Loaded, Labels, Kept, Active, ComposeAts, LiftAts, EnforceAts,
     AnswerAts, Enforcer, Asked, RolledBack, Unrolled, Rolled, Halfway, Emptied, JobHas, Carries,
     GoesOn, Stops, Around, Counted
<1>7. Apart'
  BY <1>1, <1>2, CalmIs DEF IInv, Apart, Plain, StateHas, RolledBack, Unrolled, Rolled, Halfway,
     Emptied, JobHas, Carries, GoesOn, Stops, Ends, GivesUp, StopsAfter
<1>8. Fresh'
  BY <1>1, <1>2 DEF IInv, Fresh, Labels, ComposeAts, LiftAts, EnforceAts, AnswerAts, Enforcer,
     Asked, RolledBack, Unrolled, Rolled, Halfway, Emptied, DiskHas, JobHas, Carries, GoesOn,
     Stops, Ends, GivesUp, StopsAfter, Around, Counted
<1>9. Follows'
  BY <1>1, <1>2 DEF IInv, TypeOK, Labels, Follows, Fresh, Apart, Plain, Kept, Loaded, Standing,
     BedDue, DockDue, DueBed, Enters, Target, Today, Gone, Active, Nested, InForce, By,
     ComposeAts, LiftAts, EnforceAts, AnswerAts, Enforcer, Asked, RolledBack, Unrolled, Rolled,
     Halfway, Emptied, DiskHas, JobHas, Carries, GoesOn, Stops, Ends, GivesUp, StopsAfter, Around,
     Counted
<1>10. ASSUME ~flag', harmed' = {}
       PROVE  Rest'
  <2>0. ~flag /\ harmed = {} /\ Rest /\ Follows /\ Fresh
    BY <1>2, <1>10 DEF IInv, Counted, RolledBack, Unrolled, Rolled, Halfway, Emptied
  <2>a. /\ Unrolled(t) \/ (Rolled(t) /\ journal' = None) \/ Halfway(f)
        /\ flag' = flag /\ Around /\ GoesOn(t, "revertBed") /\ Stops(f, "refuse")
    BY <1>2, <1>10, RollsBack
  <2>1. Journalled'
    <3>1. CASE Unrolled(t)
      BY <1>1, <2>0, <2>a, <3>1, CalmIs DEF Rest, Journalled, Sane, Sound, Held, Gone, Today,
         ComposeAts, LiftAts, EnforceAts, AnswerAts, Enforcer, Asked, Unrolled, JobHas, Carries,
         GoesOn, Stops, Ends, GivesUp, StopsAfter, Around
    <3>2. CASE Rolled(t) /\ journal' = None
      BY <1>1, <2>0, <2>a, <3>2, CalmIs DEF Rest, Journalled, Sane, Sound, Held, Gone, Today,
         ComposeAts, LiftAts, EnforceAts, AnswerAts, Enforcer, Asked, Rolled, JobHas, Carries,
         GoesOn, Stops, Ends, GivesUp, StopsAfter, Around
    <3>3. CASE Halfway(f)
      <4>1. Sane(disk.st)'
        BY <2>0, <2>a, <3>3, CalmIs DEF Rest, Journalled, Sane, Halfway, Around, StateHas
      <4>2. journal # None => Sane(journal.disk.st)' /\ Sound(journal.disk)'
        BY <2>0, <2>a, <3>3 DEF Rest, Journalled, Sane, Sound, Held, Gone, Today, Halfway, Around
      <4>3. job'.at = "stop"
        BY <2>a, <3>3 DEF Halfway, Stops, StopsAfter, JobHas
      <4> QED BY <2>0, <3>3, <4>1, <4>2, <4>3 DEF Rest, Journalled, Halfway
    <3> QED BY <2>a, <3>1, <3>2, <3>3
  <2>2. Owned'
    <3>1. CASE Unrolled(t)
      BY <1>1, <2>0, <2>a, <3>1, CalmIs DEF Rest, Owned, Journalled, Active, Nested, ComposeAts,
         LiftAts, EnforceAts, AnswerAts, Enforcer, Asked, Unrolled, JobHas, Carries, GoesOn,
         Stops, Ends, GivesUp, StopsAfter, Around
    <3>2. CASE Rolled(t) /\ journal' = None
      BY <1>1, <2>0, <2>a, <3>2, CalmIs DEF Rest, Owned, Journalled, Active, Nested, ComposeAts,
         LiftAts, EnforceAts, AnswerAts, Enforcer, Asked, Rolled, JobHas, Carries, GoesOn, Stops,
         Ends, GivesUp, StopsAfter, Around
    <3>3. CASE Halfway(f)
      BY <1>1, <2>0, <2>a, <3>3, CalmIs DEF Rest, Owned, Journalled, Active, Nested, ComposeAts,
         LiftAts, EnforceAts, AnswerAts, Enforcer, Asked, Halfway, StateHas, JobHas, Carries,
         GoesOn, Stops, Ends, GivesUp, StopsAfter, Around
    <3> QED BY <2>a, <3>1, <3>2, <3>3
  <2>3. Settled'
    BY <1>1, <1>2, <1>10, <2>0, CalmIs DEF Rest, Settled, Fresh, ComposeAts, Enforcer, RolledBack,
       Unrolled, Rolled, Halfway, Emptied, JobHas, Carries, GoesOn, Stops, Around, Counted,
       StateHas
  <2>4. Taken'
    BY <1>1, <1>2, <1>10, <2>0, CalmIs DEF Rest, Taken, Held, Standing, BedDue, DockDue, Enters,
       Today, ComposeAts, Enforcer, RolledBack, Unrolled, Rolled, Halfway, Emptied, JobHas,
       Carries, GoesOn, Stops, Around, Counted, StateHas
  <2>5. Undone'
    <3>1. CASE Unrolled(t)
      BY <1>1, <2>0, <2>a, <3>1, CalmIs DEF Rest, IInv, Labels, Undone, Owned, Lost, Enters,
         BedDue, Standing, Gone, Today, ComposeAts, LiftAts, EnforceAts, AnswerAts, Enforcer,
         Asked, Unrolled, JobHas, Carries, GoesOn, Stops, Ends, GivesUp, StopsAfter, Around
    <3>2. CASE Rolled(t) /\ journal' = None
      BY <1>1, <2>0, <2>a, <3>2, CalmIs DEF Rest, IInv, Labels, Undone, Owned, Lost, Enters,
         BedDue, Standing, Gone, Today, ComposeAts, LiftAts, EnforceAts, AnswerAts, Enforcer,
         Asked, Rolled, JobHas, Carries, GoesOn, Stops, Ends, GivesUp, StopsAfter, Around
    <3>3. CASE Halfway(f)
      BY <1>1, <2>0, <2>a, <3>3, CalmIs DEF Rest, IInv, Labels, Undone, Owned, Lost, Enters,
         BedDue, Standing, Gone, Today, ComposeAts, LiftAts, EnforceAts, AnswerAts, Enforcer,
         Asked, Halfway, StateHas, JobHas, Carries, GoesOn, Stops, Ends, GivesUp, StopsAfter,
         Around
    <3> QED BY <2>a, <3>1, <3>2, <3>3
  <2>6. Left'
    <3>1. CASE Unrolled(t)
      BY <1>1, <2>0, <2>a, <3>1, CalmIs DEF Rest, Left, Undone, Owned, DockDue, Today, ComposeAts,
         LiftAts, EnforceAts, AnswerAts, Enforcer, Asked, Unrolled, JobHas, Carries, GoesOn,
         Stops, Ends, GivesUp, StopsAfter, Around
    <3>2. CASE Rolled(t) /\ journal' = None
      BY <1>1, <2>0, <2>a, <3>2, CalmIs DEF Rest, Left, Undone, Owned, DockDue, Today, ComposeAts,
         LiftAts, EnforceAts, AnswerAts, Enforcer, Asked, Rolled, JobHas, Carries, GoesOn, Stops,
         Ends, GivesUp, StopsAfter, Around
    <3>3. CASE Halfway(f)
      BY <1>1, <2>0, <2>a, <3>3, CalmIs DEF Rest, Left, Undone, Owned, DockDue, Today, ComposeAts,
         LiftAts, EnforceAts, AnswerAts, Enforcer, Asked, Halfway, StateHas, JobHas, Carries,
         GoesOn, Stops, Ends, GivesUp, StopsAfter, Around
    <3> QED BY <2>a, <3>1, <3>2, <3>3
  <2>7. Found'
    <3>1. CASE Unrolled(t)
      BY <1>1, <2>0, <2>a, <3>1, CalmIs DEF Rest, Found, Owned, ComposeAts, LiftAts, EnforceAts,
         AnswerAts, Enforcer, Asked, Unrolled, JobHas, Carries, GoesOn, Stops, Ends, GivesUp,
         StopsAfter, Around
    <3>2. CASE Rolled(t) /\ journal' = None
      BY <1>1, <2>0, <2>a, <3>2, CalmIs DEF Rest, Found, Owned, ComposeAts, LiftAts, EnforceAts,
         AnswerAts, Enforcer, Asked, Rolled, JobHas, Carries, GoesOn, Stops, Ends, GivesUp,
         StopsAfter, Around
    <3>3. CASE Halfway(f)
      BY <1>1, <2>0, <2>a, <3>3, CalmIs DEF Rest, Found, Owned, ComposeAts, LiftAts, EnforceAts,
         AnswerAts, Enforcer, Asked, Halfway, StateHas, JobHas, Carries, GoesOn, Stops, Ends,
         GivesUp, StopsAfter, Around
    <3> QED BY <2>a, <3>1, <3>2, <3>3
  <2>8. Named'
    <3>1. CASE Unrolled(t)
      BY <1>1, <2>0, <2>a, <3>1, CalmIs DEF Rest, Named, Owned, Journalled, Active, ComposeAts,
         LiftAts, EnforceAts, AnswerAts, Enforcer, Asked, Unrolled, JobHas, Carries, GoesOn,
         Stops, Ends, GivesUp, StopsAfter, Around
    <3>2. CASE Rolled(t) /\ journal' = None
      BY <1>1, <2>0, <2>a, <3>2, CalmIs DEF Rest, Named, Owned, Journalled, Active, ComposeAts,
         LiftAts, EnforceAts, AnswerAts, Enforcer, Asked, Rolled, JobHas, Carries, GoesOn, Stops,
         Ends, GivesUp, StopsAfter, Around
    <3>3. CASE Halfway(f)
      BY <1>1, <2>0, <2>a, <3>3, CalmIs DEF Rest, Named, Owned, Journalled, Active, ComposeAts,
         LiftAts, EnforceAts, AnswerAts, Enforcer, Asked, Halfway, StateHas, JobHas, Carries,
         GoesOn, Stops, Ends, GivesUp, StopsAfter, Around
    <3> QED BY <2>a, <3>1, <3>2, <3>3
  <2> QED BY <2>1, <2>2, <2>3, <2>4, <2>5, <2>6, <2>7, <2>8 DEF Rest
<1> QED BY <1>3, <1>4, <1>5, <1>6, <1>7, <1>8, <1>9, <1>10 DEF IInv

(* A clearing that is undone has its window skipped, so that the one       *)
(* recorded, if any, is gone.                                              *)
LEMMA RevertBedKeeps ==
  ASSUME IInv, RevertBed
  PROVE  IInv'
<1>1. job.at = "revertBed" /\ job.op = "clear"
  BY DEF IInv, TypeOK, JobSet, Ops, Labels, RevertBed, ComposeAts, LiftAts, EnforceAts, AnswerAts,
     Enforcer, Asked
<1>2. PICK t : Removed(None, disk.eye, disk.dock, t) /\ GoesOn(t, "revertState")
  <2>1. None \in Snapshot \cup {None} /\ disk.eye \in Snapshot \cup {None}
        /\ disk.dock \in Snapshot \cup {None}
    BY TypeFields DEF IInv
  <2>2. Removed(None, disk.eye, disk.dock, To("revertState"))
    BY <2>1, RemoveIs DEF RevertBed, IInv
  <2>3. GoesOn(To("revertState"), "revertState")
    BY ToHas DEF IInv, Ats
  <2> QED BY <2>2, <2>3
<1>3. TypeOK'
  BY <1>1, <1>2 DEF IInv, TypeOK, Removed, DiskHas, JobHas, Carries, GoesOn, Around, Counted
<1>4. Labels'
  BY <1>1, <1>2 DEF IInv, Labels, ComposeAts, LiftAts, EnforceAts, AnswerAts, Enforcer, Asked,
     Removed, DiskHas, JobHas, Carries, GoesOn, Around, Counted
<1>5. Running'
  BY <1>1, <1>2 DEF IInv, Running, Labels, ComposeAts, LiftAts, EnforceAts, AnswerAts, Enforcer,
     Asked, Removed, DiskHas, JobHas, Carries, GoesOn, Around, Counted
<1>6. Loaded'
  BY <1>1, <1>2 DEF IInv, Loaded, Labels, Kept, Active, ComposeAts, LiftAts, EnforceAts,
     AnswerAts, Enforcer, Asked, Removed, DiskHas, JobHas, Carries, GoesOn, Around, Counted
<1>7. Apart'
  BY <1>1, <1>2, CalmIs DEF StateHas, IInv, Labels, Apart, Plain, Follows, Fresh, Kept, Loaded,
     Target, DueBed, BedDue, ComposeAts, LiftAts, EnforceAts, AnswerAts, Enforcer, Asked, Removed,
     DiskHas, JobHas, Carries, GoesOn, Stops, Ends, GivesUp, StopsAfter, Around, Counted
<1>8. Fresh'
  BY <1>1, <1>2 DEF IInv, Fresh, Labels, ComposeAts, LiftAts, EnforceAts, AnswerAts, Enforcer,
     Asked, Removed, DiskHas, JobHas, Carries, GoesOn, Stops, Ends, GivesUp, StopsAfter, Around,
     Counted
<1>9. Follows'
  BY <1>1, <1>2 DEF IInv, TypeOK, Labels, Follows, Fresh, Apart, Plain, Kept, Loaded, Standing,
     BedDue, DockDue, DueBed, Enters, Target, Today, Gone, Active, Nested, InForce, By,
     ComposeAts, LiftAts, EnforceAts, AnswerAts, Enforcer, Asked, Removed, DiskHas, JobHas,
     Carries, GoesOn, Stops, Ends, GivesUp, StopsAfter, Around, Counted
<1>10. ASSUME ~flag', harmed' = {}
       PROVE  Rest'
  <2>0. ~flag /\ harmed = {} /\ Rest /\ Follows /\ Fresh
    BY <1>2, <1>10 DEF IInv, Counted, Removed
  <2>1. Journalled'
    <3>1. disk'.st = disk.st /\ disk'.bed \in {disk.bed, None} /\ disk'.eye = disk.eye
          /\ disk'.dock = disk.dock /\ journal' = journal /\ clock' = clock
          /\ job'.at = "revertState"
      BY <1>2 DEF Removed, GoesOn, Carries, JobHas, Around
    <3>2. journal = None /\ Sound(disk) /\ disk.st.pending = None /\ Sane(disk.st)
      BY <1>1, <2>0 DEF Rest, Owned, Journalled
    <3>3. disk.st.bed # None => Gone(disk.st.bed)
      <4> SUFFICES ASSUME disk.st.bed # None PROVE Gone(disk.st.bed)
        OBVIOUS
      <4>1. disk.st.skipped = job.win /\ job.win = Window[clock] /\ job.win # None
        BY <1>1, <2>0, <3>2 DEF Rest, Found, Named, Active, Asked
      <4>2. disk.st.bed \in Period /\ Window[disk.st.bed] = disk.st.bed /\ disk.st.bed <= clock
            /\ disk.st.bed # job.win
        BY <3>2, <4>1, TypeFields, StateFields DEF IInv, Sane
      <4> QED BY <4>1, <4>2, GoneIs DEF IInv, TypeOK
    <3> QED BY <3>1, <3>2, <3>3 DEF Journalled, Sane, Sound, Gone, Today
  <2>2. Owned'
    BY <1>1, <1>2, <2>0 DEF Rest, Owned, Active, Nested, ComposeAts, LiftAts, EnforceAts,
       Enforcer, Asked, Removed, DiskHas, JobHas, Carries, GoesOn, Around, Counted
  <2>3. Settled'
    BY <1>1, <1>2, <2>0 DEF Rest, Settled, Fresh, ComposeAts, Enforcer, Removed, DiskHas, JobHas,
       Carries, GoesOn, Around, Counted
  <2>4. Taken'
    BY <1>1, <1>2, <2>0 DEF Rest, Taken, Held, Standing, BedDue, DockDue, Enters, Today,
       ComposeAts, Enforcer, Removed, DiskHas, JobHas, Carries, GoesOn, Around, Counted
  <2>5. Undone'
    BY <1>1, <1>2, <2>0 DEF Rest, Undone, Lost, Standing, BedDue, Enters, Today, Gone, ComposeAts,
       Enforcer, Removed, DiskHas, JobHas, Carries, GoesOn, Around, Counted
  <2>6. Left'
    BY <1>1, <1>2, <2>0 DEF Rest, Left, DockDue, Today, Removed, DiskHas, JobHas, Carries, GoesOn,
       Around, Counted
  <2>7. Found'
    BY <1>1, <1>2, <2>0 DEF Rest, Found, Asked, Removed, DiskHas, JobHas, Carries, GoesOn, Around,
       Counted
  <2>8. Named'
    BY <1>1, <1>2, <2>0 DEF Rest, Named, Active, ComposeAts, LiftAts, EnforceAts, Removed,
       DiskHas, JobHas, Carries, GoesOn, Around, Counted
  <2> QED BY <2>1, <2>2, <2>3, <2>4, <2>5, <2>6, <2>7, <2>8 DEF Rest
<1> QED BY <1>3, <1>4, <1>5, <1>6, <1>7, <1>8, <1>9, <1>10 DEF IInv

LEMMA RevertStateKeeps ==
  ASSUME IInv, RevertState
  PROVE  IInv'
<1>1. job.at = "revertState" /\ job.op = "clear"
  BY DEF IInv, TypeOK, JobSet, Ops, Labels, RevertState, ComposeAts, LiftAts, EnforceAts,
     AnswerAts, Enforcer, Asked
<1>2. PICK d, t, f, g :
     /\ Wrote(d, t, f) \/ Loses(g, f)
     /\ DiskHas(d, job.before, disk.on, disk.bed, disk.eye, disk.dock)
     /\ DiskHas(g, Calm, disk.on, disk.bed, disk.eye, disk.dock)
     /\ GoesOn(t, "refuse") /\ Stops(f, "refuse")
     /\ StateHas(Calm, None, None, FALSE, None, None, None, None)
  <2>1. DiskHas([disk EXCEPT !.st = job.before], job.before, disk.on, disk.bed, disk.eye,
                disk.dock)
    BY TypeFields, DiskEdits DEF IInv
  <2>2. PICK d : d = [disk EXCEPT !.st = job.before]
             /\ DiskHas(d, job.before, disk.on, disk.bed, disk.eye, disk.dock)
    BY <2>1
  <2>3. PICK g : g = [disk EXCEPT !.st = Calm]
             /\ DiskHas(g, Calm, disk.on, disk.bed, disk.eye, disk.dock)
    BY LostFiles DEF IInv
  <2>4. Wrote(d, To("refuse"), Stopping("refuse")) \/ Loses(g, Stopping("refuse"))
    BY <2>2, <2>3, WriteFileIs DEF RevertState, IInv
  <2>5. GoesOn(To("refuse"), "refuse") /\ Stops(Stopping("refuse"), "refuse")
    BY ToHas, StoppingHas DEF IInv, Ats, AnswerAts
  <2> QED BY <2>2, <2>3, <2>4, <2>5, LostFiles DEF IInv
<1>3. TypeOK'
  BY <1>1, <1>2 DEF IInv, TypeOK, Wrote, Loses, DiskHas, JobHas, Carries, GoesOn, Stops, Around,
     Counted
<1>4. Labels'
  BY <1>1, <1>2 DEF IInv, Labels, ComposeAts, LiftAts, EnforceAts, AnswerAts, Enforcer, Asked,
     Wrote, Loses, DiskHas, JobHas, Carries, GoesOn, Stops, Around, Counted
<1>5. Running'
  BY <1>1, <1>2 DEF IInv, Running, Labels, ComposeAts, LiftAts, EnforceAts, AnswerAts, Enforcer,
     Asked, Wrote, Loses, DiskHas, JobHas, Carries, GoesOn, Stops, Around, Counted
<1>6. Loaded'
  BY <1>1, <1>2 DEF IInv, Loaded, Labels, Kept, Active, ComposeAts, LiftAts, EnforceAts,
     AnswerAts, Enforcer, Asked, Wrote, Loses, DiskHas, JobHas, Carries, GoesOn, Stops, Around,
     Counted
<1>7. Apart'
  BY <1>1, <1>2, CalmIs DEF StateHas, IInv, Labels, Apart, Plain, Follows, Fresh, Kept, Loaded,
     Target, DueBed, BedDue, ComposeAts, LiftAts, EnforceAts, AnswerAts, Enforcer, Asked, Wrote,
     Loses, StateHas, DiskHas, JobHas, Carries, GoesOn, Stops, Ends, GivesUp, StopsAfter, Around,
     Counted
<1>8. Fresh'
  BY <1>1, <1>2 DEF IInv, Fresh, Labels, ComposeAts, LiftAts, EnforceAts, AnswerAts, Enforcer,
     Asked, Wrote, Loses, StateHas, DiskHas, JobHas, Carries, GoesOn, Stops, Ends, GivesUp,
     StopsAfter, Around, Counted
<1>9. Follows'
  BY <1>1, <1>2 DEF IInv, TypeOK, Labels, Follows, Fresh, Apart, Plain, Kept, Loaded, Standing,
     BedDue, DockDue, DueBed, Enters, Target, Today, Gone, Active, Nested, InForce, By,
     ComposeAts, LiftAts, EnforceAts, AnswerAts, Enforcer, Asked, Wrote, Loses, StateHas, DiskHas,
     JobHas, Carries, GoesOn, Stops, Ends, GivesUp, StopsAfter, Around, Counted
<1>10. ASSUME ~flag', harmed' = {}
       PROVE  Rest'
  <2>0. ~flag /\ harmed = {} /\ Rest /\ Follows /\ Fresh
    BY <1>2, <1>10 DEF IInv, Counted, Wrote, Loses, StateHas
  <2>1. Journalled'
    BY <1>1, <1>2, <1>10, <2>0 DEF Rest, Journalled, Owned, Sane, Sound, Held, Found, Today, Gone,
       Active, Nested, ComposeAts, LiftAts, EnforceAts, Enforcer, Asked, Wrote, Loses, DiskHas,
       JobHas, Carries, GoesOn, Stops, Around, Counted, StateHas
  <2>2. Owned'
    BY <1>1, <1>2, <1>10, <2>0 DEF Rest, Owned, Active, Nested, ComposeAts, LiftAts, EnforceAts,
       Enforcer, Asked, Wrote, Loses, DiskHas, JobHas, Carries, GoesOn, Stops, Around, Counted,
       StateHas
  <2>3. Settled'
    BY <1>1, <1>2, <1>10, <2>0 DEF Rest, Settled, Fresh, ComposeAts, Enforcer, Wrote, Loses,
       DiskHas, JobHas, Carries, GoesOn, Stops, Around, Counted, StateHas
  <2>4. Taken'
    BY <1>1, <1>2, <1>10, <2>0 DEF Rest, Taken, Held, Standing, BedDue, DockDue, Enters, Today,
       ComposeAts, Enforcer, Wrote, Loses, DiskHas, JobHas, Carries, GoesOn, Stops, Around,
       Counted, StateHas
  <2>5. Undone'
    BY <1>1, <1>2, <1>10, <2>0 DEF Rest, Undone, Lost, Standing, BedDue, Enters, Today, Gone,
       ComposeAts, Enforcer, Wrote, Loses, DiskHas, JobHas, Carries, GoesOn, Stops, Around,
       Counted, StateHas
  <2>6. Left'
    BY <1>1, <1>2, <1>10, <2>0 DEF Rest, Left, DockDue, Today, Wrote, Loses, DiskHas, JobHas,
       Carries, GoesOn, Stops, Around, Counted, StateHas
  <2>7. Found'
    BY <1>1, <1>2, <1>10, <2>0 DEF Rest, Found, Asked, Wrote, Loses, DiskHas, JobHas, Carries,
       GoesOn, Stops, Around, Counted, StateHas
  <2>8. Named'
    BY <1>1, <1>2, <1>10, <2>0 DEF Rest, Named, Active, ComposeAts, LiftAts, EnforceAts, Wrote,
       Loses, DiskHas, JobHas, Carries, GoesOn, Stops, Around, Counted, StateHas
  <2> QED BY <2>1, <2>2, <2>3, <2>4, <2>5, <2>6, <2>7, <2>8 DEF Rest
<1> QED BY <1>3, <1>4, <1>5, <1>6, <1>7, <1>8, <1>9, <1>10 DEF IInv

LEMMA WithdrawKeeps ==
  ASSUME IInv, Withdraw
  PROVE  IInv'
<1>1. job.at = "withdraw" /\ job.op = "clear"
  BY DEF IInv, TypeOK, JobSet, Ops, Labels, Withdraw, ComposeAts, LiftAts, EnforceAts, AnswerAts,
     Enforcer, Asked
<1>2. PICK t : Closed(t) /\ GoesOn(t, "refuse")
  <2>1. Closed(To("refuse"))
    BY ClearIs DEF Withdraw, IInv
  <2>2. GoesOn(To("refuse"), "refuse")
    BY ToHas DEF IInv, Ats, AnswerAts
  <2> QED BY <2>1, <2>2
<1>3. TypeOK'
  BY <1>1, <1>2 DEF IInv, TypeOK, Closed, Emptied, JobHas, Carries, GoesOn, Around, Counted
<1>4. Labels'
  BY <1>1, <1>2 DEF IInv, Labels, ComposeAts, LiftAts, EnforceAts, AnswerAts, Enforcer, Asked,
     Closed, Emptied, JobHas, Carries, GoesOn, Around, Counted
<1>5. Running'
  BY <1>1, <1>2 DEF IInv, Running, Labels, ComposeAts, LiftAts, EnforceAts, AnswerAts, Enforcer,
     Asked, Closed, Emptied, JobHas, Carries, GoesOn, Around, Counted
<1>6. Loaded'
  BY <1>1, <1>2 DEF IInv, Loaded, Labels, Kept, Active, ComposeAts, LiftAts, EnforceAts,
     AnswerAts, Enforcer, Asked, Closed, Emptied, JobHas, Carries, GoesOn, Around, Counted
<1>7. Apart'
  BY <1>1, <1>2, CalmIs DEF StateHas, IInv, Labels, Apart, Plain, Follows, Fresh, Kept, Loaded,
     Target, DueBed, BedDue, ComposeAts, LiftAts, EnforceAts, AnswerAts, Enforcer, Asked, Closed,
     Emptied, DiskHas, JobHas, Carries, GoesOn, Stops, Ends, GivesUp, StopsAfter, Around, Counted
<1>8. Fresh'
  BY <1>1, <1>2 DEF IInv, Fresh, Labels, ComposeAts, LiftAts, EnforceAts, AnswerAts, Enforcer,
     Asked, Closed, Emptied, DiskHas, JobHas, Carries, GoesOn, Stops, Ends, GivesUp, StopsAfter,
     Around, Counted
<1>9. Follows'
  BY <1>1, <1>2 DEF IInv, TypeOK, Labels, Follows, Fresh, Apart, Plain, Kept, Loaded, Standing,
     BedDue, DockDue, DueBed, Enters, Target, Today, Gone, Active, Nested, InForce, By,
     ComposeAts, LiftAts, EnforceAts, AnswerAts, Enforcer, Asked, Closed, Emptied, DiskHas,
     JobHas, Carries, GoesOn, Stops, Ends, GivesUp, StopsAfter, Around, Counted
<1>10. ASSUME ~flag', harmed' = {}
       PROVE  Rest'
  <2>0. ~flag /\ harmed = {} /\ Rest /\ Follows /\ Fresh
    BY <1>2, <1>10 DEF IInv, Counted, Closed, Emptied
  <2>1. Journalled'
    BY <1>1, <1>2, <1>10, <2>0 DEF IInv, Labels, Rest, Journalled, Sane, Sound, Held, Found,
       Today, Gone, ComposeAts, LiftAts, EnforceAts, AnswerAts, Enforcer, Asked, Closed, Emptied,
       JobHas, Carries, GoesOn, Around, Counted
  <2>2. Owned'
    BY <1>1, <1>2, <1>10, <2>0 DEF Rest, Owned, Active, Nested, ComposeAts, LiftAts, EnforceAts,
       Enforcer, Asked, Closed, Emptied, JobHas, Carries, GoesOn, Around, Counted
  <2>3. Settled'
    BY <1>1, <1>2, <1>10, <2>0 DEF Rest, Settled, Fresh, ComposeAts, Enforcer, Closed, Emptied,
       JobHas, Carries, GoesOn, Around, Counted
  <2>4. Taken'
    BY <1>1, <1>2, <1>10, <2>0 DEF Rest, Taken, Held, Standing, BedDue, DockDue, Enters, Today,
       ComposeAts, Enforcer, Closed, Emptied, JobHas, Carries, GoesOn, Around, Counted
  <2>5. Undone'
    BY <1>1, <1>2, <1>10, <2>0 DEF Rest, Undone, Lost, Standing, BedDue, Enters, Today, Gone,
       ComposeAts, Enforcer, Closed, Emptied, JobHas, Carries, GoesOn, Around, Counted
  <2>6. Left'
    BY <1>1, <1>2, <1>10, <2>0 DEF Rest, Left, DockDue, Today, Closed, Emptied, JobHas, Carries,
       GoesOn, Around, Counted
  <2>7. Found'
    BY <1>1, <1>2, <1>10, <2>0 DEF Rest, Found, Asked, Closed, Emptied, JobHas, Carries, GoesOn,
       Around, Counted
  <2>8. Named'
    BY <1>1, <1>2, <1>10, <2>0 DEF Rest, Named, Active, ComposeAts, LiftAts, EnforceAts, Closed,
       Emptied, JobHas, Carries, GoesOn, Around, Counted
  <2> QED BY <2>1, <2>2, <2>3, <2>4, <2>5, <2>6, <2>7, <2>8 DEF Rest
<1> QED BY <1>3, <1>4, <1>5, <1>6, <1>7, <1>8, <1>9, <1>10 DEF IInv

LEMMA AnswerKeeps ==
  ASSUME IInv, Answer
  PROVE  IInv'
<1>1. job.at = "answer" /\ job.op \in Asked
  BY DEF IInv, TypeOK, JobSet, Ops, Labels, Answer, ComposeAts, LiftAts, EnforceAts, AnswerAts,
     Enforcer, Asked
<1>2. PICK t, f : (Went(t) \/ Went(f)) /\ GoesOn(t, "commit") /\ GoesOn(f, "takeBack")
  <2>1. PICK t, f : t = To("commit") /\ f = To("takeBack") /\ GoesOn(t, "commit")
             /\ GoesOn(f, "takeBack")
    BY ToHas DEF IInv, Ats, AnswerAts
  <2>2. Went(t) \/ Went(f)
    BY <2>1 DEF Answer, IInv, TypeOK, Fault, Same, Went, Counted, Around
  <2> QED BY <2>1, <2>2
<1>3. TypeOK'
  BY <1>1, <1>2 DEF IInv, TypeOK, Went, JobHas, Carries, GoesOn, Around, Counted
<1>4. Labels'
  BY <1>1, <1>2 DEF IInv, Labels, ComposeAts, LiftAts, EnforceAts, AnswerAts, Enforcer, Asked,
     Went, JobHas, Carries, GoesOn, Around, Counted
<1>5. Running'
  BY <1>1, <1>2 DEF IInv, Running, Labels, ComposeAts, LiftAts, EnforceAts, AnswerAts, Enforcer,
     Asked, Went, JobHas, Carries, GoesOn, Around, Counted
<1>6. Loaded'
  BY <1>1, <1>2 DEF IInv, Loaded, Labels, Kept, Active, ComposeAts, LiftAts, EnforceAts,
     AnswerAts, Enforcer, Asked, Went, JobHas, Carries, GoesOn, Around, Counted
<1>7. Apart'
  BY <1>1, <1>2, CalmIs DEF StateHas, IInv, Labels, Apart, Plain, Follows, Fresh, Kept, Loaded,
     Target, DueBed, BedDue, ComposeAts, LiftAts, EnforceAts, AnswerAts, Enforcer, Asked, Went,
     DiskHas, JobHas, Carries, GoesOn, Stops, Ends, GivesUp, StopsAfter, Around, Counted
<1>8. Fresh'
  BY <1>1, <1>2 DEF IInv, Fresh, Labels, ComposeAts, LiftAts, EnforceAts, AnswerAts, Enforcer,
     Asked, Went, DiskHas, JobHas, Carries, GoesOn, Stops, Ends, GivesUp, StopsAfter, Around,
     Counted
<1>9. Follows'
  BY <1>1, <1>2 DEF IInv, TypeOK, Labels, Follows, Fresh, Apart, Plain, Kept, Loaded, Standing,
     BedDue, DockDue, DueBed, Enters, Target, Today, Gone, Active, Nested, InForce, By,
     ComposeAts, LiftAts, EnforceAts, AnswerAts, Enforcer, Asked, Went, DiskHas, JobHas, Carries,
     GoesOn, Stops, Ends, GivesUp, StopsAfter, Around, Counted
<1>10. ASSUME ~flag', harmed' = {}
       PROVE  Rest'
  <2>0. ~flag /\ harmed = {} /\ Rest /\ Follows /\ Fresh
    BY <1>2, <1>10 DEF IInv, Counted, Went
  <2>1. Journalled'
    BY <1>1, <1>2, <2>0 DEF Rest, Journalled, Sane, Sound, Held, Today, Gone, Asked, Went, JobHas,
       Carries, GoesOn, Around, Counted
  <2>2. Owned'
    BY <1>1, <1>2, <2>0 DEF Rest, Owned, Active, Nested, ComposeAts, LiftAts, EnforceAts,
       Enforcer, Asked, Went, JobHas, Carries, GoesOn, Around, Counted
  <2>3. Settled'
    BY <1>1, <1>2, <2>0 DEF Rest, Settled, Fresh, ComposeAts, Enforcer, Asked, Went, JobHas,
       Carries, GoesOn, Around, Counted
  <2>4. Taken'
    BY <1>1, <1>2, <2>0 DEF Rest, Taken, Held, Standing, BedDue, DockDue, Enters, Today,
       ComposeAts, Enforcer, Asked, Went, JobHas, Carries, GoesOn, Around, Counted
  <2>5. Undone'
    BY <1>1, <1>2, <2>0 DEF Rest, Undone, Lost, Standing, BedDue, Enters, Today, Gone, ComposeAts,
       Enforcer, Asked, Went, JobHas, Carries, GoesOn, Around, Counted
  <2>6. Left'
    <3>1. job'.at \in {"commit", "takeBack"}
      BY <1>2 DEF Went, GoesOn, Carries, JobHas
    <3> QED BY <3>1 DEF Left
  <2>7. Found'
    BY <1>1, <1>2, <2>0 DEF Rest, Found, Asked, Went, JobHas, Carries, GoesOn, Around, Counted
  <2>8. Named'
    BY <1>1, <1>2, <2>0 DEF Rest, Named, Active, ComposeAts, LiftAts, EnforceAts, Asked, Went,
       JobHas, Carries, GoesOn, Around, Counted
  <2> QED BY <2>1, <2>2, <2>3, <2>4, <2>5, <2>6, <2>7, <2>8 DEF Rest
<1> QED BY <1>3, <1>4, <1>5, <1>6, <1>7, <1>8, <1>9, <1>10 DEF IInv

LEMMA TakeBackKeeps ==
  ASSUME IInv, TakeBack
  PROVE  IInv'
<1>1. job.at = "takeBack" /\ job.op \in Asked
  BY DEF IInv, TypeOK, JobSet, Ops, Labels, TakeBack, ComposeAts, LiftAts, EnforceAts, AnswerAts,
     Enforcer, Asked
<1>2. PICK t, f : RolledBack(t, f) /\ Ends(t) /\ Stops(f, "end")
  <2>1. RolledBack(Idle, Stopping("end"))
    BY RollbackIs DEF TakeBack, IInv
  <2>2. Ends(Idle) /\ Stops(Stopping("end"), "end")
    BY IdleIs, StoppingHas DEF IInv, Ats
  <2> QED BY <2>1, <2>2
<1>3. TypeOK'
  BY <1>1, <1>2 DEF IInv, TypeOK, RolledBack, Unrolled, Rolled, Halfway, Emptied, JobHas, Stops,
     Ends, Around, Counted, Journals
<1>4. Labels'
  BY <1>1, <1>2 DEF IInv, Labels, ComposeAts, LiftAts, EnforceAts, AnswerAts, Enforcer, Asked,
     RolledBack, Unrolled, Rolled, Halfway, Emptied, JobHas, Stops, Ends, Around, Counted
<1>5. Running'
  BY <1>1, <1>2 DEF IInv, Running, Labels, ComposeAts, LiftAts, EnforceAts, AnswerAts, Enforcer,
     Asked, RolledBack, Unrolled, Rolled, Halfway, Emptied, JobHas, Stops, Ends, Around, Counted
<1>6. Loaded'
  BY <1>1, <1>2 DEF IInv, Loaded, Labels, Kept, Active, ComposeAts, LiftAts, EnforceAts,
     AnswerAts, Enforcer, Asked, RolledBack, Unrolled, Rolled, Halfway, Emptied, JobHas, Stops,
     Ends, Around, Counted
<1>7. Apart'
  BY <1>1, <1>2, CalmIs DEF IInv, Apart, Plain, StateHas, RolledBack, Unrolled, Rolled, Halfway,
     Emptied, JobHas, Carries, GoesOn, Stops, Ends, GivesUp, StopsAfter
<1>8. Fresh'
  BY <1>1, <1>2 DEF IInv, Fresh, Labels, ComposeAts, LiftAts, EnforceAts, AnswerAts, Enforcer,
     Asked, RolledBack, Unrolled, Rolled, Halfway, Emptied, DiskHas, JobHas, Carries, GoesOn,
     Stops, Ends, GivesUp, StopsAfter, Around, Counted
<1>9. Follows'
  BY <1>1, <1>2 DEF IInv, TypeOK, Labels, Follows, Fresh, Apart, Plain, Kept, Loaded, Standing,
     BedDue, DockDue, DueBed, Enters, Target, Today, Gone, Active, Nested, InForce, By,
     ComposeAts, LiftAts, EnforceAts, AnswerAts, Enforcer, Asked, RolledBack, Unrolled, Rolled,
     Halfway, Emptied, DiskHas, JobHas, Carries, GoesOn, Stops, Ends, GivesUp, StopsAfter, Around,
     Counted
<1>10. ASSUME ~flag', harmed' = {}
       PROVE  Rest'
  <2>0. ~flag /\ harmed = {} /\ Rest /\ Follows /\ Fresh
    BY <1>2, <1>10 DEF IInv, Counted, RolledBack, Unrolled, Rolled, Halfway, Emptied
  <2>a. /\ Unrolled(t) \/ (Rolled(t) /\ journal' = None) \/ Halfway(f)
        /\ flag' = flag /\ Around /\ Ends(t) /\ Stops(f, "end")
    BY <1>2, <1>10, RollsBack
  <2>1. Journalled'
    <3>1. CASE Unrolled(t)
      BY <1>1, <2>0, <2>a, <3>1, CalmIs DEF Rest, Journalled, Sane, Sound, Held, Gone, Today,
         ComposeAts, LiftAts, EnforceAts, AnswerAts, Enforcer, Asked, Unrolled, JobHas, Carries,
         GoesOn, Stops, Ends, GivesUp, StopsAfter, Around
    <3>2. CASE Rolled(t) /\ journal' = None
      BY <1>1, <2>0, <2>a, <3>2, CalmIs DEF Rest, Journalled, Sane, Sound, Held, Gone, Today,
         ComposeAts, LiftAts, EnforceAts, AnswerAts, Enforcer, Asked, Rolled, JobHas, Carries,
         GoesOn, Stops, Ends, GivesUp, StopsAfter, Around
    <3>3. CASE Halfway(f)
      <4>1. Sane(disk.st)'
        BY <2>0, <2>a, <3>3, CalmIs DEF Rest, Journalled, Sane, Halfway, Around, StateHas
      <4>2. journal # None => Sane(journal.disk.st)' /\ Sound(journal.disk)'
        BY <2>0, <2>a, <3>3 DEF Rest, Journalled, Sane, Sound, Held, Gone, Today, Halfway, Around
      <4>3. job'.at = "stop"
        BY <2>a, <3>3 DEF Halfway, Stops, StopsAfter, JobHas
      <4> QED BY <2>0, <3>3, <4>1, <4>2, <4>3 DEF Rest, Journalled, Halfway
    <3> QED BY <2>a, <3>1, <3>2, <3>3
  <2>2. Owned'
    <3>1. CASE Unrolled(t)
      BY <1>1, <2>0, <2>a, <3>1, CalmIs DEF Rest, Owned, Journalled, Active, Nested, ComposeAts,
         LiftAts, EnforceAts, AnswerAts, Enforcer, Asked, Unrolled, JobHas, Carries, GoesOn,
         Stops, Ends, GivesUp, StopsAfter, Around
    <3>2. CASE Rolled(t) /\ journal' = None
      BY <1>1, <2>0, <2>a, <3>2, CalmIs DEF Rest, Owned, Journalled, Active, Nested, ComposeAts,
         LiftAts, EnforceAts, AnswerAts, Enforcer, Asked, Rolled, JobHas, Carries, GoesOn, Stops,
         Ends, GivesUp, StopsAfter, Around
    <3>3. CASE Halfway(f)
      BY <1>1, <2>0, <2>a, <3>3, CalmIs DEF Rest, Owned, Journalled, Active, Nested, ComposeAts,
         LiftAts, EnforceAts, AnswerAts, Enforcer, Asked, Halfway, StateHas, JobHas, Carries,
         GoesOn, Stops, Ends, GivesUp, StopsAfter, Around
    <3> QED BY <2>a, <3>1, <3>2, <3>3
  <2>3. Settled'
    BY <1>1, <1>2, <1>10, <2>0, CalmIs DEF Rest, Settled, Fresh, ComposeAts, Enforcer, Asked,
       RolledBack, Unrolled, Rolled, Halfway, Emptied, JobHas, Stops, Ends, Around, Counted,
       StateHas
  <2>4. Taken'
    BY <1>1, <1>2, <1>10, <2>0, CalmIs DEF Rest, Taken, Held, Standing, BedDue, DockDue, Enters,
       Today, ComposeAts, Enforcer, Asked, RolledBack, Unrolled, Rolled, Halfway, Emptied, JobHas,
       Stops, Ends, Around, Counted, StateHas
  <2>5. Undone'
    <3>1. CASE Unrolled(t)
      BY <1>1, <2>0, <2>a, <3>1, CalmIs DEF Rest, IInv, Labels, Undone, Owned, Lost, Enters,
         BedDue, Standing, Gone, Today, ComposeAts, LiftAts, EnforceAts, AnswerAts, Enforcer,
         Asked, Unrolled, JobHas, Carries, GoesOn, Stops, Ends, GivesUp, StopsAfter, Around
    <3>2. CASE Rolled(t) /\ journal' = None
      BY <1>1, <2>0, <2>a, <3>2, CalmIs DEF Rest, IInv, Labels, Undone, Owned, Lost, Enters,
         BedDue, Standing, Gone, Today, ComposeAts, LiftAts, EnforceAts, AnswerAts, Enforcer,
         Asked, Rolled, JobHas, Carries, GoesOn, Stops, Ends, GivesUp, StopsAfter, Around
    <3>3. CASE Halfway(f)
      BY <1>1, <2>0, <2>a, <3>3, CalmIs DEF Rest, IInv, Labels, Undone, Owned, Lost, Enters,
         BedDue, Standing, Gone, Today, ComposeAts, LiftAts, EnforceAts, AnswerAts, Enforcer,
         Asked, Halfway, StateHas, JobHas, Carries, GoesOn, Stops, Ends, GivesUp, StopsAfter,
         Around
    <3> QED BY <2>a, <3>1, <3>2, <3>3
  <2>6. Left'
    <3>1. CASE Unrolled(t)
      BY <1>1, <2>0, <2>a, <3>1, CalmIs DEF Rest, Left, Undone, Owned, DockDue, Today, ComposeAts,
         LiftAts, EnforceAts, AnswerAts, Enforcer, Asked, Unrolled, JobHas, Carries, GoesOn,
         Stops, Ends, GivesUp, StopsAfter, Around
    <3>2. CASE Rolled(t) /\ journal' = None
      BY <1>1, <2>0, <2>a, <3>2, CalmIs DEF Rest, Left, Undone, Owned, DockDue, Today, ComposeAts,
         LiftAts, EnforceAts, AnswerAts, Enforcer, Asked, Rolled, JobHas, Carries, GoesOn, Stops,
         Ends, GivesUp, StopsAfter, Around
    <3>3. CASE Halfway(f)
      BY <1>1, <2>0, <2>a, <3>3, CalmIs DEF Rest, Left, Undone, Owned, DockDue, Today, ComposeAts,
         LiftAts, EnforceAts, AnswerAts, Enforcer, Asked, Halfway, StateHas, JobHas, Carries,
         GoesOn, Stops, Ends, GivesUp, StopsAfter, Around
    <3> QED BY <2>a, <3>1, <3>2, <3>3
  <2>7. Found'
    <3>1. CASE Unrolled(t)
      BY <1>1, <2>0, <2>a, <3>1, CalmIs DEF Rest, Found, Owned, ComposeAts, LiftAts, EnforceAts,
         AnswerAts, Enforcer, Asked, Unrolled, JobHas, Carries, GoesOn, Stops, Ends, GivesUp,
         StopsAfter, Around
    <3>2. CASE Rolled(t) /\ journal' = None
      BY <1>1, <2>0, <2>a, <3>2, CalmIs DEF Rest, Found, Owned, ComposeAts, LiftAts, EnforceAts,
         AnswerAts, Enforcer, Asked, Rolled, JobHas, Carries, GoesOn, Stops, Ends, GivesUp,
         StopsAfter, Around
    <3>3. CASE Halfway(f)
      BY <1>1, <2>0, <2>a, <3>3, CalmIs DEF Rest, Found, Owned, ComposeAts, LiftAts, EnforceAts,
         AnswerAts, Enforcer, Asked, Halfway, StateHas, JobHas, Carries, GoesOn, Stops, Ends,
         GivesUp, StopsAfter, Around
    <3> QED BY <2>a, <3>1, <3>2, <3>3
  <2>8. Named'
    <3>1. CASE Unrolled(t)
      BY <1>1, <2>0, <2>a, <3>1, CalmIs DEF Rest, Named, Owned, Journalled, Active, ComposeAts,
         LiftAts, EnforceAts, AnswerAts, Enforcer, Asked, Unrolled, JobHas, Carries, GoesOn,
         Stops, Ends, GivesUp, StopsAfter, Around
    <3>2. CASE Rolled(t) /\ journal' = None
      BY <1>1, <2>0, <2>a, <3>2, CalmIs DEF Rest, Named, Owned, Journalled, Active, ComposeAts,
         LiftAts, EnforceAts, AnswerAts, Enforcer, Asked, Rolled, JobHas, Carries, GoesOn, Stops,
         Ends, GivesUp, StopsAfter, Around
    <3>3. CASE Halfway(f)
      BY <1>1, <2>0, <2>a, <3>3, CalmIs DEF Rest, Named, Owned, Journalled, Active, ComposeAts,
         LiftAts, EnforceAts, AnswerAts, Enforcer, Asked, Halfway, StateHas, JobHas, Carries,
         GoesOn, Stops, Ends, GivesUp, StopsAfter, Around
    <3> QED BY <2>a, <3>1, <3>2, <3>3
  <2> QED BY <2>1, <2>2, <2>3, <2>4, <2>5, <2>6, <2>7, <2>8 DEF Rest
<1> QED BY <1>3, <1>4, <1>5, <1>6, <1>7, <1>8, <1>9, <1>10 DEF IInv

LEMMA CommitKeeps ==
  ASSUME IInv, Commit
  PROVE  IInv'
<1>1. job.at = "commit" /\ job.op \in Asked
  BY DEF IInv, TypeOK, JobSet, Ops, Labels, Commit, ComposeAts, LiftAts, EnforceAts, AnswerAts,
     Enforcer, Asked
<1>2. PICK t : Closed(t) /\ ((job.op = "rest" /\ GoesOn(t,
                                                        "forgetRest")) \/ (job.op # "rest" /\ Ends(t)))
  <2>1. PICK t : /\ t = IF job.op = "rest" THEN To("forgetRest") ELSE Idle
                 /\ (job.op = "rest" /\ GoesOn(t, "forgetRest")) \/ (job.op # "rest" /\ Ends(t))
    BY ToHas, IdleIs DEF IInv, Ats
  <2>2. Closed(t)
    BY <2>1, ClearIs DEF Commit, IInv
  <2> QED BY <2>1, <2>2
<1>3. TypeOK'
  BY <1>1, <1>2 DEF IInv, TypeOK, Closed, Emptied, JobHas, Carries, GoesOn, Ends, Around, Counted
<1>4. Labels'
  BY <1>1, <1>2 DEF IInv, Labels, ComposeAts, LiftAts, EnforceAts, AnswerAts, Enforcer, Asked,
     Closed, Emptied, JobHas, Carries, GoesOn, Ends, Around, Counted
<1>5. Running'
  BY <1>1, <1>2 DEF IInv, Running, Labels, ComposeAts, LiftAts, EnforceAts, AnswerAts, Enforcer,
     Asked, Closed, Emptied, JobHas, Carries, GoesOn, Ends, Around, Counted
<1>6. Loaded'
  BY <1>1, <1>2 DEF IInv, Loaded, Labels, Kept, Active, ComposeAts, LiftAts, EnforceAts,
     AnswerAts, Enforcer, Asked, Closed, Emptied, JobHas, Carries, GoesOn, Ends, Around, Counted
<1>7. Apart'
  BY <1>1, <1>2, CalmIs DEF StateHas, IInv, Labels, Apart, Plain, Follows, Fresh, Kept, Loaded,
     Target, DueBed, BedDue, ComposeAts, LiftAts, EnforceAts, AnswerAts, Enforcer, Asked, Closed,
     Emptied, DiskHas, JobHas, Carries, GoesOn, Stops, Ends, GivesUp, StopsAfter, Around, Counted
<1>8. Fresh'
  BY <1>1, <1>2 DEF IInv, Fresh, Labels, ComposeAts, LiftAts, EnforceAts, AnswerAts, Enforcer,
     Asked, Closed, Emptied, DiskHas, JobHas, Carries, GoesOn, Stops, Ends, GivesUp, StopsAfter,
     Around, Counted
<1>9. Follows'
  BY <1>1, <1>2 DEF IInv, TypeOK, Labels, Follows, Fresh, Apart, Plain, Kept, Loaded, Standing,
     BedDue, DockDue, DueBed, Enters, Target, Today, Gone, Active, Nested, InForce, By,
     ComposeAts, LiftAts, EnforceAts, AnswerAts, Enforcer, Asked, Closed, Emptied, DiskHas,
     JobHas, Carries, GoesOn, Stops, Ends, GivesUp, StopsAfter, Around, Counted
<1>10. ASSUME ~flag', harmed' = {}
       PROVE  Rest'
  <2>0. ~flag /\ harmed = {} /\ Rest /\ Follows /\ Fresh
    BY <1>2, <1>10 DEF IInv, Counted, Closed, Emptied
  <2>1. Journalled'
    BY <1>1, <1>2, <1>10, <2>0, CalmIs DEF IInv, Labels, Rest, Journalled, Settled, Fresh, Sane,
       Sound, Held, Today, Gone, ComposeAts, LiftAts, EnforceAts, AnswerAts, Enforcer, Asked,
       Closed, Emptied, JobHas, Carries, GoesOn, Ends, Around, Counted, StateHas
  <2>2. Owned'
    BY <1>1, <1>2, <1>10, <2>0, CalmIs DEF Rest, Owned, Active, Nested, ComposeAts, LiftAts,
       EnforceAts, Enforcer, Asked, Closed, Emptied, JobHas, Carries, GoesOn, Ends, Around,
       Counted, StateHas
  <2>3. Settled'
    BY <1>1, <1>2, <1>10, <2>0, CalmIs DEF Rest, Settled, Fresh, ComposeAts, Enforcer, Asked,
       Closed, Emptied, JobHas, Carries, GoesOn, Ends, Around, Counted, StateHas
  <2>4. Taken'
    BY <1>1, <1>2, <1>10, <2>0, CalmIs DEF Rest, Taken, Held, Standing, BedDue, DockDue, Enters,
       Today, ComposeAts, Enforcer, Asked, Closed, Emptied, JobHas, Carries, GoesOn, Ends, Around,
       Counted, StateHas
  <2>5. Undone'
    BY <1>1, <1>2, <1>10, <2>0, CalmIs DEF Rest, Undone, Lost, Standing, BedDue, Enters, Today,
       Gone, ComposeAts, Enforcer, Asked, Closed, Emptied, JobHas, Carries, GoesOn, Ends, Around,
       Counted, StateHas
  <2>6. Left'
    BY <1>1, <1>2, <1>10, <2>0, CalmIs DEF Rest, Left, DockDue, Today, Asked, Closed, Emptied,
       JobHas, Carries, GoesOn, Ends, Around, Counted, StateHas
  <2>7. Found'
    BY <1>1, <1>2, <1>10, <2>0, CalmIs DEF Rest, Found, Asked, Closed, Emptied, JobHas, Carries,
       GoesOn, Ends, Around, Counted, StateHas
  <2>8. Named'
    BY <1>1, <1>2, <1>10, <2>0, CalmIs DEF Rest, Named, Active, ComposeAts, LiftAts, EnforceAts,
       Asked, Closed, Emptied, JobHas, Carries, GoesOn, Ends, Around, Counted, StateHas
  <2> QED BY <2>1, <2>2, <2>3, <2>4, <2>5, <2>6, <2>7, <2>8 DEF Rest
<1> QED BY <1>3, <1>4, <1>5, <1>6, <1>7, <1>8, <1>9, <1>10 DEF IInv

LEMMA ForgetRestKeeps ==
  ASSUME IInv, ForgetRest
  PROVE  IInv'
<1>1. job.at = "forgetRest" /\ job.op = "rest"
  BY DEF IInv, TypeOK, JobSet, Ops, Labels, ForgetRest, ComposeAts, LiftAts, EnforceAts,
     AnswerAts, Enforcer, Asked
<1>2. PICK t : Removed(disk.bed, None, disk.dock, t) /\ Ends(t)
  <2>1. disk.bed \in Snapshot \cup {None} /\ None \in Snapshot \cup {None}
        /\ disk.dock \in Snapshot \cup {None}
    BY TypeFields DEF IInv
  <2>2. Removed(disk.bed, None, disk.dock, Idle)
    BY <2>1, RemoveIs DEF ForgetRest, IInv
  <2>3. Ends(Idle)
    BY IdleIs DEF IInv
  <2> QED BY <2>2, <2>3
<1>3. TypeOK'
  BY <1>1, <1>2 DEF IInv, TypeOK, Removed, DiskHas, JobHas, Ends, Around, Counted
<1>4. Labels'
  BY <1>1, <1>2 DEF IInv, Labels, ComposeAts, LiftAts, EnforceAts, AnswerAts, Enforcer, Asked,
     Removed, DiskHas, JobHas, Ends, Around, Counted
<1>5. Running'
  BY <1>1, <1>2 DEF IInv, Running, Labels, ComposeAts, LiftAts, EnforceAts, AnswerAts, Enforcer,
     Asked, Removed, DiskHas, JobHas, Ends, Around, Counted
<1>6. Loaded'
  BY <1>1, <1>2 DEF IInv, Loaded, Labels, Kept, Active, ComposeAts, LiftAts, EnforceAts,
     AnswerAts, Enforcer, Asked, Removed, DiskHas, JobHas, Ends, Around, Counted
<1>7. Apart'
  BY <1>1, <1>2, CalmIs DEF StateHas, IInv, Labels, Apart, Plain, Follows, Fresh, Kept, Loaded,
     Target, DueBed, BedDue, ComposeAts, LiftAts, EnforceAts, AnswerAts, Enforcer, Asked, Removed,
     DiskHas, JobHas, Carries, GoesOn, Stops, Ends, GivesUp, StopsAfter, Around, Counted
<1>8. Fresh'
  BY <1>1, <1>2 DEF IInv, Fresh, Labels, ComposeAts, LiftAts, EnforceAts, AnswerAts, Enforcer,
     Asked, Removed, DiskHas, JobHas, Carries, GoesOn, Stops, Ends, GivesUp, StopsAfter, Around,
     Counted
<1>9. Follows'
  BY <1>1, <1>2 DEF IInv, TypeOK, Labels, Follows, Fresh, Apart, Plain, Kept, Loaded, Standing,
     BedDue, DockDue, DueBed, Enters, Target, Today, Gone, Active, Nested, InForce, By,
     ComposeAts, LiftAts, EnforceAts, AnswerAts, Enforcer, Asked, Removed, DiskHas, JobHas,
     Carries, GoesOn, Stops, Ends, GivesUp, StopsAfter, Around, Counted
<1>10. ASSUME ~flag', harmed' = {}
       PROVE  Rest'
  <2>0. ~flag /\ harmed = {} /\ Rest /\ Follows /\ Fresh
    BY <1>2, <1>10 DEF IInv, Counted, Removed
  <2>1. Journalled'
    BY <1>1, <1>2, <2>0 DEF Rest, Journalled, Sane, Sound, Held, Found, Today, Gone, Asked,
       Removed, DiskHas, JobHas, Ends, Around, Counted
  <2>2. Owned'
    BY <1>1, <1>2, <2>0 DEF Rest, Owned, Active, Nested, ComposeAts, LiftAts, EnforceAts,
       Enforcer, Asked, Removed, DiskHas, JobHas, Ends, Around, Counted
  <2>3. Settled'
    BY <1>1, <1>2, <2>0 DEF Rest, Settled, Fresh, ComposeAts, Enforcer, Removed, DiskHas, JobHas,
       Ends, Around, Counted
  <2>4. Taken'
    BY <1>1, <1>2, <2>0 DEF Rest, Taken, Held, Standing, BedDue, DockDue, Enters, Today,
       ComposeAts, Enforcer, Removed, DiskHas, JobHas, Ends, Around, Counted
  <2>5. Undone'
    BY <1>1, <1>2, <2>0 DEF Rest, Undone, Lost, Standing, BedDue, Enters, Today, Gone, ComposeAts,
       Enforcer, Removed, DiskHas, JobHas, Ends, Around, Counted
  <2>6. Left'
    BY <1>1, <1>2, <2>0 DEF Rest, Left, Owned, DockDue, Today, Active, Nested, ComposeAts,
       LiftAts, EnforceAts, Enforcer, Asked, Removed, DiskHas, JobHas, Ends, Around, Counted
  <2>7. Found'
    BY <1>1, <1>2, <2>0 DEF Rest, Found, Asked, Removed, DiskHas, JobHas, Ends, Around, Counted
  <2>8. Named'
    BY <1>1, <1>2, <2>0 DEF Rest, Named, Active, ComposeAts, LiftAts, EnforceAts, Removed,
       DiskHas, JobHas, Ends, Around, Counted
  <2> QED BY <2>1, <2>2, <2>3, <2>4, <2>5, <2>6, <2>7, <2>8 DEF Rest
<1> QED BY <1>3, <1>4, <1>5, <1>6, <1>7, <1>8, <1>9, <1>10 DEF IInv

LEMMA RefuseKeeps ==
  ASSUME IInv, Refuse
  PROVE  IInv'
<1>1. job.at = "refuse" /\ job.op \in Asked
  BY DEF IInv, TypeOK, JobSet, Ops, Labels, Refuse, ComposeAts, LiftAts, EnforceAts, AnswerAts,
     Enforcer, Asked
<1>2. PICK t, f : RolledBack(t, f) /\ Ends(t) /\ Stops(f, "end")
  <2>1. RolledBack(Idle, Stopping("end"))
    BY RollbackIs DEF Refuse, IInv
  <2>2. Ends(Idle) /\ Stops(Stopping("end"), "end")
    BY IdleIs, StoppingHas DEF IInv, Ats
  <2> QED BY <2>1, <2>2
<1>3. TypeOK'
  BY <1>1, <1>2 DEF IInv, TypeOK, RolledBack, Unrolled, Rolled, Halfway, Emptied, JobHas, Stops,
     Ends, Around, Counted, Journals
<1>4. Labels'
  BY <1>1, <1>2 DEF IInv, Labels, ComposeAts, LiftAts, EnforceAts, AnswerAts, Enforcer, Asked,
     RolledBack, Unrolled, Rolled, Halfway, Emptied, JobHas, Stops, Ends, Around, Counted
<1>5. Running'
  BY <1>1, <1>2 DEF IInv, Running, Labels, ComposeAts, LiftAts, EnforceAts, AnswerAts, Enforcer,
     Asked, RolledBack, Unrolled, Rolled, Halfway, Emptied, JobHas, Stops, Ends, Around, Counted
<1>6. Loaded'
  BY <1>1, <1>2 DEF IInv, Loaded, Labels, Kept, Active, ComposeAts, LiftAts, EnforceAts,
     AnswerAts, Enforcer, Asked, RolledBack, Unrolled, Rolled, Halfway, Emptied, JobHas, Stops,
     Ends, Around, Counted
<1>7. Apart'
  BY <1>1, <1>2, CalmIs DEF IInv, Apart, Plain, StateHas, RolledBack, Unrolled, Rolled, Halfway,
     Emptied, JobHas, Carries, GoesOn, Stops, Ends, GivesUp, StopsAfter
<1>8. Fresh'
  BY <1>1, <1>2 DEF IInv, Fresh, Labels, ComposeAts, LiftAts, EnforceAts, AnswerAts, Enforcer,
     Asked, RolledBack, Unrolled, Rolled, Halfway, Emptied, DiskHas, JobHas, Carries, GoesOn,
     Stops, Ends, GivesUp, StopsAfter, Around, Counted
<1>9. Follows'
  BY <1>1, <1>2 DEF IInv, TypeOK, Labels, Follows, Fresh, Apart, Plain, Kept, Loaded, Standing,
     BedDue, DockDue, DueBed, Enters, Target, Today, Gone, Active, Nested, InForce, By,
     ComposeAts, LiftAts, EnforceAts, AnswerAts, Enforcer, Asked, RolledBack, Unrolled, Rolled,
     Halfway, Emptied, DiskHas, JobHas, Carries, GoesOn, Stops, Ends, GivesUp, StopsAfter, Around,
     Counted
<1>10. ASSUME ~flag', harmed' = {}
       PROVE  Rest'
  <2>0. ~flag /\ harmed = {} /\ Rest /\ Follows /\ Fresh
    BY <1>2, <1>10 DEF IInv, Counted, RolledBack, Unrolled, Rolled, Halfway, Emptied
  <2>a. /\ Unrolled(t) \/ (Rolled(t) /\ journal' = None) \/ Halfway(f)
        /\ flag' = flag /\ Around /\ Ends(t) /\ Stops(f, "end")
    BY <1>2, <1>10, RollsBack
  <2>1. Journalled'
    <3>1. CASE Unrolled(t)
      BY <1>1, <2>0, <2>a, <3>1, CalmIs DEF Rest, Journalled, Sane, Sound, Held, Gone, Today,
         ComposeAts, LiftAts, EnforceAts, AnswerAts, Enforcer, Asked, Unrolled, JobHas, Carries,
         GoesOn, Stops, Ends, GivesUp, StopsAfter, Around
    <3>2. CASE Rolled(t) /\ journal' = None
      BY <1>1, <2>0, <2>a, <3>2, CalmIs DEF Rest, Journalled, Sane, Sound, Held, Gone, Today,
         ComposeAts, LiftAts, EnforceAts, AnswerAts, Enforcer, Asked, Rolled, JobHas, Carries,
         GoesOn, Stops, Ends, GivesUp, StopsAfter, Around
    <3>3. CASE Halfway(f)
      <4>1. Sane(disk.st)'
        BY <2>0, <2>a, <3>3, CalmIs DEF Rest, Journalled, Sane, Halfway, Around, StateHas
      <4>2. journal # None => Sane(journal.disk.st)' /\ Sound(journal.disk)'
        BY <2>0, <2>a, <3>3 DEF Rest, Journalled, Sane, Sound, Held, Gone, Today, Halfway, Around
      <4>3. job'.at = "stop"
        BY <2>a, <3>3 DEF Halfway, Stops, StopsAfter, JobHas
      <4> QED BY <2>0, <3>3, <4>1, <4>2, <4>3 DEF Rest, Journalled, Halfway
    <3> QED BY <2>a, <3>1, <3>2, <3>3
  <2>2. Owned'
    <3>1. CASE Unrolled(t)
      BY <1>1, <2>0, <2>a, <3>1, CalmIs DEF Rest, Owned, Journalled, Active, Nested, ComposeAts,
         LiftAts, EnforceAts, AnswerAts, Enforcer, Asked, Unrolled, JobHas, Carries, GoesOn,
         Stops, Ends, GivesUp, StopsAfter, Around
    <3>2. CASE Rolled(t) /\ journal' = None
      BY <1>1, <2>0, <2>a, <3>2, CalmIs DEF Rest, Owned, Journalled, Active, Nested, ComposeAts,
         LiftAts, EnforceAts, AnswerAts, Enforcer, Asked, Rolled, JobHas, Carries, GoesOn, Stops,
         Ends, GivesUp, StopsAfter, Around
    <3>3. CASE Halfway(f)
      BY <1>1, <2>0, <2>a, <3>3, CalmIs DEF Rest, Owned, Journalled, Active, Nested, ComposeAts,
         LiftAts, EnforceAts, AnswerAts, Enforcer, Asked, Halfway, StateHas, JobHas, Carries,
         GoesOn, Stops, Ends, GivesUp, StopsAfter, Around
    <3> QED BY <2>a, <3>1, <3>2, <3>3
  <2>3. Settled'
    BY <1>1, <1>2, <1>10, <2>0, CalmIs DEF Rest, Settled, Fresh, ComposeAts, Enforcer, Asked,
       RolledBack, Unrolled, Rolled, Halfway, Emptied, JobHas, Stops, Ends, Around, Counted,
       StateHas
  <2>4. Taken'
    BY <1>1, <1>2, <1>10, <2>0, CalmIs DEF Rest, Taken, Held, Standing, BedDue, DockDue, Enters,
       Today, ComposeAts, Enforcer, Asked, RolledBack, Unrolled, Rolled, Halfway, Emptied, JobHas,
       Stops, Ends, Around, Counted, StateHas
  <2>5. Undone'
    <3>1. CASE Unrolled(t)
      BY <1>1, <2>0, <2>a, <3>1, CalmIs DEF Rest, IInv, Labels, Undone, Owned, Lost, Enters,
         BedDue, Standing, Gone, Today, ComposeAts, LiftAts, EnforceAts, AnswerAts, Enforcer,
         Asked, Unrolled, JobHas, Carries, GoesOn, Stops, Ends, GivesUp, StopsAfter, Around
    <3>2. CASE Rolled(t) /\ journal' = None
      BY <1>1, <2>0, <2>a, <3>2, CalmIs DEF Rest, IInv, Labels, Undone, Owned, Lost, Enters,
         BedDue, Standing, Gone, Today, ComposeAts, LiftAts, EnforceAts, AnswerAts, Enforcer,
         Asked, Rolled, JobHas, Carries, GoesOn, Stops, Ends, GivesUp, StopsAfter, Around
    <3>3. CASE Halfway(f)
      BY <1>1, <2>0, <2>a, <3>3, CalmIs DEF Rest, IInv, Labels, Undone, Owned, Lost, Enters,
         BedDue, Standing, Gone, Today, ComposeAts, LiftAts, EnforceAts, AnswerAts, Enforcer,
         Asked, Halfway, StateHas, JobHas, Carries, GoesOn, Stops, Ends, GivesUp, StopsAfter,
         Around
    <3> QED BY <2>a, <3>1, <3>2, <3>3
  <2>6. Left'
    <3>1. CASE Unrolled(t)
      BY <1>1, <2>0, <2>a, <3>1, CalmIs DEF Rest, Left, Undone, Owned, DockDue, Today, ComposeAts,
         LiftAts, EnforceAts, AnswerAts, Enforcer, Asked, Unrolled, JobHas, Carries, GoesOn,
         Stops, Ends, GivesUp, StopsAfter, Around
    <3>2. CASE Rolled(t) /\ journal' = None
      BY <1>1, <2>0, <2>a, <3>2, CalmIs DEF Rest, Left, Undone, Owned, DockDue, Today, ComposeAts,
         LiftAts, EnforceAts, AnswerAts, Enforcer, Asked, Rolled, JobHas, Carries, GoesOn, Stops,
         Ends, GivesUp, StopsAfter, Around
    <3>3. CASE Halfway(f)
      BY <1>1, <2>0, <2>a, <3>3, CalmIs DEF Rest, Left, Undone, Owned, DockDue, Today, ComposeAts,
         LiftAts, EnforceAts, AnswerAts, Enforcer, Asked, Halfway, StateHas, JobHas, Carries,
         GoesOn, Stops, Ends, GivesUp, StopsAfter, Around
    <3> QED BY <2>a, <3>1, <3>2, <3>3
  <2>7. Found'
    <3>1. CASE Unrolled(t)
      BY <1>1, <2>0, <2>a, <3>1, CalmIs DEF Rest, Found, Owned, ComposeAts, LiftAts, EnforceAts,
         AnswerAts, Enforcer, Asked, Unrolled, JobHas, Carries, GoesOn, Stops, Ends, GivesUp,
         StopsAfter, Around
    <3>2. CASE Rolled(t) /\ journal' = None
      BY <1>1, <2>0, <2>a, <3>2, CalmIs DEF Rest, Found, Owned, ComposeAts, LiftAts, EnforceAts,
         AnswerAts, Enforcer, Asked, Rolled, JobHas, Carries, GoesOn, Stops, Ends, GivesUp,
         StopsAfter, Around
    <3>3. CASE Halfway(f)
      BY <1>1, <2>0, <2>a, <3>3, CalmIs DEF Rest, Found, Owned, ComposeAts, LiftAts, EnforceAts,
         AnswerAts, Enforcer, Asked, Halfway, StateHas, JobHas, Carries, GoesOn, Stops, Ends,
         GivesUp, StopsAfter, Around
    <3> QED BY <2>a, <3>1, <3>2, <3>3
  <2>8. Named'
    <3>1. CASE Unrolled(t)
      BY <1>1, <2>0, <2>a, <3>1, CalmIs DEF Rest, Named, Owned, Journalled, Active, ComposeAts,
         LiftAts, EnforceAts, AnswerAts, Enforcer, Asked, Unrolled, JobHas, Carries, GoesOn,
         Stops, Ends, GivesUp, StopsAfter, Around
    <3>2. CASE Rolled(t) /\ journal' = None
      BY <1>1, <2>0, <2>a, <3>2, CalmIs DEF Rest, Named, Owned, Journalled, Active, ComposeAts,
         LiftAts, EnforceAts, AnswerAts, Enforcer, Asked, Rolled, JobHas, Carries, GoesOn, Stops,
         Ends, GivesUp, StopsAfter, Around
    <3>3. CASE Halfway(f)
      BY <1>1, <2>0, <2>a, <3>3, CalmIs DEF Rest, Named, Owned, Journalled, Active, ComposeAts,
         LiftAts, EnforceAts, AnswerAts, Enforcer, Asked, Halfway, StateHas, JobHas, Carries,
         GoesOn, Stops, Ends, GivesUp, StopsAfter, Around
    <3> QED BY <2>a, <3>1, <3>2, <3>3
  <2> QED BY <2>1, <2>2, <2>3, <2>4, <2>5, <2>6, <2>7, <2>8 DEF Rest
<1> QED BY <1>3, <1>4, <1>5, <1>6, <1>7, <1>8, <1>9, <1>10 DEF IInv

LEMMA BootKeeps ==
  ASSUME IInv, Boot
  PROVE  IInv'
<1>1. job.at = "boot" /\ job.op = "boot"
  BY DEF IInv, TypeOK, JobSet, Ops, Labels, Boot, ComposeAts, LiftAts, EnforceAts, AnswerAts,
     Enforcer, Asked
<1>2. PICK t, f : RolledBack(t, f) /\ Stops(t, "end") /\ Stops(f, "end")
  <2>1. RolledBack(Stopping("end"), Stopping("end"))
    BY RollbackIs DEF Boot, IInv
  <2>2. Stops(Stopping("end"), "end") /\ Stops(Stopping("end"), "end")
    BY StoppingHas DEF IInv, Ats
  <2> QED BY <2>1, <2>2
<1>3. TypeOK'
  BY <1>1, <1>2 DEF IInv, TypeOK, RolledBack, Unrolled, Rolled, Halfway, Emptied, JobHas, Stops,
     Around, Counted, Journals
<1>4. Labels'
  BY <1>1, <1>2 DEF IInv, Labels, ComposeAts, LiftAts, EnforceAts, AnswerAts, Enforcer, Asked,
     RolledBack, Unrolled, Rolled, Halfway, Emptied, JobHas, Stops, Around, Counted
<1>5. Running'
  BY <1>1, <1>2 DEF IInv, Running, Labels, ComposeAts, LiftAts, EnforceAts, AnswerAts, Enforcer,
     Asked, RolledBack, Unrolled, Rolled, Halfway, Emptied, JobHas, Stops, Around, Counted
<1>6. Loaded'
  BY <1>1, <1>2 DEF IInv, Loaded, Labels, Kept, Active, ComposeAts, LiftAts, EnforceAts,
     AnswerAts, Enforcer, Asked, RolledBack, Unrolled, Rolled, Halfway, Emptied, JobHas, Stops,
     Around, Counted
<1>7. Apart'
  BY <1>1, <1>2, CalmIs DEF IInv, Apart, Plain, StateHas, RolledBack, Unrolled, Rolled, Halfway,
     Emptied, JobHas, Carries, GoesOn, Stops, Ends, GivesUp, StopsAfter
<1>8. Fresh'
  BY <1>1, <1>2 DEF IInv, Fresh, Labels, ComposeAts, LiftAts, EnforceAts, AnswerAts, Enforcer,
     Asked, RolledBack, Unrolled, Rolled, Halfway, Emptied, DiskHas, JobHas, Carries, GoesOn,
     Stops, Ends, GivesUp, StopsAfter, Around, Counted
<1>9. Follows'
  BY <1>1, <1>2 DEF IInv, TypeOK, Labels, Follows, Fresh, Apart, Plain, Kept, Loaded, Standing,
     BedDue, DockDue, DueBed, Enters, Target, Today, Gone, Active, Nested, InForce, By,
     ComposeAts, LiftAts, EnforceAts, AnswerAts, Enforcer, Asked, RolledBack, Unrolled, Rolled,
     Halfway, Emptied, DiskHas, JobHas, Carries, GoesOn, Stops, Ends, GivesUp, StopsAfter, Around,
     Counted
<1>10. ASSUME ~flag', harmed' = {}
       PROVE  Rest'
  <2>0. ~flag /\ harmed = {} /\ Rest /\ Follows /\ Fresh
    BY <1>2, <1>10 DEF IInv, Counted, RolledBack, Unrolled, Rolled, Halfway, Emptied
  <2>a. /\ Unrolled(t) \/ (Rolled(t) /\ journal' = None) \/ Halfway(f)
        /\ flag' = flag /\ Around /\ Stops(t, "end") /\ Stops(f, "end")
    BY <1>2, <1>10, RollsBack
  <2>1. Journalled'
    <3>1. CASE Unrolled(t)
      BY <1>1, <2>0, <2>a, <3>1, CalmIs DEF Rest, Journalled, Sane, Sound, Held, Gone, Today,
         ComposeAts, LiftAts, EnforceAts, AnswerAts, Enforcer, Asked, Unrolled, JobHas, Carries,
         GoesOn, Stops, Ends, GivesUp, StopsAfter, Around
    <3>2. CASE Rolled(t) /\ journal' = None
      BY <1>1, <2>0, <2>a, <3>2, CalmIs DEF Rest, Journalled, Sane, Sound, Held, Gone, Today,
         ComposeAts, LiftAts, EnforceAts, AnswerAts, Enforcer, Asked, Rolled, JobHas, Carries,
         GoesOn, Stops, Ends, GivesUp, StopsAfter, Around
    <3>3. CASE Halfway(f)
      <4>1. Sane(disk.st)'
        BY <2>0, <2>a, <3>3, CalmIs DEF Rest, Journalled, Sane, Halfway, Around, StateHas
      <4>2. journal # None => Sane(journal.disk.st)' /\ Sound(journal.disk)'
        BY <2>0, <2>a, <3>3 DEF Rest, Journalled, Sane, Sound, Held, Gone, Today, Halfway, Around
      <4>3. job'.at = "stop"
        BY <2>a, <3>3 DEF Halfway, Stops, StopsAfter, JobHas
      <4> QED BY <2>0, <3>3, <4>1, <4>2, <4>3 DEF Rest, Journalled, Halfway
    <3> QED BY <2>a, <3>1, <3>2, <3>3
  <2>2. Owned'
    <3>1. CASE Unrolled(t)
      BY <1>1, <2>0, <2>a, <3>1, CalmIs DEF Rest, Owned, Journalled, Active, Nested, ComposeAts,
         LiftAts, EnforceAts, AnswerAts, Enforcer, Asked, Unrolled, JobHas, Carries, GoesOn,
         Stops, Ends, GivesUp, StopsAfter, Around
    <3>2. CASE Rolled(t) /\ journal' = None
      BY <1>1, <2>0, <2>a, <3>2, CalmIs DEF Rest, Owned, Journalled, Active, Nested, ComposeAts,
         LiftAts, EnforceAts, AnswerAts, Enforcer, Asked, Rolled, JobHas, Carries, GoesOn, Stops,
         Ends, GivesUp, StopsAfter, Around
    <3>3. CASE Halfway(f)
      BY <1>1, <2>0, <2>a, <3>3, CalmIs DEF Rest, Owned, Journalled, Active, Nested, ComposeAts,
         LiftAts, EnforceAts, AnswerAts, Enforcer, Asked, Halfway, StateHas, JobHas, Carries,
         GoesOn, Stops, Ends, GivesUp, StopsAfter, Around
    <3> QED BY <2>a, <3>1, <3>2, <3>3
  <2>3. Settled'
    BY <1>1, <1>2, <1>10, <2>0, CalmIs DEF Rest, Settled, Fresh, ComposeAts, Enforcer, RolledBack,
       Unrolled, Rolled, Halfway, Emptied, JobHas, Stops, Around, Counted, StateHas
  <2>4. Taken'
    BY <1>1, <1>2, <1>10, <2>0, CalmIs DEF Rest, Taken, Held, Standing, BedDue, DockDue, Enters,
       Today, ComposeAts, Enforcer, RolledBack, Unrolled, Rolled, Halfway, Emptied, JobHas, Stops,
       Around, Counted, StateHas
  <2>5. Undone'
    <3>1. CASE Unrolled(t)
      BY <1>1, <2>0, <2>a, <3>1, CalmIs DEF Rest, IInv, Labels, Undone, Owned, Lost, Enters,
         BedDue, Standing, Gone, Today, ComposeAts, LiftAts, EnforceAts, AnswerAts, Enforcer,
         Asked, Unrolled, JobHas, Carries, GoesOn, Stops, Ends, GivesUp, StopsAfter, Around
    <3>2. CASE Rolled(t) /\ journal' = None
      BY <1>1, <2>0, <2>a, <3>2, CalmIs DEF Rest, IInv, Labels, Undone, Owned, Lost, Enters,
         BedDue, Standing, Gone, Today, ComposeAts, LiftAts, EnforceAts, AnswerAts, Enforcer,
         Asked, Rolled, JobHas, Carries, GoesOn, Stops, Ends, GivesUp, StopsAfter, Around
    <3>3. CASE Halfway(f)
      BY <1>1, <2>0, <2>a, <3>3, CalmIs DEF Rest, IInv, Labels, Undone, Owned, Lost, Enters,
         BedDue, Standing, Gone, Today, ComposeAts, LiftAts, EnforceAts, AnswerAts, Enforcer,
         Asked, Halfway, StateHas, JobHas, Carries, GoesOn, Stops, Ends, GivesUp, StopsAfter,
         Around
    <3> QED BY <2>a, <3>1, <3>2, <3>3
  <2>6. Left'
    <3>1. CASE Unrolled(t)
      BY <1>1, <2>0, <2>a, <3>1, CalmIs DEF Rest, Left, Undone, Owned, DockDue, Today, ComposeAts,
         LiftAts, EnforceAts, AnswerAts, Enforcer, Asked, Unrolled, JobHas, Carries, GoesOn,
         Stops, Ends, GivesUp, StopsAfter, Around
    <3>2. CASE Rolled(t) /\ journal' = None
      BY <1>1, <2>0, <2>a, <3>2, CalmIs DEF Rest, Left, Undone, Owned, DockDue, Today, ComposeAts,
         LiftAts, EnforceAts, AnswerAts, Enforcer, Asked, Rolled, JobHas, Carries, GoesOn, Stops,
         Ends, GivesUp, StopsAfter, Around
    <3>3. CASE Halfway(f)
      BY <1>1, <2>0, <2>a, <3>3, CalmIs DEF Rest, Left, Undone, Owned, DockDue, Today, ComposeAts,
         LiftAts, EnforceAts, AnswerAts, Enforcer, Asked, Halfway, StateHas, JobHas, Carries,
         GoesOn, Stops, Ends, GivesUp, StopsAfter, Around
    <3> QED BY <2>a, <3>1, <3>2, <3>3
  <2>7. Found'
    <3>1. CASE Unrolled(t)
      BY <1>1, <2>0, <2>a, <3>1, CalmIs DEF Rest, Found, Owned, ComposeAts, LiftAts, EnforceAts,
         AnswerAts, Enforcer, Asked, Unrolled, JobHas, Carries, GoesOn, Stops, Ends, GivesUp,
         StopsAfter, Around
    <3>2. CASE Rolled(t) /\ journal' = None
      BY <1>1, <2>0, <2>a, <3>2, CalmIs DEF Rest, Found, Owned, ComposeAts, LiftAts, EnforceAts,
         AnswerAts, Enforcer, Asked, Rolled, JobHas, Carries, GoesOn, Stops, Ends, GivesUp,
         StopsAfter, Around
    <3>3. CASE Halfway(f)
      BY <1>1, <2>0, <2>a, <3>3, CalmIs DEF Rest, Found, Owned, ComposeAts, LiftAts, EnforceAts,
         AnswerAts, Enforcer, Asked, Halfway, StateHas, JobHas, Carries, GoesOn, Stops, Ends,
         GivesUp, StopsAfter, Around
    <3> QED BY <2>a, <3>1, <3>2, <3>3
  <2>8. Named'
    <3>1. CASE Unrolled(t)
      BY <1>1, <2>0, <2>a, <3>1, CalmIs DEF Rest, Named, Owned, Journalled, Active, ComposeAts,
         LiftAts, EnforceAts, AnswerAts, Enforcer, Asked, Unrolled, JobHas, Carries, GoesOn,
         Stops, Ends, GivesUp, StopsAfter, Around
    <3>2. CASE Rolled(t) /\ journal' = None
      BY <1>1, <2>0, <2>a, <3>2, CalmIs DEF Rest, Named, Owned, Journalled, Active, ComposeAts,
         LiftAts, EnforceAts, AnswerAts, Enforcer, Asked, Rolled, JobHas, Carries, GoesOn, Stops,
         Ends, GivesUp, StopsAfter, Around
    <3>3. CASE Halfway(f)
      BY <1>1, <2>0, <2>a, <3>3, CalmIs DEF Rest, Named, Owned, Journalled, Active, ComposeAts,
         LiftAts, EnforceAts, AnswerAts, Enforcer, Asked, Halfway, StateHas, JobHas, Carries,
         GoesOn, Stops, Ends, GivesUp, StopsAfter, Around
    <3> QED BY <2>a, <3>1, <3>2, <3>3
  <2> QED BY <2>1, <2>2, <2>3, <2>4, <2>5, <2>6, <2>7, <2>8 DEF Rest
<1> QED BY <1>3, <1>4, <1>5, <1>6, <1>7, <1>8, <1>9, <1>10 DEF IInv

(* What the service does not do.  A window that is gone stays so.          *)
LEMMA AdvanceKeeps ==
  ASSUME IInv, Advance
  PROVE  IInv'
<1>1. job.op = "idle" /\ job.at = "end"
  BY DEF IInv, TypeOK, JobSet, Ops, Labels, Advance, ComposeAts, LiftAts, EnforceAts, AnswerAts,
     Enforcer, Asked
<1>2. /\ disk' = disk /\ pctl' = pctl /\ journal' = journal /\ flag' = flag /\ job' = job
      /\ power' = power
     /\ clock \in Period /\ clock' \in Period /\ clock <= clock' /\ away' = away
     /\ faults' = faults /\ moves' = moves /\ harmed' = harmed
  BY TimeLineAssumption DEF Advance, IInv, TypeOK, Period
<1>3. TypeOK'
  BY <1>1, <1>2 DEF IInv, TypeOK
<1>4. Labels'
  BY <1>1, <1>2 DEF IInv, Labels, ComposeAts, LiftAts, EnforceAts, AnswerAts, Enforcer, Asked
<1>5. Running'
  BY <1>1, <1>2 DEF IInv, Running, Labels, ComposeAts, LiftAts, EnforceAts, AnswerAts, Enforcer,
     Asked
<1>6. Loaded'
  BY <1>1, <1>2 DEF IInv, Loaded, Labels, Kept, Active, ComposeAts, LiftAts, EnforceAts,
     AnswerAts, Enforcer, Asked
<1>7. Apart'
  BY <1>1, <1>2, CalmIs DEF StateHas, IInv, Labels, Apart, Plain, Follows, Fresh, Kept, Loaded,
     Target, DueBed, BedDue, ComposeAts, LiftAts, EnforceAts, AnswerAts, Enforcer, Asked, At,
     DiskHas, JobHas, Carries, GoesOn, Stops, Ends, GivesUp, StopsAfter, Around, Counted
<1>8. Fresh'
  BY <1>1, <1>2 DEF IInv, Fresh, Labels, ComposeAts, LiftAts, EnforceAts, AnswerAts, Enforcer,
     Asked, At, DiskHas, JobHas, Carries, GoesOn, Stops, Ends, GivesUp, StopsAfter, Around,
     Counted
<1>9. Follows'
  BY <1>1, <1>2 DEF IInv, TypeOK, Labels, Follows, Fresh, Apart, Plain, Kept, Loaded, Standing,
     BedDue, DockDue, DueBed, Enters, Target, Today, Gone, Active, Nested, InForce, By,
     ComposeAts, LiftAts, EnforceAts, AnswerAts, Enforcer, Asked, At, DiskHas, JobHas, Carries,
     GoesOn, Stops, Ends, GivesUp, StopsAfter, Around, Counted
<1>10. ASSUME ~flag', harmed' = {}
       PROVE  Rest'
  <2>0. ~flag /\ harmed = {} /\ Rest /\ Follows /\ Fresh
    BY <1>2, <1>10 DEF IInv, Counted, At
  <2>1. Journalled'
    <3>1. \A s \in State : Sane(s) => Sane(s)'
      BY <1>2, TimeLineAssumption DEF Sane, State, Period
    <3>2. \A s \in State : Sane(s) /\ s.bed # None /\ Gone(s.bed) => Gone(s.bed)'
      BY <1>2, GoneStays DEF Sane, State
    <3>3. \A d \in Disk : Sane(d.st) /\ Sound(d) => Sound(d)'
      BY <3>2 DEF Sound, Held, Disk
    <3> QED BY <1>1, <1>2, <2>0, <3>1, <3>3, TypeFields DEF IInv, TypeOK, Rest, Journalled
  <2>2. Owned'
    BY <1>1, <1>2, <2>0 DEF Rest, Owned, Active, Nested, ComposeAts, LiftAts, EnforceAts,
       Enforcer, Asked
  <2>3. Settled'
    BY <1>1, <1>2, <2>0 DEF Rest, Settled, Fresh, ComposeAts, Enforcer
  <2>4. Taken'
    BY <1>1, <1>2, <2>0 DEF Rest, Taken, Held, Standing, BedDue, DockDue, Enters, Today,
       ComposeAts, Enforcer
  <2>5. Undone'
    BY <1>1, <1>2, <2>0 DEF Rest, Undone, Lost, Standing, BedDue, Enters, Today, Gone, ComposeAts,
       Enforcer
  <2>6. Left'
    BY <1>1, <1>2, <2>0 DEF Rest, Left, DockDue, Today
  <2>7. Found'
    BY <1>1, <1>2, <2>0 DEF Rest, Found, Asked
  <2>8. Named'
    BY <1>1, <1>2, <2>0 DEF Rest, Named, Active, ComposeAts, LiftAts, EnforceAts
  <2> QED BY <2>1, <2>2, <2>3, <2>4, <2>5, <2>6, <2>7, <2>8 DEF Rest
<1> QED BY <1>3, <1>4, <1>5, <1>6, <1>7, <1>8, <1>9, <1>10 DEF IInv

LEMMA MoveKeeps ==
  ASSUME IInv, Move
  PROVE  IInv'
<1>1. job.op = "idle" /\ job.at = "end"
  BY DEF IInv, TypeOK, JobSet, Ops, Labels, Move, ComposeAts, LiftAts, EnforceAts, AnswerAts,
     Enforcer, Asked
<1>2. /\ disk' = disk /\ pctl' = pctl /\ journal' = journal /\ flag' = flag /\ job' = job
      /\ power' = power
     /\ clock' = clock /\ away' \in BOOLEAN /\ Counted
  BY DEF Move, IInv, TypeOK, Counted
<1>3. TypeOK'
  BY <1>1, <1>2 DEF IInv, TypeOK, Counted, Counted
<1>4. Labels'
  BY <1>1, <1>2 DEF IInv, Labels, ComposeAts, LiftAts, EnforceAts, AnswerAts, Enforcer, Asked,
     Counted, Counted
<1>5. Running'
  BY <1>1, <1>2 DEF IInv, Running, Labels, ComposeAts, LiftAts, EnforceAts, AnswerAts, Enforcer,
     Asked, Counted, Counted
<1>6. Loaded'
  BY <1>1, <1>2 DEF IInv, Loaded, Labels, Kept, Active, ComposeAts, LiftAts, EnforceAts,
     AnswerAts, Enforcer, Asked, Counted, Counted
<1>7. Apart'
  BY <1>1, <1>2, CalmIs DEF StateHas, IInv, Labels, Apart, Plain, Follows, Fresh, Kept, Loaded,
     Target, DueBed, BedDue, ComposeAts, LiftAts, EnforceAts, AnswerAts, Enforcer, Asked, Counted,
     DiskHas, JobHas, Carries, GoesOn, Stops, Ends, GivesUp, StopsAfter, Around, Counted
<1>8. Fresh'
  BY <1>1, <1>2 DEF IInv, Fresh, Labels, ComposeAts, LiftAts, EnforceAts, AnswerAts, Enforcer,
     Asked, Counted, DiskHas, JobHas, Carries, GoesOn, Stops, Ends, GivesUp, StopsAfter, Around,
     Counted
<1>9. Follows'
  BY <1>1, <1>2 DEF IInv, TypeOK, Labels, Follows, Fresh, Apart, Plain, Kept, Loaded, Standing,
     BedDue, DockDue, DueBed, Enters, Target, Today, Gone, Active, Nested, InForce, By,
     ComposeAts, LiftAts, EnforceAts, AnswerAts, Enforcer, Asked, Counted, DiskHas, JobHas,
     Carries, GoesOn, Stops, Ends, GivesUp, StopsAfter, Around, Counted
<1>10. ASSUME ~flag', harmed' = {}
       PROVE  Rest'
  <2>0. ~flag /\ harmed = {} /\ Rest /\ Follows /\ Fresh
    BY <1>2, <1>10 DEF IInv, Counted, Counted
  <2>1. Journalled'
    BY <1>1, <1>2, <2>0 DEF Rest, Journalled, Sane, Sound, Held, Today, Gone, Counted, Counted
  <2>2. Owned'
    BY <1>1, <1>2, <2>0 DEF Rest, Owned, Active, Nested, ComposeAts, LiftAts, EnforceAts,
       Enforcer, Asked, Counted, Counted
  <2>3. Settled'
    BY <1>1, <1>2, <2>0 DEF Rest, Settled, Fresh, ComposeAts, Enforcer, Counted, Counted
  <2>4. Taken'
    BY <1>1, <1>2, <2>0 DEF Rest, Taken, Held, Standing, BedDue, DockDue, Enters, Today,
       ComposeAts, Enforcer, Counted, Counted
  <2>5. Undone'
    BY <1>1, <1>2, <2>0 DEF Rest, Undone, Lost, Standing, BedDue, Enters, Today, Gone, ComposeAts,
       Enforcer, Counted, Counted
  <2>6. Left'
    BY <1>1, <1>2, <2>0 DEF Rest, Left, DockDue, Today, Counted, Counted
  <2>7. Found'
    BY <1>1, <1>2, <2>0 DEF Rest, Found, Asked, Counted, Counted
  <2>8. Named'
    BY <1>1, <1>2, <2>0 DEF Rest, Named, Active, ComposeAts, LiftAts, EnforceAts, Counted, Counted
  <2> QED BY <2>1, <2>2, <2>3, <2>4, <2>5, <2>6, <2>7, <2>8 DEF Rest
<1> QED BY <1>3, <1>4, <1>5, <1>6, <1>7, <1>8, <1>9, <1>10 DEF IInv

LEMMA AppearKeeps ==
  ASSUME IInv, Appear
  PROVE  IInv'
<1>1. job.op = "idle" /\ job.at = "end"
  BY DEF IInv, TypeOK, JobSet, Ops, Labels, Appear, ComposeAts, LiftAts, EnforceAts, AnswerAts,
     Enforcer, Asked
<1>2. /\ disk' = disk /\ pctl' \in Slots /\ journal' = journal /\ flag' = flag /\ job' = job
      /\ Counted /\ Around
  <2>1. PICK p : /\ p = [pctl EXCEPT ![disk.st.last[1]] = disk.st.pending] /\ pctl' = p
                 /\ disk.st.pending \in Setting
    BY TypeFields, StateFields DEF Appear, IInv
  <2>2. p \in Slots
    BY <2>1 DEF IInv, TypeOK, Slots
  <2> QED BY <2>1, <2>2 DEF Appear, IInv, TypeOK, Counted, Around
<1>3. TypeOK'
  BY <1>1, <1>2 DEF IInv, TypeOK, Counted, Around, Counted
<1>4. Labels'
  BY <1>1, <1>2 DEF IInv, Labels, ComposeAts, LiftAts, EnforceAts, AnswerAts, Enforcer, Asked,
     Counted, Around, Counted
<1>5. Running'
  BY <1>1, <1>2 DEF IInv, Running, Labels, ComposeAts, LiftAts, EnforceAts, AnswerAts, Enforcer,
     Asked, Counted, Around, Counted
<1>6. Loaded'
  BY <1>1, <1>2 DEF IInv, Loaded, Labels, Kept, Active, ComposeAts, LiftAts, EnforceAts,
     AnswerAts, Enforcer, Asked, Counted, Around, Counted
<1>7. Apart'
  BY <1>1, <1>2, CalmIs DEF StateHas, IInv, Labels, Apart, Plain, Follows, Fresh, Kept, Loaded,
     Target, DueBed, BedDue, ComposeAts, LiftAts, EnforceAts, AnswerAts, Enforcer, Asked, Counted,
     DiskHas, JobHas, Carries, GoesOn, Stops, Ends, GivesUp, StopsAfter, Around, Counted
<1>8. Fresh'
  BY <1>1, <1>2 DEF IInv, Fresh, Labels, ComposeAts, LiftAts, EnforceAts, AnswerAts, Enforcer,
     Asked, Counted, DiskHas, JobHas, Carries, GoesOn, Stops, Ends, GivesUp, StopsAfter, Around,
     Counted
<1>9. Follows'
  BY <1>1, <1>2 DEF IInv, TypeOK, Labels, Follows, Fresh, Apart, Plain, Kept, Loaded, Standing,
     BedDue, DockDue, DueBed, Enters, Target, Today, Gone, Active, Nested, InForce, By,
     ComposeAts, LiftAts, EnforceAts, AnswerAts, Enforcer, Asked, Counted, DiskHas, JobHas,
     Carries, GoesOn, Stops, Ends, GivesUp, StopsAfter, Around, Counted
<1>10. ASSUME ~flag', harmed' = {}
       PROVE  Rest'
  <2>0. ~flag /\ harmed = {} /\ Rest /\ Follows /\ Fresh
    BY <1>2, <1>10 DEF IInv, Counted, Counted
  <2>1. Journalled'
    BY <1>1, <1>2, <2>0 DEF Rest, Journalled, Sane, Sound, Held, Today, Gone, Counted, Around,
       Counted
  <2>2. Owned'
    BY <1>1, <1>2, <2>0 DEF Rest, Owned, Active, Nested, ComposeAts, LiftAts, EnforceAts,
       Enforcer, Asked, Counted, Around, Counted
  <2>3. Settled'
    BY <1>1, <1>2, <2>0 DEF Rest, Settled, Fresh, ComposeAts, Enforcer, Counted, Around, Counted
  <2>4. Taken'
    BY <1>1, <1>2, <2>0 DEF Rest, Taken, Held, Standing, BedDue, DockDue, Enters, Today,
       ComposeAts, Enforcer, Counted, Around, Counted
  <2>5. Undone'
    BY <1>1, <1>2, <2>0 DEF Rest, Undone, Lost, Standing, BedDue, Enters, Today, Gone, ComposeAts,
       Enforcer, Counted, Around, Counted
  <2>6. Left'
    BY <1>1, <1>2, <2>0 DEF Rest, Left, DockDue, Today, Counted, Around, Counted
  <2>7. Found'
    BY <1>1, <1>2, <2>0 DEF Rest, Found, Asked, Counted, Around, Counted
  <2>8. Named'
    BY <1>1, <1>2, <2>0 DEF Rest, Named, Active, ComposeAts, LiftAts, EnforceAts, Counted, Around,
       Counted
  <2> QED BY <2>1, <2>2, <2>3, <2>4, <2>5, <2>6, <2>7, <2>8 DEF Rest
<1> QED BY <1>3, <1>4, <1>5, <1>6, <1>7, <1>8, <1>9, <1>10 DEF IInv

LEMMA PowerOffKeeps ==
  ASSUME IInv, PowerOff
  PROVE  IInv'
<1>1. power
  BY DEF IInv, TypeOK, JobSet, Ops, Labels, PowerOff, ComposeAts, LiftAts, EnforceAts, AnswerAts,
     Enforcer, Asked
<1>2. /\ disk' = disk /\ pctl' = pctl /\ journal' = journal /\ flag' = flag /\ Ends(job')
      /\ power' = FALSE
     /\ clock' = clock /\ away' = away /\ Counted
  BY IdleIs DEF PowerOff, Fault, IInv, TypeOK, Counted
<1>3. TypeOK'
  BY <1>1, <1>2 DEF IInv, TypeOK, Counted, DiskHas, JobHas, Carries, GoesOn, Stops, Ends, GivesUp,
     StopsAfter, Around, Counted
<1>4. Labels'
  BY <1>1, <1>2 DEF IInv, Labels, ComposeAts, LiftAts, EnforceAts, AnswerAts, Enforcer, Asked,
     Counted, JobHas, Ends, Counted
<1>5. Running'
  BY <1>1, <1>2 DEF IInv, Running, Labels, ComposeAts, LiftAts, EnforceAts, AnswerAts, Enforcer,
     Asked, Counted, JobHas, Ends, Counted
<1>6. Loaded'
  BY <1>1, <1>2 DEF IInv, Loaded, Labels, Kept, Active, ComposeAts, LiftAts, EnforceAts,
     AnswerAts, Enforcer, Asked, Counted, JobHas, Ends, Counted
<1>7. Apart'
  BY <1>1, <1>2, CalmIs DEF StateHas, IInv, Labels, Apart, Plain, Follows, Fresh, Kept, Loaded,
     Target, DueBed, BedDue, ComposeAts, LiftAts, EnforceAts, AnswerAts, Enforcer, Asked, Counted,
     DiskHas, JobHas, Carries, GoesOn, Stops, Ends, GivesUp, StopsAfter, Around, Counted
<1>8. Fresh'
  BY <1>1, <1>2 DEF IInv, Fresh, Labels, ComposeAts, LiftAts, EnforceAts, AnswerAts, Enforcer,
     Asked, Counted, DiskHas, JobHas, Carries, GoesOn, Stops, Ends, GivesUp, StopsAfter, Around,
     Counted
<1>9. Follows'
  BY <1>1, <1>2 DEF IInv, TypeOK, Labels, Follows, Fresh, Apart, Plain, Kept, Loaded, Standing,
     BedDue, DockDue, DueBed, Enters, Target, Today, Gone, Active, Nested, InForce, By,
     ComposeAts, LiftAts, EnforceAts, AnswerAts, Enforcer, Asked, Counted, DiskHas, JobHas,
     Carries, GoesOn, Stops, Ends, GivesUp, StopsAfter, Around, Counted
<1>10. ASSUME ~flag', harmed' = {}
       PROVE  Rest'
  <2>0. ~flag /\ harmed = {} /\ Rest /\ Follows /\ Fresh
    BY <1>2, <1>10 DEF IInv, Counted, Counted
  <2>1. Journalled'
    BY <1>1, <1>2, <2>0 DEF Rest, Journalled, Sane, Sound, Held, Today, Gone, Counted, JobHas,
       Ends, Counted
  <2>2. Owned'
    BY <1>1, <1>2, <2>0 DEF Rest, Owned, Active, Nested, ComposeAts, LiftAts, EnforceAts,
       Enforcer, Asked, Counted, JobHas, Ends, Counted
  <2>3. Settled'
    BY <1>1, <1>2, <2>0 DEF Rest, Settled, Fresh, ComposeAts, Enforcer, Counted, JobHas, Ends,
       Counted
  <2>4. Taken'
    BY <1>1, <1>2, <2>0 DEF Rest, Taken, Held, Standing, BedDue, DockDue, Enters, Today,
       ComposeAts, Enforcer, Counted, JobHas, Ends, Counted
  <2>5. Undone'
    BY <1>1, <1>2, <2>0 DEF Rest, Undone, Lost, Standing, BedDue, Enters, Today, Gone, ComposeAts,
       Enforcer, Counted, JobHas, Ends, Counted
  <2>6. Left'
    BY <1>1, <1>2, <2>0 DEF Rest, Left, DockDue, Today, Counted, JobHas, Ends, Counted
  <2>7. Found'
    BY <1>1, <1>2, <2>0 DEF Rest, Found, Asked, Counted, JobHas, Ends, Counted
  <2>8. Named'
    BY <1>1, <1>2, <2>0 DEF Rest, Named, Active, ComposeAts, LiftAts, EnforceAts, Counted, JobHas,
       Ends, Counted
  <2> QED BY <2>1, <2>2, <2>3, <2>4, <2>5, <2>6, <2>7, <2>8 DEF Rest
<1> QED BY <1>3, <1>4, <1>5, <1>6, <1>7, <1>8, <1>9, <1>10 DEF IInv

LEMMA PowerOnKeeps ==
  ASSUME IInv, PowerOn
  PROVE  IInv'
<1>1. ~power /\ job.op = "idle"
  BY DEF IInv, TypeOK, JobSet, Ops, Labels, PowerOn, ComposeAts, LiftAts, EnforceAts, AnswerAts,
     Enforcer, Asked
<1>2. PICK j : 
     /\ disk' = disk /\ pctl' = pctl /\ journal' = journal /\ flag' = flag /\ job' = j
     /\ power' = TRUE
     /\ clock' = clock /\ away' = away /\ Counted
     /\ \/ journal = None /\ Ends(j)
        \/ journal # None /\ JobHas(j, "boot", "boot", "end", Calm, Calm, None, FALSE, FALSE,
                                    FALSE)
  <2>1. PICK j : /\ j = IF journal = None THEN Idle
                        ELSE [Idle EXCEPT !.op = "boot", !.at = "boot"]
                 /\ \/ journal = None /\ Ends(j)
                    \/ journal # None /\ JobHas(j, "boot", "boot", "end", Calm, Calm, None, FALSE,
                                                FALSE, FALSE)
    BY IdleIs, BeginsIs DEF Ops, Ats
  <2>2. /\ disk' = disk /\ pctl' = pctl /\ journal' = journal /\ flag' = flag /\ job' = j
        /\ power' = TRUE
        /\ clock' = clock /\ away' = away /\ Counted
    BY <2>1 DEF PowerOn, IInv, TypeOK, Counted
  <2> QED BY <2>1, <2>2
<1>3. TypeOK'
  BY <1>1, <1>2 DEF IInv, TypeOK, Counted, JobHas, Ends, Counted
<1>4. Labels'
  BY <1>1, <1>2 DEF IInv, Labels, ComposeAts, LiftAts, EnforceAts, AnswerAts, Enforcer, Asked,
     Counted, JobHas, Ends, Counted
<1>5. Running'
  BY <1>1, <1>2 DEF IInv, Running, Labels, ComposeAts, LiftAts, EnforceAts, AnswerAts, Enforcer,
     Asked, Counted, JobHas, Ends, Counted
<1>6. Loaded'
  BY <1>1, <1>2 DEF IInv, Loaded, Labels, Kept, Active, ComposeAts, LiftAts, EnforceAts,
     AnswerAts, Enforcer, Asked, Counted, JobHas, Ends, Counted
<1>7. Apart'
  BY <1>1, <1>2, CalmIs DEF StateHas, IInv, Labels, Apart, Plain, Follows, Fresh, Kept, Loaded,
     Target, DueBed, BedDue, ComposeAts, LiftAts, EnforceAts, AnswerAts, Enforcer, Asked, Counted,
     DiskHas, JobHas, Carries, GoesOn, Stops, Ends, GivesUp, StopsAfter, Around, Counted
<1>8. Fresh'
  BY <1>1, <1>2 DEF IInv, Fresh, Labels, ComposeAts, LiftAts, EnforceAts, AnswerAts, Enforcer,
     Asked, Counted, DiskHas, JobHas, Carries, GoesOn, Stops, Ends, GivesUp, StopsAfter, Around,
     Counted
<1>9. Follows'
  BY <1>1, <1>2 DEF IInv, TypeOK, Labels, Follows, Fresh, Apart, Plain, Kept, Loaded, Standing,
     BedDue, DockDue, DueBed, Enters, Target, Today, Gone, Active, Nested, InForce, By,
     ComposeAts, LiftAts, EnforceAts, AnswerAts, Enforcer, Asked, Counted, DiskHas, JobHas,
     Carries, GoesOn, Stops, Ends, GivesUp, StopsAfter, Around, Counted
<1>10. ASSUME ~flag', harmed' = {}
       PROVE  Rest'
  <2>0. ~flag /\ harmed = {} /\ Rest /\ Follows /\ Fresh
    BY <1>2, <1>10 DEF IInv, Counted, Counted
  <2>1. Journalled'
    BY <1>1, <1>2, <2>0 DEF Rest, Journalled, Sane, Sound, Held, Today, Gone, Counted, JobHas,
       Ends, Counted
  <2>2. Owned'
    BY <1>1, <1>2, <2>0 DEF Rest, Owned, Active, Nested, ComposeAts, LiftAts, EnforceAts,
       Enforcer, Asked, Counted, JobHas, Ends, Counted
  <2>3. Settled'
    BY <1>1, <1>2, <2>0 DEF Rest, Settled, Fresh, ComposeAts, Enforcer, Counted, JobHas, Ends,
       Counted
  <2>4. Taken'
    BY <1>1, <1>2, <2>0 DEF Rest, Taken, Held, Standing, BedDue, DockDue, Enters, Today,
       ComposeAts, Enforcer, Counted, JobHas, Ends, Counted
  <2>5. Undone'
    BY <1>1, <1>2, <2>0 DEF Rest, Undone, Lost, Standing, BedDue, Enters, Today, Gone, ComposeAts,
       Enforcer, Counted, JobHas, Ends, Counted
  <2>6. Left'
    BY <1>1, <1>2, <2>0 DEF Rest, Left, DockDue, Today, Counted, JobHas, Ends, Counted
  <2>7. Found'
    BY <1>1, <1>2, <2>0 DEF Rest, Found, Asked, Counted, JobHas, Ends, Counted
  <2>8. Named'
    BY <1>1, <1>2, <2>0 DEF Rest, Named, Active, ComposeAts, LiftAts, EnforceAts, Counted, JobHas,
       Ends, Counted
  <2> QED BY <2>1, <2>2, <2>3, <2>4, <2>5, <2>6, <2>7, <2>8 DEF Rest
<1> QED BY <1>3, <1>4, <1>5, <1>6, <1>7, <1>8, <1>9, <1>10 DEF IInv

-----------------------------------------------------------------------------
(***************************************************************************)
(* The whole invariant.                                                    *)
(***************************************************************************)
LEMMA InitHolds == Init => IInv
<1> SUFFICES ASSUME Init PROVE IInv
  OBVIOUS
<1>1. /\ Calm \in State /\ Calm.bed = None /\ Calm.dock = FALSE /\ Calm.rest = None
      /\ Calm.pending = None
  BY CalmIs DEF StateHas
<1>2. /\ disk \in Disk /\ disk.st = Calm /\ pctl \in Slots /\ journal = None /\ Ends(job) /\ power
  BY <1>1, IdleIs DEF Init, Disk, Slots, Setting
<1>3. TypeOK
  <2>1. clock \in Period /\ away \in BOOLEAN /\ flag \in BOOLEAN /\ faults \in Nat
        /\ moves \in Nat
        /\ harmed \in SUBSET {"lost", "flag", "clear"}
    <3>1. Last \in Nat
      BY TimeLineAssumption
    <3>2. 0 \in 0 .. Last
      BY <3>1
    <3> QED BY <3>2 DEF Init, Period
  <2>2. job \in JobSet /\ power \in BOOLEAN
    BY <1>2 DEF Ends, JobHas, Init
  <2> QED BY <1>2, <2>1, <2>2 DEF TypeOK
<1>4. Labels /\ Running /\ Loaded /\ Apart /\ Fresh /\ Follows
  BY <1>1, <1>2 DEF Labels, Running, Loaded, Apart, Plain, Fresh, Follows, Ends, JobHas, Enforcer,
     Asked
<1>5. Journalled /\ Owned /\ Settled
  BY <1>1, <1>2 DEF Journalled, Owned, Settled, Sane, Sound, Ends, JobHas, ComposeAts, LiftAts,
     EnforceAts, Asked, Enforcer, Nested
<1>6. Taken /\ Undone /\ Left /\ Found /\ Named
  BY <1>1, <1>2 DEF Taken, Undone, Left, Found, Named, Ends, JobHas, Enforcer, Asked
<1> QED BY <1>3, <1>4, <1>5, <1>6 DEF IInv, Rest

LEMMA EnforcementKeeps ==
  ASSUME IInv, Enforcement
  PROVE  IInv'
BY SettleKeeps, ConfirmKeeps, ConfirmedKeeps, SampleKeeps, EyeKeeps, DockKeeps, KeepDockKeeps,
   HandOverKeeps,
   ExitKeeps, ComposeKeeps, KeepStateKeeps, ForgetEyeKeeps, KeepBedKeeps, StartKeeps, ApplyKeeps,
   UndoWriteKeeps, DropKeeps, RecordKeeps, ForgetKeeps, CloseKeeps, UndoKeeps, StopKeeps,
   LiftKeeps,
   LiftingKeeps, UndoLiftKeeps, LiftedKeeps, ForgetBedKeeps, CloseLiftKeeps DEF Enforcement

LEMMA RequestKeeps ==
  ASSUME IInv, Request
  PROVE  IInv'
BY DisableKeeps, SkipEyeKeeps, WaiveKeeps, SkipKeeps, ClearSkipKeeps DEF Request

LEMMA HandlingKeeps ==
  ASSUME IInv, Handling
  PROVE  IInv'
BY ResolveKeeps, LoosenKeeps, KeepRulesKeeps, TightenKeeps, WakeKeeps, WakeWriteKeeps,
   WaiveLoadKeeps,
   JournalKeeps, SaveKeeps, ReleaseKeeps, ReleasedKeeps, CheckKeeps, RevertKeeps, RevertBedKeeps,
   RevertStateKeeps, WithdrawKeeps, AnswerKeeps, TakeBackKeeps, CommitKeeps, ForgetRestKeeps,
   RefuseKeeps,
   BootKeeps DEF Handling

LEMMA NextKeeps ==
  ASSUME IInv, [Next]_vars
  PROVE  IInv'
<1>1. CASE Next
  BY <1>1, TickKeeps, EnforcementKeeps, HandlingKeeps, RequestKeeps, AdvanceKeeps, MoveKeeps,
     AppearKeeps,
     PowerOffKeeps, PowerOnKeeps DEF Next, JobStep
<1>2. CASE UNCHANGED vars
  <2>1. TypeOK' /\ Labels' /\ Running' /\ Loaded'
    BY <1>2 DEF IInv, vars, TypeOK, Labels, Running, Loaded, Kept, Active
  <2>2. Apart' /\ Fresh' /\ Follows'
    BY <1>2 DEF IInv, vars, Apart, Plain, Fresh, Follows, Kept, Today, Enters, InForce, Target,
       DueBed, BedDue, DockDue, Standing
  <2>3. ASSUME Rest PROVE Rest'
    <3>1. Journalled' /\ Owned' /\ Settled'
      BY <1>2, <2>3 DEF Rest, vars, Journalled, Owned, Settled, Sane, Sound, Held, Gone, Today,
         Nested, Active
    <3>2. Taken' /\ Undone'
      BY <1>2, <2>3 DEF Rest, vars, Taken, Undone, Kept, Held, Lost, Gone, Today, Enters, InForce,
         Target, DueBed, BedDue, DockDue, Standing
    <3>3. Left' /\ Found' /\ Named'
      BY <1>2, <2>3 DEF Rest, vars, Left, Found, Named, DockDue, Today, Active
    <3> QED BY <3>1, <3>2, <3>3 DEF Rest
  <2> QED BY <1>2, <2>1, <2>2, <2>3 DEF IInv, vars
<1> QED BY <1>1, <1>2

LEMMA SpecIInv == Spec => []IInv
<1>1. IInv /\ [Next]_vars => IInv'
  BY NextKeeps
<1> QED BY <1>1, InitHolds, PTL DEF Spec

-----------------------------------------------------------------------------
(***************************************************************************)
(* The theorems.                                                           *)
(***************************************************************************)
(* The card, the journal, PCTL and the job have their types.               *)
THEOREM TypeCorrect == Spec => []TypeOK
<1>1. IInv => TypeOK
  BY DEF IInv
<1> QED BY <1>1, SpecIInv, PTL

(* While nothing runs, every reason in force has the settings it found,    *)
(* and a target that waits for its confirmation has the tick's journal.    *)
THEOREM ReasonsHaveSnapshots == Spec => []SnapshotsSound
<1>1. IInv => SnapshotsSound
  <2> SUFFICES ASSUME IInv, job.op = "idle", power, ~flag, harmed = {}
               PROVE  /\ disk.st.bed # None => IF disk.bed = None THEN Gone(disk.st.bed)
                                               ELSE disk.bed.win = disk.st.bed
                                               /\ disk.bed.of \subseteq {"rest"}
                      /\ disk.st.rest # None => disk.eye # None /\ disk.eye.of = {}
                      /\ disk.st.dock => disk.dock # None /\ disk.dock.of \subseteq {"rest"}
                      /\ disk.st.pending # None => journal # None /\ journal.by = "enforce"
    BY DEF SnapshotsSound
  <2>1. job.at = "end" /\ Journalled /\ Owned
    BY DEF IInv, Labels, Rest
  <2>2. Sound(disk)
    BY <2>1 DEF Journalled
  <2> QED BY <2>1, <2>2 DEF Journalled, Owned, Sound, Held
<1> QED BY <1>1, SpecIInv, PTL

(***************************************************************************)
(* The step that is taken where a job stands.                              *)
(***************************************************************************)
Opening == {"lifting", "write", "wake", "release"}

LEMMA EnforcementAt ==
  ASSUME Enforcement
  PROVE  /\ job.at \in Opening => Lifting \/ Apply
         /\ job.at # "refuse"
<1>1. CASE Settle \/ Confirm \/ Confirmed \/ Sample \/ Eye \/ Dock \/ KeepDock
  BY <1>1 DEF Settle, Confirm, Confirmed, Sample, Eye, Dock, KeepDock, Opening
<1>2. CASE HandOver \/ Exit \/ Compose \/ KeepState \/ ForgetEye \/ KeepBed \/ Start
  BY <1>2 DEF HandOver, Exit, Compose, KeepState, ForgetEye, KeepBed, Start, Opening
<1>3. CASE UndoWrite \/ Drop \/ Record \/ Forget \/ Close \/ Undo \/ Stop
  BY <1>3 DEF UndoWrite, Drop, Record, Forget, Close, Undo, Stop, Opening
<1>4. CASE Lift \/ UndoLift \/ Lifted \/ ForgetBed \/ CloseLift
  BY <1>4 DEF Lift, UndoLift, Lifted, ForgetBed, CloseLift, Opening
<1>5. CASE Lifting \/ Apply
  BY <1>5 DEF Lifting, Apply, Opening
<1> QED BY <1>1, <1>2, <1>3, <1>4, <1>5 DEF Enforcement

LEMMA HandlingAt ==
  ASSUME Handling
  PROVE  /\ job.at \in Opening => WakeWrite \/ Release
         /\ job.at = "refuse" => Refuse
<1>1. CASE Resolve \/ Loosen \/ KeepRules \/ Tighten \/ Wake \/ WaiveLoad \/ Journal \/ Save
  BY <1>1 DEF Resolve, Loosen, KeepRules, Tighten, Wake, WaiveLoad, Journal, Save, Opening
<1>2. CASE Released \/ Check \/ Revert \/ RevertBed \/ RevertState \/ Withdraw
  BY <1>2 DEF Released, Check, Revert, RevertBed, RevertState, Withdraw, Opening
<1>3. CASE Answer \/ TakeBack \/ Commit \/ ForgetRest \/ Boot
  BY <1>3 DEF Answer, TakeBack, Commit, ForgetRest, Boot, Opening
<1>4. CASE WakeWrite \/ Release \/ Refuse
  BY <1>4 DEF WakeWrite, Release, Refuse, Opening
<1> QED BY <1>1, <1>2, <1>3, <1>4 DEF Handling

LEMMA StepAt ==
  ASSUME IInv, Next, job.at \in Opening \cup {"refuse"}
  PROVE  \/ job.at \in Opening /\ (Lifting \/ Apply \/ WakeWrite \/ Release)
         \/ job.at = "refuse" /\ Refuse
         \/ power' = FALSE /\ pctl' = pctl
<1>1. job.op # "idle" /\ power
  BY DEF IInv, Labels, Opening
<1>2. CASE Enforcement
  BY <1>2, EnforcementAt
<1>3. CASE Handling
  BY <1>3, HandlingAt
<1>4. CASE Tick \/ Advance \/ Move \/ Appear \/ PowerOn
  BY <1>1, <1>4 DEF Tick, Free, Advance, Move, Appear, PowerOn
<1>5. CASE Request
  BY <1>1, <1>5 DEF Request, Disable, SkipEye, Waive, Skip, ClearSkip, Accept, Free
<1>6. CASE PowerOff
  BY <1>6 DEF PowerOff
<1> QED BY <1>2, <1>3, <1>4, <1>5, <1>6 DEF Next, JobStep

(* Writing one value and reading another: nothing was written.             *)
LEMMA SlotIs ==
  ASSUME TypeOK, NEW m \in Setting, NEW then, NEW failed, WritePctl(Slot(m), then, failed)
  PROVE  pctl'[Today] \in {pctl[Today], m}
<1>1. pctl' \in {pctl, Slot(m)}
  BY WritePctlIs DEF WrotePctl
<1> QED BY <1>1, TodayIs

LEMMA SameDue ==
  ASSUME NEW s, NEW d, s.skipped = d.skipped, s.waived = d.waived
  PROVE  BedDue(s) = BedDue(d) /\ DockDue(s) = DockDue(d)
BY DEF BedDue, DockDue

LEMMA LiftingReopens ==
  ASSUME IInv, Lifting, pctl[Today] = "blocked", pctl'[Today] = "open"
  PROVE  ~Stands
<1>1. job.at = "lifting" /\ job.op \in {"tick", "waive", "clear", "skip", "disable"}
  BY DEF IInv, Labels, TypeOK, JobSet, Ops, Lifting, AnswerAts
<1>2. Alone(job.st)
  <2> SUFFICES ASSUME ~Alone(job.st) PROVE FALSE
    OBVIOUS
  <2>1. CASE pctl[Today] = "blocked" /\ Go(To("lifted"))
    BY <2>1, GoIs DEF Went, IInv
  <2>2. CASE WritePctl(Slot("blocked"), To("lifted"), {To("undoLift"), Stopping(After)})
    BY <2>2, SlotIs DEF IInv, Setting
  <2> QED BY <2>1, <2>2 DEF Lifting
<1>3. CASE job.op \in {"skip", "disable"}
  <2>1. job.st.waived = disk.st.waived /\ job.st.rest = disk.st.rest
        /\ (job.op = "skip" => Active)
    BY <1>1, <1>3 DEF IInv, Loaded, LiftAts
  <2> QED BY <1>1, <1>2, <1>3, <2>1 DEF Stands, LiftsBed, Alone, DockDue
<1>4. CASE job.op \in {"tick", "waive", "clear"}
  <2>1. /\ job.st.skipped = disk.st.skipped /\ job.st.waived = disk.st.waived
        /\ disk.st.rest = None
        /\ job.st.bed # DueBed(job.st)
    BY <1>1, <1>4 DEF IInv, Follows, Enforcer
  <2>2. BedDue(disk.st) => job.st.bed # Window[clock]
    BY <2>1, SameDue DEF DueBed
  <2>3. ~DockDue(disk.st)
    BY <1>2, <2>1, SameDue DEF Alone
  <2> QED BY <1>1, <2>1, <2>2, <2>3 DEF Stands, LiftsBed
<1> QED BY <1>1, <1>3, <1>4

LEMMA ApplyReopens ==
  ASSUME IInv, Apply, pctl[Today] = "blocked", pctl'[Today] = "open"
  PROVE  ~Stands
<1>1. job.at = "write" /\ job.op \in Enforcer
  BY DEF IInv, Labels, TypeOK, JobSet, Ops, Apply, AnswerAts, LiftAts, EnforceAts, ComposeAts,
     Enforcer
<1>2. Target(job.st) = "open"
  <2>1. Target(job.st) \in Setting
    BY DueIs, TypeFields DEF IInv
  <2>2. CASE Go(To("record"))
    BY <2>2, GoIs DEF Went, IInv
  <2>3. CASE WritePctl(Slot(Target(job.st)), To("record"), {To("undoWrite"), To("undo")})
    BY <2>1, <2>3, SlotIs DEF IInv
  <2>4. CASE pctl' = pctl
    BY <2>4
  <2> QED BY <2>2, <2>3, <2>4 DEF Apply
<1>3. /\ job.st.skipped = disk.st.skipped /\ job.st.waived = disk.st.waived
      /\ disk.st.rest # None =>
             (job.out /\ (BedDue(job.st) \/ clock >= disk.st.rest)) \/ job.st.rest # None
  BY <1>1 DEF IInv, Follows, ComposeAts
<1>4. ~BedDue(disk.st) /\ ~DockDue(disk.st) /\ job.st.rest = None /\ ~BedDue(job.st)
  BY <1>2, <1>3, SameDue DEF Target
<1>5. disk.st.rest # None => ~(clock < disk.st.rest)
  BY <1>3, <1>4, TypeFields, StateFields DEF IInv, TypeOK, Period
<1> QED BY <1>4, <1>5 DEF Stands

LEMMA WakeReopens ==
  ASSUME IInv, WakeWrite, pctl[Today] = "blocked", pctl'[Today] = "open"
  PROVE  ~Stands
<1>1. job.at = "wake" /\ job.op = "rest"
  BY DEF IInv, Labels, TypeOK, JobSet, Ops, WakeWrite, AnswerAts, LiftAts, EnforceAts, ComposeAts
<1>2. PICK s \in State : /\ s = [job.st EXCEPT !.last = <<Today, Target(job.st)>>]
                         /\ s.skipped = job.st.skipped /\ s.waived = job.st.waived
  BY LastIs, TypeFields DEF IInv, StateHas
<1>3. Target(s) = "open"
  <2>1. Target(s) \in Setting
    BY DueIs DEF IInv
  <2>2. WritePctl(Slot(Target(s)), [To("save") EXCEPT !.st = s], {To("undo")})
    BY <1>2 DEF WakeWrite
  <2> QED BY <2>1, <2>2, SlotIs DEF IInv
<1>4. job.st.skipped = disk.st.skipped /\ job.st.waived = disk.st.waived
  BY <1>1 DEF IInv, Loaded
<1>5. ~BedDue(disk.st) /\ ~DockDue(disk.st)
  BY <1>2, <1>3, <1>4, SameDue DEF Target
<1> QED BY <1>1, <1>5 DEF Stands

LEMMA ReleaseReopens ==
  ASSUME IInv, Release, pctl[Today] = "blocked", pctl'[Today] = "open"
  PROVE  ~Stands
<1>1. job.at = "release" /\ job.st = disk.st
  BY DEF IInv, Loaded, Release
<1>2. PICK s \in State : /\ s = [job.st EXCEPT !.dock = FALSE, !.last = <<Today, Target(job.st)>>]
                         /\ s.skipped = job.st.skipped /\ s.waived = job.st.waived
                         /\ s.rest = job.st.rest
  <2>1. <<Today, Target(job.st)>> \in Date \X Setting /\ job.st \in State
    BY TodayIs, DueIs, TypeFields DEF IInv
  <2>2. /\ [job.st EXCEPT !.dock = FALSE, !.last = <<Today, Target(job.st)>>] \in State
        /\ [job.st EXCEPT !.dock = FALSE,
            !.last = <<Today, Target(job.st)>>].skipped = job.st.skipped
        /\ [job.st EXCEPT !.dock = FALSE,
            !.last = <<Today, Target(job.st)>>].waived = job.st.waived
        /\ [job.st EXCEPT !.dock = FALSE, !.last = <<Today, Target(job.st)>>].rest = job.st.rest
    BY <2>1 DEF State
  <2> QED BY <2>2
<1>3. Target(s) = "open"
  <2>1. Target(s) \in Setting
    BY DueIs DEF IInv
  <2>2. CASE Go([To("released") EXCEPT !.st = s])
    BY <2>2, GoIs DEF Went, IInv
  <2>3. CASE WritePctl(Slot(Target(s)), [To("released") EXCEPT !.st = s],
                       {To("undo"), To("refuse")})
    BY <2>1, <2>3, SlotIs DEF IInv
  <2> QED BY <1>2, <2>2, <2>3 DEF Release
<1>4. ~BedDue(disk.st) /\ ~DockDue(disk.st) /\ disk.st.rest = None
  BY <1>1, <1>2, <1>3, SameDue DEF Target
<1> QED BY <1>4 DEF Stands

(* Lifting one reason never opens the console while another one stands.    *)
THEOREM LiftingKeepsOthers == Spec => NeverReopens
<1>1. ASSUME IInv, [Next]_vars, At("lifting") \/ At("write") \/ At("wake") \/ At("release"),
             pctl[Today] = "blocked", pctl'[Today] = "open"
      PROVE  ~Stands
  <2>1. job.at \in Opening /\ pctl' # pctl
    BY <1>1 DEF Opening
  <2>2. Lifting \/ Apply \/ WakeWrite \/ Release
    BY <1>1, <2>1, StepAt DEF vars, Opening
  <2> QED BY <1>1, <2>2, LiftingReopens, ApplyReopens, WakeReopens, ReleaseReopens
<1>2. IInv /\ [Next]_vars =>
        [At("lifting") \/ At("write") \/ At("wake") \/ At("release") =>
           (pctl[Today] = "blocked" /\ pctl'[Today] = "open" => ~Stands)]_vars
  BY <1>1
<1> QED BY <1>2, SpecIInv, PTL DEF Spec, NeverReopens

(* A request that was refused has changed nothing of the state, when no    *)
(* further call failed.                                                    *)
THEOREM RefusalUndoes == Spec => RefusedChangesNothing
<1>1. ASSUME IInv, Next, At("refuse"), power', faults' = faults, ~flag, harmed = {}
      PROVE  disk'.st = job.before
  <2>1. job.at = "refuse" /\ Refuse
    BY <1>1, StepAt DEF Opening
  <2>2. job.op \in Asked
    BY <1>1, <2>1 DEF IInv, Labels, TypeOK, JobSet, Ops, Asked, EnforceAts, ComposeAts, LiftAts
  <2>3. /\ IF journal = None THEN disk.st = job.before ELSE journal.disk.st = job.before
        /\ journal # None => journal.whole
    BY <1>1, <2>1, <2>2 DEF IInv, Rest, Found, Journalled
  <2>4. CASE journal = None /\ disk' = disk
    BY <2>3, <2>4
  <2>5. CASE journal # None /\ disk' = journal.disk
    BY <2>3, <2>5
  <2>6. faults' # faults \/ ~Fault
    BY <1>1 DEF Fault, IInv, TypeOK
  <2> QED BY <1>1, <2>1, <2>3, <2>4, <2>5, <2>6 DEF Refuse, Rollback, Go
<1>2. IInv /\ [Next]_vars =>
        [At("refuse") /\ power' /\ faults' = faults /\ ~flag /\ harmed = {} => disk'.st = job.before]_vars
  BY <1>1
<1> QED BY <1>2, SpecIInv, PTL DEF Spec, RefusedChangesNothing
=============================================================================
