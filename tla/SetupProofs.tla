---------------------------- MODULE SetupProofs ----------------------------
(***************************************************************************)
(* Proofs about the take-over of the console's settings and the way back,  *)
(* for any settings a parent may have made and any number of failing calls *)
(* and power cuts.                                                         *)
(***************************************************************************)
EXTENDS Setup, TLAPS

(***************************************************************************)
(* The inductive invariant.                                                *)
(***************************************************************************)
Ops == {"idle", "complete", "retry", "restore", "by_hand", "again", "startup", "gate", "activate",
        "enforce"}
Ats == {"none", "preflight", "refuse", "rule", "pending", "direct", "adopt", "unflag", "snapshot",
        "lift", "released", "undo", "grace", "failed", "flag", "undo_first", "give_back", "rules",
        "restored", "remove_restore", "clear", "undo_left", "rearm", "remove_retry", "remove_flag",
        "active", "old", "write_back", "undo_old", "settle", "clear_old", "apply", "undo_apply", "commit"}

(* The type invariant, in three parts.                                     *)
Flag == Reason \cup {None}
CardSet ==
  [setup : State, snap : Natives \cup {None}, rule : Dated, flag : Flag,
   journal : Journal \cup {None}, restore : BOOLEAN, retry : BOOLEAN, accepted : BOOLEAN]
JobSet ==
  [op : Ops, at : Ats, s : State, base : Settings \cup {None}, orig : Settings \cup {None},
   flag : Flag, ok : BOOLEAN]
GhostSet ==
  [written : BOOLEAN, touched : BOOLEAN, undone : BOOLEAN, told : BOOLEAN,
   kept : Slot \cup {None}, lifted : Settings \cup {None}]
CardOK == card \in CardSet
JobOK  == job \in JobSet
WorldOK ==
  /\ pctl \in Settings /\ weekday \in Weekday /\ power \in [on : BOOLEAN, checked : BOOLEAN]
  /\ ghost \in GhostSet /\ faults \in Nat /\ moves \in Nat

(* The steps of each job.                                                  *)
Labels ==
  \/ job.op = "idle" /\ job.at = "none"
  \/ /\ job.op \in {"complete", "retry"}
     /\ job.at \in {"preflight", "refuse", "rule", "pending", "direct", "adopt", "unflag",
                    "snapshot", "lift", "released", "undo", "grace", "failed", "flag"}
  \/ /\ job.op = "restore"
     /\ job.at \in {"undo_first", "give_back", "rules", "restored", "failed", "flag"}
  \/ /\ job.op = "by_hand"
     /\ job.at \in {"give_back", "rules", "restored", "failed", "flag", "remove_restore", "clear"}
  \/ /\ job.op = "again"
     /\ job.at \in {"undo_left", "rearm", "remove_retry", "remove_flag", "flag"}
  \/ job.op = "startup" /\ job.at \in {"undo_left", "flag"}
  \/ job.op = "gate" /\ job.at \in {"failed", "flag"}
  \/ /\ job.op = "activate"
     /\ job.at \in {"active", "old", "write_back", "undo_old", "settle", "clear_old",
                    "give_back", "rules", "restored", "failed", "flag", "clear"}
  \/ job.op = "enforce" /\ job.at \in {"apply", "undo_apply", "commit", "flag"}

(* Which phase a job is under way in.                                      *)
Phases ==
  /\ job.at \in {"preflight", "refuse", "rule"} => job.s.phase \in {card.setup.phase, "protection"}
  /\ job.at \in {"direct", "adopt", "snapshot", "lift", "undo", "released"} => card.setup.phase = "pending"
  /\ job.at \in {"grace", "old", "write_back", "undo_old", "settle", "clear_old", "active"} =>
       card.setup.phase = "released" /\ job.s.phase = "released"
  /\ job.at \in {"apply", "undo_apply", "commit"} => card.setup.phase = "active"
  /\ job.at = "failed" => job.s.phase \in {"failed", "protection"}
  /\ job.at \in {"preflight", "refuse", "rule"} /\ job.s.phase = "restored" => card.setup.phase = "restored"

(* A transaction that is undone is there, and a take-over runs in none.    *)
Journalled ==
  /\ job.at \in {"undo_first", "undo_left", "write_back", "undo_old", "apply", "undo_apply"} =>
       card.journal # None
  /\ job.op \in {"complete", "retry"} => card.journal = None

(* Before there is a snapshot the settings are the parent's, and no step   *)
(* that changes them is near.                                              *)
Original ==
  card.snap = None =>
    /\ pctl \in Natives /\ ~ghost.written /\ card.journal = None
    /\ card.setup.phase \notin {"active", "released", "restored"}
    /\ job.op # "idle" => job.s.phase \notin {"active", "released", "restored"}
    /\ job.at \in {"none", "preflight", "refuse", "rule", "pending", "direct", "snapshot", "failed",
                   "flag", "rearm", "remove_retry", "remove_flag", "remove_restore", "clear"}

(* What was given back is in force.                                        *)
GivenBack ==
  /\ job.at \in {"rules", "restored"} => pctl = card.snap
  /\ card.setup.phase = "restored" /\ ~ghost.touched /\ ~ghost.undone => pctl = card.snap

(* What a release that fails puts back is what it found, or the snapshot.  *)
Found == {ghost.lifted, card.snap}
PutBack ==
  /\ job.at \in {"rule", "pending", "direct", "snapshot"} => job.base \in {pctl, None}
  /\ job.at = "lift" => job.orig \in {pctl, card.snap} /\ job.orig # None
  /\ job.at = "undo" => job.orig \in Found /\ job.orig # None
  /\ job.at \in {"failed", "flag"} /\ job.flag = "release_failed" => pctl \in Found /\ card.journal = None
  /\ card.flag = "release_failed" /\ card.setup.phase = "failed" /\ ghost.told =>
       card.journal = None /\ (~ghost.touched => pctl \in Found)

(* Today's allowance, from its capture to its adoption.                    *)
Handed ==
  LET hand == job.s.hand IN
  /\ job.at \in {"rule", "pending", "direct", "adopt"} /\ hand # None => hand = Today(hand.kind)
  /\ job.at \in {"pending", "direct", "adopt"} /\ hand # None => card.rule = hand
  /\ job.at \in {"old", "write_back", "settle"} => hand # None
  /\ job.at \in {"write_back", "settle"} => hand = Today(hand.kind) /\ card.rule = hand
  /\ job.at = "settle" => pctl[weekday] = hand.kind
  /\ job.at \in {"direct", "adopt"} => hand # None

(* An allowance that was adopted is today's rule.                          *)
Adopted ==
  ghost.kept # None =>
    /\ ghost.kept \in Kind /\ pctl[weekday] = ghost.kept /\ card.rule = Today(ghost.kept)
    /\ card.setup.hand \in {None, Today(ghost.kept)}
    /\ job.op # "idle" => job.s.hand \in {None, Today(ghost.kept)}
    /\ job.at \notin {"apply", "undo_apply"}

IInv == /\ CardOK /\ JobOK /\ WorldOK /\ Labels /\ Phases /\ Journalled /\ Original /\ GivenBack
        /\ PutBack /\ Handed /\ Adopted

USE BoundsAssumption, NativesAssumption DEF At

-----------------------------------------------------------------------------
(***************************************************************************)
(* The fields of the three records, and of what the steps put there.       *)
(***************************************************************************)
StateHas(s, phase, hand) == s \in State /\ s.phase = phase /\ s.hand = hand

CardHas(c, s, snap, rule, flag, journal) ==
  c \in CardSet /\ c.setup = s /\ c.snap = snap /\ c.rule = rule /\ c.flag = flag /\ c.journal = journal

JobHas(j, op, at, s, base, orig, flag) ==
  /\ j \in JobSet /\ j.op = op /\ j.at = at /\ j.s = s
  /\ j.base = base /\ j.orig = orig /\ j.flag = flag

(* What a job becomes that goes on, or ends.                               *)
GoesOn(j, at, s, flag) == JobHas(j, job.op, at, s, job.base, job.orig, flag)
Ends(j) == JobHas(j, "idle", "none", Fresh, None, None, None)

LEMMA StateFields ==
  ASSUME NEW s \in State
  PROVE  s.phase \in Phase /\ s.hand \in Dated
BY DEF State

LEMMA CardFields ==
  ASSUME CardOK
  PROVE  /\ CardHas(card, card.setup, card.snap, card.rule, card.flag, card.journal)
         /\ card.setup \in State /\ card.snap \in Natives \cup {None} /\ card.rule \in Dated
         /\ card.flag \in Flag /\ card.journal \in Journal \cup {None}
BY DEF CardOK, CardSet, CardHas

LEMMA JobFields ==
  ASSUME JobOK
  PROVE  /\ GoesOn(job, job.at, job.s, job.flag)
         /\ job.s \in State /\ job.base \in Settings \cup {None} /\ job.orig \in Settings \cup {None}
         /\ job.flag \in Flag
BY DEF JobOK, JobSet, JobHas, GoesOn

LEMMA StateEdits ==
  ASSUME NEW s \in State
  PROVE  /\ \A p \in Phase : StateHas(In(p, s), p, s.hand)
         /\ StateHas(Settled(s), s.phase, s.hand)
         /\ StateHas([s EXCEPT !.hand = None], s.phase, None)
         /\ StateHas([s EXCEPT !.offered = TRUE], s.phase, s.hand)
         /\ StateHas([s EXCEPT !.offered = FALSE], s.phase, s.hand)
         /\ StateHas([s EXCEPT !.grace = TRUE], s.phase, s.hand)
         /\ \A h \in Dated : StateHas([s EXCEPT !.hand = h], s.phase, h)
BY DEF StateHas, State, In, Settled, Dated

LEMMA FreshIs == StateHas(Fresh, "unconfigured", None)
BY DEF StateHas, State, Fresh, Phase, Dated

LEMMA FailureIs ==
  ASSUME NEW s \in State
  PROVE  StateHas(Failure(s), "failed", s.hand)
<1>1. StateHas(In("failed", s), "failed", s.hand)
  BY StateEdits DEF Phase
<1>2. StateHas(Settled(In("failed", s)), "failed", s.hand)
  BY <1>1, StateEdits DEF StateHas
<1> QED BY <1>2 DEF Failure

LEMMA CardEdits ==
  ASSUME CardOK
  PROVE  /\ \A s \in State : CardHas([card EXCEPT !.setup = s], s, card.snap, card.rule, card.flag, card.journal)
         /\ \A n \in Natives : CardHas([card EXCEPT !.snap = n], card.setup, n, card.rule, card.flag, card.journal)
         /\ \A d \in Dated : CardHas([card EXCEPT !.rule = d], card.setup, card.snap, d, card.flag, card.journal)
         /\ \A f \in Flag : CardHas([card EXCEPT !.flag = f], card.setup, card.snap, card.rule, f, card.journal)
         /\ \A j \in Journal \cup {None} :
              CardHas([card EXCEPT !.journal = j], card.setup, card.snap, card.rule, card.flag, j)
         /\ \A d \in Dated : CardHas([card EXCEPT !.rule = d, !.journal = None], card.setup, card.snap, d, card.flag, None)
         /\ \A b \in BOOLEAN :
              /\ CardHas([card EXCEPT !.restore = b], card.setup, card.snap, card.rule, card.flag, card.journal)
              /\ CardHas([card EXCEPT !.retry = b], card.setup, card.snap, card.rule, card.flag, card.journal)
              /\ CardHas([card EXCEPT !.accepted = b], card.setup, card.snap, card.rule, card.flag, card.journal)
BY DEF CardOK, CardSet, CardHas

LEMMA ToHas ==
  ASSUME JobOK, NEW l \in Ats
  PROVE  /\ GoesOn(To(l), l, job.s, job.flag)
         /\ \A s \in State : GoesOn([To(l) EXCEPT !.s = s], l, s, job.flag)
         /\ \A s \in State, b \in Settings \cup {None} :
              JobHas([To(l) EXCEPT !.s = s, !.base = b], job.op, l, s, b, job.orig, job.flag)
         /\ \A s \in State, f \in Flag :
              GoesOn([[To(l) EXCEPT !.flag = f] EXCEPT !.s = s], l, s, f)
BY DEF JobOK, JobSet, JobHas, GoesOn, To

LEMMA OfferedHas ==
  ASSUME JobOK, NEW l \in Ats
  PROVE  /\ GoesOn([To(l) EXCEPT !.s.offered = TRUE], l, [job.s EXCEPT !.offered = TRUE], job.flag)
         /\ \A o \in Settings :
              JobHas([To(l) EXCEPT !.s.offered = TRUE, !.orig = o], job.op, l, [job.s EXCEPT !.offered = TRUE], job.base, o, job.flag)
<1>1. [job.s EXCEPT !.offered = TRUE] \in State
  BY DEF JobOK, JobSet, State
<1> QED BY <1>1 DEF JobOK, JobSet, JobHas, GoesOn, To

LEMMA GivesUpHas ==
  ASSUME JobOK
  PROVE  GoesOn(GivesUp, "give_back", [job.s EXCEPT !.hand = None], job.flag)
<1>1. [job.s EXCEPT !.hand = None] \in State
  BY DEF JobOK, JobSet, State, Dated
<1> QED BY <1>1 DEF JobOK, JobSet, JobHas, GoesOn, To, GivesUp, Ats

LEMMA FailsHas ==
  ASSUME JobOK, NEW s \in State, NEW r \in Reason, NEW l \in Ats
  PROVE  GoesOn(Fails(s, r, l), l, s, r)
BY DEF JobOK, JobSet, JobHas, GoesOn, Fails, Flag

LEMMA IdleIs ==
  ASSUME NEW o \in Ops, NEW l \in Ats, NEW s \in State, NEW f \in Flag
  PROVE  JobHas([Idle EXCEPT !.op = o, !.at = l, !.s = s, !.flag = f], o, l, s, None, None, f)
BY DEF JobHas, JobSet, Idle

LEMMA IdleHas ==
  /\ Ends(Idle)
  /\ \A s \in State : JobHas([Idle EXCEPT !.s = s], "idle", "none", s, None, None, None)
  /\ JobHas([Idle EXCEPT !.op = "enforce", !.at = "apply"], "enforce", "apply", Fresh, None, None, None)
  /\ JobHas([Idle EXCEPT !.op = "enforce", !.at = "commit"], "enforce", "commit", Fresh, None, None, None)
  /\ JobHas([Idle EXCEPT !.op = "enforce", !.at = "undo_apply"], "enforce", "undo_apply", Fresh, None, None, None)
<1>1. Fresh \in State /\ None \in Flag
  BY FreshIs DEF StateHas, Flag
<1>2. Ends(Idle)
  BY <1>1 DEF JobHas, Ends, JobSet, Idle, Ops, Ats
<1>3. \A s \in State : JobHas([Idle EXCEPT !.s = s], "idle", "none", s, None, None, None)
  BY <1>1 DEF JobHas, Ends, JobSet, Idle, Ops, Ats
<1>4. \A l \in {"apply", "commit", "undo_apply"} :
        JobHas([Idle EXCEPT !.op = "enforce", !.at = l], "enforce", l, Fresh, None, None, None)
  BY <1>1 DEF JobHas, Ends, JobSet, Idle, Ops, Ats
<1> QED BY <1>2, <1>3, <1>4

(* What a step that writes the card leaves.                                *)
Wrote(c, then, failed) ==
  /\ \/ card' = c /\ job' = then /\ (ghost'.told => ~At("failed") /\ (ghost.told \/ At("flag")))
     \/ card' = card /\ job' = failed /\ ghost'.told = ghost.told
  /\ pctl' = pctl /\ weekday' = weekday
  /\ ghost'.written = ghost.written /\ ghost'.touched = ghost.touched /\ ghost'.undone = ghost.undone
  /\ ghost'.kept = ghost.kept /\ ghost'.lifted = ghost.lifted

(* What one that writes PCTL leaves.                                       *)
WrotePctl(p, then, failed) ==
  /\ \/ pctl' = p /\ job' = then
     \/ pctl' \in {pctl, p} /\ job' = failed
  /\ card' = card /\ weekday' = weekday
  /\ ghost'.written = TRUE /\ ghost'.touched = FALSE /\ ghost'.undone = ghost.undone /\ ghost'.told = ghost.told
  /\ ghost'.kept \in {ghost.kept, None} /\ (job.op # "enforce" => ghost'.kept = None)
  /\ ghost'.lifted = IF At("lift") THEN pctl ELSE ghost.lifted

(* What a rollback leaves.                                                 *)
RolledBack(then, failed) ==
  /\ \/ /\ pctl' = card.journal.pctl /\ job' = then
        /\ CardHas(card', card.setup, card.snap, card.journal.rule, card.flag, None)
     \/ /\ pctl' \in {pctl, card.journal.pctl} /\ (job' = failed \/ Ends(job'))
        /\ CardHas(card', card.setup, card.snap, card'.rule, card.flag, card.journal)
  /\ weekday' = weekday
  /\ ghost'.written = ghost.written /\ ghost'.touched = ghost.touched /\ ghost'.told = ghost.told
  /\ (card.setup.phase = "restored" => ghost'.undone) /\ (ghost.undone => ghost'.undone)
  /\ ghost'.kept = None /\ ghost'.lifted = ghost.lifted

(* What a write leaves that broke off with the old file gone, and the job  *)
(* that goes on after it.                                                  *)
Lost(gone, j) ==
  /\ card' = gone /\ (job' = j \/ Ends(job')) /\ pctl' = pctl /\ weekday' = weekday
  /\ ghost'.written = ghost.written /\ ghost'.touched = ghost.touched /\ ghost'.undone = ghost.undone
  /\ ghost'.kept = (IF gone.rule = card.rule THEN ghost.kept ELSE None)
  /\ ghost'.lifted = ghost.lifted /\ ghost'.told = ghost.told

Spares(gone, s, d, f) ==
  /\ s \in {card.setup, Fresh} /\ d \in {card.rule, None} /\ f \in {card.flag, None}
  /\ CardHas(gone, s, card.snap, d, f, card.journal)

Continues(j, s) ==
  \/ j \in JobSet /\ j.op = "idle" /\ j.at = "none"
  \/ /\ j \in JobSet /\ j.op = job.op
     /\ \/ /\ j.at = "flag" /\ job.at \in {"failed", "rules", "restored"}
           /\ j.flag = "other" \/ (job.at = "failed" /\ j.flag = job.flag)
        \/ j.at = "refuse" /\ job.at \in {"preflight", "rule"} /\ s = card.setup
        \/ j.at = "remove_retry" /\ job.at = "rearm"
        \/ j.at = "remove_restore" /\ job.at = "flag" /\ job.op = "by_hand"
        \/ j.at = "clear" /\ job.at = "flag" /\ job.op = "activate"
        \/ j.at = "give_back" /\ job.at = "settle"
     /\ j.s.phase \in {job.s.phase, "protection"} \/ (j.at = "remove_retry" /\ j.s.phase = "pending")
     /\ \/ j.s.hand \in {job.s.hand, None}
        \/ pctl[weekday] \in Kind /\ j.s.hand = Today(pctl[weekday])

(* What a step of the job alone leaves, and how only the day's allowance   *)
(* is noted.                                                               *)
Unmoved == card' = card /\ pctl' = pctl /\ ghost' = ghost /\ weekday' = weekday
Went(j) == job' = j /\ Unmoved
KeptAs(k) ==
  /\ ghost'.written = ghost.written /\ ghost'.touched = ghost.touched /\ ghost'.undone = ghost.undone
  /\ ghost'.told = ghost.told /\ ghost'.kept = k /\ ghost'.lifted = ghost.lifted

LEMMA WriteIs ==
  ASSUME WorldOK, NEW c, NEW then, NEW failed, Write(c, then, failed)
  PROVE  WorldOK' /\ Wrote(c, then, failed)
<1>1. ghost' = ghost \/ \E b \in BOOLEAN : ghost' = [ghost EXCEPT !.told = b] /\ (b => ~At("failed") /\ (ghost.told \/ At("flag")))
  BY Zenon DEF Write
<1>2. ghost' \in GhostSet /\ ghost'.written = ghost.written /\ ghost'.touched = ghost.touched /\ ghost'.undone = ghost.undone
      /\ ghost'.kept = ghost.kept /\ ghost'.lifted = ghost.lifted
  BY <1>1 DEF WorldOK, GhostSet
<1>3. ASSUME ghost' = [ghost EXCEPT !.told = ~At("failed") /\ (@ \/ At("flag"))]
      PROVE  ghost'.told => ~At("failed") /\ (ghost.told \/ At("flag"))
  <2>1. PICK b \in BOOLEAN : /\ ghost' = [ghost EXCEPT !.told = b]
                             /\ (b => ~At("failed") /\ (ghost.told \/ At("flag")))
    BY <1>3, Zenon
  <2>2. ghost'.told = b
    BY <2>1 DEF WorldOK, GhostSet
  <2> QED BY <2>1, <2>2
<1>4. faults' \in Nat /\ pctl' = pctl /\ Same
  BY BoundsAssumption DEF Write, WorldOK, Fault
<1>5. WorldOK'
  BY <1>2, <1>4 DEF WorldOK, Same
<1>6. \/ card' = c /\ job' = then /\ (ghost'.told => ~At("failed") /\ (ghost.told \/ At("flag")))
      \/ card' = card /\ job' = failed /\ ghost'.told = ghost.told
  BY <1>3, Zenon DEF Write
<1> QED BY <1>2, <1>4, <1>5, <1>6 DEF Wrote, Same

LEMMA WritePctlIs ==
  ASSUME WorldOK, NEW p \in Settings, NEW then, NEW failed, WritePctl(p, then, failed)
  PROVE  WorldOK' /\ WrotePctl(p, then, failed)
<1>1. /\ ghost' \in GhostSet /\ ghost'.written = TRUE /\ ghost'.touched = FALSE /\ ghost'.undone = ghost.undone /\ ghost'.told = ghost.told
      /\ ghost'.kept \in {ghost.kept, None} /\ (job.op # "enforce" => ghost'.kept = None)
      /\ ghost'.lifted = IF At("lift") THEN pctl ELSE ghost.lifted
  BY DEF WritePctl, WorldOK, GhostSet
<1>2. faults' \in Nat /\ Same
  BY BoundsAssumption DEF WritePctl, WorldOK, Fault
<1>3. ((pctl' = p /\ job' = then) \/ (pctl' \in {pctl, p} /\ job' = failed)) /\ card' = card
  BY Zenon DEF WritePctl
<1>4. WorldOK'
  BY <1>1, <1>2, <1>3 DEF WorldOK, Same
<1> QED BY <1>1, <1>2, <1>3, <1>4 DEF WrotePctl, Same

LEMMA RollbackIs ==
  ASSUME WorldOK, CardOK, card.journal # None, NEW then, NEW failed, Rollback(then, failed)
  PROVE  WorldOK' /\ RolledBack(then, failed)
<1>1. \E b \in BOOLEAN : ghost' = [ghost EXCEPT !.undone = b, !.kept = None]
                         /\ (card.setup.phase = "restored" => b) /\ (ghost.undone => b)
  BY Zenon DEF Rollback
<1>2. PICK b \in BOOLEAN : ghost' = [ghost EXCEPT !.undone = b, !.kept = None]
                         /\ (card.setup.phase = "restored" => b) /\ (ghost.undone => b)
  BY <1>1
<1>3. ghost' \in GhostSet /\ ghost'.written = ghost.written /\ ghost'.touched = ghost.touched /\ ghost'.told = ghost.told
      /\ ghost'.undone = b /\ ghost'.kept = None /\ ghost'.lifted = ghost.lifted
  BY <1>2 DEF WorldOK, GhostSet
<1>4. card.journal.pctl \in Settings
  BY DEF CardOK, CardSet, Journal
<1>5. faults' \in Nat /\ weekday' = weekday /\ moves' = moves /\ power' \in [on : BOOLEAN, checked : BOOLEAN]
  <2>1. faults' \in Nat /\ weekday' = weekday /\ moves' = moves
    BY BoundsAssumption DEF Rollback, WorldOK, Fault
  <2>2. power' = power \/ power' = Off
    BY Zenon DEF Rollback, Broken
  <2>3. /\ power \in [on : BOOLEAN, checked : BOOLEAN]
        /\ Off \in [on : BOOLEAN, checked : BOOLEAN]
    BY DEF WorldOK, Off
  <2> QED BY <2>1, <2>2, <2>3
<1>6. card.journal.rule \in Dated
  BY DEF CardOK, CardSet, Journal
<1>7. \/ /\ pctl' = card.journal.pctl /\ job' = then
         /\ CardHas(card', card.setup, card.snap, card.journal.rule, card.flag, None)
      \/ /\ pctl' \in {pctl, card.journal.pctl} /\ (job' = failed \/ Ends(job'))
         /\ CardHas(card', card.setup, card.snap, card'.rule, card.flag, card.journal)
  <2>1. CardHas([card EXCEPT !.rule = card.journal.rule, !.journal = None], card.setup, card.snap, card.journal.rule, card.flag, None)
    BY <1>6, CardEdits
  <2>2. PICK c : /\ c = [card EXCEPT !.rule = card.journal.rule]
                 /\ CardHas(c, card.setup, card.snap, card.journal.rule, card.flag, card.journal)
    BY <1>6, CardEdits
  <2>3. CardHas(c, card.setup, card.snap, c.rule, card.flag, card.journal)
    BY <2>2 DEF CardHas
  <2>4. CardHas(card, card.setup, card.snap, card.rule, card.flag, card.journal)
    BY CardFields
  <2>5. /\ CardHas(NoRules, card.setup, card.snap, None, card.flag, card.journal)
        /\ CardHas(NoRules, card.setup, card.snap, NoRules.rule, card.flag, card.journal)
    BY CardEdits DEF NoRules, Dated, CardHas
  <2>6. CASE ~Fault
    BY <2>1, <2>6 DEF Rollback
  <2>7. CASE /\ Fault /\ pctl' \in {pctl, card.journal.pctl} /\ Broken(failed)
             /\ card' \in {card, c, NoRules}
    <3>1. job' = failed \/ Ends(job')
      BY <2>7, IdleHas DEF Broken
    <3> QED BY <2>3, <2>4, <2>5, <2>7, <3>1
  <2>8. CASE /\ pctl' = card.journal.pctl /\ job' = then
             /\ card' = [card EXCEPT !.rule = card.journal.rule, !.journal = None]
    BY <2>1, <2>8
  <2> QED BY <2>2, <2>7, <2>8 DEF Rollback
<1>8. WorldOK'
  BY <1>3, <1>4, <1>5, <1>7 DEF WorldOK
<1> QED BY <1>2, <1>3, <1>5, <1>7, <1>8 DEF RolledBack

LEMMA LoseIs ==
  ASSUME WorldOK, NEW gone, NEW j, Lose(gone, j)
  PROVE  WorldOK' /\ Lost(gone, j)
<1>1. PICK k \in {ghost.kept, None} : /\ ghost' = [ghost EXCEPT !.kept = k]
                                     /\ k = (IF gone.rule = card.rule THEN ghost.kept ELSE None)
  BY Zenon DEF Lose
<1>2. /\ ghost' \in GhostSet
      /\ ghost'.written = ghost.written /\ ghost'.touched = ghost.touched /\ ghost'.undone = ghost.undone
      /\ ghost'.told = ghost.told /\ ghost'.kept = k /\ ghost'.lifted = ghost.lifted
  BY <1>1 DEF WorldOK, GhostSet
<1>3. /\ faults' \in Nat /\ pctl' = pctl /\ weekday' = weekday /\ moves' = moves /\ card' = gone
      /\ power' \in [on : BOOLEAN, checked : BOOLEAN]
  <2>1. faults' \in Nat /\ pctl' = pctl /\ weekday' = weekday /\ moves' = moves /\ card' = gone
    BY BoundsAssumption DEF Lose, Fault, WorldOK
  <2>2. power' = power \/ power' = Off
    BY Zenon DEF Lose, Broken
  <2>3. /\ power \in [on : BOOLEAN, checked : BOOLEAN]
        /\ Off \in [on : BOOLEAN, checked : BOOLEAN]
    BY DEF WorldOK, Off
  <2> QED BY <2>1, <2>2, <2>3
<1>4. job' = j \/ Ends(job')
  BY IdleHas DEF Lose, Broken
<1>5. WorldOK'
  BY <1>2, <1>3 DEF WorldOK
<1> QED BY <1>1, <1>2, <1>3, <1>4, <1>5 DEF Lost

LEMMA GoIs ==
  ASSUME WorldOK, NEW j, Go(j)
  PROVE  WorldOK' /\ job' = j /\ card' = card /\ pctl' = pctl /\ ghost' = ghost /\ weekday' = weekday
BY DEF Go, Same, WorldOK

LEMMA StartIs ==
  ASSUME WorldOK, CardOK, NEW op \in Ops, NEW label \in Ats, Start(op, label)
  PROVE  WorldOK' /\ Unmoved /\ JobHas(job', op, label, card.setup, None, None, card.flag)
<1>1. PICK j : j = [Idle EXCEPT !.op = op, !.at = label, !.s = card.setup, !.flag = card.flag]
  OBVIOUS
<1>2. JobHas(j, op, label, card.setup, None, None, card.flag)
  BY <1>1, IdleIs, CardFields
<1>3. Go(j)
  BY <1>1 DEF Start
<1> QED BY <1>2, <1>3, GoIs DEF Unmoved

LEMMA StartsIs ==
  ASSUME NEW op \in Ops, NEW label \in Ats, CardOK, Starts(op, label)
  PROVE  JobHas(job', op, label, card.setup, None, None, None)
<1>1. \E b \in BOOLEAN : job' = [Idle EXCEPT !.op = op, !.at = label, !.s = card.setup, !.ok = b]
  BY Zenon DEF Starts
<1>2. card.setup \in State
  BY DEF CardOK, CardSet
<1> QED BY <1>1, <1>2 DEF JobHas, JobSet, Idle, Flag

LEMMA KeptIs ==
  ASSUME WorldOK, NEW k \in Slot \cup {None}, ghost' = [ghost EXCEPT !.kept = k]
  PROVE  ghost' \in GhostSet /\ KeptAs(k)
BY DEF WorldOK, GhostSet, KeptAs

LEMMA SlotIs ==
  ASSUME WorldOK
  PROVE  /\ pctl[weekday] \in Slot
         /\ \A v \in Slot : [pctl EXCEPT ![weekday] = v] \in Settings /\ [pctl EXCEPT ![weekday] = v][weekday] = v
BY DEF WorldOK, Settings

LEMMA AgedIs ==
  ASSUME NEW d \in Dated
  PROVE  Aged(d) \in Dated
<1>1. CASE d = None
  BY <1>1 DEF Aged, Dated
<1>2. CASE d # None
  BY <1>2 DEF Aged, Dated, Rule
<1> QED BY <1>1, <1>2

LEMMA RecordIs ==
  ASSUME WorldOK, CardOK
  PROVE  Record \in Journal
BY CardFields DEF Record, Journal, WorldOK

LEMMA PlanIs ==
  ASSUME WorldOK, Adopted, pctl[weekday] # Plan
  PROVE  ghost.kept = None
<1>1. ASSUME ghost.kept # None
      PROVE  FALSE
  <2>1. PICK k \in Kind : card.rule = Today(k) /\ pctl[weekday] = k
    BY <1>1 DEF Adopted
  <2>2. Today(k) \in Rule /\ Today(k).fresh = TRUE /\ Today(k).kind = k
    BY DEF Today, Rule
  <2>3. card.rule # None
    BY <2>1, <2>2, NativesAssumption
  <2> QED BY <2>1, <2>2, <2>3 DEF Plan
<1> QED BY <1>1

LEMMA CapturedIs ==
  ASSUME WorldOK, NEW s \in State
  PROVE  /\ Captured(s) \in State /\ Captured(s).phase = s.phase
         /\ Captured(s).hand # None => Captured(s).hand = Today(Captured(s).hand.kind)
         /\ Captured(s).hand # None => Captured(s).hand = s.hand \/ (pctl[weekday] \in Kind /\ Captured(s).hand = Today(pctl[weekday]))
<1>1. CASE ~Captures(s)
  <2>1. Captured(s) = s
    BY <1>1 DEF Captured
  <2>2. s.hand # None => s.hand \in Rule /\ s.hand.fresh = TRUE
    BY <1>1 DEF Captures, Stale, State, Dated, Rule
  <2>3. s.hand # None => s.hand = Today(s.hand.kind)
    BY <2>2 DEF Rule, Today
  <2> QED BY <2>1, <2>3
<1>2. CASE Captures(s)
  <2>1. PICK h \in {None, Today(pctl[weekday])} : /\ Captured(s) = [s EXCEPT !.hand = h]
                                                  /\ (h # None => pctl[weekday] \in Kind /\ h = Today(pctl[weekday]))
    BY <1>2 DEF Captured
  <2>2. h \in Dated
    <3>1. CASE h = None
      BY <3>1 DEF Dated
    <3>2. CASE h # None
      <4>1. PICK k \in Kind : k = pctl[weekday] /\ h = Today(k)
        BY <2>1, <3>2
      <4>2. Today(k) \in Rule
        BY DEF Today, Rule
      <4> QED BY <4>1, <4>2 DEF Dated
    <3> QED BY <3>1, <3>2
  <2>3. Captured(s) \in State /\ Captured(s).phase = s.phase /\ Captured(s).hand = h
    BY <2>1, <2>2 DEF State
  <2>4. h # None => h.kind = pctl[weekday]
    BY <2>1 DEF Today
  <2> QED BY <2>1, <2>3, <2>4
<1> QED BY <1>1, <1>2

LEMMA RefusedIs ==
  ASSUME NEW s \in State
  PROVE  \E p \in {s.phase, "protection"} : StateHas(Refused(s), p, s.hand)
<1>1. StateHas(s, s.phase, s.hand) /\ StateHas(In("protection", s), "protection", s.hand)
  BY StateEdits DEF StateHas, Phase
<1> QED BY <1>1 DEF Refused

-----------------------------------------------------------------------------
(*****************************************************************************)
(* Every step keeps the invariant, and the snapshot once there is one: the   *)
(* guard, then what the step leaves, then each part of the invariant.        *)
(*****************************************************************************)
SnapKept == card.snap # None => card'.snap = card.snap

(* A file that is lost in its replacement leaves the invariant, whatever   *)
(* the job goes on with.                                                   *)
LEMMA LossKeeps ==
  ASSUME IInv, NEW gone, NEW j, NEW s, NEW d, NEW f,
         Lose(gone, j), Spares(gone, s, d, f), Continues(j, s)
  PROVE  IInv' /\ SnapKept
<1>1. WorldOK' /\ Lost(gone, j)
  BY LoseIs DEF IInv
<1>2. StateHas(Fresh, "unconfigured", None) BY FreshIs
<1>3. Continues(job', s)
  BY <1>1 DEF Lost, Continues, Ends, JobHas
<1>4. Spares(card', s, d, f) BY <1>1 DEF Lost
<1>5. CardOK' /\ JobOK' BY <1>3, <1>4 DEF CardOK, JobOK, Continues, Spares, CardHas
<1>6. Labels' BY <1>3 DEF IInv, Labels, Continues
<1>7. Phases' BY <1>2, <1>3, <1>4 DEF IInv, Phases, Labels, Continues, Spares, CardHas, StateHas
<1>8. Journalled' BY <1>3, <1>4 DEF IInv, Journalled, Labels, Continues, Spares, CardHas
<1>9. Original'
  BY <1>1, <1>2, <1>3, <1>4 DEF IInv, Original, Labels, Continues, Spares, CardHas, StateHas, Lost
<1>10. GivenBack'
  BY <1>1, <1>2, <1>3, <1>4 DEF IInv, GivenBack, Continues, Spares, CardHas, StateHas, Lost
<1>11. PutBack'
  <2>1. /\ pctl' = pctl /\ ghost'.lifted = ghost.lifted /\ ghost'.told = ghost.told
        /\ ghost'.touched = ghost.touched /\ card'.snap = card.snap /\ card'.journal = card.journal
        /\ card'.setup \in {card.setup, Fresh} /\ card'.flag \in {card.flag, None} /\ Found' = Found
    BY <1>1, <1>4 DEF Lost, Spares, CardHas, Found
  <2>2. job'.at \notin {"rule", "pending", "direct", "snapshot", "lift", "undo", "failed"}
    BY <1>3 DEF Continues
  <2>3. job'.at = "flag" /\ job'.flag = "release_failed" => job.at = "failed" /\ job.flag = "release_failed"
    BY <1>3 DEF Continues
  <2>4. card'.flag = "release_failed" /\ card'.setup.phase = "failed" =>
          card.flag = "release_failed" /\ card.setup.phase = "failed"
    BY <1>2, <2>1, NativesAssumption DEF StateHas, Reason
  <2>5. /\ job.at = "failed" /\ job.flag = "release_failed" => pctl \in Found /\ card.journal = None
        /\ card.flag = "release_failed" /\ card.setup.phase = "failed" /\ ghost.told =>
             card.journal = None /\ (~ghost.touched => pctl \in Found)
    BY DEF IInv, PutBack
  <2> QED BY <2>1, <2>2, <2>3, <2>4, <2>5 DEF PutBack
<1>12. Handed' BY <1>3, <1>4 DEF IInv, Handed, Continues, Spares, CardHas
<1>13. Adopted'
  <2>1. CASE ghost'.kept = None
    BY <2>1 DEF Adopted
  <2>2. CASE ghost'.kept # None
    <3>1. ghost'.kept = ghost.kept /\ d = card.rule
      BY <1>1, <1>4, <2>2 DEF Lost, Spares, CardHas
    <3>2. job.at \notin {"apply", "undo_apply"} /\ (job.op = "idle" => job.at = "none")
      BY <2>2, <3>1 DEF IInv, Adopted, Labels
    <3> QED BY <1>1, <1>2, <1>3, <1>4, <2>2, <3>1, <3>2 DEF IInv, Adopted, Continues, Spares, CardHas, StateHas, Lost
  <2> QED BY <2>1, <2>2
<1>14. SnapKept BY <1>4 DEF SnapKept, Spares, CardHas
<1> QED BY <1>1, <1>5, <1>6, <1>7, <1>8, <1>9, <1>10, <1>11, <1>12, <1>13, <1>14 DEF IInv

LEMMA LostSetupKeeps ==
  ASSUME IInv, NEW j, Lose(NoSetup, j), Continues(j, Fresh)
  PROVE  IInv' /\ SnapKept
<1>1. Spares(NoSetup, Fresh, card.rule, card.flag)
  BY FreshIs, CardEdits DEF IInv, NoSetup, Spares, StateHas
<1> QED BY <1>1, LossKeeps

LEMMA LostRulesKeeps ==
  ASSUME IInv, NEW j, Lose(NoRules, j), Continues(j, card.setup)
  PROVE  IInv' /\ SnapKept
<1>1. Spares(NoRules, card.setup, None, card.flag)
  BY CardEdits DEF IInv, NoRules, Spares, Dated
<1> QED BY <1>1, LossKeeps

(* A job that ends goes on with nothing.                                   *)
LEMMA EndContinues ==
  ASSUME NEW j, NEW s, NEW u \in State, j = Idle \/ j = [Idle EXCEPT !.s = u]
  PROVE  Continues(j, s)
<1>1. Ends(j) \/ JobHas(j, "idle", "none", u, None, None, None)
  BY IdleHas
<1>2. j \in JobSet /\ j.op = "idle" /\ j.at = "none"
  BY <1>1 DEF Ends, JobHas
<1> QED BY <1>2 DEF Continues

(* A request begins a job.                                                 *)
LEMMA CompleteKeeps ==
  ASSUME IInv, Complete
  PROVE  IInv' /\ SnapKept
<1>1. job.op = "idle" /\ card.journal = None BY DEF Complete, Ready, Free
<1>2. WorldOK' /\ Unmoved
     /\ \/ JobHas(job', "complete", "preflight", card.setup, None, None, card.flag)
        \/ card.setup.phase = "released" /\ JobHas(job', "complete", "grace", card.setup, None, None, card.flag)
  BY StartIs DEF IInv, Complete, Ready, Free, Ops, Ats
<1>3. CardOK' /\ JobOK' BY <1>1, <1>2 DEF IInv, CardOK, JobOK, Unmoved, JobHas
<1>4. Labels' BY <1>1, <1>2 DEF IInv, Labels, Unmoved, JobHas
<1>5. Phases' BY <1>1, <1>2 DEF IInv, Phases, Labels, Unmoved, JobHas
<1>6. Journalled' BY <1>1, <1>2 DEF IInv, Journalled, Labels, Unmoved, JobHas
<1>7. Original' BY <1>1, <1>2 DEF IInv, Original, Labels, Journalled, Phases, Unmoved, JobHas
<1>8. GivenBack' BY <1>1, <1>2 DEF IInv, GivenBack, Labels, Phases, Unmoved, JobHas
<1>9. PutBack'
  BY <1>1, <1>2 DEF IInv, PutBack, Found, Labels, Phases, Journalled, Original, Reason, Unmoved,
       JobHas
<1>10. Handed' BY <1>1, <1>2 DEF IInv, Handed, Labels, Phases, Unmoved, JobHas
<1>11. Adopted' BY <1>1, <1>2 DEF IInv, Adopted, Labels, Phases, Handed, Unmoved, JobHas
<1>12. SnapKept BY <1>1, <1>2 DEF SnapKept, Unmoved, JobHas
<1> QED BY <1>2, <1>3, <1>4, <1>5, <1>6, <1>7, <1>8, <1>9, <1>10, <1>11, <1>12 DEF IInv

LEMMA RetryKeeps ==
  ASSUME IInv, Retry
  PROVE  IInv' /\ SnapKept
<1>1. job.op = "idle" /\ card.journal = None BY DEF Retry, Ready, Free
<1>2. WorldOK' /\ Unmoved /\ JobHas(job', "retry", "preflight", card.setup, None, None, card.flag)
  BY StartIs DEF IInv, Retry, Ops, Ats
<1>3. CardOK' /\ JobOK' BY <1>1, <1>2 DEF IInv, CardOK, JobOK, Unmoved, JobHas
<1>4. Labels' BY <1>1, <1>2 DEF IInv, Labels, Unmoved, JobHas
<1>5. Phases' BY <1>1, <1>2 DEF IInv, Phases, Labels, Unmoved, JobHas
<1>6. Journalled' BY <1>1, <1>2 DEF IInv, Journalled, Labels, Unmoved, JobHas
<1>7. Original' BY <1>1, <1>2 DEF IInv, Original, Labels, Journalled, Phases, Unmoved, JobHas
<1>8. GivenBack' BY <1>1, <1>2 DEF IInv, GivenBack, Labels, Phases, Unmoved, JobHas
<1>9. PutBack'
  BY <1>1, <1>2 DEF IInv, PutBack, Found, Labels, Phases, Journalled, Original, Reason, Unmoved,
       JobHas
<1>10. Handed' BY <1>1, <1>2 DEF IInv, Handed, Labels, Phases, Unmoved, JobHas
<1>11. Adopted' BY <1>1, <1>2 DEF IInv, Adopted, Labels, Phases, Handed, Unmoved, JobHas
<1>12. SnapKept BY <1>1, <1>2 DEF SnapKept, Unmoved, JobHas
<1> QED BY <1>2, <1>3, <1>4, <1>5, <1>6, <1>7, <1>8, <1>9, <1>10, <1>11, <1>12 DEF IInv

LEMMA RestoreKeeps ==
  ASSUME IInv, Restore
  PROVE  IInv' /\ SnapKept
<1>1. job.op = "idle" /\ card.snap # None BY DEF Restore, Free
<1>2. WorldOK' /\ Unmoved
     /\ \/ card.journal # None /\ JobHas(job', "restore", "undo_first", card.setup, None, None, card.flag)
        \/ JobHas(job', "restore", "give_back", card.setup, None, None, card.flag)
  BY StartIs DEF IInv, Restore, Ops, Ats
<1>3. CardOK' /\ JobOK' BY <1>1, <1>2 DEF IInv, CardOK, JobOK, Unmoved, JobHas
<1>4. Labels' BY <1>1, <1>2 DEF IInv, Labels, Unmoved, JobHas
<1>5. Phases' BY <1>1, <1>2 DEF IInv, Phases, Labels, Unmoved, JobHas
<1>6. Journalled' BY <1>1, <1>2 DEF IInv, Journalled, Labels, Unmoved, JobHas
<1>7. Original' BY <1>1, <1>2 DEF IInv, Original, Labels, Journalled, Phases, Unmoved, JobHas
<1>8. GivenBack' BY <1>1, <1>2 DEF IInv, GivenBack, Labels, Phases, Unmoved, JobHas
<1>9. PutBack'
  BY <1>1, <1>2 DEF IInv, PutBack, Found, Labels, Phases, Journalled, Original, Reason, Unmoved,
       JobHas
<1>10. Handed' BY <1>1, <1>2 DEF IInv, Handed, Labels, Phases, Unmoved, JobHas
<1>11. Adopted' BY <1>1, <1>2 DEF IInv, Adopted, Labels, Phases, Handed, Unmoved, JobHas
<1>12. SnapKept BY <1>1, <1>2 DEF SnapKept, Unmoved, JobHas
<1> QED BY <1>2, <1>3, <1>4, <1>5, <1>6, <1>7, <1>8, <1>9, <1>10, <1>11, <1>12 DEF IInv

(* The preflight of a take-over and what it writes.                        *)
LEMMA PreflightKeeps ==
  ASSUME IInv, Preflight
  PROVE  IInv' /\ SnapKept
<1>1. job.at = "preflight" BY DEF Preflight
<1>o. PICK ok : ok = [To("rule") EXCEPT !.s = Captured(job.s), !.base = IF Stale(job.s) THEN pctl ELSE None]
  OBVIOUS
<1>n. PICK q, no : /\ q = Refused(Captured(job.s)) /\ no = [To("refuse") EXCEPT !.s = q]
                   /\ \E p \in {job.s.phase, "protection"} : StateHas(q, p, Captured(job.s).hand)
                   /\ GoesOn(no, "refuse", q, job.flag)
  <2>1. Captured(job.s) \in State /\ Captured(job.s).phase = job.s.phase
    BY CapturedIs, JobFields DEF IInv
  <2>2. PICK q : /\ q = Refused(Captured(job.s))
                 /\ \E p \in {job.s.phase, "protection"} : StateHas(q, p, Captured(job.s).hand)
    BY <2>1, RefusedIs
  <2>3. GoesOn([To("refuse") EXCEPT !.s = q], "refuse", q, job.flag)
    BY <2>2, ToHas DEF IInv, Ats, StateHas
  <2> QED BY <2>2, <2>3
<1>a. CASE Lose([card EXCEPT !.accepted = FALSE], no)
  <2>1. Spares([card EXCEPT !.accepted = FALSE], card.setup, card.rule, card.flag)
    BY CardEdits DEF IInv, Spares
  <2>2. \/ Captured(job.s).hand \in {job.s.hand, None}
        \/ pctl[weekday] \in Kind /\ Captured(job.s).hand = Today(pctl[weekday])
    BY CapturedIs, JobFields DEF IInv
  <2>3. Continues(no, card.setup)
    BY <1>1, <1>n, <2>2 DEF Continues, GoesOn, JobHas, StateHas
  <2> QED BY <1>a, <2>1, <2>3, LossKeeps
<1>b. SUFFICES ASSUME ~Lose([card EXCEPT !.accepted = FALSE], no) PROVE IInv' /\ SnapKept
  BY <1>a
<1>c. \/ WorldOK' /\ Unmoved /\ job' = [To("refuse") EXCEPT !.s = Refused(job.s)]
      \/ Unreadable(job.s) /\ Go([To("refuse") EXCEPT !.s = Refused([job.s EXCEPT !.hand = None])])
      \/ Write([card EXCEPT !.accepted = TRUE], ok, no)
  <2>1. CASE Fault /\ job' = [To("refuse") EXCEPT !.s = Refused(job.s)] /\ UNCHANGED <<card, pctl, ghost>> /\ Same
    <3>1. faults' \in Nat
      BY <2>1, BoundsAssumption DEF Fault, IInv, WorldOK
    <3> QED BY <2>1, <3>1 DEF IInv, WorldOK, Same, Unmoved
  <2>2. CASE Replace([card EXCEPT !.accepted = TRUE], [card EXCEPT !.accepted = FALSE], ok, no)
    BY <1>b, <2>2 DEF Replace
  <2> QED BY <1>o, <1>n, <2>1, <2>2 DEF Preflight
<1>2. PICK s, r, b :
     /\ WorldOK' /\ pctl' = pctl /\ weekday' = weekday
     /\ ghost'.written = ghost.written /\ ghost'.touched = ghost.touched /\ ghost'.undone = ghost.undone
     /\ ghost'.kept = ghost.kept /\ ghost'.lifted = ghost.lifted /\ (ghost'.told => ghost.told)
     /\ CardHas(card', card.setup, card.snap, card.rule, card.flag, card.journal)
     /\ b \in {pctl, None}
     /\ s \in State /\ s.phase = job.s.phase /\ (s.hand # None => s.hand = Today(s.hand.kind))
     /\ s.hand # None => s.hand = job.s.hand \/ (pctl[weekday] \in Kind /\ s.hand = Today(pctl[weekday]))
     /\ \E p \in {job.s.phase, "protection"}, h \in {job.s.hand, None, s.hand} : StateHas(r, p, h)
     /\ \/ JobHas(job', job.op, "rule", s, b, job.orig, job.flag)
        \/ GoesOn(job', "refuse", r, job.flag)
  <2>1. job.s \in State /\ "refuse" \in Ats /\ "rule" \in Ats /\ pctl \in Settings
    BY JobFields DEF IInv, Ats, WorldOK
  <2>2. PICK s : /\ s = Captured(job.s) /\ s \in State /\ s.phase = job.s.phase
                 /\ (s.hand # None => s.hand = Today(s.hand.kind))
                 /\ \/ s.hand # None => s.hand = job.s.hand
                    \/ (pctl[weekday] \in Kind /\ s.hand = Today(pctl[weekday]))
    BY <2>1, CapturedIs DEF IInv
  <2>3. CardHas(card, card.setup, card.snap, card.rule, card.flag, card.journal)
    BY CardFields DEF IInv
  <2>4. CASE WorldOK' /\ Unmoved /\ job' = [To("refuse") EXCEPT !.s = Refused(job.s)]
    <3>1. PICK r : r = Refused(job.s) /\ \E p \in {job.s.phase, "protection"} : StateHas(r, p, job.s.hand)
      BY <2>1, RefusedIs
    <3>2. GoesOn(job', "refuse", r, job.flag)
      BY <2>1, <2>4, <3>1, ToHas DEF IInv, StateHas
    <3> QED BY <2>2, <2>3, <2>4, <3>1, <3>2 DEF Unmoved
  <2>5. CASE Unreadable(job.s) /\ Go([To("refuse") EXCEPT !.s = Refused([job.s EXCEPT !.hand = None])])
    <3>1. PICK n : n = [job.s EXCEPT !.hand = None] /\ StateHas(n, job.s.phase, None)
      BY <2>1, StateEdits
    <3>2. PICK r : r = Refused(n) /\ \E p \in {job.s.phase, "protection"} : StateHas(r, p, None)
      BY <3>1, RefusedIs DEF StateHas
    <3>3. PICK j : j = [To("refuse") EXCEPT !.s = r] /\ GoesOn(j, "refuse", r, job.flag)
      BY <2>1, <3>2, ToHas DEF IInv, StateHas
    <3>4. WorldOK' /\ Went(j)
      BY <2>5, <3>1, <3>2, <3>3, GoIs DEF IInv, Went, Unmoved
    <3> QED BY <2>2, <2>3, <3>2, <3>3, <3>4 DEF Went, Unmoved
  <2>6. CASE Write([card EXCEPT !.accepted = TRUE], ok, no)
    <3>1. PICK c : /\ c = [card EXCEPT !.accepted = TRUE]
                   /\ CardHas(c, card.setup, card.snap, card.rule, card.flag, card.journal)
      BY CardEdits DEF IInv
    <3>2. WorldOK' /\ Wrote(c, ok, no)
      BY <2>6, <3>1, WriteIs DEF IInv
    <3>3. CardHas(card', card.setup, card.snap, card.rule, card.flag, card.journal)
      BY <2>3, <3>1, <3>2 DEF Wrote
    <3>4. job' \in {ok, no}
      BY <3>2 DEF Wrote
    <3>5. /\ pctl' = pctl /\ weekday' = weekday
          /\ ghost'.written = ghost.written /\ ghost'.touched = ghost.touched /\ ghost'.undone = ghost.undone
          /\ ghost'.kept = ghost.kept /\ ghost'.lifted = ghost.lifted /\ (ghost'.told => ghost.told)
      BY <1>1, <3>2 DEF Wrote
    <3>6. PICK b \in {pctl, None} : b = IF Stale(job.s) THEN pctl ELSE None
      OBVIOUS
    <3>7. ok = [To("rule") EXCEPT !.s = s, !.base = b]
      BY <1>o, <2>2, <3>6
    <3>8. JobHas(ok, job.op, "rule", s, b, job.orig, job.flag)
      BY <2>1, <2>2, <3>6, <3>7, ToHas DEF IInv
    <3>9. JobHas(job', job.op, "rule", s, b, job.orig, job.flag) \/ GoesOn(job', "refuse", q, job.flag)
      BY <1>n, <3>4, <3>8
    <3> QED BY <1>n, <2>2, <3>2, <3>3, <3>5, <3>6, <3>9
  <2> QED BY <1>b, <1>c, <2>4, <2>5, <2>6
<1>3. CardOK' /\ JobOK' BY <1>1, <1>2 DEF IInv, CardOK, JobOK, CardHas, JobHas, GoesOn
<1>4. Labels' BY <1>1, <1>2 DEF IInv, Labels, StateHas, CardHas, JobHas, GoesOn
<1>5. Phases' BY <1>1, <1>2 DEF IInv, Phases, Labels, StateHas, CardHas, JobHas, GoesOn
<1>6. Journalled' BY <1>1, <1>2 DEF IInv, Journalled, Labels, StateHas, CardHas, JobHas, GoesOn
<1>7. Original'
  BY <1>1, <1>2 DEF IInv, Original, Labels, Journalled, Phases, StateHas, CardHas, JobHas, GoesOn
<1>8. GivenBack' BY <1>1, <1>2 DEF IInv, GivenBack, Labels, Phases, StateHas, CardHas, JobHas, GoesOn
<1>9. PutBack'
  BY <1>1, <1>2 DEF IInv, PutBack, Found, Labels, Phases, Journalled, Original, Reason, StateHas,
       CardHas, JobHas, GoesOn
<1>10. Handed' BY <1>1, <1>2 DEF IInv, Handed, Labels, Phases, StateHas, CardHas, JobHas, GoesOn
<1>11. Adopted' BY <1>1, <1>2 DEF IInv, Adopted, Labels, Phases, Handed, StateHas, CardHas, JobHas, GoesOn
<1>12. SnapKept BY <1>1, <1>2 DEF SnapKept, CardHas, JobHas, GoesOn
<1> QED BY <1>2, <1>3, <1>4, <1>5, <1>6, <1>7, <1>8, <1>9, <1>10, <1>11, <1>12 DEF IInv

LEMMA RefuseKeeps ==
  ASSUME IInv, Refuse
  PROVE  IInv' /\ SnapKept
<1>a. CASE Lose(NoSetup, [Idle EXCEPT !.s = job.s])
  <2>1. Continues([Idle EXCEPT !.s = job.s], Fresh)
    BY EndContinues, FreshIs, JobFields DEF IInv, StateHas
  <2> QED BY <1>a, <2>1, LostSetupKeeps
<1>b. SUFFICES ASSUME ~Lose(NoSetup, [Idle EXCEPT !.s = job.s]) PROVE IInv' /\ SnapKept
  BY <1>a
<1>1. job.at = "refuse" BY DEF Refuse
<1>2. PICK c, t, f : WorldOK' /\ Wrote(c, t, f)
        /\ CardHas(c, job.s, card.snap, card.rule, card.flag, card.journal)
        /\ JobHas(t, "idle", "none", job.s, None, None, None)
        /\ JobHas(f, "idle", "none", job.s, None, None, None)
  <2>1. /\ WorldOK'
        /\ Wrote([card EXCEPT !.setup = job.s], [Idle EXCEPT !.s = job.s], [Idle EXCEPT !.s = job.s])
    BY <1>b, WriteIs DEF IInv, Refuse, Save, SaveAnyway, Replace
  <2>2. CardHas([card EXCEPT !.setup = job.s], job.s, card.snap, card.rule, card.flag, card.journal)
    BY CardEdits, CardFields, JobFields DEF IInv, Flag, Reason, StateHas
  <2>3. JobHas([Idle EXCEPT !.s = job.s], "idle", "none", job.s, None, None, None)
    BY JobFields, ToHas, FailsHas, IdleHas, FreshIs DEF IInv, Ats, Flag, Reason, StateHas
  <2> QED BY <2>1, <2>2, <2>3
<1>3. CardOK' /\ JobOK' BY <1>1, <1>2 DEF IInv, CardOK, JobOK, Wrote, CardHas, JobHas
<1>4. Labels' BY <1>1, <1>2 DEF IInv, Labels, Wrote, CardHas, JobHas
<1>5. Phases' BY <1>1, <1>2 DEF IInv, Phases, Labels, Wrote, CardHas, JobHas
<1>6. Journalled' BY <1>1, <1>2 DEF IInv, Journalled, Labels, Wrote, CardHas, JobHas
<1>7. Original' BY <1>1, <1>2 DEF IInv, Original, Labels, Journalled, Phases, Wrote, CardHas, JobHas
<1>8. GivenBack' BY <1>1, <1>2 DEF IInv, GivenBack, Labels, Phases, Wrote, CardHas, JobHas
<1>9. PutBack'
  BY <1>1, <1>2 DEF IInv, PutBack, Found, Labels, Phases, Journalled, Original, Reason, Wrote,
       CardHas, JobHas
<1>10. Handed' BY <1>1, <1>2 DEF IInv, Handed, Labels, Phases, Wrote, CardHas, JobHas
<1>11. Adopted' BY <1>1, <1>2 DEF IInv, Adopted, Labels, Phases, Handed, Wrote, CardHas, JobHas
<1>12. SnapKept BY <1>1, <1>2 DEF SnapKept, Wrote, CardHas, JobHas
<1> QED BY <1>2, <1>3, <1>4, <1>5, <1>6, <1>7, <1>8, <1>9, <1>10, <1>11, <1>12 DEF IInv

LEMMA PersistRuleKeeps ==
  ASSUME IInv, PersistRule
  PROVE  IInv' /\ SnapKept
<1>1. job.s \in State /\ job.s.hand \in Dated
  BY JobFields, StateFields DEF IInv
<1>2. PICK r : r = (IF job.op = "complete" THEN In("protection", job.s) ELSE job.s) /\ \E p \in {job.s.phase, "protection"} : StateHas(r, p, job.s.hand)
  <2>1. /\ StateHas(In("protection", job.s), "protection", job.s.hand)
        /\ StateHas(job.s, job.s.phase, job.s.hand)
    BY <1>1, StateEdits DEF StateHas, Phase
  <2> QED BY <2>1
<1>3. PICK t, f : /\ t = To("pending") /\ GoesOn(t, "pending", job.s, job.flag)
                  /\ f = [To("refuse") EXCEPT !.s = r] /\ GoesOn(f, "refuse", r, job.flag)
  BY <1>1, <1>2, ToHas DEF IInv, Ats, StateHas
<1>4. PICK c : /\ c = [card EXCEPT !.rule = job.s.hand]
               /\ CardHas(c, card.setup, card.snap, job.s.hand, card.flag, card.journal)
  BY <1>1, CardEdits DEF IInv
<1>5. job.at = "rule" BY DEF PersistRule
<1>c. f = [To("refuse") EXCEPT !.s = IF job.op = "complete" THEN In("protection", @) ELSE @]
  BY <1>3, <1>2 DEF To
<1>a. CASE Lose(NoRules, f)
  <2>1. Continues(f, card.setup)
    BY <1>2, <1>3, <1>5 DEF Continues, GoesOn, JobHas, StateHas
  <2> QED BY <1>a, <2>1, LostRulesKeeps
<1>b. SUFFICES ASSUME ~Lose(NoRules, f) PROVE IInv' /\ SnapKept
  BY <1>a
<1>6. /\ WorldOK'
     /\ \/ job.s.hand = None /\ Went(t)
        \/ job.s.hand # None /\ Wrote(c, t, f)
  <2>2. CASE job.s.hand = None
    <3>1. Go(t)
      BY <1>3, <2>2 DEF PersistRule
    <3> QED BY <2>2, <3>1, GoIs DEF IInv, Went, Unmoved
  <2>3. CASE job.s.hand # None
    <3>1. Write(c, t, f)
      BY <1>b, <1>c, <1>3, <1>4, <2>3 DEF PersistRule, Replace
    <3> QED BY <2>3, <3>1, WriteIs DEF IInv
  <2> QED BY <2>2, <2>3
<1>7. /\ job.s \in State
      /\ job.s.hand \in Dated
      /\ (\E p \in {job.s.phase, "protection"} : StateHas(r, p, job.s.hand))
      /\ GoesOn(t, "pending", job.s, job.flag)
      /\ GoesOn(f, "refuse", r, job.flag)
      /\ CardHas(c, card.setup, card.snap, job.s.hand, card.flag, card.journal)
  BY <1>1, <1>2, <1>3, <1>4, <1>5
<1>8. CardOK' /\ JobOK'
  BY <1>5, <1>6, <1>7 DEF IInv, CardOK, JobOK, Wrote, Went, CardHas, JobHas, GoesOn, Unmoved
<1>9. Labels' BY <1>5, <1>6, <1>7 DEF IInv, Labels, StateHas, Wrote, Went, CardHas, JobHas, GoesOn, Unmoved
<1>10. Phases'
  BY <1>5, <1>6, <1>7 DEF IInv, Phases, Labels, StateHas, Wrote, Went, CardHas, JobHas, GoesOn, Unmoved
<1>11. Journalled'
  BY <1>5, <1>6, <1>7 DEF IInv, Journalled, Labels, StateHas, Wrote, Went, CardHas, JobHas, GoesOn,
       Unmoved
<1>12. Original'
  BY <1>5, <1>6, <1>7 DEF IInv, Original, Labels, Journalled, Phases, StateHas, Wrote, Went,
       CardHas, JobHas, GoesOn, Unmoved
<1>13. GivenBack'
  BY <1>5, <1>6, <1>7 DEF IInv, GivenBack, Labels, Phases, StateHas, Wrote, Went, CardHas, JobHas,
       GoesOn,
       Unmoved
<1>14. PutBack'
  BY <1>5, <1>6, <1>7 DEF IInv, PutBack, Found, Labels, Phases, Journalled, Original, Reason,
       StateHas, Wrote, Went, CardHas, JobHas, GoesOn, Unmoved
<1>15. Handed'
  BY <1>5, <1>6, <1>7 DEF IInv, Handed, Labels, Phases, StateHas, Wrote, Went, CardHas, JobHas, GoesOn,
       Unmoved
<1>16. Adopted'
  BY <1>5, <1>6, <1>7 DEF IInv, Adopted, Labels, Phases, Handed, StateHas, Wrote, Went, CardHas,
       JobHas, GoesOn, Unmoved
<1>17. SnapKept BY <1>5, <1>6, <1>7 DEF SnapKept, Wrote, Went, CardHas, JobHas, GoesOn, Unmoved
<1> QED BY <1>6, <1>8, <1>9, <1>10, <1>11, <1>12, <1>13, <1>14, <1>15, <1>16, <1>17 DEF IInv

LEMMA SavePendingKeeps ==
  ASSUME IInv, SavePending
  PROVE  IInv' /\ SnapKept
<1>a. CASE Lose(NoSetup, Idle)
  <2>1. Continues(Idle, Fresh)
    BY EndContinues, FreshIs, JobFields DEF IInv, StateHas
  <2> QED BY <1>a, <2>1, LostSetupKeeps
<1>b. SUFFICES ASSUME ~Lose(NoSetup, Idle) PROVE IInv' /\ SnapKept
  BY <1>a
<1>1. PICK s : /\ s = In("pending", IF job.op = "retry" THEN Settled(job.s) ELSE job.s)
               /\ StateHas(s, "pending", job.s.hand)
  <2>1. StateHas(Settled(job.s), job.s.phase, job.s.hand) /\ job.s \in State
    BY StateEdits, JobFields DEF IInv, Phase
  <2>2. PICK u \in State : /\ u = (IF job.op = "retry" THEN Settled(job.s) ELSE job.s)
                           /\ u.hand = job.s.hand
    BY <2>1 DEF StateHas
  <2>3. StateHas(In("pending", u), "pending", u.hand)
    BY StateEdits DEF Phase
  <2> QED BY <2>2, <2>3
<1>2. PICK l \in {"direct", "snapshot"} : /\ l = (IF s.hand # None THEN "direct" ELSE "snapshot")
                                          /\ (l = "direct" <=> s.hand # None)
  OBVIOUS
<1>3. PICK t, f : t = [To(l) EXCEPT !.s = s] /\ GoesOn(t, l, s, job.flag)
                  /\ f = Idle /\ Ends(f)
  BY <1>1, ToHas, IdleHas DEF IInv, Ats, StateHas
<1>4. PICK c : /\ c = [card EXCEPT !.setup = s]
               /\ CardHas(c, s, card.snap, card.rule, card.flag, card.journal)
  BY <1>1, CardEdits DEF IInv, StateHas
<1>5. job.at = "pending" BY DEF SavePending
<1>6. WorldOK' /\ Wrote(c, t, f)
  <2>1. Write(c, t, f)
    BY <1>b, <1>1, <1>2, <1>3, <1>4 DEF SavePending, Save, Replace
  <2> QED BY <2>1, WriteIs DEF IInv
<1>7. /\ StateHas(s, "pending", job.s.hand)
      /\ l \in {"direct", "snapshot"}
      /\ (l = "direct" <=> s.hand # None)
      /\ GoesOn(t, l, s, job.flag)
      /\ Ends(f)
      /\ CardHas(c, s, card.snap, card.rule, card.flag, card.journal)
  BY <1>1, <1>2, <1>3, <1>4, <1>5
<1>8. CardOK' /\ JobOK' BY <1>5, <1>6, <1>7 DEF IInv, CardOK, JobOK, Wrote, CardHas, JobHas, GoesOn, Ends
<1>9. Labels' BY <1>5, <1>6, <1>7 DEF IInv, Labels, StateHas, Wrote, CardHas, JobHas, GoesOn, Ends
<1>10. Phases' BY <1>5, <1>6, <1>7 DEF IInv, Phases, Labels, StateHas, Wrote, CardHas, JobHas, GoesOn, Ends
<1>11. Journalled' BY <1>5, <1>6, <1>7 DEF IInv, Journalled, Labels, StateHas, Wrote, CardHas, JobHas, GoesOn, Ends
<1>12. Original'
  BY <1>5, <1>6, <1>7 DEF IInv, Original, Labels, Journalled, Phases, StateHas, Wrote, CardHas,
       JobHas, GoesOn, Ends
<1>13. GivenBack'
  BY <1>5, <1>6, <1>7 DEF IInv, GivenBack, Labels, Phases, StateHas, Wrote, CardHas, JobHas, GoesOn, Ends
<1>14. PutBack'
  BY <1>5, <1>6, <1>7 DEF IInv, PutBack, Found, Labels, Phases, Journalled, Original, Reason,
       StateHas, Wrote, CardHas, JobHas, GoesOn, Ends
<1>15. Handed'
  BY <1>5, <1>6, <1>7 DEF IInv, Handed, Labels, Phases, StateHas, Wrote, CardHas, JobHas, GoesOn, Ends
<1>16. Adopted'
  BY <1>5, <1>6, <1>7 DEF IInv, Adopted, Labels, Phases, Handed, StateHas, Wrote, CardHas, JobHas,
       GoesOn, Ends
<1>17. SnapKept BY <1>5, <1>6, <1>7 DEF SnapKept, Wrote, CardHas, JobHas, GoesOn, Ends
<1> QED BY <1>6, <1>8, <1>9, <1>10, <1>11, <1>12, <1>13, <1>14, <1>15, <1>16, <1>17 DEF IInv

(* The direct take-over.                                                   *)
LEMMA DirectKeeps ==
  ASSUME IInv, Direct
  PROVE  IInv' /\ SnapKept
<1>1. PICK s : s = [job.s EXCEPT !.offered = TRUE] /\ StateHas(s, job.s.phase, job.s.hand)
  BY StateEdits, JobFields DEF IInv
<1>2. PICK t, f : /\ t = [To("adopt") EXCEPT !.s.offered = TRUE] /\ GoesOn(t, "adopt", s, job.flag)
                  /\ f = Idle /\ Ends(f)
  BY <1>1, OfferedHas, IdleHas DEF IInv, Ats
<1>3. job.at = "direct" BY DEF Direct
<1>4. PICK c :
     /\ WorldOK'
     /\ \/ Went(f)
        \/ card.snap # None /\ Went(t)
        \/ card.snap = None /\ Wrote(c, t, f) /\ CardHas(c, card.setup, pctl, card.rule, card.flag, card.journal)
  <2>1. CASE card.snap # None
    <3>1. Go(t) \/ Go(f)
      BY <1>2, <2>1 DEF Direct
    <3> QED BY <2>1, <3>1, GoIs DEF IInv, Went, Unmoved
  <2>2. CASE card.snap = None
    <3>1. pctl \in Natives
      BY <2>2 DEF IInv, Original
    <3>2. PICK c : /\ c = [card EXCEPT !.snap = pctl]
                   /\ CardHas(c, card.setup, pctl, card.rule, card.flag, card.journal)
      BY <3>1, CardEdits DEF IInv
    <3>3. Write(c, t, f)
      BY <1>2, <2>2, <3>2 DEF Direct, Snapshot
    <3> QED BY <2>2, <3>2, <3>3, WriteIs DEF IInv
  <2> QED BY <2>1, <2>2
<1>5. /\ StateHas(s, job.s.phase, job.s.hand)
      /\ GoesOn(t, "adopt", s, job.flag)
      /\ Ends(f)
  BY <1>1, <1>2, <1>3
<1>6. CardOK' /\ JobOK'
  BY <1>3, <1>4, <1>5 DEF IInv, CardOK, JobOK, Wrote, Went, CardHas, JobHas, GoesOn, Ends, Unmoved
<1>7. Labels' BY <1>3, <1>4, <1>5 DEF IInv, Labels, StateHas, Wrote, Went, CardHas, JobHas, GoesOn, Ends, Unmoved
<1>8. Phases'
  BY <1>3, <1>4, <1>5 DEF IInv, Phases, Labels, StateHas, Wrote, Went, CardHas, JobHas, GoesOn,
       Ends, Unmoved
<1>9. Journalled'
  BY <1>3, <1>4, <1>5 DEF IInv, Journalled, Labels, StateHas, Wrote, Went, CardHas, JobHas, GoesOn,
       Ends, Unmoved
<1>10. Original'
  BY <1>3, <1>4, <1>5 DEF IInv, Original, Labels, Journalled, Phases, StateHas, Wrote, Went,
       CardHas, JobHas, GoesOn, Ends, Unmoved
<1>11. GivenBack'
  BY <1>3, <1>4, <1>5 DEF IInv, GivenBack, Labels, Phases, StateHas, Wrote, Went, CardHas, JobHas,
       GoesOn, Ends,
       Unmoved
<1>12. PutBack'
  BY <1>3, <1>4, <1>5 DEF IInv, PutBack, Found, Labels, Phases, Journalled, Original, Reason,
       StateHas, Wrote, Went, CardHas, JobHas, GoesOn, Ends, Unmoved
<1>13. Handed'
  BY <1>3, <1>4, <1>5 DEF IInv, Handed, Labels, Phases, StateHas, Wrote, Went, CardHas, JobHas,
       GoesOn, Ends,
       Unmoved
<1>14. Adopted'
  BY <1>3, <1>4, <1>5 DEF IInv, Adopted, Labels, Phases, Handed, StateHas, Wrote, Went, CardHas,
       JobHas, GoesOn, Ends, Unmoved
<1>15. SnapKept BY <1>3, <1>4, <1>5 DEF SnapKept, Wrote, Went, CardHas, JobHas, GoesOn, Ends, Unmoved
<1> QED BY <1>4, <1>6, <1>7, <1>8, <1>9, <1>10, <1>11, <1>12, <1>13, <1>14, <1>15 DEF IInv

LEMMA AdoptKeeps ==
  ASSUME IInv, Adopt
  PROVE  IInv' /\ SnapKept
<1>1. PICK s : s = [Settled(In("active", job.s)) EXCEPT !.hand = None] /\ StateHas(s, "active", None)
  <2>1. StateHas(In("active", job.s), "active", job.s.hand)
    BY StateEdits, JobFields DEF IInv, Phase
  <2>2. StateHas(Settled(In("active", job.s)), "active", job.s.hand)
    BY <2>1, StateEdits DEF StateHas
  <2>3. PICK u \in State : u = Settled(In("active", job.s)) /\ u.phase = "active"
    BY <2>2 DEF StateHas
  <2>4. StateHas([u EXCEPT !.hand = None], u.phase, None)
    BY StateEdits
  <2> QED BY <2>3, <2>4
<1>2. job.s.hand.kind \in Kind
  BY JobFields, StateFields DEF IInv, Handed, Adopt, Dated, Rule
<1>3. PICK t, f : /\ t = [To("unflag") EXCEPT !.s = s] /\ GoesOn(t, "unflag", s, job.flag)
                  /\ f = Idle /\ Ends(f)
  BY <1>1, ToHas, IdleHas DEF IInv, Ats, StateHas
<1>4. PICK c : /\ c = [card EXCEPT !.setup = s]
               /\ CardHas(c, s, card.snap, card.rule, card.flag, card.journal)
  BY <1>1, CardEdits DEF IInv, StateHas
<1>5. job.at = "adopt" BY DEF Adopt
<1>a. CASE Lose(NoSetup, f)
  <2>1. Continues(f, Fresh)
    BY <1>3, EndContinues, FreshIs DEF StateHas
  <2> QED BY <1>a, <2>1, LostSetupKeeps
<1>b. SUFFICES ASSUME ~Lose(NoSetup, f) PROVE IInv' /\ SnapKept
  BY <1>a
<1>6. /\ WorldOK' /\ pctl' = pctl /\ weekday' = weekday
     /\ \/ card' = card /\ job' = f /\ ghost' = ghost
        \/ /\ pctl[weekday] = job.s.hand.kind /\ card' = c /\ job' = t
           /\ KeptAs(pctl[weekday])
  <2>1. CASE pctl[weekday] # job.s.hand.kind
    <3>1. Go(f)
      BY <1>3, <2>1 DEF Adopt
    <3> QED BY <3>1, GoIs DEF IInv
  <2>2. CASE pctl[weekday] = job.s.hand.kind
    <3>1. /\ pctl' = pctl /\ Same
          /\ \/ card' = c /\ job' = t /\ ghost' = [ghost EXCEPT !.kept = pctl[weekday]] /\ faults' = faults
             \/ Fault /\ job' = f /\ card' = card /\ ghost' = ghost
      BY <1>b, <1>1, <1>3, <1>4, <2>2 DEF Adopt
    <3>2. faults' \in Nat
      BY <3>1, BoundsAssumption DEF IInv, Fault, WorldOK
    <3>3. ghost' = [ghost EXCEPT !.kept = pctl[weekday]] => ghost' \in GhostSet /\ KeptAs(pctl[weekday])
      BY KeptIs, SlotIs DEF IInv
    <3>4. WorldOK'
      BY <3>1, <3>2, <3>3 DEF IInv, WorldOK, Same
    <3> QED BY <2>2, <3>1, <3>3, <3>4 DEF Same
  <2> QED BY <2>1, <2>2
<1>7. /\ StateHas(s, "active", None)
      /\ job.s.hand.kind \in Kind
      /\ GoesOn(t, "unflag", s, job.flag)
      /\ Ends(f)
      /\ CardHas(c, s, card.snap, card.rule, card.flag, card.journal)
  BY <1>1, <1>2, <1>3, <1>4, <1>5
<1>8. CardOK' /\ JobOK' BY <1>5, <1>6, <1>7 DEF IInv, CardOK, JobOK, CardHas, JobHas, GoesOn, Ends
<1>9. Labels' BY <1>5, <1>6, <1>7 DEF IInv, Labels, StateHas, KeptAs, CardHas, JobHas, GoesOn, Ends
<1>10. Phases' BY <1>5, <1>6, <1>7 DEF IInv, Phases, Labels, StateHas, KeptAs, CardHas, JobHas, GoesOn, Ends
<1>11. Journalled'
  BY <1>5, <1>6, <1>7 DEF IInv, Journalled, Labels, StateHas, KeptAs, CardHas, JobHas, GoesOn, Ends
<1>12. Original'
  BY <1>5, <1>6, <1>7 DEF IInv, Original, Labels, Journalled, Phases, StateHas, KeptAs, CardHas,
       JobHas, GoesOn, Ends
<1>13. GivenBack'
  BY <1>5, <1>6, <1>7 DEF IInv, GivenBack, Labels, Phases, StateHas, KeptAs, CardHas, JobHas,
       GoesOn, Ends
<1>14. PutBack'
  BY <1>5, <1>6, <1>7 DEF IInv, PutBack, Found, Labels, Phases, Journalled, Original, Reason,
       StateHas, KeptAs, CardHas, JobHas, GoesOn, Ends
<1>15. Handed'
  BY <1>5, <1>6, <1>7 DEF IInv, Handed, Labels, Phases, StateHas, KeptAs, CardHas, JobHas, GoesOn, Ends
<1>16. Adopted'
  BY <1>5, <1>6, <1>7 DEF IInv, Adopted, Labels, Phases, Handed, StateHas, KeptAs, CardHas, JobHas,
       GoesOn, Ends
<1>17. SnapKept BY <1>5, <1>6, <1>7 DEF SnapKept, KeptAs, CardHas, JobHas, GoesOn, Ends
<1> QED BY <1>6, <1>8, <1>9, <1>10, <1>11, <1>12, <1>13, <1>14, <1>15, <1>16, <1>17 DEF IInv

LEMMA UnflagKeeps ==
  ASSUME IInv, Unflag
  PROVE  IInv' /\ SnapKept
<1>1. PICK t : t = Idle /\ Ends(t)
  BY IdleHas
<1>2. PICK c : /\ c = [card EXCEPT !.flag = None]
               /\ CardHas(c, card.setup, card.snap, card.rule, None, card.journal)
  BY CardEdits DEF IInv, Flag
<1>3. job.at = "unflag" BY DEF Unflag
<1>4. WorldOK' /\ (Went(t) \/ Wrote(c, t, t))
  <2>1. Go(t) \/ Write(c, t, t)
    BY <1>1, <1>2 DEF Unflag
  <2> QED BY <2>1, GoIs, WriteIs DEF IInv, Went, Unmoved
<1>5. /\ Ends(t)
      /\ CardHas(c, card.setup, card.snap, card.rule, None, card.journal)
  BY <1>1, <1>2, <1>3
<1>6. CardOK' /\ JobOK'
  BY <1>3, <1>4, <1>5 DEF IInv, CardOK, JobOK, Wrote, Went, CardHas, JobHas, Ends, Unmoved
<1>7. Labels' BY <1>3, <1>4, <1>5 DEF IInv, Labels, StateHas, Wrote, Went, CardHas, JobHas, Ends, Unmoved
<1>8. Phases'
  BY <1>3, <1>4, <1>5 DEF IInv, Phases, Labels, StateHas, Wrote, Went, CardHas, JobHas, Ends, Unmoved
<1>9. Journalled'
  BY <1>3, <1>4, <1>5 DEF IInv, Journalled, Labels, StateHas, Wrote, Went, CardHas, JobHas, Ends, Unmoved
<1>10. Original'
  BY <1>3, <1>4, <1>5 DEF IInv, Original, Labels, Journalled, Phases, StateHas, Wrote, Went,
       CardHas, JobHas, Ends, Unmoved
<1>11. GivenBack'
  BY <1>3, <1>4, <1>5 DEF IInv, GivenBack, Labels, Phases, StateHas, Wrote, Went, CardHas, JobHas, Ends,
       Unmoved
<1>12. PutBack'
  BY <1>3, <1>4, <1>5 DEF IInv, PutBack, Found, Labels, Phases, Journalled, Original, Reason,
       StateHas, Wrote, Went, CardHas, JobHas, Ends, Unmoved
<1>13. Handed'
  BY <1>3, <1>4, <1>5 DEF IInv, Handed, Labels, Phases, StateHas, Wrote, Went, CardHas, JobHas, Ends,
       Unmoved
<1>14. Adopted'
  BY <1>3, <1>4, <1>5 DEF IInv, Adopted, Labels, Phases, Handed, StateHas, Wrote, Went, CardHas,
       JobHas, Ends, Unmoved
<1>15. SnapKept BY <1>3, <1>4, <1>5 DEF SnapKept, Wrote, Went, CardHas, JobHas, Ends, Unmoved
<1> QED BY <1>4, <1>6, <1>7, <1>8, <1>9, <1>10, <1>11, <1>12, <1>13, <1>14, <1>15 DEF IInv

(* The release, and its failure.                                           *)
LEMMA TakeSnapshotKeeps ==
  ASSUME IInv, TakeSnapshot
  PROVE  IInv' /\ SnapKept
<1>1. PICK s : s = [job.s EXCEPT !.offered = TRUE] /\ StateHas(s, job.s.phase, job.s.hand)
  BY StateEdits, JobFields DEF IInv
<1>2. PICK r : r = [Failure(job.s) EXCEPT !.offered = FALSE] /\ StateHas(r, "failed", job.s.hand)
  <2>1. PICK u \in State : u = Failure(job.s) /\ u.phase = "failed" /\ u.hand = job.s.hand
    BY FailureIs, JobFields DEF IInv, StateHas
  <2>2. StateHas([u EXCEPT !.offered = FALSE], u.phase, u.hand)
    BY StateEdits
  <2> QED BY <2>1, <2>2
<1>3. PICK l \in {"released", "lift"} : l = IF pctl[weekday] = "free" THEN "released" ELSE "lift"
  OBVIOUS
<1>4. PICK o \in Settings : /\ o = IF job.base # None THEN job.base ELSE Snapshot(pctl)
                            /\ o \in {pctl, card.snap}
  <2>1. job.base \in {pctl, None}
    BY DEF TakeSnapshot, IInv, PutBack
  <2>2. pctl \in Settings /\ (card.snap # None => card.snap \in Settings)
    BY CardFields, NativesAssumption DEF IInv, WorldOK
  <2> QED BY <2>1, <2>2 DEF Snapshot
<1>5. PICK t, f : /\ t = [To(l) EXCEPT !.s.offered = TRUE, !.orig = o] /\ JobHas(t, job.op, l, s, job.base, o, job.flag)
                  /\ f = Fails(r, "other", "failed") /\ GoesOn(f, "failed", r, "other")
  BY <1>1, <1>2, <1>3, <1>4, OfferedHas, FailsHas DEF IInv, Ats, Reason, StateHas
<1>6. job.at = "snapshot" BY DEF TakeSnapshot
<1>7. PICK c :
     /\ WorldOK'
     /\ \/ card.snap # None /\ Went(t)
        \/ card.snap = None /\ Wrote(c, t, f) /\ CardHas(c, card.setup, pctl, card.rule, card.flag, card.journal)
  <2>1. CASE card.snap # None
    <3>1. Go(t)
      BY <1>5, <1>3, <1>4, <2>1 DEF TakeSnapshot, Snapshot
    <3> QED BY <2>1, <3>1, GoIs DEF IInv, Went, Unmoved
  <2>2. CASE card.snap = None
    <3>1. pctl \in Natives /\ pctl # None
      BY <2>2, NativesAssumption DEF IInv, Original
    <3>2. PICK c : /\ c = [card EXCEPT !.snap = pctl]
                   /\ CardHas(c, card.setup, pctl, card.rule, card.flag, card.journal)
      BY <3>1, CardEdits DEF IInv
    <3>3. Write(c, t, f)
      BY <1>5, <1>2, <1>3, <1>4, <2>2, <3>1, <3>2 DEF TakeSnapshot, Snapshot
    <3> QED BY <2>2, <3>2, <3>3, WriteIs DEF IInv
  <2> QED BY <2>1, <2>2
<1>8. /\ StateHas(s, job.s.phase, job.s.hand)
      /\ StateHas(r, "failed", job.s.hand)
      /\ l \in {"released", "lift"}
      /\ o \in Settings
      /\ o \in {pctl, card.snap}
      /\ JobHas(t, job.op, l, s, job.base, o, job.flag)
      /\ GoesOn(f, "failed", r, "other")
  BY <1>1, <1>2, <1>3, <1>4, <1>5, <1>6
<1>9. CardOK' /\ JobOK'
  BY <1>6, <1>7, <1>8 DEF IInv, CardOK, JobOK, Wrote, Went, CardHas, JobHas, GoesOn, Unmoved
<1>10. Labels' BY <1>6, <1>7, <1>8 DEF IInv, Labels, StateHas, Wrote, Went, CardHas, JobHas, GoesOn, Unmoved
<1>11. Phases'
  BY <1>6, <1>7, <1>8 DEF IInv, Phases, Labels, StateHas, Wrote, Went, CardHas, JobHas, GoesOn, Unmoved
<1>12. Journalled'
  BY <1>6, <1>7, <1>8 DEF IInv, Journalled, Labels, StateHas, Wrote, Went, CardHas, JobHas, GoesOn,
       Unmoved
<1>13. Original'
  BY <1>6, <1>7, <1>8 DEF IInv, Original, Labels, Journalled, Phases, StateHas, Wrote, Went,
       CardHas, JobHas, GoesOn, Unmoved
<1>14. GivenBack'
  BY <1>6, <1>7, <1>8 DEF IInv, GivenBack, Labels, Phases, StateHas, Wrote, Went, CardHas, JobHas,
       GoesOn,
       Unmoved
<1>15. PutBack'
  BY <1>6, <1>7, <1>8 DEF IInv, PutBack, Found, Labels, Phases, Journalled, Original, Reason,
       StateHas, Wrote, Went, CardHas, JobHas, GoesOn, Unmoved
<1>16. Handed'
  BY <1>6, <1>7, <1>8 DEF IInv, Handed, Labels, Phases, StateHas, Wrote, Went, CardHas, JobHas, GoesOn,
       Unmoved
<1>17. Adopted'
  BY <1>6, <1>7, <1>8 DEF IInv, Adopted, Labels, Phases, Handed, StateHas, Wrote, Went, CardHas,
       JobHas, GoesOn, Unmoved
<1>18. SnapKept BY <1>6, <1>7, <1>8 DEF SnapKept, Wrote, Went, CardHas, JobHas, GoesOn, Unmoved
<1> QED BY <1>7, <1>9, <1>10, <1>11, <1>12, <1>13, <1>14, <1>15, <1>16, <1>17, <1>18 DEF IInv

LEMMA LiftKeeps ==
  ASSUME IInv, Lift
  PROVE  IInv' /\ SnapKept
<1>1. PICK p \in Settings : p = [pctl EXCEPT ![weekday] = "free"] /\ p[weekday] = "free"
  BY SlotIs DEF IInv, Slot, Kind
<1>2. PICK t, f : /\ t = To("released")
                  /\ GoesOn(t, "released", job.s, job.flag)
                  /\ f = To("undo")
                  /\ GoesOn(f, "undo", job.s, job.flag)
  BY ToHas DEF IInv, Ats
<1>3. job.at = "lift" BY DEF Lift
<1>4. WorldOK' /\ WrotePctl(p, t, f)
  BY <1>1, <1>2, WritePctlIs DEF IInv, Lift
<1>5. /\ p \in Settings
      /\ p[weekday] = "free"
      /\ GoesOn(t, "released", job.s, job.flag)
      /\ GoesOn(f, "undo", job.s, job.flag)
  BY <1>1, <1>2, <1>3
<1>6. CardOK' /\ JobOK' BY <1>3, <1>4, <1>5 DEF IInv, CardOK, JobOK, WrotePctl, JobHas, GoesOn
<1>7. Labels' BY <1>3, <1>4, <1>5 DEF IInv, Labels, WrotePctl, JobHas, GoesOn
<1>8. Phases' BY <1>3, <1>4, <1>5 DEF IInv, Phases, Labels, WrotePctl, JobHas, GoesOn
<1>9. Journalled' BY <1>3, <1>4, <1>5 DEF IInv, Journalled, Labels, WrotePctl, JobHas, GoesOn
<1>10. Original'
  BY <1>3, <1>4, <1>5 DEF IInv, Original, Labels, Journalled, Phases, WrotePctl, JobHas, GoesOn
<1>11. GivenBack' BY <1>3, <1>4, <1>5 DEF IInv, GivenBack, Labels, Phases, WrotePctl, JobHas, GoesOn
<1>12. PutBack'
  BY <1>3, <1>4, <1>5 DEF IInv, PutBack, Found, Labels, Phases, Journalled, Original, Reason,
       WrotePctl, JobHas, GoesOn
<1>13. Handed' BY <1>3, <1>4, <1>5 DEF IInv, Handed, Labels, Phases, WrotePctl, JobHas, GoesOn
<1>14. Adopted' BY <1>3, <1>4, <1>5 DEF IInv, Adopted, Labels, Phases, Handed, WrotePctl, JobHas, GoesOn
<1>15. SnapKept BY <1>3, <1>4, <1>5 DEF SnapKept, WrotePctl, JobHas, GoesOn
<1> QED BY <1>4, <1>6, <1>7, <1>8, <1>9, <1>10, <1>11, <1>12, <1>13, <1>14, <1>15 DEF IInv

LEMMA SaveReleasedKeeps ==
  ASSUME IInv, SaveReleased
  PROVE  IInv' /\ SnapKept
<1>a. CASE Lose(NoSetup, Idle)
  <2>1. Continues(Idle, Fresh)
    BY EndContinues, FreshIs, JobFields DEF IInv, StateHas
  <2> QED BY <1>a, <2>1, LostSetupKeeps
<1>b. SUFFICES ASSUME ~Lose(NoSetup, Idle) PROVE IInv' /\ SnapKept
  BY <1>a
<1>1. PICK s : s = Settled(In("released", job.s)) /\ StateHas(s, "released", job.s.hand)
  <2>1. StateHas(In("released", job.s), "released", job.s.hand)
    BY StateEdits, JobFields DEF IInv, Phase
  <2>2. StateHas(Settled(In("released", job.s)), "released", job.s.hand)
    BY <2>1, StateEdits DEF StateHas
  <2> QED BY <2>2
<1>2. job.at = "released" BY DEF SaveReleased
<1>3. PICK c, t, f : WorldOK' /\ Wrote(c, t, f)
        /\ CardHas(c, s, card.snap, card.rule, card.flag, card.journal)
        /\ (\E l \in {"grace", "unflag"} : GoesOn(t, l, s, job.flag))
        /\ Ends(f)
  <2>1. /\ WorldOK'
        /\ Wrote([card EXCEPT !.setup = s], [To(IF job.op = "complete" THEN "grace" ELSE "unflag") EXCEPT !.s = s], Idle)
    BY <1>b, <1>1, WriteIs DEF IInv, SaveReleased, Save, Replace
  <2>2. CardHas([card EXCEPT !.setup = s], s, card.snap, card.rule, card.flag, card.journal)
    BY <1>1, CardEdits, CardFields, JobFields DEF IInv, Flag, Reason, StateHas
  <2>3. /\ (\E l \in {"grace", "unflag"} : GoesOn([To(IF job.op = "complete" THEN "grace" ELSE "unflag") EXCEPT !.s = s], l, s, job.flag))
        /\ Ends(Idle)
    BY <1>1, JobFields, ToHas, FailsHas, IdleHas, FreshIs DEF IInv, Ats, Flag, Reason, StateHas
  <2> QED BY <2>1, <2>2, <2>3
<1>4. /\ StateHas(s, "released", job.s.hand)
  BY <1>1, <1>2
<1>5. CardOK' /\ JobOK' BY <1>2, <1>3, <1>4 DEF IInv, CardOK, JobOK, Wrote, CardHas, JobHas, GoesOn, Ends
<1>6. Labels' BY <1>2, <1>3, <1>4 DEF IInv, Labels, StateHas, Wrote, CardHas, JobHas, GoesOn, Ends
<1>7. Phases' BY <1>2, <1>3, <1>4 DEF IInv, Phases, Labels, StateHas, Wrote, CardHas, JobHas, GoesOn, Ends
<1>8. Journalled' BY <1>2, <1>3, <1>4 DEF IInv, Journalled, Labels, StateHas, Wrote, CardHas, JobHas, GoesOn, Ends
<1>9. Original'
  BY <1>2, <1>3, <1>4 DEF IInv, Original, Labels, Journalled, Phases, StateHas, Wrote, CardHas,
       JobHas, GoesOn, Ends
<1>10. GivenBack'
  BY <1>2, <1>3, <1>4 DEF IInv, GivenBack, Labels, Phases, StateHas, Wrote, CardHas, JobHas, GoesOn, Ends
<1>11. PutBack'
  BY <1>2, <1>3, <1>4 DEF IInv, PutBack, Found, Labels, Phases, Journalled, Original, Reason,
       StateHas, Wrote, CardHas, JobHas, GoesOn, Ends
<1>12. Handed'
  BY <1>2, <1>3, <1>4 DEF IInv, Handed, Labels, Phases, StateHas, Wrote, CardHas, JobHas, GoesOn, Ends
<1>13. Adopted'
  BY <1>2, <1>3, <1>4 DEF IInv, Adopted, Labels, Phases, Handed, StateHas, Wrote, CardHas, JobHas,
       GoesOn, Ends
<1>14. SnapKept BY <1>2, <1>3, <1>4 DEF SnapKept, Wrote, CardHas, JobHas, GoesOn, Ends
<1> QED BY <1>3, <1>5, <1>6, <1>7, <1>8, <1>9, <1>10, <1>11, <1>12, <1>13, <1>14 DEF IInv

LEMMA UndoKeeps ==
  ASSUME IInv, Undo
  PROVE  IInv' /\ SnapKept
<1>1. PICK s : s = Failure(job.s) /\ StateHas(s, "failed", job.s.hand)
  BY FailureIs, JobFields DEF IInv
<1>2. PICK t, f : /\ t = Fails(s, "release_failed", "failed") /\ GoesOn(t, "failed", s, "release_failed")
                  /\ f = Fails(s, "other", "failed") /\ GoesOn(f, "failed", s, "other")
  BY <1>1, FailsHas DEF IInv, Ats, Reason, StateHas
<1>3. job.at = "undo" /\ job.orig \in Settings BY DEF Undo, IInv, PutBack, JobOK, JobSet
<1>4. WorldOK' /\ WrotePctl(job.orig, t, f)
  BY <1>1, <1>2, <1>3, WritePctlIs DEF IInv, Undo
<1>5. /\ StateHas(s, "failed", job.s.hand)
      /\ GoesOn(t, "failed", s, "release_failed")
      /\ GoesOn(f, "failed", s, "other")
  BY <1>1, <1>2, <1>3
<1>6. CardOK' /\ JobOK' BY <1>3, <1>4, <1>5 DEF IInv, CardOK, JobOK, WrotePctl, JobHas, GoesOn
<1>7. Labels' BY <1>3, <1>4, <1>5 DEF IInv, Labels, StateHas, WrotePctl, JobHas, GoesOn
<1>8. Phases' BY <1>3, <1>4, <1>5 DEF IInv, Phases, Labels, StateHas, WrotePctl, JobHas, GoesOn
<1>9. Journalled' BY <1>3, <1>4, <1>5 DEF IInv, Journalled, Labels, StateHas, WrotePctl, JobHas, GoesOn
<1>10. Original'
  BY <1>3, <1>4, <1>5 DEF IInv, Original, Labels, Journalled, Phases, StateHas, WrotePctl, JobHas, GoesOn
<1>11. GivenBack'
  BY <1>3, <1>4, <1>5 DEF IInv, GivenBack, Labels, Phases, StateHas, WrotePctl, JobHas, GoesOn
<1>12. PutBack'
  BY <1>3, <1>4, <1>5 DEF IInv, PutBack, Found, Labels, Phases, Journalled, Original, Reason,
       StateHas, WrotePctl, JobHas, GoesOn
<1>13. Handed' BY <1>3, <1>4, <1>5 DEF IInv, Handed, Labels, Phases, StateHas, WrotePctl, JobHas, GoesOn
<1>14. Adopted'
  BY <1>3, <1>4, <1>5 DEF IInv, Adopted, Labels, Phases, Handed, StateHas, WrotePctl, JobHas, GoesOn
<1>15. SnapKept BY <1>3, <1>4, <1>5 DEF SnapKept, WrotePctl, JobHas, GoesOn
<1> QED BY <1>4, <1>6, <1>7, <1>8, <1>9, <1>10, <1>11, <1>12, <1>13, <1>14, <1>15 DEF IInv

LEMMA SaveGraceKeeps ==
  ASSUME IInv, SaveGrace
  PROVE  IInv' /\ SnapKept
<1>a. CASE Lose(NoSetup, Idle)
  <2>1. Continues(Idle, Fresh)
    BY EndContinues, FreshIs, JobFields DEF IInv, StateHas
  <2> QED BY <1>a, <2>1, LostSetupKeeps
<1>b. SUFFICES ASSUME ~Lose(NoSetup, Idle) PROVE IInv' /\ SnapKept
  BY <1>a
<1>1. PICK s : s = [job.s EXCEPT !.grace = TRUE] /\ StateHas(s, "released", job.s.hand)
  BY StateEdits, JobFields DEF IInv, Phases, SaveGrace
<1>2. job.at = "grace" BY DEF SaveGrace
<1>3. PICK c, t, f : WorldOK' /\ Wrote(c, t, f)
        /\ CardHas(c, s, card.snap, card.rule, card.flag, card.journal)
        /\ GoesOn(t, "unflag", s, job.flag)
        /\ Ends(f)
  <2>1. WorldOK' /\ Wrote([card EXCEPT !.setup = s], [To("unflag") EXCEPT !.s = s], Idle)
    BY <1>b, <1>1, WriteIs DEF IInv, SaveGrace, Save, Replace
  <2>2. CardHas([card EXCEPT !.setup = s], s, card.snap, card.rule, card.flag, card.journal)
    BY <1>1, CardEdits, CardFields, JobFields DEF IInv, Flag, Reason, StateHas
  <2>3. GoesOn([To("unflag") EXCEPT !.s = s], "unflag", s, job.flag) /\ Ends(Idle)
    BY <1>1, JobFields, ToHas, FailsHas, IdleHas, FreshIs DEF IInv, Ats, Flag, Reason, StateHas
  <2> QED BY <2>1, <2>2, <2>3
<1>4. /\ StateHas(s, "released", job.s.hand)
  BY <1>1, <1>2
<1>5. CardOK' /\ JobOK' BY <1>2, <1>3, <1>4 DEF IInv, CardOK, JobOK, Wrote, CardHas, JobHas, GoesOn, Ends
<1>6. Labels' BY <1>2, <1>3, <1>4 DEF IInv, Labels, StateHas, Wrote, CardHas, JobHas, GoesOn, Ends
<1>7. Phases' BY <1>2, <1>3, <1>4 DEF IInv, Phases, Labels, StateHas, Wrote, CardHas, JobHas, GoesOn, Ends
<1>8. Journalled' BY <1>2, <1>3, <1>4 DEF IInv, Journalled, Labels, StateHas, Wrote, CardHas, JobHas, GoesOn, Ends
<1>9. Original'
  BY <1>2, <1>3, <1>4 DEF IInv, Original, Labels, Journalled, Phases, StateHas, Wrote, CardHas,
       JobHas, GoesOn, Ends
<1>10. GivenBack'
  BY <1>2, <1>3, <1>4 DEF IInv, GivenBack, Labels, Phases, StateHas, Wrote, CardHas, JobHas, GoesOn, Ends
<1>11. PutBack'
  BY <1>2, <1>3, <1>4 DEF IInv, PutBack, Found, Labels, Phases, Journalled, Original, Reason,
       StateHas, Wrote, CardHas, JobHas, GoesOn, Ends
<1>12. Handed'
  BY <1>2, <1>3, <1>4 DEF IInv, Handed, Labels, Phases, StateHas, Wrote, CardHas, JobHas, GoesOn, Ends
<1>13. Adopted'
  BY <1>2, <1>3, <1>4 DEF IInv, Adopted, Labels, Phases, Handed, StateHas, Wrote, CardHas, JobHas,
       GoesOn, Ends
<1>14. SnapKept BY <1>2, <1>3, <1>4 DEF SnapKept, Wrote, CardHas, JobHas, GoesOn, Ends
<1> QED BY <1>3, <1>5, <1>6, <1>7, <1>8, <1>9, <1>10, <1>11, <1>12, <1>13, <1>14 DEF IInv

LEMMA SaveFailedKeeps ==
  ASSUME IInv, SaveFailed
  PROVE  IInv' /\ SnapKept
<1>a. CASE Lose(NoSetup, [To("flag") EXCEPT !.s = job.s])
  <2>1. GoesOn([To("flag") EXCEPT !.s = job.s], "flag", job.s, job.flag)
    BY JobFields, ToHas DEF IInv, Ats
  <2>2. Continues([To("flag") EXCEPT !.s = job.s], Fresh)
    BY <2>1 DEF Continues, GoesOn, JobHas, IInv, SaveFailed
  <2> QED BY <1>a, <2>2, LostSetupKeeps
<1>b. SUFFICES ASSUME ~Lose(NoSetup, [To("flag") EXCEPT !.s = job.s]) PROVE IInv' /\ SnapKept
  BY <1>a
<1>1. job.at = "failed" BY DEF SaveFailed
<1>2. PICK c, t, f : WorldOK' /\ Wrote(c, t, f)
        /\ CardHas(c, job.s, card.snap, card.rule, card.flag, card.journal)
        /\ GoesOn(t, "flag", job.s, job.flag)
        /\ GoesOn(f, "flag", job.s, job.flag)
  <2>1. /\ WorldOK'
        /\ Wrote([card EXCEPT !.setup = job.s], [To("flag") EXCEPT !.s = job.s], [To("flag") EXCEPT !.s = job.s])
    BY <1>b, WriteIs DEF IInv, SaveFailed, Save, SaveAnyway, Replace
  <2>2. CardHas([card EXCEPT !.setup = job.s], job.s, card.snap, card.rule, card.flag, card.journal)
    BY CardEdits, CardFields, JobFields DEF IInv, Flag, Reason, StateHas
  <2>3. GoesOn([To("flag") EXCEPT !.s = job.s], "flag", job.s, job.flag)
    BY JobFields, ToHas, FailsHas, IdleHas, FreshIs DEF IInv, Ats, Flag, Reason, StateHas
  <2> QED BY <2>1, <2>2, <2>3
<1>3. CardOK' /\ JobOK' BY <1>1, <1>2 DEF IInv, CardOK, JobOK, Wrote, CardHas, JobHas, GoesOn
<1>4. Labels' BY <1>1, <1>2 DEF IInv, Labels, Wrote, CardHas, JobHas, GoesOn
<1>5. Phases' BY <1>1, <1>2 DEF IInv, Phases, Labels, Wrote, CardHas, JobHas, GoesOn
<1>6. Journalled' BY <1>1, <1>2 DEF IInv, Journalled, Labels, Wrote, CardHas, JobHas, GoesOn
<1>7. Original' BY <1>1, <1>2 DEF IInv, Original, Labels, Journalled, Phases, Wrote, CardHas, JobHas, GoesOn
<1>8. GivenBack' BY <1>1, <1>2 DEF IInv, GivenBack, Labels, Phases, Wrote, CardHas, JobHas, GoesOn
<1>9. PutBack'
  BY <1>1, <1>2 DEF IInv, PutBack, Found, Labels, Phases, Journalled, Original, Reason, Wrote,
       CardHas, JobHas, GoesOn
<1>10. Handed' BY <1>1, <1>2 DEF IInv, Handed, Labels, Phases, Wrote, CardHas, JobHas, GoesOn
<1>11. Adopted' BY <1>1, <1>2 DEF IInv, Adopted, Labels, Phases, Handed, Wrote, CardHas, JobHas, GoesOn
<1>12. SnapKept BY <1>1, <1>2 DEF SnapKept, Wrote, CardHas, JobHas, GoesOn
<1> QED BY <1>2, <1>3, <1>4, <1>5, <1>6, <1>7, <1>8, <1>9, <1>10, <1>11, <1>12 DEF IInv

LEMMA WriteFlagKeeps ==
  ASSUME IInv, WriteFlag
  PROVE  IInv' /\ SnapKept
<1>1. PICK then : /\ then = (IF job.op = "by_hand" THEN To("remove_restore")
                           ELSE IF job.op = "activate" /\ job.ok THEN To("clear") ELSE Idle)
                  /\ \/ (job.op = "by_hand" /\ GoesOn(then, "remove_restore", job.s, job.flag))
                     \/ (job.op = "activate" /\ GoesOn(then, "clear", job.s, job.flag))
                     \/ Ends(then)
  BY ToHas, IdleHas DEF IInv, Ats
<1>2. job.at = "flag" BY DEF WriteFlag
<1>a. CASE Lose([card EXCEPT !.flag = None], then)
  <2>1. Spares([card EXCEPT !.flag = None], card.setup, card.rule, None)
    BY CardEdits DEF IInv, Spares, Flag
  <2>2. Continues(then, card.setup)
    BY <1>1, <1>2 DEF Continues, Ends, GoesOn, JobHas
  <2> QED BY <1>a, <2>1, <2>2, LossKeeps
<1>b. SUFFICES ASSUME ~Lose([card EXCEPT !.flag = None], then) PROVE IInv' /\ SnapKept
  BY <1>a
<1>3. PICK c, t, f : WorldOK' /\ Wrote(c, t, f)
        /\ CardHas(c, card.setup, card.snap, card.rule, job.flag, card.journal)
        /\ \/ (job.op = "by_hand" /\ GoesOn(t, "remove_restore", job.s, job.flag))
           \/ (job.op = "activate" /\ GoesOn(t, "clear", job.s, job.flag))
           \/ Ends(t)
        /\ \/ (job.op = "by_hand" /\ GoesOn(f, "remove_restore", job.s, job.flag))
           \/ (job.op = "activate" /\ GoesOn(f, "clear", job.s, job.flag))
           \/ Ends(f)
  <2>1. WorldOK' /\ Wrote([card EXCEPT !.flag = job.flag], then, then)
    BY <1>b, <1>1, WriteIs DEF IInv, WriteFlag, Replace
  <2>2. CardHas([card EXCEPT !.flag = job.flag], card.setup, card.snap, card.rule, job.flag, card.journal)
    BY <1>1, CardEdits, CardFields, JobFields DEF IInv, Flag, Reason, StateHas
  <2>3. ((job.op = "by_hand" /\ GoesOn(then, "remove_restore", job.s, job.flag)) \/ (job.op = "activate" /\ GoesOn(then, "clear", job.s, job.flag)) \/ Ends(then))
    BY <1>1, JobFields, ToHas, FailsHas, IdleHas, FreshIs DEF IInv, Ats, Flag, Reason, StateHas
  <2> QED BY <2>1, <2>2, <2>3
<1>4. /\ ((job.op = "by_hand" /\ GoesOn(then, "remove_restore", job.s, job.flag)) \/ (job.op = "activate" /\ GoesOn(then, "clear", job.s, job.flag)) \/ Ends(then))
  BY <1>1, <1>2
<1>5. CardOK' /\ JobOK' BY <1>2, <1>3, <1>4 DEF IInv, CardOK, JobOK, Wrote, CardHas, JobHas, GoesOn, Ends
<1>6. Labels' BY <1>2, <1>3, <1>4 DEF IInv, Labels, StateHas, Wrote, CardHas, JobHas, GoesOn, Ends
<1>7. Phases' BY <1>2, <1>3, <1>4 DEF IInv, Phases, Labels, StateHas, Wrote, CardHas, JobHas, GoesOn, Ends
<1>8. Journalled' BY <1>2, <1>3, <1>4 DEF IInv, Journalled, Labels, StateHas, Wrote, CardHas, JobHas, GoesOn, Ends
<1>9. Original'
  BY <1>2, <1>3, <1>4 DEF IInv, Original, Labels, Journalled, Phases, StateHas, Wrote, CardHas,
       JobHas, GoesOn, Ends
<1>10. GivenBack'
  BY <1>2, <1>3, <1>4 DEF IInv, GivenBack, Labels, Phases, StateHas, Wrote, CardHas, JobHas, GoesOn, Ends
<1>11. PutBack'
  BY <1>2, <1>3, <1>4 DEF IInv, PutBack, Found, Labels, Phases, Journalled, Original, Reason,
       StateHas, Wrote, CardHas, JobHas, GoesOn, Ends
<1>12. Handed'
  BY <1>2, <1>3, <1>4 DEF IInv, Handed, Labels, Phases, StateHas, Wrote, CardHas, JobHas, GoesOn, Ends
<1>13. Adopted'
  BY <1>2, <1>3, <1>4 DEF IInv, Adopted, Labels, Phases, Handed, StateHas, Wrote, CardHas, JobHas,
       GoesOn, Ends
<1>14. SnapKept BY <1>2, <1>3, <1>4 DEF SnapKept, Wrote, CardHas, JobHas, GoesOn, Ends
<1> QED BY <1>3, <1>5, <1>6, <1>7, <1>8, <1>9, <1>10, <1>11, <1>12, <1>13, <1>14 DEF IInv

(* The way back.                                                           *)
LEMMA UndoFirstKeeps ==
  ASSUME IInv, UndoFirst
  PROVE  IInv' /\ SnapKept
<1>1. PICK t, f : /\ t = To("give_back") /\ GoesOn(t, "give_back", job.s, job.flag)
                  /\ f = Fails(job.s, "other", "flag") /\ GoesOn(f, "flag", job.s, "other")
  BY JobFields, ToHas, FailsHas, IdleHas DEF IInv, Ats, Flag, Reason
<1>2. job.at = "undo_first" /\ card.journal # None BY DEF UndoFirst, IInv, Journalled
<1>3. WorldOK' /\ RolledBack(t, f)
  BY <1>1, <1>2, RollbackIs DEF IInv, UndoFirst
<1>4. /\ GoesOn(t, "give_back", job.s, job.flag)
      /\ GoesOn(f, "flag", job.s, "other")
  BY <1>1, <1>2
<1>5. CardOK' /\ JobOK' BY <1>2, <1>3, <1>4 DEF IInv, CardOK, JobOK, RolledBack, Ends, JobHas, GoesOn, CardHas
<1>6. Labels' BY <1>2, <1>3, <1>4 DEF IInv, Labels, RolledBack, Ends, JobHas, GoesOn, CardHas
<1>7. Phases' BY <1>2, <1>3, <1>4 DEF IInv, Phases, Labels, RolledBack, Ends, JobHas, GoesOn, CardHas
<1>8. Journalled' BY <1>2, <1>3, <1>4 DEF IInv, Journalled, Labels, RolledBack, Ends, JobHas, GoesOn, CardHas
<1>9. Original'
  BY <1>2, <1>3, <1>4 DEF IInv, Original, Labels, Journalled, Phases, RolledBack, Ends, JobHas, GoesOn, CardHas
<1>10. GivenBack'
  BY <1>2, <1>3, <1>4 DEF IInv, GivenBack, Labels, Phases, RolledBack, Ends, JobHas, GoesOn, CardHas
<1>11. PutBack'
  BY <1>2, <1>3, <1>4 DEF IInv, PutBack, Found, Labels, Phases, Journalled, Original, Reason,
       RolledBack, Ends, JobHas, GoesOn, CardHas
<1>12. Handed' BY <1>2, <1>3, <1>4 DEF IInv, Handed, Labels, Phases, RolledBack, Ends, JobHas, GoesOn, CardHas
<1>13. Adopted'
  BY <1>2, <1>3, <1>4 DEF IInv, Adopted, Labels, Phases, Handed, RolledBack, Ends, JobHas, GoesOn, CardHas
<1>14. SnapKept BY <1>2, <1>3, <1>4 DEF SnapKept, RolledBack, Ends, JobHas, GoesOn, CardHas
<1> QED BY <1>3, <1>5, <1>6, <1>7, <1>8, <1>9, <1>10, <1>11, <1>12, <1>13, <1>14 DEF IInv

LEMMA GiveBackKeeps ==
  ASSUME IInv, GiveBack
  PROVE  IInv' /\ SnapKept
<1>1. PICK s : s = [Failure(job.s) EXCEPT !.offered = TRUE] /\ StateHas(s, "failed", job.s.hand)
  <2>1. PICK u \in State : u = Failure(job.s) /\ u.phase = "failed" /\ u.hand = job.s.hand
    BY FailureIs, JobFields DEF IInv, StateHas
  <2>2. StateHas([u EXCEPT !.offered = TRUE], u.phase, u.hand)
    BY StateEdits
  <2> QED BY <2>1, <2>2
<1>2. PICK t, f : /\ t = To("rules") /\ GoesOn(t, "rules", job.s, job.flag)
                  /\ f = Fails(s, "other", "failed") /\ GoesOn(f, "failed", s, "other")
  BY <1>1, ToHas, FailsHas DEF IInv, Ats, Reason, StateHas
<1>3. job.at = "give_back" /\ card.snap # None BY DEF GiveBack, IInv, Original
<1>4. /\ WorldOK' /\ card' = card /\ weekday' = weekday
     /\ ghost'.written = ghost.written /\ ghost'.told = ghost.told /\ ghost'.kept = None /\ ghost'.lifted = ghost.lifted
     /\ \/ pctl' = card.snap /\ job' = t
        \/ /\ pctl' \in {pctl, card.snap} /\ job' = f
           /\ ghost'.touched = ghost.touched /\ ghost'.undone = ghost.undone
  <2>1. card.snap \in Settings
    BY <1>3, CardFields, NativesAssumption DEF IInv
  <2>2. /\ card' = card /\ Same
        /\ \/ /\ pctl' = card.snap /\ job' = t /\ faults' = faults
              /\ ghost' = [ghost EXCEPT !.touched = FALSE, !.undone = FALSE, !.kept = None]
           \/ /\ Fault /\ pctl' \in {pctl, card.snap} /\ job' = f
              /\ ghost' = [ghost EXCEPT !.kept = None]
    BY <1>1, <1>2 DEF GiveBack
  <2>3. ghost' = [ghost EXCEPT !.touched = FALSE, !.undone = FALSE, !.kept = None] =>
          /\ ghost' \in GhostSet /\ ghost'.written = ghost.written /\ ghost'.told = ghost.told
          /\ ghost'.kept = None /\ ghost'.lifted = ghost.lifted
    BY DEF IInv, WorldOK, GhostSet
  <2>4. ghost' = [ghost EXCEPT !.kept = None] => ghost' \in GhostSet /\ KeptAs(None)
    BY KeptIs DEF IInv
  <2>5. faults' \in Nat
    BY <2>2, BoundsAssumption DEF IInv, Fault, WorldOK
  <2>6. pctl' \in Settings /\ ghost' \in GhostSet
    BY <2>1, <2>2, <2>3, <2>4 DEF IInv, WorldOK
  <2>7. WorldOK'
    BY <2>2, <2>5, <2>6 DEF IInv, WorldOK, Same
  <2> QED BY <2>2, <2>3, <2>4, <2>7 DEF KeptAs, Same
<1>5. /\ StateHas(s, "failed", job.s.hand)
      /\ GoesOn(t, "rules", job.s, job.flag)
      /\ GoesOn(f, "failed", s, "other")
  BY <1>1, <1>2, <1>3
<1>6. CardOK' /\ JobOK' BY <1>3, <1>4, <1>5 DEF IInv, CardOK, JobOK, JobHas, GoesOn
<1>7. Labels' BY <1>3, <1>4, <1>5 DEF IInv, Labels, StateHas, JobHas, GoesOn
<1>8. Phases' BY <1>3, <1>4, <1>5 DEF IInv, Phases, Labels, StateHas, JobHas, GoesOn
<1>9. Journalled' BY <1>3, <1>4, <1>5 DEF IInv, Journalled, Labels, StateHas, JobHas, GoesOn
<1>10. Original' BY <1>3, <1>4, <1>5 DEF IInv, Original, Labels, Journalled, Phases, StateHas, JobHas, GoesOn
<1>11. GivenBack' BY <1>3, <1>4, <1>5 DEF IInv, GivenBack, Labels, Phases, StateHas, JobHas, GoesOn
<1>12. PutBack'
  BY <1>3, <1>4, <1>5 DEF IInv, PutBack, Found, Labels, Phases, Journalled, Original, Reason,
       StateHas, JobHas, GoesOn
<1>13. Handed' BY <1>3, <1>4, <1>5 DEF IInv, Handed, Labels, Phases, StateHas, JobHas, GoesOn
<1>14. Adopted' BY <1>3, <1>4, <1>5 DEF IInv, Adopted, Labels, Phases, Handed, StateHas, JobHas, GoesOn
<1>15. SnapKept BY <1>3, <1>4, <1>5 DEF SnapKept, JobHas, GoesOn
<1> QED BY <1>4, <1>6, <1>7, <1>8, <1>9, <1>10, <1>11, <1>12, <1>13, <1>14, <1>15 DEF IInv

LEMMA RestrictNothingKeeps ==
  ASSUME IInv, RestrictNothing
  PROVE  IInv' /\ SnapKept
<1>a. CASE Lose(NoRules, Fails(job.s, "other", "flag"))
  <2>1. GoesOn(Fails(job.s, "other", "flag"), "flag", job.s, "other")
    BY JobFields, FailsHas DEF IInv, Ats, Reason
  <2>2. Continues(Fails(job.s, "other", "flag"), card.setup)
    BY <2>1 DEF Continues, GoesOn, JobHas, IInv, RestrictNothing
  <2> QED BY <1>a, <2>2, LostRulesKeeps
<1>b. SUFFICES ASSUME ~Lose(NoRules, Fails(job.s, "other", "flag")) PROVE IInv' /\ SnapKept
  BY <1>a
<1>1. job.at = "rules" BY DEF RestrictNothing
<1>2. PICK c, t, f : WorldOK' /\ Wrote(c, t, f)
        /\ CardHas(c, card.setup, card.snap, card.rule, card.flag, card.journal)
        /\ GoesOn(t, "restored", job.s, job.flag)
        /\ GoesOn(f, "flag", job.s, "other")
  <2>1. WorldOK' /\ Wrote(card, To("restored"), Fails(job.s, "other", "flag"))
    BY <1>b, WriteIs DEF IInv, RestrictNothing, Replace
  <2>2. CardHas(card, card.setup, card.snap, card.rule, card.flag, card.journal)
    BY CardEdits, CardFields, JobFields DEF IInv, Flag, Reason, StateHas
  <2>3. /\ GoesOn(To("restored"), "restored", job.s, job.flag)
        /\ GoesOn(Fails(job.s, "other", "flag"), "flag", job.s, "other")
    BY JobFields, ToHas, FailsHas, IdleHas, FreshIs DEF IInv, Ats, Flag, Reason, StateHas
  <2> QED BY <2>1, <2>2, <2>3
<1>3. CardOK' /\ JobOK' BY <1>1, <1>2 DEF IInv, CardOK, JobOK, Wrote, CardHas, JobHas, GoesOn
<1>4. Labels' BY <1>1, <1>2 DEF IInv, Labels, Wrote, CardHas, JobHas, GoesOn
<1>5. Phases' BY <1>1, <1>2 DEF IInv, Phases, Labels, Wrote, CardHas, JobHas, GoesOn
<1>6. Journalled' BY <1>1, <1>2 DEF IInv, Journalled, Labels, Wrote, CardHas, JobHas, GoesOn
<1>7. Original' BY <1>1, <1>2 DEF IInv, Original, Labels, Journalled, Phases, Wrote, CardHas, JobHas, GoesOn
<1>8. GivenBack' BY <1>1, <1>2 DEF IInv, GivenBack, Labels, Phases, Wrote, CardHas, JobHas, GoesOn
<1>9. PutBack'
  BY <1>1, <1>2 DEF IInv, PutBack, Found, Labels, Phases, Journalled, Original, Reason, Wrote,
       CardHas, JobHas, GoesOn
<1>10. Handed' BY <1>1, <1>2 DEF IInv, Handed, Labels, Phases, Wrote, CardHas, JobHas, GoesOn
<1>11. Adopted' BY <1>1, <1>2 DEF IInv, Adopted, Labels, Phases, Handed, Wrote, CardHas, JobHas, GoesOn
<1>12. SnapKept BY <1>1, <1>2 DEF SnapKept, Wrote, CardHas, JobHas, GoesOn
<1> QED BY <1>2, <1>3, <1>4, <1>5, <1>6, <1>7, <1>8, <1>9, <1>10, <1>11, <1>12 DEF IInv

LEMMA SaveRestoredKeeps ==
  ASSUME IInv, SaveRestored
  PROVE  IInv' /\ SnapKept
<1>a. CASE Lose(NoSetup, Fails(job.s, "other", "flag"))
  <2>1. GoesOn(Fails(job.s, "other", "flag"), "flag", job.s, "other")
    BY JobFields, FailsHas DEF IInv, Ats, Reason
  <2>2. Continues(Fails(job.s, "other", "flag"), Fresh)
    BY <2>1 DEF Continues, GoesOn, JobHas, IInv, SaveRestored
  <2> QED BY <1>a, <2>2, LostSetupKeeps
<1>b. SUFFICES ASSUME ~Lose(NoSetup, Fails(job.s, "other", "flag")) PROVE IInv' /\ SnapKept
  BY <1>a
<1>1. PICK s : /\ s = [Settled(In("restored", job.s)) EXCEPT !.offered = TRUE]
               /\ StateHas(s, "restored", job.s.hand)
  <2>1. StateHas(In("restored", job.s), "restored", job.s.hand)
    BY StateEdits, JobFields DEF IInv, Phase
  <2>2. StateHas(Settled(In("restored", job.s)), "restored", job.s.hand)
    BY <2>1, StateEdits DEF StateHas
  <2>3. StateHas([Settled(In("restored", job.s)) EXCEPT !.offered = TRUE], "restored", job.s.hand)
    BY <2>2, StateEdits DEF StateHas
  <2> QED BY <2>3
<1>2. job.at = "restored" BY DEF SaveRestored
<1>3. PICK c, t, f : WorldOK' /\ Wrote(c, t, f)
        /\ CardHas(c, s, card.snap, card.rule, card.flag, card.journal)
        /\ GoesOn(t, "flag", s, "other")
        /\ GoesOn(f, "flag", job.s, "other")
  <2>1. /\ WorldOK'
        /\ Wrote([card EXCEPT !.setup = s], [[To("flag") EXCEPT !.flag = "other"] EXCEPT !.s = s], Fails(job.s, "other", "flag"))
    BY <1>b, <1>1, WriteIs DEF IInv, SaveRestored, Save, Replace
  <2>2. CardHas([card EXCEPT !.setup = s], s, card.snap, card.rule, card.flag, card.journal)
    BY <1>1, CardEdits, CardFields, JobFields DEF IInv, Flag, Reason, StateHas
  <2>3. /\ GoesOn([[To("flag") EXCEPT !.flag = "other"] EXCEPT !.s = s], "flag", s, "other")
        /\ GoesOn(Fails(job.s, "other", "flag"), "flag", job.s, "other")
    BY <1>1, JobFields, ToHas, FailsHas, IdleHas, FreshIs DEF IInv, Ats, Flag, Reason, StateHas
  <2> QED BY <2>1, <2>2, <2>3
<1>4. /\ StateHas(s, "restored", job.s.hand)
  BY <1>1, <1>2
<1>5. CardOK' /\ JobOK' BY <1>2, <1>3, <1>4 DEF IInv, CardOK, JobOK, Wrote, CardHas, JobHas, GoesOn
<1>6. Labels' BY <1>2, <1>3, <1>4 DEF IInv, Labels, StateHas, Wrote, CardHas, JobHas, GoesOn
<1>7. Phases' BY <1>2, <1>3, <1>4 DEF IInv, Phases, Labels, StateHas, Wrote, CardHas, JobHas, GoesOn
<1>8. Journalled' BY <1>2, <1>3, <1>4 DEF IInv, Journalled, Labels, StateHas, Wrote, CardHas, JobHas, GoesOn
<1>9. Original'
  BY <1>2, <1>3, <1>4 DEF IInv, Original, Labels, Journalled, Phases, StateHas, Wrote, CardHas,
       JobHas, GoesOn
<1>10. GivenBack'
  BY <1>2, <1>3, <1>4 DEF IInv, GivenBack, Labels, Phases, StateHas, Wrote, CardHas, JobHas, GoesOn
<1>11. PutBack'
  BY <1>2, <1>3, <1>4 DEF IInv, PutBack, Found, Labels, Phases, Journalled, Original, Reason,
       StateHas, Wrote, CardHas, JobHas, GoesOn
<1>12. Handed'
  BY <1>2, <1>3, <1>4 DEF IInv, Handed, Labels, Phases, StateHas, Wrote, CardHas, JobHas, GoesOn
<1>13. Adopted'
  BY <1>2, <1>3, <1>4 DEF IInv, Adopted, Labels, Phases, Handed, StateHas, Wrote, CardHas, JobHas, GoesOn
<1>14. SnapKept BY <1>2, <1>3, <1>4 DEF SnapKept, Wrote, CardHas, JobHas, GoesOn
<1> QED BY <1>3, <1>5, <1>6, <1>7, <1>8, <1>9, <1>10, <1>11, <1>12, <1>13, <1>14 DEF IInv

LEMMA RemoveRestoreKeeps ==
  ASSUME IInv, RemoveRestore
  PROVE  IInv' /\ SnapKept
<1>1. PICK then : /\ then = (IF job.ok THEN To("clear") ELSE Idle)
                  /\ (GoesOn(then, "clear", job.s, job.flag) \/ Ends(then))
  BY ToHas, IdleHas DEF IInv, Ats
<1>2. job.at = "remove_restore" BY DEF RemoveRestore
<1>3. PICK c, t, f : WorldOK' /\ Wrote(c, t, f)
        /\ CardHas(c, card.setup, card.snap, card.rule, card.flag, card.journal)
        /\ (GoesOn(t, "clear", job.s, job.flag) \/ Ends(t))
        /\ (GoesOn(f, "clear", job.s, job.flag) \/ Ends(f))
  <2>1. WorldOK' /\ Wrote([card EXCEPT !.restore = FALSE], then, then)
    BY <1>1, WriteIs DEF IInv, RemoveRestore
  <2>2. CardHas([card EXCEPT !.restore = FALSE], card.setup, card.snap, card.rule, card.flag, card.journal)
    BY <1>1, CardEdits, CardFields, JobFields DEF IInv, Flag, Reason, StateHas
  <2>3. (GoesOn(then, "clear", job.s, job.flag) \/ Ends(then))
    BY <1>1, JobFields, ToHas, FailsHas, IdleHas, FreshIs DEF IInv, Ats, Flag, Reason, StateHas
  <2> QED BY <2>1, <2>2, <2>3
<1>4. /\ (GoesOn(then, "clear", job.s, job.flag) \/ Ends(then))
  BY <1>1, <1>2
<1>5. CardOK' /\ JobOK' BY <1>2, <1>3, <1>4 DEF IInv, CardOK, JobOK, Wrote, CardHas, JobHas, GoesOn, Ends
<1>6. Labels' BY <1>2, <1>3, <1>4 DEF IInv, Labels, StateHas, Wrote, CardHas, JobHas, GoesOn, Ends
<1>7. Phases' BY <1>2, <1>3, <1>4 DEF IInv, Phases, Labels, StateHas, Wrote, CardHas, JobHas, GoesOn, Ends
<1>8. Journalled' BY <1>2, <1>3, <1>4 DEF IInv, Journalled, Labels, StateHas, Wrote, CardHas, JobHas, GoesOn, Ends
<1>9. Original'
  BY <1>2, <1>3, <1>4 DEF IInv, Original, Labels, Journalled, Phases, StateHas, Wrote, CardHas,
       JobHas, GoesOn, Ends
<1>10. GivenBack'
  BY <1>2, <1>3, <1>4 DEF IInv, GivenBack, Labels, Phases, StateHas, Wrote, CardHas, JobHas, GoesOn, Ends
<1>11. PutBack'
  BY <1>2, <1>3, <1>4 DEF IInv, PutBack, Found, Labels, Phases, Journalled, Original, Reason,
       StateHas, Wrote, CardHas, JobHas, GoesOn, Ends
<1>12. Handed'
  BY <1>2, <1>3, <1>4 DEF IInv, Handed, Labels, Phases, StateHas, Wrote, CardHas, JobHas, GoesOn, Ends
<1>13. Adopted'
  BY <1>2, <1>3, <1>4 DEF IInv, Adopted, Labels, Phases, Handed, StateHas, Wrote, CardHas, JobHas,
       GoesOn, Ends
<1>14. SnapKept BY <1>2, <1>3, <1>4 DEF SnapKept, Wrote, CardHas, JobHas, GoesOn, Ends
<1> QED BY <1>3, <1>5, <1>6, <1>7, <1>8, <1>9, <1>10, <1>11, <1>12, <1>13, <1>14 DEF IInv

LEMMA ClearKeeps ==
  ASSUME IInv, Clear
  PROVE  IInv' /\ SnapKept
<1>1. job.at = "clear" BY DEF Clear
<1>2. PICK c, t, f : WorldOK' /\ Wrote(c, t, f)
        /\ CardHas(c, card.setup, card.snap, card.rule, card.flag, None)
        /\ Ends(t)
        /\ Ends(f)
  <2>1. WorldOK' /\ Wrote([card EXCEPT !.journal = None], Idle, Idle)
    BY WriteIs DEF IInv, Clear
  <2>2. CardHas([card EXCEPT !.journal = None], card.setup, card.snap, card.rule, card.flag, None)
    BY CardEdits, CardFields, JobFields DEF IInv, Flag, Reason, StateHas
  <2>3. Ends(Idle)
    BY JobFields, ToHas, FailsHas, IdleHas, FreshIs DEF IInv, Ats, Flag, Reason, StateHas
  <2> QED BY <2>1, <2>2, <2>3
<1>3. CardOK' /\ JobOK' BY <1>1, <1>2 DEF IInv, CardOK, JobOK, Wrote, CardHas, JobHas, Ends
<1>4. Labels' BY <1>1, <1>2 DEF IInv, Labels, StateHas, Wrote, CardHas, JobHas, Ends
<1>5. Phases' BY <1>1, <1>2 DEF IInv, Phases, Labels, StateHas, Wrote, CardHas, JobHas, Ends
<1>6. Journalled' BY <1>1, <1>2 DEF IInv, Journalled, Labels, StateHas, Wrote, CardHas, JobHas, Ends
<1>7. Original'
  BY <1>1, <1>2 DEF IInv, Original, Labels, Journalled, Phases, StateHas, Wrote, CardHas, JobHas, Ends
<1>8. GivenBack' BY <1>1, <1>2 DEF IInv, GivenBack, Labels, Phases, StateHas, Wrote, CardHas, JobHas, Ends
<1>9. PutBack'
  BY <1>1, <1>2 DEF IInv, PutBack, Found, Labels, Phases, Journalled, Original, Reason, StateHas,
       Wrote, CardHas, JobHas, Ends
<1>10. Handed' BY <1>1, <1>2 DEF IInv, Handed, Labels, Phases, StateHas, Wrote, CardHas, JobHas, Ends
<1>11. Adopted'
  BY <1>1, <1>2 DEF IInv, Adopted, Labels, Phases, Handed, StateHas, Wrote, CardHas, JobHas, Ends
<1>12. SnapKept BY <1>1, <1>2 DEF SnapKept, Wrote, CardHas, JobHas, Ends
<1> QED BY <1>2, <1>3, <1>4, <1>5, <1>6, <1>7, <1>8, <1>9, <1>10, <1>11, <1>12 DEF IInv

(* The tick of the scheduler.                                              *)
LEMMA RestoreByHandKeeps ==
  ASSUME IInv, RestoreByHand
  PROVE  IInv' /\ SnapKept
<1>1. job.op = "idle" BY DEF RestoreByHand, Tick, Free
<1>2. WorldOK' /\ Unmoved
     /\ \/ card.snap # None /\ JobHas(job', "by_hand", "give_back", card.setup, None, None, None)
        \/ JobHas(job', "by_hand", "remove_restore", card.setup, None, None, None)
  <2>1. WorldOK' /\ Unmoved
    BY DEF IInv, RestoreByHand, Tick, Checked, WorldOK, Unmoved
  <2>2.
        \/ card.snap # None /\ JobHas(job', "by_hand", "give_back", card.setup, None, None, None)
        \/ JobHas(job', "by_hand", "remove_restore", card.setup, None, None, None)
    BY StartsIs DEF IInv, RestoreByHand, Ops, Ats
  <2> QED BY <2>1, <2>2
<1>3. CardOK' /\ JobOK' BY <1>1, <1>2 DEF IInv, CardOK, JobOK, Unmoved, JobHas
<1>4. Labels' BY <1>1, <1>2 DEF IInv, Labels, Unmoved, JobHas
<1>5. Phases' BY <1>1, <1>2 DEF IInv, Phases, Labels, Unmoved, JobHas
<1>6. Journalled' BY <1>1, <1>2 DEF IInv, Journalled, Labels, Unmoved, JobHas
<1>7. Original' BY <1>1, <1>2 DEF IInv, Original, Labels, Journalled, Phases, Unmoved, JobHas
<1>8. GivenBack' BY <1>1, <1>2 DEF IInv, GivenBack, Labels, Phases, Unmoved, JobHas
<1>9. PutBack'
  BY <1>1, <1>2 DEF IInv, PutBack, Found, Labels, Phases, Journalled, Original, Reason, Unmoved,
       JobHas
<1>10. Handed' BY <1>1, <1>2 DEF IInv, Handed, Labels, Phases, Unmoved, JobHas
<1>11. Adopted' BY <1>1, <1>2 DEF IInv, Adopted, Labels, Phases, Handed, Unmoved, JobHas
<1>12. SnapKept BY <1>1, <1>2 DEF SnapKept, Unmoved, JobHas
<1> QED BY <1>2, <1>3, <1>4, <1>5, <1>6, <1>7, <1>8, <1>9, <1>10, <1>11, <1>12 DEF IInv

LEMMA RetryByHandKeeps ==
  ASSUME IInv, RetryByHand
  PROVE  IInv' /\ SnapKept
<1>1. job.op = "idle" BY DEF RetryByHand, Tick, Free
<1>2. WorldOK' /\ Unmoved
     /\ \/ card.journal # None /\ JobHas(job', "again", "undo_left", card.setup, None, None, None)
        \/ JobHas(job', "again", "rearm", card.setup, None, None, None)
  <2>1. WorldOK' /\ Unmoved
    BY DEF IInv, RetryByHand, Tick, Checked, WorldOK, Unmoved
  <2>2.
        \/ card.journal # None /\ JobHas(job', "again", "undo_left", card.setup, None, None, None)
        \/ JobHas(job', "again", "rearm", card.setup, None, None, None)
    BY StartsIs DEF IInv, RetryByHand, Ops, Ats
  <2> QED BY <2>1, <2>2
<1>3. CardOK' /\ JobOK' BY <1>1, <1>2 DEF IInv, CardOK, JobOK, Unmoved, JobHas
<1>4. Labels' BY <1>1, <1>2 DEF IInv, Labels, Unmoved, JobHas
<1>5. Phases' BY <1>1, <1>2 DEF IInv, Phases, Labels, Unmoved, JobHas
<1>6. Journalled' BY <1>1, <1>2 DEF IInv, Journalled, Labels, Unmoved, JobHas
<1>7. Original' BY <1>1, <1>2 DEF IInv, Original, Labels, Journalled, Phases, Unmoved, JobHas
<1>8. GivenBack' BY <1>1, <1>2 DEF IInv, GivenBack, Labels, Phases, Unmoved, JobHas
<1>9. PutBack'
  BY <1>1, <1>2 DEF IInv, PutBack, Found, Labels, Phases, Journalled, Original, Reason, Unmoved,
       JobHas
<1>10. Handed' BY <1>1, <1>2 DEF IInv, Handed, Labels, Phases, Unmoved, JobHas
<1>11. Adopted' BY <1>1, <1>2 DEF IInv, Adopted, Labels, Phases, Handed, Unmoved, JobHas
<1>12. SnapKept BY <1>1, <1>2 DEF SnapKept, Unmoved, JobHas
<1> QED BY <1>2, <1>3, <1>4, <1>5, <1>6, <1>7, <1>8, <1>9, <1>10, <1>11, <1>12 DEF IInv

LEMMA UndoLeftKeeps ==
  ASSUME IInv, UndoLeft
  PROVE  IInv' /\ SnapKept
<1>1. PICK t, f : /\ t = (IF job.op = "again" THEN To("rearm") ELSE Fails(job.s, "other", "flag"))
                  /\ f = Fails(job.s, "other", "flag") /\ GoesOn(f, "flag", job.s, "other")
                  /\ (job.op = "again" /\ GoesOn(t, "rearm", job.s, job.flag)) \/ GoesOn(t, "flag", job.s, "other")
  BY JobFields, ToHas, FailsHas DEF IInv, Ats, Flag, Reason
<1>2. job.at = "undo_left" /\ card.journal # None BY DEF UndoLeft, IInv, Journalled
<1>3. WorldOK' /\ RolledBack(t, f)
  BY <1>1, <1>2, RollbackIs DEF IInv, UndoLeft
<1>4. /\ GoesOn(f, "flag", job.s, "other")
      /\ (job.op = "again" /\ GoesOn(t, "rearm", job.s, job.flag)) \/ GoesOn(t, "flag", job.s, "other")
  BY <1>1, <1>2
<1>5. CardOK' /\ JobOK' BY <1>2, <1>3, <1>4 DEF IInv, CardOK, JobOK, RolledBack, Ends, JobHas, GoesOn, CardHas
<1>6. Labels' BY <1>2, <1>3, <1>4 DEF IInv, Labels, RolledBack, Ends, JobHas, GoesOn, CardHas
<1>7. Phases' BY <1>2, <1>3, <1>4 DEF IInv, Phases, Labels, RolledBack, Ends, JobHas, GoesOn, CardHas
<1>8. Journalled' BY <1>2, <1>3, <1>4 DEF IInv, Journalled, Labels, RolledBack, Ends, JobHas, GoesOn, CardHas
<1>9. Original'
  BY <1>2, <1>3, <1>4 DEF IInv, Original, Labels, Journalled, Phases, RolledBack, Ends, JobHas, GoesOn, CardHas
<1>10. GivenBack'
  BY <1>2, <1>3, <1>4 DEF IInv, GivenBack, Labels, Phases, RolledBack, Ends, JobHas, GoesOn, CardHas
<1>11. PutBack'
  BY <1>2, <1>3, <1>4 DEF IInv, PutBack, Found, Labels, Phases, Journalled, Original, Reason,
       RolledBack, Ends, JobHas, GoesOn, CardHas
<1>12. Handed' BY <1>2, <1>3, <1>4 DEF IInv, Handed, Labels, Phases, RolledBack, Ends, JobHas, GoesOn, CardHas
<1>13. Adopted'
  BY <1>2, <1>3, <1>4 DEF IInv, Adopted, Labels, Phases, Handed, RolledBack, Ends, JobHas, GoesOn, CardHas
<1>14. SnapKept BY <1>2, <1>3, <1>4 DEF SnapKept, RolledBack, Ends, JobHas, GoesOn, CardHas
<1> QED BY <1>3, <1>5, <1>6, <1>7, <1>8, <1>9, <1>10, <1>11, <1>12, <1>13, <1>14 DEF IInv

LEMMA RearmKeeps ==
  ASSUME IInv, Rearm
  PROVE  IInv' /\ SnapKept
<1>1. PICK s : s = Settled(In("pending", job.s)) /\ StateHas(s, "pending", job.s.hand)
  <2>1. StateHas(In("pending", job.s), "pending", job.s.hand)
    BY StateEdits, JobFields DEF IInv, Phase
  <2>2. StateHas(Settled(In("pending", job.s)), "pending", job.s.hand)
    BY <2>1, StateEdits DEF StateHas
  <2> QED BY <2>2
<1>2. job.at = "rearm" BY DEF Rearm
<1>a. CASE Lose(NoSetup, [To("remove_retry") EXCEPT !.s = s])
  <2>1. GoesOn([To("remove_retry") EXCEPT !.s = s], "remove_retry", s, job.flag)
    BY <1>1, ToHas DEF IInv, Ats, StateHas
  <2>2. Continues([To("remove_retry") EXCEPT !.s = s], Fresh)
    BY <1>1, <1>2, <2>1 DEF Continues, GoesOn, JobHas, StateHas
  <2> QED BY <1>a, <2>2, LostSetupKeeps
<1>b. SUFFICES ASSUME ~Lose(NoSetup, [To("remove_retry") EXCEPT !.s = s]) PROVE IInv' /\ SnapKept
  BY <1>a
<1>3. PICK c, t, f : WorldOK' /\ Wrote(c, t, f)
        /\ CardHas(c, s, card.snap, card.rule, card.flag, card.journal)
        /\ GoesOn(t, "remove_retry", s, job.flag)
        /\ GoesOn(f, "remove_retry", s, job.flag)
  <2>1. /\ WorldOK'
        /\ Wrote([card EXCEPT !.setup = s], [To("remove_retry") EXCEPT !.s = s], [To("remove_retry") EXCEPT !.s = s])
    BY <1>b, <1>1, WriteIs DEF IInv, Rearm, Save, SaveAnyway, Replace
  <2>2. CardHas([card EXCEPT !.setup = s], s, card.snap, card.rule, card.flag, card.journal)
    BY <1>1, CardEdits, CardFields, JobFields DEF IInv, Flag, Reason, StateHas
  <2>3. GoesOn([To("remove_retry") EXCEPT !.s = s], "remove_retry", s, job.flag)
    BY <1>1, JobFields, ToHas, FailsHas, IdleHas, FreshIs DEF IInv, Ats, Flag, Reason, StateHas
  <2> QED BY <2>1, <2>2, <2>3
<1>4. /\ StateHas(s, "pending", job.s.hand)
  BY <1>1, <1>2
<1>5. CardOK' /\ JobOK' BY <1>2, <1>3, <1>4 DEF IInv, CardOK, JobOK, Wrote, CardHas, JobHas, GoesOn
<1>6. Labels' BY <1>2, <1>3, <1>4 DEF IInv, Labels, StateHas, Wrote, CardHas, JobHas, GoesOn
<1>7. Phases' BY <1>2, <1>3, <1>4 DEF IInv, Phases, Labels, StateHas, Wrote, CardHas, JobHas, GoesOn
<1>8. Journalled' BY <1>2, <1>3, <1>4 DEF IInv, Journalled, Labels, StateHas, Wrote, CardHas, JobHas, GoesOn
<1>9. Original'
  BY <1>2, <1>3, <1>4 DEF IInv, Original, Labels, Journalled, Phases, StateHas, Wrote, CardHas,
       JobHas, GoesOn
<1>10. GivenBack'
  BY <1>2, <1>3, <1>4 DEF IInv, GivenBack, Labels, Phases, StateHas, Wrote, CardHas, JobHas, GoesOn
<1>11. PutBack'
  BY <1>2, <1>3, <1>4 DEF IInv, PutBack, Found, Labels, Phases, Journalled, Original, Reason,
       StateHas, Wrote, CardHas, JobHas, GoesOn
<1>12. Handed'
  BY <1>2, <1>3, <1>4 DEF IInv, Handed, Labels, Phases, StateHas, Wrote, CardHas, JobHas, GoesOn
<1>13. Adopted'
  BY <1>2, <1>3, <1>4 DEF IInv, Adopted, Labels, Phases, Handed, StateHas, Wrote, CardHas, JobHas, GoesOn
<1>14. SnapKept BY <1>2, <1>3, <1>4 DEF SnapKept, Wrote, CardHas, JobHas, GoesOn
<1> QED BY <1>3, <1>5, <1>6, <1>7, <1>8, <1>9, <1>10, <1>11, <1>12, <1>13, <1>14 DEF IInv

LEMMA RemoveRetryKeeps ==
  ASSUME IInv, RemoveRetry
  PROVE  IInv' /\ SnapKept
<1>1. PICK then : /\ then = (IF job.ok THEN To("remove_flag") ELSE Idle)
                  /\ (GoesOn(then, "remove_flag", job.s, job.flag) \/ Ends(then))
  BY ToHas, IdleHas DEF IInv, Ats
<1>2. job.at = "remove_retry" BY DEF RemoveRetry
<1>3. PICK c, t, f : WorldOK' /\ Wrote(c, t, f)
        /\ CardHas(c, card.setup, card.snap, card.rule, card.flag, card.journal)
        /\ (GoesOn(t, "remove_flag", job.s, job.flag) \/ Ends(t))
        /\ (GoesOn(f, "remove_flag", job.s, job.flag) \/ Ends(f))
  <2>1. WorldOK' /\ Wrote([card EXCEPT !.retry = FALSE], then, then)
    BY <1>1, WriteIs DEF IInv, RemoveRetry
  <2>2. CardHas([card EXCEPT !.retry = FALSE], card.setup, card.snap, card.rule, card.flag, card.journal)
    BY <1>1, CardEdits, CardFields, JobFields DEF IInv, Flag, Reason, StateHas
  <2>3. (GoesOn(then, "remove_flag", job.s, job.flag) \/ Ends(then))
    BY <1>1, JobFields, ToHas, FailsHas, IdleHas, FreshIs DEF IInv, Ats, Flag, Reason, StateHas
  <2> QED BY <2>1, <2>2, <2>3
<1>4. /\ (GoesOn(then, "remove_flag", job.s, job.flag) \/ Ends(then))
  BY <1>1, <1>2
<1>5. CardOK' /\ JobOK' BY <1>2, <1>3, <1>4 DEF IInv, CardOK, JobOK, Wrote, CardHas, JobHas, GoesOn, Ends
<1>6. Labels' BY <1>2, <1>3, <1>4 DEF IInv, Labels, StateHas, Wrote, CardHas, JobHas, GoesOn, Ends
<1>7. Phases' BY <1>2, <1>3, <1>4 DEF IInv, Phases, Labels, StateHas, Wrote, CardHas, JobHas, GoesOn, Ends
<1>8. Journalled' BY <1>2, <1>3, <1>4 DEF IInv, Journalled, Labels, StateHas, Wrote, CardHas, JobHas, GoesOn, Ends
<1>9. Original'
  BY <1>2, <1>3, <1>4 DEF IInv, Original, Labels, Journalled, Phases, StateHas, Wrote, CardHas,
       JobHas, GoesOn, Ends
<1>10. GivenBack'
  BY <1>2, <1>3, <1>4 DEF IInv, GivenBack, Labels, Phases, StateHas, Wrote, CardHas, JobHas, GoesOn, Ends
<1>11. PutBack'
  BY <1>2, <1>3, <1>4 DEF IInv, PutBack, Found, Labels, Phases, Journalled, Original, Reason,
       StateHas, Wrote, CardHas, JobHas, GoesOn, Ends
<1>12. Handed'
  BY <1>2, <1>3, <1>4 DEF IInv, Handed, Labels, Phases, StateHas, Wrote, CardHas, JobHas, GoesOn, Ends
<1>13. Adopted'
  BY <1>2, <1>3, <1>4 DEF IInv, Adopted, Labels, Phases, Handed, StateHas, Wrote, CardHas, JobHas,
       GoesOn, Ends
<1>14. SnapKept BY <1>2, <1>3, <1>4 DEF SnapKept, Wrote, CardHas, JobHas, GoesOn, Ends
<1> QED BY <1>3, <1>5, <1>6, <1>7, <1>8, <1>9, <1>10, <1>11, <1>12, <1>13, <1>14 DEF IInv

LEMMA RemoveFlagKeeps ==
  ASSUME IInv, RemoveFlag
  PROVE  IInv' /\ SnapKept
<1>1. job.at = "remove_flag" BY DEF RemoveFlag
<1>2. PICK c, t, f : WorldOK' /\ Wrote(c, t, f)
        /\ CardHas(c, card.setup, card.snap, card.rule, None, card.journal)
        /\ Ends(t)
        /\ Ends(f)
  <2>1. WorldOK' /\ Wrote([card EXCEPT !.flag = None], Idle, Idle)
    BY WriteIs DEF IInv, RemoveFlag
  <2>2. CardHas([card EXCEPT !.flag = None], card.setup, card.snap, card.rule, None, card.journal)
    BY CardEdits, CardFields, JobFields DEF IInv, Flag, Reason, StateHas
  <2>3. Ends(Idle)
    BY JobFields, ToHas, FailsHas, IdleHas, FreshIs DEF IInv, Ats, Flag, Reason, StateHas
  <2> QED BY <2>1, <2>2, <2>3
<1>3. CardOK' /\ JobOK' BY <1>1, <1>2 DEF IInv, CardOK, JobOK, Wrote, CardHas, JobHas, Ends
<1>4. Labels' BY <1>1, <1>2 DEF IInv, Labels, StateHas, Wrote, CardHas, JobHas, Ends
<1>5. Phases' BY <1>1, <1>2 DEF IInv, Phases, Labels, StateHas, Wrote, CardHas, JobHas, Ends
<1>6. Journalled' BY <1>1, <1>2 DEF IInv, Journalled, Labels, StateHas, Wrote, CardHas, JobHas, Ends
<1>7. Original'
  BY <1>1, <1>2 DEF IInv, Original, Labels, Journalled, Phases, StateHas, Wrote, CardHas, JobHas, Ends
<1>8. GivenBack' BY <1>1, <1>2 DEF IInv, GivenBack, Labels, Phases, StateHas, Wrote, CardHas, JobHas, Ends
<1>9. PutBack'
  BY <1>1, <1>2 DEF IInv, PutBack, Found, Labels, Phases, Journalled, Original, Reason, StateHas,
       Wrote, CardHas, JobHas, Ends
<1>10. Handed' BY <1>1, <1>2 DEF IInv, Handed, Labels, Phases, StateHas, Wrote, CardHas, JobHas, Ends
<1>11. Adopted'
  BY <1>1, <1>2 DEF IInv, Adopted, Labels, Phases, Handed, StateHas, Wrote, CardHas, JobHas, Ends
<1>12. SnapKept BY <1>1, <1>2 DEF SnapKept, Wrote, CardHas, JobHas, Ends
<1> QED BY <1>2, <1>3, <1>4, <1>5, <1>6, <1>7, <1>8, <1>9, <1>10, <1>11, <1>12 DEF IInv

LEMMA StartupKeeps ==
  ASSUME IInv, Startup
  PROVE  IInv' /\ SnapKept
<1>1. PICK s : s = In("protection", card.setup) /\ StateHas(s, "protection", card.setup.hand)
  BY StateEdits, CardFields DEF IInv, Phase
<1>2. job.op = "idle" BY DEF Startup, Tick
<1>3. WorldOK' /\ Unmoved
     /\ \/ card.journal # None /\ JobHas(job', "startup", "undo_left", card.setup, None, None, None)
        \/ job' = job
        \/ JobHas(job', "gate", "failed", s, None, None, "fingerprint")
  <2>1. WorldOK' /\ Unmoved
    <3>1. power' \in [on : BOOLEAN, checked : BOOLEAN]
      BY DEF IInv, Startup, Checked, WorldOK
    <3>2. faults' \in Nat
      BY BoundsAssumption DEF IInv, Startup, Fault, WorldOK
    <3> QED BY <3>1, <3>2 DEF IInv, Startup, WorldOK, Unmoved
  <2>2. (card.journal # None /\ Starts("startup", "undo_left")) \/ job' = job \/ Park
    BY Zenon DEF Startup
  <2>3. PICK j : /\ j = [Idle EXCEPT !.op = "gate", !.at = "failed", !.s = s, !.flag = "fingerprint"]
                  /\ JobHas(j, "gate", "failed", s, None, None, "fingerprint")
    BY <1>1, IdleIs DEF Ops, Ats, Flag, Reason, StateHas
  <2>4. Park => job' = j
    BY <1>1, <2>3 DEF Park
  <2>5. Park => JobHas(job', "gate", "failed", s, None, None, "fingerprint")
    BY <2>3, <2>4
  <2>6. Starts("startup", "undo_left") => JobHas(job', "startup", "undo_left", card.setup, None, None, None)
    BY StartsIs DEF IInv, Ops, Ats
  <2> QED BY <2>1, <2>2, <2>5, <2>6
<1>4. /\ StateHas(s, "protection", card.setup.hand)
  BY <1>1, <1>2
<1>5. CardOK' /\ JobOK' BY <1>2, <1>3, <1>4 DEF IInv, CardOK, JobOK, Unmoved, JobHas
<1>6. Labels' BY <1>2, <1>3, <1>4 DEF IInv, Labels, StateHas, Unmoved, JobHas
<1>7. Phases' BY <1>2, <1>3, <1>4 DEF IInv, Phases, Labels, StateHas, Unmoved, JobHas
<1>8. Journalled' BY <1>2, <1>3, <1>4 DEF IInv, Journalled, Labels, StateHas, Unmoved, JobHas
<1>9. Original'
  BY <1>2, <1>3, <1>4 DEF IInv, Original, Labels, Journalled, Phases, StateHas, Unmoved, JobHas
<1>10. GivenBack' BY <1>2, <1>3, <1>4 DEF IInv, GivenBack, Labels, Phases, StateHas, Unmoved, JobHas
<1>11. PutBack'
  BY <1>2, <1>3, <1>4 DEF IInv, PutBack, Found, Labels, Phases, Journalled, Original, Reason,
       StateHas, Unmoved, JobHas
<1>12. Handed' BY <1>2, <1>3, <1>4 DEF IInv, Handed, Labels, Phases, StateHas, Unmoved, JobHas
<1>13. Adopted'
  BY <1>2, <1>3, <1>4 DEF IInv, Adopted, Labels, Phases, Handed, StateHas, Unmoved, JobHas
<1>14. SnapKept BY <1>2, <1>3, <1>4 DEF SnapKept, Unmoved, JobHas
<1> QED BY <1>3, <1>5, <1>6, <1>7, <1>8, <1>9, <1>10, <1>11, <1>12, <1>13, <1>14 DEF IInv

LEMMA GateKeeps ==
  ASSUME IInv, Gate
  PROVE  IInv' /\ SnapKept
<1>1. PICK s : s = In("protection", card.setup) /\ StateHas(s, "protection", card.setup.hand)
  BY StateEdits, CardFields DEF IInv, Phase
<1>2. job.op = "idle" BY DEF Gate, Free
<1>3. WorldOK' /\ Unmoved /\ JobHas(job', "gate", "failed", s, None, None, "fingerprint")
  <2>1. WorldOK' /\ Unmoved /\ Park
    BY DEF IInv, Gate, WorldOK, Unmoved
  <2>2. PICK j : /\ j = [Idle EXCEPT !.op = "gate", !.at = "failed", !.s = s, !.flag = "fingerprint"]
                  /\ JobHas(j, "gate", "failed", s, None, None, "fingerprint")
    BY <1>1, IdleIs DEF Ops, Ats, Flag, Reason, StateHas
  <2>3. Park => job' = j
    BY <1>1, <2>2 DEF Park
  <2>4. Park => JobHas(job', "gate", "failed", s, None, None, "fingerprint")
    BY <2>2, <2>3
  <2> QED BY <2>1, <2>4
<1>4. /\ StateHas(s, "protection", card.setup.hand)
  BY <1>1, <1>2
<1>5. CardOK' /\ JobOK' BY <1>2, <1>3, <1>4 DEF IInv, CardOK, JobOK, Unmoved, JobHas
<1>6. Labels' BY <1>2, <1>3, <1>4 DEF IInv, Labels, StateHas, Unmoved, JobHas
<1>7. Phases' BY <1>2, <1>3, <1>4 DEF IInv, Phases, Labels, StateHas, Unmoved, JobHas
<1>8. Journalled' BY <1>2, <1>3, <1>4 DEF IInv, Journalled, Labels, StateHas, Unmoved, JobHas
<1>9. Original'
  BY <1>2, <1>3, <1>4 DEF IInv, Original, Labels, Journalled, Phases, StateHas, Unmoved, JobHas
<1>10. GivenBack' BY <1>2, <1>3, <1>4 DEF IInv, GivenBack, Labels, Phases, StateHas, Unmoved, JobHas
<1>11. PutBack'
  BY <1>2, <1>3, <1>4 DEF IInv, PutBack, Found, Labels, Phases, Journalled, Original, Reason,
       StateHas, Unmoved, JobHas
<1>12. Handed' BY <1>2, <1>3, <1>4 DEF IInv, Handed, Labels, Phases, StateHas, Unmoved, JobHas
<1>13. Adopted'
  BY <1>2, <1>3, <1>4 DEF IInv, Adopted, Labels, Phases, Handed, StateHas, Unmoved, JobHas
<1>14. SnapKept BY <1>2, <1>3, <1>4 DEF SnapKept, Unmoved, JobHas
<1> QED BY <1>3, <1>5, <1>6, <1>7, <1>8, <1>9, <1>10, <1>11, <1>12, <1>13, <1>14 DEF IInv

LEMMA ActivateKeeps ==
  ASSUME IInv, Activate
  PROVE  IInv' /\ SnapKept
<1>1. job.op = "idle" /\ card.setup.phase = "released" BY DEF Activate, Tick, Free
<1>2. WorldOK' /\ Unmoved
     /\ \/ card.setup.hand # None /\ JobHas(job', "activate", "old", card.setup, None, None, None)
        \/ JobHas(job', "activate", "active", card.setup, None, None, None)
  <2>1. WorldOK' /\ Unmoved
    BY DEF IInv, Activate, Tick, Checked, WorldOK, Unmoved
  <2>2.
        \/ card.setup.hand # None /\ JobHas(job', "activate", "old", card.setup, None, None, None)
        \/ JobHas(job', "activate", "active", card.setup, None, None, None)
    BY StartsIs DEF IInv, Activate, Ops, Ats
  <2> QED BY <2>1, <2>2
<1>3. CardOK' /\ JobOK' BY <1>1, <1>2 DEF IInv, CardOK, JobOK, Unmoved, JobHas
<1>4. Labels' BY <1>1, <1>2 DEF IInv, Labels, Unmoved, JobHas
<1>5. Phases' BY <1>1, <1>2 DEF IInv, Phases, Labels, Unmoved, JobHas
<1>6. Journalled' BY <1>1, <1>2 DEF IInv, Journalled, Labels, Unmoved, JobHas
<1>7. Original' BY <1>1, <1>2 DEF IInv, Original, Labels, Journalled, Phases, Unmoved, JobHas
<1>8. GivenBack' BY <1>1, <1>2 DEF IInv, GivenBack, Labels, Phases, Unmoved, JobHas
<1>9. PutBack'
  BY <1>1, <1>2 DEF IInv, PutBack, Found, Labels, Phases, Journalled, Original, Reason, Unmoved,
       JobHas
<1>10. Handed' BY <1>1, <1>2 DEF IInv, Handed, Labels, Phases, Unmoved, JobHas
<1>11. Adopted' BY <1>1, <1>2 DEF IInv, Adopted, Labels, Phases, Handed, Unmoved, JobHas
<1>12. SnapKept BY <1>1, <1>2 DEF SnapKept, Unmoved, JobHas
<1> QED BY <1>2, <1>3, <1>4, <1>5, <1>6, <1>7, <1>8, <1>9, <1>10, <1>11, <1>12 DEF IInv

LEMMA SaveActiveKeeps ==
  ASSUME IInv, SaveActive
  PROVE  IInv' /\ SnapKept
<1>a. CASE Lose(NoSetup, Idle)
  <2>1. Continues(Idle, Fresh)
    BY EndContinues, FreshIs, JobFields DEF IInv, StateHas
  <2> QED BY <1>a, <2>1, LostSetupKeeps
<1>b. SUFFICES ASSUME ~Lose(NoSetup, Idle) PROVE IInv' /\ SnapKept
  BY <1>a
<1>1. PICK s : s = Settled(In("active", job.s)) /\ StateHas(s, "active", job.s.hand)
  <2>1. StateHas(In("active", job.s), "active", job.s.hand)
    BY StateEdits, JobFields DEF IInv, Phase
  <2>2. StateHas(Settled(In("active", job.s)), "active", job.s.hand)
    BY <2>1, StateEdits DEF StateHas
  <2> QED BY <2>2
<1>2. job.at = "active" BY DEF SaveActive
<1>3. PICK c, t, f : WorldOK' /\ Wrote(c, t, f)
        /\ CardHas(c, s, card.snap, card.rule, card.flag, card.journal)
        /\ JobHas(t, "idle", "none", s, None, None, None)
        /\ Ends(f)
  <2>1. WorldOK' /\ Wrote([card EXCEPT !.setup = s], [Idle EXCEPT !.s = s], Idle)
    BY <1>b, <1>1, WriteIs DEF IInv, SaveActive, Save, Replace
  <2>2. CardHas([card EXCEPT !.setup = s], s, card.snap, card.rule, card.flag, card.journal)
    BY <1>1, CardEdits, CardFields, JobFields DEF IInv, Flag, Reason, StateHas
  <2>3. JobHas([Idle EXCEPT !.s = s], "idle", "none", s, None, None, None) /\ Ends(Idle)
    BY <1>1, JobFields, ToHas, FailsHas, IdleHas, FreshIs DEF IInv, Ats, Flag, Reason, StateHas
  <2> QED BY <2>1, <2>2, <2>3
<1>4. /\ StateHas(s, "active", job.s.hand)
  BY <1>1, <1>2
<1>5. CardOK' /\ JobOK' BY <1>2, <1>3, <1>4 DEF IInv, CardOK, JobOK, Wrote, CardHas, JobHas, Ends
<1>6. Labels' BY <1>2, <1>3, <1>4 DEF IInv, Labels, StateHas, Wrote, CardHas, JobHas, Ends
<1>7. Phases' BY <1>2, <1>3, <1>4 DEF IInv, Phases, Labels, StateHas, Wrote, CardHas, JobHas, Ends
<1>8. Journalled' BY <1>2, <1>3, <1>4 DEF IInv, Journalled, Labels, StateHas, Wrote, CardHas, JobHas, Ends
<1>9. Original'
  BY <1>2, <1>3, <1>4 DEF IInv, Original, Labels, Journalled, Phases, StateHas, Wrote, CardHas,
       JobHas, Ends
<1>10. GivenBack'
  BY <1>2, <1>3, <1>4 DEF IInv, GivenBack, Labels, Phases, StateHas, Wrote, CardHas, JobHas, Ends
<1>11. PutBack'
  BY <1>2, <1>3, <1>4 DEF IInv, PutBack, Found, Labels, Phases, Journalled, Original, Reason,
       StateHas, Wrote, CardHas, JobHas, Ends
<1>12. Handed'
  BY <1>2, <1>3, <1>4 DEF IInv, Handed, Labels, Phases, StateHas, Wrote, CardHas, JobHas, Ends
<1>13. Adopted'
  BY <1>2, <1>3, <1>4 DEF IInv, Adopted, Labels, Phases, Handed, StateHas, Wrote, CardHas, JobHas, Ends
<1>14. SnapKept BY <1>2, <1>3, <1>4 DEF SnapKept, Wrote, CardHas, JobHas, Ends
<1> QED BY <1>3, <1>5, <1>6, <1>7, <1>8, <1>9, <1>10, <1>11, <1>12, <1>13, <1>14 DEF IInv

(* The hand-over an older release had begun.                               *)
LEMMA OldKeeps ==
  ASSUME IInv, Old
  PROVE  IInv' /\ SnapKept
<1>a. CASE Lose(NoSetup, Idle)
  <2>1. Continues(Idle, Fresh)
    BY EndContinues, FreshIs, JobFields DEF IInv, StateHas
  <2> QED BY <1>a, <2>1, LostSetupKeeps
<1>b. SUFFICES ASSUME ~Lose(NoSetup, Idle) PROVE IInv' /\ SnapKept
  BY <1>a
<1>1. PICK s : s = [job.s EXCEPT !.hand = None] /\ StateHas(s, job.s.phase, None)
  BY StateEdits, JobFields DEF IInv
<1>2. PICK g : g = GivesUp /\ GoesOn(g, "give_back", s, job.flag)
  BY <1>1, GivesUpHas DEF IInv
<1>3. PICK t, i : /\ t = [To("active") EXCEPT !.s = s] /\ GoesOn(t, "active", s, job.flag)
                  /\ i = Idle /\ Ends(i)
  BY <1>1, ToHas, IdleHas DEF IInv, Ats, StateHas
<1>4. PICK c : /\ c = [card EXCEPT !.setup = s]
               /\ CardHas(c, s, card.snap, card.rule, card.flag, card.journal)
  BY <1>1, CardEdits DEF IInv, StateHas
<1>5. PICK k : /\ k = [card EXCEPT !.journal = Record]
               /\ \E j \in Journal : CardHas(k, card.setup, card.snap, card.rule, card.flag, j)
  BY RecordIs, CardEdits DEF IInv
<1>6. PICK u : u = To("write_back") /\ GoesOn(u, "write_back", job.s, job.flag)
  BY ToHas DEF IInv, Ats
<1>7. job.at = "old" BY DEF Old
<1>8. /\ WorldOK'
     /\ \/ Wrote(c, t, i)
        \/ Went(g)
        \/ card.rule = job.s.hand /\ job.s.hand = Today(job.s.hand.kind) /\ Wrote(k, u, g)
  <2>1. CASE Stale(job.s)
    <3>1. Write(c, t, i)
      BY <1>b, <1>1, <1>3, <1>4, <2>1 DEF Old, Save, Replace
    <3> QED BY <3>1, WriteIs DEF IInv
  <2>2. CASE ~Stale(job.s) /\ card.rule # job.s.hand
    <3>1. Go(g)
      BY <1>2, <2>2 DEF Old
    <3> QED BY <3>1, GoIs DEF IInv, Went, Unmoved
  <2>3. CASE ~Stale(job.s) /\ card.rule = job.s.hand
    <3>1. Write(k, u, g)
      BY <1>2, <1>5, <1>6, <2>3 DEF Old
    <3>2. job.s.hand \in Dated /\ job.s.hand # None
      BY <1>7, JobFields, StateFields DEF IInv, Handed
    <3>3. job.s.hand \in Rule /\ job.s.hand.fresh = TRUE
      BY <2>3, <3>2 DEF Stale, Dated, Rule
    <3>4. job.s.hand = Today(job.s.hand.kind)
      BY <3>3 DEF Rule, Today
    <3> QED BY <2>3, <3>1, <3>4, WriteIs DEF IInv
  <2> QED BY <2>1, <2>2, <2>3
<1>9. /\ StateHas(s, job.s.phase, None)
      /\ GoesOn(g, "give_back", s, job.flag)
      /\ GoesOn(t, "active", s, job.flag)
      /\ Ends(i)
      /\ CardHas(c, s, card.snap, card.rule, card.flag, card.journal)
      /\ (\E j \in Journal : CardHas(k, card.setup, card.snap, card.rule, card.flag, j))
      /\ GoesOn(u, "write_back", job.s, job.flag)
  BY <1>1, <1>2, <1>3, <1>4, <1>5, <1>6, <1>7
<1>10. CardOK' /\ JobOK'
  BY <1>7, <1>8, <1>9 DEF IInv, CardOK, JobOK, Wrote, Went, CardHas, JobHas, GoesOn, Ends, Unmoved
<1>11. Labels' BY <1>7, <1>8, <1>9 DEF IInv, Labels, StateHas, Wrote, Went, CardHas, JobHas, GoesOn, Ends, Unmoved
<1>12. Phases'
  BY <1>7, <1>8, <1>9 DEF IInv, Phases, Labels, StateHas, Wrote, Went, CardHas, JobHas, GoesOn,
       Ends, Unmoved
<1>13. Journalled'
  BY <1>7, <1>8, <1>9 DEF IInv, Journalled, Labels, StateHas, Wrote, Went, CardHas, JobHas, GoesOn,
       Ends, Unmoved
<1>14. Original'
  BY <1>7, <1>8, <1>9 DEF IInv, Original, Labels, Journalled, Phases, StateHas, Wrote, Went,
       CardHas, JobHas, GoesOn, Ends, Unmoved
<1>15. GivenBack'
  BY <1>7, <1>8, <1>9 DEF IInv, GivenBack, Labels, Phases, StateHas, Wrote, Went, CardHas, JobHas,
       GoesOn, Ends,
       Unmoved
<1>16. PutBack'
  BY <1>7, <1>8, <1>9 DEF IInv, PutBack, Found, Labels, Phases, Journalled, Original, Reason,
       StateHas, Wrote, Went, CardHas, JobHas, GoesOn, Ends, Unmoved
<1>17. Handed'
  BY <1>7, <1>8, <1>9 DEF IInv, Handed, Labels, Phases, StateHas, Wrote, Went, CardHas, JobHas,
       GoesOn, Ends,
       Unmoved
<1>18. Adopted'
  BY <1>7, <1>8, <1>9 DEF IInv, Adopted, Labels, Phases, Handed, StateHas, Wrote, Went, CardHas,
       JobHas, GoesOn, Ends, Unmoved
<1>19. SnapKept BY <1>7, <1>8, <1>9 DEF SnapKept, Wrote, Went, CardHas, JobHas, GoesOn, Ends, Unmoved
<1> QED BY <1>8, <1>10, <1>11, <1>12, <1>13, <1>14, <1>15, <1>16, <1>17, <1>18, <1>19 DEF IInv

LEMMA WriteBackKeeps ==
  ASSUME IInv, WriteBack
  PROVE  IInv' /\ SnapKept
<1>1. job.s.hand.kind \in Slot
  <2>1. job.s.hand \in Dated /\ job.s.hand # None
    BY JobFields, StateFields DEF IInv, Handed, WriteBack
  <2> QED BY <2>1 DEF Dated, Rule, Kind, Slot
<1>2. PICK p \in Settings : /\ p = [pctl EXCEPT ![weekday] = job.s.hand.kind]
                            /\ p[weekday] = job.s.hand.kind
  BY <1>1, SlotIs DEF IInv, Slot, Kind
<1>3. PICK t, f : /\ t = To("settle")
                  /\ GoesOn(t, "settle", job.s, job.flag)
                  /\ f = To("undo_old")
                  /\ GoesOn(f, "undo_old", job.s, job.flag)
  BY ToHas DEF IInv, Ats
<1>4. job.at = "write_back" BY DEF WriteBack
<1>5. WorldOK' /\ WrotePctl(p, t, f)
  BY <1>2, <1>3, WritePctlIs DEF IInv, WriteBack
<1>6. /\ job.s.hand.kind \in Slot
      /\ p \in Settings
      /\ p[weekday] = job.s.hand.kind
      /\ GoesOn(t, "settle", job.s, job.flag)
      /\ GoesOn(f, "undo_old", job.s, job.flag)
  BY <1>1, <1>2, <1>3, <1>4
<1>7. CardOK' /\ JobOK' BY <1>4, <1>5, <1>6 DEF IInv, CardOK, JobOK, WrotePctl, JobHas, GoesOn
<1>8. Labels' BY <1>4, <1>5, <1>6 DEF IInv, Labels, WrotePctl, JobHas, GoesOn
<1>9. Phases' BY <1>4, <1>5, <1>6 DEF IInv, Phases, Labels, WrotePctl, JobHas, GoesOn
<1>10. Journalled' BY <1>4, <1>5, <1>6 DEF IInv, Journalled, Labels, WrotePctl, JobHas, GoesOn
<1>11. Original'
  BY <1>4, <1>5, <1>6 DEF IInv, Original, Labels, Journalled, Phases, WrotePctl, JobHas, GoesOn
<1>12. GivenBack' BY <1>4, <1>5, <1>6 DEF IInv, GivenBack, Labels, Phases, WrotePctl, JobHas, GoesOn
<1>13. PutBack'
  BY <1>4, <1>5, <1>6 DEF IInv, PutBack, Found, Labels, Phases, Journalled, Original, Reason,
       WrotePctl, JobHas, GoesOn
<1>14. Handed' BY <1>4, <1>5, <1>6 DEF IInv, Handed, Labels, Phases, WrotePctl, JobHas, GoesOn
<1>15. Adopted' BY <1>4, <1>5, <1>6 DEF IInv, Adopted, Labels, Phases, Handed, WrotePctl, JobHas, GoesOn
<1>16. SnapKept BY <1>4, <1>5, <1>6 DEF SnapKept, WrotePctl, JobHas, GoesOn
<1> QED BY <1>5, <1>7, <1>8, <1>9, <1>10, <1>11, <1>12, <1>13, <1>14, <1>15, <1>16 DEF IInv

LEMMA UndoOldKeeps ==
  ASSUME IInv, UndoOld
  PROVE  IInv' /\ SnapKept
<1>1. PICK s : s = [job.s EXCEPT !.hand = None] /\ StateHas(s, job.s.phase, None)
  BY StateEdits, JobFields DEF IInv
<1>2. PICK g : g = GivesUp /\ GoesOn(g, "give_back", s, job.flag)
  BY <1>1, GivesUpHas DEF IInv
<1>3. job.at = "undo_old" /\ card.journal # None BY DEF UndoOld, IInv, Journalled
<1>4. WorldOK' /\ RolledBack(g, g)
  BY <1>2, <1>3, RollbackIs DEF IInv, UndoOld
<1>5. /\ StateHas(s, job.s.phase, None)
      /\ GoesOn(g, "give_back", s, job.flag)
  BY <1>1, <1>2, <1>3
<1>6. CardOK' /\ JobOK' BY <1>3, <1>4, <1>5 DEF IInv, CardOK, JobOK, RolledBack, Ends, JobHas, GoesOn, CardHas
<1>7. Labels' BY <1>3, <1>4, <1>5 DEF IInv, Labels, StateHas, RolledBack, Ends, JobHas, GoesOn, CardHas
<1>8. Phases' BY <1>3, <1>4, <1>5 DEF IInv, Phases, Labels, StateHas, RolledBack, Ends, JobHas, GoesOn, CardHas
<1>9. Journalled'
  BY <1>3, <1>4, <1>5 DEF IInv, Journalled, Labels, StateHas, RolledBack, Ends, JobHas, GoesOn, CardHas
<1>10. Original'
  BY <1>3, <1>4, <1>5 DEF IInv, Original, Labels, Journalled, Phases, StateHas, RolledBack, Ends, JobHas,
       GoesOn,
       CardHas
<1>11. GivenBack'
  BY <1>3, <1>4, <1>5 DEF IInv, GivenBack, Labels, Phases, StateHas, RolledBack, Ends, JobHas, GoesOn, CardHas
<1>12. PutBack'
  BY <1>3, <1>4, <1>5 DEF IInv, PutBack, Found, Labels, Phases, Journalled, Original, Reason,
       StateHas, RolledBack, Ends, JobHas, GoesOn, CardHas
<1>13. Handed'
  BY <1>3, <1>4, <1>5 DEF IInv, Handed, Labels, Phases, StateHas, RolledBack, Ends, JobHas, GoesOn, CardHas
<1>14. Adopted'
  BY <1>3, <1>4, <1>5 DEF IInv, Adopted, Labels, Phases, Handed, StateHas, RolledBack, Ends, JobHas, GoesOn,
       CardHas
<1>15. SnapKept BY <1>3, <1>4, <1>5 DEF SnapKept, RolledBack, Ends, JobHas, GoesOn, CardHas
<1> QED BY <1>4, <1>6, <1>7, <1>8, <1>9, <1>10, <1>11, <1>12, <1>13, <1>14, <1>15 DEF IInv

LEMMA SettleKeeps ==
  ASSUME IInv, Settle
  PROVE  IInv' /\ SnapKept
<1>1. PICK s : s = [job.s EXCEPT !.hand = None] /\ StateHas(s, job.s.phase, None)
  BY StateEdits, JobFields DEF IInv
<1>2. PICK g : g = GivesUp /\ GoesOn(g, "give_back", s, job.flag)
  BY <1>1, GivesUpHas DEF IInv
<1>3. job.s.hand.kind \in Kind
  BY JobFields, StateFields DEF IInv, Handed, Settle, Dated, Rule
<1>4. PICK t : t = [To("clear_old") EXCEPT !.s = s] /\ GoesOn(t, "clear_old", s, job.flag)
  BY <1>1, ToHas DEF IInv, Ats, StateHas
<1>5. PICK c : /\ c = [card EXCEPT !.setup = s]
               /\ CardHas(c, s, card.snap, card.rule, card.flag, card.journal)
  BY <1>1, CardEdits DEF IInv, StateHas
<1>6. job.at = "settle" BY DEF Settle
<1>a. CASE Lose(NoSetup, g)
  <2>1. Continues(g, Fresh)
    BY <1>1, <1>2, <1>6 DEF Continues, GoesOn, JobHas, StateHas
  <2> QED BY <1>a, <2>1, LostSetupKeeps
<1>b. SUFFICES ASSUME ~Lose(NoSetup, g) PROVE IInv' /\ SnapKept
  BY <1>a
<1>7. /\ WorldOK' /\ pctl' = pctl /\ weekday' = weekday
     /\ \/ card' = card /\ job' = g /\ ghost' = ghost
        \/ card' = c /\ job' = t /\ KeptAs(pctl[weekday])
  <2>1. /\ pctl' = pctl /\ Same
        /\ \/ card' = c /\ job' = t /\ ghost' = [ghost EXCEPT !.kept = pctl[weekday]] /\ faults' = faults
           \/ Fault /\ job' = g /\ card' = card /\ ghost' = ghost
    BY <1>b, <1>1, <1>2, <1>4, <1>5 DEF Settle
  <2>2. faults' \in Nat
    BY <2>1, BoundsAssumption DEF IInv, Fault, WorldOK
  <2>3. ghost' = [ghost EXCEPT !.kept = pctl[weekday]] => ghost' \in GhostSet /\ KeptAs(pctl[weekday])
    BY KeptIs, SlotIs DEF IInv
  <2>4. WorldOK'
    BY <2>1, <2>2, <2>3 DEF IInv, WorldOK, Same
  <2> QED BY <2>1, <2>3, <2>4 DEF Same
<1>8. /\ StateHas(s, job.s.phase, None)
      /\ GoesOn(g, "give_back", s, job.flag)
      /\ job.s.hand.kind \in Kind
      /\ GoesOn(t, "clear_old", s, job.flag)
      /\ CardHas(c, s, card.snap, card.rule, card.flag, card.journal)
  BY <1>1, <1>2, <1>3, <1>4, <1>5, <1>6
<1>9. CardOK' /\ JobOK' BY <1>6, <1>7, <1>8 DEF IInv, CardOK, JobOK, CardHas, JobHas, GoesOn
<1>10. Labels' BY <1>6, <1>7, <1>8 DEF IInv, Labels, StateHas, KeptAs, CardHas, JobHas, GoesOn
<1>11. Phases' BY <1>6, <1>7, <1>8 DEF IInv, Phases, Labels, StateHas, KeptAs, CardHas, JobHas, GoesOn
<1>12. Journalled'
  BY <1>6, <1>7, <1>8 DEF IInv, Journalled, Labels, StateHas, KeptAs, CardHas, JobHas, GoesOn
<1>13. Original'
  BY <1>6, <1>7, <1>8 DEF IInv, Original, Labels, Journalled, Phases, StateHas, KeptAs, CardHas,
       JobHas, GoesOn
<1>14. GivenBack'
  BY <1>6, <1>7, <1>8 DEF IInv, GivenBack, Labels, Phases, StateHas, KeptAs, CardHas, JobHas, GoesOn
<1>15. PutBack'
  BY <1>6, <1>7, <1>8 DEF IInv, PutBack, Found, Labels, Phases, Journalled, Original, Reason,
       StateHas, KeptAs, CardHas, JobHas, GoesOn
<1>16. Handed'
  BY <1>6, <1>7, <1>8 DEF IInv, Handed, Labels, Phases, StateHas, KeptAs, CardHas, JobHas, GoesOn
<1>17. Adopted'
  BY <1>6, <1>7, <1>8 DEF IInv, Adopted, Labels, Phases, Handed, StateHas, KeptAs, CardHas, JobHas,
       GoesOn
<1>18. SnapKept BY <1>6, <1>7, <1>8 DEF SnapKept, KeptAs, CardHas, JobHas, GoesOn
<1> QED BY <1>7, <1>9, <1>10, <1>11, <1>12, <1>13, <1>14, <1>15, <1>16, <1>17, <1>18 DEF IInv

LEMMA ClearOldKeeps ==
  ASSUME IInv, ClearOld
  PROVE  IInv' /\ SnapKept
<1>1. job.at = "clear_old" BY DEF ClearOld
<1>2. PICK c, t, f : WorldOK' /\ Wrote(c, t, f)
        /\ CardHas(c, card.setup, card.snap, card.rule, card.flag, None)
        /\ GoesOn(t, "active", job.s, job.flag)
        /\ GoesOn(f, "active", job.s, job.flag)
  <2>1. WorldOK' /\ Wrote([card EXCEPT !.journal = None], To("active"), To("active"))
    BY WriteIs DEF IInv, ClearOld
  <2>2. CardHas([card EXCEPT !.journal = None], card.setup, card.snap, card.rule, card.flag, None)
    BY CardEdits, CardFields, JobFields DEF IInv, Flag, Reason, StateHas
  <2>3. GoesOn(To("active"), "active", job.s, job.flag)
    BY JobFields, ToHas, FailsHas, IdleHas, FreshIs DEF IInv, Ats, Flag, Reason, StateHas
  <2> QED BY <2>1, <2>2, <2>3
<1>3. CardOK' /\ JobOK' BY <1>1, <1>2 DEF IInv, CardOK, JobOK, Wrote, CardHas, JobHas, GoesOn
<1>4. Labels' BY <1>1, <1>2 DEF IInv, Labels, Wrote, CardHas, JobHas, GoesOn
<1>5. Phases' BY <1>1, <1>2 DEF IInv, Phases, Labels, Wrote, CardHas, JobHas, GoesOn
<1>6. Journalled' BY <1>1, <1>2 DEF IInv, Journalled, Labels, Wrote, CardHas, JobHas, GoesOn
<1>7. Original' BY <1>1, <1>2 DEF IInv, Original, Labels, Journalled, Phases, Wrote, CardHas, JobHas, GoesOn
<1>8. GivenBack' BY <1>1, <1>2 DEF IInv, GivenBack, Labels, Phases, Wrote, CardHas, JobHas, GoesOn
<1>9. PutBack'
  BY <1>1, <1>2 DEF IInv, PutBack, Found, Labels, Phases, Journalled, Original, Reason, Wrote,
       CardHas, JobHas, GoesOn
<1>10. Handed' BY <1>1, <1>2 DEF IInv, Handed, Labels, Phases, Wrote, CardHas, JobHas, GoesOn
<1>11. Adopted' BY <1>1, <1>2 DEF IInv, Adopted, Labels, Phases, Handed, Wrote, CardHas, JobHas, GoesOn
<1>12. SnapKept BY <1>1, <1>2 DEF SnapKept, Wrote, CardHas, JobHas, GoesOn
<1> QED BY <1>2, <1>3, <1>4, <1>5, <1>6, <1>7, <1>8, <1>9, <1>10, <1>11, <1>12 DEF IInv

(* Enforcement.                                                            *)
LEMMA EnforceKeeps ==
  ASSUME IInv, Enforce
  PROVE  IInv' /\ SnapKept
<1>1. PICK t, f : /\ t = [Idle EXCEPT !.op = "enforce", !.at = "apply"] /\ JobHas(t, "enforce", "apply", Fresh, None, None, None)
                  /\ f = Idle /\ Ends(f)
  BY IdleHas
<1>2. PICK c : /\ c = [card EXCEPT !.journal = Record]
               /\ \E j \in Journal : CardHas(c, card.setup, card.snap, card.rule, card.flag, j)
  BY RecordIs, CardEdits DEF IInv
<1>3. StateHas(Fresh, "unconfigured", None)
  BY FreshIs
<1>4. ghost.kept = None
  BY PlanIs DEF Enforce, Enforces, Free, IInv
<1>5. job.op = "idle" /\ card.setup.phase = "active" /\ card.flag = None /\ card.journal = None
  BY DEF Enforce, Enforces, Free
<1>6. WorldOK' /\ Wrote(c, t, f)
  BY <1>1, <1>2, WriteIs DEF IInv, Enforce
<1>7. /\ JobHas(t, "enforce", "apply", Fresh, None, None, None)
      /\ Ends(f)
      /\ (\E j \in Journal : CardHas(c, card.setup, card.snap, card.rule, card.flag, j))
      /\ StateHas(Fresh, "unconfigured", None)
      /\ ghost.kept = None
  BY <1>1, <1>2, <1>3, <1>4, <1>5
<1>8. CardOK' /\ JobOK' BY <1>5, <1>6, <1>7 DEF IInv, CardOK, JobOK, Wrote, CardHas, JobHas, Ends
<1>9. Labels' BY <1>5, <1>6, <1>7 DEF IInv, Labels, StateHas, Wrote, CardHas, JobHas, Ends
<1>10. Phases' BY <1>5, <1>6, <1>7 DEF IInv, Phases, Labels, StateHas, Wrote, CardHas, JobHas, Ends
<1>11. Journalled' BY <1>5, <1>6, <1>7 DEF IInv, Journalled, Labels, StateHas, Wrote, CardHas, JobHas, Ends
<1>12. Original'
  BY <1>5, <1>6, <1>7 DEF IInv, Original, Labels, Journalled, Phases, StateHas, Wrote, CardHas,
       JobHas, Ends
<1>13. GivenBack'
  BY <1>5, <1>6, <1>7 DEF IInv, GivenBack, Labels, Phases, StateHas, Wrote, CardHas, JobHas, Ends
<1>14. PutBack'
  BY <1>5, <1>6, <1>7 DEF IInv, PutBack, Found, Labels, Phases, Journalled, Original, Reason,
       StateHas, Wrote, CardHas, JobHas, Ends
<1>15. Handed'
  BY <1>5, <1>6, <1>7 DEF IInv, Handed, Labels, Phases, StateHas, Wrote, CardHas, JobHas, Ends
<1>16. Adopted'
  BY <1>5, <1>6, <1>7 DEF IInv, Adopted, Labels, Phases, Handed, StateHas, Wrote, CardHas, JobHas, Ends
<1>17. SnapKept BY <1>5, <1>6, <1>7 DEF SnapKept, Wrote, CardHas, JobHas, Ends
<1> QED BY <1>6, <1>8, <1>9, <1>10, <1>11, <1>12, <1>13, <1>14, <1>15, <1>16, <1>17 DEF IInv

LEMMA ApplyKeeps ==
  ASSUME IInv, Apply
  PROVE  IInv' /\ SnapKept
<1>1. Plan \in Slot
  BY CardFields DEF IInv, Plan, Dated, Rule, Kind, Slot
<1>2. PICK p \in Settings : p = [pctl EXCEPT ![weekday] = Plan] /\ p[weekday] = Plan
  BY <1>1, SlotIs DEF IInv, Slot, Kind
<1>3. PICK t, f : /\ t = To("commit")
                  /\ GoesOn(t, "commit", job.s, job.flag)
                  /\ f = To("undo_apply")
                  /\ GoesOn(f, "undo_apply", job.s, job.flag)
  BY ToHas DEF IInv, Ats
<1>4. job.at = "apply" BY DEF Apply
<1>5. WorldOK' /\ WrotePctl(p, t, f)
  BY <1>2, <1>3, WritePctlIs DEF IInv, Apply
<1>6. /\ Plan \in Slot
      /\ p \in Settings
      /\ p[weekday] = Plan
      /\ GoesOn(t, "commit", job.s, job.flag)
      /\ GoesOn(f, "undo_apply", job.s, job.flag)
  BY <1>1, <1>2, <1>3, <1>4
<1>7. CardOK' /\ JobOK' BY <1>4, <1>5, <1>6 DEF IInv, CardOK, JobOK, WrotePctl, JobHas, GoesOn
<1>8. Labels' BY <1>4, <1>5, <1>6 DEF IInv, Labels, WrotePctl, JobHas, GoesOn
<1>9. Phases' BY <1>4, <1>5, <1>6 DEF IInv, Phases, Labels, WrotePctl, JobHas, GoesOn
<1>10. Journalled' BY <1>4, <1>5, <1>6 DEF IInv, Journalled, Labels, WrotePctl, JobHas, GoesOn
<1>11. Original'
  BY <1>4, <1>5, <1>6 DEF IInv, Original, Labels, Journalled, Phases, WrotePctl, JobHas, GoesOn
<1>12. GivenBack' BY <1>4, <1>5, <1>6 DEF IInv, GivenBack, Labels, Phases, WrotePctl, JobHas, GoesOn
<1>13. PutBack'
  BY <1>4, <1>5, <1>6 DEF IInv, PutBack, Found, Labels, Phases, Journalled, Original, Reason,
       WrotePctl, JobHas, GoesOn
<1>14. Handed' BY <1>4, <1>5, <1>6 DEF IInv, Handed, Labels, Phases, WrotePctl, JobHas, GoesOn
<1>15. Adopted' BY <1>4, <1>5, <1>6 DEF IInv, Adopted, Labels, Phases, Handed, WrotePctl, JobHas, GoesOn
<1>16. SnapKept BY <1>4, <1>5, <1>6 DEF SnapKept, WrotePctl, JobHas, GoesOn
<1> QED BY <1>5, <1>7, <1>8, <1>9, <1>10, <1>11, <1>12, <1>13, <1>14, <1>15, <1>16 DEF IInv

LEMMA UndoApplyKeeps ==
  ASSUME IInv, UndoApply
  PROVE  IInv' /\ SnapKept
<1>1. PICK t, f : /\ t = Idle /\ Ends(t)
                  /\ f = Fails(job.s, "other", "flag") /\ GoesOn(f, "flag", job.s, "other")
  BY JobFields, ToHas, FailsHas, IdleHas DEF IInv, Ats, Flag, Reason
<1>2. job.at = "undo_apply" /\ card.journal # None BY DEF UndoApply, IInv, Journalled
<1>3. WorldOK' /\ RolledBack(t, f)
  BY <1>1, <1>2, RollbackIs DEF IInv, UndoApply
<1>4. /\ Ends(t)
      /\ GoesOn(f, "flag", job.s, "other")
  BY <1>1, <1>2
<1>5. /\ CardOK'
      /\ JobOK' BY <1>2, <1>3, <1>4 DEF IInv, CardOK, JobOK, RolledBack, JobHas, GoesOn, Ends, CardHas
<1>6. Labels' BY <1>2, <1>3, <1>4 DEF IInv, Labels, StateHas, RolledBack, JobHas, GoesOn, Ends, CardHas
<1>7. Phases' BY <1>2, <1>3, <1>4 DEF IInv, Phases, Labels, StateHas, RolledBack, JobHas, GoesOn, Ends, CardHas
<1>8. Journalled'
  BY <1>2, <1>3, <1>4 DEF IInv, Journalled, Labels, StateHas, RolledBack, JobHas, GoesOn, Ends, CardHas
<1>9. Original'
  BY <1>2, <1>3, <1>4 DEF IInv, Original, Labels, Journalled, Phases, StateHas, RolledBack, JobHas,
       GoesOn, Ends,
       CardHas
<1>10. GivenBack'
  BY <1>2, <1>3, <1>4 DEF IInv, GivenBack, Labels, Phases, StateHas, RolledBack, JobHas, GoesOn,
       Ends, CardHas
<1>11. PutBack'
  BY <1>2, <1>3, <1>4 DEF IInv, PutBack, Found, Labels, Phases, Journalled, Original, Reason,
       StateHas, RolledBack, JobHas, GoesOn, Ends, CardHas
<1>12. Handed'
  BY <1>2, <1>3, <1>4 DEF IInv, Handed, Labels, Phases, StateHas, RolledBack, JobHas, GoesOn, Ends,
       CardHas
<1>13. Adopted'
  BY <1>2, <1>3, <1>4 DEF IInv, Adopted, Labels, Phases, Handed, StateHas, RolledBack, JobHas,
       GoesOn, Ends,
       CardHas
<1>14. SnapKept BY <1>2, <1>3, <1>4 DEF SnapKept, RolledBack, JobHas, GoesOn, Ends, CardHas
<1> QED BY <1>3, <1>5, <1>6, <1>7, <1>8, <1>9, <1>10, <1>11, <1>12, <1>13, <1>14 DEF IInv

LEMMA CommitKeeps ==
  ASSUME IInv, Commit
  PROVE  IInv' /\ SnapKept
<1>1. job.at = "commit" BY DEF Commit
<1>2. PICK c, t, f : WorldOK' /\ Wrote(c, t, f)
        /\ CardHas(c, card.setup, card.snap, card.rule, card.flag, None)
        /\ Ends(t)
        /\ Ends(f)
  <2>1. WorldOK' /\ Wrote([card EXCEPT !.journal = None], Idle, Idle)
    BY WriteIs DEF IInv, Commit
  <2>2. CardHas([card EXCEPT !.journal = None], card.setup, card.snap, card.rule, card.flag, None)
    BY CardEdits, CardFields, JobFields DEF IInv, Flag, Reason, StateHas
  <2>3. Ends(Idle)
    BY JobFields, ToHas, FailsHas, IdleHas, FreshIs DEF IInv, Ats, Flag, Reason, StateHas
  <2> QED BY <2>1, <2>2, <2>3
<1>3. CardOK' /\ JobOK' BY <1>1, <1>2 DEF IInv, CardOK, JobOK, Wrote, CardHas, JobHas, Ends
<1>4. Labels' BY <1>1, <1>2 DEF IInv, Labels, StateHas, Wrote, CardHas, JobHas, Ends
<1>5. Phases' BY <1>1, <1>2 DEF IInv, Phases, Labels, StateHas, Wrote, CardHas, JobHas, Ends
<1>6. Journalled' BY <1>1, <1>2 DEF IInv, Journalled, Labels, StateHas, Wrote, CardHas, JobHas, Ends
<1>7. Original'
  BY <1>1, <1>2 DEF IInv, Original, Labels, Journalled, Phases, StateHas, Wrote, CardHas, JobHas, Ends
<1>8. GivenBack' BY <1>1, <1>2 DEF IInv, GivenBack, Labels, Phases, StateHas, Wrote, CardHas, JobHas, Ends
<1>9. PutBack'
  BY <1>1, <1>2 DEF IInv, PutBack, Found, Labels, Phases, Journalled, Original, Reason, StateHas,
       Wrote, CardHas, JobHas, Ends
<1>10. Handed' BY <1>1, <1>2 DEF IInv, Handed, Labels, Phases, StateHas, Wrote, CardHas, JobHas, Ends
<1>11. Adopted'
  BY <1>1, <1>2 DEF IInv, Adopted, Labels, Phases, Handed, StateHas, Wrote, CardHas, JobHas, Ends
<1>12. SnapKept BY <1>1, <1>2 DEF SnapKept, Wrote, CardHas, JobHas, Ends
<1> QED BY <1>2, <1>3, <1>4, <1>5, <1>6, <1>7, <1>8, <1>9, <1>10, <1>11, <1>12 DEF IInv

LEMMA ConfirmKeeps ==
  ASSUME IInv, Confirm
  PROVE  IInv' /\ SnapKept
<1>1. StateHas(Fresh, "unconfigured", None)
  BY FreshIs
<1>2. pctl[weekday] # Plan => ghost.kept = None
  BY PlanIs DEF IInv
<1>3. job.op = "idle" /\ card.setup.phase = "active" /\ card.journal # None
  BY DEF Confirm, Enforces, Free
<1>4. /\ WorldOK' /\ Unmoved
     /\ \/ JobHas(job', "enforce", "commit", Fresh, None, None, None)
        \/ pctl[weekday] # Plan /\ JobHas(job', "enforce", "undo_apply", Fresh, None, None, None)
  <2>1. WorldOK' /\ Unmoved
    BY DEF IInv, Confirm, WorldOK, Unmoved
  <2> QED BY <2>1, IdleHas DEF Confirm
<1>5. /\ StateHas(Fresh, "unconfigured", None)
      /\ pctl[weekday] # Plan => ghost.kept = None
  BY <1>1, <1>2, <1>3
<1>6. CardOK' /\ JobOK' BY <1>3, <1>4, <1>5 DEF IInv, CardOK, JobOK, Unmoved, JobHas
<1>7. Labels' BY <1>3, <1>4, <1>5 DEF IInv, Labels, StateHas, Unmoved, JobHas
<1>8. Phases' BY <1>3, <1>4, <1>5 DEF IInv, Phases, Labels, StateHas, Unmoved, JobHas
<1>9. Journalled' BY <1>3, <1>4, <1>5 DEF IInv, Journalled, Labels, StateHas, Unmoved, JobHas
<1>10. Original'
  BY <1>3, <1>4, <1>5 DEF IInv, Original, Labels, Journalled, Phases, StateHas, Unmoved, JobHas
<1>11. GivenBack' BY <1>3, <1>4, <1>5 DEF IInv, GivenBack, Labels, Phases, StateHas, Unmoved, JobHas
<1>12. PutBack'
  BY <1>3, <1>4, <1>5 DEF IInv, PutBack, Found, Labels, Phases, Journalled, Original, Reason,
       StateHas, Unmoved, JobHas
<1>13. Handed' BY <1>3, <1>4, <1>5 DEF IInv, Handed, Labels, Phases, StateHas, Unmoved, JobHas
<1>14. Adopted'
  BY <1>3, <1>4, <1>5 DEF IInv, Adopted, Labels, Phases, Handed, StateHas, Unmoved, JobHas
<1>15. SnapKept BY <1>3, <1>4, <1>5 DEF SnapKept, Unmoved, JobHas
<1> QED BY <1>4, <1>6, <1>7, <1>8, <1>9, <1>10, <1>11, <1>12, <1>13, <1>14, <1>15 DEF IInv

(* What the service does not do.                                           *)
LEMMA NextDayKeeps ==
  ASSUME IInv, NextDay
  PROVE  IInv' /\ SnapKept
<1>1. PICK h \in Dated, r \in Dated, j \in Journal \cup {None} :
        /\ card' = [card EXCEPT !.setup.hand = h, !.rule = r, !.journal = j]
        /\ (j = None <=> card.journal = None)
  <2>1. Aged(card.setup.hand) \in Dated /\ Aged(card.rule) \in Dated
    BY AgedIs, CardFields, StateFields DEF IInv
  <2>2. card.journal # None => [pctl |-> card.journal.pctl, rule |-> Aged(card.journal.rule)] \in Journal
    BY AgedIs, CardFields DEF IInv, Journal
  <2>3. None \notin Journal
    BY NativesAssumption
  <2>4. PICK j \in Journal \cup {None} : j = (IF card.journal = None THEN None ELSE [pctl |-> card.journal.pctl, rule |-> Aged(card.journal.rule)])
    BY <2>2
  <2>5. card' = [card EXCEPT !.setup.hand = Aged(card.setup.hand), !.rule = Aged(card.rule), !.journal = j]
    BY <2>4, Zenon DEF NextDay
  <2>6. j = None <=> card.journal = None
    BY <2>2, <2>3, <2>4
  <2> QED BY <2>1, <2>5, <2>6
<1>2. PICK s : s = [card.setup EXCEPT !.hand = h] /\ StateHas(s, card.setup.phase, h)
  BY StateEdits, CardFields DEF IInv
<1>3. job.op = "idle" BY DEF NextDay
<1>4. /\ WorldOK' /\ CardHas(card', s, card.snap, r, card.flag, j)
     /\ pctl' = pctl /\ job' = job /\ KeptAs(None)
  <2>1. CardHas(card', s, card.snap, r, card.flag, j)
    BY <1>1, <1>2 DEF CardHas, CardOK, CardSet, IInv, StateHas
  <2>2. ghost' \in GhostSet /\ KeptAs(None)
    BY KeptIs DEF NextDay, IInv
  <2>3. weekday' \in Weekday
    BY DEF NextDay, IInv, WorldOK, Weekday
  <2> QED BY <2>1, <2>2, <2>3 DEF NextDay, IInv, WorldOK
<1>5. /\ h \in Dated
      /\ r \in Dated
      /\ j \in Journal \cup {None}
      /\ (j = None <=> card.journal = None)
      /\ StateHas(s, card.setup.phase, h)
  BY <1>1, <1>2, <1>3
<1>6. CardOK' /\ JobOK' BY <1>3, <1>4, <1>5 DEF IInv, CardOK, JobOK, CardHas
<1>7. Labels' BY <1>3, <1>4, <1>5 DEF IInv, Labels, StateHas, KeptAs, CardHas
<1>8. Phases' BY <1>3, <1>4, <1>5 DEF IInv, Phases, Labels, StateHas, KeptAs, CardHas
<1>9. Journalled' BY <1>3, <1>4, <1>5 DEF IInv, Journalled, Labels, StateHas, KeptAs, CardHas
<1>10. Original'
  BY <1>3, <1>4, <1>5 DEF IInv, Original, Labels, Journalled, Phases, StateHas, KeptAs, CardHas
<1>11. GivenBack' BY <1>3, <1>4, <1>5 DEF IInv, GivenBack, Labels, Phases, StateHas, KeptAs, CardHas
<1>12. PutBack'
  BY <1>3, <1>4, <1>5 DEF IInv, PutBack, Found, Labels, Phases, Journalled, Original, Reason,
       StateHas, KeptAs, CardHas
<1>13. Handed' BY <1>3, <1>4, <1>5 DEF IInv, Handed, Labels, Phases, StateHas, KeptAs, CardHas
<1>14. Adopted'
  BY <1>3, <1>4, <1>5 DEF IInv, Adopted, Labels, Phases, Handed, StateHas, KeptAs, CardHas
<1>15. SnapKept BY <1>3, <1>4, <1>5 DEF SnapKept, KeptAs, CardHas
<1> QED BY <1>4, <1>6, <1>7, <1>8, <1>9, <1>10, <1>11, <1>12, <1>13, <1>14, <1>15 DEF IInv

LEMMA ParentMovesKeeps ==
  ASSUME IInv, ParentMoves
  PROVE  IInv' /\ SnapKept
<1>1. job.op = "idle" BY DEF ParentMoves
<1>2. /\ WorldOK' /\ card' = card /\ job' = job /\ weekday' = weekday /\ pctl' \in Natives
     /\ ghost'.touched = TRUE /\ ghost'.kept = None /\ ghost'.written = ghost.written
        /\ ghost'.told = ghost.told /\ ghost'.lifted = ghost.lifted
  <2>1. /\ ghost' \in GhostSet /\ ghost'.touched = TRUE /\ ghost'.kept = None /\ ghost'.written = ghost.written
        /\ ghost'.told = ghost.told /\ ghost'.lifted = ghost.lifted
    BY DEF ParentMoves, IInv, WorldOK, GhostSet
  <2>2. pctl' \in Natives /\ pctl' \in Settings
    BY NativesAssumption DEF ParentMoves
  <2>3. moves' \in Nat
    BY DEF ParentMoves, Moves, IInv, WorldOK
  <2> QED BY <2>1, <2>2, <2>3 DEF ParentMoves, IInv, WorldOK
<1>3. CardOK' /\ JobOK' BY <1>1, <1>2 DEF IInv, CardOK, JobOK
<1>4. Labels' BY <1>1, <1>2 DEF IInv, Labels
<1>5. Phases' BY <1>1, <1>2 DEF IInv, Phases, Labels
<1>6. Journalled' BY <1>1, <1>2 DEF IInv, Journalled, Labels
<1>7. Original' BY <1>1, <1>2 DEF IInv, Original, Labels, Journalled, Phases
<1>8. GivenBack' BY <1>1, <1>2 DEF IInv, GivenBack, Labels, Phases
<1>9. PutBack' BY <1>1, <1>2 DEF IInv, PutBack, Found, Labels, Phases, Journalled, Original, Reason
<1>10. Handed' BY <1>1, <1>2 DEF IInv, Handed, Labels, Phases
<1>11. Adopted' BY <1>1, <1>2 DEF IInv, Adopted, Labels, Phases, Handed
<1>12. SnapKept BY <1>1, <1>2 DEF SnapKept
<1> QED BY <1>2, <1>3, <1>4, <1>5, <1>6, <1>7, <1>8, <1>9, <1>10, <1>11, <1>12 DEF IInv

LEMMA PlaceKeeps ==
  ASSUME IInv, Place
  PROVE  IInv' /\ SnapKept
<1>1. /\ WorldOK' /\ pctl' = pctl /\ job' = job /\ weekday' = weekday /\ ghost' = ghost
     /\ \E x \in {card.flag, "other"} : CardHas(card', card.setup, card.snap, card.rule, x, card.journal)
  <2>1. moves' \in Nat
    BY DEF Place, Moves, IInv, WorldOK
  <2>2. \E x \in {card.flag, "other"} : CardHas(card', card.setup, card.snap, card.rule, x, card.journal)
    BY CardEdits DEF Place, IInv, Flag, Reason
  <2> QED BY <2>1, <2>2 DEF Place, IInv, WorldOK
<1>2. CardOK' /\ JobOK' BY <1>1 DEF IInv, CardOK, JobOK, CardHas
<1>3. Labels' BY <1>1 DEF IInv, Labels, CardHas
<1>4. Phases' BY <1>1 DEF IInv, Phases, Labels, CardHas
<1>5. Journalled' BY <1>1 DEF IInv, Journalled, Labels, CardHas
<1>6. Original' BY <1>1 DEF IInv, Original, Labels, Journalled, Phases, CardHas
<1>7. GivenBack' BY <1>1 DEF IInv, GivenBack, Labels, Phases, CardHas
<1>8. PutBack'
  BY <1>1 DEF IInv, PutBack, Found, Labels, Phases, Journalled, Original, Reason, CardHas
<1>9. Handed' BY <1>1 DEF IInv, Handed, Labels, Phases, CardHas
<1>10. Adopted' BY <1>1 DEF IInv, Adopted, Labels, Phases, Handed, CardHas
<1>11. SnapKept BY <1>1 DEF SnapKept, CardHas
<1> QED BY <1>1, <1>2, <1>3, <1>4, <1>5, <1>6, <1>7, <1>8, <1>9, <1>10, <1>11 DEF IInv

LEMMA UpgradeKeeps ==
  ASSUME IInv, Upgrade
  PROVE  IInv' /\ SnapKept
<1>1. /\ WorldOK' /\ pctl' = pctl /\ job' = job /\ weekday' = weekday /\ ghost' = ghost
     /\ CardHas(card', card.setup, card.snap, card.rule, card.flag, card.journal)
  <2>1. moves' \in Nat
    BY DEF Upgrade, Moves, IInv, WorldOK
  <2>2. CardHas(card', card.setup, card.snap, card.rule, card.flag, card.journal)
    BY CardEdits DEF Upgrade, IInv
  <2> QED BY <2>1, <2>2 DEF Upgrade, IInv, WorldOK
<1>2. CardOK' /\ JobOK' BY <1>1 DEF IInv, CardOK, JobOK, CardHas
<1>3. Labels' BY <1>1 DEF IInv, Labels, CardHas
<1>4. Phases' BY <1>1 DEF IInv, Phases, Labels, CardHas
<1>5. Journalled' BY <1>1 DEF IInv, Journalled, Labels, CardHas
<1>6. Original' BY <1>1 DEF IInv, Original, Labels, Journalled, Phases, CardHas
<1>7. GivenBack' BY <1>1 DEF IInv, GivenBack, Labels, Phases, CardHas
<1>8. PutBack'
  BY <1>1 DEF IInv, PutBack, Found, Labels, Phases, Journalled, Original, Reason, CardHas
<1>9. Handed' BY <1>1 DEF IInv, Handed, Labels, Phases, CardHas
<1>10. Adopted' BY <1>1 DEF IInv, Adopted, Labels, Phases, Handed, CardHas
<1>11. SnapKept BY <1>1 DEF SnapKept, CardHas
<1> QED BY <1>1, <1>2, <1>3, <1>4, <1>5, <1>6, <1>7, <1>8, <1>9, <1>10, <1>11 DEF IInv

LEMMA PowerOffKeeps ==
  ASSUME IInv, PowerOff
  PROVE  IInv' /\ SnapKept
<1>1. StateHas(Fresh, "unconfigured", None)
  BY FreshIs
<1>2. WorldOK' /\ Unmoved /\ Ends(job')
  <2>1. faults' \in Nat
    BY BoundsAssumption DEF PowerOff, Fault, IInv, WorldOK
  <2> QED BY <2>1, IdleHas DEF PowerOff, Off, IInv, WorldOK, Unmoved
<1>3. /\ StateHas(Fresh, "unconfigured", None)
  BY <1>1
<1>4. CardOK' /\ JobOK' BY <1>2, <1>3 DEF IInv, CardOK, JobOK, Unmoved, JobHas, Ends
<1>5. Labels' BY <1>2, <1>3 DEF IInv, Labels, StateHas, Unmoved, JobHas, Ends
<1>6. Phases' BY <1>2, <1>3 DEF IInv, Phases, Labels, StateHas, Unmoved, JobHas, Ends
<1>7. Journalled' BY <1>2, <1>3 DEF IInv, Journalled, Labels, StateHas, Unmoved, JobHas, Ends
<1>8. Original'
  BY <1>2, <1>3 DEF IInv, Original, Labels, Journalled, Phases, StateHas, Unmoved, JobHas, Ends
<1>9. GivenBack' BY <1>2, <1>3 DEF IInv, GivenBack, Labels, Phases, StateHas, Unmoved, JobHas, Ends
<1>10. PutBack'
  BY <1>2, <1>3 DEF IInv, PutBack, Found, Labels, Phases, Journalled, Original, Reason, StateHas,
       Unmoved, JobHas, Ends
<1>11. Handed' BY <1>2, <1>3 DEF IInv, Handed, Labels, Phases, StateHas, Unmoved, JobHas, Ends
<1>12. Adopted' BY <1>2, <1>3 DEF IInv, Adopted, Labels, Phases, Handed, StateHas, Unmoved, JobHas, Ends
<1>13. SnapKept BY <1>2, <1>3 DEF SnapKept, Unmoved, JobHas, Ends
<1> QED BY <1>2, <1>4, <1>5, <1>6, <1>7, <1>8, <1>9, <1>10, <1>11, <1>12, <1>13 DEF IInv

LEMMA PowerOnKeeps ==
  ASSUME IInv, PowerOn
  PROVE  IInv' /\ SnapKept
<1>1. WorldOK' /\ Unmoved /\ job' = job
  BY DEF PowerOn, IInv, WorldOK, Unmoved
<1>2. CardOK' /\ JobOK' BY <1>1 DEF IInv, CardOK, JobOK, Unmoved
<1>3. Labels' BY <1>1 DEF IInv, Labels, Unmoved
<1>4. Phases' BY <1>1 DEF IInv, Phases, Labels, Unmoved
<1>5. Journalled' BY <1>1 DEF IInv, Journalled, Labels, Unmoved
<1>6. Original' BY <1>1 DEF IInv, Original, Labels, Journalled, Phases, Unmoved
<1>7. GivenBack' BY <1>1 DEF IInv, GivenBack, Labels, Phases, Unmoved
<1>8. PutBack'
  BY <1>1 DEF IInv, PutBack, Found, Labels, Phases, Journalled, Original, Reason, Unmoved
<1>9. Handed' BY <1>1 DEF IInv, Handed, Labels, Phases, Unmoved
<1>10. Adopted' BY <1>1 DEF IInv, Adopted, Labels, Phases, Handed, Unmoved
<1>11. SnapKept BY <1>1 DEF SnapKept, Unmoved
<1> QED BY <1>1, <1>2, <1>3, <1>4, <1>5, <1>6, <1>7, <1>8, <1>9, <1>10, <1>11 DEF IInv

-----------------------------------------------------------------------------
(***************************************************************************)
(* The theorems.                                                           *)
(***************************************************************************)
LEMMA InitInvariant == Init => IInv
<1> SUFFICES ASSUME Init PROVE IInv
  OBVIOUS
<1>1. Ends(job) /\ StateHas(Fresh, "unconfigured", None)
  BY IdleHas, FreshIs DEF Init
<1>2. faults \in Nat /\ moves \in Nat /\ weekday = 0 /\ power \in [on : BOOLEAN, checked : BOOLEAN]
  BY DEF Init
<1>3. PICK n \in Natives, b \in BOOLEAN :
        /\ ghost = [written |-> b, touched |-> FALSE, undone |-> FALSE, told |-> TRUE, kept |-> None, lifted |-> None]
        /\ \/ card = Card(Fresh, None, None) /\ pctl = n /\ b = FALSE
           \/ /\ n[0] \in Kind
              /\ card = Card([phase |-> "released", hand |-> Today(n[0]), grace |-> TRUE, offered |-> TRUE], n, Today(n[0]))
              /\ pctl = [n EXCEPT ![0] = "free"]
  BY Zenon DEF Init
<1>4. ghost \in GhostSet /\ ghost.kept = None /\ ghost.written = b
  BY <1>3 DEF GhostSet
<1>5. n \in Settings /\ n # None
  BY NativesAssumption
<1>6. CASE card = Card(Fresh, None, None) /\ pctl = n /\ b = FALSE
  <2>1. /\ card \in CardSet
        /\ card.setup = Fresh
        /\ card.snap = None
        /\ card.flag = None
        /\ card.journal = None
    BY <1>6, <1>1 DEF CardSet, Card, Dated, Flag, StateHas
  <2>2. CardOK /\ JobOK /\ WorldOK
    BY <1>1, <1>2, <1>4, <1>5, <1>6, <2>1 DEF CardOK, JobOK, WorldOK, JobHas, Ends, Weekday
  <2>3. Labels /\ Phases /\ Journalled /\ Original /\ GivenBack /\ Handed /\ Adopted
    BY <1>1, <1>4, <1>6, <2>1 DEF Labels, Phases, Journalled, Original, GivenBack, Handed, Adopted,
         JobHas, Ends, StateHas
  <2>4. PutBack
    BY <1>1, <2>1, NativesAssumption DEF PutBack, JobHas, Ends, Reason
  <2> QED BY <2>2, <2>3, <2>4 DEF IInv
<1>7. CASE /\ n[0] \in Kind
           /\ card = Card([phase |-> "released", hand |-> Today(n[0]), grace |-> TRUE, offered |-> TRUE], n, Today(n[0]))
           /\ pctl = [n EXCEPT ![0] = "free"]
  <2>1. PICK d \in Rule : d = Today(n[0])
    BY <1>7 DEF Today, Rule
  <2>2. d \in Dated
    BY <2>1 DEF Dated
  <2>3. PICK s : /\ s = [phase |-> "released", hand |-> d, grace |-> TRUE, offered |-> TRUE]
                 /\ s \in State /\ s.phase = "released"
    <3>1. "released" \in Phase
      BY DEF Phase
    <3>2. [phase |-> "released", hand |-> d, grace |-> TRUE, offered |-> TRUE] \in State
      BY <2>2, <3>1 DEF State
    <3> QED BY <3>2
  <2>4. card \in CardSet /\ card.setup = s /\ card.snap = n /\ card.flag = None /\ card.journal = None
    BY <1>7, <2>1, <2>3 DEF CardSet, Card, Dated, Flag
  <2>5. pctl \in Settings
    BY <1>7, <1>5 DEF Settings, Slot
  <2>6. CardOK /\ JobOK /\ WorldOK
    BY <1>1, <1>2, <1>4, <2>5, <2>4 DEF CardOK, JobOK, WorldOK, JobHas, Ends, Weekday
  <2>7. Labels /\ Phases /\ Journalled /\ Original /\ GivenBack /\ Handed /\ Adopted
    BY <1>1, <1>4, <1>5, <2>3, <2>4 DEF Labels, Phases, Journalled, Original, GivenBack, Handed,
         Adopted, JobHas, Ends, StateHas
  <2>8. PutBack
    BY <1>1, <2>4, NativesAssumption DEF PutBack, JobHas, Ends, Reason
  <2> QED BY <2>6, <2>7, <2>8 DEF IInv
<1> QED BY <1>3, <1>6, <1>7

LEMMA StepInvariant ==
  ASSUME IInv, Next
  PROVE  IInv' /\ SnapKept
<1>1. CASE Request
  BY <1>1, CompleteKeeps, RetryKeeps, RestoreKeeps DEF Request
<1>2. CASE Bootstrap
  BY <1>2, RestoreByHandKeeps, RetryByHandKeeps, StartupKeeps, GateKeeps, ActivateKeeps DEF Bootstrap
<1>3. CASE Enforcement
  BY <1>3, EnforceKeeps, ConfirmKeeps DEF Enforcement
<1>4. CASE JobStep
  BY <1>4, UndoFirstKeeps, PreflightKeeps, RefuseKeeps, PersistRuleKeeps, SavePendingKeeps, DirectKeeps,
     AdoptKeeps, UnflagKeeps, TakeSnapshotKeeps, LiftKeeps, SaveReleasedKeeps, UndoKeeps, SaveGraceKeeps,
     SaveFailedKeeps, WriteFlagKeeps, GiveBackKeeps, RestrictNothingKeeps, SaveRestoredKeeps,
     RemoveRestoreKeeps, ClearKeeps, UndoLeftKeeps, RearmKeeps, RemoveRetryKeeps, RemoveFlagKeeps,
     SaveActiveKeeps, OldKeeps, WriteBackKeeps, UndoOldKeeps, SettleKeeps, ClearOldKeeps, ApplyKeeps,
     UndoApplyKeeps, CommitKeeps DEF JobStep
<1>5. CASE NextDay \/ ParentMoves \/ Place \/ Upgrade \/ PowerOff \/ PowerOn
  BY <1>5, NextDayKeeps, ParentMovesKeeps, PlaceKeeps, UpgradeKeeps, PowerOffKeeps, PowerOnKeeps
<1> QED BY <1>1, <1>2, <1>3, <1>4, <1>5 DEF Next

(* The invariant holds in every behaviour.                                 *)
THEOREM Invariance == Spec => []IInv
<1>1. ASSUME IInv, UNCHANGED vars PROVE IInv'
  BY <1>1 DEF vars, IInv, CardOK, JobOK, WorldOK, Labels, Phases, Journalled, Original, GivenBack,
       PutBack, Found, Handed, Adopted
<1>2. IInv /\ [Next]_vars => IInv'
  BY <1>1, StepInvariant
<1> QED BY InitInvariant, <1>2, PTL DEF Spec

(* Type correctness, for any settings, faults and moves.                   *)
THEOREM TypeCorrect == Spec => [](CardOK /\ JobOK /\ WorldOK)
<1>1. IInv => CardOK /\ JobOK /\ WorldOK
  BY DEF IInv
<1> QED BY Invariance, <1>1, PTL

(* Before PCTL is changed save_install_snapshot has put settings the       *)
(* parent made on the card, and no take-over, restore or repair replaces   *)
(* them (OriginalIsKept).                                                  *)
THEOREM OriginalKept == Spec => OriginalIsKept
<1>1. IInv => (ghost.written \/ card.setup.phase = "active" => card.snap \in Natives)
  BY CardFields DEF IInv, Original
<1>2. IInv /\ [Next]_vars => [card.snap # None => card.snap' = card.snap]_vars
  BY StepInvariant DEF SnapKept
<1> QED BY Invariance, <1>1, <1>2, PTL DEF Spec, OriginalIsKept

(* What restore_install_snapshot_now gave back stays in force until the    *)
(* parent changes it, or the transaction of an earlier boot is undone      *)
(* (RestoredIsOriginal).                                                   *)
THEOREM RestoredHolds == Spec => []RestoredIsOriginal
<1>1. IInv => RestoredIsOriginal
  BY DEF IInv, GivenBack, RestoredIsOriginal
<1> QED BY Invariance, <1>1, PTL

(* After a release_setup_now that failed and said so, PCTL is as that      *)
(* attempt, or the installation, found it (FailedReleaseIsUndone).         *)
THEOREM FailuresUndone == Spec => []FailedReleaseIsUndone
<1>1. IInv => FailedReleaseIsUndone
  BY DEF IInv, PutBack, Found, FailedReleaseIsUndone
<1> QED BY Invariance, <1>1, PTL

(* The allowance direct_handover_now adopted is not changed by any later   *)
(* enforcement of the same day (TodayIsKept).                              *)
THEOREM TodayKept == Spec => []TodayIsKept
<1>1. IInv => TodayIsKept
  BY DEF IInv, Adopted, TodayIsKept
<1> QED BY Invariance, <1>1, PTL

=============================================================================
