------------------------- MODULE TransactionProofs -------------------------
(***************************************************************************)
(* Proofs about the write path, for any set of requests, any kinds and     *)
(* codes, and any number of crashes, faults and dock changes.              *)
(* First the types and whose a journal is, then the book of grants and     *)
(* the answers.                                                            *)
(***************************************************************************)
EXTENDS Transaction, TLAPS

(* The type invariant, in four parts.                                      *)
FilesOK ==
  /\ inbox \in [Requests -> {"none", "pending", "processing", "done"}]
  /\ result \in [Requests -> {"none", "ok", "error"}]
  /\ tries \in [Requests -> Nat]
  /\ store \in Contents /\ saved \in Contents /\ next \in Contents
  /\ owner \in Actor \cup {Nobody} /\ have \in SUBSET Item

ControlOK == pc \in Label /\ actor \in Actor /\ at \in 1 .. 7 /\ cont \in Return

SwitchesOK == disabled \in BOOLEAN /\ undocked \in BOOLEAN /\ undoOk \in BOOLEAN

HistoryOK ==
  /\ crashes \in 0 .. MaxCrashes /\ faults \in 0 .. MaxFaults /\ flips \in 0 .. MaxFlips
  /\ harmed \in SUBSET {"file", "undo", "join", "clear", "answer"}

(* The type invariant is the conjunction of its four parts.                *)
LEMMA TypeParts == TypeOK <=> FilesOK /\ ControlOK /\ SwitchesOK /\ HistoryOK
BY DEF TypeOK, FilesOK, ControlOK, SwitchesOK, HistoryOK

(* Type correctness needs the position to stay inside the body and inside  *)
(* the rollback order.                                                     *)
Positions ==
  /\ pc = "undo" => at \in 1 .. Len(UndoOrder)
  /\ pc = "body" => at \in 1 .. Len(Body(actor))

(* The worker is the background owner while it starts up.                  *)
BootActor ==
  pc = "boot" \/ (pc \in {"undo", "clear", "flag"} /\ cont = "boot") => actor = Enforcer

IInv == FilesOK /\ ControlOK /\ SwitchesOK /\ HistoryOK /\ Positions /\ BootActor /\ OwnJournalOnly

USE DEF Actor

(* A body has at most seven steps, each of them a known one.               *)
LEMMA BodyShape ==
  ASSUME NEW a \in Actor
  PROVE  /\ Len(Body(a)) \in 3 .. 7
         /\ \A k \in 1 .. Len(Body(a)) :
              Body(a)[k] \in Item \cup {"observe", "result", "waived"}
<1>1. CASE a = Enforcer
  BY <1>1 DEF Body, Item
<1>2. CASE a \in Requests
  <2>1. Kind[a] \in {"add", "code", "buffer", "waive"} /\ a # Enforcer
    BY <1>2, KindAssumption, ActorsAssumption
  <2>2. CASE Kind[a] = "add"
    BY <2>1, <2>2 DEF Body, Item
  <2>3. CASE Kind[a] = "code"
    BY <2>1, <2>3 DEF Body, Item
  <2>4. CASE Kind[a] = "buffer"
    BY <2>1, <2>4 DEF Body, Item
  <2>5. CASE Kind[a] = "waive"
    BY <2>1, <2>5 DEF Body, Item
  <2> QED BY <2>1, <2>2, <2>3, <2>4, <2>5
<1> QED BY <1>1, <1>2

(* The rollback visits every item.                                         *)
LEMMA UndoOrderShape ==
  /\ Len(UndoOrder) = 5
  /\ \A k \in 1 .. 5 : UndoOrder[k] \in Item
BY DEF UndoOrder, Item

(* What a write leaves behind is a content.                                *)
LEMMA TornType ==
  ASSUME store \in Contents, NEW item \in Item, NEW content \in SUBSET Fact,
         NEW left \in Torn(item, content)
  PROVE  left \in SUBSET Fact
BY DEF Torn, Contents

(* What a handler decides to write is a content of every item.             *)
LEMMA PlanType ==
  ASSUME store \in Contents, tries \in [Requests -> Nat], NEW a \in Actor
  PROVE  Plan(a) \in Contents
<1>1. rules \in SUBSET Fact /\ state \in SUBSET Fact
  BY DEF rules, state, Loaded, Contents, Item, Fact, Mark
<1>2. Mark \subseteq Fact /\ {Blocked, Enforced, Waived} \subseteq Mark
  BY DEF Mark, Fact
<1>3. Enforce \in Contents
  BY <1>1, <1>2 DEF Enforce, Contents, Target
<1>4. Waive \in Contents
  BY <1>1, <1>2 DEF Waive, Contents, Target
<1>5. ASSUME a \in Requests PROVE Grant(a) \in Contents
  <2>1. <<a, tries[a]>> \in Fact
    BY <1>5 DEF Fact, Effect
  <2>2. \A i \in Item : Loaded(i) \in SUBSET Fact
    BY DEF Loaded, Contents, Fact, Mark
  <2> QED BY <1>1, <2>1, <2>2 DEF Grant, Contents
<1> QED BY <1>3, <1>4, <1>5 DEF Plan

(* No rollback and no clearing returns into another, or into a body.       *)
LEMMA AfterType ==
  ASSUME cont \in Return
  PROVE  /\ After(cont) \in {"idle", "retire", "sample", "boot", "fail", "report"}
         /\ After(cont) = "boot" => cont = "boot"
BY DEF After, Return

(* A client that drops a request file touches neither journal nor worker.  *)
LEMMA SubmitStep == ASSUME IInv, NEW r \in Requests, Submit(r) PROVE IInv'
<1> USE DEF IInv, Submit, Goto, NoFault, Fault, Harm, files, worker, history
<1>1. FilesOK'
  BY DEF FilesOK, Contents
<1>2. ControlOK'
  BY DEF ControlOK, Label, Return
<1>3. SwitchesOK'
  BY DEF SwitchesOK
<1>4. HistoryOK'
  BY BoundsAssumption DEF HistoryOK
<1>5. Positions' /\ BootActor' /\ OwnJournalOnly'
  BY DEF ControlOK, Positions, BootActor, OwnJournalOnly, Label, Return
<1> QED BY <1>1, <1>2, <1>3, <1>4, <1>5

(* Docking and undocking touch neither journal nor worker.                 *)
LEMMA FlipStep == ASSUME IInv, Flip PROVE IInv'
<1> USE DEF IInv, Flip, Goto, NoFault, Fault, Harm, files, worker, history
<1>1. FilesOK'
  BY DEF FilesOK, Contents
<1>2. ControlOK'
  BY DEF ControlOK, Label, Return
<1>3. SwitchesOK'
  BY DEF SwitchesOK
<1>4. HistoryOK'
  BY BoundsAssumption DEF HistoryOK
<1>5. Positions' /\ BootActor' /\ OwnJournalOnly'
  BY DEF ControlOK, Positions, BootActor, OwnJournalOnly, Label, Return
<1> QED BY <1>1, <1>2, <1>3, <1>4, <1>5

(* A setup completed again writes PCTL and the flag only.                  *)
LEMMA ParentResumeStep == ASSUME IInv, ParentResume PROVE IInv'
<1> USE DEF IInv, ParentResume, Goto, NoFault, Fault, Harm, files, worker, history
<1>1. FilesOK'
  BY DEF FilesOK, Contents, Fact, Mark
<1>2. ControlOK'
  BY DEF ControlOK, Label, Return
<1>3. SwitchesOK'
  BY DEF SwitchesOK
<1>4. HistoryOK'
  BY BoundsAssumption DEF HistoryOK
<1>5. Positions' /\ BootActor' /\ OwnJournalOnly'
  BY DEF ControlOK, Positions, BootActor, OwnJournalOnly, Label, Return
<1> QED BY <1>1, <1>2, <1>3, <1>4, <1>5

(* Start-up creates rules and state and starts the rollback as background  *)
(* owner.                                                                  *)
LEMMA BootStep == ASSUME IInv, Boot PROVE IInv'
<1> USE DEF IInv, Boot, Undo, Goto, NoFault, Fault, Harm, files, worker, history
<1>1. FilesOK'
  BY DEF FilesOK, Contents, Fact, Mark
<1>2. ControlOK'
  BY DEF ControlOK, Label, Return
<1>3. SwitchesOK'
  <2>1. disabled' \in BOOLEAN
    BY DEF SwitchesOK
  <2>2. undocked' \in BOOLEAN
    BY DEF SwitchesOK
  <2>3. undoOk' \in BOOLEAN
    BY DEF SwitchesOK
  <2> QED BY <2>1, <2>2, <2>3 DEF SwitchesOK
<1>4. HistoryOK'
  BY BoundsAssumption DEF HistoryOK
<1>5. Positions' /\ BootActor'
  BY UndoOrderShape, ActorsAssumption DEF ControlOK, Positions, BootActor, OwnJournalOnly, Label, Return
<1>6. OwnJournalOnly'
  BY UndoOrderShape, ActorsAssumption DEF ControlOK, Positions, BootActor, OwnJournalOnly, Label, Return
<1> QED BY <1>1, <1>2, <1>3, <1>4, <1>5, <1>6

(* The requests that were being processed go back to the inbox.            *)
LEMMA RequeueStep == ASSUME IInv, Requeue PROVE IInv'
<1> USE DEF IInv, Requeue, Goto, NoFault, Fault, Harm, files, worker, history
<1>1. FilesOK'
  BY DEF FilesOK, Contents
<1>2. ControlOK'
  BY DEF ControlOK, Label, Return
<1>3. SwitchesOK'
  BY DEF SwitchesOK
<1>4. HistoryOK'
  BY BoundsAssumption DEF HistoryOK
<1>5. Positions' /\ BootActor' /\ OwnJournalOnly'
  BY DEF ControlOK, Positions, BootActor, OwnJournalOnly, Label, Return
<1> QED BY <1>1, <1>2, <1>3, <1>4, <1>5

(* A rollback that finds no journal returns to where it was called.        *)
LEMMA UndoNothingStep == ASSUME IInv, UndoNothing PROVE IInv'
<1> USE DEF IInv, UndoNothing, Goto, NoFault, Fault, Harm, files, worker, history
<1>1. FilesOK'
  BY DEF FilesOK, Contents
<1>2. ControlOK'
  BY AfterType DEF ControlOK, Label, Return
<1>3. SwitchesOK'
  BY DEF SwitchesOK
<1>4. HistoryOK'
  BY BoundsAssumption DEF HistoryOK
<1>5. Positions' /\ BootActor' /\ OwnJournalOnly'
  BY AfterType DEF ControlOK, Positions, BootActor, OwnJournalOnly, Label, Return
<1> QED BY <1>1, <1>2, <1>3, <1>4, <1>5

(* A cleared journal has no owner: no body runs on after it.               *)
LEMMA ClearDoneStep == ASSUME IInv, ClearDone PROVE IInv'
<1> USE DEF IInv, ClearDone, Goto, NoFault, Fault, Harm, files, worker, history
<1>1. FilesOK'
  BY DEF FilesOK, Contents
<1>2. ControlOK'
  BY AfterType DEF ControlOK, Label, Return
<1>3. SwitchesOK'
  BY DEF SwitchesOK
<1>4. HistoryOK'
  BY BoundsAssumption DEF HistoryOK
<1>5. Positions' /\ BootActor' /\ OwnJournalOnly'
  BY AfterType DEF ControlOK, Positions, BootActor, OwnJournalOnly, Label, Return
<1> QED BY <1>1, <1>2, <1>3, <1>4, <1>5

(* A clearing that fails leaves the owner, and the worker goes on.         *)
LEMMA ClearFaultStep == ASSUME IInv, ClearFault PROVE IInv'
<1> USE DEF IInv, ClearFault, Goto, NoFault, Fault, Harm, files, worker, history
<1>1. FilesOK'
  BY DEF FilesOK, Contents
<1>2. ControlOK'
  BY AfterType DEF ControlOK, Label, Return
<1>3. SwitchesOK'
  BY DEF SwitchesOK
<1>4. HistoryOK'
  BY BoundsAssumption DEF HistoryOK
<1>5. Positions' /\ BootActor' /\ OwnJournalOnly'
  BY AfterType DEF ControlOK, Positions, BootActor, OwnJournalOnly, Label, Return
<1> QED BY <1>1, <1>2, <1>3, <1>4, <1>5

(* Writing disable.flag touches no journal.                                *)
LEMMA FlagStep == ASSUME IInv, Flag PROVE IInv'
<1> USE DEF IInv, Flag, Goto, NoFault, Fault, Harm, files, worker, history
<1>1. FilesOK'
  BY DEF FilesOK, Contents
<1>2. ControlOK'
  BY AfterType DEF ControlOK, Label, Return
<1>3. SwitchesOK'
  <2>1. disabled' \in BOOLEAN
    BY DEF SwitchesOK
  <2>2. undocked' \in BOOLEAN
    BY DEF SwitchesOK
  <2>3. undoOk' \in BOOLEAN
    BY DEF SwitchesOK
  <2> QED BY <2>1, <2>2, <2>3 DEF SwitchesOK
<1>4. HistoryOK'
  <2>1. Fault \/ NoFault
    OBVIOUS
  <2>2. faults' \in 0 .. MaxFaults
    BY <2>1, BoundsAssumption DEF HistoryOK
  <2>3. /\ crashes' \in 0 .. MaxCrashes /\ flips' \in 0 .. MaxFlips
        /\ harmed' \in SUBSET {"file", "undo", "join", "clear", "answer"}
    BY DEF HistoryOK
  <2> QED BY <2>2, <2>3 DEF HistoryOK
<1>5. Positions' /\ BootActor'
  BY AfterType DEF ControlOK, Positions, BootActor, OwnJournalOnly, Label, Return
<1>6. OwnJournalOnly'
  BY AfterType DEF ControlOK, Positions, BootActor, OwnJournalOnly, Label, Return
<1> QED BY <1>1, <1>2, <1>3, <1>4, <1>5, <1>6

(* A request is taken before any journal is opened for it.                 *)
LEMMA TakeStep == ASSUME IInv, NEW r \in Requests, Take(r) PROVE IInv'
<1> USE DEF IInv, Take, Goto, NoFault, Fault, Harm, files, worker, history
<1>1. FilesOK'
  BY DEF FilesOK, Contents
<1>2. ControlOK'
  BY DEF ControlOK, Label, Return
<1>3. SwitchesOK'
  BY DEF SwitchesOK
<1>4. HistoryOK'
  BY BoundsAssumption DEF HistoryOK
<1>5. Positions' /\ BootActor' /\ OwnJournalOnly'
  BY DEF ControlOK, Positions, BootActor, OwnJournalOnly, Label, Return
<1> QED BY <1>1, <1>2, <1>3, <1>4, <1>5

(* Only a parent's recovery request starts a rollback of a foreign         *)
(* journal.                                                                *)
LEMMA GateStep == ASSUME IInv, Gate PROVE IInv'
<1> USE DEF IInv, Gate, Undo, Foreign, Goto, NoFault, Fault, Harm, files, worker, history
<1>1. FilesOK'
  BY DEF FilesOK, Contents
<1>2. ControlOK'
  BY DEF ControlOK, Label, Return
<1>3. SwitchesOK'
  <2>1. disabled' \in BOOLEAN
    BY DEF SwitchesOK
  <2>2. undocked' \in BOOLEAN
    BY DEF SwitchesOK
  <2>3. undoOk' \in BOOLEAN
    BY DEF SwitchesOK
  <2> QED BY <2>1, <2>2, <2>3 DEF SwitchesOK
<1>4. HistoryOK'
  BY BoundsAssumption DEF HistoryOK
<1>5. Positions' /\ BootActor'
  BY UndoOrderShape, ActorsAssumption DEF ControlOK, Positions, BootActor, OwnJournalOnly, Label, Return
<1>6. OwnJournalOnly'
  BY UndoOrderShape, ActorsAssumption DEF ControlOK, Positions, BootActor, OwnJournalOnly, Label, Return
<1> QED BY <1>1, <1>2, <1>3, <1>4, <1>5, <1>6

(* finish_with_error rolls back only a journal the request owns.           *)
LEMMA FailStep == ASSUME IInv, Fail PROVE IInv'
<1> USE DEF IInv, Fail, Undo, Goto, NoFault, Fault, Harm, files, worker, history
<1>1. FilesOK'
  BY DEF FilesOK, Contents
<1>2. ControlOK'
  BY DEF ControlOK, Label, Return
<1>3. SwitchesOK'
  <2>1. disabled' \in BOOLEAN
    BY DEF SwitchesOK
  <2>2. undocked' \in BOOLEAN
    BY DEF SwitchesOK
  <2>3. undoOk' \in BOOLEAN
    BY DEF SwitchesOK
  <2> QED BY <2>1, <2>2, <2>3 DEF SwitchesOK
<1>4. HistoryOK'
  BY BoundsAssumption DEF HistoryOK
<1>5. Positions' /\ BootActor'
  BY UndoOrderShape, ActorsAssumption DEF ControlOK, Positions, BootActor, OwnJournalOnly, Label, Return
<1>6. OwnJournalOnly'
  BY UndoOrderShape, ActorsAssumption DEF ControlOK, Positions, BootActor, OwnJournalOnly, Label, Return
<1> QED BY <1>1, <1>2, <1>3, <1>4, <1>5, <1>6

(* Writing an error answer touches no journal.                             *)
LEMMA ReportStep == ASSUME IInv, Report PROVE IInv'
<1> USE DEF IInv, Report, Goto, NoFault, Fault, Harm, files, worker, history
<1>1. FilesOK'
  BY DEF FilesOK, Contents
<1>2. ControlOK'
  BY DEF ControlOK, Label, Return
<1>3. SwitchesOK'
  BY DEF SwitchesOK
<1>4. HistoryOK'
  BY BoundsAssumption DEF HistoryOK
<1>5. Positions' /\ BootActor' /\ OwnJournalOnly'
  BY DEF ControlOK, Positions, BootActor, OwnJournalOnly, Label, Return
<1> QED BY <1>1, <1>2, <1>3, <1>4, <1>5

(* Archiving a request returns the worker to the background owner.         *)
LEMMA RetireStep == ASSUME IInv, Retire PROVE IInv'
<1> USE DEF IInv, Retire, Goto, NoFault, Fault, Harm, files, worker, history
<1>1. FilesOK'
  BY DEF FilesOK, Contents
<1>2. ControlOK'
  BY DEF ControlOK, Label, Return
<1>3. SwitchesOK'
  BY DEF SwitchesOK
<1>4. HistoryOK'
  BY BoundsAssumption DEF HistoryOK
<1>5. Positions' /\ BootActor' /\ OwnJournalOnly'
  BY DEF ControlOK, Positions, BootActor, OwnJournalOnly, Label, Return
<1> QED BY <1>1, <1>2, <1>3, <1>4, <1>5

(* A tick starts as the background owner.                                  *)
LEMMA TickStep == ASSUME IInv, Tick PROVE IInv'
<1> USE DEF IInv, Tick, Goto, NoFault, Fault, Harm, files, worker, history
<1>1. FilesOK'
  BY DEF FilesOK, Contents
<1>2. ControlOK'
  BY DEF ControlOK, Label, Return
<1>3. SwitchesOK'
  BY DEF SwitchesOK
<1>4. HistoryOK'
  BY BoundsAssumption DEF HistoryOK
<1>5. Positions' /\ BootActor' /\ OwnJournalOnly'
  BY DEF ControlOK, Positions, BootActor, OwnJournalOnly, Label, Return
<1> QED BY <1>1, <1>2, <1>3, <1>4, <1>5

(* The deadline rolls back the background owner's journal.                 *)
LEMMA TickTimeoutStep == ASSUME IInv, TickTimeout PROVE IInv'
<1> USE DEF IInv, TickTimeout, TickPending, Undo, Goto, NoFault, Fault, Harm, files, worker, history
<1>1. FilesOK'
  BY DEF FilesOK, Contents
<1>2. ControlOK'
  BY DEF ControlOK, Label, Return
<1>3. SwitchesOK'
  <2>1. disabled' \in BOOLEAN
    BY DEF SwitchesOK
  <2>2. undocked' \in BOOLEAN
    BY DEF SwitchesOK
  <2>3. undoOk' \in BOOLEAN
    BY DEF SwitchesOK
  <2> QED BY <2>1, <2>2, <2>3 DEF SwitchesOK
<1>4. HistoryOK'
  BY BoundsAssumption DEF HistoryOK
<1>5. Positions' /\ BootActor'
  BY UndoOrderShape, ActorsAssumption DEF ControlOK, Positions, BootActor, OwnJournalOnly, Label, Return
<1>6. OwnJournalOnly'
  BY UndoOrderShape, ActorsAssumption DEF ControlOK, Positions, BootActor, OwnJournalOnly, Label, Return
<1> QED BY <1>1, <1>2, <1>3, <1>4, <1>5, <1>6

(* A preimage restored leaves the journal and its owner as they were.      *)
LEMMA UndoRestoreStep == ASSUME IInv, UndoRestore PROVE IInv'
<1> USE DEF IInv, UndoRestore, UndoMove, Goto, NoFault, Fault, Harm, files, worker, history
<1>1. FilesOK'
  BY UndoOrderShape DEF FilesOK, Contents
<1>2. ControlOK'
  BY UndoOrderShape DEF ControlOK, Label, Return, Positions
<1>3. SwitchesOK'
  <2>1. disabled' \in BOOLEAN
    BY DEF SwitchesOK
  <2>2. undocked' \in BOOLEAN
    BY DEF SwitchesOK
  <2>3. undoOk' \in BOOLEAN
    BY DEF SwitchesOK
  <2> QED BY <2>1, <2>2, <2>3 DEF SwitchesOK
<1>4. HistoryOK'
  <2>1. Fault \/ NoFault
    OBVIOUS
  <2>2. faults' \in 0 .. MaxFaults
    BY <2>1, BoundsAssumption DEF HistoryOK
  <2>3. /\ crashes' \in 0 .. MaxCrashes /\ flips' \in 0 .. MaxFlips
        /\ harmed' \in SUBSET {"file", "undo", "join", "clear", "answer"}
    BY DEF HistoryOK
  <2> QED BY <2>2, <2>3 DEF HistoryOK
<1>5. Positions' /\ BootActor'
  BY UndoOrderShape DEF ControlOK, Positions, BootActor, OwnJournalOnly, Label, Return, Item
<1>6. OwnJournalOnly'
  BY UndoOrderShape DEF ControlOK, Positions, BootActor, OwnJournalOnly, Label, Return, Item
<1> QED BY <1>1, <1>2, <1>3, <1>4, <1>5, <1>6

(* A preimage that is damaged leaves the journal and its owner as they     *)
(* were.                                                                   *)
LEMMA UndoDamagedStep == ASSUME IInv, UndoDamaged PROVE IInv'
<1> USE DEF IInv, UndoDamaged, UndoMove, Goto, NoFault, Fault, Harm, files, worker, history
<1>1. FilesOK'
  BY UndoOrderShape DEF FilesOK, Contents
<1>2. ControlOK'
  BY UndoOrderShape DEF ControlOK, Label, Return, Positions
<1>3. SwitchesOK'
  <2>1. disabled' \in BOOLEAN
    BY DEF SwitchesOK
  <2>2. undocked' \in BOOLEAN
    BY DEF SwitchesOK
  <2>3. undoOk' \in BOOLEAN
    BY DEF SwitchesOK
  <2> QED BY <2>1, <2>2, <2>3 DEF SwitchesOK
<1>4. HistoryOK'
  <2>1. Fault \/ NoFault
    OBVIOUS
  <2>2. faults' \in 0 .. MaxFaults
    BY <2>1, BoundsAssumption DEF HistoryOK
  <2>3. /\ crashes' \in 0 .. MaxCrashes /\ flips' \in 0 .. MaxFlips
        /\ harmed' \in SUBSET {"file", "undo", "join", "clear", "answer"}
    BY DEF HistoryOK
  <2> QED BY <2>2, <2>3 DEF HistoryOK
<1>5. Positions' /\ BootActor'
  BY UndoOrderShape DEF ControlOK, Positions, BootActor, OwnJournalOnly, Label, Return
<1>6. OwnJournalOnly'
  BY UndoOrderShape DEF ControlOK, Positions, BootActor, OwnJournalOnly, Label, Return
<1> QED BY <1>1, <1>2, <1>3, <1>4, <1>5, <1>6

(* Positions in a body: where it starts, and the one after.                *)
LEMMA PositionInside ==
  ASSUME NEW n \in 3 .. 7
  PROVE  /\ \A k \in 1 .. 2 : k \in 1 .. n
         /\ \A k \in 1 .. n : k # n => k + 1 \in 1 .. n /\ k + 1 \in 1 .. 7
OBVIOUS

(* Reading rules and state gives a content whether or not they are there.  *)
LEMMA LoadedType ==
  ASSUME store \in Contents PROVE rules \in SUBSET Fact /\ state \in SUBSET Fact
BY DEF rules, state, Loaded, Contents, Item, Fact, Mark

(* One fault is counted, or none.                                          *)
LEMMA FaultCounted ==
  ASSUME HistoryOK, Fault \/ NoFault PROVE faults' \in 0 .. MaxFaults
BY BoundsAssumption DEF HistoryOK, Fault, NoFault

(* Entering a rollback starts at the first preimage.                       *)
LEMMA UndoEntered ==
  ASSUME NEW c \in Return, Undo(c)
  PROVE  pc' = "undo" /\ at' \in 1 .. Len(UndoOrder) /\ at' = 1 /\ cont' = c /\ undoOk' \in BOOLEAN
BY UndoOrderShape DEF Undo, Goto

(* A restore that fails leaves the journal and its owner as they were.     *)
LEMMA UndoFaultStep == ASSUME IInv, UndoFault PROVE IInv'
<1> USE DEF IInv, UndoFault
<1>1. UndoOrder[at] \in Item /\ saved[UndoOrder[at]] \in SUBSET Fact
  BY UndoOrderShape DEF FilesOK, Positions, Contents
<1>2. FilesOK'
  <2>1. PICK content \in Torn(UndoOrder[at], saved[UndoOrder[at]]) :
               store' = [store EXCEPT ![UndoOrder[at]] = content]
    OBVIOUS
  <2>2. content \in SUBSET Fact
    BY <1>1, <2>1, TornType DEF FilesOK
  <2> QED BY <1>1, <2>1, <2>2 DEF FilesOK, Contents, UndoMove
<1>3. ControlOK'
  BY UndoOrderShape DEF ControlOK, UndoMove, Positions, Label, Goto
<1>4. SwitchesOK'
  BY DEF SwitchesOK, UndoMove
<1>5. HistoryOK'
  BY FaultCounted DEF HistoryOK, UndoMove, Harm
<1>6. Positions' /\ BootActor'
  BY UndoOrderShape DEF Positions, BootActor, UndoMove, Goto
<1>7. OwnJournalOnly'
  BY DEF OwnJournalOnly, UndoMove, Goto
<1> QED BY <1>2, <1>3, <1>4, <1>5, <1>6, <1>7

(* The usage sample is written before any journal is opened.               *)
LEMMA SampleStep == ASSUME IInv, Sample PROVE IInv'
<1> USE DEF IInv, Sample
<1>1. FilesOK'
  <2>1. \E content \in SUBSET Fact : store' = [store EXCEPT !["state"] = content]
    <3>1. CASE store' = [store EXCEPT !["state"] = state]
      BY <3>1, LoadedType DEF FilesOK
    <3>2. CASE \E content \in Torn("state", state) : store' = [store EXCEPT !["state"] = content]
      BY <3>2, LoadedType, TornType DEF FilesOK, Item
    <3> QED BY <3>1, <3>2
  <2> QED BY <2>1 DEF FilesOK, Contents
<1>2. ControlOK'
  BY DEF ControlOK, Label, Return, Goto
<1>3. SwitchesOK'
  BY DEF SwitchesOK
<1>4. HistoryOK'
  <2>1. Fault \/ NoFault
    OBVIOUS
  <2> QED BY <2>1, FaultCounted DEF HistoryOK, Harm
<1>5. Positions' /\ BootActor' /\ OwnJournalOnly'
  BY DEF Positions, BootActor, OwnJournalOnly, Goto
<1> QED BY <1>1, <1>2, <1>3, <1>4, <1>5

(* An admitted request has decided a content for every item.               *)
LEMMA AdmitStep == ASSUME IInv, Admit PROVE IInv'
<1> USE DEF IInv, Admit
<1>1. FilesOK'
  <2>1. Plan(actor) \in Contents
    BY PlanType DEF FilesOK, ControlOK
  <2>2. next' \in Contents
    BY <2>1 DEF FilesOK
  <2> QED BY <2>2 DEF FilesOK, files
<1>2. pc' \in {"begin", "idle", "fail"}
  BY DEF Goto
<1>3. ControlOK'
  BY <1>2 DEF ControlOK, Label
<1>4. SwitchesOK'
  BY DEF SwitchesOK, files
<1>5. HistoryOK'
  BY DEF HistoryOK, history
<1>6. Positions' /\ BootActor' /\ OwnJournalOnly'
  BY <1>2 DEF Positions, BootActor, OwnJournalOnly
<1> QED BY <1>1, <1>3, <1>4, <1>5, <1>6

(* Where recovery_begin can lead: it is refused, or the tick gives up      *)
(* until the next one, or a rollback of the tick starts, or the body does. *)
LEMMA BeginRefusedControl ==
  ASSUME ControlOK, BeginRefused
  PROVE  \/ pc' \in {"fail", "idle"} /\ UNCHANGED <<at, cont, undoOk>>
         \/ actor = Enforcer /\ Undo("tick")
BY DEF BeginRefused, Goto

(* A body starts at its first or second step.                              *)
LEMMA StartBodyControl ==
  ASSUME ControlOK, StartBody, UNCHANGED actor
  PROVE  /\ pc' = "body" /\ at' \in 1 .. Len(Body(actor)) /\ at' \in 1 .. 7
         /\ UNCHANGED <<cont, undoOk>>
<1>1. Len(Body(actor)) \in 3 .. 7
  BY BodyShape DEF ControlOK
<1>2. pc' = "body" /\ at' \in 1 .. 2 /\ UNCHANGED <<cont, undoOk>>
  BY DEF StartBody, Goto
<1>3. at' \in 1 .. Len(Body(actor))
  BY <1>1, <1>2, PositionInside
<1>4. at' \in 1 .. 7
  BY <1>2
<1> QED BY <1>2, <1>3, <1>4

(* The worker after a step of recovery_begin.                              *)
BeginOutcome ==
  \/ pc' \in {"fail", "idle", "compact", "open"} /\ UNCHANGED <<at, cont, undoOk>>
  \/ actor = Enforcer /\ Undo("tick")
  \/ /\ owner' = actor /\ pc' = "body" /\ at' \in 1 .. Len(Body(actor)) /\ at' \in 1 .. 7
     /\ UNCHANGED <<cont, undoOk>>

(* Where recovery_begin leads, and that it starts a body only for the      *)
(* owner.                                                                  *)
LEMMA BeginControl ==
  ASSUME IInv, BeginOutcome, UNCHANGED actor
  PROVE  ControlOK' /\ (undoOk \in BOOLEAN)' /\ Positions' /\ BootActor' /\ OwnJournalOnly'
<1> USE DEF IInv
<1>1. CASE pc' \in {"fail", "idle", "compact", "open"} /\ UNCHANGED <<at, cont, undoOk>>
  BY <1>1 DEF ControlOK, SwitchesOK, Positions, BootActor, OwnJournalOnly, Label
<1>2. CASE actor = Enforcer /\ Undo("tick")
  <2>1. /\ pc' = "undo" /\ at' \in 1 .. Len(UndoOrder) /\ at' = 1
        /\ cont' = "tick" /\ undoOk' \in BOOLEAN
    BY <1>2, UndoEntered DEF Return
  <2> QED BY <1>2, <2>1, ActorsAssumption
          DEF ControlOK, Positions, BootActor, OwnJournalOnly, Label, Return
<1>3. CASE /\ owner' = actor /\ pc' = "body"
           /\ at' \in 1 .. Len(Body(actor)) /\ at' \in 1 .. 7
           /\ UNCHANGED <<cont, undoOk>>
  BY <1>3 DEF ControlOK, SwitchesOK, Positions, BootActor, OwnJournalOnly, Label
<1> QED BY <1>1, <1>2, <1>3 DEF BeginOutcome

(* recovery_begin joins a journal only for its owner.                      *)
LEMMA BeginStep == ASSUME IInv, Begin PROVE IInv'
<1> USE DEF IInv, Begin
<1>1. FilesOK'
  BY DEF FilesOK, files
<1>2. BeginOutcome
  <2>1. CASE owner = Nobody /\ Goto("compact") /\ UNCHANGED <<at, cont, undoOk>>
    BY <2>1 DEF BeginOutcome, Goto
  <2>2. CASE owner = actor /\ StartBody
    BY <2>2, StartBodyControl DEF BeginOutcome, files
  <2>3. CASE BeginRefused
    BY <2>3, BeginRefusedControl DEF BeginOutcome
  <2>4. CASE DockEntry /\ Undo("tick")
    BY <2>4 DEF BeginOutcome, DockEntry
  <2> QED BY <2>1, <2>2, <2>3, <2>4
<1>3. ControlOK' /\ (undoOk \in BOOLEAN)' /\ Positions' /\ BootActor' /\ OwnJournalOnly'
  BY <1>2, BeginControl
<1>4. SwitchesOK'
  BY <1>3 DEF SwitchesOK, files
<1>5. HistoryOK'
  <2>1. Fault \/ NoFault
    OBVIOUS
  <2>2. harmed' \in SUBSET {"file", "undo", "join", "clear", "answer"}
    BY DEF HistoryOK, Harm
  <2> QED BY <2>1, <2>2, FaultCounted DEF HistoryOK
<1> QED BY <1>1, <1>3, <1>4, <1>5

(* Compacting the ledger precedes the journal and changes no owner.        *)
LEMMA CompactStep == ASSUME IInv, Compact PROVE IInv'
<1> USE DEF IInv, Compact
<1>1. FilesOK'
  <2>1. \E content \in SUBSET Fact : store' = [store EXCEPT !["ledger"] = content]
    <3>1. CASE store' = [store EXCEPT !["ledger"] = @ \ {Old}]
      BY <3>1 DEF FilesOK, Contents, Item
    <3>2. CASE \E content \in Torn("ledger", {}) : store' = [store EXCEPT !["ledger"] = content]
      BY <3>2, TornType DEF FilesOK, Item
    <3> QED BY <3>1, <3>2
  <2>2. store' \in Contents
    BY <2>1 DEF FilesOK, Contents
  <2>3. next' \in Contents
    BY DEF FilesOK, Contents, Item
  <2> QED BY <2>2, <2>3 DEF FilesOK
<1>2. BeginOutcome
  <2>1. CASE Goto("open") /\ UNCHANGED <<at, cont, undoOk>>
    BY <2>1 DEF BeginOutcome, Goto
  <2>2. CASE BeginRefused
    BY <2>2, BeginRefusedControl DEF BeginOutcome
  <2> QED BY <2>1, <2>2
<1>3. ControlOK' /\ (undoOk \in BOOLEAN)' /\ Positions' /\ BootActor' /\ OwnJournalOnly'
  BY <1>2, BeginControl
<1>4. SwitchesOK'
  BY <1>3 DEF SwitchesOK
<1>5. HistoryOK'
  <2>1. Fault \/ NoFault
    OBVIOUS
  <2> QED BY <2>1, FaultCounted DEF HistoryOK, Harm
<1> QED BY <1>1, <1>3, <1>4, <1>5

(* The journal that is opened belongs to the actor whose body starts.      *)
LEMMA OpenStep == ASSUME IInv, Open PROVE IInv'
<1> USE DEF IInv, Open
<1>1. FilesOK'
  <2>1. CASE owner' = actor /\ have' = Item /\ saved' = store
    BY <2>1 DEF FilesOK, ControlOK
  <2>2. CASE UNCHANGED <<owner, have, saved>>
    BY <2>2 DEF FilesOK
  <2> QED BY <2>1, <2>2
<1>2. BeginOutcome
  <2>1. CASE owner' = actor /\ StartBody
    BY <2>1, StartBodyControl DEF BeginOutcome
  <2>2. CASE BeginRefused
    BY <2>2, BeginRefusedControl DEF BeginOutcome
  <2> QED BY <2>1, <2>2
<1>3. ControlOK' /\ (undoOk \in BOOLEAN)' /\ Positions' /\ BootActor' /\ OwnJournalOnly'
  BY <1>2, BeginControl
<1>4. SwitchesOK'
  BY <1>3 DEF SwitchesOK
<1>5. HistoryOK'
  <2>1. Fault \/ NoFault
    OBVIOUS
  <2> QED BY <2>1, FaultCounted DEF HistoryOK
<1> QED BY <1>1, <1>3, <1>4, <1>5

(* The worker after a step of the body.                                    *)
BodyOutcome ==
  \/ pc' = "body" /\ at # Len(Body(actor)) /\ at' = at + 1 /\ UNCHANGED <<cont, undoOk>>
  \/ pc' \in {"idle", "clear"} /\ cont' \in Return /\ cont' # "boot" /\ UNCHANGED <<at, undoOk>>
  \/ pc' = "idle" /\ UNCHANGED <<at, cont, undoOk>>
  \/ \E c \in {"tick", "fail", "silent"} : Undo(c)

(* After a step the body goes on, ends the tick or clears its journal.     *)
LEMMA AdvanceOutcome ==
  ASSUME pc = "body", Advance, UNCHANGED undoOk PROVE BodyOutcome
<1>1. CASE at = Len(Body(actor))
  BY <1>1 DEF Advance, Finish, Clear, Goto, BodyOutcome, Return
<1>2. CASE at # Len(Body(actor))
  BY <1>2 DEF Advance, BodyOutcome
<1> QED BY <1>1, <1>2

(* A failed step starts a rollback that returns to a known place.          *)
LEMMA AbortOutcome ==
  ASSUME NEW c \in {"fail", "silent"}, Abort(c) PROVE BodyOutcome
BY DEF Abort, BodyOutcome

(* A body's step leads to a known label, position and return place.        *)
LEMMA BodyControl ==
  ASSUME IInv, pc = "body", BodyOutcome, UNCHANGED <<actor, owner>>
  PROVE  ControlOK' /\ (undoOk \in BOOLEAN)' /\ Positions' /\ BootActor' /\ OwnJournalOnly'
<1> USE DEF IInv
<1>1. owner = actor /\ at \in 1 .. Len(Body(actor)) /\ Len(Body(actor)) \in 3 .. 7
  BY BodyShape DEF OwnJournalOnly, Positions, ControlOK
<1>2. CASE pc' = "body" /\ at # Len(Body(actor)) /\ at' = at + 1 /\ UNCHANGED <<cont, undoOk>>
  <2>1. at' \in 1 .. Len(Body(actor)) /\ at' \in 1 .. 7
    BY <1>1, <1>2, PositionInside
  <2> QED BY <1>1, <1>2, <2>1 DEF ControlOK, SwitchesOK, Positions, BootActor, OwnJournalOnly, Label
<1>3. CASE /\ pc' \in {"idle", "clear"} /\ cont' \in Return /\ cont' # "boot"
           /\ UNCHANGED <<at, undoOk>>
  BY <1>1, <1>3 DEF ControlOK, SwitchesOK, Positions, BootActor, OwnJournalOnly, Label
<1>4. CASE pc' = "idle" /\ UNCHANGED <<at, cont, undoOk>>
  BY <1>1, <1>4 DEF ControlOK, SwitchesOK, Positions, BootActor, OwnJournalOnly, Label
<1>5. ASSUME NEW c \in {"tick", "fail", "silent"}, Undo(c)
      PROVE  ControlOK' /\ (undoOk \in BOOLEAN)' /\ Positions' /\ BootActor' /\ OwnJournalOnly'
  <2>1. /\ pc' = "undo" /\ at' \in 1 .. Len(UndoOrder) /\ at' = 1
        /\ cont' = c /\ undoOk' \in BOOLEAN
    BY <1>5, UndoEntered DEF Return
  <2> QED BY <1>1, <2>1 DEF ControlOK, Positions, BootActor, OwnJournalOnly, Label, Return
<1> QED BY <1>2, <1>3, <1>4, <1>5 DEF BodyOutcome

(* A write of the body changes one item and no owner.                      *)
LEMMA BodyWriteStep == ASSUME IInv, BodyWrite PROVE IInv'
<1> USE DEF IInv, BodyWrite
<1>1. store' \in Contents
  <2>1. Content(Step) \in SUBSET Fact
    <3>1. Step = "waived" \/ (Step # "waived" /\ Step \in Item)
      BY DEF Written
    <3> QED BY <3>1, LoadedType DEF Content, FilesOK, Contents, Fact, Mark
  <2>2. \E content \in SUBSET Fact : store' = [store EXCEPT ![Written(Step)] = content]
    <3>1. CASE store' = [store EXCEPT ![Written(Step)] = Content(Step)]
      BY <2>1, <3>1
    <3>2. CASE \E content \in Torn(Written(Step), Content(Step)) :
                 store' = [store EXCEPT ![Written(Step)] = content]
      BY <2>1, <3>2, TornType DEF FilesOK
    <3> QED BY <3>1, <3>2
  <2> QED BY <2>2 DEF FilesOK, Contents
<1>2. result' \in [Requests -> {"none", "ok", "error"}]
  BY DEF FilesOK, Withdraw
<1>3. FilesOK'
  BY <1>1, <1>2 DEF FilesOK
<1>4. BodyOutcome
  <2>1. CASE Advance /\ UNCHANGED undoOk
    BY <2>1, AdvanceOutcome
  <2>2. CASE Abort("fail")
    BY <2>2, AbortOutcome
  <2> QED BY <2>1, <2>2
<1>5. ControlOK' /\ (undoOk \in BOOLEAN)' /\ Positions' /\ BootActor' /\ OwnJournalOnly'
  BY <1>4, BodyControl
<1>6. SwitchesOK'
  BY <1>5 DEF SwitchesOK
<1>7. HistoryOK'
  <2>1. CASE harmed' = harmed /\ (Fault \/ NoFault)
    BY <2>1, FaultCounted DEF HistoryOK
  <2>2. CASE faults + 1 < MaxFaults /\ faults' = faults + 2 /\ Harm({"answer"})
    BY <2>2, BoundsAssumption DEF HistoryOK, Harm
  <2> QED BY <2>1, <2>2 DEF Withdraw
<1> QED BY <1>3, <1>5, <1>6, <1>7

(* The read-back changes only whether a confirmation is pending.           *)
LEMMA BodyObserveStep == ASSUME IInv, BodyObserve PROVE IInv'
<1> USE DEF IInv, BodyObserve
<1>1. FilesOK'
  <2>1. Pending \in Fact
    BY DEF Fact, Mark
  <2>2. next' \in Contents
    BY <2>1 DEF FilesOK, Contents, Item
  <2> QED BY <2>2 DEF FilesOK, files
<1>2. BodyOutcome
  <2>1. CASE Advance /\ UNCHANGED undoOk
    BY <2>1, AdvanceOutcome
  <2>2. CASE Abort("fail")
    BY <2>2, AbortOutcome
  <2> QED BY <2>1, <2>2
<1>3. ControlOK' /\ (undoOk \in BOOLEAN)' /\ Positions' /\ BootActor' /\ OwnJournalOnly'
  BY <1>2, BodyControl DEF files
<1>4. SwitchesOK'
  BY <1>3 DEF SwitchesOK, files
<1>5. HistoryOK'
  <2>1. Fault \/ NoFault
    OBVIOUS
  <2> QED BY <2>1, FaultCounted DEF HistoryOK
<1> QED BY <1>1, <1>3, <1>4, <1>5

(* The answer of a request changes no journal.                             *)
LEMMA BodyResultStep == ASSUME IInv, BodyResult PROVE IInv'
<1> USE DEF IInv, BodyResult
<1>1. FilesOK'
  <2>1. result' \in [Requests -> {"none", "ok", "error"}]
    BY DEF FilesOK
  <2> QED BY <2>1 DEF FilesOK, files
<1>2. BodyOutcome
  <2>1. CASE Advance /\ UNCHANGED undoOk
    BY <2>1, AdvanceOutcome
  <2>2. CASE Abort("silent")
    BY <2>2, AbortOutcome
  <2> QED BY <2>1, <2>2
<1>3. ControlOK' /\ (undoOk \in BOOLEAN)' /\ Positions' /\ BootActor' /\ OwnJournalOnly'
  BY <1>2, BodyControl DEF files
<1>4. SwitchesOK'
  BY <1>3 DEF SwitchesOK, files
<1>5. HistoryOK'
  <2>1. Fault \/ NoFault
    OBVIOUS
  <2> QED BY <2>1, FaultCounted DEF HistoryOK
<1> QED BY <1>1, <1>3, <1>4, <1>5

(* A confirmation clears the background owner's journal or writes the      *)
(* flag.                                                                   *)
LEMMA TickConfirmStep == ASSUME IInv, TickConfirm PROVE IInv'
<1> USE DEF IInv, TickConfirm
<1>1. FilesOK'
  <2>1. \E content \in SUBSET Fact : store' = [store EXCEPT !["state"] = content]
    <3>1. CASE store' = [store EXCEPT !["state"] = @ \ {Pending}]
      BY <3>1 DEF FilesOK, Contents, Item
    <3>2. CASE \E content \in Torn("state", {}) : store' = [store EXCEPT !["state"] = content]
      BY <3>2, TornType DEF FilesOK, Item
    <3> QED BY <3>1, <3>2
  <2> QED BY <2>1 DEF FilesOK, Contents
<1>2. pc' \in {"clear", "flag"} /\ cont' \in {"confirm", "tick"} /\ actor' = Enforcer
  BY DEF Goto, Clear, TickPending
<1>3. ControlOK'
  BY <1>2 DEF ControlOK, Label, Return
<1>4. SwitchesOK'
  BY DEF SwitchesOK
<1>5. HistoryOK'
  <2>1. Fault \/ NoFault
    OBVIOUS
  <2> QED BY <2>1, FaultCounted DEF HistoryOK
<1>6. Positions' /\ BootActor' /\ OwnJournalOnly'
  BY <1>2, ActorsAssumption DEF Positions, BootActor, OwnJournalOnly
<1> QED BY <1>1, <1>3, <1>4, <1>5, <1>6

(* What a power loss can tear is an item and leaves a content of it.       *)
LEMMA CutType ==
  ASSUME IInv PROVE Cut.item \in Item /\ Cut.outcomes \subseteq SUBSET Fact
<1> USE DEF IInv
<1>1. state \in SUBSET Fact /\ store["state"] \in SUBSET Fact
  BY LoadedType DEF FilesOK, Contents, Item
<1>2. CASE pc = "sample"
  BY <1>1, <1>2, TornType DEF Cut, FilesOK, Item
<1>3. CASE pc = "compact"
  BY <1>3, TornType DEF Cut, FilesOK, Item
<1>4. CASE pc = "body" /\ Written(Body(actor)[at]) \in Item
  <2>1. Content(Body(actor)[at]) \in SUBSET Fact
    BY <1>1, <1>4 DEF Content, Written, FilesOK, Contents, Fact, Mark
  <2> QED BY <1>4, <2>1, TornType DEF Cut, FilesOK
<1>5. CASE pc = "undo"
  <2>1. UndoOrder[at] \in Item /\ saved[UndoOrder[at]] \in SUBSET Fact
    BY <1>5, UndoOrderShape DEF FilesOK, Positions, Contents
  <2> QED BY <1>5, <2>1, TornType DEF Cut, FilesOK
<1>6. CASE /\ pc \notin {"sample", "compact", "undo"}
           /\ ~(pc = "body" /\ Written(Body(actor)[at]) \in Item)
  BY <1>1, <1>6 DEF Cut, Item
<1> QED BY <1>2, <1>3, <1>4, <1>5, <1>6

(* A power loss returns to start-up with the background owner.             *)
LEMMA CrashStep == ASSUME IInv, Crash PROVE IInv'
<1> USE DEF IInv, Crash
<1>1. store' \in Contents
  BY CutType DEF FilesOK, Contents
<1>2. owner' \in Actor \cup {Nobody} /\ have' \in SUBSET Item
  BY DEF FilesOK
<1>3. result' \in [Requests -> {"none", "ok", "error"}]
  BY DEF FilesOK
<1>4. next' \in Contents
  BY DEF Contents
<1>5. FilesOK'
  BY <1>1, <1>2, <1>3, <1>4 DEF FilesOK
<1>6. pc' = "boot" /\ actor' = Enforcer /\ at' = 1 /\ cont' = "boot"
  BY DEF Goto
<1>7. ControlOK'
  BY <1>6 DEF ControlOK, Label, Return
<1>8. SwitchesOK'
  <2>1. disabled' \in BOOLEAN
    BY DEF SwitchesOK
  <2>2. undocked' \in BOOLEAN
    BY DEF SwitchesOK
  <2>3. undoOk' \in BOOLEAN
    OBVIOUS
  <2> QED BY <2>1, <2>2, <2>3 DEF SwitchesOK
<1>9. HistoryOK'
  <2>1. crashes' \in 0 .. MaxCrashes
    BY BoundsAssumption DEF HistoryOK
  <2>2. harmed' \in SUBSET {"file", "undo", "join", "clear", "answer"}
    BY DEF HistoryOK
  <2> QED BY <2>1, <2>2 DEF HistoryOK
<1>10. Positions' /\ BootActor' /\ OwnJournalOnly'
  BY <1>6 DEF Positions, BootActor, OwnJournalOnly
<1> QED BY <1>5, <1>7, <1>8, <1>9, <1>10

-----------------------------------------------------------------------------
(* The inductive invariant holds at first boot.                            *)
LEMMA InitIInv == Init => IInv
<1> SUFFICES ASSUME Init PROVE IInv
  OBVIOUS
<1> USE DEF Init
<1>1. FilesOK
  BY DEF FilesOK, Contents, Fact, Mark
<1>2. ControlOK
  BY DEF ControlOK, Label, Return
<1>3. SwitchesOK
  BY DEF SwitchesOK
<1>4. HistoryOK
  BY BoundsAssumption DEF HistoryOK
<1>5. Positions /\ BootActor /\ OwnJournalOnly
  BY DEF Positions, BootActor, OwnJournalOnly
<1> QED BY <1>1, <1>2, <1>3, <1>4, <1>5 DEF IInv

(* A stuttering step preserves the inductive invariant.                    *)
LEMMA StutterIInv == IInv /\ UNCHANGED vars => IInv'
<1> SUFFICES ASSUME IInv, UNCHANGED vars PROVE IInv'
  OBVIOUS
<1> USE DEF IInv, vars, files, worker, history
<1>1. FilesOK'
  BY DEF FilesOK
<1>2. ControlOK' /\ SwitchesOK' /\ HistoryOK'
  BY DEF ControlOK, SwitchesOK, HistoryOK
<1>3. Positions' /\ BootActor' /\ OwnJournalOnly'
  BY DEF Positions, BootActor, OwnJournalOnly
<1> QED BY <1>1, <1>2, <1>3

(* Every step preserves the inductive invariant: one lemma per action.     *)
LEMMA NextIInv == IInv /\ [Next]_vars => IInv'
<1> SUFFICES ASSUME IInv, [Next]_vars PROVE IInv'
  OBVIOUS
<1>1. CASE Environment
  BY <1>1, SubmitStep, FlipStep, ParentResumeStep, CrashStep DEF Environment
<1>2. CASE Boot \/ Requeue \/ ClearDone \/ ClearFault \/ Flag
  BY <1>2, BootStep, RequeueStep, ClearDoneStep, ClearFaultStep, FlagStep
<1>3. CASE Rollback
  BY <1>3, UndoRestoreStep, UndoDamagedStep, UndoFaultStep, UndoNothingStep DEF Rollback
<1>4. CASE Handler
  BY <1>4, GateStep, SampleStep, AdmitStep, BeginStep, CompactStep, OpenStep, BodyWriteStep,
     BodyObserveStep, BodyResultStep, FailStep, ReportStep, RetireStep DEF Handler
<1>5. CASE Ticking
  BY <1>5, TickStep, TickConfirmStep, TickTimeoutStep DEF Ticking
<1>6. CASE \E r \in Requests : Take(r)
  BY <1>6, TakeStep
<1>7. CASE UNCHANGED vars
  BY <1>7, StutterIInv
<1> QED BY <1>1, <1>2, <1>3, <1>4, <1>5, <1>6, <1>7 DEF Next, Service

(* The inductive invariant holds in every reachable state.                 *)
LEMMA SpecIInv == Spec => []IInv
BY InitIInv, NextIInv, PTL DEF Spec

(* Every reachable state is well typed, whatever is interrupted.           *)
THEOREM TypeCorrect == Spec => []TypeOK
<1>1. IInv => TypeOK
  BY TypeParts DEF IInv
<1> QED BY <1>1, SpecIInv, PTL

(* A request writes under its own journal only, and resolves only its own, *)
(* for any number of requests and whatever fails or is interrupted         *)
(* (process_request_text, finish_with_error).                              *)
THEOREM JournalIsOwn == Spec => []OwnJournalOnly
<1>1. IInv => OwnJournalOnly
  BY DEF IInv
<1> QED BY <1>1, SpecIInv, PTL

-----------------------------------------------------------------------------
(***************************************************************************)
(* The book of grants and the answers.  Three more inductive invariants of *)
(* the write path, each over those before it:                              *)
(*   Paths    what holds at each place of the code whatever has failed: a  *)
(*            rollback clears only what it has restored, a handler decides *)
(*            its own grant and no other, who only composes a target adds  *)
(*            nothing, no grant runs while the service is disabled;        *)
(*   Books    how far the files and the journal are apart in a transaction *)
(*            while nothing was spoiled outside one;                       *)
(*   Answers  which answer a request has at each place, and that one       *)
(*            without a success answer is in no file.                      *)
(* StepViews is the lemma between them and the properties: whatever a step *)
(* does, the view a recovery would restore is kept, or handed to the       *)
(* journal, or handed back to the files.                                   *)
(***************************************************************************)
(* The files a grant is entered in.                                        *)
Booked == Item \ {"pctl"}

(* What the handler of an actor adds to an item.                           *)
Entry(a, i) ==
  IF a \in Requests /\ Kind[a] # "waive" /\ (i \in {"rules", "state"} \/ Kind[a] = "code")
  THEN {<<a, tries[a]>>} ELSE {}

(* Who only composes a target adds nothing to any file.                    *)
Barren(a) == a = Enforcer \/ Kind[a] = "waive"

(* The rollback restores in order, and clears only what it has restored.   *)
Undone ==
  /\ pc = "undo" => ~Committing
  /\ pc = "undo" /\ undoOk => \A k \in 1 .. at - 1 : store[UndoOrder[k]] = saved[UndoOrder[k]]
  /\ pc = "clear" => /\ owner # Nobody
                     /\ ~Committing => \A i \in Item : store[i] = saved[i]
                     /\ cont = "commit" => owner = actor
                     /\ cont = "confirm" => owner = Enforcer /\ actor = Enforcer

(* A request under way is in processing/, and one with a journal is taken. *)
Taken ==
  /\ actor \in Requests => inbox[actor] = "processing"
  /\ owner \in Requests => inbox[owner] # "none"
  /\ pc \in {"undo", "clear", "flag"} /\ cont = "sample" => actor \in Requests /\ Kind[actor] = "waive"
  /\ pc = "flag" => cont # "confirm"
  /\ pc = "requeue" => actor = Enforcer
  /\ pc = "gate" => actor \in Requests
  /\ pc \in {"compact", "open"} => owner = Nobody

(* A grant is not being executed while the service is disabled.            *)
Barred ==
  disabled /\ actor \in Requests =>
    /\ pc \in {"sample", "admit"} => Kind[actor] \in {"code", "waive"}
    /\ pc \in {"begin", "compact", "open", "body"} => Kind[actor] = "waive"
    /\ pc = "clear" /\ cont = "commit" => Kind[actor] = "waive"

(* What is decided adds the actor's own grant to what is there.            *)
Decided ==
  pc \in {"begin", "compact", "open"} =>
    \A i \in Booked : Grants(next[i]) = Grants(store[i]) \cup Entry(actor, i)

(* Under the journal of who adds nothing no grant is written.              *)
Shrinks ==
  /\ owner # Nobody /\ Barren(owner) =>
       \A i \in Booked : Grants(store[i]) \subseteq Grants(saved[i])
  /\ pc = "body" /\ Barren(actor) =>
       \A i \in Booked : Grants(next[i]) \subseteq Grants(saved[i])

(* What holds at each place of the code, whatever has failed so far.       *)
Paths == Undone /\ Taken /\ Barred /\ Decided /\ Shrinks

-----------------------------------------------------------------------------
(* A grant of a request is never taken for one of the marks.               *)
LEMMA NotMark == \A r \in Requests : \A n : <<r, n>> \notin Mark
<1>1. \A r, n : <<r, n>>[1] = r
  OBVIOUS
<1> QED BY <1>1, MarkAssumption

(* The marks the handlers write, all of them marks.                        *)
LEMMA Marks == {Base, Old, Blocked, Released, Enforced, Waived, Pending} \subseteq Mark
BY DEF Mark

(* A file that is missing, read as its default, has no grant.              *)
LEMMA GrantsLoaded == \A i : Grants(Loaded(i)) = Grants(store[i])
<1>1. Grants({}) = {} /\ Grants({Base}) = {}
  BY Marks DEF Grants
<1> QED BY <1>1 DEF Loaded

(* A handler decides to add its own grant to what the files hold, and no   *)
(* other.                                                                  *)
LEMMA GrantsPlan ==
  ASSUME FilesOK, NEW a \in Actor, NEW i \in Booked
  PROVE  Grants(Plan(a)[i]) = Grants(store[i]) \cup Entry(a, i)
<1>1. Grants(rules) = Grants(store["rules"]) /\ Grants(state) = Grants(store["state"])
  BY GrantsLoaded DEF rules, state
<1>2. i \in {"rules", "state", "ledger", "redeemed"} /\ i \in Item
  BY DEF Booked, Item
<1>3. CASE a = Enforcer
  <2>1. Plan(a) = Enforce /\ Entry(a, i) = {}
    BY <1>3, ActorsAssumption DEF Plan, Entry
  <2>2. Enforce[i] = IF i = "state" THEN (IF DockBlocks THEN state \cup {Enforced} ELSE state \ {Enforced})
                     ELSE store[i]
    BY <1>2 DEF Enforce, FilesOK, Contents
  <2>3. Grants(Enforce[i]) = Grants(store[i])
    <3>1. Grants(state \cup {Enforced}) = Grants(state) /\ Grants(state \ {Enforced}) = Grants(state)
      BY Marks DEF Grants
    <3> QED BY <2>2, <1>1, <3>1
  <2> QED BY <2>1, <2>3
<1>4. CASE a # Enforcer /\ Kind[a] = "waive"
  <2>1. Plan(a) = Waive /\ Entry(a, i) = {}
    BY <1>4 DEF Plan, Entry
  <2>2. Waive[i] = IF i = "rules" THEN rules
                   ELSE IF i = "state" THEN (state \cup {Waived}) \ {Enforced, Pending} ELSE store[i]
    BY <1>2 DEF Waive, FilesOK, Contents
  <2>3. Grants((state \cup {Waived}) \ {Enforced, Pending}) = Grants(state)
    BY Marks DEF Grants
  <2>4. Grants(Waive[i]) = Grants(store[i])
    BY <2>2, <2>3, <1>1
  <2> QED BY <2>1, <2>4
<1>5. CASE a # Enforcer /\ Kind[a] # "waive"
  <2>1. Plan(a) = Grant(a) /\ a \in Requests
    BY <1>5 DEF Plan
  <2>2. CASE i \in {"ledger", "redeemed"} /\ Kind[a] # "code"
    <3>1. Grant(a)[i] = store[i]
      BY <2>2, <1>2 DEF Grant
    <3>2. Entry(a, i) = {}
      BY <2>2 DEF Entry
    <3> QED BY <2>1, <3>1, <3>2
  <2>3. CASE i \in {"rules", "state"} \/ Kind[a] = "code"
    <3>1. Entry(a, i) = {<<a, tries[a]>>}
      BY <1>5, <2>1, <2>3 DEF Entry
    <3>2. \/ Grant(a)[i] = Loaded(i) \cup {<<a, tries[a]>>}
          \/ Grant(a)[i] = store[i] \cup {<<a, tries[a]>>}
      BY <2>3, <1>2 DEF Grant
    <3>3. /\ Grants(Loaded(i) \cup {<<a, tries[a]>>}) = Grants(Loaded(i)) \cup {<<a, tries[a]>>}
          /\ Grants(store[i] \cup {<<a, tries[a]>>}) = Grants(store[i]) \cup {<<a, tries[a]>>}
      BY <2>1, NotMark DEF Grants
    <3>4. Grants(Loaded(i)) = Grants(store[i])
      BY GrantsLoaded
    <3>5. Grants(Grant(a)[i]) = Grants(store[i]) \cup {<<a, tries[a]>>}
      BY <3>2, <3>3, <3>4
    <3> QED BY <2>1, <3>1, <3>5
  <2> QED BY <2>2, <2>3, <1>2
<1> QED BY <1>3, <1>4, <1>5

(* The places a rollback or a clearing can return to.                      *)
LEMMA AfterPlace ==
  ASSUME cont \in Return
  PROVE  /\ After(cont) \in {"idle", "retire", "sample", "boot", "fail", "report"}
         /\ After(cont) = "sample" => cont \in {"sample", "confirm"}
BY DEF After, Return

-----------------------------------------------------------------------------
(***************************************************************************)
(* Every step keeps what holds at the places of the code.                  *)
(***************************************************************************)

(* A new request is in no place of the code.                               *)
LEMMA SubmitKeepsPaths == ASSUME IInv, Paths, NEW r \in Requests, Submit(r) PROVE Paths'
BY DEF Paths, Submit, files, worker, Undone, Committing, Taken, Barred, Decided, Entry, Shrinks

(* Docking and undocking move no actor.                                    *)
LEMMA FlipKeepsPaths == ASSUME IInv, Paths, Flip PROVE Paths'
BY DEF Paths, Flip, files, worker, Undone, Taken, Barred, Decided, Shrinks

(* A setup completed again writes PCTL and the flag, and moves no actor.   *)
LEMMA ParentResumeKeepsPaths == ASSUME IInv, Paths, ParentResume PROVE Paths'
BY DEF Paths, ParentResume, worker, Undone, Taken, Barred, Decided, Shrinks

(* Start-up creates the missing rules and state, without a grant, and      *)
(* rolls back first.                                                       *)
LEMMA BootKeepsPaths == ASSUME IInv, Paths, Boot PROVE Paths'
<1> USE DEF IInv, Paths, Boot, Goto, Undo
<1>1. Undone' /\ Taken' /\ Barred'
  BY ActorsAssumption DEF Undone, Committing, ControlOK, Positions, Taken, BootActor, Barred
<1>2. Decided'
  BY DEF Decided
<1>3. \A i \in Booked : Grants(store'[i]) = Grants(store[i])
  <2>1. Grants({}) = {} /\ Grants({Base}) = {}
    BY Marks DEF Grants
  <2> QED BY <2>1 DEF Booked
<1>4. Shrinks'
  <2>1. pc' # "body" /\ owner' = owner /\ saved' = saved
    OBVIOUS
  <2> QED BY <1>3, <2>1 DEF Shrinks, Barren
<1> QED BY <1>1, <1>2, <1>4

(* A request moved back to the inbox leaves the worker with the background *)
(* owner.                                                                  *)
LEMMA RequeueKeepsPaths == ASSUME IInv, Paths, Requeue PROVE Paths'
<1> USE DEF Paths, Requeue, Goto, files
<1>1. Undone' /\ Shrinks'
  BY DEF Undone, Committing, Shrinks, Barren
<1>2. Taken'
  <2>1. actor' = Enforcer /\ actor' \notin Requests
    BY ActorsAssumption DEF Taken
  <2>2. owner \in Requests => inbox'[owner] # "none"
    BY DEF Taken
  <2> QED BY <2>1, <2>2 DEF Taken
<1>3. Barred' /\ Decided'
  BY DEF Barred, Decided
<1> QED BY <1>1, <1>2, <1>3

(* The five places of the rollback's order are the five items.             *)
LEMMA UndoCovers == \A i \in Item : \E k \in 1 .. 5 : UndoOrder[k] = i
<1>1. /\ UndoOrder[1] = "pctl" /\ UndoOrder[2] = "rules" /\ UndoOrder[3] = "state"
      /\ UndoOrder[4] = "ledger" /\ UndoOrder[5] = "redeemed"
  BY DEF UndoOrder
<1> QED BY <1>1 DEF Item

(* A rollback goes on to the next item until the last, clears only when    *)
(* every item was restored and otherwise leaves the journal and the mark.  *)
LEMMA UndoMoveControl ==
  ASSUME IInv, Paths, pc = "undo", NEW ok \in BOOLEAN, NEW last \in BOOLEAN, UndoMove(ok, last)
  PROVE  /\ pc' \in {"undo", "clear", "flag"}
         /\ undoOk' = ok
         /\ pc' = "undo" => at' = at + 1 /\ at # 5 /\ harmed' = harmed
         /\ pc' = "clear" => ok /\ (last \/ at = 5)
         /\ pc' = "flag" => ~ok /\ "undo" \in harmed'
         /\ UNCHANGED <<inbox, tries, owner, saved, disabled, actor, next, cont>>
BY UndoOrderShape DEF UndoMove, Goto, Harm, IInv

(* A rollback was never called by who commits, so it moves nothing but     *)
(* itself.                                                                 *)
LEMMA UndoFollows ==
  ASSUME IInv, Paths, pc = "undo", pc' \in {"undo", "clear", "flag"},
         UNCHANGED <<inbox, owner, disabled, actor, cont>>
  PROVE  Taken' /\ Barred' /\ Decided'
<1> USE DEF Paths
<1>1. cont \notin {"commit", "confirm"}
  BY DEF Undone, Committing
<1>2. Taken' /\ Barred'
  BY <1>1 DEF Taken, Barred
<1>3. Decided'
  BY DEF Decided
<1> QED BY <1>2, <1>3

(* An item restored from the journal is what it was when the journal was   *)
(* opened.                                                                 *)
LEMMA UndoRestoreKeepsPaths == ASSUME IInv, Paths, UndoRestore PROVE Paths'
<1> DEFINE item == UndoOrder[at]
<1> USE DEF IInv, Paths
<1>1. pc = "undo" /\ owner # Nobody /\ store' = [store EXCEPT ![item] = saved[item]]
  BY DEF UndoRestore
<1>2. undoOk \in BOOLEAN /\ UndoMove(undoOk, FALSE)
  BY DEF UndoRestore, SwitchesOK
<1>3. /\ pc' \in {"undo", "clear", "flag"}
      /\ undoOk' = undoOk
      /\ pc' = "undo" => at' = at + 1 /\ at # 5
      /\ pc' = "clear" => undoOk /\ at = 5
      /\ UNCHANGED <<inbox, tries, owner, saved, disabled, actor, next, cont>>
  BY <1>1, <1>2, UndoMoveControl
<1>4. at \in 1 .. 5 /\ item \in Item
  BY <1>1, UndoOrderShape DEF Positions
<1>5. \A i \in Item : store'[i] = IF i = item THEN saved[i] ELSE store[i]
  BY <1>1, <1>4 DEF FilesOK, Contents
<1>6. undoOk => \A k \in 1 .. at : store'[UndoOrder[k]] = saved[UndoOrder[k]]
  <2>1. undoOk => \A k \in 1 .. at - 1 : store[UndoOrder[k]] = saved[UndoOrder[k]]
    BY <1>1 DEF Undone
  <2>2. \A k \in 1 .. at : UndoOrder[k] \in Item /\ (k = at \/ k \in 1 .. at - 1)
    BY <1>4, UndoOrderShape
  <2> QED BY <1>5, <2>1, <2>2
<1>7. Undone'
  <2>1. cont \notin {"commit", "confirm"}
    BY <1>1 DEF Undone, Committing
  <2>2. pc' = "undo" /\ undoOk' => \A k \in 1 .. at' - 1 : store'[UndoOrder[k]] = saved'[UndoOrder[k]]
    BY <1>3, <1>4, <1>6
  <2>3. pc' = "clear" => \A i \in Item : store'[i] = saved'[i]
    BY <1>3, <1>6, UndoCovers
  <2> QED BY <1>1, <1>3, <2>1, <2>2, <2>3 DEF Undone, Committing
<1>8. Taken' /\ Barred' /\ Decided'
  BY <1>1, <1>3, UndoFollows
<1>9. Shrinks'
  <2>1. pc' # "body"
    BY <1>3
  <2>2. \A i \in Booked : Grants(store[i]) \subseteq Grants(saved[i]) => Grants(store'[i]) \subseteq Grants(saved[i])
    BY <1>5 DEF Booked
  <2> QED BY <1>3, <2>1, <2>2 DEF Shrinks, Barren
<1> QED BY <1>7, <1>8, <1>9

(* An item the journal cannot give back keeps the rollback from clearing.  *)
LEMMA UndoDamagedKeepsPaths == ASSUME IInv, Paths, UndoDamaged PROVE Paths'
<1> DEFINE last == UndoOrder[at] = "pctl"
<1> USE DEF Paths
<1>1. pc = "undo" /\ owner # Nobody /\ store' = store /\ UndoMove(FALSE, last)
  BY DEF UndoDamaged
<1> HIDE DEF last
<1>2. FALSE \in BOOLEAN /\ last \in BOOLEAN
  BY DEF last
<1>3. /\ pc' \in {"undo", "clear", "flag"}
      /\ undoOk' = FALSE
      /\ pc' = "clear" => FALSE
      /\ UNCHANGED <<inbox, tries, owner, saved, disabled, actor, next, cont>>
  BY <1>1, <1>2, UndoMoveControl
<1>4. Undone' /\ Shrinks'
  BY <1>1, <1>3 DEF Undone, Committing, Shrinks, Barren
<1>5. Taken' /\ Barred' /\ Decided'
  BY <1>1, <1>3, UndoFollows
<1> QED BY <1>4, <1>5

(* What a failed write leaves: the old content, nothing or, where it is a  *)
(* replacement that failed late, the new one.                              *)
LEMMA TornGrants ==
  ASSUME NEW item, NEW content, NEW left \in Torn(item, content)
  PROVE  left \in {store[item], content, {}} /\ (item # "pctl" /\ ~(item = "ledger" /\ pc = "body") => left \in {store[item], {}})
BY DEF Torn

(* An item whose restoring fails keeps the rollback from clearing.         *)
LEMMA UndoFaultKeepsPaths == ASSUME IInv, Paths, UndoFault PROVE Paths'
<1> DEFINE item == UndoOrder[at]
<1> USE DEF Paths
<1>1. pc = "undo" /\ owner # Nobody /\ UndoMove(FALSE, FALSE)
  BY DEF UndoFault
<1>2. PICK content \in Torn(item, saved[item]) : store' = [store EXCEPT ![item] = content]
  BY DEF UndoFault
<1>3. /\ pc' \in {"undo", "clear", "flag"}
      /\ undoOk' = FALSE
      /\ pc' = "clear" => FALSE
      /\ UNCHANGED <<inbox, tries, owner, saved, disabled, actor, next, cont>>
  BY <1>1, UndoMoveControl
<1>4. Undone'
  BY <1>1, <1>3 DEF Undone, Committing
<1>5. Taken' /\ Barred' /\ Decided'
  BY <1>1, <1>3, UndoFollows
<1>6. Shrinks'
  <2>1. pc' # "body" /\ Grants({}) = {}
    BY <1>3 DEF Grants
  <2>2. content \in {store[item], saved[item], {}}
    BY TornGrants
  <2>3. \A i \in Booked : store'[i] \in {store[i], saved[i], {}}
    BY <1>2, <2>2 DEF FilesOK, Contents, Booked
  <2>4. \A i \in Booked : Grants(store[i]) \subseteq Grants(saved[i]) => Grants(store'[i]) \subseteq Grants(saved[i])
    BY <2>1, <2>3
  <2> QED BY <1>3, <2>1, <2>4 DEF Shrinks, Barren
<1> QED BY <1>4, <1>5, <1>6

(* No return leads a disabled service into a handler.                      *)
LEMMA ReturnBarred ==
  ASSUME actor' = actor, pc' \in {"idle", "retire", "sample", "boot", "fail", "report", "flag", "requeue"},
         pc' = "sample" => actor = Enforcer \/ Kind[actor] = "waive"
  PROVE  Barred'
BY ActorsAssumption DEF Barred

(* Without a journal there is nothing to restore, and the caller goes on.  *)
LEMMA UndoNothingKeepsPaths == ASSUME IInv, Paths, UndoNothing PROVE Paths'
<1> USE DEF IInv, Paths, UndoNothing, Goto, files
<1>1. pc' \in {"idle", "retire", "sample", "boot", "fail", "report"} /\ (pc' = "sample" => cont \in {"sample", "confirm"})
  BY AfterPlace DEF ControlOK
<1>2. cont \notin {"commit", "confirm"}
  BY DEF Undone, Committing
<1>3. Undone' /\ Taken'
  BY <1>1 DEF Undone, Taken
<1>4. Barred'
  BY <1>1, <1>2, ReturnBarred DEF Taken
<1>5. Decided' /\ Shrinks'
  BY <1>1 DEF Decided, Shrinks, Barren
<1> QED BY <1>3, <1>4, <1>5

(* A clearing returns to its caller, and to none that executes a grant     *)
(* while disabled.                                                         *)
LEMMA ClearReturn ==
  ASSUME IInv, Paths, pc = "clear", actor' = actor, pc' = IF cont = "boot" THEN "flag" ELSE After(cont)
  PROVE  /\ pc' \in {"idle", "retire", "sample", "fail", "report", "flag"}
         /\ pc' = "flag" <=> cont = "boot"
         /\ Barred'
<1> USE DEF IInv, Paths
<1>1. pc' \in {"idle", "retire", "sample", "fail", "report", "flag"} /\ (pc' = "flag" <=> cont = "boot")
  BY DEF After, ControlOK, Return
<1>2. pc' = "sample" => cont \in {"sample", "confirm"}
  BY AfterPlace DEF ControlOK
<1>3. pc' = "sample" => actor = Enforcer \/ Kind[actor] = "waive"
  BY <1>2 DEF Undone, Taken
<1>4. Barred'
  BY <1>1, <1>3, ReturnBarred
<1> QED BY <1>1, <1>4

(* A cleared journal belongs to nobody.                                    *)
LEMMA ClearDoneKeepsPaths == ASSUME IInv, Paths, ClearDone PROVE Paths'
<1> USE DEF Paths
<1>1. /\ pc = "clear" /\ owner' = Nobody
      /\ pc' = IF cont = "boot" THEN "flag" ELSE After(cont)
      /\ UNCHANGED <<inbox, store, saved, disabled, actor, at, next, cont, undoOk>>
  BY DEF ClearDone, Goto
<1>2. /\ pc' \in {"idle", "retire", "sample", "fail", "report", "flag"}
      /\ pc' = "flag" <=> cont = "boot"
      /\ Barred'
  BY <1>1, ClearReturn
<1>3. Undone' /\ Decided' /\ Shrinks'
  BY <1>1, <1>2 DEF Undone, Decided, Shrinks
<1>4. Taken'
  BY <1>1, <1>2, ActorsAssumption DEF Taken
<1> QED BY <1>2, <1>3, <1>4

(* A journal that cannot be cleared stays with who opened it.              *)
LEMMA ClearFaultKeepsPaths == ASSUME IInv, Paths, ClearFault PROVE Paths'
<1> USE DEF Paths
<1>1. /\ pc = "clear"
      /\ pc' = IF cont = "boot" THEN "flag" ELSE After(cont)
      /\ UNCHANGED <<inbox, store, owner, saved, disabled, actor, at, next, cont, undoOk>>
  BY DEF ClearFault, Goto
<1>2. /\ pc' \in {"idle", "retire", "sample", "fail", "report", "flag"}
      /\ pc' = "flag" <=> cont = "boot"
      /\ Barred'
  BY <1>1, ClearReturn
<1>3. Undone' /\ Decided' /\ Shrinks'
  BY <1>1, <1>2 DEF Undone, Decided, Shrinks, Barren
<1>4. Taken'
  BY <1>1, <1>2 DEF Taken
<1> QED BY <1>2, <1>3, <1>4

(* Disabling the service starts no handler.                                *)
LEMMA FlagKeepsPaths == ASSUME IInv, Paths, Flag PROVE Paths'
<1> USE DEF IInv, Paths
<1>1. /\ pc = "flag"
      /\ pc' = CASE cont = "boot" -> "requeue" [] cont = "sample" -> "report" [] OTHER -> After(cont)
      /\ UNCHANGED <<inbox, store, owner, saved, actor, at, next, cont, undoOk>>
  BY DEF Flag, Goto
<1>2. pc' \in {"idle", "retire", "fail", "report", "requeue"} /\ (pc' = "requeue" => cont = "boot")
  BY <1>1 DEF After, ControlOK, Return, Taken
<1>3. Barred'
  BY <1>1, <1>2, ReturnBarred
<1>4. Undone' /\ Decided' /\ Shrinks'
  BY <1>1, <1>2 DEF Undone, Decided, Shrinks, Barren
<1>5. Taken'
  BY <1>1, <1>2 DEF Taken, BootActor
<1> QED BY <1>3, <1>4, <1>5

(* A request that is taken is moved to processing/ first.                  *)
LEMMA TakeKeepsPaths == ASSUME IInv, Paths, NEW r \in Requests, Take(r) PROVE Paths'
BY DEF IInv, Paths, Take, Goto, files, Undone, Taken, FilesOK, Barred, Decided, Shrinks

(* The gate lets no bonus time and no early release through to a disabled  *)
(* service, and only a waiver rolls back a journal of another.             *)
LEMMA GateKeepsPaths == ASSUME IInv, Paths, Gate PROVE Paths'
<1> USE DEF Paths, Gate, Goto, files, Undo
<1>1. /\ pc = "gate" /\ pc' \in {"fail", "sample", "undo"}
      /\ UNCHANGED <<inbox, store, owner, saved, disabled, actor, next>>
      /\ pc' = "undo" => Kind[actor] = "waive" /\ owner # Nobody /\ cont' = "sample" /\ at' = 1
      /\ pc' = "sample" => ~(disabled /\ Kind[actor] \in {"add", "buffer"})
  BY DEF Foreign
<1>2. Undone'
  BY <1>1 DEF Undone, Committing
<1>3. Taken'
  <2>1. actor \in Requests
    BY <1>1 DEF Taken
  <2> QED BY <1>1, <2>1 DEF Taken
<1>4. Barred'
  BY <1>1, KindAssumption DEF Barred
<1>5. Decided' /\ Shrinks'
  BY <1>1 DEF Decided, Shrinks, Barren
<1> QED BY <1>2, <1>3, <1>4, <1>5

(* The usage sample writes the state and no grant.                         *)
LEMMA SampleKeepsPaths == ASSUME IInv, Paths, Sample PROVE Paths'
<1> USE DEF IInv, Paths
<1>1. /\ pc = "sample" /\ pc' \in {"admit", "flag", "fail"}
      /\ pc' = "flag" => actor = Enforcer
      /\ cont' = IF actor = Enforcer THEN "tick" ELSE cont
      /\ UNCHANGED <<inbox, owner, saved, disabled, actor, next>>
  BY DEF Sample, Goto
<1>2. \A i \in Booked : Grants(store'[i]) \subseteq Grants(store[i])
  <2>1. Grants({}) = {} /\ Grants(state) = Grants(store["state"])
    BY GrantsLoaded, Marks DEF Grants, state
  <2>2. PICK content : content \in {state, store["state"], {}} /\ store' = [store EXCEPT !["state"] = content]
    BY TornGrants DEF Sample
  <2>3. \A i \in Booked : store'[i] = IF i = "state" THEN content ELSE store[i]
    BY <2>2 DEF FilesOK, Contents, Booked
  <2> QED BY <2>1, <2>2, <2>3
<1>3. Undone' /\ Barred' /\ Decided'
  BY <1>1 DEF Undone, Barred, Decided
<1>4. Taken'
  BY <1>1, ActorsAssumption DEF Taken
<1>5. Shrinks'
  BY <1>1, <1>2 DEF Shrinks, Barren
<1> QED BY <1>3, <1>4, <1>5

(* Who is admitted has decided what to write; a code is refused by a       *)
(* disabled service.                                                       *)
LEMMA AdmitKeepsPaths == ASSUME IInv, Paths, Admit PROVE Paths'
<1> USE DEF IInv, Paths
<1>1. /\ pc = "admit" /\ pc' \in {"begin", "idle", "fail"}
      /\ next' = IF pc' = "begin" THEN Plan(actor) ELSE next
      /\ UNCHANGED <<inbox, tries, store, owner, saved, disabled, undocked, actor, at, cont, undoOk>>
  BY DEF Admit, Goto, files
<1>2. Undone' /\ Shrinks'
  BY <1>1 DEF Undone, Shrinks, Barren
<1>3. Taken'
  BY <1>1 DEF Taken
<1>4. Barred'
  <2>1. pc' = "begin" /\ actor \in Requests /\ disabled => Kind[actor] # "code"
    BY <1>1, ActorsAssumption DEF Admit, Goto, Refused
  <2> QED BY <1>1, <2>1 DEF Barred
<1>5. Decided'
  <2>1. \A i \in Booked : Grants(Plan(actor)[i]) = Grants(store[i]) \cup Entry(actor, i)
    BY GrantsPlan DEF ControlOK
  <2>2. \A i : Entry(actor, i)' = Entry(actor, i)
    BY <1>1 DEF Entry
  <2> QED BY <1>1, <2>1, <2>2 DEF Decided
<1> QED BY <1>2, <1>3, <1>4, <1>5

(* Who only composes a target has no entry in any book.                    *)
LEMMA BarrenAdds == \A a, i : Barren(a) => Entry(a, i) = {}
BY ActorsAssumption DEF Barren, Entry

(* A body that rejoins its own journal and adds nothing has nothing to add *)
(* to it.                                                                  *)
LEMMA StartShrinks ==
  ASSUME Paths, pc = "begin", owner = actor, owner # Nobody, UNCHANGED <<store, owner, saved, actor, next>>
  PROVE  Shrinks'
<1> USE DEF Paths
<1>1. Barren(actor) => \A i \in Booked : Grants(next[i]) = Grants(store[i])
  BY BarrenAdds DEF Decided
<1>2. Barren(actor) => \A i \in Booked : Grants(next[i]) \subseteq Grants(saved[i])
  BY <1>1 DEF Shrinks
<1> QED BY <1>2 DEF Shrinks, Barren

(* A journal already there is joined by its own owner only.                *)
LEMMA BeginKeepsPaths == ASSUME IInv, Paths, Begin PROVE Paths'
<1> USE DEF IInv, Paths
<1>1. /\ pc = "begin" /\ pc' \in {"compact", "body", "fail", "undo", "idle"}
      /\ pc' = "body" => owner = actor
      /\ pc' = "compact" => owner = Nobody
      /\ pc' = "undo" => cont' = "tick" /\ at' = 1
      /\ UNCHANGED <<inbox, tries, store, owner, saved, disabled, actor, next>>
  BY DEF Begin, BeginRefused, StartBody, Undo, Goto, files
<1>2. Undone'
  BY <1>1 DEF Undone, Committing
<1>3. Taken' /\ Barred'
  BY <1>1 DEF Taken, Barred
<1>4. Decided'
  <2>1. \A i : Entry(actor, i)' = Entry(actor, i)
    BY <1>1 DEF Entry
  <2> QED BY <1>1, <2>1 DEF Decided
<1>5. CASE pc' = "body"
  BY <1>1, <1>2, <1>3, <1>4, <1>5, StartShrinks, ActorsAssumption DEF ControlOK
<1>6. CASE pc' # "body"
  <2>1. Shrinks'
    BY <1>1, <1>6 DEF Shrinks, Barren
  <2> QED BY <1>2, <1>3, <1>4, <2>1
<1> QED BY <1>5, <1>6

(* Compacting the ledger drops what is old, from the file and from what    *)
(* was decided, and no grant.                                              *)
LEMMA CompactKeepsPaths == ASSUME IInv, Paths, Compact PROVE Paths'
<1> USE DEF IInv, Paths
<1>1. /\ pc = "compact" /\ pc' \in {"open", "fail", "undo", "idle"}
      /\ pc' = "undo" => cont' = "tick" /\ at' = 1
      /\ UNCHANGED <<inbox, tries, owner, saved, disabled, actor>>
  BY DEF Compact, BeginRefused, Undo, Goto
<1>2. Undone'
  BY <1>1 DEF Undone, Committing
<1>3. Taken' /\ Barred'
  BY <1>1 DEF Taken, Barred
<1>4. Decided'
  <2>1. \A i : Entry(actor, i)' = Entry(actor, i)
    BY <1>1 DEF Entry
  <2>2. CASE pc' = "open"
    <3>1. /\ store' = [store EXCEPT !["ledger"] = @ \ {Old}]
          /\ next' = [next EXCEPT !["ledger"] = @ \ {Old}]
      BY <1>1, <2>2 DEF Compact, BeginRefused, Undo, Goto
    <3>2. \A i \in Booked : /\ store'[i] \in {store[i], store[i] \ {Old}}
                            /\ next'[i] \in {next[i], next[i] \ {Old}}
      BY <3>1 DEF FilesOK, Contents, Booked
    <3>3. \A content : Grants(content \ {Old}) = Grants(content)
      BY Marks DEF Grants
    <3>4. \A i \in Booked : Grants(store'[i]) = Grants(store[i]) /\ Grants(next'[i]) = Grants(next[i])
      BY <3>2, <3>3
    <3> QED BY <1>1, <2>1, <3>4 DEF Decided
  <2>3. CASE pc' # "open"
    BY <1>1, <2>3 DEF Decided
  <2> QED BY <2>2, <2>3
<1>5. Shrinks'
  <2>1. \A i \in Booked : Grants(store'[i]) \subseteq Grants(store[i])
    <3>1. PICK content : content \in {store["ledger"] \ {Old}, store["ledger"], {}} /\ store' = [store EXCEPT !["ledger"] = content]
      BY TornGrants DEF Compact
    <3>2. Grants(content) \subseteq Grants(store["ledger"])
      BY <3>1 DEF Grants
    <3>3. \A i \in Booked : store'[i] = IF i = "ledger" THEN content ELSE store[i]
      BY <3>1 DEF FilesOK, Contents, Booked
    <3> QED BY <3>2, <3>3
  <2> QED BY <1>1, <2>1 DEF Shrinks, Barren
<1> QED BY <1>2, <1>3, <1>4, <1>5

(* The journal that is opened holds the files as they are.                 *)
LEMMA OpenKeepsPaths == ASSUME IInv, Paths, Open PROVE Paths'
<1> USE DEF Paths
<1>1. /\ pc = "open" /\ pc' \in {"body", "fail", "undo", "idle"}
      /\ pc' = "undo" => cont' = "tick" /\ at' = 1
      /\ pc' = "body" => owner' = actor /\ saved' = store
      /\ pc' # "body" => owner' = owner /\ saved' = saved
      /\ UNCHANGED <<inbox, tries, store, disabled, actor, next>>
  BY DEF Open, BeginRefused, StartBody, Undo, Goto
<1>2. Undone'
  BY <1>1 DEF Undone, Committing
<1>3. Taken'
  BY <1>1 DEF Taken
<1>4. Barred' /\ Decided'
  BY <1>1 DEF Barred, Decided
<1>5. CASE pc' = "body"
  <2>1. Barren(actor) => \A i \in Booked : Grants(next[i]) = Grants(store[i])
    BY <1>1, BarrenAdds DEF Decided
  <2>2. Shrinks'
    BY <1>1, <1>5, <2>1 DEF Shrinks, Barren
  <2> QED BY <1>2, <1>3, <1>4, <2>2
<1>6. CASE pc' # "body"
  <2>1. Shrinks'
    BY <1>1, <1>6 DEF Shrinks, Barren
  <2> QED BY <1>2, <1>3, <1>4, <2>1
<1> QED BY <1>5, <1>6

(* A body writes what its handler decided; only the mark of a waiver is    *)
(* added to the file as it is.                                             *)
LEMMA ContentGrants ==
  ASSUME Written(Step) \in Booked
  PROVE  \/ Step = Written(Step) /\ Content(Step) = next[Written(Step)]
         \/ Step = "waived" /\ Written(Step) = "state" /\ Grants(Content(Step)) = Grants(store["state"])
<1>1. CASE Step = "waived"
  <2>1. Grants(state \cup {Waived}) = Grants(store["state"])
    <3>1. Grants(state \cup {Waived}) = Grants(state)
      BY Marks DEF Grants
    <3> QED BY <3>1, GrantsLoaded DEF state
  <2> QED BY <1>1, <2>1 DEF Content, Written
<1>2. CASE Step # "waived"
  BY <1>2 DEF Content, Written
<1> QED BY <1>1, <1>2

(* A write of a body that adds nothing leaves the grants it found.         *)
LEMMA BodyWriteKeepsPaths == ASSUME IInv, Paths, BodyWrite PROVE Paths'
<1> USE DEF IInv, Paths
<1>1. /\ pc = "body" /\ Written(Step) \in Item /\ owner = actor
      /\ pc' \in {"body", "idle", "clear", "undo"}
      /\ pc' = "clear" => cont' = "commit"
      /\ pc' = "undo" => cont' \in {"tick", "fail"} /\ at' = 1
      /\ UNCHANGED <<inbox, tries, owner, saved, disabled, actor, next>>
  BY DEF BodyWrite, Advance, Finish, Clear, Abort, Undo, Goto, OwnJournalOnly
<1>2. Undone'
  BY <1>1, ActorsAssumption DEF Undone, Committing, ControlOK
<1>3. Taken' /\ Barred' /\ Decided'
  BY <1>1 DEF Taken, Barred, Decided
<1>4. ASSUME Barren(actor) PROVE \A i \in Booked : Grants(store'[i]) \subseteq Grants(saved[i])
  <2>1. PICK content : /\ content \in {store[Written(Step)], Content(Step), {}}
                       /\ store' = [store EXCEPT ![Written(Step)] = content]
    BY TornGrants DEF BodyWrite
  <2>2. \A i \in Booked : store'[i] = IF i = Written(Step) THEN content ELSE store[i]
    BY <2>1 DEF FilesOK, Contents, Booked
  <2>3. \A i \in Booked : Grants(store[i]) \subseteq Grants(saved[i]) /\ Grants(next[i]) \subseteq Grants(saved[i])
    BY <1>1, <1>4, ActorsAssumption DEF Shrinks, ControlOK
  <2>4. Written(Step) \in Booked => Grants(Content(Step)) \subseteq Grants(saved[Written(Step)])
    BY <2>3, ContentGrants DEF Booked, Item
  <2>5. Grants({}) = {}
    BY DEF Grants
  <2> QED BY <2>1, <2>2, <2>3, <2>4, <2>5
<1>5. Shrinks'
  BY <1>1, <1>4 DEF Shrinks, Barren
<1> QED BY <1>2, <1>3, <1>5

(* Observing PCTL decides whether a confirmation is owed, and no grant.    *)
LEMMA BodyObserveKeepsPaths == ASSUME IInv, Paths, BodyObserve PROVE Paths'
<1> USE DEF IInv, Paths
<1>1. /\ pc = "body" /\ owner = actor
      /\ pc' \in {"body", "idle", "clear", "undo"}
      /\ pc' = "clear" => cont' = "commit"
      /\ pc' = "undo" => cont' \in {"tick", "fail"} /\ at' = 1
      /\ UNCHANGED <<inbox, tries, store, owner, saved, disabled, actor>>
  BY DEF BodyObserve, Advance, Finish, Clear, Abort, Undo, Goto, OwnJournalOnly, files
<1>2. Undone'
  BY <1>1, ActorsAssumption DEF Undone, Committing, ControlOK
<1>3. Taken' /\ Barred' /\ Decided'
  BY <1>1 DEF Taken, Barred, Decided
<1>4. \A i \in Booked : Grants(next'[i]) = Grants(next[i])
  <2>1. PICK content : /\ content \in {next["state"], next["state"] \ {Pending}, next["state"] \cup {Pending}}
                       /\ next' = [next EXCEPT !["state"] = content]
    BY DEF BodyObserve, FilesOK, Contents
  <2>2. Grants(content) = Grants(next["state"])
    BY <2>1, Marks DEF Grants
  <2>3. \A i \in Booked : next'[i] = IF i = "state" THEN content ELSE next[i]
    BY <2>1 DEF FilesOK, Contents, Booked
  <2> QED BY <2>2, <2>3
<1>5. Shrinks'
  BY <1>1, <1>4 DEF Shrinks, Barren
<1> QED BY <1>2, <1>3, <1>5

(* Writing the answer in the body moves no file of the books.              *)
LEMMA BodyResultKeepsPaths == ASSUME IInv, Paths, BodyResult PROVE Paths'
<1> USE DEF IInv, Paths, BodyResult, Goto, files, Advance, Finish, Abort, Undo, Clear
<1>1. Undone'
  BY ActorsAssumption DEF Undone, Committing, ControlOK, OwnJournalOnly
<1>2. Taken' /\ Barred' /\ Decided' /\ Shrinks'
  BY DEF Taken, Barred, Decided, Shrinks
<1> QED BY <1>1, <1>2

(* A request that fails rolls back its own journal only.                   *)
LEMMA FailKeepsPaths == ASSUME IInv, Paths, Fail PROVE Paths'
BY DEF Paths, Fail, Goto, files, Undo, Undone, Committing, Taken, Barred, Decided, Shrinks

(* Reporting an error writes no book.                                      *)
LEMMA ReportKeepsPaths == ASSUME IInv, Paths, Report PROVE Paths'
BY DEF Paths, Report, Goto, files, Undone, Taken, Barred, Decided, Shrinks

(* Archiving a request leaves no actor in a handler.                       *)
LEMMA RetireKeepsPaths == ASSUME IInv, Paths, Retire PROVE Paths'
<1> USE DEF IInv, Paths, Retire, Goto, files
<1>1. Undone' /\ Barred' /\ Decided' /\ Shrinks'
  BY DEF Undone, Barred, Decided, Shrinks
<1>2. Taken'
  BY ActorsAssumption DEF Taken, FilesOK
<1> QED BY <1>1, <1>2

(* A tick samples first.                                                   *)
LEMMA TickKeepsPaths == ASSUME IInv, Paths, Tick PROVE Paths'
<1> USE DEF Paths, Tick, Goto, files
<1>1. Undone' /\ Barred' /\ Decided' /\ Shrinks'
  BY DEF Undone, Barred, Decided, Shrinks
<1>2. Taken'
  BY ActorsAssumption DEF Taken
<1> QED BY <1>1, <1>2

(* A confirmed target commits the journal the tick left open, as the       *)
(* background owner.                                                       *)
LEMMA TickConfirmKeepsPaths == ASSUME IInv, Paths, TickConfirm PROVE Paths'
<1> USE DEF IInv, Paths
<1>1. /\ pc = "idle" /\ owner = Enforcer /\ actor' = Enforcer
      /\ \/ pc' = "clear" /\ cont' = "confirm"
         \/ pc' = "flag" /\ cont' = "tick"
      /\ UNCHANGED <<inbox, owner, saved, disabled, next>>
  BY DEF TickConfirm, TickPending, Clear, Goto
<1>2. Undone'
  BY <1>1, ActorsAssumption DEF Undone, Committing
<1>3. Taken' /\ Barred' /\ Decided'
  BY <1>1, ActorsAssumption DEF Taken, Barred, Decided
<1>4. \A i \in Booked : Grants(store'[i]) \subseteq Grants(store[i])
  <2>1. PICK content : content \subseteq store["state"] /\ store' = [store EXCEPT !["state"] = content]
    BY TornGrants DEF TickConfirm
  <2>2. \A i \in Booked : store'[i] = IF i = "state" THEN content ELSE store[i]
    BY <2>1 DEF FilesOK, Contents, Booked
  <2> QED BY <2>1, <2>2 DEF Grants
<1>5. Shrinks'
  BY <1>1, <1>4 DEF Shrinks, Barren
<1> QED BY <1>2, <1>3, <1>5

(* A target that was not confirmed in time is rolled back.                 *)
LEMMA TickTimeoutKeepsPaths == ASSUME IInv, Paths, TickTimeout PROVE Paths'
<1> USE DEF Paths, TickTimeout, Goto, files, TickPending, Undo
<1>1. Undone' /\ Barred' /\ Decided' /\ Shrinks'
  BY DEF Undone, Committing, Barred, Decided, Shrinks
<1>2. Taken'
  BY ActorsAssumption DEF Taken
<1> QED BY <1>1, <1>2

(* A crash in the middle of a write outside a body loses grants at most.   *)
LEMMA CutGrants ==
  ASSUME IInv, NEW content \in Cut.outcomes, Cut.item \in Booked
  PROVE  \/ Grants(content) \subseteq Grants(store[Cut.item])
         \/ pc = "body" /\ Grants(content) = Grants(next[Cut.item])
<1> USE DEF IInv
<1>1. Grants({}) = {} /\ Grants(state) = Grants(store["state"])
  BY GrantsLoaded DEF Grants, state
<1>2. CASE pc = "sample"
  <2>1. Cut.item = "state" /\ content \in {store["state"], state, {}}
    BY <1>2, TornGrants DEF Cut
  <2> QED BY <1>1, <2>1
<1>3. CASE pc = "compact"
  <2>1. Cut.item = "ledger" /\ content \in {store["ledger"], {}}
    BY <1>3, TornGrants DEF Cut
  <2> QED BY <1>1, <2>1
<1>4. CASE pc = "body" /\ Written(Step) \in Item
  <2>1. Cut.item = Written(Step) /\ content \in {store[Written(Step)], Content(Step), {}}
    BY <1>4, TornGrants DEF Cut, Step
  <2>2. \/ Content(Step) = next[Written(Step)]
        \/ Written(Step) = "state" /\ Grants(Content(Step)) = Grants(store["state"])
    BY <2>1, ContentGrants
  <2> QED BY <1>1, <1>4, <2>1, <2>2
<1>5. CASE pc = "undo"
  <2>1. Cut.item = UndoOrder[at] /\ content \in Torn(Cut.item, saved[Cut.item])
    BY <1>5 DEF Cut
  <2>2. content \in {store[Cut.item], {}}
    BY <1>5, <2>1, TornGrants DEF Booked
  <2> QED BY <1>1, <2>2
<1>6. CASE /\ pc \notin {"sample", "compact", "undo"}
           /\ ~(pc = "body" /\ Written(Step) \in Item)
  <2>1. Cut.item = "state" /\ content = store["state"]
    BY <1>6 DEF Cut, Step
  <2> QED BY <2>1
<1> QED BY <1>2, <1>3, <1>4, <1>5, <1>6

(* After a crash nothing is under way, and the journal is as it was left.  *)
LEMMA CrashKeepsPaths == ASSUME IInv, Paths, Crash PROVE Paths'
<1> USE DEF IInv, Paths
<1>1. /\ pc' = "boot" /\ actor' = Enforcer /\ cont' = "boot" /\ owner' \in {owner, Nobody}
      /\ UNCHANGED <<inbox, saved>>
  BY DEF Crash, Goto
<1>2. Undone' /\ Barred' /\ Decided'
  BY <1>1 DEF Undone, Barred, Decided
<1>3. Taken'
  BY <1>1, ActorsAssumption DEF Taken
<1>4. ASSUME owner # Nobody, Barren(owner)
      PROVE  \A i \in Booked : Grants(store'[i]) \subseteq Grants(saved[i])
  <2>1. PICK content \in Cut.outcomes : store' = [store EXCEPT ![Cut.item] = content]
    BY DEF Crash
  <2>2. \A i \in Booked : store'[i] = IF i = Cut.item THEN content ELSE store[i]
    BY <2>1 DEF FilesOK, Contents, Booked
  <2>3. \A i \in Booked : Grants(store[i]) \subseteq Grants(saved[i])
    BY <1>4 DEF Shrinks
  <2>4. pc = "body" => \A i \in Booked : Grants(next[i]) \subseteq Grants(saved[i])
    BY <1>4 DEF Shrinks, OwnJournalOnly
  <2>5. Cut.item \in Booked => Grants(content) \subseteq Grants(saved[Cut.item])
    BY <2>3, <2>4, CutGrants
  <2> QED BY <2>2, <2>3, <2>5
<1>5. Shrinks'
  BY <1>1, <1>4 DEF Shrinks, Barren
<1> QED BY <1>2, <1>3, <1>5

(* At first there is no journal and no actor.                              *)
LEMMA InitPaths == Init => Paths
<1> SUFFICES ASSUME Init PROVE Paths
  OBVIOUS
<1> USE DEF Init
<1>1. Undone /\ Taken
  BY ActorsAssumption DEF Undone, Taken
<1>2. Barred /\ Decided /\ Shrinks
  BY DEF Barred, Decided, Shrinks
<1> QED BY <1>1, <1>2 DEF Paths

(* Nothing changes what holds where nothing moves.                         *)
LEMMA StutterPaths == IInv /\ Paths /\ UNCHANGED vars => Paths'
<1> SUFFICES ASSUME IInv, Paths, UNCHANGED vars PROVE Paths'
  OBVIOUS
<1> USE DEF Paths, vars, files, worker
<1>1. Undone' /\ Taken'
  BY DEF Undone, Taken, Committing
<1>2. Barred' /\ Decided' /\ Shrinks'
  BY DEF Barred, Decided, Shrinks, Entry, Barren
<1> QED BY <1>1, <1>2

(* Every step keeps the places of the code, by cases over the actions.     *)
LEMMA NextPaths == IInv /\ Paths /\ [Next]_vars => Paths'
<1> SUFFICES ASSUME IInv, Paths, [Next]_vars PROVE Paths'
  OBVIOUS
<1>1. CASE Environment
  BY <1>1, SubmitKeepsPaths, FlipKeepsPaths, ParentResumeKeepsPaths, CrashKeepsPaths DEF Environment
<1>2. CASE Boot \/ Requeue \/ ClearDone \/ ClearFault \/ Flag
  BY <1>2, BootKeepsPaths, RequeueKeepsPaths, ClearDoneKeepsPaths, ClearFaultKeepsPaths,
     FlagKeepsPaths
<1>3. CASE Rollback
  BY <1>3, UndoRestoreKeepsPaths, UndoDamagedKeepsPaths, UndoFaultKeepsPaths,
     UndoNothingKeepsPaths DEF Rollback
<1>4. CASE Handler
  BY <1>4, GateKeepsPaths, SampleKeepsPaths, AdmitKeepsPaths, BeginKeepsPaths,
     CompactKeepsPaths, OpenKeepsPaths,
     BodyWriteKeepsPaths, BodyObserveKeepsPaths, BodyResultKeepsPaths, FailKeepsPaths, ReportKeepsPaths, RetireKeepsPaths DEF Handler
<1>5. CASE Ticking
  BY <1>5, TickKeepsPaths, TickConfirmKeepsPaths, TickTimeoutKeepsPaths DEF Ticking
<1>6. CASE \E r \in Requests : Take(r)
  BY <1>6, TakeKeepsPaths
<1>7. CASE UNCHANGED vars
  BY <1>7, StutterPaths
<1> QED BY <1>1, <1>2, <1>3, <1>4, <1>5, <1>6, <1>7 DEF Next, Service

(* So the places of the code hold in every behaviour.                      *)
LEMMA SpecPaths == Spec => [](IInv /\ Paths)
BY InitIInv, NextIInv, InitPaths, NextPaths, PTL DEF Spec

-----------------------------------------------------------------------------
(***************************************************************************)
(* What a step does to the view.                                           *)
(***************************************************************************)

(* A step keeps the view: there is a journal and it is not touched, or     *)
(* there is none and the files keep their grants, or lose some by a fault  *)
(* that is recorded.                                                       *)
ViewHolds ==
  /\ UNCHANGED <<owner, saved>>
  /\ owner = Nobody => \/ \A i \in Booked : Grants(store'[i]) = Grants(store[i])
                       \/ ~Intact' /\ Grants(store'["rules"]) \subseteq Grants(store["rules"])

(* The view is handed from the files to a journal of the same content.     *)
ViewOpens == pc = "open" /\ owner = Nobody /\ owner' = actor /\ saved' = store

(* The view is handed back from the journal to the files, when it is       *)
(* cleared.                                                                *)
ViewCloses == pc = "clear" /\ owner # Nobody /\ owner' = Nobody /\ UNCHANGED <<store, saved>>

(* The three ways a step can treat the view.                               *)
ViewMoves == ViewHolds \/ ViewOpens \/ ViewCloses

(* A step that writes neither file nor journal keeps the view.             *)
LEMMA StoreStays == UNCHANGED <<store, owner, saved>> => ViewHolds
BY DEF ViewHolds

(* A file spoiled while no journal is open loses grants at most, and is    *)
(* recorded.                                                               *)
LEMMA FileLost ==
  ASSUME FilesOK, NEW item \in Item, NEW content,
         store' = [store EXCEPT ![item] = content], store' # store => "file" \in harmed',
         Grants(content) \subseteq Grants(store[item]), UNCHANGED <<owner, saved>>
  PROVE  ViewHolds
<1>1. CASE store' = store
  BY <1>1, StoreStays
<1>2. CASE store' # store
  <2>1. ~Intact'
    BY <1>2 DEF Intact
  <2>2. store'["rules"] \in {store["rules"], content} /\ (item # "rules" => store'["rules"] = store["rules"])
    BY DEF FilesOK, Contents, Item
  <2>3. Grants(store'["rules"]) \subseteq Grants(store["rules"])
    <3>1. CASE item = "rules"
      BY <2>2, <3>1
    <3>2. CASE item # "rules"
      BY <2>2, <3>2
    <3> QED BY <3>1, <3>2
  <2> QED BY <2>1, <2>3 DEF ViewHolds
<1> QED BY <1>1, <1>2

(* Every step keeps the view, opens a journal or clears one: no handler    *)
(* writes the books in another way.                                        *)
LEMMA StepViews == ASSUME IInv, Paths, Next PROVE ViewMoves
<1> USE DEF IInv, Paths
<1>1. ASSUME NEW r \in Requests, Submit(r) PROVE ViewMoves
  BY <1>1, StoreStays DEF Submit, files, ViewMoves
<1>2. ASSUME NEW r \in Requests, Take(r) PROVE ViewMoves
  BY <1>2, StoreStays DEF Take, files, ViewMoves
<1>3. CASE Flip
  BY <1>3, StoreStays DEF Flip, files, ViewMoves
<1>4. CASE Requeue
  BY <1>4, StoreStays DEF Requeue, files, ViewMoves
<1>5. CASE UndoDamaged
  BY <1>5, StoreStays DEF UndoDamaged, UndoMove, files, ViewMoves
<1>6. CASE UndoNothing
  BY <1>6, StoreStays DEF UndoNothing, files, ViewMoves
<1>7. CASE ClearFault
  BY <1>7, StoreStays DEF ClearFault, files, ViewMoves
<1>8. CASE Flag
  BY <1>8, StoreStays DEF Flag, files, ViewMoves
<1>9. CASE Gate
  BY <1>9, StoreStays DEF Gate, files, ViewMoves
<1>10. CASE Admit
  BY <1>10, StoreStays DEF Admit, files, ViewMoves
<1>11. CASE Begin
  BY <1>11, StoreStays DEF Begin, files, ViewMoves
<1>12. CASE BodyObserve
  BY <1>12, StoreStays DEF BodyObserve, files, ViewMoves
<1>13. CASE BodyResult
  BY <1>13, StoreStays DEF BodyResult, files, ViewMoves
<1>14. CASE Fail
  BY <1>14, StoreStays DEF Fail, files, ViewMoves
<1>15. CASE Report
  BY <1>15, StoreStays DEF Report, files, ViewMoves
<1>16. CASE Retire
  BY <1>16, StoreStays DEF Retire, files, ViewMoves
<1>17. CASE Tick
  BY <1>17, StoreStays DEF Tick, files, ViewMoves
<1>18. CASE TickTimeout
  BY <1>18, StoreStays DEF TickTimeout, files, ViewMoves
<1>19. CASE UndoRestore
  BY <1>19, ActorsAssumption DEF UndoRestore, UndoMove, ViewMoves, ViewHolds, OwnJournalOnly,
     TickPending, ControlOK
<1>20. CASE UndoFault
  BY <1>20, ActorsAssumption DEF UndoFault, UndoMove, ViewMoves, ViewHolds, OwnJournalOnly,
     TickPending, ControlOK
<1>21. CASE BodyWrite
  BY <1>21, ActorsAssumption DEF BodyWrite, ViewMoves, ViewHolds, OwnJournalOnly, TickPending,
     ControlOK
<1>22. CASE TickConfirm
  BY <1>22, ActorsAssumption DEF TickConfirm, ViewMoves, ViewHolds, OwnJournalOnly, TickPending,
     ControlOK
<1>23. CASE ParentResume
  <2>1. \A i \in Booked : store'[i] = store[i]
    BY <1>23 DEF ParentResume, Booked, FilesOK, Contents
  <2> QED BY <1>23, <2>1 DEF ParentResume, ViewMoves, ViewHolds
<1>24. CASE Boot
  <2>1. Grants({}) = {} /\ Grants({Base}) = {}
    BY Marks DEF Grants
  <2>2. \A i \in Booked : Grants(store'[i]) = Grants(store[i])
    BY <1>24, <2>1 DEF Boot, Booked
  <2> QED BY <1>24, <2>2 DEF Boot, ViewMoves, ViewHolds
<1>25. CASE ClearDone
  BY <1>25 DEF ClearDone, ViewMoves, ViewCloses, Undone
<1>26. CASE Open
  <2>1. CASE UNCHANGED <<owner, saved>>
    BY <1>26, <2>1, StoreStays DEF Open, ViewMoves
  <2>2. CASE owner' = actor /\ saved' = store
    BY <1>26, <2>2 DEF Open, ViewMoves, ViewOpens, Taken
  <2> QED BY <1>26, <2>1, <2>2 DEF Open
<1>27. CASE Sample
  <2>1. UNCHANGED <<owner, saved>>
    BY <1>27 DEF Sample
  <2>2. CASE store' = [store EXCEPT !["state"] = state]
    <3>1. Grants(state) = Grants(store["state"])
      BY GrantsLoaded DEF state
    <3>2. \A i \in Booked : Grants(store'[i]) = Grants(store[i])
      BY <2>2, <3>1 DEF FilesOK, Contents, Booked
    <3> QED BY <2>1, <3>2 DEF ViewMoves, ViewHolds
  <2>3. CASE owner = Nobody /\ ~(store' = [store EXCEPT !["state"] = state])
    <3>1. PICK content \in Torn("state", state) : store' = [store EXCEPT !["state"] = content]
      BY <1>27, <2>3 DEF Sample
    <3>2. content \in {store["state"], {}}
      BY TornGrants
    <3>3. Grants(content) \subseteq Grants(store["state"])
      BY <3>2 DEF Grants
    <3>4. store' # store => "file" \in harmed'
      BY <1>27, <2>3 DEF Sample, Harm
    <3> QED BY <2>1, <3>1, <3>3, <3>4, FileLost DEF ViewMoves, Item
  <2> QED BY <2>1, <2>2, <2>3 DEF ViewMoves, ViewHolds
<1>28. CASE Compact
  <2>1. UNCHANGED <<owner, saved>>
    BY <1>28 DEF Compact
  <2>2. CASE store' = [store EXCEPT !["ledger"] = @ \ {Old}]
    <3>1. Grants(store["ledger"] \ {Old}) = Grants(store["ledger"])
      BY Marks DEF Grants
    <3>2. \A i \in Booked : Grants(store'[i]) = Grants(store[i])
      BY <2>2, <3>1 DEF FilesOK, Contents, Booked
    <3> QED BY <2>1, <3>2 DEF ViewMoves, ViewHolds
  <2>3. CASE ~(store' = [store EXCEPT !["ledger"] = @ \ {Old}])
    <3>1. PICK content \in Torn("ledger", {}) : store' = [store EXCEPT !["ledger"] = content]
      BY <1>28, <2>3 DEF Compact
    <3>2. content \in {store["ledger"], {}}
      BY TornGrants
    <3>3. Grants(content) \subseteq Grants(store["ledger"])
      BY <3>2 DEF Grants
    <3>4. store' # store => "file" \in harmed'
      BY <1>28, <2>3 DEF Compact, Harm
    <3> QED BY <2>1, <3>1, <3>3, <3>4, FileLost DEF ViewMoves, Item
  <2> QED BY <2>2, <2>3
<1>29. CASE Crash
  <2>1. PICK content \in Cut.outcomes : store' = [store EXCEPT ![Cut.item] = content]
    BY <1>29 DEF Crash
  <2>2. saved' = saved /\ (owner' = owner \/ (pc = "clear" /\ owner' = Nobody))
    BY <1>29 DEF Crash
  <2>3. owner = Nobody /\ store' # store => "file" \in harmed'
    BY <1>29 DEF Crash
  <2>4. CASE owner = Nobody /\ owner' = Nobody
    <3>1. pc # "body" /\ Cut.item \in Item
      BY <2>4, CutType, ActorsAssumption DEF OwnJournalOnly, ControlOK
    <3>2. CASE Cut.item \in Booked
      <4>1. Grants(content) \subseteq Grants(store[Cut.item])
        BY <3>1, <3>2, CutGrants
      <4>2. store' # store => "file" \in harmed'
        BY <2>3, <2>4
      <4> QED BY <2>1, <2>2, <2>4, <3>1, <4>1, <4>2, FileLost DEF ViewMoves
    <3>3. CASE Cut.item \notin Booked
      <4>1. \A i \in Booked : store'[i] = store[i]
        BY <2>1, <3>1, <3>3 DEF FilesOK, Contents, Booked
      <4> QED BY <2>2, <2>4, <4>1 DEF ViewMoves, ViewHolds
    <3> QED BY <3>2, <3>3
  <2>5. CASE owner # Nobody /\ owner' = owner
    BY <2>2, <2>5 DEF ViewMoves, ViewHolds
  <2>6. CASE owner # Nobody /\ owner' # owner
    <3>1. Cut.item = "state" /\ content = store["state"] /\ pc = "clear"
      BY <2>2, <2>6 DEF Cut
    <3>2. store' = store
      BY <2>1, <3>1 DEF FilesOK, Contents
    <3> QED BY <2>2, <2>6, <3>1, <3>2 DEF ViewMoves, ViewCloses
  <2> QED BY <2>2, <2>4, <2>5, <2>6
<1> QED BY <1>1, <1>2, <1>3, <1>4, <1>5, <1>6, <1>7, <1>8, <1>9, <1>10, <1>11, <1>12, <1>13,
   <1>14, <1>15, <1>16, <1>17, <1>18, <1>19, <1>20, <1>21, <1>22, <1>23, <1>24, <1>25, <1>26,
   <1>27, <1>28, <1>29 DEF Next, Environment, Service, Rollback, Handler, Ticking

(* No step of a disabled service adds a grant to the view: what is closed  *)
(* then has been rolled back, or was written by who adds nothing.          *)
LEMMA DisabledStep ==
  ASSUME IInv, Paths, Next, disabled
  PROVE  Grants(View["rules"])' \subseteq Grants(View["rules"])
<1> USE DEF IInv, Paths
<1>1. "rules" \in Booked
  BY DEF Booked, Item
<1>2. CASE ViewHolds
  BY <1>1, <1>2 DEF ViewHolds, View, Grants
<1>3. CASE ViewOpens
  BY <1>3, ActorsAssumption DEF ViewOpens, View, Grants, ControlOK
<1>4. CASE ViewCloses
  <2>1. CASE ~Committing
    BY <1>4, <2>1 DEF ViewCloses, View, Grants, Undone, Item
  <2>2. CASE Committing
    <3>1. Barren(owner)
      BY <1>4, <2>2, ActorsAssumption DEF ViewCloses, Committing, Undone, Barred, Barren, ControlOK
    <3>2. Grants(store["rules"]) \subseteq Grants(saved["rules"])
      BY <1>1, <1>4, <3>1 DEF ViewCloses, Shrinks
    <3> QED BY <1>4, <3>2 DEF ViewCloses, View, Grants
  <2> QED BY <2>1, <2>2
<1> QED BY <1>2, <1>3, <1>4, StepViews DEF ViewMoves

(* A disabled service grants nothing: no step adds to the recovered rules  *)
(* while disable.flag is there (command gates of sysmodule_core.c, for     *)
(* every set of requests and every bound).                                 *)
THEOREM DisabledIsFinal == Spec => DisabledGrantsNothing
<1>1. IInv /\ Paths /\ [Next]_vars => [disabled => Grants(View["rules"])' \subseteq Grants(View["rules"])]_vars
  BY DisabledStep
<1> QED BY <1>1, SpecPaths, PTL DEF Spec, DisabledGrantsNothing

(* The requests are moved back only at start-up, or after disabling in it. *)
LEMMA RequeueReached ==
  ASSUME IInv, Next, pc' = "requeue"
  PROVE  \/ Boot
         \/ Flag /\ cont = "boot"
         \/ UNCHANGED <<pc, owner, disabled, faults>>
<1> DEFINE Reached == Boot \/ (Flag /\ cont = "boot") \/ UNCHANGED <<pc, owner, disabled, faults>>
<1>1. ASSUME NEW r \in Requests, Submit(r) \/ Take(r) PROVE Reached
  BY <1>1 DEF Submit, Take, Goto, files, worker, history
<1>2. CASE Flip
  BY <1>2 DEF Flip, files, worker, history
<1>3. CASE ParentResume
  BY <1>3 DEF ParentResume, files, worker, history
<1>4. CASE Crash
  BY <1>4 DEF Crash, files, worker, history, Goto
<1>5. CASE Boot
  BY <1>5
<1>6. CASE Requeue
  BY <1>6 DEF Requeue, files, worker, history, Goto
<1>7. CASE UndoRestore
  BY <1>7 DEF UndoRestore, UndoMove, Goto
<1>8. CASE UndoDamaged
  BY <1>8 DEF UndoDamaged, UndoMove, Goto
<1>9. CASE UndoFault
  BY <1>9 DEF UndoFault, UndoMove, Goto
<1>10. CASE UndoNothing
  BY <1>10, AfterPlace DEF UndoNothing, Goto, IInv, ControlOK
<1>11. CASE ClearDone
  BY <1>11, AfterPlace DEF ClearDone, Goto, IInv, ControlOK
<1>12. CASE ClearFault
  BY <1>12, AfterPlace DEF ClearFault, Goto, IInv, ControlOK
<1>13. CASE Flag
  BY <1>13, AfterPlace DEF Flag, Goto, IInv, ControlOK
<1>14. CASE Gate
  BY <1>14 DEF Gate, files, worker, history, Goto, Undo
<1>15. CASE Sample
  BY <1>15 DEF Sample, files, worker, history, Goto
<1>16. CASE Admit
  BY <1>16 DEF Admit, files, worker, history, Goto
<1>17. CASE Begin
  BY <1>17 DEF Begin, files, worker, history, Goto, Undo, BeginRefused, StartBody
<1>18. CASE Compact
  BY <1>18 DEF Compact, files, worker, history, Goto, Undo, BeginRefused
<1>19. CASE Open
  BY <1>19 DEF Open, files, worker, history, Goto, Undo, BeginRefused, StartBody
<1>20. CASE BodyWrite
  BY <1>20 DEF BodyWrite, files, worker, history, Advance, Finish, Abort, Clear, Undo, Goto
<1>21. CASE BodyObserve
  BY <1>21 DEF BodyObserve, files, worker, history, Advance, Finish, Abort, Clear, Undo, Goto
<1>22. CASE BodyResult
  BY <1>22 DEF BodyResult, files, worker, history, Advance, Finish, Abort, Clear, Undo, Goto
<1>23. CASE Fail
  BY <1>23 DEF Fail, files, worker, history, Goto, Undo
<1>24. CASE Report
  BY <1>24 DEF Report, files, worker, history, Goto
<1>25. CASE Retire
  BY <1>25 DEF Retire, files, worker, history, Goto
<1>26. CASE Tick
  BY <1>26 DEF Tick, files, worker, history, Goto
<1>27. CASE TickConfirm
  BY <1>27 DEF TickConfirm, files, worker, history, Goto, TickPending, Clear
<1>28. CASE TickTimeout
  BY <1>28 DEF TickTimeout, files, worker, history, TickPending, Undo, Goto
<1> QED BY <1>1, <1>2, <1>3, <1>4, <1>5, <1>6, <1>7, <1>8, <1>9, <1>10, <1>11, <1>12, <1>13,
   <1>14, <1>15, <1>16, <1>17, <1>18, <1>19, <1>20, <1>21, <1>22, <1>23, <1>24, <1>25, <1>26,
   <1>27, <1>28 DEF Next, Environment, Service, Rollback, Handler, Ticking

(* Start-up goes on to the inbox with no journal left, unless the service  *)
(* is disabled or a call failed (bootstrap in sysmodule_setup.c), for      *)
(* every set of requests and every bound.                                  *)
THEOREM BootResolves == Spec => []BootResolvesJournal
<1>1. Init => BootResolvesJournal
  BY DEF Init, BootResolvesJournal
<1>2. IInv /\ BootResolvesJournal /\ [Next]_vars => BootResolvesJournal'
  <2> SUFFICES ASSUME IInv, BootResolvesJournal, [Next]_vars, pc' = "requeue", faults' = 0
               PROVE  owner' = Nobody \/ disabled'
    BY DEF BootResolvesJournal
  <2>1. CASE UNCHANGED <<pc, owner, disabled, faults>>
    BY <2>1 DEF BootResolvesJournal
  <2>2. CASE Boot
    BY <2>2 DEF Boot, Undo, Goto
  <2>3. CASE Flag
    <3>1. faults \in Nat
      BY BoundsAssumption DEF IInv, HistoryOK
    <3>2. ~Fault
      BY <3>1 DEF Fault
    <3> QED BY <2>3, <3>2 DEF Flag
  <2>4. CASE UNCHANGED vars
    BY <2>1, <2>4 DEF vars, files, worker, history
  <2> QED BY <2>1, <2>2, <2>3, <2>4, RequeueReached
<1> QED BY <1>1, <1>2, SpecIInv, PTL DEF Spec

-----------------------------------------------------------------------------
(***************************************************************************)
(* The books through a transaction.                                        *)
(***************************************************************************)

(* The books of the live files are those of the journal.                   *)
Same == \A i \in Booked : Grants(store[i]) = Grants(saved[i])

(* A content in which no book is without the others: the rules and the     *)
(* state have the same grants, the ledger and the redeemed codes those     *)
(* that are codes.                                                         *)
Sound(content) ==
  /\ Grants(content["rules"]) = Grants(content["state"])
  /\ Grants(content["ledger"]) = Grants(content["redeemed"])
  /\ Grants(content["ledger"]) = {e \in Grants(content["rules"]) : Kind[e[1]] = "code"}

(* The journal a body runs under has the books without the grant.          *)
UnderWay ==
  Intact /\ pc = "body" =>
    \A i \in Booked :
      /\ Grants(next[i]) = Grants(saved[i]) \cup Entry(actor, i)
      /\ Grants(store[i]) = Grants(saved[i]) \cup
           (IF \E k \in 1 .. at - 1 : Body(actor)[k] = i THEN Entry(actor, i) ELSE {})

(* A body about to commit has entered its grant in every book it has to.   *)
Complete ==
  Intact /\ pc = "clear" /\ Committing =>
    \A i \in Booked : Grants(store[i]) = Grants(saved[i]) \cup Entry(actor, i)

(* A target that waits for its confirmation has its books.                 *)
Waiting ==
  Intact /\ pc \notin {"boot", "undo"} /\ owner = Enforcer /\ Pending \in store["state"] => Same

(* A journal that start-up could not clear has been rolled back.           *)
Resolved ==
  Intact /\ owner # Nobody /\ (pc = "requeue" \/ (pc = "flag" /\ cont = "boot")) => Same

(* So a request that is executed again finds nothing of its own added.     *)
Again ==
  Intact /\ pc \notin {"boot", "undo", "requeue"} /\ owner \in Requests
  /\ (inbox[owner] = "pending" \/ (actor = owner /\ pc \in {"gate", "sample", "admit", "begin"}))
    => \A i \in Booked : Grants(store[i]) \subseteq Grants(saved[i])

(* What is decided is not spent.                                           *)
Fresh ==
  /\ pc \in {"begin", "compact", "open"} /\ actor \in Requests =>
       /\ Kind[actor] = "code" => ~Redeemed(actor)
       /\ Kind[actor] = "buffer" => ~BufferClaimed
  /\ Intact /\ (pc = "body" \/ (pc = "clear" /\ cont = "commit")) /\ actor \in Requests =>
       /\ Kind[actor] = "code" => \A e \in Grants(saved["ledger"]) : Code[e[1]] # Code[actor]
       /\ Kind[actor] = "buffer" => \A e \in Grants(saved["state"]) : Kind[e[1]] # "buffer"

(* The books through a transaction, while nothing was spoiled outside a    *)
(* journal.                                                                *)
Books == UnderWay /\ Complete /\ Waiting /\ Resolved /\ Again /\ Fresh

-----------------------------------------------------------------------------
(***************************************************************************)
(* Every step keeps the books.                                             *)
(***************************************************************************)

(* A new request has no journal.                                           *)
LEMMA SubmitKeepsBooks == ASSUME IInv, Paths, Books, NEW r \in Requests, Submit(r) PROVE Books'
<1> USE DEF Paths, Books
<1>1. UNCHANGED <<store, saved, next, owner, have, tries, pc, actor, at, cont, harmed>>
  BY DEF Submit, files, worker, history
<1>2. UnderWay'
  <2>1. \A a, i : Entry(a, i)' = Entry(a, i)
    BY <1>1 DEF Entry
  <2> QED BY <1>1, <2>1 DEF UnderWay, Intact
<1>3. Complete' /\ Waiting' /\ Resolved'
  BY <1>1 DEF Complete, Committing, Entry, Waiting, Resolved, Same, Intact
<1>4. Again'
  <2>1. owner \in Requests => inbox'[owner] = inbox[owner]
    BY DEF Submit, FilesOK, Taken
  <2> QED BY <1>1, <2>1 DEF Again, Intact
<1>5. Fresh'
  BY <1>1 DEF Fresh, Redeemed, BufferClaimed, Loaded, state, Intact
<1> QED BY <1>2, <1>3, <1>4, <1>5

(* Docking and undocking write no book.                                    *)
LEMMA FlipKeepsBooks == ASSUME IInv, Paths, Books, Flip PROVE Books'
<1> USE DEF Books, Flip, files, worker
<1>1. Intact' => Intact
  BY DEF Intact
<1>2. UnderWay' /\ Complete' /\ Resolved' /\ Fresh'
  BY DEF UnderWay, Complete, Resolved, Fresh
<1>3. Waiting' /\ Again'
  BY <1>1 DEF Waiting, Same, Again
<1> QED BY <1>2, <1>3

(* A setup completed again writes no book.                                 *)
LEMMA ParentResumeKeepsBooks == ASSUME IInv, Paths, Books, ParentResume PROVE Books'
<1> USE DEF Books, ParentResume, worker, history
<1>1. Intact' => Intact
  BY DEF Intact
<1>2. UnderWay' /\ Complete' /\ Resolved' /\ Fresh'
  BY DEF UnderWay, Complete, Resolved, Fresh
<1>3. Waiting' /\ Again'
  BY ActorsAssumption DEF Waiting, Again
<1> QED BY <1>2, <1>3

(* After a restart nothing is claimed of the files until the rollback has  *)
(* run.                                                                    *)
LEMMA BootKeepsBooks == ASSUME IInv, Paths, Books, Boot PROVE Books'
<1> USE DEF Books, Boot, Goto, history, Undo
<1>1. Intact' => Intact
  BY DEF Intact
<1>2. UnderWay' /\ Complete' /\ Resolved' /\ Again' /\ Fresh'
  BY DEF UnderWay, Complete, Resolved, Again, Fresh
<1>3. Waiting'
  BY ActorsAssumption DEF Waiting
<1> QED BY <1>2, <1>3

(* A request can be moved back with its journal still there only when that *)
(* has been rolled back.                                                   *)
LEMMA RequeueKeepsBooks == ASSUME IInv, Paths, Books, Requeue PROVE Books'
<1> USE DEF Books
<1>1. /\ pc = "requeue" /\ pc' = "idle"
      /\ UNCHANGED <<store, saved, owner, harmed>>
  BY DEF Requeue, Goto, files, history
<1>2. Intact /\ owner # Nobody => Same
  BY <1>1 DEF Resolved
<1>3. UnderWay' /\ Complete' /\ Fresh' /\ Resolved'
  BY <1>1 DEF UnderWay, Complete, Fresh, Resolved
<1>4. Waiting' /\ Again'
  BY <1>1, <1>2, ActorsAssumption DEF Waiting, Again, Same, Intact
<1> QED BY <1>3, <1>4

(* A rollback that goes to clear has made the files those of the journal;  *)
(* one that could not has left the mark.                                   *)
LEMMA UndoSettles ==
  ASSUME IInv, Paths, pc = "undo", pc' \in {"undo", "clear", "flag"}, pc' = "flag" => "undo" \in harmed',
         Undone', cont' = cont
  PROVE  Books'
<1> USE DEF Paths
<1>1. pc' = "flag" => ~Intact'
  BY DEF Intact
<1>2. ~Committing'
  BY DEF Undone, Committing
<1>3. pc' = "clear" => Same'
  BY <1>2 DEF Undone, Same, Booked
<1>4. UnderWay' /\ Complete' /\ Fresh'
  BY <1>2 DEF UnderWay, Complete, Fresh, Committing
<1>5. Waiting' /\ Resolved'
  BY <1>1, <1>3 DEF Waiting, Resolved
<1>6. Again'
  BY <1>1, <1>3 DEF Again, Same
<1> QED BY <1>4, <1>5, <1>6 DEF Books

(* An item restored brings the files nearer to the journal.                *)
LEMMA UndoRestoreKeepsBooks == ASSUME IInv, Paths, Books, UndoRestore PROVE Books'
<1>1. undoOk \in BOOLEAN /\ UndoMove(undoOk, FALSE) /\ pc = "undo"
  BY DEF UndoRestore, IInv, SwitchesOK
<1>2. pc' \in {"undo", "clear", "flag"} /\ (pc' = "flag" => "undo" \in harmed') /\ cont' = cont
  BY <1>1, UndoMoveControl
<1>3. Undone'
  BY UndoRestoreKeepsPaths DEF Paths
<1> QED BY <1>1, <1>2, <1>3, UndoSettles

(* An item that cannot be restored leaves the mark.                        *)
LEMMA UndoDamagedKeepsBooks == ASSUME IInv, Paths, Books, UndoDamaged PROVE Books'
<1> DEFINE last == UndoOrder[at] = "pctl"
<1>1. pc = "undo" /\ UndoMove(FALSE, last)
  BY DEF UndoDamaged
<1> HIDE DEF last
<1>2. FALSE \in BOOLEAN /\ last \in BOOLEAN
  BY DEF last
<1>3. pc' \in {"undo", "clear", "flag"} /\ (pc' = "flag" => "undo" \in harmed') /\ cont' = cont
  BY <1>1, <1>2, UndoMoveControl
<1>4. Undone'
  BY UndoDamagedKeepsPaths DEF Paths
<1> QED BY <1>1, <1>3, <1>4, UndoSettles

(* An item whose restoring fails leaves the mark.                          *)
LEMMA UndoFaultKeepsBooks == ASSUME IInv, Paths, Books, UndoFault PROVE Books'
<1>1. pc = "undo" /\ UndoMove(FALSE, FALSE)
  BY DEF UndoFault
<1>2. pc' \in {"undo", "clear", "flag"} /\ (pc' = "flag" => "undo" \in harmed') /\ cont' = cont
  BY <1>1, UndoMoveControl
<1>3. Undone'
  BY UndoFaultKeepsPaths DEF Paths
<1> QED BY <1>1, <1>2, <1>3, UndoSettles

(* Without a journal there is nothing to be the same as.                   *)
LEMMA UndoNothingKeepsBooks == ASSUME IInv, Paths, Books, UndoNothing PROVE Books'
<1> USE DEF IInv, Paths, Books, UndoNothing, Goto, files, history
<1>1. Intact' => Intact
  BY DEF Intact
<1>2. UnderWay' /\ Fresh'
  BY AfterPlace DEF UnderWay, ControlOK, Fresh
<1>3. Complete' /\ Resolved'
  BY DEF Complete, Committing, Undone, Resolved
<1>4. Waiting' /\ Again'
  BY ActorsAssumption DEF Waiting, Again
<1> QED BY <1>2, <1>3, <1>4

(* After the clearing nothing is open.                                     *)
LEMMA ClearDoneKeepsBooks == ASSUME IInv, Paths, Books, ClearDone PROVE Books'
<1> USE DEF IInv, Books, ClearDone, Goto, history
<1>1. Intact' => Intact
  BY DEF Intact
<1>2. UnderWay' /\ Fresh'
  BY AfterPlace DEF UnderWay, ControlOK, Fresh
<1>3. Complete'
  BY <1>1 DEF Complete, Committing, Entry
<1>4. Waiting' /\ Again'
  BY ActorsAssumption DEF Waiting, Again
<1>5. Resolved'
  BY DEF Resolved
<1> QED BY <1>2, <1>3, <1>4, <1>5

(* A journal that cannot be cleared after a rollback is the same as the    *)
(* files; after a body, its request goes on to be archived.                *)
LEMMA ClearFaultKeepsBooks == ASSUME IInv, Paths, Books, ClearFault PROVE Books'
<1> USE DEF IInv, Paths, Books
<1>1. /\ pc = "clear"
      /\ pc' = IF cont = "boot" THEN "flag" ELSE After(cont)
      /\ UNCHANGED <<inbox, tries, store, owner, saved, actor, cont>>
      /\ Intact' => Intact
  BY DEF ClearFault, Goto, Harm, Intact
<1>2. /\ pc' \in {"idle", "retire", "sample", "fail", "report", "flag"}
      /\ pc' = "flag" <=> cont = "boot"
  BY <1>1, ClearReturn
<1>3. UnderWay' /\ Complete' /\ Fresh'
  BY <1>2 DEF UnderWay, Complete, Fresh
<1>4. Waiting'
  BY <1>1 DEF Waiting, Same
<1>5. ~Committing => Same
  BY <1>1 DEF Undone, Same, Booked
<1>6. Resolved'
  BY <1>1, <1>2, <1>5 DEF Resolved, Committing, Same
<1>7. Again'
  <2>1. pc' = "sample" /\ owner \in Requests => ~Committing
    <3>1. pc' = "sample" => cont \in {"sample", "confirm"}
      BY <1>1, <1>2, AfterPlace DEF ControlOK
    <3> QED BY <1>1, <3>1, ActorsAssumption DEF Undone, Committing
  <2> QED BY <1>1, <1>2, <1>5, <2>1 DEF Again, Same
<1> QED BY <1>3, <1>4, <1>6, <1>7

(* Disabling the service writes no book.                                   *)
LEMMA FlagKeepsBooks == ASSUME IInv, Paths, Books, Flag PROVE Books'
<1> USE DEF IInv, Paths, Books, Flag, Goto
<1>1. Intact' => Intact
  BY DEF Intact
<1>2. UnderWay' /\ Complete' /\ Fresh'
  BY AfterPlace DEF UnderWay, ControlOK, Complete, Fresh
<1>3. Waiting'
  BY <1>1 DEF Waiting, Same
<1>4. Resolved' /\ Again'
  BY <1>1, AfterPlace DEF Resolved, Same, ControlOK, Again, Taken
<1> QED BY <1>2, <1>3, <1>4

(* A request is taken with the files as they are.                          *)
LEMMA TakeKeepsBooks == ASSUME IInv, Paths, Books, NEW r \in Requests, Take(r) PROVE Books'
<1> USE DEF Books, Take, Goto, files, history
<1>1. Intact' => Intact
  BY DEF Intact
<1>2. UnderWay' /\ Complete' /\ Resolved' /\ Fresh'
  BY DEF UnderWay, Complete, Resolved, Fresh
<1>3. Waiting' /\ Again'
  BY <1>1 DEF Waiting, Same, Again
<1> QED BY <1>2, <1>3

(* The gate writes no book.                                                *)
LEMMA GateKeepsBooks == ASSUME IInv, Paths, Books, Gate PROVE Books'
<1> USE DEF Books, Gate, Goto, files, history, Undo
<1>1. Intact' => Intact
  BY DEF Intact
<1>2. UnderWay' /\ Complete' /\ Resolved' /\ Fresh'
  BY DEF UnderWay, Complete, Resolved, Fresh
<1>3. Waiting' /\ Again'
  BY <1>1 DEF Waiting, Same, Again
<1> QED BY <1>2, <1>3

(* A sample writes what was read, with the grants that are there.          *)
LEMMA SampleKeepsBooks == ASSUME IInv, Paths, Books, Sample PROVE Books'
<1> USE DEF IInv, Books
<1>1. /\ pc = "sample" /\ pc' \in {"admit", "flag", "fail"}
      /\ pc' = "flag" => cont' = "tick"
      /\ UNCHANGED <<inbox, tries, owner, saved, actor>>
      /\ Intact' => Intact
  BY DEF Sample, Goto, Harm, Intact
<1>2. PICK content : /\ content \in {state, store["state"], {}}
                     /\ store' = [store EXCEPT !["state"] = content]
  BY TornGrants DEF Sample
<1>3. \A i \in Booked : store'[i] = IF i = "state" THEN content ELSE store[i]
  BY <1>2 DEF FilesOK, Contents, Booked
<1>4. Grants({}) = {} /\ Grants(state) = Grants(store["state"])
  BY GrantsLoaded DEF Grants, state
<1>5. UnderWay' /\ Complete' /\ Resolved' /\ Fresh'
  BY <1>1 DEF UnderWay, Complete, Resolved, Fresh
<1>6. Waiting'
  <2>1. "state" \in Booked
    BY DEF Booked, Item
  <2>2. Pending \in store'["state"] => Pending \in store["state"] /\ content \in {state, store["state"]}
    BY <1>2, <1>3, <2>1 DEF state, Loaded, Pending, Base
  <2> QED BY <1>1, <1>3, <1>4, <2>2 DEF Waiting, Same
<1>7. Again'
  <2>1. \A i \in Booked : Grants(store'[i]) \subseteq Grants(store[i])
    BY <1>2, <1>3, <1>4
  <2> QED BY <1>1, <2>1 DEF Again
<1> QED BY <1>5, <1>6, <1>7

(* Who is admitted has found its code unredeemed and the early release     *)
(* unclaimed.                                                              *)
LEMMA AdmitKeepsBooks == ASSUME IInv, Paths, Books, Admit PROVE Books'
<1> USE DEF Books
<1>1. /\ pc = "admit" /\ pc' \in {"begin", "idle", "fail"}
      /\ UNCHANGED <<inbox, tries, store, owner, saved, actor, cont, harmed>>
  BY DEF Admit, Goto, files, history
<1>2. UnderWay' /\ Complete' /\ Resolved'
  BY <1>1 DEF UnderWay, Complete, Resolved
<1>3. Waiting' /\ Again'
  BY <1>1 DEF Waiting, Again, Same, Intact
<1>4. Fresh'
  <2>1. pc' = "begin" /\ actor \in Requests => ~Refused(actor)
    BY <1>1, ActorsAssumption DEF Admit, Goto
  <2>2. \A r \in Requests : (Redeemed(r) <=> Redeemed(r)') /\ (BufferClaimed <=> BufferClaimed')
    BY <1>1 DEF Redeemed, BufferClaimed, state, Loaded
  <2> QED BY <1>1, <2>1, <2>2 DEF Fresh, Refused
<1> QED BY <1>2, <1>3, <1>4

(* A journal joined again, where the files have lost nothing, is the same  *)
(* as the files.                                                           *)
LEMMA JoinSame ==
  ASSUME IInv, Paths, Books, Intact, pc = "begin", owner = actor, ~Drifted PROVE Same
<1> USE DEF IInv, Paths, Books
<1>1. \A i \in Booked : Grants(store[i]) \subseteq Grants(saved[i])
  BY ActorsAssumption DEF Shrinks, Again, Barren, ControlOK
<1>2. \A i \in Booked : saved[i] \subseteq store[i] \cup {Enforced, Pending}
  BY DEF Drifted, Booked
<1>3. \A i \in Booked : Grants(saved[i]) \subseteq Grants(store[i])
  BY <1>2, Marks DEF Grants
<1> QED BY <1>1, <1>3 DEF Same

(* A body starts with the books of its journal and nothing of its own      *)
(* entered.                                                                *)
LEMMA BodyStarts ==
  ASSUME IInv, Paths, Books, pc \in {"begin", "open"}, StartBody, UNCHANGED <<store, next, actor, tries>>,
         Intact' => \A i \in Booked : Grants(saved'[i]) = Grants(store[i])
  PROVE  UnderWay' /\ Fresh'
<1> USE DEF Paths, Books
<1>1. /\ pc' = "body"
      /\ at' = 1 \/ (at' = 2 /\ actor = Enforcer)
  BY DEF StartBody, Goto
<1>2. \A k \in 1 .. at' - 1 : Body(actor)[k] \notin Booked
  BY <1>1 DEF Body, Booked
<1>3. \A i : Entry(actor, i)' = Entry(actor, i)
  BY DEF Entry
<1>4. UnderWay'
  <2> SUFFICES ASSUME Intact', NEW i \in Booked
               PROVE  /\ Grants(next[i]) = Grants(saved'[i]) \cup Entry(actor, i)
                      /\ Grants(store[i]) = Grants(saved'[i])
    BY <1>2, <1>3 DEF UnderWay
  <2> QED BY DEF Decided
<1>5. Fresh'
  <2>1. {"ledger", "state"} \subseteq Booked
    BY DEF Booked, Item
  <2>2. Grants(state) = Grants(store["state"])
    BY GrantsLoaded DEF state
  <2>3. ASSUME Intact', actor \in Requests
        PROVE  /\ Kind[actor] = "code" => \A e \in Grants(saved'["ledger"]) : Code[e[1]] # Code[actor]
               /\ Kind[actor] = "buffer" => \A e \in Grants(saved'["state"]) : Kind[e[1]] # "buffer"
    BY <2>1, <2>2, <2>3 DEF Fresh, Redeemed, BufferClaimed
  <2> QED BY <1>1, <2>3 DEF Fresh
<1> QED BY <1>4, <1>5

(* Joining one's own journal starts a body, or leaves the mark.            *)
LEMMA BeginKeepsBooks == ASSUME IInv, Paths, Books, Begin PROVE Books'
<1> USE DEF Books
<1>1. /\ pc = "begin" /\ pc' \in {"compact", "body", "fail", "undo", "idle"}
      /\ pc' = "body" => owner = actor /\ StartBody
      /\ UNCHANGED <<inbox, tries, store, owner, saved, actor, next>>
      /\ Intact' => Intact
      /\ Intact' /\ pc' = "body" => ~Drifted
  BY DEF Begin, BeginRefused, StartBody, Undo, Goto, files, Harm, Intact
<1>2. Complete' /\ Resolved'
  BY <1>1 DEF Complete, Resolved
<1>3. Waiting' /\ Again'
  BY <1>1 DEF Waiting, Again, Same
<1>4. UnderWay' /\ Fresh'
  <2>1. CASE pc' = "body"
    <3>1. Intact' => Same
      BY <1>1, <2>1, JoinSame
    <3> QED BY <1>1, <2>1, <3>1, BodyStarts DEF Same
  <2>2. CASE pc' # "body"
    <3>1. \A r \in Requests : (Redeemed(r) <=> Redeemed(r)') /\ (BufferClaimed <=> BufferClaimed')
      BY <1>1 DEF Redeemed, BufferClaimed, state, Loaded
    <3> QED BY <1>1, <2>2, <3>1 DEF UnderWay, Fresh
  <2> QED BY <2>1, <2>2
<1> QED BY <1>2, <1>3, <1>4

(* Compacting the ledger makes no code redeemed.                           *)
LEMMA CompactKeepsBooks == ASSUME IInv, Paths, Books, Compact PROVE Books'
<1> USE DEF IInv, Paths, Books
<1>1. /\ pc = "compact" /\ pc' \in {"open", "fail", "undo", "idle"} /\ owner = Nobody
      /\ UNCHANGED <<owner, actor>>
  BY DEF Compact, BeginRefused, Undo, Goto, Taken
<1>2. UnderWay' /\ Complete' /\ Resolved'
  BY <1>1 DEF UnderWay, Complete, Resolved
<1>3. Waiting' /\ Again'
  BY <1>1, ActorsAssumption DEF Waiting, Again
<1>4. Fresh'
  <2>1. CASE pc' # "open"
    BY <1>1, <2>1 DEF Fresh
  <2>2. CASE pc' = "open"
    <3>1. store' = [store EXCEPT !["ledger"] = @ \ {Old}]
      BY <2>2 DEF Compact, BeginRefused, Undo, Goto
    <3>2. store'["ledger"] = store["ledger"] \ {Old} /\ store'["state"] = store["state"]
      BY <3>1 DEF FilesOK, Contents, Item
    <3>3. Grants(store'["ledger"]) \subseteq Grants(store["ledger"])
      BY <3>2 DEF Grants
    <3>4. Redeemed(actor)' => Redeemed(actor)
      BY <1>1, <3>3 DEF Redeemed
    <3>5. BufferClaimed' => BufferClaimed
      BY <3>2 DEF BufferClaimed, state, Loaded
    <3> QED BY <1>1, <2>2, <3>4, <3>5 DEF Fresh
  <2> QED BY <2>1, <2>2
<1> QED BY <1>2, <1>3, <1>4

(* Opening a journal starts a body over the files as they are.             *)
LEMMA OpenKeepsBooks == ASSUME IInv, Paths, Books, Open PROVE Books'
<1> USE DEF Paths, Books
<1>1. /\ pc = "open" /\ pc' \in {"body", "fail", "undo", "idle"} /\ owner = Nobody
      /\ pc' = "body" => owner' = actor /\ saved' = store /\ StartBody
      /\ pc' # "body" => owner' = owner
      /\ UNCHANGED <<inbox, tries, store, actor, next, harmed>>
  BY DEF Open, BeginRefused, StartBody, Undo, Goto, Taken
<1>2. Complete' /\ Resolved'
  BY <1>1 DEF Complete, Resolved
<1>3. Waiting' /\ Again'
  BY <1>1, ActorsAssumption DEF Waiting, Again, Same, Taken
<1>4. UnderWay' /\ Fresh'
  <2>1. CASE pc' = "body"
    BY <1>1, <2>1, BodyStarts
  <2>2. CASE pc' # "body"
    BY <1>1, <2>2 DEF UnderWay, Fresh
  <2> QED BY <2>1, <2>2
<1> QED BY <1>2, <1>3, <1>4

(* A body writes every book its actor has an entry in.                     *)
LEMMA BodyCovers ==
  ASSUME NEW a \in Actor, NEW i \in Booked, Entry(a, i) # {}
  PROVE  \E k \in 1 .. Len(Body(a)) : Body(a)[k] = i
<1>1. /\ a \in Requests /\ a # Enforcer /\ Kind[a] \in {"add", "code", "buffer"}
      /\ i \in {"rules", "state"} \/ (Kind[a] = "code" /\ i \in {"ledger", "redeemed"})
  BY KindAssumption, ActorsAssumption DEF Entry, Booked, Item
<1>2. CASE Kind[a] = "add"
  <2>1. Len(Body(a)) = 5 /\ Body(a)[1] = "rules" /\ Body(a)[4] = "state"
    BY <1>1, <1>2 DEF Body
  <2> QED BY <1>1, <1>2, <2>1
<1>3. CASE Kind[a] = "buffer"
  <2>1. Len(Body(a)) = 5 /\ Body(a)[3] = "rules" /\ Body(a)[4] = "state"
    BY <1>1, <1>3 DEF Body
  <2> QED BY <1>1, <1>3, <2>1
<1>4. CASE Kind[a] = "code"
  <2>1. /\ Len(Body(a)) = 7 /\ Body(a)[3] = "rules" /\ Body(a)[5] = "redeemed"
        /\ Body(a)[6] = "state" /\ Body(a)[7] = "ledger"
    BY <1>1, <1>4 DEF Body
  <2> QED BY <1>1, <1>4, <2>1
<1> QED BY <1>1, <1>2, <1>3, <1>4

(* A body given up is for the rollback to settle.                          *)
LEMMA BodyAborts ==
  ASSUME pc' = "undo" PROVE Books'
BY DEF Books, UnderWay, Complete, Waiting, Resolved, Again, Fresh

(* A body that goes on has entered its grant in the books it has passed,   *)
(* and at its end in all.                                                  *)
LEMMA BodyMoves ==
  ASSUME IInv, Paths, Books, pc = "body", Advance,
         UNCHANGED <<inbox, owner, saved, actor, tries, harmed>>,
         Intact => \A i \in Booked :
           /\ Grants(next'[i]) = Grants(next[i])
           /\ Grants(store'[i]) = Grants(saved[i]) \cup
                (IF \E k \in 1 .. at : Body(actor)[k] = i THEN Entry(actor, i) ELSE {})
  PROVE  Books'
<1> USE DEF IInv, Paths, Books
<1>1. /\ owner = actor /\ at \in 1 .. Len(Body(actor)) /\ actor \in Actor
      /\ actor \in Requests => inbox[actor] = "processing"
      /\ Intact' <=> Intact
  BY DEF OwnJournalOnly, Positions, ControlOK, Taken, Intact
<1>2. \A i : Entry(actor, i)' = Entry(actor, i)
  BY DEF Entry
<1>3. \/ pc' = "body" /\ at' = at + 1
      \/ pc' = "idle" /\ actor = Enforcer
      \/ pc' = "clear" /\ cont' = "commit" /\ at = Len(Body(actor))
  BY DEF Advance, Finish, Clear, Goto
<1>4. UnderWay'
  <2> SUFFICES ASSUME pc' = "body", Intact PROVE UnderWay'
    BY <1>1 DEF UnderWay
  <2>1. at' - 1 = at
    BY <1>1, <1>3
  <2> QED BY <1>2, <2>1 DEF UnderWay
<1>5. Complete'
  <2> SUFFICES ASSUME pc' = "clear", Intact, NEW i \in Booked
               PROVE  Grants(store'[i]) = Grants(saved[i]) \cup Entry(actor, i)
    BY <1>1, <1>2 DEF Complete
  <2>1. Entry(actor, i) # {} => \E k \in 1 .. at : Body(actor)[k] = i
    BY <1>1, <1>3, BodyCovers
  <2> QED BY <2>1
<1>6. Waiting'
  <2> SUFFICES ASSUME owner = Enforcer, Intact PROVE \A i \in Booked : Grants(store'[i]) = Grants(saved[i])
    BY <1>1 DEF Waiting, Same
  <2>1. \A i : Entry(actor, i) = {}
    BY <1>1, ActorsAssumption DEF Entry
  <2> QED BY <2>1
<1>7. Resolved' /\ Again'
  BY <1>1, <1>3, ActorsAssumption DEF Resolved, Again
<1>8. Fresh'
  BY <1>1, <1>3, ActorsAssumption DEF Fresh
<1> QED BY <1>4, <1>5, <1>6, <1>7, <1>8

(* A write of a body enters the grant in the file written, or spoils it    *)
(* and is rolled back.                                                     *)
LEMMA BodyWriteKeepsBooks == ASSUME IInv, Paths, Books, BodyWrite PROVE Books'
<1> USE DEF IInv, Books
<1>1. CASE Abort("fail")
  BY <1>1, BodyAborts DEF Abort, Undo, Goto
<1>2. CASE ~Abort("fail")
  <2>1. /\ pc = "body" /\ Written(Step) \in Item /\ Advance
        /\ store' = [store EXCEPT ![Written(Step)] = Content(Step)]
        /\ UNCHANGED <<inbox, owner, saved, actor, tries, next, harmed>>
    BY <1>2 DEF BodyWrite
  <2>2. at \in 1 .. Len(Body(actor)) /\ actor \in Actor
    BY <2>1 DEF Positions, ControlOK
  <2>3. \A i \in Booked : store'[i] = IF i = Written(Step) THEN Content(Step) ELSE store[i]
    BY <2>1 DEF FilesOK, Contents, Booked
  <2>4. Step = "waived" => \A i : Entry(actor, i) = {}
    BY <2>2, KindAssumption DEF Step, Body, Entry
  <2>5. ASSUME Intact, NEW i \in Booked
        PROVE  Grants(store'[i]) = Grants(saved[i]) \cup
                 (IF \E k \in 1 .. at : Body(actor)[k] = i THEN Entry(actor, i) ELSE {})
    <3>1. /\ Grants(next[i]) = Grants(saved[i]) \cup Entry(actor, i)
          /\ Grants(store[i]) = Grants(saved[i]) \cup
               (IF \E k \in 1 .. at - 1 : Body(actor)[k] = i THEN Entry(actor, i) ELSE {})
      BY <2>1, <2>5 DEF UnderWay
    <3>2. CASE i = Written(Step)
      <4>1. CASE Step = Written(Step) /\ Content(Step) = next[Written(Step)]
        <5>1. Body(actor)[at] = i
          BY <3>2, <4>1 DEF Step
        <5>2. \E k \in 1 .. at : Body(actor)[k] = i
          BY <2>2, <5>1
        <5> QED BY <2>3, <3>1, <3>2, <4>1, <5>2
      <4>2. CASE Step = "waived" /\ Written(Step) = "state" /\ Grants(Content(Step)) = Grants(store["state"])
        BY <2>3, <2>4, <3>1, <3>2, <4>2
      <4> QED BY <3>2, <4>1, <4>2, ContentGrants
    <3>3. CASE i # Written(Step)
      <4>1. Body(actor)[at] # i
        BY <3>3 DEF Step, Written, Booked, Item
      <4>2. (\E k \in 1 .. at : Body(actor)[k] = i) <=> (\E k \in 1 .. at - 1 : Body(actor)[k] = i)
        <5>1. \A k \in 1 .. at : k = at \/ k \in 1 .. at - 1
          BY <2>2
        <5>2. \A k \in 1 .. at - 1 : k \in 1 .. at
          BY <2>2
        <5> QED BY <4>1, <5>1, <5>2
      <4> QED BY <2>3, <3>1, <3>3, <4>2
    <3> QED BY <3>2, <3>3
  <2> QED BY <2>1, <2>5, BodyMoves
<1> QED BY <1>1, <1>2

(* At a step of a body that writes no book, no more is entered than before *)
(* it.                                                                     *)
LEMMA NothingWritten ==
  ASSUME IInv, Books, pc = "body", Step \in {"observe", "result"}, Intact, NEW i \in Booked
  PROVE  Grants(store[i]) = Grants(saved[i]) \cup
           (IF \E k \in 1 .. at : Body(actor)[k] = i THEN Entry(actor, i) ELSE {})
<1>1. at \in 1 .. Len(Body(actor)) /\ Len(Body(actor)) \in 3 .. 7
  BY BodyShape DEF IInv, Positions, ControlOK
<1>2. Body(actor)[at] # i
  BY DEF Step, Booked, Item
<1>3. (\E k \in 1 .. at : Body(actor)[k] = i) <=> (\E k \in 1 .. at - 1 : Body(actor)[k] = i)
  <2>1. \A k \in 1 .. at : k = at \/ k \in 1 .. at - 1
    BY <1>1
  <2>2. \A k \in 1 .. at - 1 : k \in 1 .. at
    BY <1>1
  <2> QED BY <1>2, <2>1, <2>2
<1> QED BY <1>3 DEF Books, UnderWay

(* Observing PCTL writes no book.                                          *)
LEMMA BodyObserveKeepsBooks == ASSUME IInv, Paths, Books, BodyObserve PROVE Books'
<1> USE DEF IInv
<1>1. CASE Abort("fail")
  BY <1>1, BodyAborts DEF Abort, Undo, Goto
<1>2. CASE ~Abort("fail")
  <2>1. /\ pc = "body" /\ Step = "observe" /\ Advance
        /\ UNCHANGED <<inbox, owner, saved, store, actor, tries, harmed>>
    BY <1>2 DEF BodyObserve, files
  <2>2. PICK content : /\ content \in {next["state"] \ {Pending}, next["state"] \cup {Pending}}
                       /\ next' = [next EXCEPT !["state"] = content]
    BY <1>2 DEF BodyObserve
  <2>3. Grants(content) = Grants(next["state"])
    BY <2>2, Marks DEF Grants
  <2>4. \A i \in Booked : next'[i] = IF i = "state" THEN content ELSE next[i]
    BY <2>2 DEF FilesOK, Contents, Booked
  <2>5. \A i \in Booked : Grants(next'[i]) = Grants(next[i])
    BY <2>3, <2>4
  <2>6. ASSUME Intact, NEW i \in Booked
        PROVE  Grants(store[i]) = Grants(saved[i]) \cup
                 (IF \E k \in 1 .. at : Body(actor)[k] = i THEN Entry(actor, i) ELSE {})
    BY <2>1, <2>6, NothingWritten
  <2> QED BY <2>1, <2>5, <2>6, BodyMoves
<1> QED BY <1>1, <1>2

(* Writing the answer writes no book.                                      *)
LEMMA BodyResultKeepsBooks == ASSUME IInv, Paths, Books, BodyResult PROVE Books'
<1> USE DEF IInv
<1>1. CASE Abort("silent")
  BY <1>1, BodyAborts DEF Abort, Undo, Goto
<1>2. CASE ~Abort("silent")
  <2>1. /\ pc = "body" /\ Step = "result" /\ Advance
        /\ UNCHANGED <<inbox, owner, saved, store, next, actor, tries, harmed>>
    BY <1>2 DEF BodyResult, files
  <2>2. ASSUME Intact, NEW i \in Booked
        PROVE  Grants(store[i]) = Grants(saved[i]) \cup
                 (IF \E k \in 1 .. at : Body(actor)[k] = i THEN Entry(actor, i) ELSE {})
    BY <2>1, <2>2, NothingWritten
  <2> QED BY <2>1, <2>2, BodyMoves
<1> QED BY <1>1, <1>2

(* A failed request leaves its journal to the rollback.                    *)
LEMMA FailKeepsBooks == ASSUME IInv, Paths, Books, Fail PROVE Books'
<1> USE DEF Books, Fail, Goto, files, history, Undo
<1>1. Intact' => Intact
  BY DEF Intact
<1>2. UnderWay' /\ Complete' /\ Resolved' /\ Fresh'
  BY DEF UnderWay, Complete, Resolved, Fresh
<1>3. Waiting' /\ Again'
  BY <1>1 DEF Waiting, Same, Again
<1> QED BY <1>2, <1>3

(* Reporting an error writes no book.                                      *)
LEMMA ReportKeepsBooks == ASSUME IInv, Paths, Books, Report PROVE Books'
<1> USE DEF Books, Report, Goto, files
<1>1. Intact' => Intact
  BY DEF Intact
<1>2. UnderWay' /\ Complete' /\ Resolved' /\ Fresh'
  BY DEF UnderWay, Complete, Resolved, Fresh
<1>3. Waiting' /\ Again'
  BY <1>1 DEF Waiting, Same, Again
<1> QED BY <1>2, <1>3

(* An archived request is not executed again.                              *)
LEMMA RetireKeepsBooks == ASSUME IInv, Paths, Books, Retire PROVE Books'
<1> USE DEF IInv, Books, Retire, Goto, files
<1>1. Intact' => Intact
  BY DEF Intact
<1>2. UnderWay' /\ Complete' /\ Resolved' /\ Fresh'
  BY DEF UnderWay, Complete, Resolved, Fresh
<1>3. Waiting' /\ Again'
  BY <1>1 DEF Waiting, Same, Again, FilesOK
<1> QED BY <1>2, <1>3

(* A tick starts with no entry of its own.                                 *)
LEMMA TickKeepsBooks == ASSUME IInv, Paths, Books, Tick PROVE Books'
<1> USE DEF Books, Tick, Goto, files, history
<1>1. Intact' => Intact
  BY DEF Intact
<1>2. UnderWay' /\ Complete' /\ Waiting' /\ Resolved' /\ Fresh'
  BY DEF UnderWay, Complete, Waiting, Resolved, Fresh
<1>3. Again'
  BY ActorsAssumption DEF Again
<1> QED BY <1>2, <1>3

(* A confirmed target changes the mark of the pending confirmation only,   *)
(* and a save that fails leaves the state as it was or without that mark.  *)
LEMMA TickConfirmKeepsBooks == ASSUME IInv, Paths, Books, TickConfirm PROVE Books'
<1> USE DEF IInv, Books
<1>1. /\ pc = "idle" /\ owner = Enforcer /\ actor' = Enforcer /\ Pending \in store["state"]
      /\ pc' \in {"clear", "flag"} /\ (pc' = "flag" => cont' = "tick") /\ (pc' = "clear" => cont' = "confirm")
      /\ UNCHANGED <<inbox, tries, owner, saved, harmed>>
  BY DEF TickConfirm, TickPending, Clear, Goto
<1>2. "state" \in Item /\ "state" \in Booked /\ store \in [Item -> SUBSET Fact]
  BY DEF Item, Booked, FilesOK, Contents
<1>3. \/ pc' = "clear" /\ store' = [store EXCEPT !["state"] = store["state"] \ {Pending}]
      \/ pc' = "flag" /\ \E content \in {store["state"], {}} : store' = [store EXCEPT !["state"] = content]
  BY TornGrants DEF TickConfirm, Clear, Goto
<1>4. pc' = "clear" => \A i \in Booked : Grants(store'[i]) = Grants(store[i])
  <2>1. Grants(store["state"] \ {Pending}) = Grants(store["state"])
    BY Marks DEF Grants
  <2> QED BY <1>2, <1>3, <2>1 DEF Booked
<1>5. Intact => Same
  BY <1>1 DEF Waiting
<1>6. UnderWay' /\ Resolved' /\ Fresh'
  BY <1>1 DEF UnderWay, Resolved, Fresh
<1>7. Complete'
  <2>1. \A i : Entry(actor, i)' = {}
    BY <1>1, ActorsAssumption DEF Entry
  <2> QED BY <1>1, <1>4, <1>5, <2>1 DEF Complete, Same, Intact
<1>8. Waiting'
  <2>1. Pending \in store'["state"] => store' = store
    BY <1>2, <1>3
  <2> QED BY <1>1, <1>5, <2>1 DEF Waiting, Same, Intact
<1>9. Again'
  BY <1>1, ActorsAssumption DEF Again
<1> QED BY <1>6, <1>7, <1>8, <1>9

(* A target not confirmed is for the rollback to settle.                   *)
LEMMA TickTimeoutKeepsBooks == ASSUME IInv, Paths, Books, TickTimeout PROVE Books'
<1> USE DEF Books, TickTimeout, Goto, history, TickPending, Undo
<1>1. Intact' => Intact
  BY DEF Intact
<1>2. UnderWay' /\ Complete' /\ Waiting' /\ Resolved' /\ Again' /\ Fresh'
  BY DEF UnderWay, Complete, Waiting, Resolved, Again, Fresh
<1> QED BY <1>2

(* After a crash nothing is claimed of the files until the rollback has    *)
(* run.                                                                    *)
LEMMA CrashKeepsBooks == ASSUME IInv, Paths, Books, Crash PROVE Books'
<1> USE DEF Books, Crash, Goto
<1>1. Intact' => Intact
  BY DEF Intact
<1>2. UnderWay' /\ Complete' /\ Waiting' /\ Resolved' /\ Again' /\ Fresh'
  BY DEF UnderWay, Complete, Waiting, Resolved, Again, Fresh
<1> QED BY <1>2

(* What has been marked stays marked.                                      *)
LEMMA HarmGrows == ASSUME Next PROVE harmed \subseteq harmed'
<1>1. ASSUME NEW r \in Requests, Submit(r) \/ Take(r) PROVE harmed' = harmed
  BY <1>1 DEF Submit, Take, history
<1>2. CASE Flip \/ ParentResume \/ Crash \/ Boot \/ Requeue
  BY <1>2 DEF Flip, ParentResume, Crash, Boot, Requeue, Harm, history
<1>3. CASE UndoRestore \/ UndoDamaged \/ UndoFault \/ UndoNothing
  BY <1>3 DEF UndoRestore, UndoDamaged, UndoFault, UndoNothing, UndoMove, Harm, history
<1>4. CASE ClearDone \/ ClearFault \/ Flag \/ Gate \/ Sample \/ Admit
  BY <1>4 DEF ClearDone, ClearFault, Flag, Gate, Sample, Admit, Harm, history
<1>5. CASE Begin \/ Compact \/ Open
  BY <1>5 DEF Begin, Compact, Open, Harm, history
<1>6. CASE BodyWrite \/ BodyObserve \/ BodyResult
  BY <1>6 DEF BodyWrite, BodyObserve, BodyResult, Withdraw, Harm, history
<1>7. CASE Fail \/ Report \/ Retire \/ Tick \/ TickConfirm \/ TickTimeout
  BY <1>7 DEF Fail, Report, Retire, Tick, TickConfirm, TickTimeout, Harm, history
<1> QED BY <1>1, <1>2, <1>3, <1>4, <1>5, <1>6, <1>7 DEF Next, Environment, Service, Rollback,
   Handler, Ticking

(* So what is intact was so before.                                        *)
LEMMA HarmStays == ASSUME Next PROVE Intact' => Intact
BY HarmGrows DEF Intact

(* At first the books are empty.                                           *)
LEMMA InitBooks == Init => Books /\ WholeGrants
<1> SUFFICES ASSUME Init PROVE Books /\ WholeGrants
  OBVIOUS
<1> USE DEF Init
<1>1. UnderWay /\ Complete /\ Waiting /\ Resolved /\ Again /\ Fresh
  BY ActorsAssumption DEF UnderWay, Complete, Waiting, Resolved, Again, Fresh
<1>2. \A i \in Booked : Grants(store[i]) = {}
  BY Marks DEF Grants, Booked
<1>3. WholeGrants
  BY <1>2 DEF WholeGrants, View, Booked, Item
<1> QED BY <1>1, <1>3 DEF Books

(* Nothing changes the books where nothing moves.                          *)
LEMMA StutterBooks == IInv /\ Paths /\ Books /\ UNCHANGED vars => Books'
<1> SUFFICES ASSUME Books, UNCHANGED vars PROVE Books'
  OBVIOUS
<1> USE DEF Books, vars, files, worker, history
<1>1. UnderWay' /\ Complete'
  BY DEF UnderWay, Complete, Committing, Entry, Intact
<1>2. Waiting' /\ Resolved' /\ Again'
  BY DEF Waiting, Resolved, Again, Same, Intact
<1>3. Fresh'
  BY DEF Fresh, Redeemed, BufferClaimed, state, Loaded, Intact
<1> QED BY <1>1, <1>2, <1>3

(* Every step keeps the books, by cases over the actions.                  *)
LEMMA NextBooks == IInv /\ Paths /\ Books /\ [Next]_vars => Books'
<1> SUFFICES ASSUME IInv, Paths, Books, [Next]_vars PROVE Books'
  OBVIOUS
<1>1. CASE Environment
  BY <1>1, SubmitKeepsBooks, FlipKeepsBooks, ParentResumeKeepsBooks, CrashKeepsBooks DEF Environment
<1>2. CASE Boot \/ Requeue \/ ClearDone \/ ClearFault \/ Flag
  BY <1>2, BootKeepsBooks, RequeueKeepsBooks, ClearDoneKeepsBooks, ClearFaultKeepsBooks,
     FlagKeepsBooks
<1>3. CASE Rollback
  BY <1>3, UndoRestoreKeepsBooks, UndoDamagedKeepsBooks, UndoFaultKeepsBooks,
     UndoNothingKeepsBooks DEF Rollback
<1>4. CASE Handler
  BY <1>4, GateKeepsBooks, SampleKeepsBooks, AdmitKeepsBooks, BeginKeepsBooks,
     CompactKeepsBooks, OpenKeepsBooks,
     BodyWriteKeepsBooks, BodyObserveKeepsBooks, BodyResultKeepsBooks, FailKeepsBooks, ReportKeepsBooks, RetireKeepsBooks DEF Handler
<1>5. CASE Ticking
  BY <1>5, TickKeepsBooks, TickConfirmKeepsBooks, TickTimeoutKeepsBooks DEF Ticking
<1>6. CASE \E r \in Requests : Take(r)
  BY <1>6, TakeKeepsBooks
<1>7. CASE UNCHANGED vars
  BY <1>7, StutterBooks
<1> QED BY <1>1, <1>2, <1>3, <1>4, <1>5, <1>6, <1>7 DEF Next, Service

-----------------------------------------------------------------------------
(***************************************************************************)
(* The view is whole, and is the book of GrantBook.                        *)
(***************************************************************************)

(* A content with the same grants is sound with the other.                 *)
LEMMA SoundAlike ==
  ASSUME NEW old, NEW new, Sound(old), \A i \in Booked : Grants(new[i]) = Grants(old[i])
  PROVE  Sound(new)
<1>1. /\ Grants(new["rules"]) = Grants(old["rules"]) /\ Grants(new["state"]) = Grants(old["state"])
      /\ Grants(new["ledger"]) = Grants(old["ledger"]) /\ Grants(new["redeemed"]) = Grants(old["redeemed"])
  BY DEF Booked, Item
<1> QED BY <1>1 DEF Sound

(* Entering a grant in every book it belongs to keeps them sound.          *)
LEMMA SoundEntered ==
  ASSUME NEW a \in Actor, Sound(saved), \A i \in Booked : Grants(store[i]) = Grants(saved[i]) \cup Entry(a, i)
  PROVE  Sound(store)
<1>1. /\ Grants(store["rules"]) = Grants(saved["rules"]) \cup Entry(a, "rules")
      /\ Grants(store["state"]) = Grants(saved["state"]) \cup Entry(a, "state")
      /\ Grants(store["ledger"]) = Grants(saved["ledger"]) \cup Entry(a, "ledger")
      /\ Grants(store["redeemed"]) = Grants(saved["redeemed"]) \cup Entry(a, "redeemed")
  BY DEF Booked, Item
<1>2. /\ Entry(a, "rules") = Entry(a, "state") /\ Entry(a, "ledger") = Entry(a, "redeemed")
      /\ Entry(a, "ledger") = {e \in Entry(a, "rules") : Kind[e[1]] = "code"}
  <2>1. CASE a \in Requests /\ Kind[a] # "waive"
    <3>1. Entry(a, "rules") = {<<a, tries[a]>>} /\ Entry(a, "state") = {<<a, tries[a]>>}
      BY <2>1 DEF Entry
    <3>2. Entry(a, "ledger") = IF Kind[a] = "code" THEN {<<a, tries[a]>>} ELSE {}
      BY <2>1 DEF Entry
    <3>3. Entry(a, "redeemed") = Entry(a, "ledger")
      BY DEF Entry
    <3>4. <<a, tries[a]>>[1] = a
      OBVIOUS
    <3> QED BY <3>1, <3>2, <3>3, <3>4
  <2>2. CASE ~(a \in Requests /\ Kind[a] # "waive")
    BY <2>2 DEF Entry
  <2> QED BY <2>1, <2>2
<1> QED BY <1>1, <1>2 DEF Sound

(* Every step keeps the view whole: it is handed over with the same        *)
(* grants, or with one more in every book it belongs to.                   *)
LEMMA StepWhole == ASSUME IInv, Paths, Books, WholeGrants, Next PROVE WholeGrants'
<1> USE DEF IInv, Paths, Books
<1> SUFFICES ASSUME Intact' PROVE Sound(View)'
  BY DEF WholeGrants, Sound
<1>1. Intact /\ Sound(View)
  BY HarmStays DEF WholeGrants, Sound
<1>2. CASE ViewHolds
  <2>1. CASE owner = Nobody
    <3>1. \A i \in Booked : Grants(store'[i]) = Grants(store[i])
      BY <1>2, <2>1 DEF ViewHolds
    <3>2. View = store /\ View' = store'
      BY <1>2, <2>1 DEF ViewHolds, View
    <3>3. Sound(store')
      BY <1>1, <3>1, <3>2, SoundAlike
    <3> QED BY <3>2, <3>3 DEF Sound, Grants
  <2>2. CASE owner # Nobody
    <3>1. View' = View
      BY <1>2, <2>2 DEF ViewHolds, View
    <3> QED BY <1>1, <3>1 DEF Sound, Grants
  <2> QED BY <2>1, <2>2
<1>3. CASE ViewOpens
  <2>1. View' = View
    BY <1>3, ActorsAssumption DEF ViewOpens, View, ControlOK
  <2> QED BY <1>1, <2>1 DEF Sound, Grants
<1>4. CASE ViewCloses
  <2>1. View = saved /\ View' = store /\ pc = "clear"
    BY <1>4 DEF ViewCloses, View
  <2>2. CASE ~Committing
    <3>1. \A i \in Booked : Grants(store[i]) = Grants(saved[i])
      BY <2>1, <2>2 DEF Undone, Booked
    <3>2. Sound(store)
      BY <1>1, <2>1, <3>1, SoundAlike
    <3> QED BY <2>1, <3>2 DEF Sound, Grants
  <2>3. CASE Committing
    <3>1. Sound(store)
      BY <1>1, <2>1, <2>3, SoundEntered DEF Complete, ControlOK
    <3> QED BY <2>1, <3>1 DEF Sound, Grants
  <2> QED BY <2>2, <2>3
<1> QED BY <1>2, <1>3, <1>4, StepViews DEF ViewMoves

(* Nothing makes a grant half where nothing moves.                         *)
LEMMA StutterWhole == WholeGrants /\ UNCHANGED vars => WholeGrants'
BY DEF WholeGrants, Intact, View, Grants, vars, files, history

(* So the books are sound in every behaviour.                              *)
LEMMA SpecBooks == Spec => [](IInv /\ Paths /\ Books /\ WholeGrants)
<1>1. IInv /\ Paths /\ Books /\ WholeGrants /\ [Next]_vars => WholeGrants'
  BY StepWhole, StutterWhole
<1> QED BY <1>1, InitIInv, NextIInv, InitPaths, NextPaths, InitBooks, NextBooks, PTL DEF Spec

(* A grant is entered in all the books it belongs to or in none, as the    *)
(* recovery would leave them, through failed calls, crashes and rollbacks  *)
(* (recovery journal of sysmodule_storage.c), for every set of requests    *)
(* and every bound.                                                        *)
THEOREM GrantsAreWhole == Spec => []WholeGrants
BY SpecBooks, PTL

(* At first the book is empty and trusted.                                 *)
LEMMA BookInit == ASSUME Init PROVE Book!Init
<1>1. Grants(View["rules"]) = {}
  BY Marks DEF Init, View, Grants, Item
<1>2. Intact
  BY DEF Init, Intact
<1> QED BY <1>1, <1>2 DEF Book!Init

(* A step is a step of the book: it enters the one grant of its actor,     *)
(* which was not spent, or nothing, or it makes the book one that is not   *)
(* to be trusted.                                                          *)
LEMMA BookStep ==
  ASSUME IInv, Paths, Books, WholeGrants, IInv', Next
  PROVE  Book!Next \/ UNCHANGED <<Grants(View["rules"]), Intact>>
<1> USE DEF IInv, Paths, Books
<1>1. "rules" \in Booked /\ "state" \in Booked /\ "ledger" \in Booked
  BY DEF Booked, Item
<1>2. CASE ~Intact'
  <2>1. Grants(View["rules"])' \subseteq Requests \X Nat
    BY DEF IInv, FilesOK, Contents, View, Grants, Fact, Effect, Item
  <2> QED BY <1>2, <2>1 DEF Book!Next, Book!Betray
<1>3. CASE Intact'
  <2>1. Intact /\ Intact' = Intact
    BY <1>3, HarmStays DEF Intact
  <2>2. CASE ViewHolds
    <3>1. Grants(View["rules"])' = Grants(View["rules"])
      BY <1>1, <1>3, <2>2 DEF ViewHolds, View, Grants
    <3> QED BY <2>1, <3>1
  <2>3. CASE ViewOpens
    <3>1. Grants(View["rules"])' = Grants(View["rules"])
      BY <2>3, ActorsAssumption DEF ViewOpens, View, Grants, ControlOK
    <3> QED BY <2>1, <3>1
  <2>4. CASE ViewCloses
    <3>1. View = saved /\ View' = store /\ pc = "clear" /\ actor \in Actor
      BY <2>4 DEF ViewCloses, View, ControlOK
    <3>2. Grants(View["rules"])' = Grants(store["rules"]) /\ Grants(View["rules"]) = Grants(saved["rules"])
      BY <3>1 DEF Grants
    <3>3. CASE Grants(store["rules"]) = Grants(saved["rules"])
      BY <2>1, <3>2, <3>3
    <3>4. CASE Grants(store["rules"]) # Grants(saved["rules"])
      <4>1. Committing
        BY <3>1, <3>4 DEF Undone, Item
      <4>2. Grants(store["rules"]) = Grants(saved["rules"]) \cup Entry(actor, "rules")
        BY <1>1, <2>1, <3>1, <4>1 DEF Complete
      <4>3. actor \in Requests /\ Entry(actor, "rules") = {<<actor, tries[actor]>>}
        BY <3>4, <4>2 DEF Entry
      <4>4. cont = "commit" /\ tries[actor] \in Nat
        BY <3>1, <4>1, <4>3, ActorsAssumption DEF Undone, Committing, FilesOK
      <4>5. /\ Grants(saved["rules"]) = Grants(saved["state"])
            /\ Grants(saved["ledger"]) = {e \in Grants(saved["rules"]) : Kind[e[1]] = "code"}
        BY <2>1, <3>1 DEF WholeGrants
      <4>6. ~Book!Spent(actor)
        BY <2>1, <3>1, <3>2, <4>3, <4>4, <4>5 DEF Fresh, Book!Spent
      <4> DEFINE e == <<actor, tries[actor]>>
      <4>7. e \in Requests \X Nat /\ e[1] = actor
        BY <4>3, <4>4
      <4>8. e \in Grants(View["rules"])' \ Grants(View["rules"])
        BY <3>2, <3>4, <4>2, <4>3
      <4>9. Grants(View["rules"])' = Grants(View["rules"]) \cup {e}
        BY <3>2, <4>2, <4>3
      <4> HIDE DEF e
      <4>10. Book!Enter(e)
        BY <2>1, <4>6, <4>7, <4>9 DEF Book!Enter
      <4> QED BY <4>8, <4>10 DEF Book!Next
    <3> QED BY <3>3, <3>4
  <2> QED BY <2>2, <2>3, <2>4, StepViews DEF ViewMoves
<1> QED BY <1>2, <1>3

(* The write path implements the grant book: a parent's view of it is a    *)
(* journal in which a grant is entered once, never with a code already     *)
(* redeemed, and is never taken out (sysmodule_storage.c,                  *)
(* sysmodule_core.c), for every set of requests and every bound.           *)
THEOREM ImplementsBook == Spec => GrantsAreBooked
<1>1. Init => Book!Init
  BY BookInit
<1>2. IInv /\ Paths /\ Books /\ WholeGrants /\ IInv' /\ [Next]_vars
        => [Book!Next]_<<Grants(View["rules"]), Intact>>
  <2> SUFFICES ASSUME IInv, Paths, Books, WholeGrants, IInv', [Next]_vars
               PROVE  Book!Next \/ UNCHANGED <<Grants(View["rules"]), Intact>>
    OBVIOUS
  <2>1. CASE Next
    BY <2>1, BookStep
  <2>2. CASE UNCHANGED vars
    BY <2>2 DEF vars, files, history, View, Grants, Intact
  <2> QED BY <2>1, <2>2
<1> QED BY <1>1, <1>2, SpecBooks, PTL DEF Spec, GrantsAreBooked, Book!Spec

-----------------------------------------------------------------------------
(***************************************************************************)
(* Answers.                                                                *)
(***************************************************************************)

(* The body has written its success answer.                                *)
Said == \E k \in 1 .. at - 1 : Body(actor)[k] = "result"

(* The body has written the state it decided.                              *)
Stated == \E k \in 1 .. at - 1 : Body(actor)[k] = "state"

(* A code that could not take its answer back is rolled back and refused.  *)
Refusing == pc \in {"fail", "report"} \/ (pc \in {"undo", "clear", "flag"} /\ cont \in {"fail", "report"})

(* Where a request under way may have a success answer, and where it must. *)
Answered ==
  /\ crashes = 0 /\ actor \in Requests /\ result[actor] = "ok" =>
       \/ pc = "retire" \/ (pc = "clear" /\ cont = "commit") \/ (pc = "body" /\ Said)
       \/ "answer" \in harmed /\ Refusing
  /\ actor \in Requests /\ ((pc = "body" /\ Said) \/ (pc = "clear" /\ cont = "commit")) =>
       result[actor] = "ok"
  /\ pc = "undo" /\ actor \in Requests => owner # Nobody
  /\ pc \in {"undo", "clear", "flag"} /\ cont = "silent" => faults > 0
  /\ pc = "flag" => cont # "commit"

(* Before a restart no request is taken twice.                             *)
Once ==
  crashes = 0 =>
    /\ \A r \in Requests : inbox[r] \in {"none", "pending"} => result[r] # "ok"
    /\ pc \in {"undo", "clear", "flag"} => cont # "boot"
    /\ pc \in {"boot", "requeue"} =>
         owner = Nobody /\ \A r \in Requests : inbox[r] \in {"none", "pending"}

(* A content has no grant of a request.                                    *)
Free(r, content) == \A e \in Grants(content) : e[1] # r
Clean(r, contents) == \A i \in Item : Free(r, contents[i])

(* A transaction of the request is open.                                   *)
UnderOwn(r) == actor = r /\ pc \in {"body", "undo", "clear"}

(* The request has no success answer, or is about to be refused.           *)
Unsettled(r) == result[r] # "ok" \/ (actor = r /\ pc \in {"flag", "fail", "report"} /\ Refusing)

(* Without a success answer a request is in no file, but for its own open  *)
(* transaction, and in no journal.                                         *)
UntracedOf(r) ==
  /\ owner # Nobody /\ (Unsettled(r) \/ UnderOwn(r)) => Clean(r, saved)
  /\ Unsettled(r) /\ ~UnderOwn(r) => Clean(r, store)
  /\ result[r] # "ok" /\ actor # r /\ pc \in {"begin", "compact", "open", "body"} => Clean(r, next)
Untraced == "undo" \notin harmed /\ crashes = 0 => \A r \in Requests : UntracedOf(r)

(* A day that is waived stays so, in whatever a recovery would restore.    *)
Keeps(old, new) == Waived \in old["state"] => Waived \in new["state"]
WaiverKept ==
  /\ pc \in {"begin", "compact", "open"} => Keeps(store, next)
  /\ Intact /\ pc = "body" => Keeps(saved, store) /\ Keeps(saved, next)
  /\ Intact /\ pc = "clear" => Keeps(saved, store)
  /\ Intact /\ pc \notin {"boot", "undo"} /\ owner = Enforcer /\ Pending \in store["state"] =>
       Keeps(saved, store)
  /\ actor \in Requests /\ Kind[actor] = "waive" =>
       /\ pc \in {"begin", "compact", "open", "body"} => Waived \in next["state"]
       /\ (pc = "body" /\ Stated) \/ (pc = "clear" /\ cont = "commit") => Waived \in store["state"]

(* An answer is true when it is archived.                                  *)
Granted(r) == IF Kind[r] = "waive" THEN Waived \in View["state"]
                                   ELSE \E e \in Grants(View["rules"]) : e[1] = r
Trusted == Intact /\ harmed \cap {"clear", "answer"} = {} /\ (crashes = 0 \/ faults = 0)
Truthful ==
  Trusted => \A r \in Requests :
    result[r] = "ok" /\ (inbox[r] = "done" \/ (pc = "retire" /\ actor = r)) => Granted(r)

(* A changed switch keeps the answers where they may be.                   *)
LEMMA FlipAnswers ==
  ASSUME IInv, Paths, Answered, Once, Flip
  PROVE  Answered' /\ Once'
<1>1. Answered'
  BY DEF Answered, Refusing, Flip, worker
<1>2. Once'
  BY DEF Once, Flip, worker
<1> QED BY <1>1, <1>2

(* A setup completed again keeps the answers where they may be.            *)
LEMMA ParentResumeAnswers ==
  ASSUME IInv, Paths, Answered, Once, ParentResume
  PROVE  Answered' /\ Once'
<1>1. Answered'
  BY DEF Answered, Refusing, ParentResume, worker, history
<1>2. Once'
  BY DEF Once, ParentResume, worker, history
<1> QED BY <1>1, <1>2

(* A crash keeps the answers where they may be.                            *)
LEMMA CrashAnswers ==
  ASSUME IInv, Paths, Answered, Once, Crash
  PROVE  Answered' /\ Once'
<1>1. Answered'
  BY DEF Answered, Refusing, IInv, HistoryOK, Crash, Goto
<1>2. Once'
  BY DEF Once, IInv, HistoryOK, Crash
<1> QED BY <1>1, <1>2

(* Start-up keeps the answers where they may be.                           *)
LEMMA BootAnswers ==
  ASSUME IInv, Paths, Answered, Once, Boot
  PROVE  Answered' /\ Once'
<1>1. Answered'
  BY DEF Answered, Refusing, Boot, Goto, Undo, history
<1>2. Once'
  BY DEF Once, Boot, Goto, history
<1> QED BY <1>1, <1>2

(* The requeueing keeps the answers where they may be.                     *)
LEMMA RequeueAnswers ==
  ASSUME IInv, Paths, Answered, Once, Requeue
  PROVE  Answered' /\ Once'
<1>1. Answered'
  BY DEF Answered, Refusing, Requeue, Goto, history
<1>2. Once'
  BY DEF Once, Requeue, Goto, history
<1> QED BY <1>1, <1>2

(* A rollback that restores an item goes on, clears or ends in the flag.   *)
LEMMA UndoRestoreAnswers ==
  ASSUME IInv, Paths, Answered, Once, UndoRestore
  PROVE  Answered' /\ Once'
<1>1. /\ pc = "undo" /\ pc' \in {"undo", "clear", "flag"} /\ ~Committing
      /\ UNCHANGED <<inbox, result, owner, actor, cont, crashes, faults>> /\ harmed \subseteq harmed'
  BY DEF UndoRestore, UndoMove, Harm, Goto, NoFault, IInv, SwitchesOK, Paths, Undone
<1>2. Answered'
  BY <1>1 DEF Answered, Refusing, Committing
<1>3. Once'
  BY <1>1 DEF Once
<1> QED BY <1>2, <1>3

(* A rollback that cannot restore an item goes on or ends in the flag.     *)
LEMMA UndoDamagedAnswers ==
  ASSUME IInv, Paths, Answered, Once, UndoDamaged
  PROVE  Answered' /\ Once'
<1>1. /\ pc = "undo" /\ pc' \in {"undo", "clear", "flag"} /\ ~Committing
      /\ UNCHANGED <<inbox, result, owner, actor, cont, crashes>> /\ harmed \subseteq harmed'
  BY DEF UndoDamaged, UndoMove, Harm, Goto, Paths, Undone
<1>2. faults \in Nat /\ faults' \in Nat /\ faults' >= faults
  BY DEF UndoDamaged, NoFault, Fault, IInv, HistoryOK
<1>3. Answered'
  BY <1>1, <1>2 DEF Answered, Refusing, Committing
<1>4. Once'
  BY <1>1 DEF Once
<1> QED BY <1>3, <1>4

(* A rollback whose write fails goes on or ends in the flag.               *)
LEMMA UndoFaultAnswers ==
  ASSUME IInv, Paths, Answered, Once, UndoFault
  PROVE  Answered' /\ Once'
<1>1. /\ pc = "undo" /\ pc' \in {"undo", "clear", "flag"} /\ ~Committing
      /\ UNCHANGED <<inbox, result, owner, actor, cont, crashes>> /\ harmed \subseteq harmed'
  BY DEF UndoFault, UndoMove, Harm, Goto, Paths, Undone
<1>2. faults \in Nat /\ faults' \in Nat /\ faults' >= faults
  BY DEF UndoFault, NoFault, Fault, IInv, HistoryOK
<1>3. Answered'
  BY <1>1, <1>2 DEF Answered, Refusing, Committing
<1>4. Once'
  BY <1>1 DEF Once
<1> QED BY <1>3, <1>4

(* A rollback without a journal keeps the answers where they may be.       *)
LEMMA UndoNothingAnswers ==
  ASSUME IInv, Paths, Answered, Once, UndoNothing
  PROVE  Answered' /\ Once'
<1>1. Answered'
  BY DEF Answered, Refusing, After, UndoNothing, Goto
<1>2. Once'
  BY DEF Once, IInv, ControlOK, After, Return, UndoNothing, Goto, history
<1> QED BY <1>1, <1>2

(* A cleared journal keeps the answers where they may be.                  *)
LEMMA ClearDoneAnswers ==
  ASSUME IInv, Paths, Answered, Once, ClearDone
  PROVE  Answered' /\ Once'
<1>1. Answered'
  BY ActorsAssumption DEF Answered, Refusing, IInv, ControlOK, After, Return, ClearDone, Goto, history
<1>2. Once'
  BY DEF Once, IInv, ControlOK, After, Return, ClearDone, Goto, history
<1> QED BY <1>1, <1>2

(* A failed clearing keeps the answers where they may be.                  *)
LEMMA ClearFaultAnswers ==
  ASSUME IInv, Paths, Answered, Once, ClearFault
  PROVE  Answered' /\ Once'
<1>0. harmed \subseteq harmed'
  BY DEF ClearFault, Harm
<1>1. Answered'
  BY <1>0, ActorsAssumption DEF Answered, Refusing, IInv, ControlOK, After, Return, ClearFault, Goto
<1>2. Once'
  BY DEF Once, IInv, ControlOK, After, Return, ClearFault, Goto
<1> QED BY <1>1, <1>2

(* The flag of a failed rollback keeps the answers where they may be.      *)
LEMMA FlagAnswers ==
  ASSUME IInv, Paths, Answered, Once, Flag
  PROVE  Answered' /\ Once'
<1>1. Answered'
  BY DEF Answered, Refusing, IInv, ControlOK, After, Return, Flag, Goto
<1>2. Once'
  BY DEF Once, IInv, ControlOK, After, Return, Flag, Goto
<1> QED BY <1>1, <1>2

(* A parent's recovery request rolls back a journal that is there.         *)
LEMMA GateAnswers ==
  ASSUME IInv, Paths, Answered, Once, Gate
  PROVE  Answered' /\ Once'
<1>1. /\ pc = "gate" /\ pc' \in {"fail", "sample", "undo"}
      /\ pc' = "undo" => owner # Nobody /\ cont' = "sample"
      /\ UNCHANGED <<inbox, result, owner, actor, crashes, faults>>
  BY DEF Gate, Foreign, Goto, Undo, files, history
<1>2. Answered'
  BY <1>1 DEF Answered, Refusing
<1>3. Once'
  BY <1>1 DEF Once
<1> QED BY <1>2, <1>3

(* A sample keeps the answers where they may be.                           *)
LEMMA SampleAnswers ==
  ASSUME IInv, Paths, Answered, Once, Sample
  PROVE  Answered' /\ Once'
<1>1. Answered'
  BY DEF Answered, Refusing, Sample, Goto
<1>2. Once'
  BY DEF Once, Sample, Goto
<1> QED BY <1>1, <1>2

(* The admission keeps the answers where they may be.                      *)
LEMMA AdmitAnswers ==
  ASSUME IInv, Paths, Answered, Once, Admit
  PROVE  Answered' /\ Once'
<1>1. Answered'
  BY DEF Answered, Refusing, Admit, Goto, history
<1>2. Once'
  BY DEF Once, Admit, Goto, history
<1> QED BY <1>1, <1>2

(* A body starts without an answer.                                        *)
LEMMA BeginAnswers ==
  ASSUME IInv, Paths, Answered, Once, Begin
  PROVE  Answered' /\ Once'
<1>1. /\ pc = "begin" /\ pc' \in {"compact", "body", "fail", "undo", "idle"}
      /\ pc' = "undo" => actor = Enforcer /\ cont' = "tick"
      /\ pc' = "body" => StartBody
      /\ UNCHANGED <<inbox, result, owner, actor, crashes>>
  BY DEF Begin, BeginRefused, StartBody, DockEntry, Undo, Goto, files
<1>2. pc' = "body" /\ actor \in Requests => at' = 1
  BY <1>1, ActorsAssumption DEF StartBody
<1>3. Answered'
  BY <1>1, <1>2, ActorsAssumption DEF Answered, Refusing, Said
<1>4. Once'
  BY <1>1 DEF Once
<1> QED BY <1>3, <1>4

(* A compaction keeps the answers where they may be.                       *)
LEMMA CompactAnswers ==
  ASSUME IInv, Paths, Answered, Once, Compact
  PROVE  Answered' /\ Once'
<1>1. Answered'
  BY ActorsAssumption DEF Answered, Refusing, Compact, Goto, Undo, BeginRefused
<1>2. Once'
  BY DEF Once, Compact, Goto, Undo, BeginRefused
<1> QED BY <1>1, <1>2 DEF Compact

(* The opening of a journal keeps the answers where they may be.           *)
LEMMA OpenAnswers ==
  ASSUME IInv, Paths, Answered, Once, Open
  PROVE  Answered' /\ Once'
<1>1. Answered'
  BY ActorsAssumption DEF Answered, Refusing, Said, Open, Goto, Undo, BeginRefused, StartBody
<1>2. Once'
  BY DEF Once, Open, Goto, Undo, BeginRefused, StartBody
<1> QED BY <1>1, <1>2 DEF Open

(* The steps of a request's body write one answer, after the read-back and *)
(* after the waiver.                                                       *)
LEMMA Answering ==
  ASSUME NEW a \in Requests
  PROVE  \E n \in 1 .. Len(Body(a)) :
           /\ \A k \in 1 .. Len(Body(a)) : Body(a)[k] = "result" <=> k = n
           /\ \A k \in 1 .. Len(Body(a)) : Body(a)[k] = "observe" => k < n
           /\ Kind[a] = "waive" => \E k \in 1 .. n - 1 : Body(a)[k] = "state"
<1>1. a # Enforcer /\ Kind[a] \in {"add", "code", "buffer", "waive"}
  BY KindAssumption, ActorsAssumption
<1>2. CASE Kind[a] = "add"
  <2>1. Body(a) = <<"rules", "pctl", "observe", "state", "result">>
    BY <1>1, <1>2 DEF Body
  <2>2. 5 \in 1 .. Len(Body(a))
    BY <2>1
  <2>3. /\ \A k \in 1 .. Len(Body(a)) : Body(a)[k] = "result" <=> k = 5
        /\ \A k \in 1 .. Len(Body(a)) : Body(a)[k] = "observe" => k < 5
    BY <2>1
  <2> QED BY <2>2, <2>3, <1>2
<1>3. CASE Kind[a] = "buffer"
  <2>1. Body(a) = <<"pctl", "observe", "rules", "state", "result">>
    BY <1>1, <1>3 DEF Body
  <2>2. 5 \in 1 .. Len(Body(a))
    BY <2>1
  <2>3. /\ \A k \in 1 .. Len(Body(a)) : Body(a)[k] = "result" <=> k = 5
        /\ \A k \in 1 .. Len(Body(a)) : Body(a)[k] = "observe" => k < 5
    BY <2>1
  <2> QED BY <2>2, <2>3, <1>3
<1>4. CASE Kind[a] = "code"
  <2>1. Body(a) = <<"pctl", "observe", "rules", "result", "redeemed", "state", "ledger">>
    BY <1>1, <1>4 DEF Body
  <2>2. 4 \in 1 .. Len(Body(a))
    BY <2>1
  <2>3. /\ \A k \in 1 .. Len(Body(a)) : Body(a)[k] = "result" <=> k = 4
        /\ \A k \in 1 .. Len(Body(a)) : Body(a)[k] = "observe" => k < 4
    BY <2>1
  <2> QED BY <2>2, <2>3, <1>4
<1>5. CASE Kind[a] = "waive"
  <2>1. Body(a) = <<"rules", "waived", "pctl", "observe", "state", "result">>
    BY <1>1, <1>5 DEF Body
  <2>2. Len(Body(a)) = 6 /\ Body(a)[5] = "state"
    BY <2>1
  <2>3. 6 \in 1 .. Len(Body(a)) /\ \E k \in 1 .. 6 - 1 : Body(a)[k] = "state"
    BY <2>2
  <2>4. /\ \A k \in 1 .. Len(Body(a)) : Body(a)[k] = "result" <=> k = 6
        /\ \A k \in 1 .. Len(Body(a)) : Body(a)[k] = "observe" => k < 6
    BY <2>1
  <2> QED BY <2>3, <2>4
<1> QED BY <1>1, <1>2, <1>3, <1>4, <1>5

(* While a body runs it has said ok once it has passed the answer, and at  *)
(* its end it has.                                                         *)
LEMMA SaidMoves ==
  ASSUME IInv, pc = "body", Advance, UNCHANGED actor, actor \in Requests
  PROVE  /\ pc' = "body" => (Said' <=> Said \/ Step = "result")
         /\ pc' \in {"body", "clear"}
         /\ pc' = "clear" => cont' = "commit" /\ (Said \/ Step = "result")
         /\ Step \in {"result", "observe"} => ~Said
<1>1. PICK n \in 1 .. Len(Body(actor)) :
           /\ \A k \in 1 .. Len(Body(actor)) : Body(actor)[k] = "result" <=> k = n
           /\ \A k \in 1 .. Len(Body(actor)) : Body(actor)[k] = "observe" => k < n
  BY Answering
<1>2. at \in 1 .. Len(Body(actor)) /\ Len(Body(actor)) \in 3 .. 7
  BY BodyShape DEF IInv, Positions, ControlOK
<1>3. Said <=> n < at
  BY <1>1, <1>2 DEF Said
<1>4. Step = "result" <=> at = n
  BY <1>1, <1>2 DEF Step
<1>5. \/ pc' = "body" /\ at' = at + 1 /\ at # Len(Body(actor))
      \/ pc' = "clear" /\ cont' = "commit" /\ at = Len(Body(actor))
  BY ActorsAssumption DEF Advance, Finish, Clear, Goto
<1>6. pc' = "body" => (Said' <=> n < at + 1)
  BY <1>1, <1>2, <1>5 DEF Said
<1>7. Step = "observe" => at < n
  BY <1>1, <1>2 DEF Step
<1> QED BY <1>1, <1>2, <1>3, <1>4, <1>5, <1>6, <1>7

(* The answer is written once, after the read-back.                        *)
LEMMA SaidOnce ==
  ASSUME IInv, pc = "body", actor \in Requests, Step \in {"result", "observe"}
  PROVE  ~Said
<1>1. PICK n \in 1 .. Len(Body(actor)) :
           /\ \A k \in 1 .. Len(Body(actor)) : Body(actor)[k] = "result" <=> k = n
           /\ \A k \in 1 .. Len(Body(actor)) : Body(actor)[k] = "observe" => k < n
  BY Answering
<1>2. at \in 1 .. Len(Body(actor)) /\ Len(Body(actor)) \in 3 .. 7
  BY BodyShape DEF IInv, Positions, ControlOK
<1>3. at = n \/ at < n
  BY <1>1, <1>2 DEF Step
<1> QED BY <1>1, <1>2, <1>3 DEF Said

(* Where a body that goes on has passed the answer, its actor has it.      *)
LEMMA AdvanceAnswers ==
  ASSUME IInv, Paths, Answered, pc = "body", Advance, UNCHANGED <<owner, actor, crashes>>,
         actor \in Requests => result'[actor] = IF Step = "result" THEN "ok" ELSE result[actor]
  PROVE  Answered'
<1>1. CASE actor \in Requests
  <2>1. /\ pc' = "body" => (Said' <=> Said \/ Step = "result")
        /\ pc' = "body" \/ (pc' = "clear" /\ cont' = "commit" /\ (Said \/ Step = "result"))
    BY <1>1, SaidMoves
  <2> QED BY <1>1, <2>1 DEF Answered, Refusing
<1>2. CASE actor \notin Requests
  <2>1. pc' \notin {"undo", "flag"} /\ (pc' = "clear" => cont' = "commit")
    BY DEF Advance, Finish, Clear, Goto
  <2> QED BY <1>2, <2>1 DEF Answered, Refusing
<1> QED BY <1>1, <1>2

(* A body given up leaves no success answer that it wrote.                 *)
LEMMA AbortAnswers ==
  ASSUME IInv, Paths, Answered, NEW c \in {"fail", "silent"}, pc = "body", Abort(c),
         UNCHANGED <<owner, actor, crashes>>, faults' > 0,
         crashes = 0 /\ actor \in Requests =>
           result'[actor] # "ok" \/ (c = "fail" /\ "answer" \in harmed')
  PROVE  Answered'
<1>1. /\ pc' = "undo" /\ owner = actor /\ (actor \in Requests => actor # Nobody)
      /\ actor \in Requests => cont' = c
  BY ActorsAssumption DEF Abort, Undo, Goto, IInv, OwnJournalOnly
<1> QED BY <1>1 DEF Answered, Refusing

(* Nothing but a restart makes a request one that could be executed twice. *)
LEMMA BodyOnce ==
  ASSUME IInv, Paths, Once, pc = "body", Advance \/ Abort("fail") \/ Abort("silent"),
         UNCHANGED <<inbox, actor, crashes>>,
         \A r \in Requests : r # actor => result'[r] = result[r]
  PROVE  Once'
<1>1. pc' \in {"body", "idle", "clear", "undo"} /\ (pc' \in {"clear", "undo"} => cont' # "boot")
  BY DEF Advance, Finish, Clear, Abort, Undo, Goto
<1>2. actor \in Requests => inbox[actor] = "processing"
  BY DEF Paths, Taken
<1> QED BY <1>1, <1>2 DEF Once

(* A write that fails after the answer takes the answer back.              *)
LEMMA BodyWriteAnswers ==
  ASSUME IInv, Paths, Answered, Once, BodyWrite
  PROVE  Answered' /\ Once'
<1> USE DEF IInv
<1>1. /\ pc = "body" /\ UNCHANGED <<inbox, owner, actor, crashes>>
      /\ \/ Advance /\ result' = result
         \/ /\ Abort("fail") /\ faults' > 0
            /\ \/ Said /\ result' = [result EXCEPT ![actor] = "none"]
               \/ ~Said /\ result' = result
               \/ result' = result /\ "answer" \in harmed'
  BY BoundsAssumption DEF BodyWrite, Withdraw, Fault, Said, Harm, HistoryOK
<1>2. \A r \in Requests : r # actor => result'[r] = result[r]
  BY <1>1 DEF FilesOK
<1>3. Once'
  BY <1>1, <1>2, BodyOnce
<1>4. CASE Advance /\ result' = result
  <2>1. Step # "result"
    BY DEF BodyWrite, Written, Item
  <2> QED BY <1>1, <1>3, <1>4, <2>1, AdvanceAnswers
<1>5. CASE /\ Abort("fail") /\ faults' > 0
           /\ \/ Said /\ result' = [result EXCEPT ![actor] = "none"]
              \/ ~Said /\ result' = result
              \/ result' = result /\ "answer" \in harmed'
  <2>1. actor \in Requests /\ crashes = 0 => result'[actor] # "ok" \/ "answer" \in harmed'
    BY <1>1, <1>5 DEF FilesOK, Answered, Refusing
  <2> QED BY <1>1, <1>3, <1>5, <2>1, AbortAnswers
<1> QED BY <1>1, <1>4, <1>5

(* The read-back comes before the answer.                                  *)
LEMMA BodyObserveAnswers ==
  ASSUME IInv, Paths, Answered, Once, BodyObserve
  PROVE  Answered' /\ Once'
<1> USE DEF IInv
<1>1. /\ pc = "body" /\ Step = "observe" /\ UNCHANGED <<inbox, result, owner, actor, crashes>>
      /\ Advance \/ (Abort("fail") /\ faults' = faults + 1)
  BY DEF BodyObserve, Fault, files
<1>2. Once'
  BY <1>1, BodyOnce
<1>3. CASE Advance
  BY <1>1, <1>2, <1>3, AdvanceAnswers
<1>4. CASE Abort("fail") /\ faults' = faults + 1
  <2>1. actor \in Requests /\ crashes = 0 => result'[actor] # "ok"
    BY <1>1, SaidOnce DEF Answered, Refusing
  <2>2. faults' > 0
    BY <1>4, BoundsAssumption DEF HistoryOK
  <2> QED BY <1>1, <1>2, <1>4, <2>1, <2>2, AbortAnswers
<1> QED BY <1>1, <1>3, <1>4

(* The answer is there, or its writing failed and the request is silent.   *)
LEMMA BodyResultAnswers ==
  ASSUME IInv, Paths, Answered, Once, BodyResult
  PROVE  Answered' /\ Once'
<1> USE DEF IInv
<1>1. /\ pc = "body" /\ Step = "result" /\ UNCHANGED <<inbox, owner, actor, crashes>>
      /\ \/ Advance /\ result' = [result EXCEPT ![actor] = "ok"]
         \/ /\ Abort("silent") /\ faults' = faults + 1
            /\ \E answer \in {result[actor], "none"} : result' = [result EXCEPT ![actor] = answer]
  BY DEF BodyResult, Fault, files
<1>2. \A r \in Requests : r # actor => result'[r] = result[r]
  BY <1>1 DEF FilesOK
<1>3. Once'
  BY <1>1, <1>2, BodyOnce
<1>4. CASE Advance /\ result' = [result EXCEPT ![actor] = "ok"]
  <2>1. actor \in Requests => result'[actor] = "ok"
    BY <1>4 DEF FilesOK
  <2> QED BY <1>1, <1>3, <1>4, <2>1, AdvanceAnswers
<1>5. CASE /\ Abort("silent") /\ faults' = faults + 1
           /\ \E answer \in {result[actor], "none"} : result' = [result EXCEPT ![actor] = answer]
  <2>1. actor \in Requests /\ crashes = 0 => result'[actor] # "ok"
    BY <1>1, <1>5, SaidOnce DEF Answered, Refusing, FilesOK
  <2>2. faults' > 0
    BY <1>5, BoundsAssumption DEF HistoryOK
  <2> QED BY <1>1, <1>3, <1>5, <2>1, <2>2, AbortAnswers
<1> QED BY <1>1, <1>4, <1>5

(* A refusal keeps the answers where they may be.                          *)
LEMMA FailAnswers ==
  ASSUME IInv, Paths, Answered, Once, Fail
  PROVE  Answered' /\ Once'
<1>1. Answered'
  BY ActorsAssumption DEF Answered, Refusing, Fail, Goto, Undo, files, history
<1>2. Once'
  BY DEF Once, Fail, Goto, Undo, history
<1> QED BY <1>1, <1>2

(* A reported rollback keeps the answers where they may be.                *)
LEMMA ReportAnswers ==
  ASSUME IInv, Paths, Answered, Once, Report
  PROVE  Answered' /\ Once'
<1>1. Answered'
  BY DEF Answered, Refusing, Report, Goto
<1>2. Once'
  BY DEF Once, IInv, FilesOK, Report, Goto
<1> QED BY <1>1, <1>2

(* The archiving keeps the answers where they may be.                      *)
LEMMA RetireAnswers ==
  ASSUME IInv, Paths, Answered, Once, Retire
  PROVE  Answered' /\ Once'
<1>1. Answered'
  BY ActorsAssumption DEF Answered, Refusing, Retire, Goto
<1>2. Once'
  BY DEF Once, IInv, FilesOK, Retire, Goto
<1> QED BY <1>1, <1>2

(* A tick keeps the answers where they may be.                             *)
LEMMA TickAnswers ==
  ASSUME IInv, Paths, Answered, Once, Tick
  PROVE  Answered' /\ Once'
<1>1. Answered'
  BY ActorsAssumption DEF Answered, Refusing, Tick, Goto
<1>2. Once'
  BY DEF Once, Tick, Goto, history
<1> QED BY <1>1, <1>2

(* A confirmation keeps the answers where they may be.                     *)
LEMMA TickConfirmAnswers ==
  ASSUME IInv, Paths, Answered, Once, TickConfirm
  PROVE  Answered' /\ Once'
<1>1. Answered'
  BY ActorsAssumption DEF Answered, Refusing, TickPending, TickConfirm, Clear
<1>2. Once'
  BY DEF Once, TickConfirm, Goto, Clear
<1> QED BY <1>1, <1>2

(* A timeout keeps the answers where they may be.                          *)
LEMMA TickTimeoutAnswers ==
  ASSUME IInv, Paths, Answered, Once, TickTimeout
  PROVE  Answered' /\ Once'
<1>1. Answered'
  BY ActorsAssumption DEF Answered, Refusing, TickPending, TickTimeout, Undo
<1>2. Once'
  BY DEF Once, TickTimeout, Goto, Undo, history
<1> QED BY <1>1, <1>2

(* A new request has no answer.                                            *)
LEMMA SubmitAnswers ==
  ASSUME IInv, Paths, Answered, Once, NEW r \in Requests, Submit(r)
  PROVE  Answered' /\ Once'
<1> USE DEF Submit, files, worker, history
<1>1. Answered'
  BY DEF Answered, Refusing, Said
<1>2. Once'
  BY DEF Once, IInv, FilesOK
<1> QED BY <1>1, <1>2

(* A request that is taken has no success answer before a restart.         *)
LEMMA TakeAnswers ==
  ASSUME IInv, Paths, Answered, Once, NEW r \in Requests, Take(r)
  PROVE  Answered' /\ Once'
<1> USE DEF Take, Goto, files, history
<1>1. Answered'
  BY DEF Answered, Refusing, Once, Said
<1>2. Once'
  BY DEF Once, IInv, FilesOK
<1> QED BY <1>1, <1>2

(* Whose contents are free of a request.                                   *)
LEMMA FreeParts ==
  ASSUME NEW r \in Requests
  PROVE  /\ Free(r, {}) /\ \A m \in Mark : Free(r, {m})
         /\ \A c, d : Free(r, c) /\ Free(r, d) => Free(r, c \cup d)
         /\ \A c, d : Free(r, c) => Free(r, c \ d)
         /\ \A i : Free(r, store[i]) => Free(r, Loaded(i))
<1>1. Free(r, {}) /\ (\A m \in Mark : Free(r, {m})) /\ \A c, d : Free(r, c) => Free(r, c \ d)
  BY DEF Free, Grants
<1>2. \A c, d : Free(r, c) /\ Free(r, d) => Free(r, c \cup d)
  BY DEF Free, Grants
<1>3. \A i : Free(r, store[i]) => Free(r, Loaded(i))
  BY GrantsLoaded DEF Free
<1> QED BY <1>1, <1>2, <1>3

(* A file rewritten without the request leaves the others as they are.     *)
LEMMA RewrittenFree ==
  ASSUME FilesOK, NEW r, Clean(r, store), NEW item, NEW content, Free(r, content),
         store' = [store EXCEPT ![item] = content]
  PROVE  Clean(r, store')
BY DEF Clean, FilesOK, Contents

(* Of a write that fails nothing is left but what was there or is written. *)
LEMMA TornFree ==
  ASSUME NEW r \in Requests, NEW item, NEW content, Free(r, store[item]), Free(r, content),
         NEW left \in Torn(item, content)
  PROVE  Free(r, left)
BY TornGrants, FreeParts

(* A handler decides nothing for another request.                          *)
LEMMA PlanFree ==
  ASSUME FilesOK, NEW a \in Actor, NEW r \in Requests, a # r, Clean(r, store)
  PROVE  Clean(r, Plan(a))
<1>1. \A i \in Item : Free(r, store[i]) /\ Free(r, Loaded(i))
  BY FreeParts DEF Clean
<1>2. Free(r, rules) /\ Free(r, state)
  BY <1>1 DEF rules, state, Item
<1>3. /\ Free(r, {Enforced}) /\ Free(r, {Waived}) /\ Free(r, {Blocked})
      /\ Free(r, state \cup {Enforced}) /\ Free(r, state \ {Enforced})
      /\ Free(r, (state \cup {Waived}) \ {Enforced, Pending})
  BY <1>2, FreeParts, Marks
<1>4. \A b \in BOOLEAN : Free(r, Target(rules, b))
  BY <1>2, <1>3 DEF Target
<1>5. CASE a = Enforcer
  <2>1. Plan(a) = Enforce
    BY <1>5 DEF Plan
  <2>2. DockBlocks \in BOOLEAN
    BY DEF DockBlocks
  <2>3. ASSUME NEW i \in Item PROVE Free(r, Enforce[i])
    BY <1>1, <1>3, <1>4, <2>2 DEF Enforce, FilesOK, Contents
  <2> QED BY <2>1, <2>3 DEF Clean
<1>6. CASE a # Enforcer /\ Kind[a] = "waive"
  <2>1. Plan(a) = Waive
    BY <1>6 DEF Plan
  <2>2. ASSUME NEW i \in Item PROVE Free(r, Waive[i])
    BY <1>1, <1>2, <1>3, <1>4 DEF Waive, FilesOK, Contents
  <2> QED BY <2>1, <2>2 DEF Clean
<1>7. CASE a # Enforcer /\ Kind[a] # "waive"
  <2>1. Plan(a) = Grant(a)
    BY <1>7 DEF Plan
  <2>2. <<a, tries[a]>>[1] # r
    OBVIOUS
  <2>3. Free(r, {<<a, tries[a]>>})
    BY <2>2 DEF Free, Grants
  <2>4. ASSUME NEW i \in Item PROVE Free(r, Grant(a)[i])
    <3>1. \/ Grant(a)[i] = store[i]
          \/ Grant(a)[i] = rules \cup {<<a, tries[a]>>}
          \/ Grant(a)[i] = Loaded(i) \cup {<<a, tries[a]>>}
          \/ Grant(a)[i] = store[i] \cup {<<a, tries[a]>>}
      BY DEF Grant
    <3> QED BY <1>1, <1>2, <2>3, <3>1, FreeParts
  <2> QED BY <2>1, <2>4 DEF Clean
<1> QED BY <1>5, <1>6, <1>7

(* A changed switch leaves no trace of an unanswered request.              *)
LEMMA FlipUntraced ==
  ASSUME IInv, Paths, Answered, Once, Untraced, Flip
  PROVE  Untraced'
<1> QED BY DEF Untraced, UntracedOf, Refusing, Unsettled, UnderOwn, Flip, files, worker

(* A completed setup writes no grant.                                      *)
LEMMA ParentResumeUntraced ==
  ASSUME IInv, Paths, Answered, Once, Untraced, ParentResume
  PROVE  Untraced'
<1> SUFFICES ASSUME "undo" \notin harmed', crashes' = 0, NEW r \in Requests PROVE UntracedOf(r)'
  BY DEF Untraced
<1>1. /\ store' = [store EXCEPT !["pctl"] = {Released}] /\ "undo" \notin harmed /\ crashes = 0
      /\ UNCHANGED <<result, owner, saved, next, actor, pc, cont>>
  BY DEF ParentResume, worker, history
<1>2. Free(r, {Released})
  BY FreeParts, Marks
<1>3. Clean(r, store) => Clean(r, store')
  BY <1>1, <1>2, RewrittenFree DEF IInv
<1> QED BY <1>1, <1>3 DEF Untraced, UntracedOf, Refusing, Unsettled, UnderOwn, Clean

(* A crash ends the claim.                                                 *)
LEMMA CrashUntraced ==
  ASSUME IInv, Paths, Answered, Once, Untraced, Crash
  PROVE  Untraced'
<1>1. crashes' # 0
  BY BoundsAssumption DEF Crash, IInv, HistoryOK
<1> QED BY <1>1 DEF Untraced

(* Start-up writes defaults.                                               *)
LEMMA BootUntraced ==
  ASSUME IInv, Paths, Answered, Once, Untraced, Boot
  PROVE  Untraced'
<1> SUFFICES ASSUME "undo" \notin harmed', crashes' = 0, NEW r \in Requests PROVE UntracedOf(r)'
  BY DEF Untraced
<1>1. /\ pc = "boot" /\ pc' \in {"requeue", "undo"} /\ owner = Nobody
      /\ "undo" \notin harmed /\ crashes = 0
      /\ UNCHANGED <<result, owner, saved, next, actor>>
  BY DEF Boot, Undo, Goto, history, Once
<1>2. \A i \in Item : store'[i] \in {store[i], {Base}}
  BY DEF Boot
<1>3. Clean(r, store) => Clean(r, store')
  BY <1>2, FreeParts, Marks DEF Clean
<1>4. ~UnderOwn(r)
  BY <1>1 DEF UnderOwn
<1> QED BY <1>1, <1>3, <1>4 DEF Untraced, UntracedOf, Refusing, Unsettled, Clean

(* The requeueing leaves no trace of an unanswered request.                *)
LEMMA RequeueUntraced ==
  ASSUME IInv, Paths, Answered, Once, Untraced, Requeue
  PROVE  Untraced'
<1> QED BY DEF Untraced, UntracedOf, Refusing, Unsettled, UnderOwn, Requeue, Goto, files, history

(* A restored item leaves no trace of an unanswered request.               *)
LEMMA UndoRestoreUntraced ==
  ASSUME IInv, Paths, Answered, Once, Untraced, UndoRestore
  PROVE  Untraced'
<1> QED BY DEF Untraced, UntracedOf, Refusing, Unsettled, UnderOwn, Clean, UndoRestore, Goto, UndoMove, Harm

(* An item that cannot be restored leaves no trace of an unanswered request.*)
LEMMA UndoDamagedUntraced ==
  ASSUME IInv, Paths, Answered, Once, Untraced, UndoDamaged
  PROVE  Untraced'
<1> QED BY DEF Untraced, UntracedOf, Refusing, Unsettled, UnderOwn, UndoDamaged, UndoMove, Harm

(* A rollback puts nothing back that its journal does not have.            *)
LEMMA UndoFaultUntraced ==
  ASSUME IInv, Paths, Answered, Once, Untraced, UndoFault
  PROVE  Untraced'
<1> SUFFICES ASSUME "undo" \notin harmed', crashes' = 0, NEW r \in Requests PROVE UntracedOf(r)'
  BY DEF Untraced
<1> DEFINE item == UndoOrder[at]
<1>1. /\ pc = "undo" /\ owner # Nobody /\ UndoMove(FALSE, FALSE)
      /\ \E content \in Torn(item, saved[item]) : store' = [store EXCEPT ![item] = content]
  BY DEF UndoFault
<1>2. /\ pc' \in {"undo", "flag"} /\ (pc' = "flag" => "undo" \in harmed')
      /\ UNCHANGED <<owner, saved, actor, next, cont>>
  BY <1>1, UndoMoveControl
<1>3. result' = result /\ crashes = 0 /\ "undo" \notin harmed
  BY <1>1 DEF UndoMove, Harm
<1>4. item \in Item
  BY <1>1, UndoOrderShape DEF IInv, Positions
<1>5. ASSUME Clean(r, store), Clean(r, saved) PROVE Clean(r, store')
  <2>1. Free(r, store[item]) /\ Free(r, saved[item])
    BY <1>4, <1>5 DEF Clean
  <2> HIDE DEF item
  <2> QED BY <1>1, <1>5, <2>1, RewrittenFree, TornFree DEF IInv
<1>6. UnderOwn(r)' <=> UnderOwn(r)
  BY <1>1, <1>2 DEF UnderOwn
<1> QED BY <1>1, <1>2, <1>3, <1>5, <1>6 DEF Untraced, UntracedOf, Refusing, Unsettled, Clean

(* A rollback without a journal leaves no trace of an unanswered request.  *)
LEMMA UndoNothingUntraced ==
  ASSUME IInv, Paths, Answered, Once, Untraced, UndoNothing
  PROVE  Untraced'
<1> QED BY DEF Untraced, UntracedOf, Refusing, Unsettled, UnderOwn, Answered, IInv, ControlOK, After, Return,
     UndoNothing, Goto, files, history

(* What a cleared journal leaves in the files is what it had, or answered. *)
LEMMA ClearLeaves ==
  ASSUME IInv, Paths, Answered, Untraced, "undo" \notin harmed, crashes = 0, NEW r \in Requests,
         pc = "clear", result[r] # "ok" \/ (actor = r /\ ~Committing)
  PROVE  Clean(r, store)
<1>1. UntracedOf(r)
  BY DEF Untraced
<1>2. CASE actor # r
  BY <1>1, <1>2 DEF UntracedOf, Refusing, Unsettled, UnderOwn
<1>3. CASE actor = r
  <2>1. owner # Nobody /\ Clean(r, saved)
    BY <1>1, <1>3 DEF UntracedOf, Refusing, Unsettled, UnderOwn, Paths, Undone
  <2>2. ~Committing
    BY <1>3, ActorsAssumption DEF Committing, Answered, Refusing, Paths, Undone
  <2> QED BY <2>1, <2>2 DEF Paths, Undone, Clean
<1> QED BY <1>2, <1>3

(* A journal that is cleared hands over to the files.                      *)
LEMMA ClearDoneUntraced ==
  ASSUME IInv, Paths, Answered, Once, Untraced, ClearDone
  PROVE  Untraced'
<1> SUFFICES ASSUME "undo" \notin harmed', crashes' = 0, NEW r \in Requests PROVE UntracedOf(r)'
  BY DEF Untraced
<1>1. /\ pc = "clear" /\ owner' = Nobody /\ "undo" \notin harmed /\ crashes = 0
      /\ pc' = IF cont = "boot" THEN "flag" ELSE After(cont)
      /\ UNCHANGED <<result, store, saved, next, actor, cont>>
  BY DEF ClearDone, Goto, history
<1>2. pc' \in {"idle", "retire", "sample", "fail", "report", "flag"}
  BY <1>1, ClearReturn
<1>3. result[r] # "ok" \/ (actor = r /\ ~Committing) => Clean(r, store)
  BY <1>1, ClearLeaves
<1>4. Unsettled(r)' => result[r] # "ok" \/ (actor = r /\ ~Committing)
  BY <1>1, <1>2 DEF Unsettled, Refusing, Committing, After
<1>5. ~UnderOwn(r)'
  BY <1>2 DEF UnderOwn
<1>6. owner' # Nobody /\ Unsettled(r)' => Clean(r, saved)
  BY <1>1, <1>4 DEF Untraced, UntracedOf, UnderOwn, Unsettled
<1> QED BY <1>1, <1>2, <1>3, <1>4, <1>5, <1>6 DEF UntracedOf, Refusing, Unsettled, UnderOwn, Clean

(* A journal that cannot be cleared stays what it was.                     *)
LEMMA ClearFaultUntraced ==
  ASSUME IInv, Paths, Answered, Once, Untraced, ClearFault
  PROVE  Untraced'
<1> SUFFICES ASSUME "undo" \notin harmed', crashes' = 0, NEW r \in Requests PROVE UntracedOf(r)'
  BY DEF Untraced
<1>1. /\ pc = "clear" /\ "undo" \notin harmed /\ crashes = 0
      /\ pc' = IF cont = "boot" THEN "flag" ELSE After(cont)
      /\ UNCHANGED <<result, store, owner, saved, next, actor, cont>>
  BY DEF ClearFault, Goto, Harm
<1>2. pc' \in {"idle", "retire", "sample", "fail", "report", "flag"}
  BY <1>1, ClearReturn
<1>3. result[r] # "ok" \/ (actor = r /\ ~Committing) => Clean(r, store)
  BY <1>1, ClearLeaves
<1>4. Unsettled(r)' => result[r] # "ok" \/ (actor = r /\ ~Committing)
  BY <1>1, <1>2 DEF Unsettled, Refusing, Committing, After
<1>5. ~UnderOwn(r)'
  BY <1>2 DEF UnderOwn
<1>6. owner' # Nobody /\ Unsettled(r)' => Clean(r, saved)
  BY <1>1, <1>4 DEF Untraced, UntracedOf, UnderOwn, Unsettled
<1> QED BY <1>1, <1>2, <1>3, <1>4, <1>5, <1>6 DEF Untraced, UntracedOf, Refusing, Unsettled, UnderOwn, Clean

(* The flag of a failed rollback leaves no trace of an unanswered request. *)
LEMMA FlagUntraced ==
  ASSUME IInv, Paths, Answered, Once, Untraced, Flag
  PROVE  Untraced'
<1> SUFFICES ASSUME "undo" \notin harmed', crashes' = 0, NEW r \in Requests PROVE UntracedOf(r)'
  BY DEF Untraced
<1>1. /\ pc = "flag" /\ "undo" \notin harmed /\ crashes = 0
      /\ pc' \notin {"body", "undo", "clear", "begin", "compact", "open"}
      /\ UNCHANGED <<result, store, owner, saved, next, actor>>
  BY DEF Flag, Goto, After, IInv, ControlOK, Return
<1>5. actor = r /\ result[r] = "ok" => Refusing
  BY <1>1 DEF Answered
<1>2. Unsettled(r)' => Unsettled(r)
  BY <1>1, <1>5 DEF Unsettled
<1>3. ~UnderOwn(r) /\ ~UnderOwn(r)'
  BY <1>1 DEF UnderOwn
<1>4. UntracedOf(r)
  BY <1>1 DEF Untraced
<1> QED BY <1>1, <1>2, <1>3, <1>4 DEF UntracedOf, Clean

(* The recovery at the gate leaves no trace of an unanswered request.      *)
LEMMA GateUntraced ==
  ASSUME IInv, Paths, Answered, Once, Untraced, Gate
  PROVE  Untraced'
<1> QED BY DEF Untraced, UntracedOf, Refusing, Unsettled, UnderOwn, Answered, Gate, Goto, Undo, files, history

(* A usage sample writes no grant.                                         *)
LEMMA SampleUntraced ==
  ASSUME IInv, Paths, Answered, Once, Untraced, Sample
  PROVE  Untraced'
<1> SUFFICES ASSUME "undo" \notin harmed', crashes' = 0, NEW r \in Requests PROVE UntracedOf(r)'
  BY DEF Untraced
<1>1. /\ pc = "sample" /\ pc' \in {"admit", "flag", "fail"} /\ "undo" \notin harmed /\ crashes = 0
      /\ UNCHANGED <<result, owner, saved, next, actor>>
  BY DEF Sample, Goto, Harm
<1>2. \/ store' = [store EXCEPT !["state"] = state]
      \/ \E content \in Torn("state", state) : store' = [store EXCEPT !["state"] = content]
  BY DEF Sample
<1>3. ASSUME Clean(r, store) PROVE Clean(r, store')
  <2>1. Free(r, store["state"]) /\ Free(r, state)
    BY <1>3, FreeParts DEF Clean, Item, state
  <2> QED BY <1>2, <1>3, <2>1, RewrittenFree, TornFree DEF IInv
<1>4. ~UnderOwn(r) /\ ~UnderOwn(r)'
  BY <1>1 DEF UnderOwn
<1>9. actor = r => result[r] # "ok"
  BY <1>1 DEF Answered, Refusing
<1> QED BY <1>9, <1>1, <1>3, <1>4 DEF Untraced, UntracedOf, Unsettled, Clean

(* What is decided is the actor's own.                                     *)
LEMMA AdmitUntraced ==
  ASSUME IInv, Paths, Answered, Once, Untraced, Admit
  PROVE  Untraced'
<1> SUFFICES ASSUME "undo" \notin harmed', crashes' = 0, NEW r \in Requests PROVE UntracedOf(r)'
  BY DEF Untraced
<1>1. /\ pc = "admit" /\ pc' \in {"begin", "idle", "fail"} /\ "undo" \notin harmed /\ crashes = 0
      /\ pc' = "begin" => next' = Plan(actor)
      /\ UNCHANGED <<result, store, owner, saved, actor>>
  BY DEF Admit, Goto, files, history
<1>2. actor # r /\ Clean(r, store) => Clean(r, Plan(actor))
  BY PlanFree DEF IInv, ControlOK
<1>3. ~UnderOwn(r) /\ ~UnderOwn(r)'
  BY <1>1 DEF UnderOwn
<1>9. actor = r => result[r] # "ok"
  BY <1>1 DEF Answered, Refusing
<1> QED BY <1>9, <1>1, <1>2, <1>3 DEF Untraced, UntracedOf, Unsettled, Clean

(* The start of a body leaves no trace of an unanswered request.           *)
LEMMA BeginUntraced ==
  ASSUME IInv, Paths, Answered, Once, Untraced, Begin
  PROVE  Untraced'
<1> QED BY DEF Untraced, UntracedOf, Refusing, Unsettled, UnderOwn, Answered, Begin, Harm, files

(* Compacting the ledger enters nothing.                                   *)
LEMMA CompactUntraced ==
  ASSUME IInv, Paths, Answered, Once, Untraced, Compact
  PROVE  Untraced'
<1> SUFFICES ASSUME "undo" \notin harmed', crashes' = 0, NEW r \in Requests PROVE UntracedOf(r)'
  BY DEF Untraced
<1>1. /\ pc = "compact" /\ pc' \in {"open", "fail", "undo", "idle"}
      /\ "undo" \notin harmed /\ crashes = 0
      /\ owner = Nobody /\ (pc' = "undo" => actor = Enforcer)
      /\ UNCHANGED <<result, owner, saved, actor>>
  BY DEF Compact, BeginRefused, DockEntry, Undo, Goto, Harm, Paths, Taken
<1>2. \/ store' = [store EXCEPT !["ledger"] = store["ledger"] \ {Old}]
      \/ \E content \in Torn("ledger", {}) : store' = [store EXCEPT !["ledger"] = content]
  BY DEF Compact
<1>3. ASSUME Clean(r, store) PROVE Clean(r, store')
  <2>1. Free(r, store["ledger"]) /\ Free(r, {}) /\ Free(r, store["ledger"] \ {Old})
    BY <1>3, FreeParts DEF Clean, Item
  <2> QED BY <1>2, <1>3, <2>1, RewrittenFree, TornFree DEF IInv
<1>4. ASSUME Clean(r, next), pc' = "open" PROVE Clean(r, next')
  <2>1. next' = [next EXCEPT !["ledger"] = next["ledger"] \ {Old}]
    BY <1>4 DEF Compact, BeginRefused, Undo, Goto
  <2>2. \A i \in Item : next'[i] \in {next[i], next[i] \ {Old}}
    BY <2>1 DEF IInv, FilesOK, Contents
  <2>3. ASSUME NEW i \in Item PROVE Free(r, next'[i])
    <3>1. Free(r, next[i]) /\ Free(r, next[i] \ {Old})
      BY <1>4, FreeParts DEF Clean
    <3> QED BY <2>2, <3>1
  <2> QED BY <2>3 DEF Clean
<1>5. ~UnderOwn(r) /\ ~UnderOwn(r)'
  BY <1>1, ActorsAssumption DEF UnderOwn
<1>9. actor = r => result[r] # "ok"
  BY <1>1 DEF Answered, Refusing
<1> QED BY <1>9, <1>1, <1>3, <1>4, <1>5 DEF Untraced, UntracedOf, Unsettled, Clean

(* The opening of a journal leaves no trace of an unanswered request.      *)
LEMMA OpenUntraced ==
  ASSUME IInv, Paths, Answered, Once, Untraced, Open
  PROVE  Untraced'
<1> QED BY DEF Untraced, UntracedOf, Refusing, Unsettled, UnderOwn, Answered, Open

(* A body writes what it has decided.                                      *)
LEMMA BodyWriteUntraced ==
  ASSUME IInv, Paths, Answered, Once, Untraced, BodyWrite
  PROVE  Untraced'
<1> SUFFICES ASSUME "undo" \notin harmed', crashes' = 0, NEW r \in Requests PROVE UntracedOf(r)'
  BY DEF Untraced
<1> DEFINE item == Written(Step)
<1>1. /\ pc = "body" /\ item \in Item /\ "undo" \notin harmed /\ crashes = 0
      /\ UNCHANGED <<owner, saved, next, actor>>
      /\ Advance \/ Abort("fail")
      /\ \E content \in Torn(item, Content(Step)) \cup {Content(Step)} :
           store' = [store EXCEPT ![item] = content]
  BY DEF BodyWrite, Withdraw, Harm
<1>2. pc' \in {"body", "idle", "clear", "undo"} /\ (pc' = "idle" => actor = Enforcer)
  BY <1>1 DEF Advance, Finish, Clear, Abort, Undo, Goto
<1>3. ASSUME Clean(r, store), Clean(r, next) PROVE Clean(r, store')
  <2>1. Free(r, store[item]) /\ Free(r, next[item]) /\ Free(r, state)
    BY <1>1, <1>3, FreeParts DEF Clean, Item, state
  <2>2. Content(Step) = next[item] \/ Content(Step) = state \cup {Waived}
    BY DEF Content, Written
  <2>3. Free(r, Content(Step))
    <3>1. Free(r, {Waived})
      BY FreeParts, Marks
    <3>2. Free(r, state \cup {Waived})
      BY <2>1, <3>1, FreeParts
    <3> QED BY <2>1, <2>2, <3>2
  <2> HIDE DEF item
  <2>4. PICK content \in Torn(item, Content(Step)) \cup {Content(Step)} :
               store' = [store EXCEPT ![item] = content]
    BY <1>1
  <2>5. Free(r, content)
    BY <2>1, <2>3, TornFree
  <2> QED BY <1>3, <2>4, <2>5, RewrittenFree DEF IInv
<1>4. (UnderOwn(r) <=> actor = r) /\ (UnderOwn(r)' <=> actor = r)
  BY <1>1, <1>2, ActorsAssumption DEF UnderOwn
<1>5. actor # r => result'[r] = result[r]
  BY DEF BodyWrite, Withdraw, IInv, FilesOK, Harm
<1> QED BY <1>1, <1>3, <1>4, <1>5 DEF Untraced, UntracedOf, Refusing, Unsettled, Clean

(* The read-back is of no request.                                         *)
LEMMA BodyObserveUntraced ==
  ASSUME IInv, Paths, Answered, Once, Untraced, BodyObserve
  PROVE  Untraced'
<1> SUFFICES ASSUME "undo" \notin harmed', crashes' = 0, NEW r \in Requests PROVE UntracedOf(r)'
  BY DEF Untraced
<1>1. /\ pc = "body" /\ "undo" \notin harmed /\ crashes = 0
      /\ UNCHANGED <<result, owner, store, saved, actor>>
      /\ Advance \/ Abort("fail")
      /\ \E content \in {next["state"], next["state"] \ {Pending}, next["state"] \cup {Pending}} :
           next' = [next EXCEPT !["state"] = content]
  BY DEF BodyObserve, files, IInv, FilesOK, Contents
<1>2. pc' \in {"body", "idle", "clear", "undo"} /\ (pc' = "idle" => actor = Enforcer)
  BY <1>1 DEF Advance, Finish, Clear, Abort, Undo, Goto
<1>3. ASSUME Clean(r, next) PROVE Clean(r, next')
  <2>1. \A i \in Item : next'[i] \in {next[i], next[i] \ {Pending}, next[i] \cup {Pending}}
    BY <1>1 DEF IInv, FilesOK, Contents
  <2>2. Free(r, {Pending})
    BY FreeParts, Marks
  <2>3. ASSUME NEW i \in Item PROVE Free(r, next'[i])
    <3>1. Free(r, next[i]) /\ Free(r, next[i] \ {Pending}) /\ Free(r, next[i] \cup {Pending})
      BY <1>3, <2>2, FreeParts DEF Clean
    <3> QED BY <2>1, <3>1
  <2> QED BY <2>3 DEF Clean
<1>4. (UnderOwn(r) <=> actor = r) /\ (UnderOwn(r)' <=> actor = r)
  BY <1>1, <1>2, ActorsAssumption DEF UnderOwn
<1> QED BY <1>1, <1>3, <1>4 DEF Untraced, UntracedOf, Refusing, Unsettled, Clean

(* A written answer leaves no trace of an unanswered request.              *)
LEMMA BodyResultUntraced ==
  ASSUME IInv, Paths, Answered, Once, Untraced, BodyResult
  PROVE  Untraced'
<1> SUFFICES ASSUME "undo" \notin harmed', crashes' = 0, NEW r \in Requests PROVE UntracedOf(r)'
  BY DEF Untraced
<1>1. /\ pc = "body" /\ "undo" \notin harmed /\ crashes = 0
      /\ pc' \in {"body", "idle", "clear", "undo"} /\ (pc' = "idle" => actor = Enforcer)
      /\ UNCHANGED <<store, owner, saved, next, actor>>
  BY DEF BodyResult, Advance, Finish, Clear, Abort, Undo, Goto, files
<1>2. actor # r => result'[r] = result[r]
  BY DEF BodyResult, IInv, FilesOK
<1>3. (UnderOwn(r) <=> actor = r) /\ (UnderOwn(r)' <=> actor = r)
  BY <1>1, ActorsAssumption DEF UnderOwn
<1>4. actor # r => (Unsettled(r)' <=> result[r] # "ok") /\ (Unsettled(r) <=> result[r] # "ok")
  BY <1>1, <1>2 DEF Unsettled
<1>5. UntracedOf(r)
  BY <1>1 DEF Untraced
<1> QED BY <1>1, <1>2, <1>3, <1>4, <1>5 DEF UntracedOf, Clean

(* A refusal leaves no trace of an unanswered request.                     *)
LEMMA FailUntraced ==
  ASSUME IInv, Paths, Answered, Once, Untraced, Fail
  PROVE  Untraced'
<1> QED BY DEF Untraced, UntracedOf, Refusing, Unsettled, UnderOwn, Answered, Fail, Goto, Undo, files, history

(* A reported rollback leaves no trace of an unanswered request.           *)
LEMMA ReportUntraced ==
  ASSUME IInv, Paths, Answered, Once, Untraced, Report
  PROVE  Untraced'
<1> QED BY DEF Untraced, UntracedOf, Refusing, Unsettled, UnderOwn, Answered, IInv, FilesOK, Report, Goto, files

(* The archiving leaves no trace of an unanswered request.                 *)
LEMMA RetireUntraced ==
  ASSUME IInv, Paths, Answered, Once, Untraced, Retire
  PROVE  Untraced'
<1> QED BY DEF Untraced, UntracedOf, Refusing, Unsettled, UnderOwn, Retire, Goto, files

(* A tick leaves no trace of an unanswered request.                        *)
LEMMA TickUntraced ==
  ASSUME IInv, Paths, Answered, Once, Untraced, Tick
  PROVE  Untraced'
<1> QED BY DEF Untraced, UntracedOf, Refusing, Unsettled, UnderOwn, Tick, Goto, files, history

(* A confirmation writes no grant.                                         *)
LEMMA TickConfirmUntraced ==
  ASSUME IInv, Paths, Answered, Once, Untraced, TickConfirm
  PROVE  Untraced'
<1> SUFFICES ASSUME "undo" \notin harmed', crashes' = 0, NEW r \in Requests PROVE UntracedOf(r)'
  BY DEF Untraced
<1>1. /\ pc = "idle" /\ owner = Enforcer /\ actor' = Enforcer /\ "undo" \notin harmed /\ crashes = 0
      /\ pc' \in {"clear", "flag"}
      /\ UNCHANGED <<result, owner, saved, next>>
  BY DEF TickConfirm, TickPending, Clear, Goto
<1>2. \/ store' = [store EXCEPT !["state"] = store["state"] \ {Pending}]
      \/ \E content \in Torn("state", {}) : store' = [store EXCEPT !["state"] = content]
  BY DEF TickConfirm
<1>3. ASSUME Clean(r, store) PROVE Clean(r, store')
  <2>1. Free(r, store["state"]) /\ Free(r, {}) /\ Free(r, store["state"] \ {Pending})
    BY <1>3, FreeParts DEF Clean, Item
  <2> QED BY <1>2, <1>3, <2>1, RewrittenFree, TornFree DEF IInv
<1>4. ~UnderOwn(r) /\ ~UnderOwn(r)'
  BY <1>1, ActorsAssumption DEF UnderOwn
<1>5. actor' # r
  BY <1>1, ActorsAssumption
<1> QED BY <1>1, <1>3, <1>4, <1>5 DEF Untraced, UntracedOf, Refusing, Unsettled, Clean

(* A timeout leaves no trace of an unanswered request.                     *)
LEMMA TickTimeoutUntraced ==
  ASSUME IInv, Paths, Answered, Once, Untraced, TickTimeout
  PROVE  Untraced'
<1> QED BY ActorsAssumption DEF Untraced, UntracedOf, Refusing, Unsettled, UnderOwn, TickPending, TickTimeout, Goto,
     Undo, files, history

(* A new request leaves no trace of an unanswered request.                 *)
LEMMA SubmitUntraced ==
  ASSUME IInv, Paths, Answered, Once, Untraced, NEW r \in Requests, Submit(r)
  PROVE  Untraced'
<1> QED BY DEF Untraced, UntracedOf, Refusing, Unsettled, UnderOwn, Submit, files, worker, history

(* A taken request leaves no trace of an unanswered request.               *)
LEMMA TakeUntraced ==
  ASSUME IInv, Paths, Answered, Once, Untraced, NEW r \in Requests, Take(r)
  PROVE  Untraced'
<1> QED BY DEF Untraced, UntracedOf, Refusing, Unsettled, UnderOwn, Take, Goto, files, history

(* The mark of a waived day is none of the others.                         *)
LEMMA Different == Waived \notin {Base, Old, Blocked, Released, Enforced, Pending}
BY DEF Base, Old, Blocked, Released, Enforced, Pending, Waived

(* A state that is missing is read without a waiver.                       *)
LEMMA WaivedLoaded == Waived \in state <=> Waived \in store["state"]
BY Different DEF state, Loaded

(* No handler decides to take a waiver away, and a waiver decides one.     *)
LEMMA PlanWaives ==
  ASSUME FilesOK, NEW a \in Actor
  PROVE  /\ Keeps(store, Plan(a))
         /\ a \in Requests /\ Kind[a] = "waive" => Waived \in Plan(a)["state"]
<1>1. CASE a = Enforcer
  <2>1. Plan(a) = Enforce /\ a \notin Requests
    BY <1>1, ActorsAssumption DEF Plan
  <2>2. Enforce["state"] = IF DockBlocks THEN state \cup {Enforced} ELSE state \ {Enforced}
    BY DEF Enforce, FilesOK, Contents, Item
  <2> QED BY <2>1, <2>2, WaivedLoaded, Different DEF Keeps
<1>2. CASE a # Enforcer /\ Kind[a] = "waive"
  <2>1. Plan(a) = Waive
    BY <1>2 DEF Plan
  <2>2. Waive["state"] = (state \cup {Waived}) \ {Enforced, Pending}
    BY DEF Waive, FilesOK, Contents, Item
  <2> QED BY <2>1, <2>2, Different DEF Keeps
<1>3. CASE a # Enforcer /\ Kind[a] # "waive"
  <2>1. Plan(a) = Grant(a)
    BY <1>3 DEF Plan
  <2>2. Grant(a)["state"] = Loaded("state") \cup {<<a, tries[a]>>}
    BY DEF Grant, Item
  <2> QED BY <1>3, <2>1, <2>2, WaivedLoaded DEF Keeps, state
<1> QED BY <1>1, <1>2, <1>3

(* At its answer a waiver has written its state.                           *)
LEMMA AnswerStated ==
  ASSUME IInv, pc = "body", actor \in Requests, Kind[actor] = "waive",
         Step = "result" \/ at = Len(Body(actor))
  PROVE  Stated
<1>1. PICK n \in 1 .. Len(Body(actor)) :
           /\ \A k \in 1 .. Len(Body(actor)) : Body(actor)[k] = "result" <=> k = n
           /\ \E k \in 1 .. n - 1 : Body(actor)[k] = "state"
  BY Answering
<1>2. at \in 1 .. Len(Body(actor)) /\ Len(Body(actor)) \in 3 .. 7
  BY BodyShape DEF IInv, Positions, ControlOK
<1>3. n <= at
  BY <1>1, <1>2 DEF Step
<1>4. 1 .. n - 1 \subseteq 1 .. at - 1
  BY <1>1, <1>2, <1>3
<1> QED BY <1>1, <1>4 DEF Stated

(* A body that goes on keeps the waiver, and has it once it is stated.     *)
LEMMA AdvanceWaiver ==
  ASSUME IInv, Paths, WaiverKept, pc = "body", Advance, UNCHANGED <<owner, saved, actor>>,
         Intact' => Intact,
         Keeps(next, next'),
         Waived \in store["state"] /\ Waived \in next["state"] => Waived \in store'["state"],
         Step = "state" => store'["state"] = next["state"]
  PROVE  WaiverKept'
<1>1. at \in 1 .. Len(Body(actor)) /\ Len(Body(actor)) \in 3 .. 7
  BY BodyShape DEF IInv, Positions, ControlOK
<1>2. \/ pc' = "body" /\ at' = at + 1
      \/ pc' = "idle" /\ actor = Enforcer
      \/ pc' = "clear" /\ cont' = "commit" /\ at = Len(Body(actor))
  BY DEF Advance, Finish, Clear, Goto
<1>3. Intact => Keeps(saved, store') /\ Keeps(saved, next')
  BY DEF WaiverKept, Keeps
<1>4. ASSUME actor \in Requests, Kind[actor] = "waive"
      PROVE  /\ Waived \in next'["state"]
             /\ pc' = "body" /\ Stated' => Waived \in store'["state"]
             /\ pc' = "clear" => Waived \in store'["state"]
  <2>1. Waived \in next["state"] /\ (Stated => Waived \in store["state"])
    BY <1>4 DEF WaiverKept
  <2>2. pc' = "body" /\ Stated' => Stated \/ Step = "state"
    BY <1>1, <1>2, ActorsAssumption, <1>4 DEF Stated, Step
  <2>3. pc' = "clear" => Stated
    BY <1>2, <1>4, AnswerStated, ActorsAssumption
  <2> QED BY <2>1, <2>2, <2>3 DEF Keeps
<1> QED BY <1>2, <1>3, <1>4, ActorsAssumption DEF WaiverKept, Keeps

(* A body given up is for the rollback to settle.                          *)
LEMMA AbortWaiver ==
  ASSUME pc' = "undo" PROVE WaiverKept'
BY DEF WaiverKept

(* A changed switch keeps a waiver in place.                               *)
LEMMA FlipWaiver ==
  ASSUME IInv, Paths, WaiverKept, Flip
  PROVE  WaiverKept'
<1> QED BY DEF WaiverKept, Intact, Flip, files, worker

(* A setup completed again keeps a waiver in place.                        *)
LEMMA ParentResumeWaiver ==
  ASSUME IInv, Paths, WaiverKept, ParentResume
  PROVE  WaiverKept'
<1> QED BY DEF WaiverKept, Keeps, Intact, ParentResume, worker, history

(* A crash keeps a waiver in place.                                        *)
LEMMA CrashWaiver ==
  ASSUME IInv, Paths, WaiverKept, Crash
  PROVE  WaiverKept'
<1> QED BY DEF WaiverKept, Crash, Goto

(* Start-up keeps a waiver in place.                                       *)
LEMMA BootWaiver ==
  ASSUME IInv, Paths, WaiverKept, Boot
  PROVE  WaiverKept'
<1> QED BY ActorsAssumption DEF WaiverKept, Boot, Goto, Undo

(* The requeueing keeps a waiver in place.                                 *)
LEMMA RequeueWaiver ==
  ASSUME IInv, Paths, WaiverKept, Requeue
  PROVE  WaiverKept'
<1> QED BY DEF WaiverKept, Intact, Requeue, Goto, files, history

(* A rollback that has restored all has restored the waiver.               *)
LEMMA UndoRestoreWaiver ==
  ASSUME IInv, Paths, WaiverKept, UndoRestore
  PROVE  WaiverKept'
<1>1. /\ pc = "undo" /\ UndoMove(undoOk, FALSE) /\ undoOk \in BOOLEAN /\ ~Committing
  BY DEF UndoRestore, IInv, SwitchesOK, Paths, Undone
<1>2. /\ pc' \in {"undo", "clear", "flag"} /\ (pc' = "flag" => "undo" \in harmed')
      /\ UNCHANGED <<owner, saved, actor, cont>>
  BY <1>1, UndoMoveControl
<1>3. pc' = "clear" => store'["state"] = saved'["state"]
  BY <1>1, <1>2, UndoRestoreKeepsPaths DEF Paths, Undone, Committing, Item
<1>4. pc' = "flag" => ~Intact'
  BY <1>2 DEF Intact
<1> QED BY <1>1, <1>2, <1>3, <1>4 DEF WaiverKept, Keeps, Committing

(* An item that cannot be restored keeps a waiver in place.                *)
LEMMA UndoDamagedWaiver ==
  ASSUME IInv, Paths, WaiverKept, UndoDamaged
  PROVE  WaiverKept'
<1> QED BY DEF WaiverKept, Stated, Keeps, Intact, UndoDamaged, Goto, UndoMove, Harm

(* A failed restoration keeps a waiver in place.                           *)
LEMMA UndoFaultWaiver ==
  ASSUME IInv, Paths, WaiverKept, UndoFault
  PROVE  WaiverKept'
<1> QED BY DEF WaiverKept, Stated, Keeps, Intact, UndoFault, Goto, UndoMove, Harm

(* A rollback without a journal keeps a waiver in place.                   *)
LEMMA UndoNothingWaiver ==
  ASSUME IInv, Paths, WaiverKept, UndoNothing
  PROVE  WaiverKept'
<1> QED BY ActorsAssumption DEF WaiverKept, IInv, ControlOK, After, Return, UndoNothing, Goto, files

(* A cleared journal keeps a waiver in place.                              *)
LEMMA ClearDoneWaiver ==
  ASSUME IInv, Paths, WaiverKept, ClearDone
  PROVE  WaiverKept'
<1> QED BY DEF WaiverKept, Intact, IInv, ControlOK, After, Return, ClearDone, Goto, history

(* A failed clearing keeps a waiver in place.                              *)
LEMMA ClearFaultWaiver ==
  ASSUME IInv, Paths, WaiverKept, ClearFault
  PROVE  WaiverKept'
<1> QED BY DEF WaiverKept, Intact, IInv, ControlOK, After, Return, ClearFault, Goto, Harm

(* The flag of a failed rollback keeps a waiver in place.                  *)
LEMMA FlagWaiver ==
  ASSUME IInv, Paths, WaiverKept, Flag
  PROVE  WaiverKept'
<1> QED BY DEF WaiverKept, Intact, IInv, ControlOK, After, Return, Flag, Goto

(* The recovery at the gate keeps a waiver in place.                       *)
LEMMA GateWaiver ==
  ASSUME IInv, Paths, WaiverKept, Gate
  PROVE  WaiverKept'
<1> QED BY DEF WaiverKept, Intact, Gate, Goto, Undo, files, history

(* A usage sample keeps the marks, or loses them all.                      *)
LEMMA SampleWaiver ==
  ASSUME IInv, Paths, WaiverKept, Sample
  PROVE  WaiverKept'
<1>1. /\ pc = "sample" /\ pc' \in {"admit", "flag", "fail"} /\ (Intact' => Intact)
      /\ UNCHANGED <<owner, saved, actor>>
  BY DEF Sample, Goto, Harm, Intact
<1>2. \/ store' = [store EXCEPT !["state"] = state]
      \/ \E content \in Torn("state", state) : store' = [store EXCEPT !["state"] = content]
  BY DEF Sample
<1>3. \A content \in Torn("state", state) : content \in {store["state"], {}}
  BY <1>1, TornGrants
<1>4. "state" \in Item /\ store \in [Item -> SUBSET Fact]
  BY DEF IInv, FilesOK, Contents, Item
<1>5. store'["state"] \in {store["state"], {}, state}
  BY <1>2, <1>3, <1>4
<1>6. Pending \in store'["state"] =>
        Pending \in store["state"] /\ (Waived \in store'["state"] <=> Waived \in store["state"])
  <2>1. Pending \in state => state = store["state"]
    BY DEF state, Loaded, Pending, Base
  <2> QED BY <1>5, <2>1
<1> QED BY <1>1, <1>6 DEF WaiverKept, Keeps

(* What is decided keeps the waiver.                                       *)
LEMMA AdmitWaiver ==
  ASSUME IInv, Paths, WaiverKept, Admit
  PROVE  WaiverKept'
<1>1. /\ pc = "admit" /\ pc' \in {"begin", "idle", "fail"} /\ (Intact' <=> Intact)
      /\ pc' = "begin" => next' = Plan(actor)
      /\ UNCHANGED <<store, owner, saved, actor>>
  BY DEF Admit, Goto, files, history, Intact
<1>2. /\ Keeps(store, Plan(actor))
      /\ actor \in Requests /\ Kind[actor] = "waive" => Waived \in Plan(actor)["state"]
  BY PlanWaives DEF IInv, ControlOK
<1> QED BY <1>1, <1>2 DEF WaiverKept, Keeps

(* A journal that is joined has not lost the waiver.                       *)
LEMMA BeginWaiver ==
  ASSUME IInv, Paths, WaiverKept, Begin
  PROVE  WaiverKept'
<1>1. /\ pc = "begin" /\ pc' \in {"compact", "body", "fail", "undo", "idle"}
      /\ pc' = "body" => owner = actor /\ StartBody
      /\ UNCHANGED <<store, owner, saved, actor, next>>
      /\ Intact' => Intact
      /\ Intact' /\ pc' = "body" => ~Drifted
  BY DEF Begin, BeginRefused, StartBody, Undo, Goto, files, Harm, Intact
<1>2. ~Drifted => Keeps(saved, store)
  BY Different DEF Drifted, Keeps, Item
<1>3. Keeps(store, next)
  BY <1>1 DEF WaiverKept
<1>4. pc' = "body" /\ actor \in Requests => ~Stated'
  <2>1. pc' = "body" /\ actor \in Requests => at' = 1
    BY <1>1, ActorsAssumption DEF StartBody
  <2> QED BY <2>1 DEF Stated
<1> QED BY <1>1, <1>2, <1>3, <1>4 DEF WaiverKept, Keeps

(* A compaction keeps a waiver in place.                                   *)
LEMMA CompactWaiver ==
  ASSUME IInv, Paths, WaiverKept, Compact
  PROVE  WaiverKept'
<1> QED BY DEF WaiverKept, Keeps, Intact, IInv, FilesOK, Contents, Item, Compact, Goto, Undo, Harm,
     BeginRefused

(* The opening of a journal keeps a waiver in place.                       *)
LEMMA OpenWaiver ==
  ASSUME IInv, Paths, WaiverKept, Open
  PROVE  WaiverKept'
<1> QED BY ActorsAssumption DEF WaiverKept, Stated, Keeps, Paths, Taken, Open, Goto, Undo,
     BeginRefused, StartBody

(* A body keeps the waiver in what it writes.                              *)
LEMMA BodyWriteWaiver ==
  ASSUME IInv, Paths, WaiverKept, BodyWrite
  PROVE  WaiverKept'
<1>1. CASE Abort("fail")
  BY <1>1, AbortWaiver DEF Abort, Undo, Goto
<1>2. CASE ~Abort("fail")
  <2>1. /\ pc = "body" /\ Written(Step) \in Item /\ Advance
        /\ store' = [store EXCEPT ![Written(Step)] = Content(Step)]
        /\ UNCHANGED <<owner, saved, actor, next, harmed>>
    BY <1>2 DEF BodyWrite
  <2>2. store'["state"] = IF Written(Step) = "state" THEN Content(Step) ELSE store["state"]
    BY <2>1 DEF IInv, FilesOK, Contents, Item
  <2>3. Written(Step) = "state" =>
          Content(Step) = next["state"] \/ Content(Step) = state \cup {Waived}
    BY DEF Written, Content
  <2>4. Step = "state" => Written(Step) = "state" /\ Content(Step) = next["state"]
    BY DEF Written, Content
  <2>5. Intact' => Intact
    BY <2>1 DEF Intact
  <2>6. Waived \in store["state"] /\ Waived \in next["state"] => Waived \in store'["state"]
    BY <2>2, <2>3
  <2>7. Step = "state" => store'["state"] = next["state"]
    BY <2>2, <2>4
  <2>8. Keeps(next, next')
    BY <2>1 DEF Keeps
  <2> QED BY <2>1, <2>5, <2>6, <2>7, <2>8, AdvanceWaiver
<1> QED BY <1>1, <1>2

(* The read-back leaves the waiver.                                        *)
LEMMA BodyObserveWaiver ==
  ASSUME IInv, Paths, WaiverKept, BodyObserve
  PROVE  WaiverKept'
<1>1. CASE Abort("fail")
  BY <1>1, AbortWaiver DEF Abort, Undo, Goto
<1>2. CASE ~Abort("fail")
  <2>1. /\ pc = "body" /\ Step = "observe" /\ Advance
        /\ UNCHANGED <<owner, store, saved, actor, harmed>>
    BY <1>2 DEF BodyObserve, files
  <2>2. PICK content : /\ content \in {next["state"] \ {Pending}, next["state"] \cup {Pending}}
                       /\ next' = [next EXCEPT !["state"] = content]
    BY <1>2 DEF BodyObserve
  <2>3. next'["state"] = content
    BY <2>2 DEF IInv, FilesOK, Contents, Item
  <2>4. Keeps(next, next')
    BY <2>2, <2>3, Different DEF Keeps
  <2>5. Intact' => Intact
    BY <2>1 DEF Intact
  <2> QED BY <2>1, <2>4, <2>5, AdvanceWaiver
<1> QED BY <1>1, <1>2

(* The answer leaves the waiver.                                           *)
LEMMA BodyResultWaiver ==
  ASSUME IInv, Paths, WaiverKept, BodyResult
  PROVE  WaiverKept'
<1>1. CASE Abort("silent")
  BY <1>1, AbortWaiver DEF Abort, Undo, Goto
<1>2. CASE ~Abort("silent")
  <2>1. /\ pc = "body" /\ Step = "result" /\ Advance
        /\ UNCHANGED <<owner, store, saved, actor, next, harmed>>
    BY <1>2 DEF BodyResult, files
  <2>2. Keeps(next, next') /\ (Intact' => Intact)
    BY <2>1 DEF Keeps, Intact
  <2> QED BY <2>1, <2>2, AdvanceWaiver
<1> QED BY <1>1, <1>2

(* A refusal keeps a waiver in place.                                      *)
LEMMA FailWaiver ==
  ASSUME IInv, Paths, WaiverKept, Fail
  PROVE  WaiverKept'
<1> QED BY DEF WaiverKept, Intact, Fail, Goto, Undo, files, history

(* A reported rollback keeps a waiver in place.                            *)
LEMMA ReportWaiver ==
  ASSUME IInv, Paths, WaiverKept, Report
  PROVE  WaiverKept'
<1> QED BY DEF WaiverKept, Intact, Report, Goto, files

(* The archiving keeps a waiver in place.                                  *)
LEMMA RetireWaiver ==
  ASSUME IInv, Paths, WaiverKept, Retire
  PROVE  WaiverKept'
<1> QED BY DEF WaiverKept, Intact, Retire, Goto, files

(* A tick keeps a waiver in place.                                         *)
LEMMA TickWaiver ==
  ASSUME IInv, Paths, WaiverKept, Tick
  PROVE  WaiverKept'
<1> QED BY DEF WaiverKept, Tick, Goto, files

(* A confirmation leaves the waiver.                                       *)
LEMMA TickConfirmWaiver ==
  ASSUME IInv, Paths, WaiverKept, TickConfirm
  PROVE  WaiverKept'
<1>1. /\ pc = "idle" /\ owner = Enforcer /\ actor' = Enforcer /\ Pending \in store["state"]
      /\ pc' \in {"clear", "flag"} /\ UNCHANGED <<owner, saved, harmed>>
  BY DEF TickConfirm, TickPending, Clear, Goto
<1>2. \/ pc' = "clear" /\ store' = [store EXCEPT !["state"] = store["state"] \ {Pending}]
      \/ /\ pc' = "flag"
         /\ \E content \in Torn("state", {}) : store' = [store EXCEPT !["state"] = content]
  BY DEF TickConfirm, Clear, Goto
<1>3. \A content \in Torn("state", {}) : content \in {store["state"], {}}
  BY TornGrants
<1>4. "state" \in Item /\ store \in [Item -> SUBSET Fact]
  BY DEF IInv, FilesOK, Contents, Item
<1>5. pc' = "clear" => store'["state"] = store["state"] \ {Pending}
  BY <1>2, <1>4
<1>6. pc' = "flag" => store'["state"] \in {store["state"], {}}
  BY <1>2, <1>3, <1>4
<1>7. Intact' <=> Intact
  BY <1>1 DEF Intact
<1>8. Intact => Keeps(saved, store)
  BY <1>1 DEF WaiverKept
<1> QED BY <1>1, <1>5, <1>6, <1>7, <1>8, Different, ActorsAssumption DEF WaiverKept, Keeps

(* A timeout keeps a waiver in place.                                      *)
LEMMA TickTimeoutWaiver ==
  ASSUME IInv, Paths, WaiverKept, TickTimeout
  PROVE  WaiverKept'
<1> QED BY DEF WaiverKept, TickTimeout, Goto, Undo

(* A new request keeps a waiver in place.                                  *)
LEMMA SubmitWaiver ==
  ASSUME IInv, Paths, WaiverKept, NEW r \in Requests, Submit(r)
  PROVE  WaiverKept'
<1> QED BY DEF WaiverKept, Stated, Intact, Submit, files, worker, history

(* A taken request keeps a waiver in place.                                *)
LEMMA TakeWaiver ==
  ASSUME IInv, Paths, WaiverKept, NEW r \in Requests, Take(r)
  PROVE  WaiverKept'
<1> QED BY DEF WaiverKept, Intact, Take, Goto, files, history

(* What a step may do to an answer: a request that is archived, or about   *)
(* to be, with a success answer was so before, or its journal is cleared   *)
(* now.                                                                    *)
Settles(r) == result[r] = "ok" /\ (inbox[r] = "done" \/ (pc = "retire" /\ actor = r))
Commits(r) ==
  /\ pc = "clear" /\ cont = "commit" /\ actor = r
  /\ owner # Nobody /\ owner' = Nobody /\ UNCHANGED store

(* A history of faults and restarts only grows.                            *)
LEMMA TrustStays ==
  ASSUME IInv, Next PROVE Trusted' => Trusted
<1>1. harmed \subseteq harmed'
  BY HarmGrows
<1>2. crashes \in Nat /\ faults \in Nat
  BY BoundsAssumption DEF IInv, HistoryOK
<1>3. (crashes' = crashes \/ crashes' = crashes + 1) /\ faults' \in {faults, faults + 1, faults + 2}
  <2> USE DEF NoFault, Fault, files, worker, history
  <2>1. ASSUME NEW r \in Requests, Submit(r) \/ Take(r)
        PROVE  /\ crashes' = crashes \/ crashes' = crashes + 1
               /\ faults' \in {faults, faults + 1, faults + 2}
    BY <2>1 DEF Submit, Take
  <2>2. CASE Flip \/ ParentResume \/ Crash \/ Boot \/ Requeue
    BY <2>2 DEF Flip, ParentResume, Crash, Boot, Requeue
  <2>3. CASE UndoRestore \/ UndoDamaged \/ UndoFault \/ UndoNothing
    BY <2>3 DEF UndoRestore, UndoDamaged, UndoFault, UndoNothing, UndoMove
  <2>4. CASE ClearDone \/ ClearFault \/ Flag \/ Gate \/ Sample \/ Admit
    BY <2>4 DEF ClearDone, ClearFault, Flag, Gate, Sample, Admit
  <2>5. CASE Begin \/ Compact \/ Open
    BY <2>5 DEF Begin, Compact, Open
  <2>6. CASE BodyWrite \/ BodyObserve \/ BodyResult
    BY <2>6 DEF BodyWrite, BodyObserve, BodyResult, Withdraw
  <2>7. CASE Fail \/ Report \/ Retire \/ Tick \/ TickConfirm \/ TickTimeout
    BY <2>7 DEF Fail, Report, Retire, Tick, TickConfirm, TickTimeout
  <2> QED BY <2>1, <2>2, <2>3, <2>4, <2>5, <2>6, <2>7 DEF Next, Environment, Service, Rollback,
     Handler, Ticking
<1> QED BY <1>1, <1>2, <1>3 DEF Trusted, Intact

(* A request comes to be answered by its commit only.                      *)
LEMMA StepSettles ==
  ASSUME IInv, Paths, Answered, Next, Trusted', NEW r \in Requests, Settles(r)'
  PROVE  Settles(r) \/ Commits(r)
<1>1. CASE Flip
  BY <1>1 DEF Flip, Settles, worker
<1>2. CASE ParentResume
  BY <1>2 DEF ParentResume, Settles, worker
<1>3. CASE Crash
  BY <1>3 DEF Crash, Settles, Goto
<1>4. CASE Boot
  BY <1>4 DEF Boot, Settles, Goto, Undo
<1>5. CASE Requeue
  BY <1>5 DEF Requeue, Settles, Goto
<1>6. CASE UndoRestore
  BY <1>6 DEF UndoRestore, Settles, Goto, UndoMove
<1>7. CASE UndoDamaged
  BY <1>7 DEF UndoDamaged, Settles, Goto, UndoMove
<1>8. CASE UndoFault
  BY <1>8 DEF UndoFault, Settles, Goto, UndoMove
<1>9. CASE UndoNothing
  BY <1>9 DEF UndoNothing, Settles, Answered, Refusing
<1>10. CASE ClearDone
  BY <1>10 DEF ClearDone, Settles, Commits, Answered, Refusing, Trusted, IInv, Paths, ControlOK, Undone,
     After, Return, Goto, history
<1>11. CASE ClearFault
  BY <1>11 DEF ClearFault, Settles, Answered, Refusing, Trusted, IInv, HistoryOK, Committing, Fault, Harm
<1>12. CASE Flag
  <2>1. /\ pc = "flag" /\ UNCHANGED <<inbox, result, actor, crashes>>
        /\ faults' = faults \/ faults' = faults + 1
        /\ pc' = CASE cont = "boot"   -> "requeue"
                   [] cont = "sample" -> "report"
                   [] OTHER           -> After(cont)
    BY <1>12 DEF Flag, Goto, NoFault, Fault
  <2>2. pc' = "retire" => cont = "silent"
    BY <2>1 DEF After, Answered, Refusing, IInv, ControlOK, Return
  <2>3. faults > 0 => crashes = 0
    BY <2>1 DEF Trusted, IInv, HistoryOK
  <2> QED BY <2>1, <2>2, <2>3 DEF Settles, Answered, Refusing
<1>13. CASE Gate
  BY <1>13 DEF Gate, Settles, Goto, Undo
<1>14. CASE Sample
  BY <1>14 DEF Sample, Settles, Goto
<1>15. CASE Admit
  BY <1>15 DEF Admit, Settles, Goto
<1>16. CASE Begin
  BY <1>16 DEF Begin, Settles, Goto, Undo, BeginRefused, StartBody
<1>17. CASE Compact
  BY <1>17 DEF Compact, Settles, Goto, Undo, BeginRefused
<1>18. CASE Open
  BY <1>18 DEF Open, Settles, Goto, Undo, BeginRefused, StartBody
<1>19. CASE BodyWrite
  <2>1. pc' \in {"body", "idle", "clear", "undo"} /\ pc = "body" /\ UNCHANGED <<inbox, actor>>
    BY <1>19 DEF BodyWrite, Goto, Undo, Clear, Advance, Finish, Abort
  <2>2. r # actor => result'[r] = result[r]
    BY <1>19 DEF BodyWrite, Withdraw, IInv, FilesOK
  <2> QED BY <2>1, <2>2 DEF Settles, Paths, Taken
<1>20. CASE BodyObserve
  BY <1>20 DEF BodyObserve, Settles, Goto, Undo, Clear, Advance, Finish, Abort
<1>21. CASE BodyResult
  BY <1>21 DEF BodyResult, Settles, IInv, Paths, FilesOK, Taken, Goto, Undo, Clear, Advance,
     Finish,
     Abort
<1>22. CASE Fail
  BY <1>22 DEF Fail, Settles, Goto, Undo
<1>23. CASE Report
  BY <1>23 DEF Report, Settles, Answered, Refusing, Trusted, IInv, FilesOK, HistoryOK, Fault
<1>24. CASE Retire
  BY <1>24 DEF Retire, Settles, IInv, FilesOK, Goto
<1>25. CASE Tick
  BY <1>25 DEF Tick, Settles, Goto
<1>26. CASE TickConfirm
  BY <1>26 DEF TickConfirm, Settles, Goto, Clear
<1>27. CASE TickTimeout
  BY <1>27 DEF TickTimeout, Settles, Goto, Undo
<1>28. ASSUME NEW s \in Requests, Submit(s) PROVE Settles(r) \/ Commits(r)
  BY <1>28 DEF Submit, Settles, worker
<1>29. ASSUME NEW s \in Requests, Take(s) PROVE Settles(r) \/ Commits(r)
  BY <1>29 DEF Take, Settles, Goto
<1> QED BY <1>1, <1>2, <1>3, <1>4, <1>5, <1>6, <1>7, <1>8, <1>9, <1>10, <1>11, <1>12, <1>13, <1>14,
     <1>15, <1>16, <1>17, <1>18, <1>19, <1>20, <1>21, <1>22, <1>23, <1>24, <1>25, <1>26, <1>27,
     <1>28, <1>29 DEF Next, Environment, Service, Rollback, Handler, Ticking

(* Without a journal a waiver is taken out of the state by a recorded      *)
(* fault only.                                                             *)
LEMMA WaivedStays ==
  ASSUME IInv, Paths, Next, owner = Nobody, Intact', Waived \in store["state"]
  PROVE  Waived \in store'["state"]
<1>1. CASE Flip
  BY <1>1 DEF Flip, files
<1>2. CASE ParentResume
  BY <1>2 DEF ParentResume
<1>3. CASE Crash
  BY <1>3 DEF Crash, Intact
<1>4. CASE Boot
  BY <1>4 DEF Boot, Item
<1>5. CASE Requeue
  BY <1>5 DEF Requeue, files
<1>6. CASE UndoRestore
  BY <1>6 DEF UndoRestore
<1>7. CASE UndoDamaged
  BY <1>7 DEF UndoDamaged
<1>8. CASE UndoFault
  BY <1>8 DEF UndoFault
<1>9. CASE UndoNothing
  BY <1>9 DEF UndoNothing, files
<1>10. CASE ClearDone
  BY <1>10 DEF ClearDone
<1>11. CASE ClearFault
  BY <1>11 DEF ClearFault
<1>12. CASE Flag
  BY <1>12 DEF Flag
<1>13. CASE Gate
  BY <1>13 DEF Gate, files
<1>14. CASE Sample
  BY <1>14, WaivedLoaded DEF Sample, Intact, IInv, FilesOK, Contents, Harm
<1>15. CASE Admit
  BY <1>15 DEF Admit, files
<1>16. CASE Begin
  BY <1>16 DEF Begin, files
<1>17. CASE Compact
  BY <1>17 DEF Compact, IInv, FilesOK, Contents, Item
<1>18. CASE Open
  BY <1>18 DEF Open
<1>19. CASE BodyWrite
  BY <1>19, ActorsAssumption DEF BodyWrite, IInv, ControlOK, OwnJournalOnly
<1>20. CASE BodyObserve
  BY <1>20 DEF BodyObserve, files
<1>21. CASE BodyResult
  BY <1>21 DEF BodyResult, files
<1>22. CASE Fail
  BY <1>22 DEF Fail, files
<1>23. CASE Report
  BY <1>23 DEF Report, files
<1>24. CASE Retire
  BY <1>24 DEF Retire, files
<1>25. CASE Tick
  BY <1>25 DEF Tick, files
<1>26. CASE TickConfirm
  BY <1>26, ActorsAssumption DEF TickConfirm, TickPending
<1>27. CASE TickTimeout
  BY <1>27 DEF TickTimeout, files
<1>28. ASSUME NEW s \in Requests, Submit(s) PROVE Waived \in store'["state"]
  BY <1>28 DEF Submit, files
<1>29. ASSUME NEW s \in Requests, Take(s) PROVE Waived \in store'["state"]
  BY <1>29 DEF Take, files
<1> QED BY <1>1, <1>2, <1>3, <1>4, <1>5, <1>6, <1>7, <1>8, <1>9, <1>10, <1>11, <1>12, <1>13, <1>14,
     <1>15, <1>16, <1>17, <1>18, <1>19, <1>20, <1>21, <1>22, <1>23, <1>24, <1>25, <1>26, <1>27,
     <1>28, <1>29 DEF Next, Environment, Service, Rollback, Handler, Ticking

(* So a waiver stays in whatever a recovery would restore.                 *)
LEMMA ViewWaived ==
  ASSUME IInv, Paths, WaiverKept, Next, Intact', Waived \in View["state"]
  PROVE  Waived \in View'["state"]
<1>1. CASE ViewHolds
  <2>1. CASE owner = Nobody
    BY <1>1, <2>1, WaivedStays DEF ViewHolds, View
  <2>2. CASE owner # Nobody
    BY <1>1, <2>2 DEF ViewHolds, View
  <2> QED BY <2>1, <2>2
<1>2. CASE ViewOpens
  BY <1>2, ActorsAssumption DEF ViewOpens, View, IInv, ControlOK
<1>3. CASE ViewCloses
  BY <1>3, HarmStays DEF ViewCloses, View, WaiverKept, Keeps
<1> QED BY <1>1, <1>2, <1>3, StepViews DEF ViewMoves

(* And so does a grant.                                                    *)
LEMMA GrantedStays ==
  ASSUME IInv, Paths, Books, WholeGrants, WaiverKept, IInv', Next, Intact',
         NEW r \in Requests, Granted(r)
  PROVE  Granted(r)'
<1>1. CASE Kind[r] = "waive"
  BY <1>1, ViewWaived DEF Granted
<1>2. CASE Kind[r] # "waive"
  <2>1. Book!Next \/ UNCHANGED <<Grants(View["rules"]), Intact>>
    BY BookStep
  <2>2. Grants(View["rules"]) \subseteq Grants(View["rules"])'
    BY <2>1 DEF Book!Next, Book!Enter, Book!Betray
  <2> QED BY <1>2, <2>2 DEF Granted
<1> QED BY <1>1, <1>2

(* What commits has granted.                                               *)
LEMMA CommitGrants ==
  ASSUME IInv, Books, WaiverKept, Intact, NEW r \in Requests, Commits(r)
  PROVE  Granted(r)'
<1>1. View' = store /\ pc = "clear" /\ cont = "commit" /\ actor = r
  BY DEF Commits, View
<1>2. CASE Kind[r] = "waive"
  BY <1>1, <1>2 DEF Granted, WaiverKept
<1>3. CASE Kind[r] # "waive"
  <2>1. Grants(store["rules"]) = Grants(saved["rules"]) \cup Entry(r, "rules")
    BY <1>1 DEF Books, Complete, Committing, Booked, Item
  <2>2. Entry(r, "rules") = {<<r, tries[r]>>} /\ <<r, tries[r]>>[1] = r
    BY <1>3 DEF Entry
  <2>3. \E e \in Grants(store["rules"]) : e[1] = r
    BY <2>1, <2>2
  <2>4. Grants(View["rules"])' = Grants(store["rules"])
    BY <1>1 DEF Grants
  <2> QED BY <1>3, <2>3, <2>4 DEF Granted
<1> QED BY <1>2, <1>3

(* An answer that is archived is true.                                     *)
LEMMA StepTruthful ==
  ASSUME IInv, Paths, Books, WholeGrants, Answered, WaiverKept, Truthful, IInv', Next
  PROVE  Truthful'
<1> SUFFICES ASSUME Trusted', NEW r \in Requests, Settles(r)' PROVE Granted(r)'
  BY DEF Truthful, Settles
<1>1. Trusted /\ Intact /\ Intact'
  BY TrustStays DEF Trusted
<1>2. CASE Settles(r)
  <2>1. Granted(r)
    BY <1>1, <1>2 DEF Truthful, Settles
  <2> QED BY <1>1, <2>1, GrantedStays
<1>3. CASE Commits(r)
  BY <1>1, <1>3, CommitGrants
<1> QED BY <1>2, <1>3, StepSettles

(* What the answers rest on.                                               *)
Answers == Answered /\ Once /\ Untraced /\ WaiverKept

(* At first nothing is answered.                                           *)
LEMMA InitAnswers == Init => Answers /\ Truthful
<1> SUFFICES ASSUME Init PROVE Answers /\ Truthful
  OBVIOUS
<1> USE DEF Init
<1>1. Answered /\ Once /\ WaiverKept
  BY ActorsAssumption DEF Answered, Refusing, Once, WaiverKept
<1>2. ASSUME NEW r \in Requests PROVE Clean(r, store)
  <2>1. \A i \in Item : store[i] \in {{Old}, {}, {Base}}
    OBVIOUS
  <2> QED BY <2>1, FreeParts, Marks DEF Clean
<1>3. Untraced
  BY <1>2, ActorsAssumption DEF Untraced, UntracedOf, Refusing, Unsettled, UnderOwn
<1>4. Truthful
  BY DEF Truthful
<1> QED BY <1>1, <1>3, <1>4 DEF Answers

(* Nothing changes the answers where nothing moves.                        *)
LEMMA StutterAnswers == Answers /\ Truthful /\ UNCHANGED vars => Answers' /\ Truthful'
<1> SUFFICES ASSUME Answers, Truthful, UNCHANGED vars PROVE Answers' /\ Truthful'
  OBVIOUS
<1> USE DEF vars, files, worker, history
<1>1. Answered' /\ Once'
  BY DEF Answers, Answered, Refusing, Said, Once
<1>2. Untraced'
  BY DEF Answers, Untraced, UntracedOf, Refusing, Unsettled, UnderOwn, Clean
<1>3. WaiverKept'
  BY DEF Answers, WaiverKept, Keeps, Stated, Intact
<1>4. Truthful'
  BY DEF Truthful, Trusted, Intact, Granted, View, Grants
<1> QED BY <1>1, <1>2, <1>3, <1>4 DEF Answers

(* Every step keeps where an answer may be, by cases over the actions.   *)
LEMMA NextAnswered ==
  ASSUME IInv, Paths, Answered, Once, Next PROVE Answered' /\ Once'
<1>1. CASE Environment
  BY <1>1, SubmitAnswers, FlipAnswers, ParentResumeAnswers, CrashAnswers DEF Environment
<1>2. CASE Boot \/ Requeue \/ ClearDone \/ ClearFault \/ Flag
  BY <1>2, BootAnswers, RequeueAnswers, ClearDoneAnswers, ClearFaultAnswers, FlagAnswers
<1>3. CASE Rollback
  BY <1>3, UndoRestoreAnswers, UndoDamagedAnswers, UndoFaultAnswers,
     UndoNothingAnswers DEF Rollback
<1>4. CASE Handler
  BY <1>4, GateAnswers, SampleAnswers, AdmitAnswers, BeginAnswers, CompactAnswers,
     OpenAnswers, BodyWriteAnswers,
     BodyObserveAnswers, BodyResultAnswers, FailAnswers, ReportAnswers, RetireAnswers DEF Handler
<1>5. CASE Ticking
  BY <1>5, TickAnswers, TickConfirmAnswers, TickTimeoutAnswers DEF Ticking
<1>6. CASE \E r \in Requests : Take(r)
  BY <1>6, TakeAnswers
<1> QED BY <1>1, <1>2, <1>3, <1>4, <1>5, <1>6 DEF Next, Service

(* Every step leaves no trace of an unanswered request.                  *)
LEMMA NextUntraced ==
  ASSUME IInv, Paths, Answered, Once, Untraced, Next PROVE Untraced'
<1>1. CASE Environment
  BY <1>1, SubmitUntraced, FlipUntraced, ParentResumeUntraced, CrashUntraced DEF Environment
<1>2. CASE Boot \/ Requeue \/ ClearDone \/ ClearFault \/ Flag
  BY <1>2, BootUntraced, RequeueUntraced, ClearDoneUntraced, ClearFaultUntraced, FlagUntraced
<1>3. CASE Rollback
  BY <1>3, UndoRestoreUntraced, UndoDamagedUntraced, UndoFaultUntraced,
     UndoNothingUntraced DEF Rollback
<1>4. CASE Handler
  BY <1>4, GateUntraced, SampleUntraced, AdmitUntraced, BeginUntraced, CompactUntraced,
     OpenUntraced, BodyWriteUntraced,
     BodyObserveUntraced, BodyResultUntraced, FailUntraced, ReportUntraced, RetireUntraced DEF Handler
<1>5. CASE Ticking
  BY <1>5, TickUntraced, TickConfirmUntraced, TickTimeoutUntraced DEF Ticking
<1>6. CASE \E r \in Requests : Take(r)
  BY <1>6, TakeUntraced
<1> QED BY <1>1, <1>2, <1>3, <1>4, <1>5, <1>6 DEF Next, Service

(* Every step keeps the waiver.                                           *)
LEMMA NextWaiver ==
  ASSUME IInv, Paths, WaiverKept, Next PROVE WaiverKept'
<1>1. CASE Environment
  BY <1>1, SubmitWaiver, FlipWaiver, ParentResumeWaiver, CrashWaiver DEF Environment
<1>2. CASE Boot \/ Requeue \/ ClearDone \/ ClearFault \/ Flag
  BY <1>2, BootWaiver, RequeueWaiver, ClearDoneWaiver, ClearFaultWaiver, FlagWaiver
<1>3. CASE Rollback
  BY <1>3, UndoRestoreWaiver, UndoDamagedWaiver, UndoFaultWaiver, UndoNothingWaiver DEF Rollback
<1>4. CASE Handler
  BY <1>4, GateWaiver, SampleWaiver, AdmitWaiver, BeginWaiver, CompactWaiver, OpenWaiver,
     BodyWriteWaiver,
     BodyObserveWaiver, BodyResultWaiver, FailWaiver, ReportWaiver, RetireWaiver DEF Handler
<1>5. CASE Ticking
  BY <1>5, TickWaiver, TickConfirmWaiver, TickTimeoutWaiver DEF Ticking
<1>6. CASE \E r \in Requests : Take(r)
  BY <1>6, TakeWaiver
<1> QED BY <1>1, <1>2, <1>3, <1>4, <1>5, <1>6 DEF Next, Service

(* So the answers hold in every behaviour.                                 *)
LEMMA SpecAnswers == Spec => [](IInv /\ Paths /\ Answers /\ Truthful)
<1>1. IInv /\ Paths /\ Books /\ WholeGrants /\ Answers /\ Truthful /\ IInv' /\ [Next]_vars =>
        Answers' /\ Truthful'
  <2> SUFFICES ASSUME IInv, Paths, Books, WholeGrants, Answers, Truthful, IInv', [Next]_vars
               PROVE  Answers' /\ Truthful'
    OBVIOUS
  <2>1. CASE Next
    BY <2>1, NextAnswered, NextUntraced, NextWaiver, StepTruthful DEF Answers
  <2>2. CASE UNCHANGED vars
    BY <2>2, StutterAnswers
  <2> QED BY <2>1, <2>2
<1> QED BY <1>1, InitAnswers, SpecBooks, PTL DEF Spec

(* What was archived without a success answer has consumed nothing, as     *)
(* long as the service was not restarted and no rollback failed            *)
(* (finish_with_error).                                                    *)
THEOREM FailuresConsumeNothing == Spec => []FailedIsUnconsumed
<1>1. IInv /\ Paths /\ Untraced => FailedIsUnconsumed
  <2> SUFFICES ASSUME IInv, Paths, Untraced, Intact, crashes = 0, NEW r \in Requests,
                      inbox[r] = "done", result[r] # "ok"
               PROVE  Clean(r, View)
    BY DEF FailedIsUnconsumed, Clean, Free
  <2>1. UntracedOf(r)
    BY DEF Untraced, Intact
  <2>2. ~UnderOwn(r)
    BY DEF UnderOwn, Paths, Taken
  <2> QED BY <2>1, <2>2 DEF UntracedOf, Refusing, Unsettled, View
<1> QED BY <1>1, SpecAnswers, PTL DEF Answers

(* A success answer that was archived is true: its grant is in the books,  *)
(* its waiver in the state (process_request_text, offline_code).           *)
THEOREM AnswersAreGranted == Spec => []OkIsGranted
<1>1. Truthful => OkIsGranted
  BY DEF Truthful, OkIsGranted, Trusted, Granted
<1> QED BY <1>1, SpecAnswers, PTL

=============================================================================
