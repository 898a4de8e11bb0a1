--------------------------- MODULE HandoverProofs ---------------------------
(***************************************************************************)
(* Proofs about the hand-off, for any number of samples, launches, quiet   *)
(* ticks, hand-offs, processes, failed calls and interruptions.            *)
(***************************************************************************)
EXTENDS Handover, TLAPS

(* The type invariant, in four parts.                                      *)
FilesOK ==
  /\ boot \in {"flag", "backup"} /\ journal \in Records /\ temp \in Records \cup {Torn}
  /\ intent \in 0..MaxTxns /\ draft \in BOOLEAN /\ ready \in (0..MaxTxns) \X (Pids \cup {0})
  /\ runtime \in Pids \cup {0}

ServicesOK ==
  /\ born \in Pids
  /\ stage \in [Pids -> Stages] /\ seen \in [Pids -> 0..MaxTxns] /\ quiet \in [Pids -> 0..(MaxQuiet - 1)]

LauncherOK ==
  /\ pc \in Steps /\ task \in {"none", "begin", "recover", "tick", "fail", "exit", "ready"}
  /\ phase \in {"idle", "ack", "exit", "ready", "done", "failed"} /\ mem \in Records
  /\ disabled \in BOOLEAN /\ ok \in BOOLEAN /\ overtaken \in BOOLEAN
  /\ absent \in 0..(Samples - 1) /\ attempts \in 0..MaxAttempts

CountsOK == txns \in 0..MaxTxns /\ faults \in 0..MaxFaults /\ cuts \in 0..MaxCuts

(* The type invariant is the conjunction of its four parts.                *)
LEMMA TypeParts == TypeOK <=> FilesOK /\ ServicesOK /\ LauncherOK /\ CountsOK
BY DEF TypeOK, FilesOK, ServicesOK, LauncherOK, CountsOK

(* On whose behalf a routine may run.                                      *)
Calls ==
  /\ pc \in {"off", "rest"} => task = "none"
  /\ pc \in {"write", "swap"} => /\ mem.phase = "prepared" => task = "begin"
                                 /\ mem.phase = "boot_disabled" => task = "none"
  /\ pc = "intent" => task = "begin"
  /\ pc \in {"disable", "revert"} => task = "none"
  /\ pc = "look" => task = "recover"
  /\ pc = "launch" => task \in {"tick", "ready"}

(* The target was started and its record is being written.                 *)
Launched == pc \in {"write", "swap"} /\ mem.phase = "target_launched"

(* A launch happens only where nothing runs and an attempt is left; the    *)
(* tick that saw the source gone has used none before.                     *)
Launches ==
  /\ pc = "launch" => Running = {} /\ attempts < MaxAttempts
  /\ task = "tick" => Running = {} \/ Launched
  /\ attempts # 0 => \/ pc = "rest" /\ phase \in {"ready", "done", "failed"}
                     \/ task \in {"fail", "ready", "exit"}
                     \/ task = "tick" /\ (pc = "launch" \/ Launched)

(* Where the application knows the record of a hand-off.                   *)
Known ==
  mem.txn = 0 =>
    /\ ~disabled
    /\ \/ pc = "off" \/ (pc = "rest" /\ phase \in {"idle", "failed"})
       \/ pc = "read" /\ task = "recover"

(* The records on the card and in memory are of one hand-off.              *)
OneTxn ==
  /\ journal = NoRecord \/ journal.txn # 0
  /\ temp \in {NoRecord, Torn} \/ temp.txn # 0
  /\ journal.txn # 0 /\ temp.txn # 0 => journal.txn = temp.txn
  /\ journal.txn # 0 /\ mem.txn # 0 => journal.txn = mem.txn
  /\ temp.txn # 0 /\ mem.txn # 0 => temp.txn = mem.txn

(* What a routine relies on about the card.                                *)
Reliance ==
  /\ pc = "swap" => temp = mem
  /\ pc \in {"write", "swap"} /\ mem.phase = "boot_disabled" => boot = "backup"
  /\ pc = "revert" => boot = "backup"

(* The launcher's part, the card's part, and the inductive invariant.       *)
LInv == LauncherOK /\ Calls /\ Launches /\ Known
CInv == OneTxn /\ Reliance /\ DisabledIsRecoverable
IInv == FilesOK /\ ServicesOK /\ CountsOK /\ LInv /\ CInv /\ OneService

USE LimitsAssumption DEF Pids

-----------------------------------------------------------------------------
(* The empty and the incomplete record.                                    *)
LEMMA EmptyRecords ==
  /\ NoRecord \in Records /\ NoRecord.txn = 0 /\ NoRecord.phase = "none"
  /\ Torn.txn = 0 /\ Torn.phase = "torn" /\ Torn # NoRecord /\ Torn \notin Records
BY DEF NoRecord, Torn, Records

(* Who runs depends on the stages alone.                                   *)
LEMMA RunningKept == ASSUME stage' = stage PROVE Running' = Running
BY DEF Running

-----------------------------------------------------------------------------
(***************************************************************************)
(* What follows a call keeps the launcher's part of the invariant.         *)
(***************************************************************************)
(* A closed application holds nothing.                                     *)
LEMMA OffKeeps ==
  ASSUME overtaken' = overtaken, overtaken \in BOOLEAN, Off
  PROVE  LInv' /\ mem' = NoRecord /\ pc' = "off"
<1> USE DEF Off
<1>1. mem' \in Records
  BY EmptyRecords
<1>2. absent' \in 0..(Samples - 1) /\ attempts' \in 0..MaxAttempts
  OBVIOUS
<1>3. LauncherOK'
  BY <1>1, <1>2 DEF LauncherOK, Steps
<1>4. Calls' /\ Launches' /\ Known'
  BY DEF Calls, Launches, Known
<1> QED BY <1>3, <1>4 DEF LInv

(* fail() runs for a hand-off whose record the application knows.          *)
LEMMA GiveUpKeeps ==
  ASSUME LInv, Running' = Running, overtaken' = overtaken, GiveUp, mem.txn # 0
  PROVE  LInv' /\ mem' = mem /\ pc' \in {"read", "clear"}
<1> USE DEF LInv, GiveUp, Fails
<1>1. LauncherOK'
  BY DEF LauncherOK, Steps
<1>2. Calls' /\ Launches' /\ Known'
  BY DEF LauncherOK, Calls, Launches, Known, Launched
<1> QED BY <1>1, <1>2

(* A flag that could not be restored.                                      *)
LEMMA RestoreFailedKeeps ==
  ASSUME LInv, Running' = Running, overtaken' = overtaken, RestoreFailed,
         pc \in {"read", "restore", "write", "swap"}
  PROVE  /\ LInv' /\ pc' \in {"read", "clear", "rest", "off"}
         /\ mem' = mem \/ mem' = NoRecord
<1>1. CASE task = "tick" /\ GiveUp
  <2>1. mem.txn # 0
    BY <1>1 DEF LInv, Known
  <2> QED BY <1>1, <2>1, GiveUpKeeps
<1>2. CASE task = "recover" /\ Pause("failed") /\ UNCHANGED memory
  <2> USE <1>2 DEF LInv, Pause, memory
  <2>1. LauncherOK'
    BY DEF LauncherOK, Steps
  <2>2. Calls' /\ Launches' /\ Known'
    BY DEF LauncherOK, Calls, Launches, Known, Launched
  <2> QED BY <2>1, <2>2
<1>3. CASE /\ task = "fail" \/ (task = "exit" /\ phase = "exit")
           /\ ok' = FALSE /\ Goto("clear") /\ UNCHANGED <<mem, disabled, absent, attempts>>
  <2> USE <1>3 DEF LInv, Goto
  <2>1. LauncherOK'
    BY DEF LauncherOK, Steps
  <2>2. Calls' /\ Launches' /\ Known'
    BY DEF LauncherOK, Calls, Launches, Known, Launched
  <2> QED BY <2>1, <2>2
<1>4. CASE task = "exit" /\ phase # "exit" /\ Off
  BY <1>4, OffKeeps DEF LInv, LauncherOK
<1> QED BY <1>1, <1>2, <1>3, <1>4 DEF RestoreFailed

(* A failed launch is repeated only where nothing runs.                    *)
LEMMA LaunchFailedKeeps ==
  ASSUME LInv, Running' = Running, overtaken' = overtaken, mem.txn # 0,
         NEW made \in 0..MaxAttempts, LaunchFailed(made)
  PROVE  LInv' /\ mem' = mem /\ pc' \in {"launch", "read", "clear"}
<1>1. CASE task = "tick" /\ MayLaunch(made)
  <2> USE <1>1 DEF LInv, Goto, MayLaunch, LaunchFailed
  <2>1. LauncherOK'
    BY DEF LauncherOK, Steps
  <2>2. Calls' /\ Launches' /\ Known'
    BY DEF LauncherOK, Calls, Launches, Known, Launched
  <2> QED BY <2>1, <2>2
<1>2. CASE ~(task = "tick" /\ MayLaunch(made))
  <2> USE <1>2 DEF LInv, Fails, LaunchFailed
  <2>1. LauncherOK'
    BY DEF LauncherOK, Steps
  <2>2. Calls' /\ Launches' /\ Known'
    BY DEF LauncherOK, Calls, Launches, Known, Launched
  <2> QED BY <2>1, <2>2
<1> QED BY <1>1, <1>2

(* A journal that was written.                                             *)
LEMMA WrittenKeeps ==
  ASSUME LInv, Running' = Running, overtaken' = overtaken, Written, pc = "swap"
  PROVE  /\ LInv' /\ pc' \in {"intent", "rest", "clear", "off"}
         /\ mem' = mem \/ mem' = NoRecord
<1> mem.txn # 0
  BY DEF LInv, Known
<1>1. CASE mem.phase = "prepared" /\ Goto("intent") /\ UNCHANGED memory
  <2> USE <1>1 DEF LInv, Goto, memory
  <2>1. LauncherOK'
    BY DEF LauncherOK, Steps
  <2>2. Calls' /\ Launches' /\ Known'
    BY DEF LauncherOK, Calls, Launches, Known, Launched
  <2> QED BY <2>1, <2>2
<1>2. CASE /\ mem.phase = "boot_disabled" /\ Pause("exit")
           /\ disabled' = TRUE /\ UNCHANGED <<mem, absent, attempts, ok>>
  <2> USE <1>2 DEF LInv, Pause
  <2>1. LauncherOK'
    BY DEF LauncherOK, Steps
  <2>2. Calls' /\ Launches' /\ Known'
    BY DEF LauncherOK, Calls, Launches, Known, Launched
  <2> QED BY <2>1, <2>2
<1>3. CASE mem.phase = "boot_restored" /\ Restored
  <2> USE <1>3 DEF LInv, Goto, Restored
  <2>1. LauncherOK'
    BY DEF LauncherOK, Steps
  <2>2. Calls' /\ Launches' /\ Known'
    BY DEF LauncherOK, Calls, Launches, Known, Launched
  <2> QED BY <2>1, <2>2
<1>4. CASE RestoredAndOff
  BY <1>4, OffKeeps DEF LInv, LauncherOK, RestoredAndOff
<1>5. CASE mem.phase = "target_launched" /\ Pause("ready") /\ UNCHANGED memory
  <2> USE <1>5 DEF LInv, Pause, memory
  <2>1. LauncherOK'
    BY DEF LauncherOK, Steps
  <2>2. Calls' /\ Launches' /\ Known'
    BY DEF LauncherOK, Calls, Launches, Known, Launched
  <2> QED BY <2>1, <2>2
<1> QED BY <1>1, <1>2, <1>3, <1>4, <1>5 DEF Written

(* A journal that could not be written.                                    *)
LEMMA WriteFailedKeeps ==
  ASSUME LInv, Running' = Running, overtaken' = overtaken, WriteFailed, pc \in {"write", "swap"}
  PROVE  /\ LInv' /\ pc' \notin {"write", "swap"}
         /\ mem' = mem \/ mem' = NoRecord
         /\ pc' = "revert" => mem.phase = "boot_disabled"
<1> mem.txn # 0
  BY DEF LInv, Known
<1>1. CASE mem.phase = "prepared" /\ GiveUp
  BY <1>1, GiveUpKeeps
<1>2. CASE mem.phase = "boot_disabled" /\ Goto("revert") /\ UNCHANGED memory
  <2> USE <1>2 DEF LInv, Goto, memory
  <2>1. LauncherOK'
    BY DEF LauncherOK, Steps
  <2>2. Calls' /\ Launches' /\ Known'
    BY DEF LauncherOK, Calls, Launches, Known, Launched
  <2> QED BY <2>1, <2>2
<1>3. CASE mem.phase = "boot_restored" /\ RestoreFailed
  BY <1>3, RestoreFailedKeeps
<1>4. CASE mem.phase = "target_launched" /\ LaunchFailed(attempts)
  BY <1>4, LaunchFailedKeeps DEF LInv, LauncherOK
<1> QED BY <1>1, <1>2, <1>3, <1>4 DEF WriteFailed

(* What follows finish_journal.                                            *)
LEMMA FinishedKeeps ==
  ASSUME LInv, Running' = Running, overtaken' = overtaken, pc = "finish2",
         NEW fine \in BOOLEAN, Finished(fine)
  PROVE  /\ LInv' /\ pc' \in {"rest", "off", "read", "clear"}
         /\ mem' = mem \/ mem' = NoRecord
<1> mem.txn # 0
  BY DEF LInv, Known
<1>1. CASE task = "exit" /\ Off
  BY <1>1, OffKeeps DEF LInv, LauncherOK
<1>2. CASE GiveUp
  BY <1>2, GiveUpKeeps
<1>3. ASSUME NEW end \in {"failed", "done", "idle"}, Pause(end), UNCHANGED memory,
             end = "idle" => task = "recover"
      PROVE  LInv' /\ pc' = "rest" /\ mem' = mem
  <2> USE <1>3 DEF LInv, Pause, memory
  <2>1. LauncherOK'
    BY DEF LauncherOK, Steps
  <2>2. Calls' /\ Launches' /\ Known'
    BY DEF LauncherOK, Calls, Launches, Known, Launched
  <2> QED BY <2>1, <2>2
<1> QED BY <1>1, <1>2, <1>3 DEF Finished

-----------------------------------------------------------------------------
(***************************************************************************)
(* The parts of the invariant that a step leaves alone.                    *)
(***************************************************************************)
(* Nothing of the launcher changes and no service comes up.                *)
LEMMA LauncherKept ==
  ASSUME LInv, Running' \subseteq Running, UNCHANGED <<control, memory>>, overtaken' \in BOOLEAN
  PROVE  LInv'
<1> USE DEF LInv, control, memory
<1>1. LauncherOK'
  BY DEF LauncherOK
<1>2. Calls' /\ Launches' /\ Known'
  BY DEF Calls, Launches, Known, Launched
<1> QED BY <1>1, <1>2

(* Nothing on the card changes and no writing begins.                      *)
LEMMA CardKept ==
  ASSUME CInv, UNCHANGED <<boot, record>>, mem' = mem \/ mem' = NoRecord,
         pc' \in {"write", "swap", "revert"} => pc' = pc /\ mem' = mem
  PROVE  CInv'
<1> USE EmptyRecords DEF CInv, record
<1>1. OneTxn'
  BY DEF OneTxn
<1>2. Reliance' /\ DisabledIsRecoverable'
  BY DEF Reliance, DisabledIsRecoverable, Readable
<1> QED BY <1>1, <1>2

(* One service stays one as long as none comes up.                         *)
LEMMA OneServiceKept ==
  ASSUME OneService, Running' \subseteq Running
  PROVE  OneService'
BY DEF OneService

-----------------------------------------------------------------------------
(***************************************************************************)
(* One lemma per step of the launcher.                                     *)
(***************************************************************************)
(* The temporary file is of the hand-off whose record is there.            *)
LEMMA WriteTempStep == ASSUME IInv, WriteTemp PROVE IInv'
<1> USE EmptyRecords DEF IInv, letters, service, counts
<1>1. mem.txn # 0 /\ mem \in Records /\ Running' = Running /\ overtaken' = overtaken
  BY RunningKept DEF WriteTemp, LInv, Known, LauncherOK
<1>2. /\ temp' \in {temp, mem, NoRecord, Torn} /\ (temp # NoRecord => temp' = temp)
      /\ \/ pc' = "swap" /\ temp' = mem /\ Goto("swap") /\ UNCHANGED memory
         \/ WriteFailed
      /\ UNCHANGED <<boot, journal, intent, draft, ready, runtime, stage, seen, quiet, born, txns, cuts>>
      /\ faults' \in 0..MaxFaults /\ pc = "write"
  BY DEF WriteTemp, Durably, NoFault, Fault, Goto, CountsOK
<1>3. FilesOK' /\ ServicesOK' /\ CountsOK' /\ OneService'
  BY <1>1, <1>2, OneServiceKept DEF FilesOK, ServicesOK, CountsOK
<1>4. CASE WriteFailed
  <2>1. /\ LInv' /\ pc' \notin {"write", "swap"} /\ (mem' = mem \/ mem' = NoRecord)
        /\ pc' = "revert" => mem.phase = "boot_disabled"
    BY <1>1, <1>2, <1>4, WriteFailedKeeps
  <2>2. OneTxn'
    BY <1>1, <1>2, <2>1 DEF CInv, OneTxn
  <2>3. Reliance' /\ DisabledIsRecoverable'
    BY <1>1, <1>2, <2>1 DEF CInv, OneTxn, Reliance, DisabledIsRecoverable, Readable
  <2> QED BY <1>3, <2>1, <2>2, <2>3 DEF CInv
<1>5. CASE pc' = "swap" /\ temp' = mem /\ Goto("swap") /\ UNCHANGED memory
  <2> USE <1>5 DEF Goto, memory
  <2>1. LauncherOK'
    BY <1>1 DEF LInv, LauncherOK, Steps
  <2>2. Calls' /\ Launches' /\ Known'
    BY <1>1, <1>2 DEF LInv, Calls, Launches, Known, Launched
  <2>3. OneTxn'
    BY <1>1, <1>2 DEF CInv, OneTxn
  <2>4. Reliance' /\ DisabledIsRecoverable'
    BY <1>1, <1>2 DEF CInv, OneTxn, Reliance, DisabledIsRecoverable, Readable
  <2> QED BY <1>3, <2>1, <2>2, <2>3, <2>4 DEF LInv, CInv
<1> QED BY <1>2, <1>4, <1>5

(* The old record goes only while the temporary file is complete.          *)
LEMMA SwapStep == ASSUME IInv, Swap PROVE IInv'
<1> USE EmptyRecords DEF IInv, letters, service, counts
<1>1. /\ mem.txn # 0 /\ mem \in Records /\ temp = mem /\ pc = "swap"
      /\ Running' = Running /\ overtaken' = overtaken
  BY RunningKept DEF Swap, LInv, CInv, Known, LauncherOK, Reliance
<1>2. /\ \/ journal' = journal /\ temp' = temp
         \/ journal' = NoRecord /\ temp' = temp
         \/ journal' = temp /\ temp' = NoRecord
      /\ \/ UNCHANGED <<control, memory>> /\ temp' = temp
         \/ Written
         \/ WriteFailed
      /\ UNCHANGED <<boot, intent, draft, ready, runtime, stage, seen, quiet, born, txns, cuts>>
      /\ faults' \in 0..MaxFaults
  BY DEF Swap, Durably, NoFault, Fault, record, CountsOK
<1>3. FilesOK' /\ ServicesOK' /\ CountsOK' /\ OneService'
  BY <1>1, <1>2, OneServiceKept DEF FilesOK, ServicesOK, CountsOK
<1>4. DisabledIsRecoverable'
  BY <1>1, <1>2 DEF CInv, DisabledIsRecoverable, Readable
<1>5. ASSUME mem' = mem \/ mem' = NoRecord PROVE OneTxn'
  BY <1>1, <1>2, <1>5 DEF CInv, OneTxn
<1>6. CASE UNCHANGED <<control, memory>> /\ temp' = temp
  <2>1. LInv'
    BY <1>1, <1>6, LauncherKept DEF LInv, LauncherOK
  <2>2. Reliance'
    BY <1>2, <1>6 DEF CInv, Reliance, control, memory
  <2> QED BY <1>3, <1>4, <1>5, <1>6, <2>1, <2>2 DEF CInv, memory
<1>7. CASE Written
  <2>1. /\ LInv' /\ pc' \in {"intent", "rest", "clear", "off"} /\ (mem' = mem \/ mem' = NoRecord)
    BY <1>1, <1>7, WrittenKeeps
  <2> QED BY <1>3, <1>4, <1>5, <2>1 DEF CInv, Reliance
<1>8. CASE WriteFailed
  <2>1. /\ LInv' /\ pc' \notin {"write", "swap"} /\ (mem' = mem \/ mem' = NoRecord)
        /\ pc' = "revert" => mem.phase = "boot_disabled"
    BY <1>1, <1>8, WriteFailedKeeps
  <2>2. Reliance'
    BY <1>1, <1>2, <2>1 DEF CInv, Reliance
  <2> QED BY <1>3, <1>4, <1>5, <2>1, <2>2 DEF CInv
<1> QED BY <1>2, <1>6, <1>7, <1>8

(* What is read is a record of the hand-off, and what stays can be read.   *)
LEMMA ReadStep == ASSUME IInv, Read PROVE IInv'
<1> USE EmptyRecords DEF IInv, letters, service, counts
<1>1. pc = "read" /\ Running' = Running /\ overtaken' = overtaken
  BY RunningKept DEF Read
<1>2. /\ \/ journal' = journal /\ temp' = temp
         \/ temp = Torn /\ journal # NoRecord /\ temp' = NoRecord /\ journal' = journal
         \/ temp \notin {NoRecord, Torn} /\ journal' = NoRecord /\ temp' = temp
         \/ temp \notin {NoRecord, Torn} /\ journal' = temp /\ temp' = NoRecord
      /\ \/ UNCHANGED <<control, memory>>
         \/ RestoreFailed
         \/ Accept(journal) /\ journal' = journal /\ journal # NoRecord /\ temp' = NoRecord
         \/ Accept(temp) /\ temp \notin {NoRecord, Torn} /\ journal' = temp
      /\ UNCHANGED <<boot, intent, draft, ready, runtime, stage, seen, quiet, born, txns, cuts>>
      /\ faults' \in 0..MaxFaults
  BY DEF Read, Durably, NoFault, Fault, record, Readable, CountsOK
<1>3. FilesOK' /\ ServicesOK' /\ CountsOK' /\ OneService'
  BY <1>1, <1>2, OneServiceKept DEF FilesOK, ServicesOK, CountsOK
<1>4. DisabledIsRecoverable'
  BY <1>2 DEF CInv, DisabledIsRecoverable, Readable
<1>5. CASE UNCHANGED <<control, memory>>
  <2>1. LInv'
    BY <1>1, <1>5, LauncherKept DEF LInv, LauncherOK
  <2>2. OneTxn' /\ Reliance'
    BY <1>1, <1>2, <1>5 DEF CInv, OneTxn, Reliance, control, memory
  <2> QED BY <1>3, <1>4, <2>1, <2>2 DEF CInv
<1>6. CASE RestoreFailed
  <2>1. /\ LInv' /\ pc' \in {"read", "clear", "rest", "off"} /\ (mem' = mem \/ mem' = NoRecord)
    BY <1>1, <1>6, RestoreFailedKeeps
  <2>2. OneTxn' /\ Reliance'
    BY <1>1, <1>2, <2>1 DEF CInv, OneTxn, Reliance
  <2> QED BY <1>3, <1>4, <2>1, <2>2 DEF CInv
<1>7. ASSUME NEW r \in {journal, temp} \ {NoRecord, Torn}, Accept(r), journal' = r, temp' = NoRecord \/ temp' = temp
      PROVE  IInv'
  <2> USE <1>7 DEF Accept, Goto
  <2>1. r \in Records /\ r.txn # 0
    BY DEF FilesOK, CInv, OneTxn
  <2>2. LauncherOK'
    BY <1>1, <2>1 DEF LInv, LauncherOK, Steps
  <2>3. Calls' /\ Launches' /\ Known'
    BY <1>1, <2>1 DEF LInv, LauncherOK, Calls, Launches, Known, Launched
  <2>4. OneTxn' /\ Reliance'
    BY <1>1, <1>2, <2>1 DEF CInv, OneTxn, Reliance
  <2> QED BY <1>3, <1>4, <2>2, <2>3, <2>4 DEF LInv, CInv
<1> QED BY <1>2, <1>5, <1>6, <1>7 DEF FilesOK

(* The flag comes back before that is recorded.                            *)
LEMMA RestoreBootStep == ASSUME IInv, RestoreBoot PROVE IInv'
<1> USE DEF IInv, letters, service, counts, record
<1>1. /\ pc = "restore" /\ Running' = Running /\ overtaken' = overtaken
      /\ mem.txn # 0 /\ mem \in Records
  BY RunningKept DEF RestoreBoot, LInv, Known, LauncherOK
<1>2. /\ boot' \in {boot, "flag"}
      /\ \/ RestoreFailed
         \/ /\ mem' = [mem EXCEPT !.phase = "boot_restored"] /\ Goto("write")
            /\ UNCHANGED <<disabled, absent, attempts, ok>>
      /\ UNCHANGED <<journal, temp, intent, draft, ready, runtime, stage, seen, quiet, born, txns, cuts>>
      /\ faults' \in 0..MaxFaults
  BY DEF RestoreBoot, Durably, NoFault, Fault, CountsOK
<1>3. FilesOK' /\ ServicesOK' /\ CountsOK' /\ OneService'
  BY <1>1, <1>2, OneServiceKept DEF FilesOK, ServicesOK, CountsOK
<1>4. DisabledIsRecoverable'
  BY <1>2 DEF CInv, DisabledIsRecoverable, Readable
<1>5. CASE RestoreFailed
  <2>1. /\ LInv' /\ pc' \in {"read", "clear", "rest", "off"} /\ (mem' = mem \/ mem' = NoRecord)
    BY <1>1, <1>5, RestoreFailedKeeps
  <2>2. OneTxn' /\ Reliance'
    BY <1>2, <2>1, EmptyRecords DEF CInv, OneTxn, Reliance
  <2> QED BY <1>3, <1>4, <2>1, <2>2 DEF CInv
<1>6. CASE /\ mem' = [mem EXCEPT !.phase = "boot_restored"] /\ Goto("write")
           /\ UNCHANGED <<disabled, absent, attempts, ok>>
  <2> USE <1>6 DEF Goto
  <2>1. mem' \in Records /\ mem'.txn = mem.txn /\ mem'.phase = "boot_restored"
    BY <1>1 DEF Records
  <2>2. LauncherOK'
    BY <1>1, <2>1 DEF LInv, LauncherOK, Steps
  <2>3. Calls' /\ Launches' /\ Known'
    BY <1>1, <2>1 DEF LInv, LauncherOK, Calls, Launches, Known, Launched
  <2>4. OneTxn' /\ Reliance'
    BY <1>1, <1>2, <2>1 DEF CInv, OneTxn, Reliance
  <2> QED BY <1>3, <1>4, <2>2, <2>3, <2>4 DEF LInv, CInv
<1> QED BY <1>2, <1>5, <1>6

(* The letters may be cleared or not; the routine goes on.                 *)
LEMMA ClearIntentStep == ASSUME IInv, ClearIntent PROVE IInv'
<1> USE DEF IInv, ClearIntent, Tried, Goto, NoFault, Fault, service, counts, memory, record
<1>1. Running' = Running
  BY RunningKept
<1>2. FilesOK' /\ ServicesOK' /\ CountsOK' /\ OneService'
  <2>1. FilesOK'
    BY <1>1 DEF FilesOK
  <2>2. ServicesOK' /\ CountsOK'
    BY <1>1 DEF ServicesOK, CountsOK
  <2>3. OneService'
    BY <1>1, OneServiceKept
  <2> QED BY <2>1, <2>2, <2>3
<1>3. LauncherOK'
  BY DEF LInv, LauncherOK, Steps
<1>4. Calls' /\ Launches' /\ Known'
  BY <1>1 DEF LInv, LauncherOK, Calls, Launches, Known, Launched
<1>5. CInv'
  BY CardKept
<1> QED BY <1>2, <1>3, <1>4, <1>5 DEF LInv

(* A launch follows only for the tick that saw the source gone.            *)
LEMMA ClearReadyStep == ASSUME IInv, ClearReady PROVE IInv'
<1> USE DEF IInv
<1>1. /\ pc = "clear2" /\ Running' = Running /\ mem.txn # 0 /\ overtaken' = overtaken
      /\ UNCHANGED <<boot, record, stage>>
  BY RunningKept DEF ClearReady, record, service, LInv, Known
<1>2. FilesOK' /\ ServicesOK' /\ CountsOK' /\ OneService'
  <2> USE DEF ClearReady, Tried, NoFault, Fault, service, counts, record, NoAck
  <2>1. ready' \in (0..MaxTxns) \X (Pids \cup {0})
    BY DEF FilesOK
  <2> QED BY <1>1, <2>1, OneServiceKept DEF FilesOK, ServicesOK, CountsOK
<1>3. \/ /\ UNCHANGED memory /\ pc' \in {"launch", "look", "finish"} /\ UNCHANGED <<task, phase>>
         /\ pc' = "launch" <=> task = "tick"
         /\ pc' = "look" => task = "recover"
      \/ UNCHANGED memory /\ Pause("failed") /\ task = "fail"
      \/ Off
  BY DEF ClearReady, Goto
<1>4. CASE Off
  <2>1. LInv' /\ mem' = NoRecord /\ pc' = "off"
    BY <1>1, <1>4, OffKeeps DEF LInv, LauncherOK
  <2> QED BY <1>1, <1>2, <2>1, CardKept
<1>5. CASE UNCHANGED memory /\ Pause("failed") /\ task = "fail"
  <2> USE <1>1, <1>5 DEF Pause, memory
  <2>1. LauncherOK'
    BY DEF LInv, LauncherOK, Steps
  <2>2. Calls' /\ Launches' /\ Known'
    BY DEF LInv, LauncherOK, Calls, Launches, Known, Launched
  <2> QED BY <1>2, <2>1, <2>2, CardKept DEF LInv
<1>6. CASE /\ UNCHANGED memory /\ pc' \in {"launch", "look", "finish"} /\ UNCHANGED <<task, phase>>
           /\ pc' = "launch" <=> task = "tick"
           /\ pc' = "look" => task = "recover"
  <2> USE <1>1, <1>6 DEF memory
  <2>1. LauncherOK'
    BY DEF LInv, LauncherOK, Steps
  <2>2. Calls' /\ Known'
    BY DEF LInv, LauncherOK, Calls, Known
  <2>3. Launches'
    BY DEF LInv, LauncherOK, Launches, Launched
  <2> QED BY <1>2, <2>1, <2>2, <2>3, CardKept DEF LInv
<1> QED BY <1>3, <1>4, <1>5, <1>6

(* While the flag is put aside the record stays.                           *)
LEMMA FinishStep == ASSUME IInv, Finish PROVE IInv'
<1> USE EmptyRecords DEF IInv, Finish, Goto, NoFault, Fault, service, counts, letters
<1>1. Running' = Running /\ mem.txn # 0
  BY RunningKept DEF LInv, Known
<1>2. FilesOK' /\ ServicesOK' /\ CountsOK' /\ OneService'
  BY <1>1, OneServiceKept DEF FilesOK, ServicesOK, CountsOK
<1>3. LauncherOK'
  BY DEF LInv, LauncherOK, Steps
<1>4. Calls' /\ Launches' /\ Known'
  BY <1>1 DEF LInv, LauncherOK, Calls, Launches, Known, Launched
<1>5. OneTxn' /\ Reliance' /\ DisabledIsRecoverable'
  BY DEF CInv, OneTxn, Reliance, DisabledIsRecoverable, Readable
<1> QED BY <1>2, <1>3, <1>4, <1>5 DEF LInv, CInv

(* Its temporary file neither.                                             *)
LEMMA FinishTempStep == ASSUME IInv, FinishTemp PROVE IInv'
<1> USE EmptyRecords DEF IInv, letters, service, counts
<1>1. /\ pc = "finish2" /\ Running' = Running /\ overtaken' = overtaken
      /\ UNCHANGED <<boot, journal, intent, draft, ready, runtime, stage, seen, quiet, born, txns, cuts>>
      /\ temp' \in {temp, NoRecord} /\ (boot = "backup" => temp' = temp)
      /\ faults' \in 0..MaxFaults
  <2>1. UNCHANGED <<boot, journal, letters, runtime, service, overtaken, counts>> /\ pc = "finish2"
    BY DEF FinishTemp
  <2>2. CASE temp' = (IF boot = "backup" THEN temp ELSE NoRecord) /\ NoFault
    BY <2>1, <2>2, RunningKept DEF NoFault, CountsOK
  <2>3. CASE UNCHANGED temp /\ Fault
    BY <2>1, <2>3, RunningKept DEF Fault, CountsOK
  <2> QED BY <2>2, <2>3 DEF FinishTemp
<1>6. \E fine \in BOOLEAN : Finished(fine)
  <2>1. Finished(ok) \/ Finished(FALSE)
    BY DEF FinishTemp
  <2>2. ok \in BOOLEAN
    BY DEF LInv, LauncherOK
  <2> QED BY <2>1, <2>2
<1>2. FilesOK' /\ ServicesOK' /\ CountsOK' /\ OneService'
  <2>1. FilesOK'
    BY <1>1 DEF FilesOK
  <2>2. ServicesOK' /\ CountsOK'
    BY <1>1 DEF ServicesOK, CountsOK
  <2>3. OneService'
    BY <1>1 DEF OneService
  <2> QED BY <2>1, <2>2, <2>3
<1>3. /\ LInv' /\ pc' \in {"rest", "off", "read", "clear"} /\ (mem' = mem \/ mem' = NoRecord)
  BY <1>1, <1>6, FinishedKeeps
<1>4. OneTxn' /\ Reliance' /\ DisabledIsRecoverable'
  BY <1>1, <1>3 DEF CInv, OneTxn, Reliance, DisabledIsRecoverable, Readable
<1> QED BY <1>2, <1>3, <1>4 DEF CInv

(* An application that is opened recovers what there is a record of.       *)
LEMMA OpenStep == ASSUME IInv, Open PROVE IInv'
<1> USE DEF IInv, Open, Pause, service, counts, memory, record, letters
<1>1. Running' = Running
  BY RunningKept
<1>2. FilesOK' /\ ServicesOK' /\ CountsOK' /\ OneService'
  BY <1>1, OneServiceKept DEF FilesOK, ServicesOK, CountsOK
<1>3. LauncherOK'
  BY DEF LInv, LauncherOK, Steps
<1>4. Calls' /\ Launches' /\ Known'
  BY <1>1 DEF LInv, LauncherOK, Calls, Launches, Known, Launched
<1>5. CInv'
  BY CardKept
<1> QED BY <1>2, <1>3, <1>4, <1>5 DEF LInv

(* What is begun is a hand-off of its own, on a card without records.      *)
LEMMA BeginStep == ASSUME IInv, Begin PROVE IInv'
<1> USE EmptyRecords DEF IInv, Begin, service, record, letters
<1>1. Running' = Running
  BY RunningKept
<1>2. txns + 1 \in 0..MaxTxns /\ txns + 1 # 0
  BY DEF CountsOK
<1>3. mem' \in Records /\ mem'.txn # 0 /\ mem'.phase = "prepared"
  BY <1>2 DEF Records, Running
<1>4. FilesOK' /\ ServicesOK' /\ CountsOK' /\ OneService'
  BY <1>1, <1>2, OneServiceKept DEF FilesOK, ServicesOK, CountsOK
<1>5. LauncherOK'
  BY <1>3 DEF LInv, LauncherOK, Steps
<1>6. Calls' /\ Launches' /\ Known'
  BY <1>1, <1>3 DEF LInv, LauncherOK, Calls, Launches, Known, Launched
<1>7. journal' = NoRecord /\ temp' = NoRecord /\ boot' = "flag" /\ pc' = "write"
  OBVIOUS
<1>8. OneTxn' /\ Reliance' /\ DisabledIsRecoverable'
  BY <1>3, <1>7 DEF OneTxn, Reliance, DisabledIsRecoverable
<1> QED BY <1>4, <1>5, <1>6, <1>8 DEF LInv, CInv

(* The service is asked, or the hand-off fails.                            *)
LEMMA WriteIntentStep == ASSUME IInv, WriteIntent PROVE IInv'
<1> USE DEF IInv, WriteIntent, service, counts, record
<1>1. /\ pc = "intent" /\ Running' = Running /\ mem.txn # 0 /\ mem.txn \in 0..MaxTxns
      /\ overtaken' = overtaken
  BY RunningKept DEF LInv, Known, LauncherOK, Records
<1>2. FilesOK' /\ ServicesOK' /\ CountsOK' /\ OneService'
  <2>1. intent' \in 0..MaxTxns /\ draft' \in BOOLEAN
    BY <1>1 DEF FilesOK
  <2>2. FilesOK'
    BY <2>1 DEF FilesOK
  <2>3. ServicesOK' /\ OneService'
    BY <1>1, OneServiceKept DEF ServicesOK
  <2>4. CountsOK'
    BY DEF CountsOK, NoFault, Fault
  <2> QED BY <2>2, <2>3, <2>4
<1>3. CASE GiveUp
  BY <1>1, <1>2, <1>3, GiveUpKeeps, CardKept
<1>4. CASE Pause("ack") /\ UNCHANGED memory
  <2> USE <1>4 DEF Pause, memory
  <2>1. LauncherOK'
    BY <1>1 DEF LInv, LauncherOK, Steps
  <2>2. Calls' /\ Launches' /\ Known'
    BY <1>1 DEF LInv, LauncherOK, Calls, Launches, Known, Launched
  <2> QED BY <1>1, <1>2, <2>1, <2>2, CardKept DEF LInv
<1> QED BY <1>3, <1>4

(* Only an answered hand-off goes on.                                      *)
LEMMA TickAckStep == ASSUME IInv, TickAck PROVE IInv'
<1> USE DEF IInv, TickAck, service, counts, record, letters
<1>1. Running' = Running /\ mem.txn # 0
  BY RunningKept DEF LInv, Known
<1>2. FilesOK' /\ ServicesOK' /\ CountsOK' /\ OneService'
  BY <1>1, OneServiceKept DEF FilesOK, ServicesOK, CountsOK
<1>3. CASE GiveUp
  BY <1>1, <1>2, <1>3, GiveUpKeeps, CardKept
<1>4. CASE Goto("disable") /\ UNCHANGED memory
  <2> USE <1>4 DEF Goto, memory
  <2>1. LauncherOK'
    BY <1>1 DEF LInv, LauncherOK, Steps
  <2>2. Calls' /\ Launches' /\ Known'
    BY <1>1 DEF LInv, LauncherOK, Calls, Launches, Known, Launched
  <2> QED BY <1>1, <1>2, <2>1, <2>2, CardKept DEF LInv
<1> QED BY <1>3, <1>4

(* A flag that is taken away, or half so, fails over to the record.        *)
LEMMA DisableFailedKeeps ==
  ASSUME LInv, Running' = Running, overtaken' = overtaken, mem.txn # 0,
         NEW taken \in BOOLEAN, DisableFailed(taken)
  PROVE  LInv' /\ mem' = mem /\ pc' \in {"read", "clear"}
<1> USE DEF DisableFailed, Fails, LInv
<1>1. LauncherOK'
  BY DEF LauncherOK, Steps
<1>2. Calls' /\ Launches' /\ Known'
  BY DEF LauncherOK, Calls, Launches, Known, Launched
<1> QED BY <1>1, <1>2

(* The flag is taken away while its record can be read.                    *)
LEMMA DisableBootStep == ASSUME IInv, DisableBoot PROVE IInv'
<1> USE EmptyRecords DEF IInv, service, counts, record, letters
<1>1. /\ pc = "disable" /\ Running' = Running /\ mem.txn # 0 /\ mem \in Records
      /\ journal # NoRecord /\ journal.txn = mem.txn /\ overtaken' = overtaken
      /\ boot' \in {"flag", "backup"} /\ faults' \in 0..MaxFaults
      /\ UNCHANGED <<journal, temp, intent, draft, ready, runtime, stage, seen, quiet, born, txns, cuts>>
  BY RunningKept DEF DisableBoot, LInv, Known, LauncherOK, NoFault, Fault, CountsOK
<1>2. FilesOK' /\ ServicesOK' /\ CountsOK' /\ OneService'
  BY <1>1, OneServiceKept DEF FilesOK, ServicesOK, CountsOK
<1>3. DisabledIsRecoverable'
  BY <1>1 DEF CInv, OneTxn, DisabledIsRecoverable, Readable
<1>4. CASE \E b \in {"flag", "backup"} : DisableFailed(b = "backup")
  <2>1. LInv' /\ mem' = mem /\ pc' \in {"read", "clear"}
    BY <1>1, <1>4, DisableFailedKeeps
  <2>2. OneTxn' /\ Reliance'
    BY <1>1, <2>1 DEF CInv, OneTxn, Reliance
  <2> QED BY <1>2, <1>3, <2>1, <2>2 DEF CInv
<1>5. CASE /\ boot' = "backup" /\ Goto("write")
           /\ mem' = [mem EXCEPT !.phase = "boot_disabled"]
           /\ UNCHANGED <<disabled, absent, attempts, ok>>
  <2> USE <1>5 DEF Goto
  <2>1. mem' \in Records /\ mem'.txn = mem.txn /\ mem'.phase = "boot_disabled"
    BY <1>1 DEF Records
  <2>2. LauncherOK'
    BY <1>1, <2>1 DEF LInv, LauncherOK, Steps
  <2>3. Calls' /\ Launches' /\ Known'
    BY <1>1, <2>1 DEF LInv, LauncherOK, Calls, Launches, Known, Launched
  <2>4. OneTxn' /\ Reliance'
    BY <1>1, <2>1 DEF CInv, OneTxn, Reliance
  <2> QED BY <1>2, <1>3, <2>2, <2>3, <2>4 DEF LInv, CInv
<1> QED BY <1>4, <1>5 DEF DisableBoot

(* A flag without a record of its absence is put back, or can be.          *)
LEMMA RevertStep == ASSUME IInv, Revert PROVE IInv'
<1> USE EmptyRecords DEF IInv, service, counts, record, letters
<1>1. /\ pc = "revert" /\ boot = "backup" /\ Running' = Running /\ mem.txn # 0
      /\ overtaken' = overtaken /\ boot' \in {"flag", "backup"} /\ faults' \in 0..MaxFaults
      /\ UNCHANGED <<journal, temp, intent, draft, ready, runtime, stage, seen, quiet, born, txns, cuts>>
      /\ \E b \in {"flag", "backup"} : DisableFailed(b = "backup")
  BY RunningKept DEF Revert, LInv, CInv, Known, Reliance, NoFault, Fault, CountsOK
<1>2. FilesOK' /\ ServicesOK' /\ CountsOK' /\ OneService'
  BY <1>1, OneServiceKept DEF FilesOK, ServicesOK, CountsOK
<1>3. LInv' /\ mem' = mem /\ pc' \in {"read", "clear"}
  BY <1>1, DisableFailedKeeps
<1>4. OneTxn' /\ Reliance' /\ DisabledIsRecoverable'
  BY <1>1, <1>3 DEF CInv, OneTxn, Reliance, DisabledIsRecoverable, Readable
<1> QED BY <1>2, <1>3, <1>4 DEF CInv

(* The samples are taken while nothing runs, before any launch.            *)
LEMMA TickExitStep == ASSUME IInv, TickExit PROVE IInv'
<1> USE DEF IInv, TickExit, service, counts, record, letters
<1>1. Running' = Running /\ mem.txn # 0
  BY RunningKept DEF LInv, Known
<1>2. FilesOK' /\ ServicesOK' /\ CountsOK' /\ OneService'
  BY <1>1, OneServiceKept DEF FilesOK, ServicesOK, CountsOK
<1>3. LauncherOK'
  <2>1. absent' \in 0..(Samples - 1)
    BY DEF LInv, LauncherOK
  <2>2. CASE UNCHANGED <<control, mem, disabled, attempts, ok>>
    BY <2>1, <2>2 DEF LInv, LauncherOK, control
  <2>3. CASE pc' = "restore" /\ task' = "tick" /\ ok' = TRUE /\ UNCHANGED <<phase, mem, disabled, attempts>>
    BY <2>1, <2>3 DEF LInv, LauncherOK, Steps
  <2> QED BY <2>2, <2>3
<1>4. Calls' /\ Launches' /\ Known'
  BY <1>1 DEF LInv, LauncherOK, Calls, Launches, Known, Launched, control
<1>5. CInv'
  BY CardKept DEF control
<1> QED BY <1>2, <1>3, <1>4, <1>5 DEF LInv

(* A source that stays too long ends the hand-off.                         *)
LEMMA TickExitTimeoutStep == ASSUME IInv, TickExitTimeout PROVE IInv'
<1> USE DEF IInv, TickExitTimeout, service, counts, record, letters
<1>1. Running' = Running /\ mem.txn # 0
  BY RunningKept DEF LInv, Known
<1>2. FilesOK' /\ ServicesOK' /\ CountsOK' /\ OneService'
  BY <1>1, OneServiceKept DEF FilesOK, ServicesOK, CountsOK
<1> QED BY <1>1, <1>2, GiveUpKeeps, CardKept

(* What is launched is alone, and no launch exceeds the attempts.          *)
LEMMA LaunchStep == ASSUME IInv, Launch PROVE IInv'
<1> USE DEF IInv, record, letters
<1>1. /\ pc = "launch" /\ Running = {} /\ attempts \in 0..(MaxAttempts - 1) /\ mem.txn # 0
      /\ mem \in Records /\ task \in {"tick", "ready"} /\ born + 1 \in Pids
  <2>1. pc = "launch" /\ born + 1 \in Pids
    BY DEF Launch, ServicesOK
  <2>2. Running = {} /\ attempts \in 0..(MaxAttempts - 1)
    BY <2>1 DEF LInv, LauncherOK, Launches
  <2>3. mem.txn # 0 /\ mem \in Records /\ task \in {"tick", "ready"}
    BY <2>1 DEF LInv, LauncherOK, Calls, Known
  <2> QED BY <2>1, <2>2, <2>3
<1>2. /\ UNCHANGED <<boot, journal, temp, intent, draft, ready, seen, quiet, overtaken, txns, cuts>>
      /\ runtime' = 0
  BY DEF Launch
<1>3. FilesOK'
  BY <1>2 DEF FilesOK
<1>4. CASE Fault /\ LaunchFailed(attempts + 1) /\ UNCHANGED <<born, stage>>
  <2>1. Running' = Running /\ attempts + 1 \in 0..MaxAttempts
    BY <1>1, <1>4, RunningKept
  <2>2. LInv' /\ mem' = mem /\ pc' \in {"launch", "read", "clear"}
    BY <1>1, <1>2, <1>4, <2>1, LaunchFailedKeeps
  <2>3. ServicesOK' /\ CountsOK' /\ OneService'
    BY <1>2, <1>4, <2>1, OneServiceKept DEF ServicesOK, CountsOK, Fault
  <2>4. CInv'
    BY <1>2, <2>2, CardKept
  <2> QED BY <1>3, <2>2, <2>3, <2>4
<1>5. CASE /\ NoFault /\ born' = born + 1
           /\ stage' = [stage EXCEPT ![born + 1] = "starting"]
           /\ mem' = [mem EXCEPT !.target = born + 1, !.phase = "target_launched"]
           /\ attempts' = attempts + 1 /\ Goto("write")
           /\ UNCHANGED <<disabled, absent, ok>>
  <2> USE <1>5 DEF Goto
  <2>1. Running' \subseteq {born + 1}
    BY <1>1 DEF Running, ServicesOK
  <2>2. mem' \in Records /\ mem'.txn = mem.txn /\ mem'.phase = "target_launched"
    BY <1>1 DEF Records
  <2>3. ServicesOK' /\ CountsOK'
    BY <1>1, <1>2 DEF ServicesOK, CountsOK, Stages, NoFault
  <2>4. OneService'
    BY <2>1 DEF OneService
  <2>5. LauncherOK'
    BY <1>1, <1>2, <2>2 DEF LInv, LauncherOK, Steps
  <2>6. Calls' /\ Launches' /\ Known'
    BY <1>1, <2>2 DEF LInv, LauncherOK, Calls, Launches, Known, Launched
  <2>7. OneTxn' /\ Reliance' /\ DisabledIsRecoverable'
    BY <1>1, <1>2, <2>2 DEF CInv, OneTxn, Reliance, DisabledIsRecoverable, Readable
  <2> QED BY <1>3, <2>3, <2>4, <2>5, <2>6, <2>7 DEF LInv, CInv
<1> QED BY <1>4, <1>5 DEF Launch

(* A target that is not ready is started again only if it is gone.         *)
LEMMA TickReadyStep == ASSUME IInv, TickReady PROVE IInv'
<1> USE DEF IInv, service, counts, record, letters
<1>1. /\ pc = "rest" /\ phase = "ready" /\ Running' = Running /\ mem.txn # 0 /\ overtaken' = overtaken
      /\ UNCHANGED <<boot, journal, temp, intent, draft, ready, runtime, stage, seen, quiet, born, txns,
                     cuts, faults>>
  BY RunningKept DEF TickReady, LInv, Known
<1>2. FilesOK' /\ ServicesOK' /\ CountsOK' /\ OneService'
  BY <1>1, OneServiceKept DEF FilesOK, ServicesOK, CountsOK
<1>3. CASE GiveUp
  BY <1>1, <1>2, <1>3, GiveUpKeeps, CardKept
<1>4. CASE /\ pc' \in {"finish", "launch"} /\ task' = "ready" /\ ok' \in BOOLEAN
           /\ UNCHANGED <<phase, mem, disabled, absent, attempts>>
           /\ pc' = "launch" => MayLaunch(attempts)
  <2> USE <1>1, <1>4 DEF MayLaunch
  <2>1. LauncherOK'
    BY DEF LInv, LauncherOK, Steps
  <2>2. Calls' /\ Launches' /\ Known'
    BY DEF LInv, LauncherOK, Calls, Launches, Known, Launched
  <2> QED BY <1>2, <2>1, <2>2, CardKept DEF LInv
<1> QED BY <1>1, <1>3, <1>4 DEF TickReady, memory, LInv, LauncherOK

(* A recovery has launched nothing yet.                                    *)
LEMMA LookStep == ASSUME IInv, Look PROVE IInv'
<1> USE DEF IInv
<1>1. /\ pc = "look" /\ task = "recover" /\ attempts = 0 /\ Running' = Running /\ mem.txn # 0
      /\ mem \in Records
      /\ UNCHANGED <<boot, journal, temp, intent, draft, ready, runtime, stage, seen, quiet, born, txns, cuts>>
  BY RunningKept DEF Look, LInv, LauncherOK, Calls, Launches, Known, record, letters, service, counts
<1>2. faults' \in 0..MaxFaults
  BY DEF Look, NoFault, Fault, CountsOK
<1>3. FilesOK' /\ ServicesOK' /\ CountsOK' /\ OneService'
  BY <1>1, <1>2, OneServiceKept DEF FilesOK, ServicesOK, CountsOK
<1>4. overtaken' \in BOOLEAN
  BY Zenon DEF Look
<1>5. /\ \/ mem' = mem
         \/ \E p \in Pids : mem' = [mem EXCEPT !.target = p]
      /\ UNCHANGED <<disabled, absent, attempts, ok>>
      /\ \/ pc' = "rest" /\ task' = "none" /\ phase' \in {"exit", "ready", "failed"}
         \/ pc' = "finish" /\ UNCHANGED <<task, phase>>
  BY DEF Look, Missing, Pause, Goto, memory, Running
<1>6. mem' \in Records /\ mem'.txn = mem.txn
  BY <1>1, <1>5 DEF Records
<1>7. LauncherOK'
  BY <1>4, <1>5, <1>6 DEF LInv, LauncherOK, Steps
<1>8. Calls' /\ Launches' /\ Known'
  BY <1>1, <1>5, <1>6 DEF LInv, LauncherOK, Calls, Launches, Known, Launched
<1>9. OneTxn' /\ Reliance' /\ DisabledIsRecoverable'
  BY <1>1, <1>5, <1>6 DEF CInv, OneTxn, Reliance, DisabledIsRecoverable, Readable
<1> QED BY <1>3, <1>7, <1>8, <1>9 DEF LInv, CInv

(* Closing the application gives the flag back, if it was taken.           *)
LEMMA ExitStep == ASSUME IInv, Exit PROVE IInv'
<1> USE DEF IInv
<1>1. /\ pc = "rest" /\ Running' = Running /\ overtaken' = overtaken
      /\ UNCHANGED <<boot, journal, temp, intent, draft, ready, runtime, stage, seen, quiet, born, txns, faults>>
  BY RunningKept DEF Exit, record, letters, service
<1>2. cuts' \in 0..MaxCuts
  BY DEF Exit, CountsOK
<1>3. FilesOK' /\ ServicesOK' /\ CountsOK' /\ OneService'
  BY <1>1, <1>2, OneServiceKept DEF FilesOK, ServicesOK, CountsOK
<1>4. CASE Off
  <2>1. LInv' /\ mem' = NoRecord /\ pc' = "off"
    BY <1>1, <1>4, OffKeeps DEF LInv, LauncherOK
  <2> QED BY <1>1, <1>3, <2>1, CardKept DEF record
<1>5. CASE /\ disabled \/ phase \in {"ack", "exit"}
           /\ pc' = (IF disabled THEN "read" ELSE "clear") /\ task' = "exit" /\ ok' = TRUE
           /\ UNCHANGED <<phase, mem, disabled, absent, attempts>>
  <2>1. LauncherOK'
    BY <1>1, <1>5 DEF LInv, LauncherOK, Steps
  <2>2. Calls' /\ Launches' /\ Known'
    BY <1>1, <1>5 DEF LInv, LauncherOK, Calls, Launches, Known, Launched
  <2>3. CInv'
    BY <1>1, <1>5, CardKept DEF record
  <2> QED BY <1>3, <2>1, <2>2, <2>3 DEF LInv
<1> QED BY <1>4, <1>5 DEF Exit

-----------------------------------------------------------------------------
(* A service's step brings up no other one and leaves the launcher and the *)
(* records alone.                                                          *)
ServiceFrame(p) ==
  /\ UNCHANGED <<boot, record, control, memory, overtaken, draft, born, txns, cuts>>
  /\ \/ stage' = stage
     \/ /\ stage[p] \notin {"none", "gone"}
        /\ \E label \in Stages : stage' = [stage EXCEPT ![p] = label]

(* A step of a service changes its own stage only.                         *)
LEMMA ServiceSteps ==
  ASSUME NEW p \in Pids, Service(p)
  PROVE  ServiceFrame(p)
<1> USE DEF ServiceFrame, letters, counts, Moves, Stages
<1>1. CASE Start(p)
  BY <1>1 DEF Start
<1>2. CASE ReadIntent(p)
  BY <1>2 DEF ReadIntent
<1>3. CASE WriteReady(p)
  BY <1>3 DEF WriteReady
<1>4. CASE CheckFlag(p)
  BY <1>4 DEF CheckFlag
<1>5. CASE RemoveIntent(p)
  BY <1>5 DEF RemoveIntent
<1>6. CASE RemoveReady(p)
  BY <1>6 DEF RemoveReady
<1>7. CASE Leave(p)
  BY <1>7 DEF Leave
<1> QED BY <1>1, <1>2, <1>3, <1>4, <1>5, <1>6, <1>7 DEF Service

(* The letters a service writes, and its silence, are bounded.             *)
LEMMA ServiceTypes ==
  ASSUME FilesOK, ServicesOK, CountsOK, NEW p \in Pids, Service(p)
  PROVE  FilesOK' /\ ServicesOK' /\ CountsOK'
<1>1. ServiceFrame(p)
  BY ServiceSteps
<1>2. stage' \in [Pids -> Stages]
  BY <1>1 DEF ServiceFrame, ServicesOK
<1>3. intent' \in 0..MaxTxns /\ seen' \in [Pids -> 0..MaxTxns]
  <2> USE DEF FilesOK, ServicesOK, Tried, letters
  <2>1. CASE Start(p)
    BY <2>1 DEF Start
  <2>2. CASE ReadIntent(p)
    BY <2>2 DEF ReadIntent
  <2>3. CASE WriteReady(p)
    BY <2>3 DEF WriteReady
  <2>4. CASE CheckFlag(p)
    BY <2>4 DEF CheckFlag
  <2>5. CASE RemoveIntent(p)
    BY <2>5 DEF RemoveIntent
  <2>6. CASE RemoveReady(p)
    BY <2>6 DEF RemoveReady
  <2>7. CASE Leave(p)
    BY <2>7 DEF Leave
  <2> QED BY <2>1, <2>2, <2>3, <2>4, <2>5, <2>6, <2>7 DEF Service
<1>4. ready' \in (0..MaxTxns) \X (Pids \cup {0}) /\ runtime' \in Pids \cup {0}
  <2> USE DEF FilesOK, ServicesOK, Tried, letters, NoAck
  <2>1. CASE Start(p)
    BY <2>1 DEF Start
  <2>2. CASE ReadIntent(p)
    BY <2>2 DEF ReadIntent
  <2>3. CASE WriteReady(p)
    BY <2>3 DEF WriteReady
  <2>4. CASE CheckFlag(p)
    BY <2>4 DEF CheckFlag
  <2>5. CASE RemoveIntent(p)
    BY <2>5 DEF RemoveIntent
  <2>6. CASE RemoveReady(p)
    BY <2>6 DEF RemoveReady
  <2>7. CASE Leave(p)
    BY <2>7 DEF Leave
  <2> QED BY <2>1, <2>2, <2>3, <2>4, <2>5, <2>6, <2>7 DEF Service
<1>5. quiet' \in [Pids -> 0..(MaxQuiet - 1)]
  <2> USE DEF ServicesOK
  <2>1. CASE Start(p)
    BY <2>1 DEF Start
  <2>2. CASE ReadIntent(p)
    BY <2>2 DEF ReadIntent
  <2>3. CASE WriteReady(p)
    BY <2>3 DEF WriteReady
  <2>4. CASE CheckFlag(p)
    <3>1. quiet[p] \in 0..(MaxQuiet - 1) /\ 0 \in 0..(MaxQuiet - 1)
      OBVIOUS
    <3>2. ~QuietTooLong(p) => (IF quiet[p] < MaxQuiet THEN quiet[p] + 1 ELSE quiet[p]) \in 0..(MaxQuiet - 1)
      BY <3>1 DEF QuietTooLong
    <3> QED BY <2>4, <3>1, <3>2 DEF CheckFlag
  <2>5. CASE RemoveIntent(p)
    BY <2>5 DEF RemoveIntent
  <2>6. CASE RemoveReady(p)
    BY <2>6 DEF RemoveReady
  <2>7. CASE Leave(p)
    BY <2>7 DEF Leave
  <2> QED BY <2>1, <2>2, <2>3, <2>4, <2>5, <2>6, <2>7 DEF Service
<1>6. faults' \in 0..MaxFaults
  <2> USE DEF CountsOK, Tried, NoFault, Fault
  <2>1. CASE Start(p)
    BY <2>1 DEF Start
  <2>2. CASE ReadIntent(p)
    BY <2>2 DEF ReadIntent
  <2>3. CASE WriteReady(p)
    BY <2>3 DEF WriteReady
  <2>4. CASE CheckFlag(p)
    BY <2>4 DEF CheckFlag
  <2>5. CASE RemoveIntent(p)
    BY <2>5 DEF RemoveIntent
  <2>6. CASE RemoveReady(p)
    BY <2>6 DEF RemoveReady
  <2>7. CASE Leave(p)
    BY <2>7 DEF Leave
  <2> QED BY <2>1, <2>2, <2>3, <2>4, <2>5, <2>6, <2>7 DEF Service
<1> QED BY <1>1, <1>2, <1>3, <1>4, <1>5, <1>6 DEF ServiceFrame, FilesOK, ServicesOK, CountsOK, record

(* No step of a service disturbs the invariant.                            *)
LEMMA ServiceStep == ASSUME IInv, NEW p \in Pids, Service(p) PROVE IInv'
<1> USE DEF IInv
<1>1. ServiceFrame(p)
  BY ServiceSteps
<1>2. FilesOK' /\ ServicesOK' /\ CountsOK'
  BY ServiceTypes
<1>3. Running' \subseteq Running
  BY <1>1 DEF ServiceFrame, Running, ServicesOK
<1>4. OneService'
  BY <1>3, OneServiceKept
<1>5. LInv'
  BY <1>1, <1>3, LauncherKept DEF ServiceFrame, LInv, LauncherOK
<1>6. CInv'
  BY <1>1, CardKept DEF ServiceFrame, control, memory
<1> QED BY <1>2, <1>4, <1>5, <1>6

-----------------------------------------------------------------------------
(* Whatever is interrupted, the card keeps what was on it.                 *)
LEMMA InterruptedKeeps ==
  ASSUME IInv, Interrupted
  PROVE  FilesOK' /\ CountsOK' /\ LInv' /\ CInv'
<1> USE EmptyRecords DEF IInv
<1>1. /\ UNCHANGED <<boot, journal, intent, ready, runtime, overtaken, txns, faults>> /\ Off
      /\ draft' \in BOOLEAN /\ cuts' \in 0..MaxCuts
      /\ temp' = temp \/ (temp = NoRecord /\ temp' = Torn)
  <2>1. UNCHANGED <<boot, journal, intent, ready, runtime, overtaken, txns, faults>> /\ Off
    BY DEF Interrupted
  <2>2. draft' \in BOOLEAN
    BY DEF Interrupted, FilesOK
  <2>3. cuts' \in 0..MaxCuts
    BY DEF Interrupted, CountsOK
  <2>4. temp' = temp \/ (temp = NoRecord /\ temp' = Torn)
    BY DEF Interrupted
  <2> QED BY <2>1, <2>2, <2>3, <2>4
<1>2. LInv' /\ mem' = NoRecord /\ pc' = "off"
  BY <1>1, OffKeeps DEF LInv, LauncherOK
<1>3. FilesOK' /\ CountsOK'
  BY <1>1 DEF FilesOK, CountsOK
<1>4. OneTxn' /\ Reliance' /\ DisabledIsRecoverable'
  BY <1>1, <1>2 DEF CInv, OneTxn, Reliance, DisabledIsRecoverable, Readable
<1> QED BY <1>2, <1>3, <1>4 DEF CInv

(* An application that is killed leaves the services alone.                *)
LEMMA KillStep == ASSUME IInv, Kill PROVE IInv'
<1>1. FilesOK' /\ CountsOK' /\ LInv' /\ CInv'
  BY InterruptedKeeps DEF Kill
<1>2. UNCHANGED <<stage, seen, quiet, born>>
  BY DEF Kill, service
<1>3. ServicesOK' /\ OneService'
  BY <1>2, RunningKept, OneServiceKept DEF IInv, ServicesOK
<1> QED BY <1>1, <1>3 DEF IInv

(* With the power back, boot2 starts one service at most.                  *)
LEMMA PowerLossStep == ASSUME IInv, PowerLoss PROVE IInv'
<1> DEFINE ended == [p \in Pids |-> IF stage[p] = "none" THEN "none" ELSE "gone"]
<1>1. FilesOK' /\ CountsOK' /\ LInv' /\ CInv'
  BY InterruptedKeeps DEF PowerLoss
<1>2. seen' = [p \in Pids |-> 0] /\ quiet' = [p \in Pids |-> 0]
  BY DEF PowerLoss
<1>3. CASE /\ born < MaxProcesses /\ born' = born + 1
           /\ stage' = [ended EXCEPT ![born + 1] = "starting"]
  <2>1. ServicesOK'
    BY <1>2, <1>3 DEF IInv, ServicesOK, Stages
  <2>2. Running' \subseteq {born + 1}
    BY <1>3 DEF Running
  <2>3. OneService'
    BY <2>2 DEF OneService
  <2> QED BY <1>1, <2>1, <2>3 DEF IInv
<1>4. CASE UNCHANGED born /\ stage' = ended
  <2>1. ServicesOK'
    BY <1>2, <1>4 DEF IInv, ServicesOK, Stages
  <2>2. Running' = {}
    BY <1>4 DEF Running
  <2>3. OneService'
    BY <2>2 DEF OneService
  <2> QED BY <1>1, <2>1, <2>3 DEF IInv
<1> QED BY <1>3, <1>4 DEF PowerLoss

-----------------------------------------------------------------------------
(* The inductive invariant holds before the first hand-off.                *)
LEMMA InitIInv == Init => IInv
<1> SUFFICES ASSUME Init PROVE IInv
  OBVIOUS
<1> USE EmptyRecords DEF Init
<1>1. FilesOK
  <2>1. journal \in Records /\ temp \in Records
    BY EmptyRecords
  <2>2. ready \in (0..MaxTxns) \X (Pids \cup {0})
    BY DEF NoAck
  <2>3. draft \in BOOLEAN
    OBVIOUS
  <2> QED BY <2>1, <2>2, <2>3 DEF FilesOK
<1>2. CountsOK
  BY DEF CountsOK
<1>3. ServicesOK
  <2>1. stage \in [Pids -> Stages]
    BY DEF Stages
  <2>2. quiet \in [Pids -> 0..(MaxQuiet - 1)] /\ seen \in [Pids -> 0..MaxTxns]
    OBVIOUS
  <2> QED BY <2>1, <2>2 DEF ServicesOK
<1>4. LauncherOK
  <2>1. mem \in Records
    BY EmptyRecords
  <2>2. disabled \in BOOLEAN /\ ok \in BOOLEAN /\ overtaken \in BOOLEAN
    OBVIOUS
  <2>3. absent \in 0..(Samples - 1) /\ attempts \in 0..MaxAttempts
    OBVIOUS
  <2> QED BY <2>1, <2>2, <2>3 DEF LauncherOK, Steps
<1>5. Calls /\ Launches /\ Known
  BY DEF Calls, Launches, Known
<1>6. OneTxn /\ Reliance /\ DisabledIsRecoverable
  BY DEF OneTxn, Reliance, DisabledIsRecoverable
<1>7. OneService
  BY DEF OneService, Running
<1> QED BY <1>1, <1>2, <1>3, <1>4, <1>5, <1>6, <1>7 DEF IInv, LInv, CInv

(* A stuttering step preserves the inductive invariant.                    *)
LEMMA StutterIInv == IInv /\ UNCHANGED vars => IInv'
<1> SUFFICES ASSUME IInv, UNCHANGED vars PROVE IInv'
  OBVIOUS
<1> USE DEF IInv, vars, record, letters, service, control, memory, counts
<1>1. Running' = Running
  BY RunningKept
<1>2. FilesOK' /\ ServicesOK' /\ CountsOK'
  BY DEF FilesOK, ServicesOK, CountsOK
<1>3. OneService'
  BY <1>1, OneServiceKept
<1>4. LInv'
  BY <1>1, LauncherKept DEF LInv, LauncherOK
<1>5. CInv'
  BY CardKept
<1> QED BY <1>2, <1>3, <1>4, <1>5

(* Every step preserves the inductive invariant.                           *)
LEMMA NextIInv == IInv /\ [Next]_vars => IInv'
<1> SUFFICES ASSUME IInv, [Next]_vars PROVE IInv'
  OBVIOUS
<1>1. CASE Launcher
  BY <1>1, WriteTempStep, SwapStep, ReadStep, RestoreBootStep, ClearIntentStep, ClearReadyStep,
     FinishStep, FinishTempStep, WriteIntentStep, TickAckStep, DisableBootStep, RevertStep,
     TickExitStep, TickExitTimeoutStep, LaunchStep, TickReadyStep, LookStep DEF Launcher
<1>2. CASE Open \/ Begin \/ Exit
  BY <1>2, OpenStep, BeginStep, ExitStep
<1>3. CASE Kill \/ PowerLoss
  BY <1>3, KillStep, PowerLossStep
<1>4. CASE \E p \in Pids : Service(p)
  BY <1>4, ServiceStep
<1>5. CASE UNCHANGED vars
  BY <1>5, StutterIInv
<1> QED BY <1>1, <1>2, <1>3, <1>4, <1>5 DEF Next

(* The inductive invariant holds in every reachable state.                 *)
LEMMA SpecIInv == Spec => []IInv
BY InitIInv, NextIInv, PTL DEF Spec

(* Every reachable state is well typed; in particular launch_target is     *)
(* never called more often than launch_attempts allows.                    *)
THEOREM TypeCorrect == Spec => []TypeOK
<1>1. IInv => TypeOK
  BY TypeParts DEF IInv, LInv
<1> QED BY <1>1, SpecIInv, PTL

(* There are never two services, for any number of hand-offs, failed calls *)
(* and interruptions in any order (process_absent before launch_target).   *)
THEOREM NeverTwoServices == Spec => []OneService
<1>1. IInv => OneService
  BY DEF IInv
<1> QED BY <1>1, SpecIInv, PTL

(* Whenever the boot flag is put aside, a later start of the application   *)
(* finds a record from which to restore it (write_journal, read_journal,   *)
(* finish_journal).                                                        *)
THEOREM FlagIsRecoverable == Spec => []DisabledIsRecoverable
<1>1. IInv => DisabledIsRecoverable
  BY DEF IInv, CInv
<1> QED BY <1>1, SpecIInv, PTL

-----------------------------------------------------------------------------
(***************************************************************************)
(* What is left when a hand-off has ended, and what is recorded while a    *)
(* service leaves: a second inductive invariant, on top of the first.      *)
(***************************************************************************)
(* At which phase a routine runs.                                          *)
Tasks ==
  /\ task = "tick" => phase = "exit"
  /\ task = "ready" => phase = "ready"
  /\ task \in {"begin", "recover"} => phase = "idle"
  /\ pc = "disable" => phase = "ack"
  /\ pc \in {"write", "swap", "revert"} /\ mem.phase = "boot_disabled" => phase = "ack"
  /\ pc \in {"write", "swap"} /\ mem.phase = "target_launched" => task \in {"tick", "ready"}
  /\ pc \in {"finish", "finish2"} /\ task \in {"fail", "exit"} => SourceStays

(* Processes are born one after the other, and say so when they have begun.*)
Births ==
  /\ \A p \in Pids : p > born => stage[p] = "none"
  /\ runtime # 0 => stage[runtime] \notin {"none", "starting"}

(* No version but the old one runs while the flag is away, so that no      *)
(* other leaves; a record never has it for a target.                       *)
OldLeaves ==
  /\ Leaving \subseteq {1}
  /\ boot = "backup" \/ phase = "ack" \/ task = "begin" => Running \subseteq {1}
  /\ journal.target # 1 /\ temp.target # 1 /\ mem.target # 1

(* The flag is not taken yet, or its taking is not recorded yet.           *)
Untouched ==
  /\ phase \in {"idle", "ack"} /\ pc # "off" /\ task # "recover"
  /\ ~(pc \in {"write", "swap", "revert"} /\ mem.phase = "boot_disabled")

(* Where the flag is in its place.                                         *)
FlagBack ==
  \/ Untouched
  \/ pc \in {"launch", "look", "finish", "finish2"}
  \/ pc \in {"clear", "clear2"} /\ task \in {"tick", "recover"}
  \/ pc \in {"write", "swap"} /\ mem.phase \in {"boot_restored", "target_launched"}
  \/ phase \in {"ready", "done"}

Nobody == Leaving = {} \/ overtaken

Ends ==
  /\ FlagBack => boot = "flag"
  /\ Untouched \/ pc \in {"finish", "finish2"} => Nobody
  /\ pc = "finish2" /\ ok => journal = NoRecord
  /\ (pc \in {"finish", "finish2"} /\ task = "ready") \/ (pc = "rest" /\ phase = "done") => TargetReady
  /\ pc = "rest" /\ phase \in {"idle", "done"} => NothingLeft

JInv == Tasks /\ Births /\ OldLeaves /\ Ends /\ LeavingIsRecorded

(* A routine that goes on, or gives up, without anything coming to an end. *)
Retreats ==
  /\ Tasks'
  /\ mem'.target # 1
  /\ pc' \notin {"finish", "finish2"} /\ ~(pc' = "rest" /\ phase' \in {"idle", "done"})
  /\ Untouched' => Untouched
  /\ FlagBack' => FlagBack \/ boot' = "flag"
  /\ phase' = "ack" \/ task' = "begin" => phase = "ack" \/ task = "begin"

LEMMA NoTargets == NoRecord.target = 0 /\ Torn.target = 0
BY DEF NoRecord, Torn

LEMMA StagesKept ==
  ASSUME stage' = stage
  PROVE  Running' = Running /\ Leaving' = Leaving
BY DEF Running, Leaving

(* Nothing is lost where a routine retreats and the records stay readable. *)
LEMMA RetreatKeeps ==
  ASSUME JInv, Retreats, UNCHANGED <<stage, born, overtaken>>, runtime' \in {runtime, 0},
         boot' \in {boot, "flag"}, journal'.target # 1, temp'.target # 1, Readable => Readable'
  PROVE  JInv'
<1> USE DEF JInv, Retreats
<1>1. Running' = Running /\ Leaving' = Leaving
  BY StagesKept
<1>2. Births'
  BY DEF Births
<1>3. OldLeaves'
  BY <1>1 DEF OldLeaves
<1>4. Nobody' = Nobody
  BY <1>1 DEF Nobody
<1>5. Ends'
  BY <1>4 DEF Ends
<1>6. LeavingIsRecorded'
  BY <1>1 DEF LeavingIsRecorded
<1> QED BY <1>2, <1>3, <1>5, <1>6

-----------------------------------------------------------------------------
(* What follows a call retreats, but for an end that is reached.           *)
LEMMA OffRetreats == ASSUME Off PROVE Retreats
BY NoTargets, EmptyRecords DEF Off, Retreats, Tasks, Untouched, FlagBack

LEMMA GiveUpRetreats ==
  ASSUME JInv, GiveUp, pc \notin {"off", "look"}, task # "recover",
         pc \in {"write", "swap", "revert"} => mem.phase # "boot_disabled"
  PROVE  Retreats
BY DEF GiveUp, Fails, Retreats, JInv, Tasks, OldLeaves, Untouched, FlagBack

LEMMA RestoreFailedRetreats ==
  ASSUME JInv, RestoreFailed, pc \in {"read", "restore", "write", "swap"},
         pc \in {"write", "swap"} => mem.phase # "boot_disabled"
  PROVE  Retreats
<1>1. CASE task = "tick" /\ GiveUp
  BY <1>1, GiveUpRetreats
<1>2. CASE task = "recover" /\ Pause("failed") /\ UNCHANGED memory
  BY <1>2 DEF Pause, memory, Retreats, JInv, Tasks, OldLeaves, Untouched, FlagBack
<1>3. CASE /\ task = "fail" \/ (task = "exit" /\ phase = "exit")
           /\ ok' = FALSE /\ Goto("clear") /\ UNCHANGED <<mem, disabled, absent, attempts>>
  BY <1>3 DEF Goto, Retreats, JInv, Tasks, OldLeaves, Untouched, FlagBack
<1>4. CASE Off
  BY <1>4, OffRetreats
<1> QED BY <1>1, <1>2, <1>3, <1>4 DEF RestoreFailed

LEMMA LaunchFailedRetreats ==
  ASSUME JInv, NEW made, LaunchFailed(made), pc \in {"launch", "write", "swap"}, task \in {"tick", "ready"},
         FlagBack
  PROVE  Retreats
<1>1. CASE task = "tick" /\ Goto("launch") /\ UNCHANGED mem
  BY <1>1 DEF Goto, Retreats, JInv, Tasks, OldLeaves, Untouched, FlagBack
<1>2. CASE Fails(FALSE) /\ UNCHANGED <<phase, mem>>
  BY <1>2 DEF Fails, Retreats, JInv, Tasks, OldLeaves, Untouched, FlagBack
<1> QED BY <1>1, <1>2 DEF LaunchFailed

LEMMA WrittenRetreats ==
  ASSUME JInv, Written, pc = "swap", mem.phase = "prepared" => task = "begin"
  PROVE  Retreats
<1>1. CASE mem.phase = "prepared" /\ Goto("intent") /\ UNCHANGED memory
  BY <1>1 DEF Goto, memory, Retreats, JInv, Tasks, OldLeaves, Untouched, FlagBack
<1>2. CASE mem.phase = "boot_disabled" /\ Pause("exit") /\ UNCHANGED mem
  BY <1>2 DEF Pause, Retreats, JInv, Tasks, OldLeaves, Untouched, FlagBack
<1>3. CASE mem.phase = "boot_restored" /\ Restored
  BY <1>3 DEF Restored, Goto, Retreats, JInv, Tasks, OldLeaves, Untouched, FlagBack
<1>4. CASE RestoredAndOff
  BY <1>4, OffRetreats DEF RestoredAndOff
<1>5. CASE mem.phase = "target_launched" /\ Pause("ready") /\ UNCHANGED memory
  BY <1>5 DEF Pause, memory, Retreats, JInv, Tasks, OldLeaves, Untouched, FlagBack
<1> QED BY <1>1, <1>2, <1>3, <1>4, <1>5 DEF Written

(* A target's record is written on behalf of a tick.                       *)
LEMMA WriteFailedRetreats ==
  ASSUME JInv, WriteFailed, pc \in {"write", "swap"},
         mem.phase = "prepared" => task = "begin",
         mem.phase = "target_launched" => task \in {"tick", "ready"}
  PROVE  Retreats
<1>1. CASE mem.phase = "prepared" /\ GiveUp
  BY <1>1, GiveUpRetreats
<1>2. CASE mem.phase = "boot_disabled" /\ Goto("revert") /\ UNCHANGED memory
  BY <1>2 DEF Goto, memory, Retreats, JInv, Tasks, OldLeaves, Untouched, FlagBack
<1>3. CASE mem.phase = "boot_restored" /\ RestoreFailed
  BY <1>3, RestoreFailedRetreats
<1>4. CASE mem.phase = "target_launched" /\ LaunchFailed(attempts)
  <2>1. FlagBack
    BY <1>4 DEF FlagBack
  <2> QED BY <1>4, <2>1, LaunchFailedRetreats
<1> QED BY <1>1, <1>2, <1>3, <1>4 DEF WriteFailed

-----------------------------------------------------------------------------
(***************************************************************************)
(* The launcher's steps once more, for the second invariant.               *)
(***************************************************************************)
LEMMA WriteTempEnds == ASSUME IInv, JInv, WriteTemp PROVE JInv'
<1> USE EmptyRecords, NoTargets
<1>1. /\ mem.txn # 0 /\ pc = "write" /\ (mem.phase = "prepared" => task = "begin")
      /\ mem.phase = "target_launched" => task \in {"tick", "ready"}
      /\ journal.target # 1 /\ temp.target # 1 /\ mem.target # 1
  BY DEF WriteTemp, IInv, LInv, Known, Calls, JInv, Tasks, OldLeaves
<1>2. /\ temp' \in {temp, mem, NoRecord, Torn} /\ (temp # NoRecord => temp' = temp)
      /\ (Goto("swap") /\ UNCHANGED memory) \/ WriteFailed
      /\ UNCHANGED <<boot, journal, runtime, stage, born, overtaken>>
  BY DEF WriteTemp, Durably, NoFault, Fault, letters, service, counts
<1>3. Readable => Readable'
  BY <1>1, <1>2 DEF IInv, CInv, OneTxn, Readable
<1>4. Retreats
  <2>1. CASE Goto("swap") /\ UNCHANGED memory
    BY <1>1, <2>1 DEF Goto, memory, Retreats, JInv, Tasks, OldLeaves, Untouched, FlagBack
  <2>2. CASE WriteFailed
    BY <1>1, <2>2, WriteFailedRetreats
  <2> QED BY <1>2, <2>1, <2>2
<1>5. temp'.target # 1 /\ journal'.target # 1
  BY <1>1, <1>2
<1> QED BY <1>2, <1>3, <1>4, <1>5, RetreatKeeps

LEMMA SwapEnds == ASSUME IInv, JInv, Swap PROVE JInv'
<1> USE EmptyRecords, NoTargets
<1>1. /\ mem.txn # 0 /\ pc = "swap" /\ temp = mem /\ (mem.phase = "prepared" => task = "begin")
      /\ mem.phase = "target_launched" => task \in {"tick", "ready"}
      /\ journal.target # 1 /\ temp.target # 1 /\ mem.target # 1
  BY DEF Swap, IInv, LInv, CInv, Reliance, Known, Calls, JInv, Tasks, OldLeaves
<1>2. /\ \/ journal' = journal /\ temp' = temp
         \/ journal' = NoRecord /\ temp' = temp
         \/ journal' = temp /\ temp' = NoRecord
      /\ UNCHANGED <<control, memory>> \/ Written \/ WriteFailed
      /\ UNCHANGED <<boot, runtime, stage, born, overtaken>>
  BY DEF Swap, Durably, NoFault, Fault, record, letters, service, counts
<1>3. Readable'
  BY <1>1, <1>2 DEF IInv, LInv, LauncherOK, CInv, OneTxn, Readable
<1>4. Retreats
  <2>1. CASE UNCHANGED <<control, memory>>
    BY <1>1, <2>1 DEF control, memory, Retreats, JInv, Tasks, OldLeaves, Untouched, FlagBack
  <2>2. CASE WriteFailed
    BY <1>1, <2>2, WriteFailedRetreats
  <2>3. CASE Written
    BY <1>1, <2>3, WrittenRetreats
  <2> QED BY <1>2, <2>1, <2>2, <2>3
<1>5. temp'.target # 1 /\ journal'.target # 1
  BY <1>1, <1>2
<1> QED BY <1>2, <1>3, <1>4, <1>5, RetreatKeeps

LEMMA ReadEnds == ASSUME IInv, JInv, Read PROVE JInv'
<1> USE EmptyRecords, NoTargets
<1>1. pc = "read" /\ journal.target # 1 /\ temp.target # 1 /\ mem.target # 1
  BY DEF Read, JInv, OldLeaves
<1>2. /\ \/ journal' = journal /\ temp' = temp
         \/ temp = Torn /\ journal # NoRecord /\ temp' = NoRecord /\ journal' = journal
         \/ temp \notin {NoRecord, Torn} /\ journal' = NoRecord /\ temp' = temp
         \/ temp \notin {NoRecord, Torn} /\ journal' = temp /\ temp' = NoRecord
      /\ \/ UNCHANGED <<control, memory>>
         \/ RestoreFailed
         \/ Accept(journal)
         \/ Accept(temp)
      /\ UNCHANGED <<boot, runtime, stage, born, overtaken>>
  BY DEF Read, Durably, NoFault, Fault, record, Readable, letters, service, counts
<1>3. Readable => Readable'
  BY <1>2 DEF Readable
<1>4. Retreats
  <2>1. CASE UNCHANGED <<control, memory>>
    BY <1>1, <2>1 DEF control, memory, Retreats, JInv, Tasks, OldLeaves, Untouched, FlagBack
  <2>2. CASE RestoreFailed
    BY <1>1, <2>2, RestoreFailedRetreats
  <2>3. ASSUME NEW r \in {journal, temp}, Accept(r) PROVE Retreats
    BY <1>1, <2>3 DEF Accept, Goto, Retreats, JInv, Tasks, Untouched, FlagBack
  <2> QED BY <1>2, <2>1, <2>2, <2>3
<1>5. temp'.target # 1 /\ journal'.target # 1
  BY <1>1, <1>2
<1> QED BY <1>2, <1>3, <1>4, <1>5, RetreatKeeps

LEMMA RestoreBootEnds == ASSUME IInv, JInv, RestoreBoot PROVE JInv'
<1>1. /\ pc = "restore" /\ journal.target # 1 /\ temp.target # 1 /\ mem.target # 1 /\ mem \in Records
      /\ UNCHANGED <<journal, temp, runtime, stage, born, overtaken>>
  BY DEF RestoreBoot, JInv, OldLeaves, IInv, LInv, LauncherOK, record, service, counts
<1>2. \/ /\ boot' = "flag" /\ mem' = [mem EXCEPT !.phase = "boot_restored"] /\ Goto("write")
      \/ boot' \in {"flag", boot} /\ RestoreFailed
  BY DEF RestoreBoot, Durably, NoFault, Fault
<1>3. Retreats
  <2>1. CASE /\ boot' = "flag" /\ mem' = [mem EXCEPT !.phase = "boot_restored"] /\ Goto("write")
    <3>1. mem'.phase = "boot_restored" /\ mem'.target = mem.target
      BY <1>1, <2>1 DEF Records
    <3> QED BY <1>1, <2>1, <3>1 DEF Goto, Retreats, JInv, Tasks, Untouched, FlagBack
  <2>2. CASE RestoreFailed
    BY <1>1, <2>2, RestoreFailedRetreats
  <2> QED BY <1>2, <2>1, <2>2
<1>4. Readable' = Readable /\ boot' \in {"flag", boot}
  BY <1>1, <1>2 DEF Readable
<1> QED BY <1>1, <1>3, <1>4, RetreatKeeps

LEMMA ClearIntentEnds == ASSUME IInv, JInv, ClearIntent PROVE JInv'
<1>1. /\ pc = "clear" /\ journal.target # 1 /\ temp.target # 1
      /\ UNCHANGED <<boot, journal, temp, runtime, stage, born, overtaken>>
  BY DEF ClearIntent, JInv, OldLeaves, record, service, counts
<1>2. Retreats
  BY DEF ClearIntent, Goto, memory, Retreats, JInv, Tasks, OldLeaves, Untouched, FlagBack
<1>3. Readable' = Readable
  BY <1>1 DEF Readable
<1> QED BY <1>1, <1>2, <1>3, RetreatKeeps

(* The journal goes with a hand-off that fails before its flag was taken.  *)
LEMMA ClearReadyEnds == ASSUME IInv, JInv, ClearReady PROVE JInv'
<1>1. /\ pc = "clear2" /\ journal.target # 1 /\ temp.target # 1 /\ mem.target # 1
      /\ UNCHANGED <<boot, journal, temp, runtime, stage, born, overtaken>>
  BY DEF ClearReady, JInv, OldLeaves, record, service, counts
<1>2. Readable' = Readable /\ Running' = Running /\ Leaving' = Leaving
  BY <1>1, StagesKept DEF Readable
<1>3. CASE task \in {"fail", "exit"} /\ SourceStays /\ Goto("finish") /\ UNCHANGED memory
  <2>1. Untouched
    BY <1>1, <1>3 DEF Untouched, SourceStays
  <2>2. Tasks'
    BY <1>1, <1>3 DEF JInv, Tasks, Goto, memory, SourceStays
  <2>3. Births'
    BY <1>1 DEF JInv, Births
  <2>4. OldLeaves'
    BY <1>1, <1>2, <1>3 DEF JInv, OldLeaves, Goto, memory
  <2>5. Ends'
    BY <1>1, <1>2, <1>3, <2>1 DEF JInv, Ends, Goto, memory, FlagBack, Untouched, Nobody
  <2>6. LeavingIsRecorded'
    BY <1>1, <1>2 DEF JInv, LeavingIsRecorded
  <2> QED BY <2>2, <2>3, <2>4, <2>5, <2>6 DEF JInv
<1>4. CASE \/ task = "tick" /\ Goto("launch") /\ UNCHANGED memory
           \/ task = "recover" /\ Goto("look") /\ UNCHANGED memory
  <2>1. Retreats
    BY <1>1, <1>4 DEF Goto, memory, Retreats, JInv, Tasks, Untouched, FlagBack
  <2> QED BY <1>1, <1>2, <2>1, RetreatKeeps
<1>5. CASE task = "fail" /\ Pause("failed") /\ UNCHANGED memory
  <2>1. Retreats
    BY <1>1, <1>5 DEF Pause, memory, Retreats, JInv, Tasks, Untouched, FlagBack
  <2> QED BY <1>1, <1>2, <2>1, RetreatKeeps
<1>6. CASE Off
  BY <1>1, <1>2, <1>6, OffRetreats, RetreatKeeps
<1> QED BY <1>3, <1>4, <1>5, <1>6 DEF ClearReady

(* Nobody leaves any more when a record goes.                              *)
LEMMA FinishEnds == ASSUME IInv, JInv, Finish PROVE JInv'
<1> USE EmptyRecords, NoTargets
<1>1. /\ pc = "finish" /\ pc' = "finish2" /\ UNCHANGED <<task, phase>>
      /\ UNCHANGED <<boot, temp, runtime, stage, born, overtaken, mem>>
      /\ boot = "flag" /\ Nobody
  BY DEF Finish, Goto, JInv, Ends, FlagBack, service, counts
<1>2. \/ journal' = NoRecord /\ ok' = ok
      \/ journal' = journal /\ ok' = FALSE
  BY DEF Finish
<1>3. Running' = Running /\ Leaving' = Leaving
  BY <1>1, StagesKept
<1>4. Tasks'
  BY <1>1 DEF JInv, Tasks, SourceStays
<1>5. Births'
  BY <1>1 DEF JInv, Births
<1>6. OldLeaves'
  BY <1>1, <1>2, <1>3 DEF JInv, OldLeaves
<1>7. Ends'
  BY <1>1, <1>2, <1>3 DEF JInv, Ends, Nobody, TargetReady
<1>8. LeavingIsRecorded'
  BY <1>1, <1>3 DEF LeavingIsRecorded, Nobody
<1> QED BY <1>4, <1>5, <1>6, <1>7, <1>8 DEF JInv

LEMMA FinishTempEnds == ASSUME IInv, JInv, FinishTemp PROVE JInv'
<1> USE EmptyRecords, NoTargets
<1>1. /\ pc = "finish2" /\ UNCHANGED <<boot, journal, runtime, stage, born, overtaken>>
      /\ boot = "flag" /\ Nobody /\ (ok => journal = NoRecord)
      /\ journal.target # 1 /\ temp.target # 1 /\ mem.target # 1 /\ ok \in BOOLEAN
  BY DEF FinishTemp, JInv, Ends, OldLeaves, FlagBack, service, counts, IInv, LInv, LauncherOK
<1>2. /\ temp' \in {temp, NoRecord}
      /\ Finished(FALSE) \/ (temp' = NoRecord /\ ok /\ Finished(TRUE))
  BY <1>1 DEF FinishTemp
<1>3. Running' = Running /\ Leaving' = Leaving
  BY <1>1, StagesKept
<1>4. Births'
  BY <1>1 DEF JInv, Births
<1>5. LeavingIsRecorded'
  BY <1>1, <1>3 DEF LeavingIsRecorded, Nobody
<1>6. journal'.target # 1 /\ temp'.target # 1
  BY <1>1, <1>2
<1>7. ASSUME Tasks', mem'.target # 1, pc' \notin {"finish", "finish2"},
             pc' = "rest" /\ phase' \in {"idle", "done"} => NothingLeft',
             pc' = "rest" /\ phase' = "done" => TargetReady',
             phase' = "ack" \/ task' = "begin" => phase = "ack" \/ task = "begin"
      PROVE  JInv'
  <2>1. OldLeaves'
    BY <1>1, <1>3, <1>6, <1>7 DEF JInv, OldLeaves
  <2>2. Ends'
    BY <1>1, <1>3, <1>7 DEF Ends, Nobody
  <2> QED BY <1>4, <1>5, <1>7, <2>1, <2>2 DEF JInv
<1>8. CASE Off
  <2>1. Retreats
    BY <1>8, OffRetreats
  <2> QED BY <1>7, <2>1 DEF Retreats
<1>9. CASE task = "ready" /\ GiveUp
  <2>1. Retreats
    BY <1>1, <1>9, GiveUpRetreats
  <2> QED BY <1>7, <2>1 DEF Retreats
<1>10. ASSUME NEW end \in {"failed", "done", "idle"}, Pause(end), UNCHANGED memory,
              end # "failed" => journal = NoRecord /\ temp' = NoRecord,
              end = "done" => task = "ready"
       PROVE  JInv'
  <2>1. pc' = "rest" /\ task' = "none" /\ phase' = end /\ mem' = mem
    BY <1>10 DEF Pause, memory
  <2>2. Tasks'
    BY <2>1 DEF Tasks
  <2>3. phase' \in {"idle", "done"} => NothingLeft'
    BY <1>1, <1>10, <2>1 DEF NothingLeft, record
  <2>4. phase' = "done" => TargetReady'
    <3>1. task = "ready" => TargetReady
      BY <1>1 DEF JInv, Ends
    <3> QED BY <1>1, <1>3, <1>10, <2>1, <3>1 DEF TargetReady
  <2> QED BY <1>1, <1>7, <1>10, <2>1, <2>2, <2>3, <2>4
<1> QED BY <1>1, <1>2, <1>8, <1>9, <1>10 DEF Finished

(* The application opens on nothing, or on something to recover.           *)
LEMMA OpenEnds == ASSUME IInv, JInv, Open PROVE JInv'
<1> USE EmptyRecords, NoTargets
<1>1. /\ pc = "off" /\ UNCHANGED <<boot, journal, temp, runtime, stage, born, overtaken, mem>>
      /\ journal.target # 1 /\ temp.target # 1 /\ mem.target # 1
  BY DEF Open, JInv, OldLeaves, record, service, counts, memory
<1>2. Readable' = Readable /\ Running' = Running /\ Leaving' = Leaving
  BY <1>1, StagesKept DEF Readable
<1>3. CASE NothingLeft /\ Pause("idle")
  <2>1. boot = "flag" /\ NothingLeft'
    BY <1>1, <1>3 DEF NothingLeft, record
  <2>2. ~Readable
    BY <1>3 DEF NothingLeft, record, Readable
  <2>3. Nobody
    BY <2>2 DEF JInv, LeavingIsRecorded, Nobody
  <2>4. Tasks' /\ Births'
    BY <1>1, <1>3 DEF JInv, Tasks, Births, Pause
  <2>5. OldLeaves'
    BY <1>1, <1>2, <1>3 DEF JInv, OldLeaves, Pause
  <2>6. Ends'
    BY <1>1, <1>2, <1>3, <2>1, <2>3 DEF Ends, Pause, Nobody
  <2>7. LeavingIsRecorded'
    BY <1>1, <1>2 DEF JInv, LeavingIsRecorded
  <2> QED BY <2>4, <2>5, <2>6, <2>7 DEF JInv
<1>4. CASE pc' = "read" /\ task' = "recover" /\ phase' = "idle"
  <2>1. Retreats
    BY <1>1, <1>4 DEF Retreats, Tasks, Untouched, FlagBack
  <2> QED BY <1>1, <1>2, <2>1, RetreatKeeps
<1> QED BY <1>3, <1>4 DEF Open

(* A hand-off begins with the old version alone.                           *)
LEMMA BeginEnds == ASSUME IInv, JInv, Begin PROVE JInv'
<1>1. /\ pc = "rest" /\ phase = "idle" /\ phase' = "idle" /\ pc' = "write" /\ task' = "begin"
      /\ UNCHANGED <<boot, journal, temp, runtime, stage, born, overtaken>> /\ boot = "flag"
  BY DEF Begin, record, service
<1>2. Running' = Running /\ Leaving' = Leaving /\ Readable' = Readable
  BY <1>1, StagesKept DEF Readable
<1>3. 1 \in Running /\ mem'.phase = "prepared" /\ mem'.target = 0
  BY DEF Begin, Old
<1>4. Running \subseteq {1}
  BY <1>3 DEF IInv, OneService
<1>5. Nobody
  BY <1>1 DEF IInv, LInv, Calls, JInv, Ends, Untouched
<1>6. Tasks' /\ Births'
  BY <1>1, <1>3 DEF JInv, Tasks, Births
<1>7. OldLeaves'
  BY <1>1, <1>2, <1>3, <1>4 DEF JInv, OldLeaves
<1>8. Ends'
  BY <1>1, <1>2, <1>5 DEF Ends, Nobody
<1>9. LeavingIsRecorded'
  BY <1>1, <1>2 DEF JInv, LeavingIsRecorded
<1> QED BY <1>6, <1>7, <1>8, <1>9 DEF JInv

LEMMA WriteIntentEnds == ASSUME IInv, JInv, WriteIntent PROVE JInv'
<1>1. /\ pc = "intent" /\ task = "begin" /\ journal.target # 1 /\ temp.target # 1 /\ mem.target # 1
      /\ UNCHANGED <<boot, journal, temp, runtime, stage, born, overtaken>>
  BY DEF WriteIntent, IInv, LInv, Calls, JInv, OldLeaves, record, service, counts
<1>2. Retreats
  <2>1. CASE Pause("ack") /\ UNCHANGED memory
    BY <1>1, <2>1 DEF Pause, memory, Retreats, JInv, Tasks, Untouched, FlagBack
  <2>2. CASE GiveUp
    BY <1>1, <2>2, GiveUpRetreats
  <2> QED BY <2>1, <2>2 DEF WriteIntent, memory
<1>3. Readable' = Readable
  BY <1>1 DEF Readable
<1> QED BY <1>1, <1>2, <1>3, RetreatKeeps

LEMMA TickAckEnds == ASSUME IInv, JInv, TickAck PROVE JInv'
<1>1. /\ pc = "rest" /\ phase = "ack" /\ task = "none" /\ journal.target # 1 /\ temp.target # 1 /\ mem.target # 1
      /\ UNCHANGED <<boot, journal, temp, runtime, stage, born, overtaken>>
  BY DEF TickAck, IInv, LInv, Calls, JInv, OldLeaves, record, service, counts
<1>2. Retreats
  <2>1. CASE Goto("disable") /\ UNCHANGED memory
    BY <1>1, <2>1 DEF Goto, memory, Retreats, JInv, Tasks, Untouched, FlagBack
  <2>2. CASE GiveUp
    BY <1>1, <2>2, GiveUpRetreats
  <2> QED BY <2>1, <2>2 DEF TickAck
<1>3. Readable' = Readable
  BY <1>1 DEF Readable
<1> QED BY <1>1, <1>2, <1>3, RetreatKeeps

(* Where the taking of the flag fails, or could not be recorded.           *)
LEMMA DisableFailedRetreats ==
  ASSUME JInv, NEW taken \in BOOLEAN, DisableFailed(taken)
  PROVE  Retreats
BY DEF DisableFailed, Fails, Retreats, JInv, Tasks, OldLeaves, Untouched, FlagBack

(* The flag goes while the old version is alone and the journal is there.  *)
LEMMA DisableBootEnds == ASSUME IInv, JInv, DisableBoot PROVE JInv'
<1>1. /\ pc = "disable" /\ phase = "ack" /\ boot = "flag" /\ journal.txn # 0 /\ Running \subseteq {1}
      /\ journal.target # 1 /\ temp.target # 1 /\ mem.target # 1 /\ mem \in Records
      /\ UNCHANGED <<journal, temp, runtime, stage, born, overtaken>>
  BY DEF DisableBoot, IInv, LInv, Known, LauncherOK, JInv, Tasks, OldLeaves, record, service, counts
<1>2. Running' = Running /\ Leaving' = Leaving /\ Readable' = Readable
  BY <1>1, StagesKept DEF Readable
<1>3. /\ Tasks' /\ mem'.target # 1 /\ ~FlagBack' /\ ~Untouched' /\ pc' \notin {"rest", "finish", "finish2"}
      /\ phase' = "ack" \/ task' = "begin" => phase = "ack" \/ task = "begin"
  <2>1. CASE /\ Goto("write") /\ mem' = [mem EXCEPT !.phase = "boot_disabled"]
    <3>1. mem'.phase = "boot_disabled" /\ mem'.target = mem.target
      BY <1>1, <2>1 DEF Records
    <3>2. task = "none"
      BY <1>1 DEF IInv, LInv, Calls
    <3> QED BY <1>1, <2>1, <3>1, <3>2 DEF Goto, Tasks, FlagBack, Untouched
  <2>2. ASSUME NEW taken \in BOOLEAN, DisableFailed(taken)
        PROVE  /\ Tasks' /\ mem'.target # 1 /\ ~FlagBack' /\ ~Untouched' /\ pc' \notin {"rest", "finish", "finish2"}
               /\ phase' = "ack" \/ task' = "begin" => phase = "ack" \/ task = "begin"
    BY <1>1, <2>2 DEF DisableFailed, Fails, Tasks, FlagBack, Untouched
  <2> QED BY <2>1, <2>2 DEF DisableBoot
<1>4. Births'
  BY <1>1 DEF JInv, Births
<1>5. OldLeaves'
  BY <1>1, <1>2, <1>3 DEF JInv, OldLeaves
<1>6. Ends'
  BY <1>3 DEF Ends
<1>7. LeavingIsRecorded'
  BY <1>1, <1>2 DEF JInv, LeavingIsRecorded
<1> QED BY <1>3, <1>4, <1>5, <1>6, <1>7 DEF JInv

LEMMA RevertEnds == ASSUME IInv, JInv, Revert PROVE JInv'
<1>1. /\ pc = "revert" /\ boot = "backup" /\ journal.target # 1 /\ temp.target # 1
      /\ UNCHANGED <<journal, temp, runtime, stage, born, overtaken>> /\ boot' \in {"flag", "backup"}
  BY DEF Revert, IInv, CInv, Reliance, JInv, OldLeaves, record, service, counts
<1>2. Retreats
  <2>1. \E taken \in BOOLEAN : DisableFailed(taken)
    BY DEF Revert
  <2> QED BY <2>1, DisableFailedRetreats
<1>3. Readable' = Readable
  BY <1>1 DEF Readable
<1> QED BY <1>1, <1>2, <1>3, RetreatKeeps

LEMMA TickExitEnds == ASSUME IInv, JInv, TickExit \/ TickExitTimeout PROVE JInv'
<1>1. /\ pc = "rest" /\ phase = "exit" /\ task = "none" /\ journal.target # 1 /\ temp.target # 1 /\ mem.target # 1
      /\ UNCHANGED <<boot, journal, temp, runtime, stage, born, overtaken>>
  BY DEF TickExit, TickExitTimeout, IInv, LInv, Calls, JInv, OldLeaves, record, service, counts
<1>2. Retreats
  <2>1. CASE UNCHANGED <<control, mem>>
    BY <1>1, <2>1 DEF control, Retreats, JInv, Tasks, Untouched, FlagBack
  <2>2. CASE pc' = "restore" /\ task' = "tick" /\ UNCHANGED <<phase, mem>>
    BY <1>1, <2>2 DEF Retreats, JInv, Tasks, Untouched, FlagBack
  <2>3. CASE GiveUp
    BY <1>1, <2>3, GiveUpRetreats
  <2> QED BY <2>1, <2>2, <2>3 DEF TickExit, TickExitTimeout
<1>3. Readable' = Readable
  BY <1>1 DEF Readable
<1> QED BY <1>1, <1>2, <1>3, RetreatKeeps

(* A version that is launched is not the old one.                          *)
LEMMA LaunchEnds == ASSUME IInv, JInv, Launch PROVE JInv'
<1>1. /\ pc = "launch" /\ boot = "flag" /\ Running = {} /\ Leaving = {} /\ task \in {"tick", "ready"} /\ FlagBack
      /\ journal.target # 1 /\ temp.target # 1 /\ mem.target # 1 /\ mem \in Records /\ phase # "ack"
      /\ UNCHANGED <<boot, journal, temp, overtaken>> /\ runtime' = 0
  BY DEF Launch, IInv, LInv, Launches, Calls, LauncherOK, JInv, Tasks, OldLeaves, Ends, FlagBack, Running,
         Leaving, record
<1>2. Readable' = Readable
  BY <1>1 DEF Readable
<1>3. CASE LaunchFailed(attempts + 1) /\ UNCHANGED <<born, stage>>
  <2>1. Retreats
    BY <1>1, <1>3, LaunchFailedRetreats
  <2> QED BY <1>1, <1>2, <1>3, <2>1, RetreatKeeps
<1>4. CASE /\ born < MaxProcesses /\ born' = born + 1 /\ stage' = [stage EXCEPT ![born + 1] = "starting"]
           /\ mem' = [mem EXCEPT !.target = born + 1, !.phase = "target_launched"] /\ Goto("write")
  <2>1. born \in Pids /\ born + 1 \in Pids /\ stage \in [Pids -> Stages]
    BY <1>4 DEF IInv, ServicesOK
  <2>2. mem'.target = born + 1 /\ mem'.phase = "target_launched" /\ born + 1 # 1
    BY <1>1, <1>4, <2>1 DEF Records
  <2>3. Leaving' = {}
    BY <1>1, <1>4, <2>1 DEF Leaving
  <2>4. Tasks'
    BY <1>1, <1>4, <2>2 DEF JInv, Tasks, Goto
  <2>5. Births'
    BY <1>1, <1>4, <2>1 DEF JInv, Births
  <2>6. OldLeaves'
    BY <1>1, <1>4, <2>2, <2>3 DEF OldLeaves, Goto
  <2>7. Ends'
    BY <1>1, <1>4, <2>3 DEF Ends, Goto, Nobody
  <2>8. LeavingIsRecorded'
    BY <2>3 DEF LeavingIsRecorded
  <2> QED BY <2>4, <2>5, <2>6, <2>7, <2>8 DEF JInv
<1> QED BY <1>3, <1>4 DEF Launch

(* A target that is ready is the only service, and does not leave.         *)
LEMMA TickReadyEnds == ASSUME IInv, JInv, TickReady PROVE JInv'
<1>1. /\ pc = "rest" /\ phase = "ready" /\ task = "none" /\ boot = "flag"
      /\ journal.target # 1 /\ temp.target # 1 /\ mem.target # 1
      /\ UNCHANGED <<boot, journal, temp, runtime, stage, born, overtaken>>
  BY DEF TickReady, IInv, LInv, Calls, JInv, OldLeaves, Ends, FlagBack, record, service, counts
<1>2. Readable' = Readable /\ Running' = Running /\ Leaving' = Leaving
  BY <1>1, StagesKept DEF Readable
<1>3. CASE TargetReady /\ pc' = "finish" /\ task' = "ready" /\ UNCHANGED <<phase, mem>>
  <2>1. Leaving = {}
    <3>1. Leaving \subseteq Running \cap {1}
      BY DEF JInv, OldLeaves, Leaving, Running
    <3>2. mem.target \in Running
      BY <1>3 DEF TargetReady
    <3> QED BY <1>1, <3>1, <3>2 DEF IInv, OneService
  <2>2. Tasks' /\ Births'
    BY <1>1, <1>3 DEF JInv, Tasks, Births
  <2>3. OldLeaves'
    BY <1>1, <1>2, <1>3 DEF JInv, OldLeaves
  <2>4. Ends'
    BY <1>1, <1>2, <1>3, <2>1 DEF Ends, Nobody, TargetReady
  <2>5. LeavingIsRecorded'
    BY <1>2, <2>1 DEF LeavingIsRecorded
  <2> QED BY <2>2, <2>3, <2>4, <2>5 DEF JInv
<1>4. CASE pc' = "launch" /\ task' = "ready" /\ UNCHANGED <<phase, mem>>
  <2>1. Retreats
    BY <1>1, <1>4 DEF Retreats, JInv, Tasks, Untouched, FlagBack
  <2> QED BY <1>1, <1>2, <2>1, RetreatKeeps
<1>5. CASE GiveUp
  <2>1. Retreats
    BY <1>1, <1>5, GiveUpRetreats
  <2> QED BY <1>1, <1>2, <2>1, RetreatKeeps
<1> QED BY <1>3, <1>4, <1>5 DEF TickReady, memory

(* A recovery ends the hand-off of a source that runs; if that leaves, the *)
(* history says so.                                                        *)
LEMMA LookEnds == ASSUME IInv, JInv, Look PROVE JInv'
<1>1. /\ pc = "look" /\ task = "recover" /\ phase = "idle" /\ boot = "flag"
      /\ journal.target # 1 /\ temp.target # 1 /\ mem.target # 1 /\ mem \in Records
      /\ UNCHANGED <<boot, journal, temp, runtime, stage, born>>
      /\ Leaving \subseteq Running \cap {1}
  BY DEF Look, IInv, LInv, Calls, LauncherOK, JInv, Tasks, OldLeaves, Ends, FlagBack, Running, Leaving,
         record, service, counts
<1>2. Readable' = Readable /\ Running' = Running /\ Leaving' = Leaving
  BY <1>1, StagesKept DEF Readable
<1>3. overtaken => overtaken'
  BY Zenon DEF Look
<1>4. \/ pc' = "rest" /\ task' = "none" /\ phase' \in {"exit", "ready", "failed"}
      \/ pc' = "finish" /\ UNCHANGED <<task, phase>> /\ mem.source \in Running
  BY DEF Look, Missing, Pause, Goto
<1>5. /\ mem' = mem \/ \E p \in Pids : ~Old(p) /\ mem' = [mem EXCEPT !.target = p]
  BY DEF Look, Missing, Pause, Goto, memory, Running
<1>6. mem'.target # 1
  BY <1>1, <1>5 DEF Records, Old
<1>7. pc' = "finish" => Nobody'
  <2> SUFFICES ASSUME mem.source \in Running, Leaving # {} PROVE overtaken'
    BY <1>2, <1>4 DEF Nobody
  <2>1. mem.source \in Leaving
    BY <1>1 DEF IInv, OneService
  <2>2. mem.source \in Leaving => overtaken'
    BY Zenon DEF Look
  <2> QED BY <2>1, <2>2
<1>8. Tasks'
  BY <1>1, <1>4 DEF JInv, Tasks
<1>9. Births'
  BY <1>1 DEF JInv, Births
<1>10. OldLeaves'
  BY <1>1, <1>2, <1>4, <1>6 DEF JInv, OldLeaves
<1>11. Ends'
  BY <1>1, <1>4, <1>7 DEF Ends, Untouched
<1>12. LeavingIsRecorded'
  BY <1>2, <1>3 DEF JInv, LeavingIsRecorded
<1> QED BY <1>8, <1>9, <1>10, <1>11, <1>12 DEF JInv

LEMMA ExitEnds == ASSUME IInv, JInv, Exit PROVE JInv'
<1>1. /\ pc = "rest" /\ journal.target # 1 /\ temp.target # 1 /\ mem.target # 1
      /\ UNCHANGED <<boot, journal, temp, runtime, stage, born, overtaken>>
  BY DEF Exit, JInv, OldLeaves, record, service
<1>2. Readable' = Readable
  BY <1>1 DEF Readable
<1>3. Retreats
  <2>1. CASE Off
    BY <2>1, OffRetreats
  <2>2. CASE pc' \in {"read", "clear"} /\ task' = "exit" /\ UNCHANGED <<phase, mem>>
    <3>1. task = "none"
      BY <1>1 DEF IInv, LInv, Calls
    <3> QED BY <1>1, <2>2, <3>1 DEF Retreats, JInv, Tasks, Untouched, FlagBack
  <2> QED BY <2>1, <2>2 DEF Exit
<1> QED BY <1>1, <1>2, <1>3, RetreatKeeps

-----------------------------------------------------------------------------
(* How far a service goes in a step: it leaves where the flag is away, and *)
(* ends where it was leaving or could not begin.                           *)
LEMMA ServiceGoes ==
  ASSUME ServicesOK, NEW p \in Pids, Service(p)
  PROVE  /\ p \in Running
         /\ \A q \in Pids : q # p => stage'[q] = stage[q]
         /\ stage'[p] \notin {"none", "starting"}
         /\ stage'[p] \in {"leaving", "tidying", "exiting"} =>
              stage[p] \in {"leaving", "tidying"} \/ boot = "backup"
         /\ stage'[p] = "gone" => stage[p] \in {"starting", "exiting"}
         /\ \/ runtime' = runtime
            \/ stage[p] = "starting" /\ runtime' = p
         /\ UNCHANGED born
<1> USE DEF ServicesOK, Moves, Running, letters, counts, Tried
<1>1. CASE Start(p)
  BY <1>1 DEF Start
<1>2. CASE ReadIntent(p)
  BY <1>2 DEF ReadIntent
<1>3. CASE WriteReady(p)
  BY <1>3 DEF WriteReady
<1>4. CASE CheckFlag(p)
  BY <1>4 DEF CheckFlag
<1>5. CASE RemoveIntent(p)
  BY <1>5 DEF RemoveIntent
<1>6. CASE RemoveReady(p)
  BY <1>6 DEF RemoveReady
<1>7. CASE Leave(p)
  BY <1>7 DEF Leave
<1> QED BY <1>1, <1>2, <1>3, <1>4, <1>5, <1>6, <1>7 DEF Service

LEMMA ServiceEnds == ASSUME IInv, JInv, NEW p \in Pids, Service(p) PROVE JInv'
<1>1. /\ p \in Running /\ \A q \in Pids : q # p => stage'[q] = stage[q]
      /\ stage'[p] \notin {"none", "starting"}
      /\ stage'[p] \in {"leaving", "tidying", "exiting"} => stage[p] \in {"leaving", "tidying"} \/ boot = "backup"
      /\ stage'[p] = "gone" => stage[p] \in {"starting", "exiting"}
      /\ runtime' = runtime \/ (stage[p] = "starting" /\ runtime' = p)
      /\ UNCHANGED born
  BY ServiceGoes DEF IInv
<1>2. UNCHANGED <<boot, journal, temp, pc, task, phase, mem, disabled, absent, attempts, ok, overtaken>>
  BY ServiceSteps DEF ServiceFrame, record, control, memory
<1>3. Readable' = Readable
  BY <1>2 DEF Readable
<1>4. Running' \subseteq Running
  BY <1>1 DEF Running
<1>5. Leaving' \subseteq Leaving \/ (boot = "backup" /\ Leaving' \subseteq Leaving \cup {p})
  BY <1>1 DEF Leaving
<1>6. boot = "backup" => p = 1
  BY <1>1 DEF JInv, OldLeaves
<1>7. Tasks'
  BY <1>2 DEF JInv, Tasks, SourceStays
<1>8. Births'
  <2>1. p <= born
    BY <1>1 DEF JInv, Births, Running, IInv, ServicesOK
  <2>2. \A q \in Pids : q > born' => stage'[q] = "none"
    BY <1>1, <2>1 DEF JInv, Births, IInv, ServicesOK
  <2>3. runtime' # 0 => stage'[runtime'] \notin {"none", "starting"}
    BY <1>1 DEF JInv, Births, IInv, FilesOK
  <2> QED BY <2>2, <2>3 DEF Births
<1>9. OldLeaves'
  BY <1>2, <1>4, <1>5, <1>6 DEF JInv, OldLeaves
<1>10. TargetReady => TargetReady'
  <2> SUFFICES ASSUME TargetReady PROVE TargetReady'
    OBVIOUS
  <2>1. mem.target = p /\ runtime = p /\ p # 1
    BY <1>1 DEF TargetReady, IInv, OneService, JInv, OldLeaves
  <2>2. stage[p] # "starting" /\ stage[p] # "exiting"
    BY <2>1 DEF JInv, Births, OldLeaves, Leaving
  <2>3. p \in Running'
    BY <1>1, <2>2 DEF Running
  <2> QED BY <1>1, <1>2, <2>1, <2>2, <2>3 DEF TargetReady
<1>11. boot = "flag" /\ Nobody => Nobody'
  BY <1>2, <1>5 DEF Nobody
<1>12. Ends'
  <2>1. FlagBack' = FlagBack /\ Untouched' = Untouched /\ NothingLeft' = NothingLeft
    BY <1>2 DEF FlagBack, Untouched, NothingLeft, record
  <2>2. Untouched \/ pc \in {"finish", "finish2"} => FlagBack
    BY DEF FlagBack
  <2> QED BY <1>2, <1>10, <1>11, <2>1, <2>2 DEF JInv, Ends
<1>13. LeavingIsRecorded'
  BY <1>2, <1>3, <1>5 DEF JInv, LeavingIsRecorded, IInv, CInv, DisabledIsRecoverable
<1> QED BY <1>7, <1>8, <1>9, <1>12, <1>13 DEF JInv

(* After an interruption there is nothing to end.                          *)
LEMMA InterruptedEnds ==
  ASSUME IInv, JInv, Interrupted
  PROVE  /\ Tasks' /\ Ends' /\ pc' = "off" /\ phase' = "idle" /\ task' = "none"
         /\ journal'.target # 1 /\ temp'.target # 1 /\ mem'.target # 1
         /\ UNCHANGED <<boot, runtime, overtaken>> /\ Readable' = Readable
<1> USE EmptyRecords, NoTargets
<1>1. /\ Off /\ UNCHANGED <<boot, journal, runtime, overtaken>>
      /\ temp' = temp \/ (temp = NoRecord /\ temp' = Torn)
  <2>1. Off /\ UNCHANGED <<boot, journal, runtime, overtaken>>
    BY DEF Interrupted
  <2>2. temp' = temp \/ (temp = NoRecord /\ temp' = Torn)
    BY DEF Interrupted
  <2> QED BY <2>1, <2>2
<1>2. pc' = "off" /\ phase' = "idle" /\ task' = "none" /\ mem' = NoRecord
  BY <1>1 DEF Off
<1>3. Tasks'
  BY <1>2 DEF Tasks
<1>4. Ends'
  BY <1>2 DEF Ends, FlagBack, Untouched
<1>5. Readable' = Readable
  BY <1>1 DEF Readable
<1> QED BY <1>1, <1>2, <1>3, <1>4, <1>5 DEF JInv, OldLeaves

LEMMA KillEnds == ASSUME IInv, JInv, Kill PROVE JInv'
<1>1. /\ Tasks' /\ Ends' /\ phase' = "idle" /\ task' = "none"
      /\ journal'.target # 1 /\ temp'.target # 1 /\ mem'.target # 1
      /\ UNCHANGED <<boot, runtime, overtaken>> /\ Readable' = Readable
  BY InterruptedEnds DEF Kill
<1>2. UNCHANGED <<stage, born>>
  BY DEF Kill, service
<1>3. Running' = Running /\ Leaving' = Leaving
  BY <1>2, StagesKept
<1> QED BY <1>1, <1>2, <1>3 DEF JInv, Births, OldLeaves, LeavingIsRecorded

LEMMA PowerLossEnds == ASSUME IInv, JInv, PowerLoss PROVE JInv'
<1> DEFINE ended == [p \in Pids |-> IF stage[p] = "none" THEN "none" ELSE "gone"]
<1>1. /\ Tasks' /\ Ends' /\ phase' = "idle" /\ task' = "none"
      /\ journal'.target # 1 /\ temp'.target # 1 /\ mem'.target # 1
      /\ UNCHANGED <<boot, runtime, overtaken>> /\ Readable' = Readable
  BY InterruptedEnds DEF PowerLoss
<1>2. \/ /\ boot = "flag" /\ born < MaxProcesses /\ born' = born + 1
         /\ stage' = [ended EXCEPT ![born + 1] = "starting"]
      \/ boot = "backup" /\ born' = born /\ stage' = ended
  BY DEF PowerLoss
<1>3. born \in Pids /\ runtime \in Pids \cup {0} /\ stage \in [Pids -> Stages]
  BY DEF IInv, FilesOK, ServicesOK
<1>4. Leaving' = {} /\ (boot = "backup" => Running' = {})
  BY <1>2, <1>3 DEF Leaving, Running
<1>5. Births'
  <2>1. /\ \A q \in Pids : q > born => stage[q] = "none"
        /\ runtime # 0 => stage[runtime] # "none"
    BY DEF JInv, Births
  <2>2. CASE /\ born < MaxProcesses /\ born' = born + 1
             /\ stage' = [ended EXCEPT ![born + 1] = "starting"]
    <3>1. \A q \in Pids : q > born' => stage'[q] = "none"
      BY <1>3, <2>1, <2>2
    <3>2. runtime # 0 => runtime # born + 1 /\ stage'[runtime] = "gone"
      BY <1>3, <2>1, <2>2
    <3> QED BY <1>1, <3>1, <3>2 DEF Births
  <2>3. CASE born' = born /\ stage' = ended
    <3>1. \A q \in Pids : q > born' => stage'[q] = "none"
      BY <1>3, <2>1, <2>3
    <3>2. runtime # 0 => stage'[runtime] = "gone"
      BY <1>3, <2>1, <2>3
    <3> QED BY <1>1, <3>1, <3>2 DEF Births
  <2> QED BY <1>2, <2>2, <2>3
<1>6. OldLeaves' /\ LeavingIsRecorded'
  BY <1>1, <1>4 DEF OldLeaves, LeavingIsRecorded
<1> QED BY <1>1, <1>5, <1>6 DEF JInv

-----------------------------------------------------------------------------
LEMMA InitJInv == Init => JInv
<1> SUFFICES ASSUME Init PROVE JInv
  OBVIOUS
<1> USE EmptyRecords, NoTargets DEF Init
<1>1. Tasks /\ Births
  BY DEF Tasks, Births
<1>2. Leaving = {}
  BY DEF Leaving
<1>3. OldLeaves
  BY <1>2 DEF OldLeaves
<1>4. Ends
  BY <1>2 DEF Ends, Nobody, Untouched, FlagBack
<1>5. LeavingIsRecorded
  BY <1>2 DEF LeavingIsRecorded
<1> QED BY <1>1, <1>3, <1>4, <1>5 DEF JInv

LEMMA StutterJInv == IInv /\ JInv /\ UNCHANGED vars => JInv'
<1> SUFFICES ASSUME JInv, UNCHANGED vars PROVE JInv'
  OBVIOUS
<1> USE DEF vars, record, letters, service, control, memory, counts
<1>1. Running' = Running /\ Leaving' = Leaving
  BY StagesKept
<1>2. Readable' = Readable /\ NothingLeft' = NothingLeft /\ FlagBack' = FlagBack /\ Untouched' = Untouched
  BY DEF Readable, NothingLeft, FlagBack, Untouched
<1>3. Tasks' /\ Births' /\ OldLeaves'
  BY <1>1 DEF JInv, Tasks, Births, OldLeaves, SourceStays
<1>4. Ends' /\ LeavingIsRecorded'
  BY <1>1, <1>2 DEF JInv, Ends, Nobody, TargetReady, LeavingIsRecorded
<1> QED BY <1>3, <1>4 DEF JInv

LEMMA NextJInv == IInv /\ JInv /\ [Next]_vars => JInv'
<1> SUFFICES ASSUME IInv, JInv, [Next]_vars PROVE JInv'
  OBVIOUS
<1>1. CASE Launcher
  BY <1>1, WriteTempEnds, SwapEnds, ReadEnds, RestoreBootEnds, ClearIntentEnds, ClearReadyEnds,
     FinishEnds, FinishTempEnds, WriteIntentEnds, TickAckEnds, DisableBootEnds, RevertEnds,
     TickExitEnds, LaunchEnds, TickReadyEnds, LookEnds DEF Launcher
<1>2. CASE Open \/ Begin \/ Exit
  BY <1>2, OpenEnds, BeginEnds, ExitEnds
<1>3. CASE Kill \/ PowerLoss
  BY <1>3, KillEnds, PowerLossEnds
<1>4. CASE \E p \in Pids : Service(p)
  BY <1>4, ServiceEnds
<1>5. CASE UNCHANGED vars
  BY <1>5, StutterJInv
<1> QED BY <1>1, <1>2, <1>3, <1>4, <1>5 DEF Next

LEMMA SpecJInv == Spec => []JInv
BY SpecIInv, InitJInv, NextJInv, PTL DEF Spec

(* Where the application reports no hand-off, or one that has succeeded,   *)
(* nothing of it is on the card and the flag is in its place; after a      *)
(* success a new version runs and has told its identity (finish_journal,   *)
(* recover_startup, tick).                                                 *)
THEOREM EndsAreSettled == Spec => []Settled
<1>1. JInv => Settled
  <2> SUFFICES ASSUME JInv, pc = "rest", phase \in {"idle", "done"}
               PROVE  NothingLeft /\ (phase = "done" => \E p \in Running : ~Old(p) /\ runtime = p)
    BY DEF Settled
  <2>1. NothingLeft /\ (phase = "done" => TargetReady)
    BY DEF JInv, Ends
  <2>2. TargetReady => mem.target \in Running /\ runtime = mem.target /\ ~Old(mem.target)
    BY DEF TargetReady, JInv, OldLeaves, Old
  <2> QED BY <2>1, <2>2
<1> QED BY <1>1, SpecJInv, PTL

(* While a service leaves because its flag is gone, the journal can be     *)
(* read, so that a later start of the application finds that a service is  *)
(* missing; unless a recovery found the source still running.              *)
THEOREM LeavingKnown == Spec => []LeavingIsRecorded
<1>1. JInv => LeavingIsRecorded
  BY DEF JInv
<1> QED BY <1>1, SpecJInv, PTL

=============================================================================
