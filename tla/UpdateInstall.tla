--------------------------- MODULE UpdateInstall ---------------------------
(***************************************************************************)
(* The installer of an online update: the application replaces the files   *)
(* of one release by those of another, one at a time, under a journal and  *)
(* a lock, and puts the old ones back when it was interrupted.  One action *)
(* is one change of the card together with its commit.  Between two of     *)
(* them the application may be killed, the power may go and the service,   *)
(* which runs from the files being replaced, may start.                    *)
(*                                                                         *)
(* An update begins here with its package verified, its stage frozen and   *)
(* the backup of the configuration archived.                               *)
(***************************************************************************)
EXTENDS Integers

CONSTANTS
  Count,       \* assets of a package, PTC_UPDATE_FILE_COUNT, 13
  Added,       \* assets that the first release does not have
  Updates,     \* bound: updates tried, each with an id and a target of its own
  None, Torn,  \* no file; a file whose writing was cut short
  TornWrites,  \* a write that is cut short leaves part of the file
  MaxFaults    \* bound: calls of the card that fail, kills and power cuts

File    == 0 .. Count - 1
Service == 0                       \* exefs.nsp, what the service runs from
Flag    == 1                       \* boot2.flag, empty in every release
App     == Count - 1               \* pctc.nro and build.json, replaced last
Update  == 1 .. Updates
Release == 0 .. Updates

ASSUME CountAssumption == Count \in Nat /\ Count >= 3
ASSUME BoundsAssumption == Updates \in Nat /\ MaxFaults \in Nat
ASSUME AddedAssumption == Added \subseteq File \ {Service, Flag, App}
ASSUME NamesAssumption == None # Torn /\ {None, Torn} \cap Int = {}
ASSUME FaultsAssumption == TornWrites \in BOOLEAN

VARIABLES
  disk,     \* the card: see Init
  app,      \* the application: what it does, how far it is, what it shows
  journal,  \* its copy of the journal
  service,  \* "off", "starting" or "on", the release it runs, and the
            \* updates whose source it is: its boot is the one they recorded
  tried, faults,
  lost      \* history: the update whose lock is gone though its job failed

vars == <<disk, app, journal, service, tried, faults, lost>>
counts == <<tried, faults, lost>>

Phase   == {"prepared", "installing", "files_installed", "completed", "rolling_back", "rolled_back"}
Entry   == [id : Update, phase : Phase, next : 0 .. Count]
Content == Release \cup {None}

ASSUME EntryAssumption == {None, Torn} \cap Entry = {}

(* The files of a release; every release has the same empty flag.          *)
Asset(r, f)  == IF f = Flag THEN 0 ELSE IF r = 0 /\ f \in Added THEN None ELSE r
Busy(j)      == j.phase \in {"prepared", "installing", "rolling_back"}
Terminal(j)  == j.phase \in {"completed", "rolled_back"}
Before(j)    == disk.before[j.id]
After(j)     == [f \in File |-> Asset(j.id, f)]

(* ptc_update_journal_load: the published journal, or the lock owner's own *)
(* one where the published one is another, finished, update's.             *)
Loaded ==
  IF disk.lock = None THEN disk.active
  ELSE IF disk.lock = Torn THEN None
  ELSE IF disk.active = None THEN disk.own[disk.lock]
  ELSE IF disk.active.id = disk.lock THEN disk.active
  ELSE IF Terminal(disk.active) THEN disk.own[disk.lock] ELSE None

(* Mutant: the lock alone is not asked for.                                *)
BlockedByJournal == disk.active # None /\ Busy(disk.active)

(* ptc_update_fs_busy, by which the service refuses to start.              *)
Blocked == \/ disk.lock # None
           \/ disk.active # None /\ Busy(disk.active)

Off == [at |-> "off", release |-> 0, found |-> {}]
Closed == [job |-> "closed", at |-> "none", save |-> "none", i |-> 0, release |-> 0, status |-> "idle"]

Init ==
  /\ disk = [live |-> [f \in File |-> Asset(0, f)],      \* the installed files
             beside |-> [f \in File |-> None],           \* <file>.playwise-update.tmp
             before |-> [u \in Update |-> [f \in File |-> None]],
             own |-> [u \in Update |-> None],            \* <id>/journal.json
             ownTmp |-> [u \in Update |-> None],         \* and its .online-tmp
             active |-> None, activeTmp |-> None,        \* active.json
             lock |-> None]                              \* install.lock
  /\ app = Closed
  /\ journal = None
  /\ service = [at |-> "on", release |-> 0, found |-> {}]
  /\ tried = 0 /\ faults = 0 /\ lost = None

-----------------------------------------------------------------------------
(* Steps of a job.  A job that fails leaves the card as it is; an install  *)
(* goes on to look whether it may roll back at once.                       *)
Stopped == IF app.job = "install" THEN [app EXCEPT !.at = "failed", !.save = "none"]
           ELSE IF app.job = "complete" THEN [app EXCEPT !.job = "ready", !.at = "none", !.save = "none"]
           ELSE [app EXCEPT !.job = "ready", !.at = "none", !.save = "none", !.status = "recovery_required"]

KeptJournal == IF app.job = "complete" THEN [journal EXCEPT !.phase = "files_installed"] ELSE journal

At(label) == app.save = "none" /\ app.at = label
Same      == UNCHANGED <<service, tried, lost>>

Refuse == app' = Stopped /\ journal' = KeptJournal /\ UNCHANGED <<disk, faults>> /\ Same

(* A call that turns the card into done, or fails before or after it did,  *)
(* or leaves the card in one of partial.                                   *)
Attempt(done, partial, then) ==
  \/ disk' = done /\ app' = then /\ UNCHANGED <<journal, faults>>
  \/ /\ faults < MaxFaults /\ faults' = faults + 1
     /\ disk' \in {disk, done} \cup partial
     /\ app' = Stopped /\ journal' = KeptJournal
Call(done, partial, then) == Attempt(done, partial, then) /\ Same

(* save_journal: the update's own journal, and then, where it is to be     *)
(* published, active.json.                                                 *)
Save(j, first, then) ==
  /\ journal' = j /\ app' = [app EXCEPT !.save = first, !.at = then]
  /\ UNCHANGED <<disk, faults>> /\ Same
Publish(j, then) == Save(j, "own.write", then)

Owned(tmp) == tmp \in {None} \cup Entry /\ (tmp # None => tmp.id = journal.id)

WriteOwn ==
  /\ app.save \in {"own.write", "alone.write"}
  /\ IF Owned(disk.ownTmp[journal.id])
     THEN Call([disk EXCEPT !.ownTmp[journal.id] = journal],
               {[disk EXCEPT !.ownTmp[journal.id] = t] : t \in IF TornWrites THEN {None, Torn} ELSE {None}},
               [app EXCEPT !.save = IF @ = "own.write" THEN "own.remove" ELSE "alone.remove"])
     ELSE Refuse

RemoveOwn ==
  /\ app.save \in {"own.remove", "alone.remove"}
  /\ Call([disk EXCEPT !.own[journal.id] = None], {},
          [app EXCEPT !.save = IF @ = "own.remove" THEN "own.rename" ELSE "alone.rename"])

RenameOwn ==
  /\ app.save \in {"own.rename", "alone.rename"}
  /\ Call([disk EXCEPT !.own[journal.id] = disk.ownTmp[journal.id], !.ownTmp[journal.id] = None], {},
          [app EXCEPT !.save = IF @ = "own.rename" THEN "active.write" ELSE "none"])

WriteActive ==
  /\ app.save = "active.write"
  /\ IF Owned(disk.activeTmp)
     THEN Call([disk EXCEPT !.activeTmp = journal],
               {[disk EXCEPT !.activeTmp = t] : t \in IF TornWrites THEN {None, Torn} ELSE {None}},
               [app EXCEPT !.save = "active.remove"])
     ELSE Refuse

RemoveActive ==
  /\ app.save = "active.remove"
  /\ Call([disk EXCEPT !.active = None], {}, [app EXCEPT !.save = "active.rename"])

RenameActive ==
  /\ app.save = "active.rename"
  /\ Call([disk EXCEPT !.active = disk.activeTmp, !.activeTmp = None], {},
          [app EXCEPT !.save = "none"])

-----------------------------------------------------------------------------
(* ptc_update_prepare: the old files are copied, the journal is written,   *)
(* the lock is taken and only then the journal is published.               *)
Prepare ==
  /\ At("prepare")
  /\ IF disk.lock = None /\ (disk.active # None => Terminal(disk.active))
     THEN /\ disk' = [disk EXCEPT !.before[tried] = disk.live]
          /\ journal' = [id |-> tried, phase |-> "prepared", next |-> 0]
          /\ app' = [app EXCEPT !.save = "alone.write", !.at = "claim"]
          /\ UNCHANGED faults /\ Same
     ELSE Refuse

Claim ==
  /\ At("claim")
  /\ IF disk.lock = None
     THEN Call([disk EXCEPT !.lock = journal.id],
               IF TornWrites THEN {[disk EXCEPT !.lock = Torn]} ELSE {},
               [app EXCEPT !.at = "recheck"])
     ELSE Refuse

Recheck ==
  /\ At("recheck")
  /\ IF (disk.active # None => Terminal(disk.active)) /\ disk.live = Before(journal)
     THEN Publish(journal, "install")
     ELSE Call([disk EXCEPT !.lock = None], {}, Stopped)     \* whether or not it is given back

(* ptc_update_install.  The journal names a file before it is touched.     *)
Install ==
  /\ At("install")
  /\ IF disk.live = Before(journal)
     THEN Publish([journal EXCEPT !.phase = "installing"], "intend")
     ELSE Refuse

(* Mutant: the last file is forgotten, and so is the last look at them all. *)
IntendEarly ==
  /\ At("intend")
  /\ IF journal.next < Count - 1
     THEN Publish(journal, IF journal.next = Flag THEN "advance" ELSE "copy")
     ELSE Publish([journal EXCEPT !.phase = "files_installed"], "unlock")

Intend ==
  /\ At("intend")
  /\ IF journal.next < Count
     THEN Publish(journal, IF journal.next = Flag THEN "advance" ELSE "copy")
     ELSE IF disk.live = After(journal)
     THEN Publish([journal EXCEPT !.phase = "files_installed"], "unlock")
     ELSE Refuse

Copy ==              \* of publish: to the file's neighbour, which must not be there
  /\ At("copy")
  /\ LET f == journal.next IN
     IF disk.live[f] = Before(journal)[f] /\ disk.beside[f] = None
     THEN Call([disk EXCEPT !.beside[f] = After(journal)[f]],
               IF TornWrites THEN {[disk EXCEPT !.beside[f] = Torn]} ELSE {},
               [app EXCEPT !.at = "take"])
     ELSE Refuse

Take ==              \* the old file is removed
  /\ At("take")
  /\ LET f == journal.next IN
     IF disk.live[f] = Before(journal)[f]
     THEN Call([disk EXCEPT !.live[f] = None], {}, [app EXCEPT !.at = "put"])
     ELSE Refuse

Put ==
  /\ At("put")
  /\ LET f == journal.next IN
     Call([disk EXCEPT !.live[f] = disk.beside[f], !.beside[f] = None], {}, [app EXCEPT !.at = "advance"])

Advance ==
  /\ At("advance")
  /\ Publish([journal EXCEPT !.next = @ + 1], "intend")

(* The end of an install and of a rollback.                                *)
Done == [app EXCEPT !.job = "ready", !.at = "none",
           !.status = IF app.job = "install" THEN "awaiting_reopen" ELSE "idle"]

(* The lock may be gone, and the commit fail: its job takes that for a     *)
(* failure of its own, and an install is then undone without a lock.       *)
Unlock ==
  /\ At("unlock")
  /\ CASE disk.lock = None       -> app' = Done /\ UNCHANGED <<disk, journal, faults>> /\ Same
       [] disk.lock = journal.id -> /\ Attempt([disk EXCEPT !.lock = None], {}, Done)
                                    /\ lost' = IF app' # Done /\ disk'.lock = None THEN journal.id ELSE lost
                                    /\ UNCHANGED <<service, tried>>
       [] OTHER                  -> Refuse

-----------------------------------------------------------------------------
(* ptc_update_rollback checks every old copy and every installed file, for *)
(* a file may be missing only where the journal says, and then goes from   *)
(* the last file to the first.                                             *)
Restorable(j) ==
  \A f \in File : \/ disk.live[f] \in {Before(j)[f], After(j)[f]}
                  \/ disk.live[f] = None /\ f = j.next

Rollback ==
  /\ At("rollback")
  /\ IF journal.phase = "rolled_back"
     THEN IF disk.live = Before(journal)
          THEN app' = [app EXCEPT !.at = "unlock"] /\ UNCHANGED <<disk, journal, faults>> /\ Same
          ELSE Refuse
     ELSE IF journal.phase # "completed" /\ Restorable(journal)
     THEN /\ journal' = [journal EXCEPT !.phase = "rolling_back"]
          /\ app' = [app EXCEPT !.save = "own.write", !.at = "descend", !.i = Count - 1]
          /\ UNCHANGED <<disk, faults>> /\ Same
     ELSE Refuse

Descend ==
  /\ At("descend") /\ app.i >= 0
  /\ IF app.i = Flag
     THEN app' = [app EXCEPT !.i = @ - 1] /\ UNCHANGED <<disk, journal, faults>> /\ Same
     ELSE Publish([journal EXCEPT !.next = app.i], "discard")

(* Mutant: any neighbour is taken for a stranger's.                        *)
DiscardNothing ==
  /\ At("discard")
  /\ IF disk.beside[app.i] = None
     THEN app' = [app EXCEPT !.at = "restore"] /\ UNCHANGED <<disk, journal, faults>> /\ Same
     ELSE Refuse

Discard ==           \* a neighbour that is neither the old nor the new file stays, and bars the way
  /\ At("discard")
  /\ LET f == app.i IN
     IF disk.beside[f] = None
     THEN app' = [app EXCEPT !.at = "restore"] /\ UNCHANGED <<disk, journal, faults>> /\ Same
     ELSE IF disk.beside[f] \in {Before(journal)[f], After(journal)[f]}
     THEN Call([disk EXCEPT !.beside[f] = None], {}, [app EXCEPT !.at = "restore"])
     ELSE Refuse

Below == [app EXCEPT !.at = "descend", !.i = @ - 1]

Restore ==
  /\ At("restore")
  /\ LET f == app.i IN
     IF disk.live[f] = Before(journal)[f]
     THEN app' = Below /\ UNCHANGED <<disk, journal, faults>> /\ Same
     ELSE IF Before(journal)[f] = None     \* the old release does not have it
     THEN Call([disk EXCEPT !.live[f] = None], {}, Below)
     ELSE Call([disk EXCEPT !.beside[f] = Before(journal)[f]],
               IF TornWrites THEN {[disk EXCEPT !.beside[f] = Torn]} ELSE {},
               [app EXCEPT !.at = "retake"])

Retake ==
  /\ At("retake")
  /\ LET f == app.i IN
     IF disk.live[f] \in {None, After(journal)[f]}
     THEN Call([disk EXCEPT !.live[f] = None], {}, [app EXCEPT !.at = "reput"])
     ELSE Refuse

Reput ==
  /\ At("reput")
  /\ LET f == app.i IN
     Call([disk EXCEPT !.live[f] = disk.beside[f], !.beside[f] = None], {}, Below)

Finish ==
  /\ At("descend") /\ app.i < 0
  /\ IF disk.live = Before(journal)
     THEN Publish([journal EXCEPT !.phase = "rolled_back"], "unlock")
     ELSE Refuse

-----------------------------------------------------------------------------
(* ptc_online_update_can_recover: the service is the one the update found, *)
(* or there is none.                                                       *)
CanRecover(u) == service.at = "off" \/ u \in service.found

(* The worker, when an install has failed.                                 *)
Failed ==
  /\ At("failed")
  /\ IF Loaded # None /\ Loaded.id = tried /\ CanRecover(tried)
     THEN journal' = Loaded /\ app' = [app EXCEPT !.job = "undo", !.at = "rollback"]
     ELSE /\ UNCHANGED journal
          /\ app' = [app EXCEPT !.job = "ready", !.at = "none", !.status = "recovery_required"]
  /\ UNCHANGED <<disk, faults>> /\ Same

(* ptc_online_update_init_at.  The application on the card runs, or the    *)
(* copy of it among the old files where an update has removed it.          *)
Shown ==
  IF disk.lock # None THEN "recovery_required"
  ELSE IF disk.active = None THEN "idle"
  ELSE IF disk.active.phase = "files_installed"
  THEN IF disk.live = After(disk.active) THEN "awaiting_reopen" ELSE "recovery_required"
  ELSE IF Busy(disk.active) THEN "recovery_required" ELSE "idle"

Open ==
  /\ app.job = "closed"
  /\ app' = [Closed EXCEPT !.job = "ready", !.status = Shown,
               !.release = IF disk.live[App] # None THEN disk.live[App] ELSE disk.before[tried][App]]
  /\ journal' = Loaded
  /\ UNCHANGED <<disk, service, counts>>

Close ==             \* the application waits for its worker
  /\ app.job = "ready"
  /\ app' = Closed /\ journal' = None
  /\ UNCHANGED <<disk, service, counts>>

(* A download is offered and verified, the backup is there: the components *)
(* on the card are those of the application and of the running service.    *)
Start ==
  /\ app.job = "ready" /\ app.status = "idle" /\ tried < Updates
  /\ service.at = "on" /\ service.release = app.release
  /\ \A f \in {Service, App} : disk.live[f] = app.release
  /\ tried' = tried + 1
  /\ service' = [service EXCEPT !.found = @ \cup {tried + 1}]
  /\ journal' = None
  /\ app' = [app EXCEPT !.job = "install", !.at = "prepare"]
  /\ UNCHANGED <<disk, faults, lost>>

Recover ==
  /\ app.job = "ready" /\ app.status = "recovery_required"
  /\ Loaded # None /\ CanRecover(Loaded.id)
  /\ journal' = Loaded
  /\ app' = [app EXCEPT !.job = "recover", !.at = "rollback"]
  /\ UNCHANGED <<disk, service, counts>>

(* ptc_online_update_complete, after a status of the new service.          *)
Complete ==
  /\ app.job = "ready" /\ journal # None /\ journal.phase = "files_installed"
  /\ app.release = journal.id /\ disk.live = After(journal)
  /\ service.at = "on" /\ service.release = journal.id /\ journal.id \notin service.found
  /\ journal' = [journal EXCEPT !.phase = "completed"]
  /\ app' = [app EXCEPT !.job = "complete", !.at = "completed", !.save = "own.write"]
  /\ UNCHANGED <<disk, service, counts>>

Completed ==
  /\ At("completed")
  /\ app' = [app EXCEPT !.job = "ready", !.at = "none", !.status = "idle"]
  /\ UNCHANGED <<disk, journal, service, counts>>

-----------------------------------------------------------------------------
(* The service.  It starts with the console, and when the application of   *)
(* another release hands over to its own.                                  *)
HandOver ==
  /\ app.job = "ready" /\ service.at = "on" /\ app.release # service.release
  /\ service' = [Off EXCEPT !.at = "starting"]
  /\ UNCHANGED <<disk, app, journal, counts>>

Reboot ==
  /\ app.job = "closed" /\ service' = [Off EXCEPT !.at = "starting"]
  /\ UNCHANGED <<disk, app, journal, counts>>

(* Mutant: the service starts on whatever is there.                        *)
ServiceStartUnasked ==
  /\ service.at = "starting"
  /\ service' = IF disk.live[Service] = None THEN Off
                ELSE [at |-> "on", release |-> disk.live[Service], found |-> {}]
  /\ UNCHANGED <<disk, app, journal, counts>>

ServiceStart ==
  /\ service.at = "starting"
  /\ service' = IF Blocked \/ disk.live[Service] = None THEN Off
                ELSE [at |-> "on", release |-> disk.live[Service], found |-> {}]
  /\ UNCHANGED <<disk, app, journal, counts>>

(* The application is killed, or the power goes, between two calls or in   *)
(* one.                                                                    *)
CutShort ==
  LET half == CASE app.save \in {"own.write", "alone.write"} -> {[disk EXCEPT !.ownTmp[journal.id] = t] : t \in {None, Torn}}
                [] app.save = "active.write" -> {[disk EXCEPT !.activeTmp = t] : t \in {None, Torn}}
                [] At("claim") /\ disk.lock = None -> {[disk EXCEPT !.lock = Torn]}
                [] At("copy") -> {[disk EXCEPT !.beside[journal.next] = Torn]}
                [] At("restore") -> {[disk EXCEPT !.beside[app.i] = Torn]}
                [] OTHER -> {}
  IN  disk' \in {disk} \cup (IF TornWrites THEN half ELSE {})

Stop ==
  /\ faults < MaxFaults /\ faults' = faults + 1
  /\ app' = Closed /\ journal' = None
  /\ CutShort
  /\ service' \in {service, [Off EXCEPT !.at = "starting"]}
  /\ UNCHANGED <<tried, lost>>

-----------------------------------------------------------------------------
JobStep ==
  \/ WriteOwn \/ RemoveOwn \/ RenameOwn \/ WriteActive \/ RemoveActive \/ RenameActive
  \/ Prepare \/ Claim \/ Recheck \/ Install \/ Intend \/ Copy \/ Take \/ Put \/ Advance
  \/ Rollback \/ Descend \/ Discard \/ Restore \/ Retake \/ Reput \/ Finish
  \/ Unlock \/ Failed \/ Completed

Next == JobStep \/ Open \/ Close \/ Start \/ Recover \/ Complete \/ HandOver \/ Reboot \/ ServiceStart \/ Stop

Spec == Init /\ [][Next]_vars

(* The worker runs and the service starts or stays off.  A parent opens    *)
(* the application when the console is up, and confirms the recovery it    *)
(* asks for, however often it was closed or the console restarted before.  *)
FairSpec == /\ Spec /\ WF_vars(JobStep) /\ WF_vars(ServiceStart)
            /\ SF_vars(Open /\ service.at # "starting") /\ SF_vars(Recover)

-----------------------------------------------------------------------------
Mixed == \A r \in Release : disk.live # [f \in File |-> Asset(r, f)]

(* An update is undone without its lock, and of active.json there is only  *)
(* the neighbour: nothing on the card says that the files are mixed.       *)
Astray == /\ Mixed /\ disk.lock = None /\ disk.active = None
          /\ disk.activeTmp \notin {None, Torn} /\ disk.activeTmp.id = lost
          /\ disk.activeTmp.phase = "rolling_back"

(* While the files on the card are of two releases, or one is missing, the *)
(* service that starts next is kept from them: main.c, "A partial          *)
(* multi-file update must not bootstrap defaults or write PCTL".  The lock *)
(* or the journal must say so at every step of an install, of a rollback   *)
(* and of the rewriting of the journal itself.  The code breaks this in    *)
(* one place, and only that is excepted: the journal of a rollback whose   *)
(* update lost its lock to a failed commit is being replaced.              *)
MixedIsBlocked == Mixed => Blocked \/ Astray

(* A finished journal tells the truth: completed, with every file of the   *)
(* target, or rolled back, with every file of the source, until the next   *)
(* update has the lock.                                                    *)
FinishedIsWhole ==
  disk.active # None /\ disk.lock \in {None, disk.active.id} =>
    /\ disk.active.phase \in {"completed", "files_installed"} => disk.live = After(disk.active)
    /\ disk.active.phase = "rolled_back" => disk.live = Before(disk.active)

(* The promise of the whole: while the lock is held, or the journal says   *)
(* that an update is under way, the files are between two releases; they   *)
(* are wholly of the one or the other when it ends, and the service never  *)
(* starts in between unless the rollback has gone astray.                  *)
ReleaseOf(files) == CHOOSE r \in Release : files = [f \in File |-> Asset(r, f)]
Holder == IF disk.lock \in Update THEN disk.lock
          ELSE IF disk.active # None /\ Busy(disk.active) THEN disk.active.id
          ELSE IF Astray THEN lost ELSE None
Switch == INSTANCE ReleaseSwitch WITH
  Nothing <- None,
  card    <- IF Holder = None THEN {ReleaseOf(disk.live)} ELSE {ReleaseOf(disk.before[Holder]), Holder},
  guarded <- ~Astray,
  running <- IF service.at = "on" THEN service.release ELSE None
SwitchesReleases == Switch!Spec

(* A rollback that was interrupted is accepted again when the application  *)
(* is next opened.                                                         *)
RollbackResumes ==
  app.job \in {"closed", "ready"} /\ Loaded # None /\ Loaded.phase = "rolling_back" => Restorable(Loaded)

(* The update that holds the lock is found by it.                          *)
OwnerIsFound ==
  app.job \in {"closed", "ready"} /\ disk.lock \in Update => Loaded # None /\ Loaded.id = disk.lock

(* What the installer refuses to go on from: a file cut short that nobody  *)
(* may remove, a lock that names no update, a journal of which only the    *)
(* neighbours are left, with the lock or without it, the neighbour of      *)
(* active.json that an earlier update left behind, a file missing where    *)
(* the journal does not say so.                                            *)
Obstructed ==
  \/ disk.lock = Torn \/ disk.activeTmp = Torn
  \/ \E u \in Update : disk.ownTmp[u] = Torn
  \/ \E f \in File : disk.beside[f] = Torn
  \/ disk.lock # None /\ Loaded = None
  \/ Astray
  \/ Loaded # None /\ ~Restorable(Loaded)
  \/ disk.lock # None /\ disk.activeTmp # None /\ disk.activeTmp.id # disk.lock

(* An interrupted update ends: the files are whole again and the lock, by  *)
(* which the service refuses every ordinary request, is given back.        *)
Interrupted == Mixed \/ disk.lock # None
(* It does unless the card is one that the installer refuses.              *)
RecoveryEndsOrRefused == Interrupted ~> (~Interrupted \/ Obstructed)

=============================================================================
