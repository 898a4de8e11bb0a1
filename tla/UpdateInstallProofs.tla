------------------------ MODULE UpdateInstallProofs ------------------------
(***************************************************************************)
(* Proofs about the installer, for a package of any number of files, any   *)
(* files that the first release lacks, any number of updates, and calls of *)
(* the card that fail or are cut short at any time.                        *)
(*                                                                         *)
(* The hard case is a commit that fails after the removal of the lock: the *)
(* install is taken for one that failed, and is rolled back without it.    *)
(***************************************************************************)
EXTENDS UpdateInstall, TLAPS

(***************************************************************************)
(* The inductive invariant.                                                *)
(***************************************************************************)
Whole(r)       == [f \in File |-> Asset(r, f)]
IsWhole(files) == \E r \in Release : files = Whole(r)
Locked         == disk.lock \in Update

Jobs     == {"closed", "ready", "install", "undo", "recover", "complete"}
Statuses == {"idle", "awaiting_reopen", "recovery_required"}
Owns     == {"own.write", "own.remove", "own.rename"}
Alones   == {"alone.write", "alone.remove", "alone.rename"}
Actives  == {"active.write", "active.remove", "active.rename"}
Publishes == Owns \cup Actives

Putting   == {"copy", "take", "put", "advance"}        \* of an install, on one file
Restoring == {"discard", "restore", "retake", "reput"} \* of a rollback, on one file
Held      == {"install", "intend", "descend"} \cup Putting \cup Restoring
Lowers    == {"descend"} \cup Restoring
Installs  == {"prepare", "claim", "recheck", "install", "intend", "unlock", "failed"} \cup Putting
Undoes    == {"rollback", "descend", "unlock"} \cup Restoring
Labels    == {"none", "completed"} \cup Installs \cup Undoes

Disk == [live : [File -> Content], beside : [File -> Content \cup {Torn}],
         before : [Update -> [File -> Content]],
         own : [Update -> Entry \cup {None}], ownTmp : [Update -> Entry \cup {None, Torn}],
         active : Entry \cup {None}, activeTmp : Entry \cup {None, Torn},
         lock : Update \cup {None, Torn}]

Apps == [job : Jobs, at : Labels, save : {"none"} \cup Publishes \cup Alones,
         i : -1 .. Count - 1, release : Content, status : Statuses]

TypeOK ==
  /\ disk \in Disk
  /\ app \in Apps
  /\ journal \in Entry \cup {None}
  /\ service \in [at : {"off", "starting", "on"}, release : Release, found : SUBSET Update]
  /\ tried \in 0 .. Updates
  /\ faults \in Nat
  /\ lost \in Update \cup {None}

(* Which labels a job goes through and where it rewrites the journal.      *)
Places ==
  /\ app.job \in {"closed", "ready"} => app.at = "none"
  /\ app.job = "install" => app.at \in Installs
  /\ app.job \in {"undo", "recover"} => app.at \in Undoes
  /\ app.job = "complete" => app.at = "completed"
  /\ app.job \in {"install", "undo", "recover"} => app.status # "awaiting_reopen"
  /\ app.at \in Restoring => app.i \in File
  /\ app.save \in Alones => app.at = "claim"
  /\ app.save \in Publishes =>
       app.at \in {"install", "intend", "copy", "advance", "unlock", "descend", "discard", "completed"}

(* No journal is of an update that has not begun, and the one that lost    *)
(* its lock had begun with a whole release.                                *)
Begun ==
  /\ Locked => disk.lock <= tried
  /\ disk.active # None => disk.active.id <= tried
  /\ journal # None => journal.id <= tried
  /\ journal # None /\ Locked => journal.id = disk.lock
  /\ \A u \in Update : disk.own[u] # None => disk.own[u].id = u
  /\ lost # None => lost <= tried /\ IsWhole(disk.before[lost])
  /\ app.at = "prepare" =>
       /\ tried \in Update /\ lost # tried
       /\ disk.active # None => disk.active.id < tried
       /\ ~Locked => IsWhole(disk.live)

(* What is written is the journal that the job keeps.                      *)
Written ==
  /\ app.save # "none" => journal \in Entry
  /\ app.save \in {"own.remove", "own.rename", "alone.remove", "alone.rename"} =>
       disk.ownTmp[journal.id] = journal
  /\ app.save \in {"active.remove", "active.rename"} => disk.activeTmp = journal
  /\ app.save = "active.rename" => disk.active = None
  /\ app.at \in {"take", "put"} => disk.beside[journal.next] = After(journal)[journal.next]
  /\ app.at \in {"retake", "reput"} => disk.beside[app.i] = Before(journal)[app.i]

(* Before the lock is taken, and until it is known to be the only one.     *)
Claiming ==
  app.at \in {"claim", "recheck"} =>
    /\ journal \in Entry /\ journal.id = tried /\ disk.before[tried] = disk.live
    /\ journal.phase = "prepared" /\ IsWhole(disk.live)
    /\ disk.active # None => Terminal(disk.active)
    /\ app.at = "claim" => disk.lock = None /\ (disk.active # None => disk.active.id < tried)
    /\ app.at = "recheck" => disk.lock = tried

(* While files are replaced the lock is the job's, or a rollback goes on   *)
(* without it, and between two writings of the journal active.json is the  *)
(* journal it keeps.                                                       *)
Holding ==
  app.at \in Held =>
    /\ journal \in Entry
    /\ disk.lock = journal.id \/ (disk.lock = None /\ lost = journal.id /\ app.at \in Lowers)
    /\ app.save = "none" => disk.active = journal
    /\ app.at = "install" => journal.phase = "prepared"
    /\ app.at \in {"intend"} \cup Putting => journal.phase = "installing"
    /\ app.at \in Putting => journal.next \in File
    /\ app.at \in {"descend"} \cup Restoring => journal.phase = "rolling_back"

(* A journal tells the truth of some files.                                *)
Tells(j, files) ==
  /\ j.phase \in {"completed", "files_installed"} => files = After(j)
  /\ j.phase = "rolled_back" => files = Before(j)

Ending ==
  /\ app.at = "unlock" =>
       /\ journal \in Entry /\ Tells(journal, disk.live)
       /\ disk.lock \in {None, journal.id}
       /\ journal.phase \in {"files_installed", "rolled_back"}
       /\ app.job = "install" => journal.phase = "files_installed" /\ disk.lock = journal.id
       /\ app.job # "install" => journal.phase = "rolled_back"
       /\ app.save # "none" => disk.lock = journal.id \/ lost = journal.id
       /\ app.save = "none" =>
            \/ disk.active = journal
            \/ /\ journal.phase = "rolled_back" /\ disk.lock = journal.id
               /\ disk.active # None => Terminal(disk.active)
  /\ app.at = "rollback" => journal \in Entry /\ journal = Loaded
  /\ app.at = "completed" =>
       /\ journal \in Entry /\ journal.phase = "completed" /\ disk.live = After(journal)
       /\ app.save = "none" => disk.active = journal

(* The files of two releases, the old ones from the last file on; one that *)
(* is the same in both stays.                                              *)
Staggered(old, new, files) ==
  /\ \A f \in File : old[f] = new[f] => files[f] = old[f]
  /\ \A f \in File : files[f] \in {old[f], new[f], None}
  /\ \A f \in File, g \in File : f < g /\ files[f] # new[f] => files[g] = old[g]

(* A rollback without the lock: its journal is active.json until it is     *)
(* removed, and goes from the last file to the first.                      *)
Lowering ==
  app.at \in Lowers \cup {"unlock"} /\ disk.lock = None =>
    /\ app.save \notin {"none", "active.rename"} =>
         disk.active # None /\ disk.active.id = lost /\ disk.active.phase \in {"rolling_back", "files_installed"}
    /\ app.at \in Lowers =>
         /\ Staggered(Before(journal), After(journal), disk.live)
         /\ \A f \in File : f > app.i => disk.live[f] = Before(journal)[f]
    /\ app.at = "retake" => disk.live[app.i] # Before(journal)[app.i]

(* An update is being undone, or was left half undone, without its lock.   *)
Bare ==
  /\ lost # None /\ disk.lock = None
  /\ LET j == IF disk.active = None THEN disk.activeTmp ELSE disk.active IN
     j \in Entry /\ j.id = lost /\ j.phase = "rolling_back"

Steps ==
  Bare => /\ IsWhole(disk.live) \/ Staggered(disk.before[lost], Whole(lost), disk.live)
          /\ journal # None /\ journal.phase \in {"files_installed", "completed"} => journal.id = lost

(* The files are whole when nobody has the lock, but for such an update,   *)
(* and the one who has it has a whole release to go back to.               *)
Sources == IF Locked THEN IsWhole(disk.before[disk.lock]) ELSE IsWhole(disk.live) \/ Bare

(* A finished journal tells the truth of the files that are there, or of   *)
(* those that the holder of the lock began with.                           *)
Truth ==
  disk.active # None =>
    Tells(disk.active,
          IF Locked /\ disk.lock # disk.active.id THEN disk.before[disk.lock] ELSE disk.live)

(* An update is only under way under its lock, or had it; and what the     *)
(* application takes for an interruption is not an update that awaits its  *)
(* reopening.                                                              *)
Quiet ==
  ~Locked /\ disk.active # None =>
    /\ Busy(disk.active) => Bare
    /\ disk.lock = Torn => Terminal(disk.active)
    /\ app.job # "closed" /\ app.status # "awaiting_reopen" => Terminal(disk.active) \/ disk.active.id = lost

IInv == /\ TypeOK /\ Places /\ Begun /\ Written /\ Claiming /\ Holding /\ Ending /\ Lowering
        /\ Steps /\ Sources /\ Truth /\ Quiet

USE CountAssumption, BoundsAssumption, AddedAssumption, NamesAssumption, FaultsAssumption, EntryAssumption DEF Apps

-----------------------------------------------------------------------------
(***************************************************************************)
(* The files.                                                              *)
(***************************************************************************)
(* The names of files, of updates and of releases.                         *)
LEMMA Names ==
  /\ Service \in File /\ Flag \in File /\ App \in File
  /\ Service # Flag /\ App # Flag /\ Service \notin Added /\ App \notin Added
  /\ Update \subseteq Release /\ 0 \in Release
  /\ None \notin Release /\ Torn \notin Release /\ None \notin Update /\ Torn \notin Update
BY DEF Service, Flag, App, File, Update, Release

(* The files of a release are a card's files.                              *)
LEMMA WholeType == \A r \in Release : Whole(r) \in [File -> Content]
BY Names DEF Whole, Asset, Content

(* A journal's new files are the release of its id.                        *)
LEMMA AfterIsWhole ==
  ASSUME NEW j \in Entry
  PROVE  After(j) = Whole(j.id) /\ j.id \in Release /\ IsWhole(After(j)) /\ After(j) \in [File -> Content]
BY Names, WholeType DEF After, Whole, IsWhole, Entry

(* The two files that every release has tell the releases apart.           *)
LEMMA WholeShows ==
  ASSUME NEW r \in Release
  PROVE  Whole(r)[Service] = r /\ Whole(r)[App] = r
BY Names DEF Whole, Asset

(* The parts of the card.                                                  *)
LEMMA DiskParts ==
  ASSUME disk \in Disk
  PROVE  /\ disk.live \in [File -> Content] /\ disk.beside \in [File -> Content \cup {Torn}]
         /\ disk.before \in [Update -> [File -> Content]]
         /\ disk.own \in [Update -> Entry \cup {None}] /\ disk.ownTmp \in [Update -> Entry \cup {None, Torn}]
         /\ disk.active \in Entry \cup {None} /\ disk.activeTmp \in Entry \cup {None, Torn}
         /\ disk.lock \in Update \cup {None, Torn}
BY DEF Disk

(* What the loading of the journal finds.                                  *)
LEMMA LoadedIs ==
  ASSUME disk \in Disk, Begun
  PROVE  /\ Loaded \in Entry \cup {None}
         /\ Loaded # None /\ Locked => Loaded.id = disk.lock
         /\ Loaded # None /\ ~Locked => disk.lock = None /\ Loaded = disk.active
<1>1. CASE disk.lock = None
  BY <1>1, DiskParts, Names DEF Loaded, Locked
<1>2. CASE disk.lock = Torn
  BY <1>2, DiskParts, Names DEF Loaded, Locked
<1>3. CASE disk.lock \in Update
  <2>1. disk.own[disk.lock] \in Entry \cup {None}
    BY <1>3, DiskParts
  <2>2. disk.lock # None /\ disk.lock # Torn
    BY <1>3, Names
  <2> QED BY <1>3, <2>1, <2>2, DiskParts DEF Loaded, Locked, Begun
<1> QED BY <1>1, <1>2, <1>3, DiskParts

-----------------------------------------------------------------------------
(***************************************************************************)
(* What a step leaves alone.                                               *)
(***************************************************************************)
(* The invariant in its three parts: the types, the card's part, and what  *)
(* holds at the places of a job.                                           *)
Card == Begun /\ Steps /\ Sources /\ Truth /\ Quiet
Job  == Places /\ Written /\ Claiming /\ Holding /\ Ending /\ Lowering

(* The neighbour of active.json matters only where a rollback without the  *)
(* lock was left half done.                                                *)
TmpMayChange == \/ disk'.activeTmp = disk.activeTmp
                \/ disk.active # None \/ Locked
                \/ IsWhole(disk.live) /\ ~Bare'

(* While the installed files, the old ones, the lock and active.json stay  *)
(* as they are, and the application does not take a finished update for an *)
(* interrupted one, the card's part is kept.                               *)
LEMMA CardKept ==
  ASSUME Card, disk'.live = disk.live, disk'.before = disk.before, disk'.lock = disk.lock,
         disk'.active = disk.active, UNCHANGED <<tried, lost>>,
         TmpMayChange,
         \A u \in Update : disk'.own[u] # None => disk'.own[u].id = u,
         app'.at # "prepare",
         journal' # None => journal'.id <= tried,
         journal' # None /\ Locked => journal'.id = disk.lock,
         journal' # None /\ journal'.phase \in {"files_installed", "completed"} =>
           \/ Locked \/ journal'.id = lost \/ journal' = Loaded
           \/ journal # None /\ journal.phase \in {"files_installed", "completed"} /\ journal'.id = journal.id,
         app'.job # "closed" /\ app'.status # "awaiting_reopen" =>
           app.job # "closed" /\ app.status # "awaiting_reopen"
  PROVE  Card'
<1> USE DEF Card
<1>1. Locked' = Locked
  BY DEF Locked
<1>2. Begun'
  BY <1>1 DEF Begun, IsWhole, Whole
<1>3. Bare' => Bare
  BY Names DEF TmpMayChange, Bare, Locked
<1>4. Sources'
  <2>1. CASE disk'.activeTmp = disk.activeTmp \/ disk.active # None
    <3>1. Bare' = Bare
      BY <2>1 DEF Bare
    <3> QED BY <1>1, <3>1 DEF Sources, IsWhole, Whole
  <2>2. CASE Locked \/ IsWhole(disk.live)
    BY <1>1, <2>2 DEF Sources, IsWhole, Whole
  <2> QED BY <2>1, <2>2 DEF TmpMayChange
<1>5. Truth'
  BY <1>1 DEF Truth, Tells, Before, After
<1>6. Quiet'
  <2> SUFFICES ASSUME ~Locked, disk.active # None PROVE Quiet'
    BY <1>1 DEF Quiet
  <2>1. Bare' = Bare
    BY DEF Bare
  <2> QED BY <1>1, <2>1 DEF Quiet, Busy, Terminal
<1>7. Steps'
  <2> SUFFICES ASSUME Bare' PROVE Steps'
    BY DEF Steps
  <2>1. Bare /\ ~Locked /\ (journal' = Loaded /\ journal' # None => journal'.id = lost)
    BY <1>3, Names DEF Bare, Locked, Loaded
  <2> QED BY <1>3, <2>1 DEF Steps, Staggered, IsWhole, Whole
<1> QED BY <1>2, <1>4, <1>5, <1>6, <1>7

(* A job that stops: nothing is asked of the card but its own part.        *)
LEMMA StopKeeps ==
  ASSUME TypeOK, Job, app.job \in {"install", "undo", "recover", "complete"},
         app' = Stopped, journal' = KeptJournal, UNCHANGED <<service, tried, lost>>, faults' \in Nat,
         disk' \in Disk, Card'
  PROVE  IInv'
<1>1. /\ app'.at \in {"none", "failed"} /\ app'.save = "none" /\ app'.job \in {"install", "ready"}
      /\ app'.at = "failed" <=> app'.job = "install"
      /\ app'.job = "install" => app'.status # "awaiting_reopen"
  BY DEF Stopped, TypeOK, Job, Places
<1>2. app' \in Apps
  BY DEF Stopped, TypeOK, Jobs, Labels, Installs, Statuses
<1>3. journal' \in Entry \cup {None}
  BY DEF KeptJournal, TypeOK, Job, Places, Ending, Entry, Phase
<1>4. TypeOK'
  BY <1>2, <1>3 DEF TypeOK
<1>5. Places' /\ Written' /\ Claiming' /\ Holding' /\ Ending' /\ Lowering'
  BY <1>1 DEF Places, Written, Claiming, Holding, Ending, Lowering, Held, Lowers, Putting, Restoring,
              Alones, Publishes, Owns, Actives, Installs, Undoes
<1> QED BY <1>4, <1>5 DEF IInv, Card

(* Only a job that is under way has a label or rewrites the journal.       *)
LEMMA Working ==
  ASSUME Places, TypeOK, app.at # "none" \/ app.save # "none"
  PROVE  app.job \in {"install", "undo", "recover", "complete"}
BY DEF Places, TypeOK, Jobs, Publishes, Alones

(* A stopped job asks no more of the application than it asked itself.     *)
LEMMA StoppedStatus ==
  ASSUME TypeOK, Places, app.job \in {"install", "undo", "recover", "complete"}, app' = Stopped
  PROVE  /\ app'.at # "prepare" /\ app'.job # "closed"
         /\ app'.status # "awaiting_reopen" => app.status # "awaiting_reopen"
BY DEF TypeOK, Places, Stopped

(* What a job that stops keeps of its journal is of the same update.       *)
SameUpdate ==
  journal' # None =>
    /\ journal # None /\ journal'.id = journal.id
    /\ journal'.phase \in {"files_installed", "completed"} => journal.phase \in {"files_installed", "completed"}

LEMMA KeptJournalId ==
  ASSUME TypeOK, Job, journal' = KeptJournal
  PROVE  /\ journal' # None => journal # None /\ journal'.id = journal.id /\ journal' \in Entry
         /\ SameUpdate
<1> USE DEF SameUpdate
<1>1. CASE app.job = "complete"
  <2>1. journal \in Entry /\ journal.phase = "completed" /\ journal # None
    BY <1>1 DEF Job, Places, Ending
  <2>2. journal' = [journal EXCEPT !.phase = "files_installed"]
    BY <1>1 DEF KeptJournal
  <2>3. journal' \in Entry /\ journal'.id = journal.id
    BY <2>1, <2>2 DEF Entry, Phase
  <2> QED BY <2>1, <2>3
<1>2. CASE app.job # "complete"
  BY <1>2 DEF KeptJournal, TypeOK
<1> QED BY <1>1, <1>2

(* A job that stops, and has changed at most the neighbours of the files   *)
(* and of the journals, and its own journal.                               *)
LEMMA StopAsideKeeps ==
  ASSUME IInv, app.job \in {"install", "undo", "recover", "complete"},
         app' = Stopped, journal' = KeptJournal, UNCHANGED <<service, tried, lost>>, faults' \in Nat,
         disk' \in Disk, disk'.live = disk.live, disk'.before = disk.before, disk'.lock = disk.lock,
         disk'.active = disk.active, TmpMayChange,
         \A u \in Update : disk'.own[u] # None => disk'.own[u].id = u
  PROVE  IInv'
<1>1. Card /\ Job /\ TypeOK /\ Places
  BY DEF IInv, Card, Job
<1>2. journal' # None => journal'.id <= tried /\ (Locked => journal'.id = disk.lock)
  BY <1>1, KeptJournalId DEF Card, Begun
<1>3. Card'
  BY <1>1, <1>2, CardKept, StoppedStatus, KeptJournalId DEF SameUpdate
<1> QED BY <1>1, <1>3, StopKeeps

(* A job that goes no further.                                             *)
LEMMA RefuseKeeps ==
  ASSUME IInv, app.at # "none" \/ app.save # "none", Refuse
  PROVE  IInv'
<1>1. app.job \in {"install", "undo", "recover", "complete"}
  BY Working DEF IInv
<1>2. faults' \in Nat /\ disk' \in Disk /\ disk' = disk /\ UNCHANGED <<service, tried, lost>>
  BY DEF Refuse, IInv, TypeOK, Same
<1>3. (\A u \in Update : disk'.own[u] # None => disk'.own[u].id = u) /\ TmpMayChange
  BY <1>2 DEF IInv, Begun, TmpMayChange
<1> QED BY <1>1, <1>2, <1>3, StopAsideKeeps DEF Refuse

-----------------------------------------------------------------------------
(***************************************************************************)
(* The rewriting of the journal.                                           *)
(***************************************************************************)
(* A step of it changes the save label alone of the application, and only  *)
(* active.json of what the places of a job speak of.                       *)
LEMMA SaveKeeps ==
  ASSUME IInv, NEW next \in Publishes \cup Alones,
         app.save \notin {"none", "active.rename"}, app' = [app EXCEPT !.save = next],
         next \in Publishes <=> app.save \in Publishes,
         UNCHANGED <<journal, service, tried, lost, faults>>, disk' \in Disk, Card',
         disk'.live = disk.live, disk'.before = disk.before, disk'.lock = disk.lock,
         app.save \in Alones => disk'.active = disk.active,
         IF next = "active.rename" THEN disk'.active = None ELSE disk'.active = disk.active,
         next \in {"own.remove", "own.rename", "alone.remove", "alone.rename"} =>
           disk'.ownTmp[journal.id] = journal,
         next \in {"active.remove", "active.rename"} => disk'.activeTmp = journal
  PROVE  IInv'
<1> USE DEF IInv
<1>1. /\ app'.save = next /\ app'.at = app.at /\ app'.job = app.job /\ app'.i = app.i
      /\ app'.status = app.status /\ app'.release = app.release
      /\ app' \in Apps
  BY DEF TypeOK
<1>2. TypeOK'
  BY <1>1 DEF TypeOK
<1>3. next # "none" /\ (next \in Alones <=> app.save \in Alones)
  BY DEF TypeOK, Publishes, Owns, Actives, Alones
<1>4. Places'
  BY <1>1, <1>3 DEF Places
<1>5. app.at \in {"claim", "install", "intend", "copy", "advance", "unlock", "descend", "discard", "completed"}
  BY DEF TypeOK, Places
<1>6. Written'
  BY <1>1, <1>3, <1>5 DEF Written
<1>7. Claiming'
  BY <1>1, <1>3, <1>5 DEF Claiming, Places, TypeOK, Terminal, IsWhole, Whole
<1>8. Holding' /\ Ending'
  BY <1>1, <1>3, <1>5 DEF Holding, Ending, Tells, After, Before
<1>9. Lowering'
  BY <1>1, <1>3, <1>5 DEF Lowering, Staggered, Before, After
<1> QED BY <1>2, <1>4, <1>6, <1>7, <1>8, <1>9 DEF Card

-----------------------------------------------------------------------------
(***************************************************************************)
(* The changes of the card, one call each.                                 *)
(***************************************************************************)
(* The neighbour of an update's own journal is written.                    *)
LEMMA OwnTmpEdit ==
  ASSUME disk \in Disk, NEW u \in Update, NEW e \in Entry \cup {None, Torn},
         disk' = [disk EXCEPT !.ownTmp[u] = e]
  PROVE  /\ disk' \in Disk /\ disk'.live = disk.live /\ disk'.beside = disk.beside
         /\ disk'.before = disk.before /\ disk'.own = disk.own /\ disk'.active = disk.active
         /\ disk'.activeTmp = disk.activeTmp /\ disk'.lock = disk.lock
         /\ disk'.ownTmp[u] = e
BY DEF Disk

(* An update's own journal is removed.                                     *)
LEMMA OwnEdit ==
  ASSUME disk \in Disk, NEW u \in Update,
         disk' = [disk EXCEPT !.own[u] = None]
  PROVE  /\ disk' \in Disk /\ disk'.live = disk.live /\ disk'.beside = disk.beside
         /\ disk'.before = disk.before /\ disk'.ownTmp = disk.ownTmp
         /\ disk'.active = disk.active /\ disk'.activeTmp = disk.activeTmp
         /\ disk'.lock = disk.lock
         /\ \A v \in Update : disk'.own[v] = disk.own[v] \/ disk'.own[v] = None
BY DEF Disk

(* It takes its name.                                                      *)
LEMMA OwnRename ==
  ASSUME disk \in Disk, NEW u \in Update, disk.ownTmp[u] \in Entry,
         disk' = [disk EXCEPT !.own[u] = disk.ownTmp[u], !.ownTmp[u] = None]
  PROVE  /\ disk' \in Disk /\ disk'.live = disk.live /\ disk'.beside = disk.beside
         /\ disk'.before = disk.before /\ disk'.active = disk.active
         /\ disk'.activeTmp = disk.activeTmp /\ disk'.lock = disk.lock
         /\ disk'.own[u] = disk.ownTmp[u]
         /\ \A v \in Update \ {u} : disk'.own[v] = disk.own[v]
BY DEF Disk

(* The neighbour of active.json is written.                                *)
LEMMA ActiveTmpEdit ==
  ASSUME disk \in Disk, NEW e \in Entry \cup {None, Torn},
         disk' = [disk EXCEPT !.activeTmp = e]
  PROVE  /\ disk' \in Disk /\ disk'.live = disk.live /\ disk'.beside = disk.beside
         /\ disk'.before = disk.before /\ disk'.own = disk.own /\ disk'.ownTmp = disk.ownTmp
         /\ disk'.active = disk.active /\ disk'.lock = disk.lock
         /\ disk'.activeTmp = e
BY DEF Disk

(* active.json is removed.                                                 *)
LEMMA ActiveEdit ==
  ASSUME disk \in Disk, disk' = [disk EXCEPT !.active = None]
  PROVE  /\ disk' \in Disk /\ disk'.live = disk.live /\ disk'.beside = disk.beside
         /\ disk'.before = disk.before /\ disk'.own = disk.own /\ disk'.ownTmp = disk.ownTmp
         /\ disk'.activeTmp = disk.activeTmp /\ disk'.lock = disk.lock
         /\ disk'.active = None
BY DEF Disk

(* It takes its name.                                                      *)
LEMMA ActiveRename ==
  ASSUME disk \in Disk, disk.activeTmp \in Entry,
         disk' = [disk EXCEPT !.active = disk.activeTmp, !.activeTmp = None]
  PROVE  /\ disk' \in Disk /\ disk'.live = disk.live /\ disk'.beside = disk.beside
         /\ disk'.before = disk.before /\ disk'.own = disk.own /\ disk'.ownTmp = disk.ownTmp
         /\ disk'.lock = disk.lock
         /\ disk'.active = disk.activeTmp
BY DEF Disk

(* The lock is taken or given back.                                        *)
LEMMA LockEdit ==
  ASSUME disk \in Disk, NEW k \in Update \cup {None, Torn},
         disk' = [disk EXCEPT !.lock = k]
  PROVE  /\ disk' \in Disk /\ disk'.live = disk.live /\ disk'.beside = disk.beside
         /\ disk'.before = disk.before /\ disk'.own = disk.own /\ disk'.ownTmp = disk.ownTmp
         /\ disk'.active = disk.active /\ disk'.activeTmp = disk.activeTmp
         /\ disk'.lock = k
BY DEF Disk

(* A file's neighbour is written or removed.                               *)
LEMMA BesideEdit ==
  ASSUME disk \in Disk, NEW f \in File, NEW c \in Content \cup {Torn},
         disk' = [disk EXCEPT !.beside[f] = c]
  PROVE  /\ disk' \in Disk /\ disk'.live = disk.live /\ disk'.before = disk.before
         /\ disk'.own = disk.own /\ disk'.ownTmp = disk.ownTmp /\ disk'.active = disk.active
         /\ disk'.activeTmp = disk.activeTmp /\ disk'.lock = disk.lock
         /\ disk'.beside[f] = c
BY DEF Disk

(* An installed file is removed.                                           *)
LEMMA LiveRemove ==
  ASSUME disk \in Disk, NEW f \in File,
         disk' = [disk EXCEPT !.live[f] = None]
  PROVE  /\ disk' \in Disk /\ disk'.beside = disk.beside /\ disk'.before = disk.before
         /\ disk'.own = disk.own /\ disk'.ownTmp = disk.ownTmp /\ disk'.active = disk.active
         /\ disk'.activeTmp = disk.activeTmp /\ disk'.lock = disk.lock
         /\ disk'.live = [disk.live EXCEPT ![f] = None] /\ disk'.live[f] = None
BY DEF Disk, Content

(* A file takes its name.                                                  *)
LEMMA LivePut ==
  ASSUME disk \in Disk, NEW f \in File, disk.beside[f] \in Content,
         disk' = [disk EXCEPT !.live[f] = disk.beside[f], !.beside[f] = None]
  PROVE  /\ disk' \in Disk /\ disk'.before = disk.before /\ disk'.own = disk.own
         /\ disk'.ownTmp = disk.ownTmp /\ disk'.active = disk.active
         /\ disk'.activeTmp = disk.activeTmp /\ disk'.lock = disk.lock
         /\ disk'.live = [disk.live EXCEPT ![f] = disk.beside[f]]
         /\ disk'.live[f] = disk.beside[f]
BY DEF Disk, Content

(* The installed files are copied.                                         *)
LEMMA BeforeEdit ==
  ASSUME disk \in Disk, NEW u \in Update,
         disk' = [disk EXCEPT !.before[u] = disk.live]
  PROVE  /\ disk' \in Disk /\ disk'.live = disk.live /\ disk'.beside = disk.beside
         /\ disk'.own = disk.own /\ disk'.ownTmp = disk.ownTmp /\ disk'.active = disk.active
         /\ disk'.activeTmp = disk.activeTmp /\ disk'.lock = disk.lock
         /\ disk'.before[u] = disk.live
         /\ \A v \in Update \ {u} : disk'.before[v] = disk.before[v]
BY DEF Disk

(* What is being published tells the truth of the installed files, and is  *)
(* under way only where its update holds the lock.                         *)
LEMMA PublishedTells ==
  ASSUME IInv, app.save \in Publishes
  PROVE  /\ journal \in Entry /\ journal.id <= tried /\ Tells(journal, disk.live)
         /\ Locked => disk.lock = journal.id
         /\ ~Locked => \/ Terminal(journal)
                       \/ disk.lock = None /\ journal.id = lost /\ journal.phase = "rolling_back" /\ app.at \in Lowers
<1> USE DEF IInv
<1>1. app.at \in {"install", "intend", "copy", "advance", "unlock", "descend", "discard", "completed"}
  BY DEF Places
<1>2. journal \in Entry /\ journal # None /\ app.save # "none"
  BY DEF Written, Publishes, Owns, Actives
<1>3. journal.id \in Update
  BY <1>2 DEF Entry
<1>4. CASE app.at \in {"install", "intend", "copy", "advance", "descend", "discard"}
  BY <1>2, <1>3, <1>4 DEF Begun, Holding, Held, Lowers, Putting, Restoring, Tells, Locked
<1>5. CASE app.at = "unlock"
  BY <1>2, <1>3, <1>5 DEF Begun, Ending, Tells, Locked, Terminal
<1>6. CASE app.at = "completed"
  BY <1>2, <1>3, <1>6 DEF Begun, Ending, Tells, Locked, Terminal
<1> QED BY <1>1, <1>4, <1>5, <1>6

(* A step of the rewriting that leaves active.json as it is.               *)
LEMMA SaveAsideKeeps ==
  ASSUME IInv, NEW next \in Publishes \cup Alones, next # "active.rename",
         app.save \notin {"none", "active.rename"}, app' = [app EXCEPT !.save = next],
         next \in Publishes <=> app.save \in Publishes,
         UNCHANGED <<journal, service, tried, lost, faults>>, disk' \in Disk,
         disk'.live = disk.live, disk'.before = disk.before, disk'.lock = disk.lock,
         disk'.active = disk.active, TmpMayChange,
         \A u \in Update : disk'.own[u] # None => disk'.own[u].id = u,
         next \in {"own.remove", "own.rename", "alone.remove", "alone.rename"} =>
           disk'.ownTmp[journal.id] = journal,
         next \in {"active.remove", "active.rename"} => disk'.activeTmp = journal
  PROVE  IInv'
<1>1. TypeOK /\ Places /\ Card
  BY DEF IInv, Card, TypeOK
<1>2. /\ app'.at = app.at /\ app'.job = app.job /\ app'.status = app.status /\ app.at # "prepare"
  BY <1>1 DEF TypeOK, Places, Publishes, Alones
<1>3. Card'
  BY <1>1, <1>2, CardKept DEF Card, Begun
<1> QED BY <1>3, SaveKeeps

LEMMA WriteOwnStep == IInv /\ WriteOwn => IInv'
<1> SUFFICES ASSUME IInv, WriteOwn PROVE IInv'
  OBVIOUS
<1> DEFINE next == IF app.save = "own.write" THEN "own.remove" ELSE "alone.remove"
<1>1. /\ app.save \in {"own.write", "alone.write"} /\ app.save # "none"
      /\ journal \in Entry /\ journal.id \in Update /\ disk \in Disk /\ TypeOK /\ Places
  BY DEF WriteOwn, IInv, TypeOK, Written, Entry
<1>2. CASE Refuse
  BY <1>1, <1>2, RefuseKeeps
<1>3. CASE Call([disk EXCEPT !.ownTmp[journal.id] = journal],
               {[disk EXCEPT !.ownTmp[journal.id] = t] : t \in IF TornWrites THEN {None, Torn} ELSE {None}},
               [app EXCEPT !.save = next])
  <2>1. disk' = disk \/ \E t \in Entry \cup {None, Torn} : disk' = [disk EXCEPT !.ownTmp[journal.id] = t]
    BY <1>1, <1>3 DEF Call, Attempt
  <2>2. /\ disk' \in Disk /\ disk'.live = disk.live /\ disk'.before = disk.before
        /\ disk'.lock = disk.lock /\ disk'.active = disk.active /\ disk'.own = disk.own
        /\ TmpMayChange
    BY <1>1, <2>1, OwnTmpEdit DEF TmpMayChange
  <2>3. \A u \in Update : disk'.own[u] # None => disk'.own[u].id = u
    BY <2>2 DEF IInv, Begun
  <2>4. UNCHANGED <<service, tried, lost>> /\ faults' \in Nat
    BY <1>1, <1>3 DEF Call, Attempt, Same, TypeOK
  <2>5. CASE app' = Stopped /\ journal' = KeptJournal
    BY <1>1, <2>2, <2>3, <2>4, <2>5, StopAsideKeeps, Working
  <2>6. CASE /\ app' = [app EXCEPT !.save = next] /\ UNCHANGED <<journal, faults>>
             /\ disk' = [disk EXCEPT !.ownTmp[journal.id] = journal]
    <3>1. disk'.ownTmp[journal.id] = journal
      BY <1>1, <2>6, OwnTmpEdit
    <3>2. /\ next \in Publishes \cup Alones /\ (next \in Publishes <=> app.save \in Publishes)
          /\ next \notin Actives
      BY <1>1 DEF Publishes, Alones, Owns, Actives
    <3> HIDE DEF next
    <3> QED BY <1>1, <2>2, <2>3, <2>4, <2>6, <3>1, <3>2, SaveAsideKeeps DEF Actives
  <2> QED BY <1>3, <2>5, <2>6 DEF Call, Attempt
<1> QED BY <1>2, <1>3 DEF WriteOwn

LEMMA RemoveOwnStep == IInv /\ RemoveOwn => IInv'
<1> SUFFICES ASSUME IInv, RemoveOwn PROVE IInv'
  OBVIOUS
<1> DEFINE next == IF app.save = "own.remove" THEN "own.rename" ELSE "alone.rename"
           done == [disk EXCEPT !.own[journal.id] = None]
<1>1. /\ app.save \in {"own.remove", "alone.remove"} /\ app.save # "none"
      /\ journal \in Entry /\ journal.id \in Update /\ disk \in Disk /\ TypeOK /\ Places
      /\ disk.ownTmp[journal.id] = journal
  BY DEF RemoveOwn, IInv, TypeOK, Written, Entry
<1>2. Call(done, {}, [app EXCEPT !.save = next])
  BY DEF RemoveOwn
<1>3. disk' = disk \/ disk' = done
  BY <1>2 DEF Call, Attempt
<1>4. /\ disk' \in Disk /\ disk'.live = disk.live /\ disk'.before = disk.before
      /\ disk'.lock = disk.lock /\ disk'.active = disk.active /\ disk'.ownTmp = disk.ownTmp
      /\ TmpMayChange
      /\ \A u \in Update : disk'.own[u] = disk.own[u] \/ disk'.own[u] = None
  BY <1>1, <1>3, OwnEdit DEF TmpMayChange
<1>5. \A u \in Update : disk'.own[u] # None => disk'.own[u].id = u
  BY <1>4 DEF IInv, Begun
<1>6. UNCHANGED <<service, tried, lost>> /\ faults' \in Nat
  BY <1>1, <1>2 DEF Call, Attempt, Same, TypeOK
<1>7. CASE app' = Stopped /\ journal' = KeptJournal
  BY <1>1, <1>4, <1>5, <1>6, <1>7, StopAsideKeeps, Working
<1>8. CASE app' = [app EXCEPT !.save = next] /\ UNCHANGED <<journal, faults>>
  <2>1. /\ next \in Publishes \cup Alones /\ (next \in Publishes <=> app.save \in Publishes)
        /\ next \notin Actives
    BY <1>1 DEF Publishes, Alones, Owns, Actives
  <2> HIDE DEF next
  <2> QED BY <1>1, <1>4, <1>5, <1>6, <1>8, <2>1, SaveAsideKeeps DEF Actives
<1> QED BY <1>2, <1>7, <1>8 DEF Call, Attempt

(* Where only the update's own journal was rewritten the lock is next.     *)
LEMMA RenameOwnStep == IInv /\ RenameOwn => IInv'
<1> SUFFICES ASSUME IInv, RenameOwn PROVE IInv'
  OBVIOUS
<1> DEFINE next == IF app.save = "own.rename" THEN "active.write" ELSE "none"
           done == [disk EXCEPT !.own[journal.id] = disk.ownTmp[journal.id], !.ownTmp[journal.id] = None]
<1>1. /\ app.save \in {"own.rename", "alone.rename"} /\ app.save # "none"
      /\ journal \in Entry /\ journal.id \in Update /\ disk \in Disk /\ TypeOK /\ Places
      /\ disk.ownTmp[journal.id] = journal
  BY DEF RenameOwn, IInv, TypeOK, Written, Entry
<1>2. Call(done, {}, [app EXCEPT !.save = next])
  BY DEF RenameOwn
<1>3. disk' = disk \/ disk' = done
  BY <1>2 DEF Call, Attempt
<1>4. /\ disk' \in Disk /\ disk'.live = disk.live /\ disk'.before = disk.before
      /\ disk'.lock = disk.lock /\ disk'.active = disk.active
      /\ TmpMayChange
      /\ \A u \in Update : disk'.own[u] = disk.own[u] \/ (u = journal.id /\ disk'.own[u] = journal)
  BY <1>1, <1>3, OwnRename DEF TmpMayChange
<1>5. \A u \in Update : disk'.own[u] # None => disk'.own[u].id = u
  BY <1>4 DEF IInv, Begun
<1>6. UNCHANGED <<service, tried, lost>> /\ faults' \in Nat
  BY <1>1, <1>2 DEF Call, Attempt, Same, TypeOK
<1>7. CASE app' = Stopped /\ journal' = KeptJournal
  BY <1>1, <1>4, <1>5, <1>6, <1>7, StopAsideKeeps, Working
<1>8. CASE app' = [app EXCEPT !.save = next] /\ UNCHANGED <<journal, faults>>
  <2>1. CASE app.save = "own.rename"
    BY <1>1, <1>4, <1>5, <1>6, <1>8, <2>1, SaveAsideKeeps DEF Publishes, Owns, Actives, Alones
  <2>2. CASE app.save = "alone.rename"
    <3>1. app.at = "claim" /\ app'.at = "claim" /\ app'.save = "none" /\ app'.job = app.job
          /\ app'.status = app.status /\ app'.i = app.i
      BY <1>1, <1>8, <2>2 DEF Places, TypeOK, Alones
    <3>2. Card'
      BY <1>1, <1>4, <1>5, <1>6, <1>8, <3>1, CardKept DEF IInv, Card, Begun
    <3>3. TypeOK'
      BY <1>1, <1>4, <1>6, <1>8, <2>2 DEF TypeOK
    <3>4. Places' /\ Written' /\ Holding' /\ Ending' /\ Lowering'
      BY <1>1, <3>1 DEF IInv, Places, Written, Holding, Ending, Lowering, Held, Lowers, Putting, Restoring,
                        Alones, Publishes, Owns, Actives
    <3>5. Claiming'
      BY <1>1, <1>4, <1>6, <1>8, <3>1 DEF IInv, Claiming, Terminal, IsWhole, Whole
    <3> QED BY <3>2, <3>3, <3>4, <3>5 DEF IInv, Card
  <2> QED BY <1>1, <2>1, <2>2
<1> QED BY <1>2, <1>7, <1>8 DEF Call, Attempt

(* The neighbour is not written where it alone tells of a rollback.        *)
LEMMA WrittenAside ==
  ASSUME IInv, app.save = "active.write", disk'.active = disk.active, disk'.lock = disk.lock, lost' = lost,
         disk'.activeTmp \in {disk.activeTmp, journal, None, Torn}
  PROVE  TmpMayChange
<1> SUFFICES ASSUME disk.active = None, ~Locked PROVE TmpMayChange
  BY DEF TmpMayChange
<1>1. app.save \in Publishes /\ app.save # "none" /\ app.save \notin {"none", "active.rename"}
  BY DEF Publishes, Actives
<1>2. app.at \in {"install", "intend", "copy", "advance", "unlock", "descend", "discard", "completed"}
  BY <1>1 DEF IInv, Places
<1>3. journal \in Entry /\ journal.id \in Update
  BY <1>1 DEF IInv, Written, Entry
<1>4. ~(app.at \in Lowers \cup {"unlock"} /\ disk.lock = None)
  BY <1>1 DEF IInv, Lowering
<1>5. app.at = "completed"
  <2>1. CASE app.at = "unlock"
    BY <1>3, <1>4, <2>1 DEF IInv, Ending, Locked
  <2>2. CASE app.at \in {"install", "intend", "copy", "advance", "descend", "discard"}
    BY <1>3, <1>4, <2>2 DEF IInv, Holding, Locked, Held, Lowers, Putting, Restoring
  <2> QED BY <1>2, <2>1, <2>2
<1>6. journal.phase = "completed" /\ IsWhole(disk.live)
  BY <1>3, <1>5, AfterIsWhole DEF IInv, Ending
<1>7. CASE disk'.activeTmp = disk.activeTmp
  BY <1>7 DEF TmpMayChange
<1>8. CASE disk'.activeTmp \in {journal, None, Torn}
  BY <1>6, <1>8, Names DEF TmpMayChange, Bare
<1> QED BY <1>7, <1>8

LEMMA WriteActiveStep == IInv /\ WriteActive => IInv'
<1> SUFFICES ASSUME IInv, WriteActive PROVE IInv'
  OBVIOUS
<1>1. /\ app.save = "active.write" /\ app.save # "none"
      /\ journal \in Entry /\ disk \in Disk /\ TypeOK /\ Places
  BY DEF WriteActive, IInv, TypeOK, Written
<1>2. CASE Refuse
  BY <1>1, <1>2, RefuseKeeps
<1>3. CASE Call([disk EXCEPT !.activeTmp = journal],
               {[disk EXCEPT !.activeTmp = t] : t \in IF TornWrites THEN {None, Torn} ELSE {None}},
               [app EXCEPT !.save = "active.remove"])
  <2>1. disk' = disk \/ \E t \in Entry \cup {None, Torn} : disk' = [disk EXCEPT !.activeTmp = t]
    BY <1>1, <1>3 DEF Call, Attempt
  <2>2. /\ disk' \in Disk /\ disk'.live = disk.live /\ disk'.before = disk.before
        /\ disk'.lock = disk.lock /\ disk'.active = disk.active /\ disk'.own = disk.own
        /\ disk'.activeTmp \in {disk.activeTmp, journal, None, Torn}
    <3>1. disk' = disk \/ \E t \in {journal, None, Torn} : disk' = [disk EXCEPT !.activeTmp = t]
      BY <1>1, <1>3 DEF Call, Attempt
    <3> QED BY <1>1, <3>1, ActiveTmpEdit
  <2>0. TmpMayChange
    BY <1>1, <1>3, <2>2, WrittenAside DEF Call, Same
  <2>3. \A u \in Update : disk'.own[u] # None => disk'.own[u].id = u
    BY <2>2 DEF IInv, Begun
  <2>4. UNCHANGED <<service, tried, lost>> /\ faults' \in Nat
    BY <1>1, <1>3 DEF Call, Attempt, Same, TypeOK
  <2>5. CASE app' = Stopped /\ journal' = KeptJournal
    BY <1>1, <2>0, <2>2, <2>3, <2>4, <2>5, StopAsideKeeps, Working
  <2>6. CASE /\ app' = [app EXCEPT !.save = "active.remove"] /\ UNCHANGED <<journal, faults>>
             /\ disk' = [disk EXCEPT !.activeTmp = journal]
    <3>1. disk'.activeTmp = journal
      BY <1>1, <2>6, ActiveTmpEdit
    <3> QED BY <1>1, <2>0, <2>2, <2>3, <2>4, <2>6, <3>1, SaveAsideKeeps DEF Publishes, Owns, Actives
  <2> QED BY <1>3, <2>5, <2>6 DEF Call, Attempt
<1> QED BY <1>2, <1>3 DEF WriteActive

(* A rollback without the lock is told of by the neighbour then.           *)
LEMMA RemovedActive ==
  ASSUME IInv, app.save = "active.remove", lost' = lost,
         disk'.live = disk.live, disk'.before = disk.before, disk'.lock = disk.lock,
         disk'.active = None, disk'.activeTmp = journal, SameUpdate
  PROVE  Steps' /\ Sources'
<1>1. app.save \in Publishes /\ Locked' = Locked /\ disk \in Disk
  BY DEF Publishes, Actives, Locked, IInv, TypeOK
<1>2. /\ journal \in Entry /\ Tells(journal, disk.live)
      /\ ~Locked => \/ Terminal(journal)
                    \/ disk.lock = None /\ journal.id = lost /\ journal.phase = "rolling_back" /\ app.at \in Lowers
  BY <1>1, PublishedTells
<1>3. CASE Locked
  BY <1>1, <1>3, Names DEF IInv, Sources, IsWhole, Whole, Steps, Bare, Locked
<1>4. CASE ~Locked /\ Terminal(journal)
  <2>1. ~Bare'
    BY <1>4, Names DEF Bare, Terminal
  <2>2. IsWhole(disk.live)
    <3>1. app.at \in {"install", "intend", "copy", "advance", "unlock", "descend", "discard", "completed"}
      BY <1>1 DEF IInv, Places
    <3>2. CASE app.at = "unlock"
      <4>1. journal.id = lost /\ disk.live = Before(journal)
        BY <1>1, <1>2, <1>4, <3>2 DEF IInv, Ending, Tells, Locked, Terminal, Entry
      <4> QED BY <1>2, <4>1, Names DEF IInv, Begun, Before, Entry
    <3>3. CASE app.at = "completed"
      BY <1>2, <3>3, AfterIsWhole DEF IInv, Ending
    <3>4. CASE app.at \in {"install", "intend", "copy", "advance", "descend", "discard"}
      BY <1>2, <1>4, <3>4 DEF IInv, Holding, Held, Putting, Restoring, Locked, Terminal, Entry
    <3> QED BY <3>1, <3>2, <3>3, <3>4
  <2> QED BY <1>1, <1>4, <2>1, <2>2 DEF Sources, Steps, IsWhole, Whole
<1>5. CASE disk.lock = None /\ journal.id = lost /\ journal.phase = "rolling_back" /\ app.at \in Lowers
  <2>1. Bare'
    BY <1>2, <1>5, Names DEF Bare, Entry
  <2>2. Staggered(disk.before[lost], Whole(lost), disk.live)
    BY <1>2, <1>5, AfterIsWhole DEF IInv, Lowering, Before
  <2> QED BY <1>1, <1>5, <2>1, <2>2, Names DEF Sources, Steps, Locked, Staggered, Whole, SameUpdate
<1> QED BY <1>2, <1>3, <1>4, <1>5

(* Without active.json there is nothing to be untrue.                      *)
LEMMA RemoveActiveStep == IInv /\ RemoveActive => IInv'
<1> SUFFICES ASSUME IInv, RemoveActive PROVE IInv'
  OBVIOUS
<1> DEFINE done == [disk EXCEPT !.active = None]
<1>1. /\ app.save = "active.remove" /\ app.save \in Publishes /\ app.save # "none"
      /\ journal \in Entry /\ disk \in Disk /\ TypeOK /\ Places /\ disk.activeTmp = journal
      /\ app.at # "prepare"
  BY DEF RemoveActive, IInv, TypeOK, Written, Places, Publishes, Actives
<1>2. Call(done, {}, [app EXCEPT !.save = "active.rename"])
  BY DEF RemoveActive
<1>3. UNCHANGED <<service, tried, lost>> /\ faults' \in Nat
  BY <1>1, <1>2 DEF Call, Attempt, Same, TypeOK
<1>4. CASE disk' = disk /\ app' = Stopped /\ journal' = KeptJournal
  BY <1>1, <1>3, <1>4, StopAsideKeeps, Working DEF IInv, Begun, TmpMayChange
<1>5. CASE disk' = done
  <2>1. /\ disk' \in Disk /\ disk'.live = disk.live /\ disk'.before = disk.before /\ disk'.own = disk.own
        /\ disk'.lock = disk.lock /\ disk'.active = None /\ disk'.activeTmp = journal
    BY <1>1, <1>5, ActiveEdit
  <2>9. Steps' /\ Sources'
    <3>1. SameUpdate
      BY <1>1, <1>2, KeptJournalId DEF Call, Attempt, IInv, Job, SameUpdate
    <3> QED BY <1>1, <1>3, <2>1, <3>1, RemovedActive
  <2>2. Steps' /\ Sources' /\ Truth' /\ Quiet'
    BY <2>1, <2>9 DEF Truth, Quiet
  <2>3. ASSUME app'.at # "prepare", journal' # None => journal # None /\ journal'.id = journal.id
        PROVE  Begun'
    BY <1>3, <2>1, <2>3 DEF IInv, Begun, Locked, IsWhole, Whole
  <2>4. CASE app' = Stopped /\ journal' = KeptJournal
    <3>1. Card'
      BY <1>1, <2>2, <2>3, <2>4, StoppedStatus, Working, KeptJournalId DEF IInv, Card, Job
    <3> QED BY <1>1, <1>3, <2>1, <2>4, <3>1, StopKeeps, Working DEF IInv, Job
  <2>5. CASE app' = [app EXCEPT !.save = "active.rename"] /\ UNCHANGED <<journal, faults>>
    <3>1. app'.at = app.at
      BY <1>1, <2>5 DEF TypeOK
    <3>2. Card'
      BY <1>1, <2>2, <2>3, <2>5, <3>1 DEF Card
    <3> QED BY <1>1, <1>3, <2>1, <2>5, <3>2, SaveKeeps DEF Publishes, Owns, Actives, Alones
  <2> QED BY <1>2, <1>5, <2>4, <2>5 DEF Call, Attempt
<1> QED BY <1>2, <1>4, <1>5 DEF Call, Attempt

(* And by active.json again when it has its name.                          *)
LEMMA RenamedActive ==
  ASSUME IInv, app.save = "active.rename", disk.activeTmp = journal, lost' = lost,
         disk'.live = disk.live, disk'.before = disk.before, disk'.lock = disk.lock,
         disk'.active = journal, SameUpdate
  PROVE  Steps' /\ Sources'
<1>1. app.save \in Publishes /\ Locked' = Locked /\ disk \in Disk
  BY DEF Publishes, Actives, Locked, IInv, TypeOK
<1>2. journal \in Entry
  BY <1>1, PublishedTells
<1>3. CASE Locked
  BY <1>1, <1>3, Names DEF IInv, Sources, IsWhole, Whole, Steps, Bare, Locked
<1>4. CASE ~Locked
  <2>1. disk.active = None /\ journal # None
    BY <1>2, Names DEF IInv, Written
  <2>2. Bare' = Bare
    BY <2>1 DEF Bare
  <2> QED BY <1>1, <1>4, <2>2 DEF IInv, Sources, Steps, Staggered, IsWhole, Whole, SameUpdate
<1> QED BY <1>3, <1>4

(* What takes the place of active.json tells the truth, and the job goes   *)
(* on only after that.                                                     *)
LEMMA RenameActiveStep == IInv /\ RenameActive => IInv'
<1> SUFFICES ASSUME IInv, RenameActive PROVE IInv'
  OBVIOUS
<1> DEFINE done == [disk EXCEPT !.active = disk.activeTmp, !.activeTmp = None]
<1>1. /\ app.save = "active.rename" /\ app.save \in Publishes /\ app.save # "none"
      /\ journal \in Entry /\ journal # None /\ disk \in Disk /\ TypeOK /\ Places /\ disk.activeTmp = journal
      /\ app.at # "prepare"
  BY DEF RenameActive, IInv, TypeOK, Written, Places, Publishes, Actives
<1>2. Call(done, {}, [app EXCEPT !.save = "none"])
  BY DEF RenameActive
<1>3. UNCHANGED <<service, tried, lost>> /\ faults' \in Nat
  BY <1>1, <1>2 DEF Call, Attempt, Same, TypeOK
<1>4. CASE disk' = disk /\ app' = Stopped /\ journal' = KeptJournal
  BY <1>1, <1>3, <1>4, StopAsideKeeps, Working DEF IInv, Begun, TmpMayChange
<1>5. CASE disk' = done
  <2>1. /\ disk' \in Disk /\ disk'.live = disk.live /\ disk'.before = disk.before /\ disk'.own = disk.own
        /\ disk'.lock = disk.lock /\ disk'.active = journal
    BY <1>1, <1>5, ActiveRename
  <2>2. /\ journal.id <= tried /\ Tells(journal, disk.live)
        /\ Locked => disk.lock = journal.id
        /\ ~Locked => \/ Terminal(journal)
                      \/ disk.lock = None /\ journal.id = lost /\ journal.phase = "rolling_back"
    BY <1>1, PublishedTells
  <2>3. Steps' /\ Sources'
    <3>1. SameUpdate
      BY <1>1, <1>2, KeptJournalId DEF Call, Attempt, IInv, Job, SameUpdate
    <3> QED BY <1>1, <1>3, <2>1, <3>1, RenamedActive
  <2>4. Truth'
    BY <1>1, <2>1, <2>2 DEF Truth, Tells, Locked, Before, After
  <2>5. Quiet'
    BY <1>1, <1>3, <2>1, <2>2, Names DEF Quiet, Locked, Terminal, Busy, Bare, Entry
  <2>6. ASSUME app'.at # "prepare", journal' # None => journal # None /\ journal'.id = journal.id
        PROVE  Begun'
    BY <1>3, <2>1, <2>2, <2>6 DEF IInv, Begun, Locked, IsWhole, Whole
  <2>7. CASE app' = Stopped /\ journal' = KeptJournal
    <3>1. Card'
      BY <1>1, <2>3, <2>4, <2>5, <2>6, <2>7, StoppedStatus, Working, KeptJournalId DEF IInv, Card, Job
    <3> QED BY <1>1, <1>3, <2>1, <2>7, <3>1, StopKeeps, Working DEF IInv, Job
  <2>8. CASE app' = [app EXCEPT !.save = "none"] /\ UNCHANGED <<journal, faults>>
    <3>1. /\ app'.at = app.at /\ app'.save = "none" /\ app'.job = app.job /\ app'.i = app.i
          /\ app'.status = app.status
          /\ app.at \in {"install", "intend", "copy", "advance", "unlock", "descend", "discard", "completed"}
      BY <1>1, <2>8 DEF TypeOK, Places
    <3>2. Card'
      BY <1>1, <2>3, <2>4, <2>5, <2>6, <2>8, <3>1 DEF Card
    <3>3. TypeOK'
      BY <1>1, <1>3, <2>1, <2>8 DEF TypeOK
    <3>4. Places' /\ Written' /\ Claiming'
      BY <3>1 DEF IInv, Places, Written, Claiming, Alones, Publishes, Owns, Actives
    <3>5. Holding'
      BY <1>1, <1>3, <2>1, <2>8, <3>1 DEF IInv, Holding
    <3>6. Ending' /\ Lowering'
      BY <1>1, <1>3, <2>1, <2>8, <3>1 DEF IInv, Ending, Lowering, Staggered, Tells, After, Before
    <3> QED BY <3>2, <3>3, <3>4, <3>5, <3>6 DEF IInv, Card
  <2> QED BY <1>2, <1>5, <2>7, <2>8 DEF Call, Attempt
<1> QED BY <1>2, <1>4, <1>5 DEF Call, Attempt

(* A job begins to publish another journal of its update: what the place   *)
(* it goes to asks for must hold of that journal.                          *)
LEMMA PublishKeeps ==
  ASSUME IInv, NEW j \in Entry, NEW then \in Labels, app.save = "none",
         journal \in Entry, j.id = journal.id, Publish(j, then),
         app.at \in Held \cup {"recheck"},
         disk.lock = journal.id \/ (disk.lock = None /\ lost = journal.id /\ app.at \in Lowers),
         then \in Lowers => app.at \in Lowers,
         app.job = "install" => then \in Installs, app.job \in {"undo", "recover"} => then \in Undoes,
         then \in {"install", "intend", "copy", "advance", "unlock", "descend", "discard"},
         then \in Restoring => app.i \in File,
         then = "install" => j.phase = "prepared",
         then \in {"intend"} \cup Putting => j.phase = "installing",
         then \in Putting => j.next \in File,
         then \in {"descend"} \cup Restoring => j.phase = "rolling_back",
         then = "unlock" => /\ Tells(j, disk.live)
                            /\ app.job = "install" => j.phase = "files_installed"
                            /\ app.job # "install" => j.phase = "rolled_back"
  PROVE  IInv'
<1> USE DEF Publish, Save
<1>1. TypeOK /\ Places /\ Card /\ disk \in Disk /\ disk' = disk /\ UNCHANGED <<service, tried, lost, faults>>
  BY DEF IInv, Card, TypeOK, Same
<1>2. /\ app'.at = then /\ app'.save = "own.write" /\ app'.job = app.job /\ app'.i = app.i
      /\ app'.status = app.status
      /\ app' \in Apps
  BY <1>1 DEF TypeOK, Publishes, Owns
<1>3. app.job \in {"install", "undo", "recover"}
  BY <1>1, Working DEF TypeOK, Places, Held, Putting, Restoring
<1>4. TypeOK'
  BY <1>1, <1>2 DEF TypeOK
<1>5. Card'
  <2>1. Locked \/ j.id = lost
    BY DEF Locked, Entry
  <2> QED BY <1>1, <1>2, <2>1, CardKept DEF Card, Begun, TmpMayChange
<1>6. Places'
  BY <1>1, <1>2, <1>3 DEF Places, Publishes, Owns, Alones
<1>7. Written' /\ Claiming'
  BY <1>2 DEF Written, Claiming, Putting, Restoring
<1>8. app.at \in Lowers => then \in Lowers \cup {"unlock"}
  BY <1>1, <1>3 DEF Places, Lowers, Installs, Undoes, Putting, Restoring
<1>9. Holding'
  BY <1>1, <1>2, <1>8 DEF Holding, Held, Putting, Lowers
<1>10. Ending'
  <2>1. app.job = "install" => disk.lock = journal.id
    BY <1>1 DEF Places, Lowers, Installs, Putting, Restoring
  <2> QED BY <1>1, <1>2, <1>3, <2>1 DEF Ending, Tells, After, Before, Entry
<1>11. Lowering'
  <2> SUFFICES ASSUME then \in Lowers \cup {"unlock"}, disk.lock = None
               PROVE  /\ disk.active # None /\ disk.active.id = lost
                      /\ disk.active.phase \in {"rolling_back", "files_installed"}
                      /\ then \in Lowers => /\ Staggered(disk.before[j.id], After(j), disk.live)
                                            /\ \A f \in File : f > app.i => disk.live[f] = disk.before[j.id][f]
    BY <1>1, <1>2 DEF Lowering, Staggered, Before, After
  <2>1. journal.id \in Update /\ lost = journal.id /\ app.at \in Lowers /\ app.at \in Held
    BY Names DEF Entry, Held, Lowers
  <2>2. disk.active = journal /\ journal.phase = "rolling_back" /\ journal # None
    BY <2>1, Names DEF IInv, Holding, Lowers
  <2>3. /\ \A f \in File : f > app.i => disk.live[f] = Before(journal)[f]
        /\ Staggered(Before(journal), After(journal), disk.live)
    BY <2>1 DEF IInv, Lowering
  <2> QED BY <2>1, <2>2, <2>3 DEF Before, After
<1> QED BY <1>4, <1>5, <1>6, <1>7, <1>9, <1>10, <1>11 DEF IInv, Card

-----------------------------------------------------------------------------
(***************************************************************************)
(* While the lock is held the installed files may become anything; without *)
(* it they are restored from the last on.                                  *)
(***************************************************************************)
(* The card's part does not speak of them: the holder's journal is still   *)
(* under way, and what it began with is whole.                             *)
LEMMA HeldCard ==
  ASSUME IInv, app.at \in Held, app.save = "none", journal.phase \in {"installing", "rolling_back"},
         disk' \in Disk, disk'.before = disk.before, disk'.own = disk.own, disk'.lock = disk.lock,
         disk'.active = disk.active, UNCHANGED <<tried, lost>>, app'.at # "prepare",
         disk.lock = None => Staggered(Before(journal), After(journal), disk'.live),
         journal' # None => journal # None /\ journal'.id = journal.id,
         app'.job # "closed" /\ app'.status # "awaiting_reopen" =>
           app.job # "closed" /\ app.status # "awaiting_reopen"
  PROVE  Card'
<1>1. /\ journal \in Entry /\ journal # None /\ journal.id \in Update /\ disk.active = journal
      /\ disk.lock = journal.id \/ (disk.lock = None /\ lost = journal.id /\ app.at \in Lowers)
  BY Names DEF IInv, Holding, Entry
<1>2. Locked' = Locked /\ (Locked => disk.lock = journal.id)
  BY <1>1, Names DEF Locked
<1>3. Bare' = Bare
  BY <1>1 DEF Bare
<1>4. CASE Locked
  <2>1. ~Bare
    BY <1>4, Names DEF Bare, Locked
  <2> QED BY <1>1, <1>2, <1>3, <1>4, <2>1 DEF IInv, Card, Begun, Steps, Sources, Truth, Quiet, Tells, IsWhole, Whole
<1>5. CASE ~Locked
  <2>1. disk.lock = None /\ lost = journal.id /\ journal.phase = "rolling_back"
    BY <1>1, <1>5 DEF IInv, Holding, Locked, Lowers
  <2>2. Bare
    BY <1>1, <2>1, Names DEF Bare
  <2>3. Staggered(disk'.before[lost'], Whole(lost), disk'.live)
    BY <1>1, <2>1, AfterIsWhole DEF Before
  <2>4. Steps' /\ Sources'
    BY <1>2, <1>3, <1>5, <2>1, <2>2, <2>3 DEF Steps, Sources, Staggered, Whole
  <2>5. Truth' /\ Quiet'
    BY <1>1, <1>2, <1>3, <1>5, <2>1, <2>2 DEF IInv, Truth, Quiet, Tells, Terminal
  <2>6. Begun'
    BY <1>1, <1>2, <1>5 DEF IInv, Begun, IsWhole, Whole
  <2> QED BY <2>4, <2>5, <2>6 DEF Card
<1> QED BY <1>4, <1>5

(* The job stops there ...                                                 *)
LEMMA HeldStop ==
  ASSUME IInv, app.at \in Held, app.save = "none", journal.phase \in {"installing", "rolling_back"},
         disk' \in Disk, disk'.before = disk.before, disk'.own = disk.own, disk'.lock = disk.lock,
         disk'.active = disk.active, UNCHANGED <<service, tried, lost>>, faults' \in Nat,
         disk.lock = None => Staggered(Before(journal), After(journal), disk'.live),
         app' = Stopped, journal' = KeptJournal
  PROVE  IInv'
<1>1. TypeOK /\ Places /\ Job
  BY DEF IInv, Job
<1>2. app.job \in {"install", "undo", "recover", "complete"}
  BY <1>1, Working DEF Held, Putting, Restoring
<1>3. Card'
  BY <1>1, <1>2, HeldCard, StoppedStatus, KeptJournalId
<1> QED BY <1>1, <1>2, <1>3, StopKeeps

(* ... or goes on to another of its places.                                *)
LEMMA HeldGoes ==
  ASSUME IInv, app.at \in Held, app.save = "none", journal.phase \in {"installing", "rolling_back"},
         disk' \in Disk, disk'.before = disk.before, disk'.own = disk.own, disk'.lock = disk.lock,
         disk'.active = disk.active, UNCHANGED <<service, tried, lost>>, faults' \in Nat, journal' = journal,
         disk.lock = None => Staggered(Before(journal), After(journal), disk'.live),
         NEW then \in {"descend"} \cup Putting \cup Restoring, NEW n \in -1 .. Count - 1,
         app' = [app EXCEPT !.at = then, !.i = n],
         then \in Putting => app.at \in Putting,
         then \in {"descend"} \cup Restoring => app.at \in {"descend"} \cup Restoring,
         then \in Restoring => n \in File,
         then \in {"take", "put"} => disk'.beside[journal.next] = After(journal)[journal.next],
         then \in {"retake", "reput"} => disk'.beside[n] = Before(journal)[n],
         disk.lock = None => /\ \A f \in File : f > n => disk'.live[f] = Before(journal)[f]
                             /\ then = "retake" => disk'.live[n] # Before(journal)[n]
  PROVE  IInv'
<1>1. /\ TypeOK /\ Places /\ journal \in Entry /\ disk.active = journal
      /\ disk.lock = journal.id \/ (disk.lock = None /\ lost = journal.id /\ app.at \in Lowers)
  BY DEF IInv, Holding
<1>2. /\ app'.at = then /\ app'.save = "none" /\ app'.job = app.job /\ app'.i = n
      /\ app'.status = app.status
      /\ app' \in Apps
  BY <1>1 DEF TypeOK, Labels, Installs, Undoes
<1>3. app.job \in {"install", "undo", "recover"}
  BY <1>1, Working DEF TypeOK, Places, Held, Putting, Restoring
<1>4. TypeOK'
  BY <1>1, <1>2 DEF TypeOK
<1>5. Card'
  BY <1>1, <1>2, HeldCard DEF Putting, Restoring
<1>6. Places'
  BY <1>1, <1>2, <1>3 DEF Places, Putting, Restoring, Installs, Undoes, Publishes, Owns, Actives, Alones
<1>7. Written'
  BY <1>1, <1>2 DEF Written, After, Before, Putting, Restoring
<1>8. Claiming' /\ Ending'
  BY <1>2 DEF Claiming, Ending, Putting, Restoring
<1>9. Holding'
  BY <1>1, <1>2 DEF IInv, Holding, Putting, Restoring, Held, Lowers
<1>10. Lowering'
  BY <1>1, <1>2 DEF Lowering, Staggered, Before, After
<1> QED BY <1>4, <1>5, <1>6, <1>7, <1>8, <1>9, <1>10 DEF IInv, Card

-----------------------------------------------------------------------------
(***************************************************************************)
(* An install.                                                             *)
(***************************************************************************)
LEMMA PrepareStep == IInv /\ Prepare => IInv'
<1> SUFFICES ASSUME IInv, Prepare PROVE IInv'
  OBVIOUS
<1> USE DEF At, Same
<1>1. CASE Refuse
  BY <1>1, RefuseKeeps DEF Prepare
<1>2. CASE /\ disk.lock = None /\ (disk.active # None => Terminal(disk.active))
           /\ disk' = [disk EXCEPT !.before[tried] = disk.live]
           /\ journal' = [id |-> tried, phase |-> "prepared", next |-> 0]
           /\ app' = [app EXCEPT !.save = "alone.write", !.at = "claim"]
           /\ UNCHANGED faults /\ Same
  <2>1. /\ TypeOK /\ Places /\ disk \in Disk /\ app.at = "prepare" /\ app.job = "install"
        /\ tried \in Update /\ (disk.active # None => disk.active.id < tried)
    BY Working DEF IInv, Prepare, TypeOK, Begun, Places, Undoes, Restoring
  <2>2. /\ disk' \in Disk /\ disk'.live = disk.live /\ disk'.own = disk.own /\ disk'.lock = None
        /\ disk'.active = disk.active /\ disk'.before[tried] = disk.live
        /\ \A v \in Update \ {tried} : disk'.before[v] = disk.before[v]
    BY <1>2, <2>1, BeforeEdit
  <2>3. journal' \in Entry /\ journal'.id = tried /\ journal'.phase = "prepared"
    BY <1>2, <2>1 DEF Entry, Phase
  <2>4. /\ app'.at = "claim" /\ app'.save = "alone.write" /\ app'.job = "install"
        /\ app'.status = app.status
        /\ app' \in Apps
    BY <1>2, <2>1 DEF TypeOK, Labels, Installs, Alones
  <2>5. TypeOK'
    BY <1>2, <2>1, <2>2, <2>3, <2>4 DEF TypeOK
  <2>6. ~Locked /\ ~Locked'
    BY <1>2, <2>2, Names DEF Locked
  <2>7. Begun'
    <3>1. lost # None => lost <= tried /\ IsWhole(disk'.before[lost])
      BY <2>1, <2>2 DEF IInv, Begun, TypeOK
    <3> QED BY <1>2, <2>1, <2>2, <2>3, <2>4, <2>6, <3>1 DEF IInv, Begun, Update, IsWhole, Whole
  <2>8. IsWhole(disk.live) /\ IsWhole(disk'.live)
    BY <2>1, <2>2, <2>6 DEF IInv, Begun, IsWhole, Whole
  <2>12. Sources' /\ Steps'
    BY <2>3, <2>6, <2>8 DEF Sources, Steps
  <2>9. Truth'
    <3> SUFFICES ASSUME disk.active # None PROVE Tells(disk.active, disk.live)'
      BY <2>2, <2>6 DEF Truth
    <3>1. disk.active \in Entry /\ disk.active.id \in Update \ {tried}
      BY <2>1, DiskParts DEF Entry, Update
    <3>2. Before(disk.active)' = Before(disk.active)
      BY <2>2, <3>1 DEF Before
    <3> QED BY <2>2, <2>6, <3>2 DEF IInv, Truth, Tells, After
  <2>10. Quiet'
    BY <1>2, <2>2, <2>6, Names DEF Quiet, Busy, Terminal
  <2>11. Places' /\ Holding' /\ Ending' /\ Lowering'
    BY <2>1, <2>4 DEF IInv, Places, Holding, Ending, Lowering, Held, Lowers, Putting, Restoring, Installs, Alones,
                      Publishes, Owns, Actives
  <2>13. Written'
    BY <2>3, <2>4 DEF Written
  <2>14. Claiming'
    BY <1>2, <2>1, <2>2, <2>3, <2>4, <2>8 DEF Claiming, Terminal
  <2> QED BY <2>5, <2>7, <2>9, <2>10, <2>11, <2>12, <2>13, <2>14 DEF IInv
<1> QED BY <1>1, <1>2 DEF Prepare

(* The lock is taken while the installed files are those that were copied. *)
LEMMA ClaimStep == IInv /\ Claim => IInv'
<1> SUFFICES ASSUME IInv, Claim PROVE IInv'
  OBVIOUS
<1> USE DEF At
<1>1. /\ TypeOK /\ Places /\ Job /\ Card /\ disk \in Disk /\ app.at = "claim" /\ app.save = "none"
      /\ app.job = "install" /\ journal \in Entry /\ journal # None /\ journal.id = tried
      /\ tried \in Update /\ disk.before[tried] = disk.live /\ disk.lock = None
      /\ disk.active # None => Terminal(disk.active) /\ disk.active.id < tried
      /\ IsWhole(disk.live)
  BY Working DEF IInv, Job, Card, Claim, TypeOK, Places, Undoes, Restoring, Claiming, Entry
<1>2. CASE Refuse
  BY <1>1, <1>2, RefuseKeeps
<1>3. CASE Call([disk EXCEPT !.lock = journal.id],
               IF TornWrites THEN {[disk EXCEPT !.lock = Torn]} ELSE {}, [app EXCEPT !.at = "recheck"])
  <2>1. /\ UNCHANGED <<service, tried, lost>> /\ faults' \in Nat
        /\ \/ disk' = disk \/ disk' = [disk EXCEPT !.lock = journal.id]
           \/ disk' = [disk EXCEPT !.lock = Torn]
    BY <1>1, <1>3 DEF Call, Attempt, Same, TypeOK
  <2>2. /\ disk' \in Disk /\ disk'.live = disk.live /\ disk'.before = disk.before
        /\ disk'.active = disk.active /\ disk'.own = disk.own /\ disk'.lock \in {None, Torn, tried}
    BY <1>1, <2>1, LockEdit
  <2>3. ~Locked /\ (Locked' <=> disk'.lock = tried)
    BY <1>1, <2>2, Names DEF Locked
  <2>4. Sources' /\ Steps'
    <3>1. journal' = journal /\ journal.phase = "prepared"
      BY <1>1, <1>3 DEF Call, Attempt, KeptJournal, IInv, Claiming
    <3> QED BY <1>1, <2>2, <2>3, <3>1 DEF Sources, Steps, IsWhole, Whole
  <2>5. Truth'
    BY <1>1, <2>2, <2>3 DEF IInv, Truth, Tells, After, Before
  <2>6. Quiet'
    BY <1>1, <2>2 DEF Quiet, Busy, Terminal
  <2>7. ASSUME app'.at # "prepare", journal' # None => journal # None /\ journal'.id = journal.id
        PROVE  Begun'
    BY <1>1, <2>1, <2>2, <2>3, <2>7 DEF IInv, Begun, Update, IsWhole, Whole
  <2>8. CASE app' = Stopped /\ journal' = KeptJournal
    BY <1>1, <2>1, <2>2, <2>4, <2>5, <2>6, <2>7, <2>8, StopKeeps, StoppedStatus, KeptJournalId DEF Card
  <2>9. CASE /\ app' = [app EXCEPT !.at = "recheck"] /\ UNCHANGED <<journal, faults>>
             /\ disk' = [disk EXCEPT !.lock = journal.id]
    <3>1. /\ app'.at = "recheck" /\ app'.save = "none" /\ app'.job = "install" /\ app'.status = app.status
          /\ app' \in Apps
      BY <1>1, <2>9 DEF TypeOK, Labels, Installs
    <3>2. disk'.lock = tried
      BY <1>1, <2>9, LockEdit
    <3>3. TypeOK'
      BY <1>1, <2>1, <2>2, <2>9, <3>1 DEF TypeOK
    <3>4. Places' /\ Written' /\ Holding' /\ Ending' /\ Lowering'
      BY <1>1, <3>1 DEF IInv, Places, Written, Holding, Ending, Lowering, Held, Lowers, Putting, Restoring, Installs,
                        Alones, Publishes, Owns, Actives
    <3>5. Claiming'
      BY <1>1, <2>1, <2>2, <2>9, <3>1, <3>2 DEF IInv, Claiming, Terminal, IsWhole, Whole
    <3> QED BY <2>4, <2>5, <2>6, <2>7, <2>9, <3>1, <3>3, <3>4, <3>5 DEF IInv
  <2> QED BY <1>3, <2>8, <2>9 DEF Call, Attempt
<1> QED BY <1>2, <1>3 DEF Claim

(* The card is still as it was when the update was prepared: the journal   *)
(* is published.                                                           *)
LEMMA RecheckStep == IInv /\ Recheck => IInv'
<1> SUFFICES ASSUME IInv, Recheck PROVE IInv'
  OBVIOUS
<1> USE DEF At
<1>1. /\ TypeOK /\ Places /\ Job /\ Card /\ disk \in Disk /\ app.at = "recheck" /\ app.save = "none"
      /\ app.job = "install" /\ journal \in Entry /\ journal # None /\ journal.id = tried
      /\ tried \in Update /\ disk.before[tried] = disk.live /\ disk.lock = tried
      /\ journal.phase = "prepared" /\ (disk.active # None => Terminal(disk.active))
  BY Working DEF IInv, Job, Card, Recheck, TypeOK, Places, Undoes, Restoring, Claiming, Entry
<1>2. Publish(journal, "install")
  BY <1>1 DEF Recheck, Before
<1>3. /\ "install" \in Labels /\ "install" \in Installs
      /\ "install" \notin {"intend", "unlock"} \cup Lowers \cup Putting
  BY DEF Labels, Installs, Putting, Restoring, Lowers
<1> QED BY <1>1, <1>2, <1>3, PublishKeeps DEF Lowers

(* The journal says that the files are about to be replaced.               *)
LEMMA InstallStep == IInv /\ Install => IInv'
<1> SUFFICES ASSUME IInv, Install PROVE IInv'
  OBVIOUS
<1> USE DEF At
<1> DEFINE j == [journal EXCEPT !.phase = "installing"]
<1>1. /\ app.at = "install" /\ app.save = "none" /\ TypeOK /\ Places
  BY DEF Install, IInv
<1>2. app.job = "install" /\ app.at \in Held /\ journal \in Entry /\ disk.lock = journal.id
  BY <1>1, Working DEF IInv, Holding, Held, Lowers, Places, Undoes, Restoring
<1>3. CASE Refuse
  BY <1>1, <1>3, RefuseKeeps
<1>4. CASE Publish(j, "intend")
  <2>1. j \in Entry /\ j.id = journal.id /\ j.phase = "installing"
    BY <1>2 DEF Entry, Phase
  <2>2. "intend" \in Labels /\ "intend" \in Installs /\ "intend" \notin Putting \cup Restoring \cup Lowers
    BY DEF Labels, Installs, Putting, Restoring, Lowers
  <2> HIDE DEF j
  <2> QED BY <1>1, <1>2, <1>4, <2>1, <2>2, PublishKeeps
<1> QED BY <1>3, <1>4 DEF Install

(* The journal names the next file, or that all of them are new.           *)
LEMMA IntendStep == IInv /\ Intend => IInv'
<1> SUFFICES ASSUME IInv, Intend PROVE IInv'
  OBVIOUS
<1> USE DEF At
<1>1. /\ app.at = "intend" /\ app.save = "none" /\ TypeOK /\ Places
  BY DEF Intend, IInv
<1>2. /\ app.job = "install" /\ app.at \in Held /\ journal \in Entry /\ disk.lock = journal.id
      /\ journal.phase = "installing" /\ disk \in Disk
  BY <1>1, Working DEF IInv, TypeOK, Holding, Held, Lowers, Places, Undoes, Restoring
<1>3. CASE Refuse
  BY <1>1, <1>3, RefuseKeeps
<1>4. CASE journal.next < Count /\ Publish(journal, IF journal.next = Flag THEN "advance" ELSE "copy")
  <2> DEFINE then == IF journal.next = Flag THEN "advance" ELSE "copy"
  <2>1. then \in Putting /\ then \in Labels /\ then \in Installs /\ then \in {"advance", "copy"}
    BY DEF Labels, Installs, Putting
  <2>2. then \notin {"install", "unlock", "descend"} \cup Restoring \cup Lowers
    BY DEF Restoring, Lowers
  <2>3. journal.next \in File
    BY <1>2, <1>4 DEF Entry, File
  <2> HIDE DEF then
  <2>4. Publish(journal, then)
    BY <1>4 DEF then
  <2> QED BY <1>1, <1>2, <2>1, <2>2, <2>3, <2>4, PublishKeeps
<1>5. CASE disk.live = After(journal) /\ Publish([journal EXCEPT !.phase = "files_installed"], "unlock")
  <2> DEFINE j == [journal EXCEPT !.phase = "files_installed"]
  <2>1. j \in Entry /\ j.id = journal.id /\ j.phase = "files_installed"
    BY <1>2 DEF Entry, Phase
  <2>2. Tells(j, disk.live)
    BY <1>5, <2>1 DEF Tells, After
  <2>3. "unlock" \in Labels /\ "unlock" \in Installs
        /\ "unlock" \notin {"install", "intend", "descend"} \cup Putting \cup Restoring \cup Lowers
    BY DEF Labels, Installs, Putting, Restoring, Lowers
  <2>4. Publish(j, "unlock")
    BY <1>5
  <2> HIDE DEF j
  <2> QED BY <1>1, <1>2, <2>1, <2>2, <2>3, <2>4, PublishKeeps
<1> QED BY <1>3, <1>4, <1>5 DEF Intend

(* The facts that an install relies on while it replaces a file.           *)
LEMMA PuttingFacts ==
  ASSUME IInv, app.at \in Putting
  PROVE  /\ TypeOK /\ Places /\ disk \in Disk /\ app.job = "install" /\ app.at \in Held
         /\ journal \in Entry /\ journal.next \in File /\ journal.phase = "installing"
         /\ disk.lock = journal.id /\ disk.lock # None /\ app.at # "none"
         /\ After(journal)[journal.next] \in Content
<1>1. /\ TypeOK /\ Places /\ disk \in Disk /\ app.job = "install" /\ app.at \in Held
      /\ journal \in Entry /\ journal.next \in File /\ journal.phase = "installing"
      /\ disk.lock = journal.id /\ disk.lock # None /\ app.at # "none"
  BY Working, Names DEF IInv, TypeOK, Places, Holding, Held, Lowers, Putting, Restoring, Undoes, Entry
<1> QED BY <1>1, AfterIsWhole

LEMMA CopyStep == IInv /\ Copy => IInv'
<1> SUFFICES ASSUME IInv, Copy PROVE IInv'
  OBVIOUS
<1> USE DEF At
<1> DEFINE f == journal.next
<1>1. app.at = "copy" /\ app.save = "none" /\ app.at \in Putting
  BY DEF Copy, Putting
<1>2. CASE Refuse
  BY <1>1, <1>2, RefuseKeeps
<1>3. CASE Call([disk EXCEPT !.beside[f] = After(journal)[f]],
               IF TornWrites THEN {[disk EXCEPT !.beside[f] = Torn]} ELSE {}, [app EXCEPT !.at = "take"])
  <2>1. /\ UNCHANGED <<service, tried, lost>> /\ faults' \in Nat
        /\ \/ disk' = disk \/ disk' = [disk EXCEPT !.beside[f] = After(journal)[f]]
           \/ disk' = [disk EXCEPT !.beside[f] = Torn]
    BY <1>1, <1>3, PuttingFacts DEF Call, Attempt, Same, TypeOK
  <2>2. /\ disk' \in Disk /\ disk'.before = disk.before
        /\ disk'.active = disk.active /\ disk'.own = disk.own /\ disk'.lock = disk.lock
    BY <1>1, <2>1, PuttingFacts, BesideEdit
  <2>3. CASE app' = Stopped /\ journal' = KeptJournal
    BY <1>1, <2>1, <2>2, <2>3, HeldStop, PuttingFacts
  <2>4. CASE /\ app' = [app EXCEPT !.at = "take"] /\ UNCHANGED <<journal, faults>>
             /\ disk' = [disk EXCEPT !.beside[f] = After(journal)[f]]
    <3>1. disk'.beside[f] = After(journal)[f]
      BY <1>1, <2>4, PuttingFacts, BesideEdit
    <3>2. app' = [app EXCEPT !.at = "take", !.i = app.i] /\ app.i \in -1 .. Count - 1
      BY <1>1, <2>4, PuttingFacts DEF TypeOK
    <3>3. "take" \in Putting /\ "take" \notin {"descend", "retake", "reput"} \cup Restoring
      BY DEF Putting, Restoring
    <3> QED BY <1>1, <2>1, <2>2, <2>4, <3>1, <3>2, <3>3, HeldGoes, PuttingFacts
  <2> QED BY <1>3, <2>3, <2>4 DEF Call, Attempt
<1> QED BY <1>2, <1>3 DEF Copy

LEMMA TakeStep == IInv /\ Take => IInv'
<1> SUFFICES ASSUME IInv, Take PROVE IInv'
  OBVIOUS
<1> USE DEF At
<1> DEFINE f == journal.next
<1>1. app.at = "take" /\ app.save = "none" /\ app.at \in Putting
      /\ disk.beside[f] = After(journal)[f]
  BY DEF Take, Putting, IInv, Written
<1>2. CASE Refuse
  BY <1>1, <1>2, RefuseKeeps
<1>3. CASE Call([disk EXCEPT !.live[f] = None], {}, [app EXCEPT !.at = "put"])
  <2>1. /\ UNCHANGED <<service, tried, lost>> /\ faults' \in Nat
        /\ disk' = disk \/ disk' = [disk EXCEPT !.live[f] = None]
    BY <1>1, <1>3, PuttingFacts DEF Call, Attempt, Same, TypeOK
  <2>2. /\ disk' \in Disk /\ disk'.before = disk.before /\ disk'.beside = disk.beside
        /\ disk'.active = disk.active /\ disk'.own = disk.own /\ disk'.lock = disk.lock
    BY <1>1, <2>1, PuttingFacts, LiveRemove
  <2>3. CASE app' = Stopped /\ journal' = KeptJournal
    BY <1>1, <2>1, <2>2, <2>3, HeldStop, PuttingFacts
  <2>4. CASE app' = [app EXCEPT !.at = "put"] /\ UNCHANGED <<journal, faults>>
    <3>1. disk'.beside[f] = After(journal)[f]
      BY <1>1, <2>2
    <3>2. app' = [app EXCEPT !.at = "put", !.i = app.i] /\ app.i \in -1 .. Count - 1
      BY <1>1, <2>4, PuttingFacts DEF TypeOK
    <3>3. "put" \in Putting /\ "put" \notin {"descend", "retake", "reput"} \cup Restoring
      BY DEF Putting, Restoring
    <3> QED BY <1>1, <2>1, <2>2, <2>4, <3>1, <3>2, <3>3, HeldGoes, PuttingFacts
  <2> QED BY <1>3, <2>3, <2>4 DEF Call, Attempt
<1> QED BY <1>2, <1>3 DEF Take

(* What takes the file's name is the new file, whole.                      *)
LEMMA PutStep == IInv /\ Put => IInv'
<1> SUFFICES ASSUME IInv, Put PROVE IInv'
  OBVIOUS
<1> USE DEF At
<1> DEFINE f == journal.next
           done == [disk EXCEPT !.live[f] = disk.beside[f], !.beside[f] = None]
<1>1. app.at = "put" /\ app.save = "none" /\ app.at \in Putting
      /\ disk.beside[f] = After(journal)[f]
  BY DEF Put, Putting, IInv, Written
<1>2. Call(done, {}, [app EXCEPT !.at = "advance"])
  BY DEF Put
<1>3. /\ UNCHANGED <<service, tried, lost>> /\ faults' \in Nat
      /\ disk' = disk \/ disk' = done
  BY <1>1, <1>2, PuttingFacts DEF Call, Attempt, Same, TypeOK
<1>4. /\ disk' \in Disk /\ disk'.before = disk.before
      /\ disk'.active = disk.active /\ disk'.own = disk.own /\ disk'.lock = disk.lock
  BY <1>1, <1>3, PuttingFacts, LivePut
<1>5. CASE app' = Stopped /\ journal' = KeptJournal
  BY <1>1, <1>3, <1>4, <1>5, HeldStop, PuttingFacts
<1>6. CASE app' = [app EXCEPT !.at = "advance"] /\ UNCHANGED <<journal, faults>>
  <2>1. app' = [app EXCEPT !.at = "advance", !.i = app.i] /\ app.i \in -1 .. Count - 1
    BY <1>1, <1>6, PuttingFacts DEF TypeOK
  <2>2. "advance" \in Putting /\ "advance" \notin {"descend", "take", "put", "retake", "reput"} \cup Restoring
    BY DEF Putting, Restoring
  <2> QED BY <1>1, <1>3, <1>4, <1>6, <2>1, <2>2, HeldGoes, PuttingFacts
<1> QED BY <1>2, <1>5, <1>6 DEF Call, Attempt

LEMMA AdvanceStep == IInv /\ Advance => IInv'
<1> SUFFICES ASSUME IInv, Advance PROVE IInv'
  OBVIOUS
<1> USE DEF At
<1> DEFINE j == [journal EXCEPT !.next = @ + 1]
<1>1. app.at = "advance" /\ app.save = "none" /\ app.at \in Putting
  BY DEF Advance, Putting
<1>2. j \in Entry /\ j.id = journal.id /\ j.phase = "installing"
  <2>1. journal.next + 1 \in 0 .. Count
    BY <1>1, PuttingFacts DEF File
  <2> QED BY <1>1, <2>1, PuttingFacts DEF Entry
<1>3. "intend" \in Labels /\ "intend" \in Installs /\ "intend" \notin Putting \cup Restoring \cup Lowers
  BY DEF Labels, Installs, Putting, Restoring, Lowers
<1>4. Publish(j, "intend")
  BY DEF Advance
<1> HIDE DEF j
<1> QED BY <1>1, <1>2, <1>3, <1>4, PublishKeeps, PuttingFacts

(* The end of an install, which leaves the new files, and of a rollback,   *)
(* which leaves the old ones: in either case active.json says so, or there *)
(* is none or an earlier one that says the same.                           *)
LEMMA UnlockStep == IInv /\ Unlock => IInv'
<1> SUFFICES ASSUME IInv, Unlock PROVE IInv'
  OBVIOUS
<1> USE DEF At
<1>1. /\ app.at = "unlock" /\ app.save = "none" /\ TypeOK /\ Places /\ Card /\ disk \in Disk
      /\ app.job \in {"install", "undo", "recover"} /\ app.at # "none"
  BY Working DEF Unlock, IInv, Card, TypeOK, Places
<1>2. /\ journal \in Entry /\ journal # None /\ journal.id \in Update /\ Tells(journal, disk.live)
      /\ disk.lock \in {None, journal.id} /\ journal.id # None
      /\ journal.phase \in {"files_installed", "rolled_back"}
      /\ \/ disk.active = journal
         \/ /\ journal.phase = "rolled_back" /\ disk.lock = journal.id
            /\ disk.active # None => Terminal(disk.active)
      /\ journal.phase = "files_installed" <=> app.job = "install"
      /\ app.job = "install" => disk.lock = journal.id
  BY <1>1, Names DEF IInv, Ending, Entry
<1>3. CASE Refuse
  BY <1>1, <1>3, RefuseKeeps
<1>4. CASE disk' = disk /\ app' = Stopped /\ UNCHANGED journal /\ faults' \in Nat /\ Same
  <2>1. journal' = KeptJournal /\ UNCHANGED <<service, tried, lost>>
    BY <1>1, <1>4 DEF KeptJournal, Same
  <2>2. (\A u \in Update : disk'.own[u] # None => disk'.own[u].id = u) /\ TmpMayChange
    BY <1>4 DEF IInv, Begun, TmpMayChange
  <2> QED BY <1>1, <1>4, <2>1, <2>2, StopAsideKeeps
<1>5. Stopped # Done
  BY <1>1 DEF Stopped, Done, TypeOK
<1>6. CASE /\ disk' = [disk EXCEPT !.lock = None] /\ app' \in {Done, Stopped} /\ UNCHANGED <<journal, service, tried>>
           /\ lost' \in {lost, journal.id} /\ (lost' # lost => disk.lock = journal.id)
           /\ app' = Stopped => lost' = journal.id
           /\ faults' \in Nat
  <2>1. /\ disk' \in Disk /\ disk'.live = disk.live /\ disk'.before = disk.before
        /\ disk'.active = disk.active /\ disk'.own = disk.own /\ disk'.lock = None
    BY <1>1, <1>6, LockEdit
  <2>2. ~Locked' /\ (Locked <=> disk.lock = journal.id)
    BY <1>2, <2>1, Names DEF Locked
  <2>3. /\ app'.at \in {"none", "failed"} /\ app'.save = "none" /\ app'.job \in {"install", "ready"}
        /\ app'.at = "failed" <=> app'.job = "install"
        /\ app'.job = "install" => app'.status # "awaiting_reopen"
        /\ app' = Done => app'.status = (IF app.job = "install" THEN "awaiting_reopen" ELSE "idle")
        /\ app' \in Apps
    <3>1. CASE app' = Done
      BY <1>1, <3>1 DEF Done, TypeOK, Labels, Jobs, Statuses
    <3>2. CASE app' = Stopped
      BY <1>1, <1>5, <3>2 DEF Stopped, TypeOK, Places, Labels, Installs, Jobs, Statuses
    <3> QED BY <1>6, <3>1, <3>2
  <2>4. TypeOK'
    BY <1>1, <1>2, <1>6, <2>1, <2>3 DEF TypeOK
  <2>5. Begun'
    <3>1. lost' # None => lost' <= tried /\ IsWhole(disk.before[lost'])
      BY <1>1, <1>2, <1>6, <2>2 DEF Card, Begun, Sources
    <3> QED BY <1>1, <1>6, <2>1, <2>2, <2>3, <3>1 DEF Card, Begun, IsWhole, Whole
  <2>6. IsWhole(disk.live)
    <3>1. CASE ~Locked
      <4>1. disk.active = journal /\ journal.phase # "rolling_back"
        BY <1>2, <2>2, <3>1
      <4> QED BY <1>1, <1>2, <3>1, <4>1 DEF Card, Sources, Bare
    <3>2. CASE Locked /\ journal.phase = "files_installed"
      BY <1>2, <3>2, AfterIsWhole DEF Tells
    <3>3. CASE Locked /\ journal.phase = "rolled_back"
      BY <1>1, <1>2, <2>2, <3>3 DEF Card, Sources, Tells, Before
    <3> QED BY <1>2, <3>1, <3>2, <3>3
  <2>7. Sources' /\ Steps'
    <3>1. Bare' => journal'.phase = "rolled_back"
      BY <1>2, <1>6, <2>1 DEF Bare
    <3> QED BY <2>1, <2>2, <2>6, <3>1 DEF Sources, Steps, IsWhole, Whole
  <2>8. Truth'
    <3> SUFFICES ASSUME disk.active # None PROVE Tells(disk.active, disk.live)
      BY <2>1, <2>2 DEF Truth, Tells, After, Before
    <3>1. CASE disk.active = journal
      BY <1>2, <3>1
    <3>2. CASE ~Locked \/ disk.lock = disk.active.id
      BY <1>1, <3>2 DEF Card, Truth
    <3>3. CASE Locked /\ disk.lock # disk.active.id /\ journal.phase = "rolled_back"
      <4>1. disk.before[disk.lock] = disk.live
        BY <1>2, <2>2, <3>3 DEF Tells, Before
      <4> QED BY <1>1, <3>3, <4>1 DEF Card, Truth
    <3> QED BY <1>2, <3>1, <3>2, <3>3
  <2>9. Quiet'
    <3> SUFFICES ASSUME disk.active # None
                 PROVE  /\ ~Busy(disk.active)
                        /\ app' = Stopped => Terminal(disk.active) \/ disk.active.id = journal.id
                        /\ app' = Done => app'.status = "awaiting_reopen" \/ Terminal(disk.active)
      BY <1>6, <2>1, Names DEF Quiet, Busy, Terminal
    <3> QED BY <1>1, <1>2, <2>3 DEF Busy, Terminal
  <2>10. Places' /\ Written' /\ Claiming' /\ Holding' /\ Ending' /\ Lowering'
    BY <2>3 DEF Places, Written, Claiming, Holding, Ending, Lowering, Held, Lowers, Putting, Restoring, Alones,
                Publishes, Owns, Actives, Installs, Undoes
  <2> QED BY <2>4, <2>5, <2>7, <2>8, <2>9, <2>10 DEF IInv
<1>7. CASE disk.lock = None
  <2>1. disk = [disk EXCEPT !.lock = None]
    BY <1>1, <1>7 DEF Disk
  <2> QED BY <1>1, <1>2, <1>5, <1>6, <1>7, <2>1 DEF Unlock, Same, TypeOK
<1>8. CASE disk.lock = journal.id
  <2>1. disk.lock # None /\ disk'.lock \in {disk.lock, None}
    BY <1>1, <1>2, <1>8, LockEdit DEF Unlock, Attempt
  <2>2. CASE disk' = disk
    BY <1>1, <1>2, <1>4, <1>8, <2>1, <2>2, LockEdit DEF Unlock, Attempt, Same, TypeOK, KeptJournal
  <2>3. CASE disk' = [disk EXCEPT !.lock = None]
    <3>1. disk'.lock = None
      BY <1>1, <2>3, LockEdit
    <3> QED BY <1>1, <1>2, <1>5, <1>6, <1>8, <2>1, <2>3, <3>1 DEF Unlock, Attempt, TypeOK, KeptJournal
  <2> QED BY <1>2, <1>8, <2>1, <2>2, <2>3 DEF Unlock, Attempt
<1> QED BY <1>2, <1>7, <1>8

-----------------------------------------------------------------------------
(***************************************************************************)
(* A rollback.                                                             *)
(***************************************************************************)
(* It begins with the journal that is there.  Where it restores anything   *)
(* the lock is its own, or it has lost it and is the only one under way.   *)
LEMMA RollbackStep == IInv /\ Rollback => IInv'
<1> SUFFICES ASSUME IInv, Rollback PROVE IInv'
  OBVIOUS
<1> USE DEF At
<1>1. /\ app.at = "rollback" /\ app.save = "none" /\ TypeOK /\ Places /\ Card /\ disk \in Disk
      /\ app.job \in {"undo", "recover"} /\ app.status # "awaiting_reopen" /\ app.at # "none"
  BY Working DEF Rollback, IInv, Card, TypeOK, Places, Installs, Putting
<1>2. /\ journal \in Entry /\ journal # None /\ journal.id \in Update /\ journal = Loaded
      /\ (Locked => journal.id = disk.lock)
      /\ (~Locked => disk.lock = None /\ journal = disk.active)
      /\ (~Locked => Terminal(journal) \/ journal.id = lost)
      /\ (~Locked /\ Busy(journal) => Bare)
  <2>1. journal \in Entry /\ journal # None /\ journal = Loaded /\ journal.id \in Update
    BY <1>1 DEF IInv, Ending, Entry
  <2> QED BY <1>1, <2>1, LoadedIs DEF Card, Quiet
<1>3. CASE Refuse
  BY <1>1, <1>3, RefuseKeeps
<1>4. CASE /\ journal.phase = "rolled_back" /\ disk.live = Before(journal)
           /\ app' = [app EXCEPT !.at = "unlock"] /\ UNCHANGED <<disk, journal, faults>> /\ Same
  <2>1. /\ app'.at = "unlock" /\ app'.save = "none" /\ app'.job = app.job /\ app'.status = app.status
        /\ app' \in Apps
    BY <1>1, <1>4 DEF TypeOK, Labels, Undoes
  <2>2. TypeOK'
    BY <1>1, <1>4, <2>1 DEF TypeOK, Same
  <2>3. Card'
    BY <1>1, <1>4, <2>1, CardKept DEF Card, Begun, Same, TmpMayChange
  <2>4. \/ disk.active = journal
        \/ disk.lock = journal.id /\ (disk.active # None => Terminal(disk.active))
    BY <1>2, <1>4 DEF Loaded, Locked, Terminal
  <2>5. disk.lock \in {None, journal.id}
    BY <1>2, DiskParts, <1>1 DEF Locked
  <2>6. Ending' /\ Lowering'
    BY <1>1, <1>2, <1>4, <2>1, <2>4, <2>5 DEF Ending, Lowering, Tells, Before, Terminal, Lowers, Restoring
  <2>7. Places' /\ Written' /\ Claiming' /\ Holding'
    BY <1>1, <2>1 DEF Places, Written, Claiming, Holding, Held, Putting, Restoring, Undoes, Alones,
                      Publishes, Owns, Actives
  <2> QED BY <2>2, <2>3, <2>6, <2>7 DEF IInv, Card
<1>5. CASE /\ journal.phase \notin {"rolled_back", "completed"} /\ Restorable(journal)
           /\ journal' = [journal EXCEPT !.phase = "rolling_back"]
           /\ app' = [app EXCEPT !.save = "own.write", !.at = "descend", !.i = Count - 1]
           /\ UNCHANGED <<disk, faults>> /\ Same
  <2>1. /\ disk.lock = journal.id \/ (disk.lock = None /\ lost = journal.id)
        /\ lost' = lost /\ disk' = disk
    BY <1>2, <1>5 DEF Terminal, Same
  <2>2. /\ journal' \in Entry /\ journal'.id = journal.id /\ journal'.phase = "rolling_back"
        /\ Before(journal)' = Before(journal) /\ After(journal)' = After(journal)
    BY <1>2, <1>5 DEF Entry, Phase, Before, After
  <2>3. /\ app'.at = "descend" /\ app'.save = "own.write" /\ app'.job = app.job /\ app'.status = app.status
        /\ app'.i = Count - 1
        /\ app' \in Apps
    <3>1. Count - 1 \in -1 .. Count - 1 /\ "descend" \in Labels /\ "own.write" \in Publishes
      BY DEF Labels, Undoes, Publishes, Owns
    <3> QED BY <1>1, <1>5, <3>1 DEF TypeOK
  <2>4. TypeOK'
    BY <1>1, <1>5, <2>2, <2>3 DEF TypeOK, Same
  <2>5. Card'
    BY <1>1, <1>2, <1>5, <2>2, <2>3, CardKept DEF Card, Begun, Same, TmpMayChange
  <2>6. Places' /\ Written' /\ Claiming' /\ Ending'
    BY <1>1, <2>2, <2>3 DEF Places, Written, Claiming, Ending, Undoes, Restoring, Alones, Publishes, Owns
  <2>7. Holding'
    BY <1>5, <2>1, <2>2, <2>3 DEF Holding, Putting, Lowers
  <2>8. ASSUME disk.lock = None
        PROVE  /\ journal = disk.active /\ journal.phase \in {"rolling_back", "files_installed"}
               /\ Staggered(Before(journal), After(journal), disk.live)
    <3>1. ~Locked /\ journal = disk.active /\ lost = journal.id
      BY <1>2, <2>1, <2>8, Names DEF Locked
    <3>2. CASE journal.phase = "files_installed"
      <4>1. disk.live = After(journal)
        BY <1>1, <1>2, <3>1, <3>2 DEF Card, Truth, Tells
      <4> QED BY <3>1, <3>2, <4>1 DEF Staggered
    <3>3. CASE journal.phase # "files_installed"
      <4>1. Busy(journal)
        BY <1>2, <1>5, <3>3 DEF Busy, Entry, Phase
      <4>2. Bare
        BY <1>2, <3>1, <4>1
      <4>3. journal.phase = "rolling_back"
        BY <1>2, <3>1, <4>2 DEF Bare
      <4>4. CASE Staggered(disk.before[lost], Whole(lost), disk.live)
        BY <1>2, <3>1, <4>3, <4>4, AfterIsWhole DEF Before
      <4>5. CASE IsWhole(disk.live)
        <5>1. PICK r \in Release, q \in Release : disk.live = Whole(r) /\ Before(journal) = Whole(q)
          <6>1. IsWhole(Before(journal))
            BY <1>1, <1>2, <3>1, Names DEF Card, Begun, Before
          <6> QED BY <4>5, <6>1 DEF IsWhole
        <5>2. r \in {q, journal.id}
          <6>1. disk.live[App] \in {Before(journal)[App], After(journal)[App]}
            BY <5>1, <1>5, WholeShows, Names DEF Restorable
          <6> QED BY <1>2, <5>1, <6>1, WholeShows, AfterIsWhole
        <5>4. disk.live \in {Before(journal), After(journal)}
          BY <1>2, <5>1, <5>2, AfterIsWhole
        <5> QED BY <3>1, <4>3, <5>4 DEF Staggered
      <4> QED BY <1>1, <3>1, <4>2, <4>3, <4>4, <4>5 DEF Card, Steps
    <3> QED BY <3>2, <3>3
  <2>9. Lowering'
    <3> SUFFICES ASSUME disk.lock = None PROVE Lowering'
      BY <2>1 DEF Lowering
    <3>1. Staggered(Before(journal), After(journal), disk.live)'
      BY <2>1, <2>2, <2>8 DEF Staggered
    <3>2. \A f \in File : ~(f > Count - 1)
      BY DEF File
    <3>3. disk'.active # None /\ disk'.active.id = lost' /\ disk'.active.phase \in {"rolling_back", "files_installed"}
      BY <1>2, <2>1, <2>8, Names
    <3>4. app'.at = "descend" /\ \A f \in File : ~(f > app'.i)
      BY <2>3, <3>2
    <3> HIDE DEF Restorable
    <3> QED BY <3>1, <3>3, <3>4 DEF Lowering, Lowers
  <2> QED BY <2>4, <2>5, <2>6, <2>7, <2>9 DEF IInv, Card
<1> QED BY <1>3, <1>4, <1>5 DEF Rollback

(* The facts that a rollback relies on while it restores the files.        *)
LEMMA RestoringFacts ==
  ASSUME IInv, app.at \in Lowers
  PROVE  /\ TypeOK /\ Places /\ disk \in Disk /\ app.job \in {"undo", "recover"} /\ app.at \in Held
         /\ journal \in Entry /\ journal.phase = "rolling_back"
         /\ disk.lock = journal.id \/ (disk.lock = None /\ lost = journal.id /\ app.at \in Lowers)
         /\ app.at # "none"
         /\ app.at \in Restoring => app.i \in File
         /\ Before(journal) \in [File -> Content]
         /\ disk.lock = None => /\ Staggered(Before(journal), After(journal), disk.live)
                                /\ \A f \in File : f > app.i => disk.live[f] = Before(journal)[f]
                                /\ Before(journal)[Flag] = After(journal)[Flag]
<1>1. /\ TypeOK /\ Places /\ disk \in Disk /\ app.job \in {"undo", "recover"} /\ app.at \in Held
      /\ journal \in Entry /\ journal.phase = "rolling_back" /\ journal.id \in Update
      /\ disk.lock = journal.id \/ (disk.lock = None /\ lost = journal.id /\ app.at \in Lowers)
      /\ app.at # "none" /\ (app.at \in Restoring => app.i \in File)
  BY Working DEF IInv, TypeOK, Places, Holding, Held, Lowers, Putting, Restoring, Installs, Entry
<1>2. Before(journal) \in [File -> Content]
  BY <1>1, DiskParts DEF Before, Entry
<1>3. ASSUME disk.lock = None
      PROVE  /\ Staggered(Before(journal), After(journal), disk.live)
             /\ \A f \in File : f > app.i => disk.live[f] = Before(journal)[f]
             /\ Before(journal)[Flag] = After(journal)[Flag]
  <2>1. IsWhole(Before(journal))
    BY <1>1, <1>3, Names DEF IInv, Begun, Before
  <2>2. Before(journal)[Flag] = 0 /\ After(journal)[Flag] = 0
    BY <2>1, Names DEF IsWhole, Whole, Asset, After
  <2> QED BY <1>3, <2>2 DEF IInv, Lowering
<1> QED BY <1>1, <1>2, <1>3

(* Without the lock a file that is not yet the old one is taken away, or   *)
(* becomes the old one, only when all behind it are.                       *)
LEMMA Lowered ==
  ASSUME IInv, app.at \in Restoring, disk.lock = None, disk' \in Disk,
         NEW c \in {None, Before(journal)[app.i]},
         c = None => \/ disk.live[app.i] # Before(journal)[app.i]
                     \/ disk.live[app.i] = None \/ Before(journal)[app.i] = None,
         disk'.live = [disk.live EXCEPT ![app.i] = c]
  PROVE  /\ Staggered(Before(journal), After(journal), disk'.live)
         /\ \A f \in File : f > app.i => disk'.live[f] = Before(journal)[f]
         /\ c = Before(journal)[app.i] => \A f \in File : f > app.i - 1 => disk'.live[f] = Before(journal)[f]
<1> DEFINE i == app.i  old == Before(journal)  new == After(journal)  was == disk.live  is == disk'.live
<1>1. /\ Staggered(old, new, was) /\ (\A f \in File : f > i => was[f] = old[f]) /\ old[Flag] = new[Flag]
      /\ i \in File /\ disk \in Disk /\ File \subseteq Int
  BY RestoringFacts DEF Lowers, File
<1>2. /\ is[i] = c /\ \A f \in File \ {i} : is[f] = was[f]
  BY <1>1, DiskParts
<1>4. old[i] = new[i] => c = old[i]
  BY <1>1 DEF Staggered
<1>5. \A f \in File : old[f] = new[f] => is[f] = old[f]
  BY <1>1, <1>2, <1>4 DEF Staggered
<1>6. \A f \in File : is[f] \in {old[f], new[f], None}
  BY <1>1, <1>2 DEF Staggered
<1>7. ASSUME NEW f \in File, NEW g \in File, f < g, is[f] # new[f]
      PROVE  is[g] = old[g]
  <2>1. CASE f # i /\ g # i
    BY <1>1, <1>2, <1>7, <2>1 DEF Staggered
  <2>2. CASE f = i
    BY <1>1, <1>2, <1>7, <2>2
  <2>3. CASE g = i
    <3>1. was[f] # new[f] /\ was[i] = old[i]
      BY <1>1, <1>2, <1>7, <2>3 DEF Staggered
    <3> QED BY <1>2, <2>3, <3>1
  <2> QED BY <2>1, <2>2, <2>3
<1>8. Staggered(old, new, is)
  BY <1>5, <1>6, <1>7 DEF Staggered
<1>9. \A f \in File : f > i => is[f] = old[f]
  BY <1>1, <1>2
<1>10. c = old[i] => \A f \in File : f > i - 1 => is[f] = old[f]
  <2>1. \A f \in File : f > i - 1 => f = i \/ f > i
    BY <1>1 DEF File
  <2> QED BY <1>2, <1>9, <2>1
<1> QED BY <1>8, <1>9, <1>10

LEMMA DescendStep == IInv /\ Descend => IInv'
<1> SUFFICES ASSUME IInv, Descend PROVE IInv'
  OBVIOUS
<1> USE DEF At
<1>1. app.at = "descend" /\ app.save = "none" /\ app.i >= 0 /\ app.at \in Lowers
  BY DEF Descend, Lowers
<1>2. app.i \in File /\ app.i - 1 \in -1 .. Count - 1
  BY <1>1, RestoringFacts DEF TypeOK, File
<1>3. CASE app.i = Flag /\ app' = [app EXCEPT !.i = @ - 1] /\ UNCHANGED <<disk, journal, faults>> /\ Same
  <2>1. app' = [app EXCEPT !.at = "descend", !.i = app.i - 1]
    BY <1>1, <1>3, RestoringFacts DEF TypeOK
  <2>2. disk' \in Disk /\ faults' \in Nat /\ UNCHANGED <<service, tried, lost>>
    BY <1>1, <1>3, RestoringFacts DEF TypeOK, Same
  <2>3. "descend" \notin Putting \cup Restoring
    BY DEF Putting, Restoring
  <2>4. disk.lock = None => \A f \in File : f > app.i - 1 => disk.live[f] = Before(journal)[f]
    <3> SUFFICES ASSUME disk.lock = None, NEW f \in File, f > app.i - 1
                 PROVE  disk.live[f] = Before(journal)[f]
      OBVIOUS
    <3>1. f > app.i \/ f = app.i
      BY <1>2 DEF File
    <3> QED BY <1>1, <1>3, <3>1, RestoringFacts DEF Staggered, Lowers
  <2> QED BY <1>1, <1>2, <1>3, <2>1, <2>2, <2>3, <2>4, HeldGoes, RestoringFacts DEF Lowers
<1>4. CASE Publish([journal EXCEPT !.next = app.i], "discard")
  <2> DEFINE j == [journal EXCEPT !.next = app.i]
  <2>1. j \in Entry /\ j.id = journal.id /\ j.phase = "rolling_back"
    BY <1>1, <1>2, RestoringFacts DEF Entry, File
  <2>2. "discard" \in Labels /\ "discard" \in Undoes /\ "discard" \in Restoring
        /\ "discard" \notin {"install", "intend", "unlock"} \cup Putting
    BY DEF Labels, Undoes, Putting, Restoring
  <2>3. Publish(j, "discard")
    BY <1>4
  <2> HIDE DEF j
  <2>4. "discard" \in Lowers
    BY DEF Lowers, Restoring
  <2> QED BY <1>1, <1>2, <2>1, <2>2, <2>3, <2>4, PublishKeeps, RestoringFacts
<1> QED BY <1>3, <1>4 DEF Descend

(* A step on one file leaves the installed files alone, or takes that file *)
(* away or makes it the old one; and then the job stops, or goes on with   *)
(* the file, or, when it is the old one, with the file before it.          *)
LEMMA RestoringMoves ==
  ASSUME IInv, app.at \in Restoring, app.save = "none",
         disk' \in Disk, disk'.before = disk.before, disk'.own = disk.own, disk'.lock = disk.lock,
         disk'.active = disk.active, UNCHANGED <<service, tried, lost>>, faults' \in Nat,
         NEW c \in {None, Before(journal)[app.i]},
         \/ disk'.live = disk.live
         \/ /\ disk'.live = [disk.live EXCEPT ![app.i] = c]
            /\ disk.lock = None /\ c = None =>
                 disk.live[app.i] # Before(journal)[app.i] \/ Before(journal)[app.i] = None,
         NEW then \in Restoring,
         \/ app' = Stopped /\ journal' = KeptJournal
         \/ /\ journal' = journal /\ app' = [app EXCEPT !.at = then]
            /\ then \in {"retake", "reput"} => disk'.beside[app.i] = Before(journal)[app.i]
            /\ then = "retake" => disk'.live[app.i] # Before(journal)[app.i]
         \/ journal' = journal /\ app' = Below /\ disk'.live[app.i] = Before(journal)[app.i]
  PROVE  IInv'
<1>1. /\ TypeOK /\ app.at \in Held /\ app.at \in Lowers /\ app.at \in {"descend"} \cup Restoring
      /\ app.i \in File /\ app.i \in -1 .. Count - 1 /\ app.i - 1 \in -1 .. Count - 1
      /\ journal.phase = "rolling_back" /\ disk \in Disk
      /\ Before(journal) \in [File -> Content]
  BY RestoringFacts DEF Lowers, TypeOK, File
<1>2. ASSUME disk.lock = None
      PROVE  /\ Staggered(Before(journal), After(journal), disk'.live)
             /\ \A f \in File : f > app.i => disk'.live[f] = Before(journal)[f]
  <2>1. CASE disk'.live = disk.live
    BY <1>1, <1>2, <2>1, RestoringFacts
  <2>2. CASE /\ disk'.live = [disk.live EXCEPT ![app.i] = c]
             /\ c = None => disk.live[app.i] # Before(journal)[app.i] \/ Before(journal)[app.i] = None
    BY <1>2, <2>2, Lowered
  <2> QED BY <1>2, <2>1, <2>2
<1>3. CASE app' = Stopped /\ journal' = KeptJournal
  BY <1>1, <1>2, <1>3, HeldStop
<1>4. CASE /\ journal' = journal /\ app' = [app EXCEPT !.at = then]
           /\ then \in {"retake", "reput"} => disk'.beside[app.i] = Before(journal)[app.i]
           /\ then = "retake" => disk'.live[app.i] # Before(journal)[app.i]
  <2>1. app' = [app EXCEPT !.at = then, !.i = app.i]
    BY <1>1, <1>4 DEF TypeOK
  <2>2. then \notin Putting /\ then \notin {"take", "put"}
    BY DEF Restoring, Putting
  <2> QED BY <1>1, <1>2, <1>4, <2>1, <2>2, HeldGoes
<1>5. CASE journal' = journal /\ app' = Below /\ disk'.live[app.i] = Before(journal)[app.i]
  <2>1. app' = [app EXCEPT !.at = "descend", !.i = app.i - 1]
    BY <1>5 DEF Below
  <2>2. "descend" \notin Putting \cup Restoring
    BY DEF Putting, Restoring
  <2>3. \A f \in File : f > app.i - 1 => f = app.i \/ f > app.i
    BY <1>1 DEF File
  <2> QED BY <1>1, <1>2, <1>5, <2>1, <2>2, <2>3, HeldGoes
<1> QED BY <1>3, <1>4, <1>5

LEMMA DiscardStep == IInv /\ Discard => IInv'
<1> SUFFICES ASSUME IInv, Discard PROVE IInv'
  OBVIOUS
<1> USE DEF At
<1> DEFINE f == app.i
<1>1. /\ app.at = "discard" /\ app.save = "none" /\ app.at \in Restoring /\ app.at \in Lowers
      /\ "restore" \in Restoring
  BY DEF Discard, Restoring, Lowers
<1>2. f \in File /\ disk \in Disk /\ TypeOK /\ disk.live \in [File -> Content]
  BY <1>1, RestoringFacts, DiskParts
<1>3. CASE Refuse
  BY <1>1, <1>3, RefuseKeeps
<1>4. CASE app' = [app EXCEPT !.at = "restore"] /\ UNCHANGED <<disk, journal, faults>> /\ Same
  BY <1>1, <1>2, <1>4, RestoringMoves DEF Same, TypeOK
<1>5. CASE Call([disk EXCEPT !.beside[f] = None], {}, [app EXCEPT !.at = "restore"])
  <2>1. /\ UNCHANGED <<service, tried, lost>> /\ faults' \in Nat
        /\ disk' = disk \/ disk' = [disk EXCEPT !.beside[f] = None]
        /\ \/ app' = Stopped /\ journal' = KeptJournal
           \/ app' = [app EXCEPT !.at = "restore"] /\ journal' = journal
    BY <1>2, <1>5 DEF Call, Attempt, Same, TypeOK
  <2>2. /\ disk' \in Disk /\ disk'.before = disk.before /\ disk'.live = disk.live
        /\ disk'.active = disk.active /\ disk'.own = disk.own /\ disk'.lock = disk.lock
    BY <1>2, <2>1, BesideEdit DEF Content
  <2> QED BY <1>1, <2>1, <2>2, RestoringMoves
<1> QED BY <1>3, <1>4, <1>5 DEF Discard

LEMMA RestoreStep == IInv /\ Restore => IInv'
<1> SUFFICES ASSUME IInv, Restore PROVE IInv'
  OBVIOUS
<1> USE DEF At
<1> DEFINE f == app.i
<1>1. /\ app.at = "restore" /\ app.save = "none" /\ app.at \in Restoring /\ app.at \in Lowers
      /\ "retake" \in Restoring
  BY DEF Restore, Restoring, Lowers
<1>2. /\ f \in File /\ disk \in Disk /\ TypeOK /\ disk.live \in [File -> Content]
      /\ Before(journal)[f] \in Content
  BY <1>1, RestoringFacts, DiskParts
<1>3. CASE disk.live[f] = Before(journal)[f] /\ app' = Below /\ UNCHANGED <<disk, journal, faults>> /\ Same
  BY <1>1, <1>2, <1>3, RestoringMoves DEF Same, TypeOK
<1>4. CASE Before(journal)[f] = None /\ Call([disk EXCEPT !.live[f] = None], {}, Below)
  <2>1. /\ UNCHANGED <<service, tried, lost>> /\ faults' \in Nat
        /\ disk' = disk \/ disk' = [disk EXCEPT !.live[f] = None]
        /\ \/ app' = Stopped /\ journal' = KeptJournal
           \/ app' = Below /\ journal' = journal /\ disk' = [disk EXCEPT !.live[f] = None]
    BY <1>2, <1>4 DEF Call, Attempt, Same, TypeOK
  <2>2. /\ disk' \in Disk /\ disk'.before = disk.before
        /\ disk'.live = disk.live \/ disk'.live = [disk.live EXCEPT ![f] = None]
        /\ disk'.active = disk.active /\ disk'.own = disk.own /\ disk'.lock = disk.lock
        /\ disk' = [disk EXCEPT !.live[f] = None] => disk'.live[f] = None
    BY <1>2, <2>1, LiveRemove
  <2> QED BY <1>1, <1>4, <2>1, <2>2, RestoringMoves
<1>5. CASE /\ disk.live[f] # Before(journal)[f]
           /\ Call([disk EXCEPT !.beside[f] = Before(journal)[f]],
                   IF TornWrites THEN {[disk EXCEPT !.beside[f] = Torn]} ELSE {}, [app EXCEPT !.at = "retake"])
  <2>1. /\ UNCHANGED <<service, tried, lost>> /\ faults' \in Nat
        /\ \/ disk' = disk \/ disk' = [disk EXCEPT !.beside[f] = Before(journal)[f]]
           \/ disk' = [disk EXCEPT !.beside[f] = Torn]
        /\ \/ app' = Stopped /\ journal' = KeptJournal
           \/ /\ app' = [app EXCEPT !.at = "retake"] /\ journal' = journal
              /\ disk' = [disk EXCEPT !.beside[f] = Before(journal)[f]]
    BY <1>2, <1>5 DEF Call, Attempt, Same, TypeOK
  <2>2. /\ disk' \in Disk /\ disk'.before = disk.before /\ disk'.live = disk.live
        /\ disk'.active = disk.active /\ disk'.own = disk.own /\ disk'.lock = disk.lock
        /\ disk' = [disk EXCEPT !.beside[f] = Before(journal)[f]] => disk'.beside[f] = Before(journal)[f]
    BY <1>2, <2>1, BesideEdit
  <2> QED BY <1>1, <1>5, <2>1, <2>2, RestoringMoves
<1> QED BY <1>3, <1>4, <1>5 DEF Restore

LEMMA RetakeStep == IInv /\ Retake => IInv'
<1> SUFFICES ASSUME IInv, Retake PROVE IInv'
  OBVIOUS
<1> USE DEF At
<1> DEFINE f == app.i
<1>1. /\ app.at = "retake" /\ app.save = "none" /\ app.at \in Restoring /\ app.at \in Lowers
      /\ "reput" \in Restoring /\ disk.beside[f] = Before(journal)[f]
  BY DEF Retake, Restoring, Lowers, IInv, Written
<1>2. /\ f \in File /\ disk \in Disk /\ TypeOK /\ disk.live \in [File -> Content]
      /\ disk.lock = None => disk.live[f] # Before(journal)[f]
  BY <1>1, RestoringFacts, DiskParts DEF IInv, Lowering
<1>3. CASE Refuse
  BY <1>1, <1>3, RefuseKeeps
<1>4. CASE Call([disk EXCEPT !.live[f] = None], {}, [app EXCEPT !.at = "reput"])
  <2>1. /\ UNCHANGED <<service, tried, lost>> /\ faults' \in Nat
        /\ disk' = disk \/ disk' = [disk EXCEPT !.live[f] = None]
        /\ \/ app' = Stopped /\ journal' = KeptJournal
           \/ app' = [app EXCEPT !.at = "reput"] /\ journal' = journal
    BY <1>2, <1>4 DEF Call, Attempt, Same, TypeOK
  <2>2. /\ disk' \in Disk /\ disk'.before = disk.before /\ disk'.beside = disk.beside
        /\ disk'.live = disk.live \/ disk'.live = [disk.live EXCEPT ![f] = None]
        /\ disk'.active = disk.active /\ disk'.own = disk.own /\ disk'.lock = disk.lock
    BY <1>2, <2>1, LiveRemove
  <2> QED BY <1>1, <1>2, <2>1, <2>2, RestoringMoves
<1> QED BY <1>3, <1>4 DEF Retake

(* What takes the file's name is the old file, whole.                      *)
LEMMA ReputStep == IInv /\ Reput => IInv'
<1> SUFFICES ASSUME IInv, Reput PROVE IInv'
  OBVIOUS
<1> USE DEF At
<1> DEFINE f == app.i
           done == [disk EXCEPT !.live[f] = disk.beside[f], !.beside[f] = None]
<1>1. /\ app.at = "reput" /\ app.save = "none" /\ app.at \in Restoring /\ app.at \in Lowers
      /\ disk.beside[f] = Before(journal)[f]
  BY DEF Reput, Restoring, Lowers, IInv, Written
<1>2. /\ f \in File /\ disk \in Disk /\ TypeOK /\ disk.live \in [File -> Content]
      /\ disk.beside[f] \in Content
  BY <1>1, RestoringFacts, DiskParts
<1>3. /\ UNCHANGED <<service, tried, lost>> /\ faults' \in Nat
      /\ disk' = disk \/ disk' = done
      /\ \/ app' = Stopped /\ journal' = KeptJournal
         \/ app' = Below /\ journal' = journal /\ disk' = done
  BY <1>2 DEF Reput, Call, Attempt, Same, TypeOK
<1>4. /\ disk' \in Disk /\ disk'.before = disk.before
      /\ disk'.live = disk.live \/ disk'.live = [disk.live EXCEPT ![f] = Before(journal)[f]]
      /\ disk'.active = disk.active /\ disk'.own = disk.own /\ disk'.lock = disk.lock
      /\ disk' = done => disk'.live[f] = Before(journal)[f]
  BY <1>1, <1>2, <1>3, LivePut
<1> QED BY <1>1, <1>3, <1>4, RestoringMoves

LEMMA FinishStep == IInv /\ Finish => IInv'
<1> SUFFICES ASSUME IInv, Finish PROVE IInv'
  OBVIOUS
<1> USE DEF At
<1> DEFINE j == [journal EXCEPT !.phase = "rolled_back"]
<1>1. app.at = "descend" /\ app.save = "none" /\ app.at \in Lowers
  BY DEF Finish, Lowers
<1>2. CASE Refuse
  BY <1>1, <1>2, RefuseKeeps
<1>3. CASE disk.live = Before(journal) /\ Publish(j, "unlock")
  <2>1. j \in Entry /\ j.id = journal.id /\ j.phase = "rolled_back"
    BY <1>1, RestoringFacts DEF Entry, Phase
  <2>2. Tells(j, disk.live)
    BY <1>3, <2>1 DEF Tells, Before
  <2>3. "unlock" \in Labels /\ "unlock" \in Undoes
        /\ "unlock" \notin {"install", "intend", "descend"} \cup Putting \cup Restoring \cup Lowers
    BY DEF Labels, Undoes, Putting, Restoring, Lowers
  <2> HIDE DEF j
  <2> QED BY <1>1, <1>3, <2>1, <2>2, <2>3, PublishKeeps, RestoringFacts
<1> QED BY <1>2, <1>3 DEF Finish

-----------------------------------------------------------------------------
(***************************************************************************)
(* The application between two jobs.                                       *)
(***************************************************************************)
(* An install that has failed looks at the journal once more.              *)
LEMMA FailedStep == IInv /\ Failed => IInv'
<1> SUFFICES ASSUME IInv, Failed PROVE IInv'
  OBVIOUS
<1> USE DEF At, Failed, Same
<1>1. /\ app.at = "failed" /\ app.save = "none" /\ TypeOK /\ Places /\ Card /\ disk \in Disk
      /\ app.job = "install" /\ app.status # "awaiting_reopen"
      /\ UNCHANGED <<disk, faults, service, tried, lost>>
  BY Working DEF IInv, Card, TypeOK, Places, Undoes, Restoring
<1>2. CASE Loaded # None /\ journal' = Loaded /\ app' = [app EXCEPT !.job = "undo", !.at = "rollback"]
  <2>1. /\ app'.at = "rollback" /\ app'.save = "none" /\ app'.job = "undo" /\ app'.status = app.status
        /\ app' \in Apps
    BY <1>1, <1>2 DEF TypeOK, Labels, Undoes, Jobs
  <2>2. /\ journal' \in Entry /\ (Locked => journal'.id = disk.lock) /\ journal'.id <= tried
        /\ Loaded' = Loaded
    BY <1>1, <1>2, LoadedIs DEF Card, Begun, Loaded, Terminal
  <2>3. TypeOK'
    BY <1>1, <2>1, <2>2 DEF TypeOK
  <2>4. Card'
    BY <1>1, <2>1, <2>2, CardKept DEF Card, Begun, TmpMayChange
  <2>5. Places' /\ Written' /\ Claiming' /\ Holding' /\ Ending' /\ Lowering'
    BY <1>1, <1>2, <2>1, <2>2 DEF Places, Written, Claiming, Holding, Ending, Lowering, Held, Lowers, Putting, Restoring, Undoes,
                      Alones, Publishes, Owns, Actives
  <2> QED BY <2>3, <2>4, <2>5 DEF IInv, Card
<1>3. CASE /\ UNCHANGED journal
           /\ app' = [app EXCEPT !.job = "ready", !.at = "none", !.status = "recovery_required"]
  <2>1. /\ app'.at = "none" /\ app'.save = "none" /\ app'.job = "ready"
        /\ app' \in Apps
    BY <1>1, <1>3 DEF TypeOK, Labels, Jobs, Statuses
  <2>2. TypeOK'
    BY <1>1, <1>3, <2>1 DEF TypeOK
  <2>3. Card'
    BY <1>1, <1>3, <2>1, CardKept DEF Card, Begun, TmpMayChange
  <2>4. Places' /\ Written' /\ Claiming' /\ Holding' /\ Ending' /\ Lowering'
    BY <2>1 DEF Places, Written, Claiming, Holding, Ending, Lowering, Held, Lowers, Putting, Restoring,
                      Alones, Publishes, Owns, Actives
  <2> QED BY <2>2, <2>3, <2>4 DEF IInv, Card
<1> QED BY <1>2, <1>3

LEMMA CompletedStep == IInv /\ Completed => IInv'
<1> SUFFICES ASSUME IInv, Completed PROVE IInv'
  OBVIOUS
<1> USE DEF At, Completed, counts
<1>1. /\ app.at = "completed" /\ app.save = "none" /\ TypeOK /\ Places /\ Card /\ disk \in Disk
      /\ app.job = "complete" /\ UNCHANGED <<disk, journal, faults, service, tried, lost>>
      /\ journal \in Entry /\ journal.phase = "completed" /\ disk.live = After(journal)
  BY Working DEF IInv, Card, TypeOK, Places, Undoes, Restoring, Installs, Putting, Ending
<1>2. /\ app'.at = "none" /\ app'.save = "none" /\ app'.job = "ready" /\ app'.status = "idle"
      /\ app' \in Apps
  BY <1>1 DEF TypeOK, Labels, Jobs, Statuses
<1>3. TypeOK'
  BY <1>1, <1>2 DEF TypeOK
<1>4. Begun' /\ Sources' /\ Truth' /\ Steps'
  <2>1. Begun'
    BY <1>1, <1>2 DEF Card, Begun, Locked, IsWhole, Whole
  <2>2. Sources' /\ Steps'
    BY <1>1 DEF Card, Sources, Steps, Bare, Staggered, Locked, IsWhole, Whole
  <2>3. Truth'
    BY <1>1 DEF Card, Truth, Locked, Tells, After, Before
  <2> QED BY <2>1, <2>2, <2>3
<1>5. Quiet'
  BY <1>1, <1>2 DEF IInv, Quiet, Ending, Locked, Terminal, Busy, Bare
<1>6. Places' /\ Written' /\ Claiming' /\ Holding' /\ Ending' /\ Lowering'
  BY <1>2 DEF Places, Written, Claiming, Holding, Ending, Lowering, Held, Lowers, Putting, Restoring,
                    Alones, Publishes, Owns, Actives
<1> QED BY <1>3, <1>4, <1>5, <1>6 DEF IInv

(* Nothing of the card's or of a job's part is disturbed while no job is   *)
(* under way, but for what the application takes for an interruption.      *)
LEMMA IdleKeeps ==
  ASSUME IInv, disk' = disk, UNCHANGED <<tried, lost>>, TypeOK', app'.job \in {"closed", "ready"}, app'.at = "none",
         app'.save = "none", Quiet',
         journal' # None => journal'.id <= tried,
         journal' # None /\ Locked => journal'.id = disk.lock,
         Bare /\ journal' # None => journal'.id = lost
  PROVE  IInv'
<1>1. Begun'
  BY DEF IInv, Begun, Locked, IsWhole, Whole
<1>2. Sources' /\ Truth' /\ Steps'
  <2>1. Bare' = Bare
    BY DEF Bare
  <2> QED BY <2>1 DEF IInv, Sources, Truth, Steps, Staggered, Locked, IsWhole, Whole, Tells, After, Before
<1>3. Written' /\ Claiming' /\ Holding' /\ Ending' /\ Lowering'
  BY DEF Written, Claiming, Holding, Ending, Lowering, Held, Lowers, Putting, Restoring
<1>4. Places'
  BY DEF Places, Alones, Publishes, Owns, Actives, Restoring
<1> QED BY <1>1, <1>2, <1>3, <1>4 DEF IInv

(* An application that has started, with its release and what it shows.    *)
LEMMA Opened ==
  ASSUME NEW r \in Content, NEW s \in Statuses,
         app' = [Closed EXCEPT !.job = "ready", !.status = s, !.release = r]
  PROVE  /\ app'.job = "ready" /\ app'.at = "none" /\ app'.save = "none" /\ app'.status = s
         /\ app' \in Apps
<1>1. /\ Closed.at = "none" /\ Closed.save = "none"
      /\ Closed \in Apps
  BY DEF Closed, Labels, Jobs, Content, Release, Statuses
<1>2. "ready" \in Jobs
  BY DEF Jobs
<1> QED BY <1>1, <1>2

(* What the application shows when it starts.                              *)
LEMMA OpenStep == IInv /\ Open => IInv'
<1> SUFFICES ASSUME IInv, Open PROVE IInv'
  OBVIOUS
<1> USE DEF Open, counts
<1>1. /\ TypeOK /\ Places /\ Card /\ disk \in Disk /\ journal' = Loaded
      /\ UNCHANGED <<disk, service, tried, lost, faults>>
  BY DEF IInv, Card, TypeOK
<1>2. IF disk.live[App] # None THEN disk.live[App] \in Content ELSE disk.before[tried][App] \in Content
  <2>1. CASE disk.live[App] # None
    BY <1>1, <2>1, DiskParts, Names
  <2>2. CASE disk.live[App] = None
    <3>1. Locked \/ lost # None
      BY <1>1, <2>2, WholeShows, Names DEF Card, Sources, IsWhole, Bare
    <3>2. tried \in Update
      BY <1>1, <3>1 DEF Card, Begun, Locked, TypeOK, Update
    <3> QED BY <1>1, <2>2, <3>2, DiskParts, Names
  <2> QED BY <2>1, <2>2
<1>3. Shown \in Statuses
  BY DEF Shown, Statuses
<1>4. /\ app'.job = "ready" /\ app'.at = "none" /\ app'.save = "none" /\ app'.status = Shown
      /\ app' \in Apps
  <2> DEFINE r == IF disk.live[App] # None THEN disk.live[App] ELSE disk.before[tried][App]
  <2>1. r \in Content
    BY <1>2
  <2>2. app' = [Closed EXCEPT !.job = "ready", !.status = Shown, !.release = r]
    OBVIOUS
  <2> HIDE DEF r
  <2> QED BY <1>3, <2>1, <2>2, Opened
<1>5. TypeOK'
  BY <1>1, <1>4, LoadedIs DEF Card, TypeOK
<1>6. Quiet'
  <2> SUFFICES ASSUME ~Locked, disk.active # None
               PROVE  /\ Busy(disk.active) => Bare
                      /\ disk.lock = Torn => Terminal(disk.active)
                      /\ Shown # "awaiting_reopen" => Terminal(disk.active) \/ disk.active.id = lost
    BY <1>1, <1>4 DEF Quiet, Locked, Busy, Terminal, Bare
  <2>1. (Busy(disk.active) => Bare) /\ (disk.lock = Torn => Terminal(disk.active))
    BY <1>1 DEF Card, Quiet
  <2>2. disk.active \in Entry /\ disk.lock \in {None, Torn}
    BY <1>1, DiskParts DEF Locked
  <2>3. disk.active.phase = "files_installed" => disk.live = After(disk.active)
    BY <1>1 DEF Card, Truth, Tells
  <2>4. CASE disk.active.phase = "files_installed" /\ disk.lock = None
    BY <2>1, <2>3, <2>4, Names DEF Shown
  <2>5. CASE disk.active.phase # "files_installed" \/ disk.lock = Torn
    BY <2>1, <2>2, <2>5 DEF Busy, Terminal, Bare, Entry, Phase
  <2> QED BY <2>1, <2>2, <2>4, <2>5
<1>7. journal' # None => journal'.id <= tried /\ (Locked => journal'.id = disk.lock) /\ (Bare => journal'.id = lost)
  BY <1>1, LoadedIs, Names DEF Card, Begun, Bare, Locked
<1> QED BY <1>1, <1>4, <1>5, <1>6, <1>7, IdleKeeps

LEMMA CloseStep == IInv /\ Close => IInv'
<1> SUFFICES ASSUME IInv, Close PROVE IInv'
  OBVIOUS
<1> USE DEF Close, counts
<1>1. /\ app'.job = "closed" /\ app'.at = "none" /\ app'.save = "none"
      /\ app' \in Apps
  BY DEF Closed, Labels, Jobs, Content, Release, Statuses
<1>2. TypeOK'
  BY <1>1 DEF IInv, TypeOK
<1>3. Quiet'
  BY <1>1 DEF IInv, Quiet, Locked, Busy, Terminal, Bare
<1> QED BY <1>1, <1>2, <1>3, IdleKeeps

(* An update has an id of its own.                                         *)
LEMMA StartStep == IInv /\ Start => IInv'
<1> SUFFICES ASSUME IInv, Start PROVE IInv'
  OBVIOUS
<1> USE DEF Start
<1>1. /\ app.job = "ready" /\ app.at = "none" /\ app.save = "none" /\ TypeOK /\ Places /\ Card
      /\ disk \in Disk /\ UNCHANGED <<disk, faults, lost>> /\ app.status = "idle" /\ journal' = None
  BY DEF IInv, Card, TypeOK, Places, Publishes, Owns, Actives, Alones
<1>2. tried' = tried + 1 /\ tried' \in Update /\ tried' \in 0 .. Updates
  BY <1>1 DEF TypeOK, Update
<1>3. /\ app'.at = "prepare" /\ app'.save = "none" /\ app'.job = "install" /\ app'.status = "idle"
      /\ app' \in Apps
  BY <1>1 DEF TypeOK, Labels, Installs, Jobs
<1>4. service' \in [at : {"off", "starting", "on"}, release : Release, found : SUBSET Update]
  BY <1>1, <1>2 DEF TypeOK
<1>5. TypeOK'
  BY <1>1, <1>2, <1>3, <1>4 DEF TypeOK
<1>6. Begun'
  <2>1. disk.lock \in Update => disk.lock <= tried'
    BY <1>1, <1>2 DEF Card, Begun, Locked, TypeOK, Update
  <2>2. disk.active # None => disk.active.id < tried'
    BY <1>1, <1>2, DiskParts DEF Card, Begun, TypeOK, Update, Entry
  <2>3. disk.active # None => disk.active.id <= tried'
    BY <1>1, <1>2, DiskParts DEF Card, Begun, TypeOK, Update, Entry
  <2>4. lost' = lost /\ (lost # None => lost <= tried' /\ lost # tried' /\ IsWhole(disk.before[lost]))
    BY <1>1, <1>2 DEF Card, Begun, TypeOK, Update
  <2>5. ~Locked => IsWhole(disk.live)
    <3> SUFFICES ASSUME Bare PROVE IsWhole(disk.live)
      BY <1>1 DEF Card, Sources
    <3>1. disk.live[Service] = app.release /\ disk.live[App] = app.release /\ disk.live[App] \in Release
      BY <1>1, DiskParts, Names DEF TypeOK
    <3>2. CASE Staggered(disk.before[lost], Whole(lost), disk.live)
      <4> DEFINE r == app.release
      <4>1. lost \in Release /\ r \in Release /\ IsWhole(disk.before[lost]) /\ disk.live \in [File -> Content]
        BY <1>1, <3>1, DiskParts, Names DEF Card, Begun, Bare, TypeOK
      <4>2. PICK q \in Release : disk.before[lost] = Whole(q)
        BY <4>1 DEF IsWhole
      <4>3. /\ Service \in File /\ App \in File /\ \A f \in File \ {Service} : Service < f
            /\ \A f \in File \ {App} : f < App
        BY Names DEF Service, App, File
      <4>4. /\ Whole(q)[Service] = q /\ Whole(q)[App] = q /\ Whole(lost)[Service] = lost /\ Whole(lost)[App] = lost
        BY <4>1, <4>2, WholeShows
      <4>5. CASE r # lost
        <5>1. r = q
          BY <3>1, <3>2, <4>1, <4>2, <4>3, <4>4, <4>5, Names DEF Staggered
        <5>2. \A f \in File : disk.live[f] = Whole(q)[f]
          BY <3>1, <3>2, <4>2, <4>3, <4>4, <4>5, <5>1 DEF Staggered
        <5> QED BY <4>1, <4>2, <5>2 DEF IsWhole, Whole
      <4>6. CASE r = lost /\ lost # q
        <5>1. \A f \in File : disk.live[f] = Whole(lost)[f]
          BY <3>1, <3>2, <4>2, <4>3, <4>4, <4>6 DEF Staggered
        <5> QED BY <4>1, <5>1 DEF IsWhole, Whole
      <4>7. CASE lost = q
        <5>1. \A f \in File : disk.live[f] = Whole(q)[f]
          BY <3>2, <4>2, <4>7 DEF Staggered
        <5> QED BY <4>1, <4>2, <5>1 DEF IsWhole, Whole
      <4> QED BY <4>5, <4>6, <4>7
    <3> QED BY <1>1, <3>2 DEF Card, Steps
  <2> QED BY <1>1, <1>2, <1>3, <2>1, <2>2, <2>3, <2>4, <2>5 DEF Card, Begun, Locked, IsWhole, Whole
<1>7. Sources' /\ Truth' /\ Quiet' /\ Steps'
  <2>1. Bare' = Bare
    BY <1>1 DEF Bare
  <2>2. Sources' /\ Truth'
    BY <1>1, <2>1 DEF Card, Sources, Truth, Locked, IsWhole, Whole, Tells, After, Before
  <2>3. Quiet'
    BY <1>1, <1>3, <2>1 DEF Card, Quiet, Locked, Busy, Terminal
  <2>4. Steps'
    BY <1>1, <2>1 DEF Card, Steps, Staggered, IsWhole, Whole
  <2> QED BY <2>2, <2>3, <2>4
<1>8. Places' /\ Written' /\ Claiming' /\ Holding' /\ Ending' /\ Lowering'
  BY <1>3 DEF Places, Written, Claiming, Holding, Ending, Lowering, Held, Lowers, Putting, Restoring, Installs,
                    Alones, Publishes, Owns, Actives
<1> QED BY <1>5, <1>6, <1>7, <1>8 DEF IInv

LEMMA RecoverStep == IInv /\ Recover => IInv'
<1> SUFFICES ASSUME IInv, Recover PROVE IInv'
  OBVIOUS
<1> USE DEF Recover, counts
<1>1. /\ app.job = "ready" /\ app.at = "none" /\ app.save = "none" /\ TypeOK /\ Places /\ Card
      /\ disk \in Disk /\ UNCHANGED <<disk, faults, tried, lost, service>> /\ app.status = "recovery_required"
  BY DEF IInv, Card, TypeOK, Places, Publishes, Owns, Actives, Alones
<1>2. /\ app'.at = "rollback" /\ app'.save = "none" /\ app'.job = "recover" /\ app'.status = app.status
      /\ app' \in Apps
  BY <1>1 DEF TypeOK, Labels, Undoes, Jobs
<1>3. /\ journal' \in Entry /\ (Locked => journal'.id = disk.lock) /\ journal'.id <= tried
      /\ Loaded' = Loaded
  BY <1>1, LoadedIs DEF Card, Begun, Loaded, Terminal
<1>4. TypeOK'
  BY <1>1, <1>2, <1>3 DEF TypeOK
<1>5. Card'
  BY <1>1, <1>2, <1>3, CardKept DEF Card, Begun, TmpMayChange
<1>6. Places' /\ Written' /\ Claiming' /\ Holding' /\ Ending' /\ Lowering'
  BY <1>1, <1>2, <1>3 DEF Places, Written, Claiming, Holding, Ending, Lowering, Held, Lowers, Putting, Restoring, Undoes,
                    Alones, Publishes, Owns, Actives
<1> QED BY <1>4, <1>5, <1>6 DEF IInv, Card

LEMMA CompleteStep == IInv /\ Complete => IInv'
<1> SUFFICES ASSUME IInv, Complete PROVE IInv'
  OBVIOUS
<1> USE DEF Complete, counts
<1>1. /\ app.job = "ready" /\ app.at = "none" /\ app.save = "none" /\ TypeOK /\ Places /\ Card
      /\ disk \in Disk /\ UNCHANGED <<disk, faults, tried, lost, service>>
      /\ journal \in Entry /\ journal # None /\ disk.live = After(journal)
  BY DEF IInv, Card, TypeOK, Places, Publishes, Owns, Actives, Alones
<1>2. /\ app'.at = "completed" /\ app'.save = "own.write" /\ app'.job = "complete"
      /\ app'.status = app.status
      /\ app' \in Apps
  BY <1>1 DEF TypeOK, Labels, Jobs, Publishes, Owns
<1>3. journal' \in Entry /\ journal'.id = journal.id /\ journal'.phase = "completed"
  BY <1>1 DEF Entry, Phase
<1>4. TypeOK'
  BY <1>1, <1>2, <1>3 DEF TypeOK
<1>5. Card'
  BY <1>1, <1>2, <1>3, CardKept DEF Card, Begun, TmpMayChange
<1>6. Places' /\ Written' /\ Claiming' /\ Holding'
  BY <1>1, <1>2, <1>3 DEF Places, Written, Claiming, Holding, Held, Putting, Restoring,
                    Alones, Publishes, Owns, Actives
<1>7. Ending' /\ Lowering'
  BY <1>1, <1>2, <1>3 DEF Ending, Lowering, Lowers, Restoring, After
<1> QED BY <1>4, <1>5, <1>6, <1>7 DEF IInv, Card

-----------------------------------------------------------------------------
(***************************************************************************)
(* The service, and the end of the application.                            *)
(***************************************************************************)
LEMMA ServiceStep ==
  ASSUME IInv, HandOver \/ Reboot \/ ServiceStart
  PROVE  IInv'
<1>1. UNCHANGED <<disk, app, journal, tried, lost, faults>> /\ disk \in Disk /\ TypeOK
  BY DEF HandOver, Reboot, ServiceStart, counts, IInv, TypeOK
<1>2. service' \in [at : {"off", "starting", "on"}, release : Release, found : SUBSET Update]
  <2>1. Off \in [at : {"off", "starting", "on"}, release : Release, found : SUBSET Update]
    BY Names DEF Off
  <2>2. disk.live[Service] # None => disk.live[Service] \in Release
    BY <1>1, DiskParts, Names DEF Content
  <2> QED BY <2>1, <2>2 DEF HandOver, Reboot, ServiceStart, Off
<1>3. TypeOK'
  BY <1>1, <1>2 DEF TypeOK
<1>4. Loaded' = Loaded /\ Locked' = Locked
  BY <1>1 DEF Loaded, Terminal, Locked
<1>5. Places' /\ Begun' /\ Written' /\ Claiming'
  BY <1>1, <1>4 DEF IInv, Places, Begun, Written, Claiming, After, Before, Terminal, IsWhole, Whole
<1>6. Holding' /\ Ending' /\ Lowering'
  BY <1>1, <1>4 DEF IInv, Holding, Ending, Lowering, Staggered, Tells, After, Before, Terminal
<1>7. Sources' /\ Truth' /\ Quiet' /\ Steps'
  BY <1>1, <1>4 DEF IInv, Sources, Truth, Quiet, Steps, Bare, Staggered, IsWhole, Whole, Tells, After, Before, Busy, Terminal
<1> QED BY <1>3, <1>5, <1>6, <1>7 DEF IInv

(* Whatever the call was in which the application ended, it has changed a  *)
(* neighbour, or left a lock that names no update.                         *)
LEMMA StopStep == IInv /\ Stop => IInv'
<1> SUFFICES ASSUME IInv, Stop PROVE IInv'
  OBVIOUS
<1> USE DEF At
<1>1. /\ TypeOK /\ Card /\ disk \in Disk /\ journal' = None /\ app' = Closed /\ UNCHANGED <<tried, lost>>
      /\ faults' \in Nat
  BY DEF Stop, IInv, Card, TypeOK
<1>2. /\ app'.job = "closed" /\ app'.at = "none" /\ app'.save = "none"
      /\ app' \in Apps
  BY <1>1 DEF Closed, Labels, Jobs, Content, Release, Statuses
<1>3. service' \in [at : {"off", "starting", "on"}, release : Release, found : SUBSET Update]
  BY <1>1, Names DEF Stop, Off, TypeOK
<1>4. /\ app.save \in {"own.write", "alone.write"} => journal.id \in Update
      /\ At("copy") => journal.next \in File
      /\ At("restore") => app.i \in File
  BY PuttingFacts, RestoringFacts DEF IInv, Written, Entry, Putting, Restoring, Lowers
<1>5. \/ disk' = disk
      \/ /\ app.save \in {"own.write", "alone.write"}
         /\ \E t \in {None, Torn} : disk' = [disk EXCEPT !.ownTmp[journal.id] = t]
      \/ app.save = "active.write" /\ \E t \in {None, Torn} : disk' = [disk EXCEPT !.activeTmp = t]
      \/ At("claim") /\ disk.lock = None /\ disk' = [disk EXCEPT !.lock = Torn]
      \/ At("copy") /\ disk' = [disk EXCEPT !.beside[journal.next] = Torn]
      \/ At("restore") /\ disk' = [disk EXCEPT !.beside[app.i] = Torn]
  BY DEF Stop, CutShort
<1>6. /\ disk' \in Disk /\ disk'.live = disk.live /\ disk'.before = disk.before
      /\ disk'.active = disk.active /\ disk'.own = disk.own
      /\ disk'.lock = disk.lock \/ (At("claim") /\ disk.lock = None /\ disk'.lock = Torn)
      /\ \/ disk'.activeTmp = disk.activeTmp
         \/ app.save = "active.write" /\ disk'.activeTmp \in {None, Torn} /\ disk'.lock = disk.lock
  <2>1. CASE disk' = disk
    BY <1>1, <2>1
  <2>2. CASE /\ app.save \in {"own.write", "alone.write"}
             /\ \E t \in {None, Torn} : disk' = [disk EXCEPT !.ownTmp[journal.id] = t]
    BY <1>1, <1>4, <2>2, OwnTmpEdit
  <2>3. CASE app.save = "active.write" /\ \E t \in {None, Torn} : disk' = [disk EXCEPT !.activeTmp = t]
    BY <1>1, <2>3, ActiveTmpEdit
  <2>4. CASE At("claim") /\ disk.lock = None /\ disk' = [disk EXCEPT !.lock = Torn]
    BY <1>1, <2>4, LockEdit
  <2>5. CASE At("copy") /\ disk' = [disk EXCEPT !.beside[journal.next] = Torn]
    BY <1>1, <1>4, <2>5, BesideEdit
  <2>6. CASE At("restore") /\ disk' = [disk EXCEPT !.beside[app.i] = Torn]
    BY <1>1, <1>4, <2>6, BesideEdit
  <2> QED BY <1>5, <2>1, <2>2, <2>3, <2>4, <2>5, <2>6
<1>7. Locked' = Locked /\ (Locked => disk'.lock = disk.lock)
  BY <1>6, Names DEF Locked
<1>8. TypeOK'
  BY <1>1, <1>2, <1>3, <1>6 DEF TypeOK
<1>9. Card'
  <2>1. CASE disk'.lock = disk.lock
    <3>1. TmpMayChange
      BY <1>1, <1>6, <2>1, WrittenAside DEF TmpMayChange
    <3> QED BY <1>1, <1>2, <1>6, <2>1, <3>1, CardKept DEF Card, Begun
  <2>2. CASE At("claim") /\ disk.lock = None /\ disk'.lock = Torn /\ disk'.activeTmp = disk.activeTmp
    <3>1. IsWhole(disk.live) /\ (disk.active # None => Terminal(disk.active)) /\ ~Locked /\ ~Locked'
      BY <1>7, <2>2, Names DEF IInv, Claiming, Locked
    <3>2. ~Bare'
      BY <2>2, Names DEF Bare
    <3>3. Begun'
      BY <1>1, <1>2, <1>6, <1>7 DEF Card, Begun, IsWhole, Whole
    <3>4. Sources' /\ Steps' /\ Truth'
      BY <1>1, <1>6, <3>1, <3>2 DEF Card, Sources, Steps, Truth, IsWhole, Whole, Tells, After, Before
    <3>5. Quiet'
      BY <1>2, <1>6, <3>1 DEF Quiet, Busy, Terminal
    <3> QED BY <3>3, <3>4, <3>5 DEF Card
  <2> QED BY <1>6, <2>1, <2>2, Names
<1>13. Places' /\ Written' /\ Claiming' /\ Holding' /\ Ending' /\ Lowering'
  BY <1>2 DEF Places, Written, Claiming, Holding, Ending, Lowering, Held, Lowers, Putting, Restoring,
                    Alones, Publishes, Owns, Actives
<1> QED BY <1>8, <1>9, <1>13 DEF IInv, Card

-----------------------------------------------------------------------------
(***************************************************************************)
(* The theorems.                                                           *)
(***************************************************************************)
LEMMA InitIInv == Init => IInv
<1> SUFFICES ASSUME Init PROVE IInv
  OBVIOUS
<1> USE DEF Init
<1>1. disk.live = Whole(0) /\ Whole(0) \in [File -> Content] /\ 0 \in Release
  BY Names, WholeType DEF Whole
<1>2. disk \in Disk
  BY <1>1 DEF Disk, Content
<1>3. /\ app.job = "closed" /\ app.at = "none" /\ app.save = "none"
      /\ app \in Apps
  BY DEF Closed, Labels, Jobs, Content, Release, Statuses
<1>4. TypeOK
  BY <1>1, <1>2, <1>3 DEF TypeOK
<1>5. ~Locked /\ disk.active = None /\ \A u \in Update : disk.own[u] = None
  BY Names DEF Locked
<1>6. Begun /\ Sources /\ Truth /\ Quiet /\ Steps
  BY <1>1, <1>3, <1>5 DEF Begun, Sources, Truth, Quiet, Steps, Bare, IsWhole
<1>7. Places /\ Written /\ Claiming /\ Holding /\ Ending /\ Lowering
  BY <1>3 DEF Places, Written, Claiming, Holding, Ending, Lowering, Held, Lowers, Putting, Restoring,
                    Alones, Publishes, Owns, Actives
<1> QED BY <1>4, <1>6, <1>7 DEF IInv

LEMMA StutterIInv == IInv /\ UNCHANGED vars => IInv'
<1> SUFFICES ASSUME IInv, UNCHANGED vars PROVE IInv'
  OBVIOUS
<1> USE DEF vars
<1>1. Loaded' = Loaded /\ Locked' = Locked
  BY DEF Loaded, Terminal, Locked
<1>2. TypeOK' /\ Places' /\ Begun'
  BY <1>1 DEF IInv, TypeOK, Places, Begun, IsWhole, Whole
<1>5. Written' /\ Claiming'
  BY <1>1 DEF IInv, Written, Claiming, After, Before, Terminal, IsWhole, Whole
<1>3. Holding' /\ Ending' /\ Lowering'
  BY <1>1 DEF IInv, Holding, Ending, Lowering, Staggered, Tells, After, Before, Terminal
<1>4. Sources' /\ Truth' /\ Quiet' /\ Steps'
  BY <1>1 DEF IInv, Sources, Truth, Quiet, Steps, Bare, Staggered, IsWhole, Whole, Tells, After, Before, Busy, Terminal
<1> QED BY <1>2, <1>3, <1>4, <1>5 DEF IInv

(* Every step preserves the inductive invariant.                           *)
LEMMA NextIInv == IInv /\ [Next]_vars => IInv'
<1> SUFFICES ASSUME IInv, [Next]_vars PROVE IInv'
  OBVIOUS
<1>1. CASE JobStep
  BY <1>1, WriteOwnStep, RemoveOwnStep, RenameOwnStep, WriteActiveStep, RemoveActiveStep, RenameActiveStep,
     PrepareStep, ClaimStep, RecheckStep, InstallStep, IntendStep, CopyStep, TakeStep, PutStep, AdvanceStep,
     RollbackStep, DescendStep, DiscardStep, RestoreStep, RetakeStep, ReputStep, FinishStep, UnlockStep,
     FailedStep, CompletedStep DEF JobStep
<1>2. CASE Open \/ Close \/ Start \/ Recover \/ Complete
  BY <1>2, OpenStep, CloseStep, StartStep, RecoverStep, CompleteStep
<1>3. CASE HandOver \/ Reboot \/ ServiceStart \/ Stop
  BY <1>3, ServiceStep, StopStep
<1>4. CASE UNCHANGED vars
  BY <1>4, StutterIInv
<1> QED BY <1>1, <1>2, <1>3, <1>4 DEF Next

(* The inductive invariant holds in every reachable state.                 *)
LEMMA SpecIInv == Spec => []IInv
<1>1. IInv /\ [Next]_vars => IInv'
  BY NextIInv
<1> QED BY <1>1, InitIInv, PTL DEF Spec

(* Every reachable state is well typed; in particular an installed file is *)
(* never one whose writing was cut short (publish writes the neighbour and *)
(* renames it).                                                            *)
THEOREM TypeCorrect == Spec => []TypeOK
<1>1. IInv => TypeOK
  BY DEF IInv
<1> QED BY <1>1, SpecIInv, PTL

(* While the installed files are of two releases, or one is missing, the   *)
(* service is kept from starting, for a package of any number of files and *)
(* whatever fails or is cut short how often (ptc_update_fs_busy), but      *)
(* while the journal of a rollback that lost its lock is being replaced.   *)
THEOREM NeverMixed == Spec => []MixedIsBlocked
<1>1. IInv => MixedIsBlocked
  <2> SUFFICES ASSUME IInv, Mixed, ~Blocked PROVE Astray
    BY DEF MixedIsBlocked
  <2>1. ~Locked /\ ~IsWhole(disk.live)
    BY Names DEF Mixed, IsWhole, Whole, Blocked, Locked
  <2>2. Bare
    BY <2>1 DEF IInv, Sources
  <2>3. disk.active = None
    BY <2>2 DEF Bare, Blocked, Busy
  <2> QED BY <2>2, <2>3, Names DEF Bare, Astray
<1> QED BY <1>1, SpecIInv, PTL

(* A finished journal tells the truth of the files on the card             *)
(* (ptc_update_install, ptc_update_rollback, ptc_online_update_complete).  *)
THEOREM FinishedIsTrue == Spec => []FinishedIsWhole
<1>1. IInv => FinishedIsWhole
  <2> SUFFICES ASSUME IInv, disk.active # None, disk.lock \in {None, disk.active.id}
               PROVE  Tells(disk.active, disk.live)
    BY DEF FinishedIsWhole, Tells
  <2>1. ~Locked \/ disk.lock = disk.active.id
    BY Names DEF Locked
  <2> QED BY <2>1 DEF IInv, Truth
<1> QED BY <1>1, SpecIInv, PTL

-----------------------------------------------------------------------------
(***************************************************************************)
(* The installer implements ReleaseSwitch.                                 *)
(***************************************************************************)
(* The refinement mapping of UpdateInstall.                                *)
Between == IF Holder = None THEN {ReleaseOf(disk.live)} ELSE {ReleaseOf(disk.before[Holder]), Holder}
Guarded == ~Astray
Running == IF service.at = "on" THEN service.release ELSE None

(* Whole files are of one release only.                                    *)
LEMMA ReleaseOfWhole == ASSUME NEW r \in Release PROVE ReleaseOf(Whole(r)) = r
<1>1. \A q \in Release : Whole(r) = [f \in File |-> Asset(q, f)] => q = r
  BY WholeShows DEF Whole
<1>2. Whole(r) = [f \in File |-> Asset(r, f)]
  BY DEF Whole
<1> QED BY <1>1, <1>2 DEF ReleaseOf

LEMMA MixedIs == Mixed <=> ~IsWhole(disk.live)
BY DEF Mixed, IsWhole, Whole

(* Who replaces the files: the one who has the lock, or the update that    *)
(* lost it.                                                                *)
HolderFacts ==
  /\ Locked => Holder = disk.lock /\ ~Astray
  /\ ~Locked => Holder \in {None, lost}
  /\ ~Locked /\ Holder # None => Bare
  /\ ~Locked /\ Bare /\ disk.active # None => Holder = lost
  /\ Holder = None => IsWhole(disk.live)
  /\ Holder # None => Holder \in Update /\ IsWhole(disk.before[Holder])
  /\ Astray => Holder = lost /\ Bare /\ disk.active = None
  /\ lost \in Update \cup {None}

LEMMA HolderIs == IInv => HolderFacts
<1> SUFFICES ASSUME IInv PROVE HolderFacts
  OBVIOUS
<1> USE DEF HolderFacts
<1>1. disk \in Disk /\ disk.active \in Entry \cup {None} /\ disk.activeTmp \in Entry \cup {None, Torn}
      /\ lost \in Update \cup {None}
  BY DiskParts DEF IInv, TypeOK
<1>2. CASE Locked
  BY <1>1, <1>2, Names DEF IInv, Sources, Holder, Locked, Astray
<1>3. CASE ~Locked
  <2>1. Astray => Bare
    BY <1>1, Names DEF Astray, Bare, Entry
  <2>2. disk.active # None /\ Busy(disk.active) => Bare /\ disk.active.id = lost
    BY <1>3 DEF IInv, Quiet, Bare
  <2>3. Bare /\ disk.active # None => Busy(disk.active)
    BY DEF Bare, Busy
  <2>4. Holder = IF disk.active # None /\ Busy(disk.active) THEN lost ELSE IF Astray THEN lost ELSE None
    BY <1>3, <2>2 DEF Holder, Locked
  <2>5. Bare => lost \in Update /\ IsWhole(disk.before[lost])
    BY <1>1 DEF Bare, IInv, Begun
  <2>6. Holder = None => IsWhole(disk.live)
    <3> SUFFICES ASSUME Holder = None, Bare PROVE IsWhole(disk.live)
      BY <1>3 DEF IInv, Sources
    <3>1. disk.active = None /\ ~Astray
      BY <2>3, <2>4, <2>5, Names
    <3> QED BY <3>1, Names, MixedIs DEF Astray, Bare
  <2>7. Astray => disk.active = None
    BY DEF Astray
  <2> QED BY <1>1, <1>3, <2>1, <2>2, <2>3, <2>4, <2>5, <2>6, <2>7, Names
<1> QED BY <1>2, <1>3

(* Whole files on the way between two releases are of one of them.         *)
LEMMA StaggeredEnds ==
  ASSUME NEW q \in Release, NEW u \in Release, NEW r \in Release,
         NEW files, files = Whole(r), Staggered(Whole(q), Whole(u), files)
  PROVE  r \in {q, u}
<1>1. files[App] = r /\ Whole(q)[App] = q /\ Whole(u)[App] = u /\ r # None /\ App \in File
  BY WholeShows, Names
<1> QED BY <1>1 DEF Staggered

(* The files are between the releases they were between, and guarded as    *)
(* they were, when the lock and what it guards are as they were, and       *)
(* active.json is, with its neighbour where that matters.                  *)
LEMMA BetweenKept ==
  ASSUME IInv, Locked' = Locked, Locked => disk'.lock = disk.lock, disk'.active = disk.active, lost' = lost,
         \A u \in {disk.lock, lost} : u \in Update => disk'.before[u] = disk.before[u],
         \/ disk'.lock = disk.lock /\ disk'.live = disk.live /\ TmpMayChange
         \/ disk'.lock = disk.lock /\ (Locked \/ (disk.active # None /\ Bare))
         \/ ~Locked /\ disk'.live = disk.live /\ IsWhole(disk.live)
  PROVE  Between' = Between /\ Guarded' = Guarded
<1>1. Astray' = Astray
  <2>1. CASE Locked \/ disk.active # None
    BY <2>1, Names DEF Astray, Locked
  <2>2. CASE disk'.live = disk.live /\ IsWhole(disk.live)
    BY <2>2 DEF Astray, Mixed, IsWhole, Whole
  <2>3. CASE disk'.lock = disk.lock /\ disk'.live = disk.live /\ disk'.activeTmp = disk.activeTmp
    BY <2>3 DEF Astray, Mixed
  <2> QED BY <2>1, <2>2, <2>3 DEF TmpMayChange
<1>2. Holder' = Holder
  <2>1. CASE Locked
    BY <2>1 DEF Holder, Locked
  <2>2. CASE ~Locked
    BY <1>1, <2>2 DEF Holder, Locked, Busy
  <2> QED BY <2>1, <2>2
<1>3. CASE Holder # None
  <2>1. disk'.before[Holder] = disk.before[Holder]
    BY <1>3, HolderIs DEF HolderFacts
  <2> QED BY <1>1, <1>2, <1>3, <2>1 DEF Between, Guarded, ReleaseOf
<1>4. CASE Holder = None
  <2>1. disk'.live = disk.live
    BY <1>4, HolderIs, Names DEF HolderFacts, Locked, Bare
  <2> QED BY <1>1, <1>2, <1>4, <2>1 DEF Between, Guarded, ReleaseOf
<1> QED BY <1>3, <1>4

(* The steps of a job that take no lock and give none back.                *)
LEMMA SaveBetween ==
  ASSUME IInv, WriteOwn \/ RemoveOwn \/ RenameOwn \/ WriteActive
  PROVE  Between' = Between /\ Guarded' = Guarded
<1>1. disk \in Disk /\ TypeOK /\ (app.save # "none" => journal \in Entry /\ journal.id \in Update)
  BY DEF IInv, TypeOK, Written, Entry
<1>2. /\ disk'.live = disk.live /\ disk'.before = disk.before /\ disk'.lock = disk.lock
      /\ disk'.active = disk.active /\ lost' = lost /\ TmpMayChange
  <2>1. CASE WriteOwn
    <3>1. disk' = disk \/ \E t \in Entry \cup {None, Torn} : disk' = [disk EXCEPT !.ownTmp[journal.id] = t]
      BY <1>1, <2>1 DEF WriteOwn, Call, Attempt, Refuse
    <3>2. lost' = lost
      BY <2>1 DEF WriteOwn, Call, Refuse, Same
    <3> QED BY <1>1, <2>1, <3>1, <3>2, OwnTmpEdit DEF WriteOwn, TmpMayChange
  <2>2. CASE RemoveOwn
    <3>1. lost' = lost
      BY <2>2 DEF RemoveOwn, Call, Same
    <3> QED BY <1>1, <2>2, <3>1, OwnEdit DEF RemoveOwn, Call, Attempt, TmpMayChange
  <2>3. CASE RenameOwn
    <3>1. disk.ownTmp[journal.id] = journal /\ journal \in Entry
      BY <1>1, <2>3 DEF RenameOwn, IInv, Written
    <3>2. lost' = lost
      BY <2>3 DEF RenameOwn, Call, Same
    <3> QED BY <1>1, <2>3, <3>1, <3>2, OwnRename DEF RenameOwn, Call, Attempt, TmpMayChange
  <2>4. CASE WriteActive
    <3>1. disk' = disk \/ \E t \in {journal, None, Torn} : disk' = [disk EXCEPT !.activeTmp = t]
      BY <1>1, <2>4 DEF WriteActive, Call, Attempt, Refuse
    <3>2. app.save = "active.write" /\ app.save # "none" /\ lost' = lost
      BY <2>4 DEF WriteActive, Call, Refuse, Same
    <3>3. /\ disk'.live = disk.live /\ disk'.before = disk.before /\ disk'.lock = disk.lock
          /\ disk'.active = disk.active /\ disk'.activeTmp \in {disk.activeTmp, journal, None, Torn}
      BY <1>1, <3>1, <3>2, ActiveTmpEdit
    <3> QED BY <3>2, <3>3, WrittenAside
  <2> QED BY <2>1, <2>2, <2>3, <2>4
<1> QED BY <1>2, BetweenKept DEF Locked

(* The journal is replaced: a rollback that lost its lock comes to light,  *)
(* or ends, or is not told of for a while.                                 *)
LEMMA ActiveBetween ==
  ASSUME IInv, IInv', RemoveActive \/ RenameActive
  PROVE  \/ Between' = Between
         \/ \E from \in Release, to \in Release :
              Between = {from} /\ Between' = {from, to} /\ Guarded' = Guarded
         \/ (\E r \in Between : Between' = {r}) /\ Guarded' = TRUE
<1>1. /\ disk \in Disk /\ journal \in Entry /\ journal # None /\ lost' = lost /\ journal.id \in Update
      /\ app.save \in Publishes /\ app.save \in {"active.remove", "active.rename"} /\ disk.activeTmp = journal
  BY Names DEF IInv, TypeOK, Written, RemoveActive, RenameActive, Call, Same, Publishes, Actives, Entry
<1>2. /\ disk' = disk \/ disk'.active = IF app.save = "active.rename" THEN journal ELSE None
      /\ disk'.live = disk.live /\ disk'.before = disk.before /\ disk'.lock = disk.lock
  BY <1>1, ActiveEdit, ActiveRename DEF RemoveActive, RenameActive, Call, Attempt
<1>3. CASE Holder' = Holder
  BY <1>2, <1>3 DEF Between, ReleaseOf
<1>4. CASE Holder' # Holder
  <2> USE DEF HolderFacts
  <2>0. HolderFacts /\ HolderFacts'
    <3>1. HolderFacts'
      BY HolderIs, PTL
    <3> QED BY <3>1, HolderIs
  <2>1. ~Locked /\ ~Locked' /\ disk' # disk /\ {Holder, Holder'} = {None, lost} /\ lost \in Update /\ lost # None
    <3>1. Locked' = Locked
      BY <1>2 DEF Locked
    <3>2. ~Locked
      BY <1>2, <1>4, <3>1, <2>0
    <3>3. disk' # disk
      BY <1>1, <1>4 DEF Holder, Astray, Mixed, Busy
    <3> QED BY <1>1, <1>4, <3>1, <3>2, <3>3, <2>0, Names
  <2>2. IsWhole(disk.live)
    BY <1>2, <2>0, <2>1 DEF IsWhole, Whole
  <2>3. ~Astray /\ ~Astray'
    BY <1>2, <2>2 DEF Astray, Mixed, IsWhole, Whole
  <2>4. Bare \/ Bare'
    BY <1>4, <2>0, <2>1
  <2>5. disk.lock = None /\ IsWhole(disk.before[lost])
    BY <1>1, <1>2, <2>1, <2>4 DEF Bare, IInv, Begun
  <2>6. PICK q \in Release, r \in Release : disk.before[lost] = Whole(q) /\ disk.live = Whole(r)
    BY <2>2, <2>5 DEF IsWhole
  <2>7. ReleaseOf(disk.before[lost]) = q /\ ReleaseOf(disk.live) = r /\ lost \in Release
    BY <2>1, <2>6, ReleaseOfWhole, Names
  <2>8. r \in {q, lost}
    <3>1. app.at \in {"install", "intend", "copy", "advance", "unlock", "descend", "discard", "completed"}
      BY <1>1 DEF IInv, Places
    <3>2. CASE app.at \in {"install", "intend", "copy", "advance", "descend", "discard"}
      <4>1. app.at \in Lowers /\ journal.id = lost
        BY <1>1, <2>5, <3>2, Names DEF IInv, Holding, Held, Putting, Restoring, Lowers
      <4>2. Staggered(Whole(q), Whole(lost), disk.live)
        BY <1>1, <2>5, <2>6, <4>1, AfterIsWhole DEF IInv, Lowering, Before
      <4> QED BY <2>6, <2>7, <4>2, StaggeredEnds
    <3>3. CASE app.at = "unlock"
      <4>1. journal.id = lost /\ disk.live \in {Before(journal), After(journal)}
        BY <1>1, <2>5, <3>3, Names DEF IInv, Ending, Tells
      <4>2. Whole(r) \in {Whole(q), Whole(lost)}
        BY <1>1, <2>6, <4>1, AfterIsWhole DEF Before
      <4> QED BY <2>7, <4>2, WholeShows
    <3>4. CASE app.at = "completed"
      <4>1. journal.phase = "completed" /\ disk.live = After(journal)
        BY <3>4 DEF IInv, Ending
      <4>2. ~Bare'
        <5>1. disk'.active = None => disk'.activeTmp = journal
          BY <1>1, <2>1, ActiveEdit, ActiveRename DEF RemoveActive, RenameActive, Call, Attempt
        <5> QED BY <1>2, <2>1, <4>1, <5>1 DEF Bare
      <4>3. journal.id = lost
        BY <1>1, <2>4, <4>1, <4>2 DEF IInv, Steps
      <4>4. Whole(r) = Whole(lost)
        BY <1>1, <2>6, <4>1, <4>3, AfterIsWhole
      <4> QED BY <2>7, <4>4, WholeShows
    <3> QED BY <3>1, <3>2, <3>3, <3>4
  <2>9. CASE Holder = None /\ Holder' = lost
    <3>1. Between = {r} /\ Between' = {q, lost}
      BY <1>2, <2>1, <2>7, <2>9 DEF Between, ReleaseOf
    <3>2. CASE r = q
      BY <2>3, <2>7, <3>1, <3>2 DEF Guarded
    <3>3. CASE r = lost
      <4>1. {q, lost} = {lost, q}
        OBVIOUS
      <4> QED BY <2>3, <2>7, <3>1, <3>3, <4>1 DEF Guarded
    <3> QED BY <2>8, <3>2, <3>3
  <2>10. CASE Holder = lost /\ Holder' = None
    <3>1. Between = {q, lost} /\ Between' = {r}
      BY <1>2, <2>1, <2>7, <2>10 DEF Between, ReleaseOf
    <3> QED BY <2>3, <2>8, <3>1 DEF Guarded
  <2> QED BY <1>4, <2>1, <2>9, <2>10
<1> QED BY <1>3, <1>4

(* While files are replaced the lock is held, or active.json stays.        *)
LEMMA HeldBetween ==
  ASSUME IInv, \/ Install \/ Intend \/ Copy \/ Take \/ Put \/ Advance
               \/ Descend \/ Discard \/ Restore \/ Retake \/ Reput \/ Finish
  PROVE  Between' = Between /\ Guarded' = Guarded
<1> USE DEF At
<1>1. disk \in Disk /\ TypeOK
  BY DEF IInv, TypeOK
<1>2. app.at \in Held /\ app.save = "none"
  BY DEF Install, Intend, Copy, Take, Put, Advance, Descend, Discard, Restore, Retake, Reput, Finish,
         Held, Putting, Restoring
<1>3. Locked \/ (disk.active # None /\ Bare)
  <2>1. journal \in Entry /\ disk.active = journal /\ journal # None
    BY <1>2, Names DEF IInv, Holding
  <2>2. CASE disk.lock = journal.id
    BY <2>1, <2>2 DEF Locked, Entry
  <2>3. CASE disk.lock = None /\ lost = journal.id /\ app.at \in Lowers
    BY <1>2, <2>1, <2>3, Names DEF IInv, Holding, Lowers, Bare, Entry
  <2> QED BY <1>2, <2>2, <2>3 DEF IInv, Holding
<1>4. disk'.lock = disk.lock /\ disk'.before = disk.before /\ disk'.active = disk.active /\ lost' = lost
  <2>1. CASE Install \/ Intend \/ Advance \/ Descend \/ Finish
    BY <2>1 DEF Install, Intend, Advance, Descend, Finish, Publish, Save, Refuse, Same
  <2>2. CASE Copy \/ Take \/ Put
    <3>1. app.at \in Putting
      BY <2>2 DEF Copy, Take, Put, Putting
    <3>2. /\ journal.next \in File /\ After(journal)[journal.next] \in Content
          /\ Put => disk.beside[journal.next] \in Content
          /\ lost' = lost
      BY <2>2, <3>1, PuttingFacts DEF Put, IInv, Written, Copy, Take, Call, Refuse, Same
    <3>3. CASE Copy
      <4>1. \E c \in Content \cup {Torn} : disk' = disk \/ disk' = [disk EXCEPT !.beside[journal.next] = c]
        BY <3>2, <3>3 DEF Copy, Call, Attempt, Refuse
      <4> QED BY <1>1, <3>2, <4>1, BesideEdit
    <3>4. CASE Take
      BY <1>1, <3>2, <3>4, LiveRemove DEF Take, Call, Attempt, Refuse
    <3>5. CASE Put
      BY <1>1, <3>2, <3>5, LivePut DEF Put, Call, Attempt
    <3> QED BY <2>2, <3>3, <3>4, <3>5
  <2>3. CASE Discard \/ Restore \/ Retake \/ Reput
    <3>1. app.at \in Restoring /\ app.at \in Lowers
      BY <2>3 DEF Discard, Restore, Retake, Reput, Restoring, Lowers
    <3>2. /\ app.i \in File /\ Before(journal)[app.i] \in Content /\ None \in Content
          /\ Reput => disk.beside[app.i] \in Content
      BY <3>1, RestoringFacts DEF Reput, IInv, Written, Content
    <3>7. lost' = lost
      BY <2>3 DEF Discard, Restore, Retake, Reput, Call, Refuse, Same
    <3>3. CASE Discard
      BY <1>1, <3>2, <3>3, <3>7, BesideEdit DEF Discard, Call, Attempt, Refuse
    <3>4. CASE Restore
      <4>1. \E c \in Content \cup {Torn} : \/ disk' = disk \/ disk' = [disk EXCEPT !.beside[app.i] = c]
                                          \/ disk' = [disk EXCEPT !.live[app.i] = None]
        BY <3>2, <3>4 DEF Restore, Call, Attempt
      <4> QED BY <1>1, <3>2, <3>7, <4>1, BesideEdit, LiveRemove
    <3>5. CASE Retake
      BY <1>1, <3>2, <3>5, <3>7, LiveRemove DEF Retake, Call, Attempt, Refuse
    <3>6. CASE Reput
      BY <1>1, <3>2, <3>6, <3>7, LivePut DEF Reput, Call, Attempt
    <3> QED BY <2>3, <3>3, <3>4, <3>5, <3>6
  <2> QED BY <2>1, <2>2, <2>3
<1>5. Locked' = Locked
  BY <1>4 DEF Locked
<1>6. \A u \in {disk.lock, lost} : u \in Update => disk'.before[u] = disk.before[u]
  BY <1>4
<1>7. disk'.lock = disk.lock /\ (Locked \/ (disk.active # None /\ Bare))
  BY <1>3, <1>4
<1> QED BY <1>4, <1>5, <1>6, <1>7, BetweenKept

(* The lock is taken: the files are on their way to another release.       *)
LEMMA ClaimBetween ==
  ASSUME IInv, Claim
  PROVE  /\ Guarded' = Guarded
         /\ \/ Between' = Between
            \/ \E from \in Release, to \in Release : Between = {from} /\ Between' = {from, to}
<1> USE DEF At
<1>1. /\ TypeOK /\ disk \in Disk /\ journal \in Entry /\ journal.id \in Update /\ lost' = lost
      /\ journal.id = tried /\ disk.before[tried] = disk.live /\ disk.lock = None /\ IsWhole(disk.live)
      /\ disk.active # None => Terminal(disk.active)
  BY DEF IInv, Claim, TypeOK, Claiming, Entry, Call, Refuse, Same
<1>2. ~Locked
  BY <1>1, Names DEF Locked
<1>3. disk' = disk \/ disk' = [disk EXCEPT !.lock = journal.id] \/ disk' = [disk EXCEPT !.lock = Torn]
  BY DEF Claim, Call, Attempt, Refuse
<1>4. CASE disk' = disk \/ disk' = [disk EXCEPT !.lock = Torn]
  <2>1. /\ disk'.live = disk.live /\ disk'.lock \in {None, Torn} /\ disk'.before = disk.before
        /\ disk'.active = disk.active
    BY <1>1, <1>4, LockEdit
  <2> QED BY <1>1, <1>2, <2>1, Names, BetweenKept DEF Locked
<1>5. CASE disk' = [disk EXCEPT !.lock = journal.id]
  <2>1. disk'.live = disk.live /\ disk'.before = disk.before /\ disk'.lock = journal.id
    BY <1>1, <1>5, LockEdit
  <2>2. PICK r \in Release : disk.live = Whole(r)
    BY <1>1 DEF IsWhole
  <2>3. ReleaseOf(disk.live) = r
    BY <2>2, ReleaseOfWhole
  <2>4. Holder = None
    <3>1. ~Astray
      BY <1>1 DEF Astray, Mixed, IsWhole, Whole
    <3>2. ~(disk.active # None /\ Busy(disk.active))
      BY <1>1 DEF Terminal, Busy
    <3> QED BY <1>2, <3>1, <3>2 DEF Holder, Locked
  <2>5. Holder' = journal.id /\ journal.id # None
    BY <1>1, <2>1, Names DEF Holder
  <2>6. Between = {r} /\ Between' = {r, journal.id}
    BY <1>1, <2>1, <2>3, <2>4, <2>5 DEF Between, ReleaseOf
  <2>7. ~Astray /\ ~Astray'
    BY <1>1, <2>1 DEF Astray, Mixed, IsWhole, Whole
  <2> QED BY <1>1, <2>6, <2>7, Names DEF Guarded
<1> QED BY <1>3, <1>4, <1>5

(* The lock is given back: the files are of one of the two releases, and   *)
(* the update that lost it is not yet being undone.                        *)
LEMMA ReturnBetween ==
  ASSUME IInv, Recheck \/ Unlock
  PROVE  \/ Between' = Between /\ Guarded' = Guarded
         \/ (\E r \in Between : Between' = {r}) /\ Guarded' = TRUE
<1> USE DEF At
<1>1. TypeOK /\ disk \in Disk /\ journal \in Entry /\ journal # None /\ journal.id \in Update
  BY Names DEF IInv, TypeOK, Recheck, Unlock, Claiming, Ending, Entry
<1>2. disk' = disk \/ disk' = [disk EXCEPT !.lock = None]
  BY <1>1 DEF Recheck, Unlock, Refuse, Publish, Save, Call, Attempt
<1>3. CASE disk' = disk
  <2>1. lost' = lost \/ Locked
    BY <1>1, <1>3 DEF Recheck, Unlock, Publish, Save, Call, Attempt, Refuse, Same, Locked
  <2>2. CASE Locked
    <3>1. Holder = disk.lock /\ Holder' = disk.lock /\ ~Astray /\ ~Astray'
      BY <1>3, <2>2, Names DEF Holder, Astray, Locked
    <3> QED BY <1>3, <3>1 DEF Between, Guarded, ReleaseOf
  <2>3. CASE lost' = lost
    BY <1>3, <2>3, BetweenKept DEF Locked, TmpMayChange
  <2> QED BY <2>1, <2>2, <2>3
<1>4. CASE ~Locked /\ disk' = [disk EXCEPT !.lock = None]
  <2>1. disk' = disk
    <3>1. disk.lock = None
      BY <1>1, <1>4, Names DEF Recheck, Unlock, IInv, Claiming, Ending, Locked
    <3> QED BY <1>1, <1>4, <3>1 DEF Disk
  <2> QED BY <1>3, <2>1
<1>5. CASE Locked /\ disk' = [disk EXCEPT !.lock = None]
  <2>1. disk'.live = disk.live /\ disk'.before = disk.before /\ disk'.lock = None /\ disk'.active = disk.active
    BY <1>1, <1>5, LockEdit
  <2>2. disk.lock = journal.id
    BY <1>1, <1>5, Names DEF IInv, Begun
  <2>3. /\ disk.live = disk.before[disk.lock] \/ disk.live = Whole(disk.lock)
        /\ disk.active # None => disk.active = journal \/ Terminal(disk.active)
        /\ journal.phase \notin {"installing", "rolling_back"}
        /\ disk.active = journal => ~Busy(journal)
    <3>1. CASE Recheck
      BY <1>1, <2>2, <3>1 DEF Recheck, IInv, Claiming, Terminal, Busy
    <3>2. CASE Unlock
      <4>1. /\ Tells(journal, disk.live) /\ journal.phase \in {"files_installed", "rolled_back"}
            /\ disk.active # None => disk.active = journal \/ Terminal(disk.active)
        BY <3>2 DEF Unlock, IInv, Ending
      <4> QED BY <1>1, <2>2, <4>1, AfterIsWhole DEF Tells, Before, Busy
    <3> QED BY <3>1, <3>2
  <2>4. IsWhole(disk.before[disk.lock]) /\ disk.lock \in Release
    BY <1>1, <1>5, <2>2, Names DEF IInv, Sources
  <2>5. PICK q \in Release : disk.before[disk.lock] = Whole(q)
    BY <2>4 DEF IsWhole
  <2>6. Between = {q, disk.lock}
    BY <1>5, <2>5, ReleaseOfWhole, Names DEF Between, Holder, Locked
  <2>7. Holder' = None /\ ~Astray'
    <3>1. ~Astray'
      BY <2>1, <2>3, <2>4, <2>5 DEF Astray, Mixed, Whole
    <3>2. ~(disk.active # None /\ Busy(disk.active))
      BY <2>3 DEF Terminal, Busy
    <3> QED BY <2>1, <3>1, <3>2, Names DEF Holder, Busy
  <2>8. Between' = {ReleaseOf(disk.live)}
    BY <2>1, <2>7 DEF Between, ReleaseOf
  <2>9. ReleaseOf(disk.live) \in {q, disk.lock}
    BY <2>3, <2>4, <2>5, ReleaseOfWhole
  <2> QED BY <2>6, <2>7, <2>8, <2>9 DEF Guarded
<1> QED BY <1>2, <1>3, <1>4, <1>5

(* What leaves the card as it is, or ends in the middle of a call.         *)
LEMMA OtherBetween ==
  ASSUME IInv, \/ Prepare \/ Rollback \/ Failed \/ Completed \/ Open \/ Close \/ Start \/ Recover
               \/ Complete \/ HandOver \/ Reboot \/ ServiceStart \/ Stop
  PROVE  Between' = Between /\ Guarded' = Guarded
<1> USE DEF At
<1>1. disk \in Disk /\ TypeOK /\ lost' = lost
  BY DEF IInv, TypeOK, Prepare, Rollback, Failed, Completed, Open, Close, Start, Recover, Complete, HandOver,
         Reboot, ServiceStart, Stop, Refuse, Same, counts
<1>2. CASE disk' = disk
  BY <1>1, <1>2, BetweenKept DEF Locked, TmpMayChange
<1>3. CASE Prepare /\ disk' # disk
  <2>1. disk.lock = None /\ tried \in Update /\ disk' = [disk EXCEPT !.before[tried] = disk.live] /\ lost # tried
    BY <1>3 DEF Prepare, Refuse, IInv, Begun
  <2>2. /\ disk'.live = disk.live /\ disk'.lock = None /\ disk'.active = disk.active
        /\ disk'.activeTmp = disk.activeTmp
        /\ \A v \in Update \ {tried} : disk'.before[v] = disk.before[v]
    BY <1>1, <2>1, BeforeEdit
  <2> QED BY <1>1, <2>1, <2>2, Names, BetweenKept DEF Locked, TmpMayChange
<1>4. CASE Stop
  <2>1. /\ app.save \in {"own.write", "alone.write"} => journal.id \in Update
        /\ At("copy") => journal.next \in File
        /\ At("restore") => app.i \in File
    BY PuttingFacts, RestoringFacts DEF IInv, Written, Entry, Putting, Restoring, Lowers
  <2>2. \/ disk' = disk
        \/ /\ app.save \in {"own.write", "alone.write"}
           /\ \E t \in {None, Torn} : disk' = [disk EXCEPT !.ownTmp[journal.id] = t]
        \/ app.save = "active.write" /\ \E t \in {None, Torn} : disk' = [disk EXCEPT !.activeTmp = t]
        \/ At("claim") /\ disk.lock = None /\ disk' = [disk EXCEPT !.lock = Torn]
        \/ At("copy") /\ disk' = [disk EXCEPT !.beside[journal.next] = Torn]
        \/ At("restore") /\ disk' = [disk EXCEPT !.beside[app.i] = Torn]
    BY <1>4 DEF Stop, CutShort
  <2>3. /\ disk'.live = disk.live /\ disk'.before = disk.before /\ disk'.active = disk.active
        /\ \/ disk'.lock = disk.lock /\ TmpMayChange
           \/ At("claim") /\ disk.lock = None /\ disk'.lock = Torn
    <3>1. CASE /\ app.save \in {"own.write", "alone.write"}
               /\ \E t \in {None, Torn} : disk' = [disk EXCEPT !.ownTmp[journal.id] = t]
      BY <1>1, <2>1, <3>1, OwnTmpEdit DEF TmpMayChange
    <3>2. CASE app.save = "active.write" /\ \E t \in {None, Torn} : disk' = [disk EXCEPT !.activeTmp = t]
      <4>1. /\ disk'.live = disk.live /\ disk'.before = disk.before /\ disk'.active = disk.active
            /\ disk'.lock = disk.lock /\ disk'.activeTmp \in {None, Torn}
        BY <1>1, <3>2, ActiveTmpEdit
      <4> QED BY <1>1, <3>2, <4>1, WrittenAside
    <3>3. CASE At("claim") /\ disk.lock = None /\ disk' = [disk EXCEPT !.lock = Torn]
      BY <1>1, <3>3, LockEdit
    <3>4. CASE At("copy") /\ disk' = [disk EXCEPT !.beside[journal.next] = Torn]
      BY <1>1, <2>1, <3>4, BesideEdit DEF TmpMayChange
    <3>5. CASE At("restore") /\ disk' = [disk EXCEPT !.beside[app.i] = Torn]
      BY <1>1, <2>1, <3>5, BesideEdit DEF TmpMayChange
    <3>6. CASE disk' = disk
      BY <3>6 DEF TmpMayChange
    <3> QED BY <2>2, <3>1, <3>2, <3>3, <3>4, <3>5, <3>6
  <2>4. CASE disk'.lock = disk.lock /\ TmpMayChange
    BY <1>1, <2>3, <2>4, BetweenKept DEF Locked
  <2>5. CASE At("claim") /\ disk.lock = None /\ disk'.lock = Torn
    <3>1. IsWhole(disk.live) /\ ~Locked /\ ~Locked'
      BY <2>5, Names DEF IInv, Claiming, Locked
    <3>2. \A u \in {disk.lock, lost} : u \in Update => disk'.before[u] = disk.before[u]
      BY <2>3
    <3>3. (Locked' = Locked) /\ (Locked => disk'.lock = disk.lock)
      BY <3>1 DEF Locked
    <3> QED BY <1>1, <2>3, <3>1, <3>2, <3>3, BetweenKept
  <2> QED BY <2>3, <2>4, <2>5
<1> QED BY <1>2, <1>3, <1>4 DEF Rollback, Refuse, Failed, Completed, Open, Close, Start, Recover, Complete,
                                HandOver, Reboot, ServiceStart

(* What a step does to the card, the guard and the service.                *)
CardStep ==
  \/ Between' = Between /\ Guarded' = Guarded /\ Running' \in {Running, None}
  \/ /\ \E from \in Release, to \in Release : Between = {from} /\ Between' = {from, to}
     /\ Guarded' = Guarded /\ Running' = Running
  \/ (\E r \in Between : Between' = {r}) /\ Guarded' = TRUE /\ Running' = Running
  \/ Between' = Between /\ Guarded' = ~Guarded /\ Running' = Running
  \/ /\ Running = None /\ Between' = Between /\ Guarded' = Guarded
     /\ \E r \in Between : (Guarded => Between = {r}) /\ Running' = r

LEMMA ServiceStartStep ==
  ASSUME IInv, ServiceStart
  PROVE  CardStep
<1>1. Between' = Between /\ Guarded' = Guarded
  BY OtherBetween
<1>2. Running = None
  BY DEF ServiceStart, Running
<1>3. CASE Blocked \/ disk.live[Service] = None
  <2>1. Running' = None
    BY <1>3 DEF ServiceStart, Running, Off
  <2> QED BY <1>1, <2>1 DEF CardStep
<1>4. CASE ~Blocked /\ disk.live[Service] # None
  <2>0. Running' = disk.live[Service]
    BY <1>4 DEF ServiceStart, Running
  <2>1. ~Locked
    BY <1>4, Names DEF Blocked, Locked
  <2>2. HolderFacts
    BY HolderIs
  <2>3. CASE Holder = None
    <3>1. PICK r \in Release : disk.live = Whole(r)
      BY <2>2, <2>3 DEF HolderFacts, IsWhole
    <3>2. disk.live[Service] = r /\ Between = {r}
      <4>1. disk.live[Service] \in {r, r}
        BY <1>4, <3>1, WholeShows
      <4> QED BY <2>3, <3>1, <4>1, ReleaseOfWhole DEF Between
    <3> QED BY <1>1, <1>2, <2>0, <3>2 DEF CardStep
  <2>4. CASE Holder # None
    <3>1. Holder = lost /\ Bare /\ lost \in Update /\ IsWhole(disk.before[lost]) /\ lost \in Release
      BY <2>1, <2>2, <2>4, Names DEF HolderFacts
    <3>2. disk.active = None /\ Astray
      <4>1. ~(disk.active # None /\ Busy(disk.active))
        BY <1>4 DEF Blocked
      <4>2. Astray
        BY <2>1, <2>4, <4>1 DEF Holder, Locked
      <4> QED BY <4>2 DEF Astray
    <3>3. Staggered(disk.before[lost], Whole(lost), disk.live)
      BY <3>1, <3>2, MixedIs DEF IInv, Steps, Astray
    <3>4. PICK q \in Release : disk.before[lost] = Whole(q)
      BY <3>1 DEF IsWhole
    <3>5. Between = {q, lost}
      BY <2>4, <3>1, <3>4, ReleaseOfWhole DEF Between
    <3>6. disk.live[Service] \in {q, lost}
      BY <1>4, <3>1, <3>3, <3>4, WholeShows, Names DEF Staggered, Whole
    <3>7. ~Guarded
      BY <3>2 DEF Guarded
    <3> QED BY <1>1, <1>2, <2>0, <3>5, <3>6, <3>7 DEF CardStep
  <2> QED BY <2>3, <2>4
<1> QED BY <1>3, <1>4

LEMMA StepsCard ==
  ASSUME IInv, IInv', [Next]_vars
  PROVE  CardStep
<1>0. Guarded \in BOOLEAN /\ Guarded' \in BOOLEAN
  BY DEF Guarded
<1>1. CASE JobStep
  <2>1. Running' = Running
    <3>1. service' = service
      BY <1>1 DEF JobStep, WriteOwn, RemoveOwn, RenameOwn, WriteActive, RemoveActive, RenameActive,
           Prepare, Claim, Recheck, Install, Intend, Copy, Take, Put, Advance, Rollback, Descend, Discard,
           Restore, Retake, Reput, Finish, Unlock, Failed, Completed, Call, Refuse, Publish, Save, Same
    <3> QED BY <3>1 DEF Running
  <2>2. CASE Claim
    BY <2>1, <2>2, ClaimBetween DEF CardStep
  <2>3. CASE RemoveActive \/ RenameActive
    <3>1. Guarded' = Guarded \/ Guarded' = ~Guarded
      BY <1>0
    <3> QED BY <2>1, <2>3, <3>1, ActiveBetween DEF CardStep
  <2>4. CASE Recheck \/ Unlock
    BY <2>1, <2>4, ReturnBetween DEF CardStep
  <2>5. CASE ~(Claim \/ RemoveActive \/ RenameActive \/ Recheck \/ Unlock)
    <3>1. Between' = Between /\ Guarded' = Guarded
      BY <1>1, <2>5, SaveBetween, HeldBetween, OtherBetween DEF JobStep
    <3> QED BY <2>1, <3>1 DEF CardStep
  <2> QED BY <2>2, <2>3, <2>4, <2>5
<1>2. CASE Open \/ Close \/ Start \/ Recover \/ Complete
  <2>1. Running' = Running
    BY <1>2 DEF Open, Close, Start, Recover, Complete, Running, IInv, TypeOK
  <2>2. Between' = Between /\ Guarded' = Guarded
    BY <1>2, OtherBetween
  <2> QED BY <2>1, <2>2 DEF CardStep
<1>3. CASE HandOver \/ Reboot \/ Stop
  <2>1. Running' = None \/ Running' = Running
    BY <1>3 DEF HandOver, Reboot, Stop, Running, Off
  <2>2. Between' = Between /\ Guarded' = Guarded
    BY <1>3, OtherBetween
  <2> QED BY <2>1, <2>2 DEF CardStep
<1>4. CASE ServiceStart
  BY <1>4, ServiceStartStep
<1>5. CASE UNCHANGED vars
  <2>1. Between' = Between /\ Guarded' = Guarded /\ Running' = Running
    BY <1>5 DEF vars, Between, Guarded, Running, ReleaseOf, Holder, Astray, Mixed, Busy
  <2> QED BY <2>1 DEF CardStep
<1> QED BY <1>1, <1>2, <1>3, <1>4, <1>5 DEF Next

(* Every step of the installer is a step of ReleaseSwitch, or none.        *)
LEMMA SwitchStep ==
  ASSUME IInv, IInv', [Next]_vars
  PROVE  [Switch!Next]_<<Between, Guarded, Running>>
<1>1. CardStep
  BY StepsCard
<1> QED BY <1>1 DEF CardStep, Switch!Next, Switch!Begin, Switch!End, Switch!Slip, Switch!Start, Switch!Leave,
                    Switch!Whole, Between, Guarded, Running

LEMMA SwitchInit == Init => Switch!Init
<1> SUFFICES ASSUME Init PROVE Switch!Init
  OBVIOUS
<1>1. /\ disk.live = Whole(0) /\ disk.lock = None /\ disk.active = None /\ disk.activeTmp = None
      /\ service.at = "on" /\ service.release = 0
  BY DEF Init, Whole
<1>2. ReleaseOf(disk.live) = 0 /\ 0 \in Release
  BY <1>1, ReleaseOfWhole, Names
<1>3. ~Astray /\ Holder = None
  BY <1>1, Names DEF Astray, Holder
<1> QED BY <1>1, <1>2, <1>3, Names DEF Switch!Init, Switch!Whole

(* The files go from one whole release to one of two, and the service      *)
(* starts only from whole ones, unless the rollback of an update that lost *)
(* its lock has gone astray: the installer implements ReleaseSwitch.       *)
THEOREM ImplementsSwitch == Spec => SwitchesReleases
<1>1. IInv /\ IInv' /\ [Next]_vars => [Switch!Next]_<<Between, Guarded, Running>>
  BY SwitchStep
<1> QED BY <1>1, SwitchInit, SpecIInv, PTL DEF Spec, SwitchesReleases, Switch!Spec, Between, Guarded, Running

=============================================================================
