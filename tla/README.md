# PlayWise: a TLA+ verification of the background service

PlayWise limits play time on a console. A background service (a *sysmodule*)
keeps the rules, the day's state and the system's parental-control settings
(PCTL) in agreement. An application (the *NRO*) and an overlay ask it for
changes by request files or over IPC, on a memory card that can lose power at
any moment. This project models the parts of it that a test can hardly reach:
what is on the card after any interruption, what two threads and several
client processes see of each other, and how reasons for a restriction come and go
over one another.

| Module | What it is |
|---|---|
| `Transaction` | the write path: inbox, recovery journal, enforcement tick, start-up recovery |
| `GrantBook` | the abstract specification of granted time, implemented by `Transaction` |
| `Delivery` | clients, IPC thread and main loop; the route of a request and of its answer; the quiet hand-off |
| `Handover` | the launcher and the services: the hand-off step by step, its journal, its time limits, power loss |
| `Setup` | the take-over of the console's own parental control, its release, its undoing, and the way back |
| `Restrictions` | bedtime, rests of the eyes and the television policy over one setting; their snapshots; the tick and the requests that lift them |
| `DockUsage` | how the play away from the television is counted |
| `UpdateInstall` | the installer of an online update: files, journals, lock, rollback, recovery |
| `Redemption` | a redemption as the child sees it: the application and the overlay, the note they share, what is told after an interruption |
| `ReleaseSwitch` | the abstract specification of an installation, implemented by `UpdateInstall` |
| `MCTransaction`, `MCDelivery`, `MCSetup`, `MCRestrictions` | instances for TLC (the others are configured directly) |
| `TransactionProofs` | theorems about `Transaction`, checked by TLAPS: types and journals, the book of grants, the answers |
| `DeliveryProofs`, `HandoverProofs`, `SetupProofs`, `RestrictionsProofs`, `DockUsageProofs`, `UpdateInstallProofs`, `RedemptionProofs` | theorems about the module each is named for |

Paths below are relative to `src/`.

## 1. Inventory

### 1.1 Transactional write path (`sysmodule/sysmodule_storage.c`, `_requests.c`, `_request_grants.c`, `_control.c`, `_core.c`, `_dock.c`, `_results.c`, `platform/switch/fs_storage.c`)

*State.* `rules.json`, `state.json`, the replay ledger, the redemption history,
PCTL; `results/<id>.json`; `inbox/{pending,processing,done}`; one journal
`recovery/active/` (the preimages of all items, and `meta.json` with the
owner's id, written last); `flags/disable.flag`.

*Operations.* Every request that changes something runs
`recovery_begin` ... its writes ... `write_result` ... `recovery_clear`, or
`finish_with_error`, which rolls back. The enforcement tick uses the same
journal under the name `enforce`; when the settings read back are not the ones
it wrote it leaves the journal open for up to 30 s. At start-up a journal that
is found is rolled back and the service is disabled.

*Hard.* Seven writes of an offline code are one transaction; `write_text_atomic`
removes the old file before it renames the new one into place; every call can
fail, the rollback and the clearing too; the tick and the requests meet over one
journal.

*Correct when.* Grants are whole; a code is spent once and the buffer claimed
once a day; an answer tells what happened; nobody touches a journal that is not
his; no confirmation waits for ever; PCTL reaches the composed target.

### 1.2 Replay ledger and redemption history (`sysmodule_history.c`)

The ledger of nonces is appended to and, at the beginning of each transaction,
compacted to today's; the redemption history is a list of records. Both are part
of a transaction. *Correct when* both hold exactly the codes that were granted.
Activity history, the day's summaries and their 30 days of retention are beside
the transaction's core.

### 1.3 Setup life cycle (`sysmodule_setup.c`, `sysmodule_request_recovery.c`)

*State.* `setup.json` (phase, grace period, today's captured allowance, the restore that is
offered), `install_pctl_snapshot.json`, `disable.flag` with its reason, the two flags
for a repair by hand, `compatibility.json`.

*Operations.* Complete, retry and restore as requests; the bootstrap of each boot; the
scheduler's tick; a release preflight; the take-over, direct or by a release and a grace day.

*Hard:* each of these is several writes of the card and of PCTL; a start-up in the
middle must be able to go on; a transaction of the boot before is undone after it. *Correct
when* the original settings are on the card before the first of them is changed and stay there, a
release that failed is undone, today's allowance is left alone, and a parent who
confirms what is offered gets a console under control.

### 1.4 IPC server (`ipc_server.c`)

*State.* 16 waiters (request id, completion event, signalled), a cache of
results, `accepting`, the wake event, one storage mutex. *Operations.*
`SUBMIT`, `GET_RESULT`, and `ptc_ipc_server_signal_completed`, called by the main loop.
*Hard:* a call has two sections under the mutex, and the wake-up is outside both;
waiters are found by request id, which two clients may share.
*Correct when* no client waits for an event that nobody will fire, and none gets
another's answer.

### 1.5 Client transport (`companion/transport_client.c`, `switch_ipc_client.c`, `file_protocol.c`)

A request goes over IPC, or as a file when there is no connection; the answer
comes by event and `GET_RESULT`, or by polling the card. An accepted request must
not be sent again. *Hard:* the card is read without the mutex; a call may be lost
after it was carried out.

### 1.6 Main loop and hand-off (`sysmodule/source/main.c`)

Tick, hand-off, signal, sleep. A program that loads a new version writes
`handover/intent.json`; the service goes quiet and writes `ready.json`; when the
boot flag disappears it exits; after 120 ticks it gives up waiting.
*Correct when* a service that has said it is quiet is quiet, and one always runs.

### 1.7 Hot-reload launcher (`companion/nro/hot_reload.c`, `hot_reload_guard.c`)

The other side of the hand-off.

*State.* The controller in the application's memory (phase, journal, attempts,
whether the flag was taken); on the card `reload.json` and its temporary file,
the boot flag or its backup, `intent.json`, and the service's `ready.json` and
`runtime-ready.json`.

*Operations.* Start-up recovery, inspection, `begin`, a tick per frame, the
confirmation that IPC is closed (which takes the flag away), `exit`.

*Hard:* two processes that see each other through files and a process list only;
four time limits; a journal that is replaced in three calls, each of which may
fail or be the last before the power goes; a failure path that has to know
whether the source can still serve. *Correct when* there are never two
services, the flag always comes back, and a service that left is replaced.

### 1.8 Restrictions (`sysmodule_core.c`, `sysmodule_dock.c`, `sysmodule_request_recovery.c`, `common/rules/rules.c`) and PCTL (`platform/switch/pctl_adapter.c`)

*State.* Per reason, whether it is in force (`state.json`) and the PCTL settings it found
(three snapshot files); skips and waivers; the target last written; one pending target. For the
counting: a counter that is re-based, the day, the mode last seen, and the adapter's
reading, which is used for five seconds.

*Operations.* The tick samples, begins and ends reasons, hands snapshots over and
writes the composed target; requests skip, disable or restore bedtime, end a
rest, waive the television policy, each through the same composition.

*Hard:* one setting for three reasons, which begin and end in any order, in the same
tick too; about ten writes in a tick; a target that does not show at once; usage
charged from differences over restarts, sleep, new days and policy changes.
*Correct when* PCTL ends as the reasons say, lifting one reason never opens
the console under another, a snapshot is never of another reason's settings, a
refused request has changed nothing, and no usage is lost or given back.

### 1.9 Online update (`common/update`, `platform/update_fs.c`, `companion/update_install.c`, `companion/nro/online_update.c`)

*State.* Thirteen installed files, each with a temporary neighbour and a copy in the
backup of the update; a journal for each update and the published one, each with its temporary
file; `install.lock`.

*Operations.* Prepare, install, complete, roll back, recover; the service's
check at start (`ptc_update_fs_busy`).

*Hard:* the application replaces the files from which the service runs and itself is run, one
by one; a journal is replaced by a removal and a renaming; it can be interrupted at each
call, while it recovers too. *Correct when* nobody starts from a mixed release and
each interrupted update can be ended.

### 1.10 Redemption in the programs (`companion/nro/nro_result_poll.c`, `nro_redemption.c`, `companion/overlay`, `companion/input_owner.c`)

*State.* `pending-redemption.json`, the note of a confirmed code; in each of the two programs the request
it waits for, its copy of the note, whether it polls for that one, the result page; who has
the input.

*Operations.* Note, send, mark; poll, give up, poll for the noted one; close the result page, which
clears the note; restore at the start of the application and at the overlay's first
frame in each run of the service; show and hide the overlay.

*Hard:* three steps of a submission, any of which may be the last; a call that outlives its caller;
two programs and one note, of which neither looks whose it is.
*Correct when* a child who is told that nothing was sent can enter the code again, and an outcome is
shown whatever was closed in between.

### 1.11 The others

Offline codes (`common/token`): format, check bits, a cooldown after failed
codes. PIN policy (`common/security/credential_policy.c`): failures and
cooldowns. Configuration backup and calendars. Request and result schemas: parsing. User
interfaces: rendering and pages. Device lab: diagnostics of test builds.

### 1.12 Interactions

```
 NRO / overlay --IPC--> IPC thread --inbox/pending--> main loop --journal--> rules, state, ledger, PCTL
        \------file----------------/                    |   |
        <--event, GET_RESULT-- IPC thread <--signal-----/   \--results/, inbox/done/
 launcher --intent.json, boot flag--> main loop --ready.json--> launcher
```

`Handover` is the last line, with the source's `handoff_tick` step by step;
`Delivery` has the same hand-off from the side of the clients, with the launcher as an
environment that asks, commits or gives up at any time. The two meet in the letters
(`intent`, `ready`) and the flag, and in `quiesce_ticks`.

`Delivery` is the upper half and takes what a request does for one step that
writes an answer or not; `Transaction` is the lower half and takes an inbox
without IPC. They share the inbox's directories and `results/`. `Redemption` stands on
top of both: there a request has reached the inbox or not and has a result or not.

`Setup` and `Restrictions` share `recovery/active` and `disable.flag` with `Transaction` and
each other's phases: `Restrictions` is a console in phase `active`, `Setup` how it gets there, and
in it the composed target is one value. `UpdateInstall` meets `Handover` where a finished
installation is handed over to the new release, and the service where it starts.

## 2. How the modules correspond to the code

### 2.1 `Transaction`

| Variable | In the code |
|---|---|
| `inbox`, `result` | the directory of `<id>.json` under `inbox/`; the status in `results/<id>.json` |
| `store` | the live contents of PCTL, rules, state, ledger and redemption history |
| `owner`, `saved`, `have` | `meta.json.request_id`; the preimages written; those still there |
| `disabled`, `undocked` | `disable.flag`; what the dock policy reads of the console |
| `pc`, `actor`, `at`, `next`, `cont`, `undoOk` | where the one worker is, for whom, what it has decided to write, what follows the rollback under way, `recovery_rollback`'s `ok` |

The content of an item is a *set of facts*: the effects `<<r, n>>` of the n-th
execution of a request, and marks such as a blocked target or a pending
confirmation. That is what the properties tell apart; minutes, dates and JSON are
left out. The empty set is a file that is not there, which is what an
interrupted rewrite leaves; rules and state that are missing read as the
defaults (`Loaded`). An append either reached the card or did not. PCTL may be
left written in part.

The actions are the code's steps in its order. `Boot` ... `Requeue` is start-up;
`Take`, `Gate`, `Sample`, `Admit` a request up to its decision; `Begin`,
`Compact`, `Open` are `recovery_begin`; `BodyWrite`, `BodyObserve`, `BodyResult`
run the writes listed in `Body`, whose order per kind of request is the code's;
`Undo*`, `Clear*`, `Flag` are `recovery_rollback`, `recovery_clear` and
`write_disable_flag`; `Fail`, `Report`, `Retire` end a request; `Tick`,
`TickConfirm`, `TickTimeout` are the entries of the enforcement tick, which from
`sample` on shares the steps of a request. Every step that calls storage or PCTL
has a disjunct in which the call fails, with what that leaves behind (`Torn`).
`Crash` may come before any step or in the middle of its write (`Cut`).

Four kinds of request stand for the code's: a parent's grant (`add`), an offline
code, the daily buffer and a dock waiver. They differ in order, in when the
answer is written and in whether they may resolve a foreign journal. Requests
that come over IPC are executed by the same function from the same inbox.

`harmed` is history: the ways in which the protocol has been defeated. `"file"`:
a file was lost while no journal was open; `"undo"`: a rollback left something
unrestored; `"join"`: a journal was joined again over files that have lost
something since it was opened (`Drifted`); `"clear"`: a committed transaction kept its journal; `"answer"`: a
code that is rolled back could not remove the success answer it had written (`Withdraw`), which nobody looks at
(`sysmodule_request_grants.c:399`, `:424`, `:438`). The properties
about grants say which of these they exclude, and no more. `BufferOncePerDay` (section 3) shows
why the first must be excluded, and the proof of `WholeGrants` why the third (section 4).

### 2.2 `Delivery`

| Variable | In the code |
|---|---|
| `place`, `body`, `answered` | a request's directory, its text, `results/<id>.json` |
| `main`, `todo`, `serving`, `wake` | the main loop's position, `list_json`'s batch, the file being executed, `wake_event` |
| `waiter`, `signaled`, `fired`, `cache` | `waiters[]`, named by the client it was created for; `.signaled`; fired events; `result_cache` |
| `accepting`, `quiescing`, `quiet` | the fields of those names, and `quiesce_ticks` |
| `intent`, `ready`, `flag` | `intent.json`, `ready.json` with its boot id, `boot2.flag` |
| `lapsed` | history: the hand-off whose time ran out and whose two files could not be removed, until the service is quiet again |
| `call` | what the IPC thread does between the sections of one call |
| `client`, `sent`, `token` | what a client does, its request, the event it was given |

A section between `mutexLock` and `mutexUnlock` is one step. The main loop holds
the mutex for the whole tick, but its steps are taken one by one, since clients
read the card without the mutex; the IPC thread waits meanwhile (`Locked`).
The first tick of a boot runs before the IPC server starts (`up`).
`HandleSubmit` and `HandleFetch` are the first sections; `Wake` is the
`eventFire` after the unlock; `Cleanup` and `Release` are the second sections;
`Reply` hands over to the client. `Drop`, `Poll`, `Doubt` are the file route, with
its two reads as two steps. `Restart` stops the service anywhere, loses calls
and events, and recovers `processing/`.

### 2.3 `Handover`

| Variable | In the code |
|---|---|
| `boot` | which of `boot2.flag` and its backup is there |
| `journal`, `temp` | `reload.json`, `reload.json.tmp`; a record, none, or torn |
| `intent`, `draft`, `ready`, `runtime` | `intent.json` and its temporary file, `ready.json`, `runtime-ready.json` |
| `stage`, `seen`, `quiet` | where each service process is in `main` and `handoff_tick`; the transaction it has read; `quiesce_ticks` |
| `phase`, `mem`, `disabled`, `absent`, `attempts` | `PtcHotReloadController`: `.phase`, `.journal`, `.boot_disabled`, `.absent_samples`, `.launch_attempts` |
| `pc`, `task`, `ok` | the routine the launcher is in, the call it is in for, and the local results (`restored`, `ok`) |

The launcher's routines are nested: a tick restores the flag, which writes a journal,
which replaces a file. `pc` is the innermost step, and `task` the outermost caller
(`begin`, `recover`, `tick`, `ready`, `fail`, `exit`), which decides what follows:
`Written`, `WriteFailed`, `Restored`, `RestoreFailed`, `Finished` are the code
after the calls, one disjunct per caller. `rest` is between two frames, `off` is an
application that is closed. Every call that changes the card is one step and is
lasting when made; a call and the commit after it are one step, whose failure
may come before or after the change (`Durably`). The power may go between any
two steps, and in the middle of the writing of a temporary file.

Abstracted: a process has its own number for ever, so that the boot ids, which
guard against a number used again, are not needed; the service with number 1 is of the
earlier release and all others of the installed one; the checks of `inspect` and `begin`
are one step with the first write (they change nothing); the verification of the
installed files, and errors of pm:shell, are failing calls; a time limit may
pass whenever what it waits for has not been seen. `Kill` is an application that
is ended by the system, `Exit` one that is closed.

`overtaken` is history: a recovery looked at the process list while the source
was on its way out.

### 2.4 `Setup`

| Variable | In the code |
|---|---|
| `card` | `setup.json`, the snapshot of the installation, `today_override` of `rules.json`, `disable.flag` by its reason, the journal, the two repair flags, whether `compatibility.json` is of this release |
| `pctl` | a slot for each weekday: no limit, free, a limit, one that cannot be read, the plan's |
| `job` | the function that runs, how far it is, its local copy of `setup.json`, its base and original settings |
| `power`, `weekday` | whether the service runs and `startup_recovery_checked`; a week of two days |

A request, the bootstrap of a boot or a tick is a job; each of its writes is a step, which may fail, and
before each of which the power may go. `Complete`, `Retry`, `Restore` are the requests;
`Preflight` ... `WriteFlag` the take-over with its direct branch (`Direct`, `Adopt`) and
its branch by release (`TakeSnapshot`, `Lift`, `SaveReleased`, `Undo`, `SaveGrace`);
`GiveBack` ... `Clear` the restore; `Bootstrap` and `Enforcement` the entries from the scheduler;
`Old` ... `ClearOld` the activation that an older release left. The parent may change
PCTL outside the service, put `disable.flag` or a repair flag on the card, or copy another
release over it.

A file is replaced by a removal and a renaming (`Replace`): a failing call, or a power cut, may keep the old file
or leave none (`Lose`). Without `setup.json` the card reads as that of a new installation, without
`rules.json` nothing of today's allowance is kept, without `compatibility.json` the environment has not been accepted,
and a `disable.flag` that is replaced may be gone. A preflight that fails after it has captured today's allowance hands what
it captured to the save of the refusal (`Preflight`, `Refuse`).

Abstracted: requests do not run over midnight, the parent changes PCTL between jobs,
the resets of the reasons in a restore are part of its step, a slot blocked by a reason is a
limit, and the drift of the remaining minutes during a hand-over is a failing call.

`ghost` is history: whether PCTL has been written, touched by the parent, undone after a
restore, whether the flag on the card was written after the phase `failed` was (`told`), and what a direct take-over and a
release found.

### 2.5 `Restrictions`

| Variable | In the code |
|---|---|
| `disk` | `state.json` (`st`), `rules.bedtime.enabled` (`on`), the snapshots of bedtime, of the eyes and of the dock |
| `pctl` | the setting of each day of the time line, open or blocked |
| `journal`, `flag` | `recovery/active` with its owner and preimages, and whether it is complete (`whole`); `disable.flag` |
| `job` | `ptc_sysmodule_enforce_request` or a request, its `runtime_state`, the state it found, `eye_enter`, `eye_exit`, `bedtime_snapshot_transferred` |
| `clock`, `away` | the period of a time line that `Day` and `Window` describe; `dock_policy_blocks` but for its waiver |

The steps of a tick are those of `ptc_sysmodule_enforce_request`, top to bottom: `Settle`,
`Confirm`; `Sample`, `Eye`, `Dock`, `KeepDock`, `HandOver`; `Exit` with `Lift` ... `CloseLift`
(`restore_bedtime_base`, which requests call too); `Compose` with the fast path; `KeepBed`,
`Start`, `Apply`, `Drop`, `Record`, `Forget`, `Close`. A request that tightens, or waives,
enters the same steps at `Sample` under its own journal and looks afterwards what came of it
(`Check`). `Undo`, `UndoWrite`, `Revert`, `TakeBack`, `Refuse`, `Boot` are the places of
`recovery_rollback`; the label a job goes on to says which failure branch it is in. At a boot the
rollback is followed by `disable.flag`, as in the code.

Every write of a file may fail and keep the old one, or lose it (`Lose`): a missing `state.json` is read as `Calm`, missing
rules have no bedtime. The removals of snapshots (`Remove`), `recovery_clear` (`Cleared`) and
`write_disable_flag` (`Stop`) may fail unnoticed; a journal of which a part is removed can be neither
rolled back nor cleared by anyone but its owner.

`of` in a snapshot is history: the reasons that held today blocked when it was taken. So is `harmed`: `"lost"`, the state or
the rules were lost outside a transaction; `"flag"`, the service stopped and left no flag; `"clear"`, a
transaction ended and its journal stayed.

Abstracted: clock and mode stand still during a job; the day's allowance is one setting;
the two files of the bedtime snapshot are one write; the 30 s of a confirmation are a
choice; a rest lasts one period and begins when the usage says so, which is any time that
the code allows one. A file that is there can be read.

### 2.6 `DockUsage`

| Variable | In the code |
|---|---|
| `state` | the `dock_*` fields of `PtcRuntimeState` with its counter |
| `adapter` | the adapter's reading, its age, and the highest total of the day |
| `spent`, `mode`, `clock` | PCTL's total of the day; the mode of the console; thirds of a day |
| `sampled`, `looked` | `dock_boot_sampled`; whether a tick has seen the mode since it changed |
| `journal` | of `recovery/active`, what its rollback puts back of this; whether it was to be removed and is still there (`left`) |

`Tick`, `SetPolicy` and `Waive` sample and may open a transaction; `Unsaved` is a sample whose save is
broken off, in a tick or in a grant that asks `dock_blocks_grants`, which keeps `state.json` or loses it; `Grant` has
PCTL asked anew. `Rebase` is the sample that a transaction takes when PCTL shows its target
(`dock_rebaseline`), `Confirm` and `Rollback` how a transaction ends, `Break` a save inside one that
is broken off. `StepKind` and `Delta` are `ptc_usage_counter_step`, `Counted`
and its parts `dock_sample_direct`. `Play`, `Move`, `Rest`, `PutBack`, `Stop`, `Start` are what happens
to the console. A state left by an older release is an initial state.

Abstracted: no play goes on over midnight; of a transaction only what it does to the count. `ghost` is the handheld play of the day, and the part of it a sample could know.

### 2.7 `UpdateInstall`

| Variable | In the code |
|---|---|
| `disk` | the installed files, their `.playwise-update.tmp`, the backup of each update, `<id>/journal.json` and `active.json` with their `.online-tmp`, `install.lock` |
| `app`, `journal` | the worker's job, position and file, the status shown; `u->journal` |
| `service` | off, starting or on, of which release, and the updates whose recorded boot is this one |

One action is one change of the card with its commit. `WriteOwn` ... `RenameActive` are
`save_journal` over `write_text`; the labels of an install follow `ptc_update_prepare` and
`ptc_update_install`, those of an undo `ptc_update_rollback` with `publish`. `Call` is a call that succeeds, or
fails before or after it changed the card, or leaves a file cut short. That goes for the unlocking too: an install whose lock
is removed and whose commit then fails is undone without a lock, and `lost` (history) names it. `Stop` ends the application
at any point, `Reboot` the console.

An update begins with a verified package and its archived configuration. Not modelled: the download, the
verification, the request for the backup, the deletion of old backups, and programs other than
this one that write the same files.

### 2.8 `Redemption`

| Variable | In the code |
|---|---|
| `note` | `pending-redemption.json`: `request_id`, `submitted` |
| `place`, `result`, `calls` | the request's file in `inbox/`, its result, its IPC call while it is not answered |
| `step` | `confirm_operation` to `submit_offline_code`, `begin_preview_request` to `ptc_overlay_bridge_submit` |
| `req`, `wait`, `mine`, `recovering`, `page` | `active_request_id`, `waiting`, `pending_redemption`, `recovering_redemption` or `recovery_active_`, the result page with the request it is about |
| `visible`, `fresh` | `s_owner_visible` with the lease on the input; `ui_boot` is not the service's boot |

The two programs run the same actions, with their differences inside: the application keeps its own copy of the
note, the overlay reads it back; a refused code is a message in the one and a page in the
other; the application polls while the overlay has the input, a hidden overlay does
nothing. `Clear` and `Write` take the request on whose behalf they are done only for `fate`; the code does not.

Abstracted: the estimate and its second check, which decide whether a code is sent at all; the
lease on the input, which is taken to work (`visible`); results that cannot be read; ids that nobody
reads any more are forgotten. The service answers, or leaves a request without a result.

## 3. Runs

A configuration with `CHECK_DEADLOCK FALSE` is one in which the system may
stop: bounded requests, crashes and faults run out, and a client that has its
answer asks no more.

| Run | Instance | Shows |
|---|---|---|
| `TxCodes` | two requests with the same offline code; 1 crash, 2 faults, 1 dock change; 2.8 million states | `WholeGrants`, `OwnJournalOnly`, `FailedIsUnconsumed`, `BootResolvesJournal`, and that `Transaction` implements `GrantBook` |
| `TxGrants` | a grant, a buffer claim and a waiver; 1 crash, 1 fault, 1 dock change; 4.7 million | `OkIsGranted`, `DisabledGrantsNothing` |
| `TxLiveness` | a waiver; 1 crash, 1 fault, 2 dock changes; 195 thousand | `InboxDrains`, `ConfirmationEnds` |
| `DvFaults` | two clients, any ids and texts, two waiters; 1 fault, 1 restart, 1 hand-off; 673 thousand | `NoMissedSignal`, `AnswerIsMine`, `UnpersistedIsTrue`, `TokenLive`, `QuietWhenReady` |
| `DvLiveness` | two clients, unique ids, one waiter; 1 fault, 1 hand-off; 110 thousand | `EveryCallEnds` |
| `HoHandover` | two hand-offs; 2 faults, 1 power loss, killed or closed application; 84 thousand | `OneService`, `DisabledIsRecoverable`, `Settled`, `LeavingIsRecorded`; `HandoffEnds`, `FlagReturns`, `ServiceReturns` |
| `SeTakeover` | two weekdays, two kinds of original settings; 2 faults or power cuts, lost files included, 1 change by hand; 856 thousand | `OriginalIsKept`, `RestoredIsOriginal`, `FailedReleaseIsUndone`, `TodayIsKept` |
| `SeLiveness` | one original setting; 1 fault or power cut, lost files included, 1 change by hand; 70 thousand | `TakesOver` |
| `ReReasons` | six periods over two nights; 2 faults or power cuts, lost files included, 2 of: requests, rests, changes of the mode; 1.7 million | `SnapshotsSound`, `NeverReopens`, `RefusedChangesNothing`, `TargetEnforced` |
| `DuUsage` | three days, 2 s of play a day, an allowance of 2 s; 1 fault, 2 of: transaction, mode, policy, waiver, restart, clock; 2.2 million | `CountsAll`, `NothingRefunded` |
| `UpFaults` | two updates of 4 files, one of them new; 2 failed calls, kills or power cuts, torn writes; 67 thousand | `MixedIsBlocked`, `FinishedIsWhole`, `RecoveryEndsOrRefused`, and that `UpdateInstall` implements `ReleaseSwitch` |
| `RdNote` | two codes, confirmed in either program; 2 of: failed calls, programs that end in a submission, restarts of the service; 526 thousand | `DenialIsTrue`, `OutcomeKept`, `OutcomeShown` |

What the properties say:

- `WholeGrants`: after whatever start-up will restore, a grant is in the rules and
  in the day's summary or in neither, and the ledger and the redemption history
  hold exactly the codes among them.
- `GrantsAreBooked`: the refinement of `GrantBook`. No grant is ever struck out
  again; a code is entered once and the buffer once.
- `OwnJournalOnly`: a body runs under its own journal, and a request rolls back
  or clears its own only (a parent's waiver excepted, which resolves any).
- `FailedIsUnconsumed`, `OkIsGranted`: answers are true, within the limits each
  states. The claims at the end of this section are what is outside those limits.
- `BootResolvesJournal`: start-up ends with no journal, or disabled.
- `DisabledGrantsNothing`: with `disable.flag` there, no step adds a grant.
- `InboxDrains`, `ConfirmationEnds`: the worker gets everything done.
- `NoMissedSignal`: the loop never sleeps on an answered request whose waiter
  it has not signalled, wherever the submission fell into the tick.
- `TokenLive`: the waiter that holds a client's event stays until it is fired,
  as long as no storage call failed.
- `AnswerIsMine`: a client waits for, and gets, the answer to its own text.
- `UnpersistedIsTrue`: "result not persisted" is said only when there is none.
- `QuietWhenReady`: after `ready.json`, no request is taken up or accepted, but for `lapsed` below.
- `EveryCallEnds`: without the client's own time limit.
- `OneService`: never two service processes, for any order of the time limits on
  both sides.
- `DisabledIsRecoverable`: with the flag put aside, `read_journal` accepts what is
  on the card, in the middle of a replacement too.
- `Settled`: a launcher that is idle or reports success has left nothing behind.
- `LeavingIsRecorded`: a source on its way out is one the journal speaks of.
- `HandoffEnds`, `FlagReturns`, `ServiceReturns`: a hand-off, the absence of
  the flag and, where the journal tells of it, the absence of a service come to an end.

- `OriginalIsKept`: before the service writes PCTL for the first time, settings of the parent
  are in the snapshot, and what is in it is never replaced.
- `RestoredIsOriginal`: after a restore PCTL is the snapshot until the parent changes it.
- `FailedReleaseIsUndone`: a release that failed leaves what it, or the installation, found.
- `TodayIsKept`: a direct take-over does not change today's allowance, before and after an Enforce, as long as
  `rules.json`, which holds it, is not lost.
- `TakesOver`: a parent who confirms gets control, again and again, or the dead end below.
- `SnapshotsSound`: between two jobs each reason in force has its snapshot, bedtime's is of its own
  window, a pending target has its journal, and no snapshot is of blocked settings, whatever was interrupted
  between the snapshots, the journal and the state, as long as nothing is `harmed`. The documents ask for this test
  (`docs/调研/专题分析/PCTL1952功能影响分析.md`: a power cut that leaves new material with an old state).
- `NeverReopens`: a step that opens today's setting finds no reason but the one that it lifts; "removing
  bedtime must not transiently reopen another restriction" is the comment at the place.
- `RefusedChangesNothing`: after an error answer `state.json` is as before the request, as long as nothing is `harmed`.
- `TargetEnforced`: in the end PCTL is blocked if and only if a reason stands, unless the service is disabled, a reason
  in force has no snapshot (`Bare`), or the journal of a request is left (`LeftOver`).
- `CountsAll`: a count that is called known holds all handheld play a sample could know of, but for
  the seconds in which one reading is used again.
- `NothingRefunded`: the count never decreases within a date and no date comes a second time, neither the count in
  force nor the one that a rollback would put back, but for a save that is broken off (`FileLost`).
- `MixedIsBlocked`: a service that starts on a mixed release is refused, but for `Astray` below.
- `FinishedIsWhole`: completed means all new files, rolled back all old ones.
- `SwitchesReleases`: the refinement of `ReleaseSwitch`, in which a service starts from a whole release as long as the
  card is guarded; it is guarded unless `Astray`.
- `RecoveryEndsOrRefused`: an interrupted update ends, unless the card is one that the installer
  refuses (`Obstructed`).
- `DenialIsTrue`: what a child was told has not been sent is neither in the inbox nor on its way, and
  never will be, unless it was on its way when the other program looked (`hasty`).
- `OutcomeKept`: a request that reached the service keeps its note until its outcome was shown, except
  `robbed` and `torn` below.
- `OutcomeShown`: with the same exceptions, what the service answered is shown in the end.

The hand-over's last properties hold with limits that a reader should know, each read off the code:

- When the recovery finds the source still running it finishes the journal. A source
  that has seen the flag gone then leaves without a record, and no service
  runs until the next power-up or start by hand (`overtaken`).
- A `ready.json` that the source writes after the launcher has cleared both files stays.
  Every later inspection then says that recovery is required, and there is none.
- A power loss in the very first write of a journal leaves an incomplete temporary file
  alone, which `read_journal` refuses each time; the flag was not touched.
- An `intent.json.tmp` left by a killed application makes every `begin` fail.

The last three keep the old version running and refuse to load the new one; a
power-up loads it.

So do the others:

- *Hand-off.* When the time limit of a hand-off passes, the service removes its two files and does not look whether that
  failed (`main.c:196-200`). If both stay it has resumed under its own acknowledgement until the next tick, which finds
  the intent again and makes it quiet again (`lapsed`).
- *Answers.* A code that is rolled back removes the success answer it has written, and does not look whether that failed. If the
  answer of the failure cannot be written either, the child is told that the code was redeemed (`"answer"` in `harmed`).
- *Setup.* A `setup.json` that is lost between its removal and its renaming is that of a new installation: the parent has to
  complete the setup again, and before a first take-over under the emergency stop that is the dead end, too. A transaction that the boot before left open is undone at the next start-up even when
  the settings of the installation have been given back in between (`RestoreIsFinal`, which makes no
  exception for it, is violated). `DeadEnd` is the emergency stop before the first take-over: no
  request of the application leads out of it. In phase pending with `disable.flag` the
  completion that the interface offers is refused for ever and only a retry helps. After a
  direct take-over that failed, the offer to restore is not recorded. Nobody looks at the result of `write_disable_flag`
  (`sysmodule_setup.c:395-402`, `:554`): with four failed calls, a release whose undoing failed too leaves
  the flag `setup_release_failed` of an earlier release whose undoing succeeded, and today's
  restriction is neither that of before nor the original. `FailedReleaseIsUndone` therefore speaks of a flag of this failure (`told`).
- *Restrictions.* Two windows of bedtime are two liftings: a console that sleeps from one into the next, or windows that
  touch, open for a moment at the hand-over (the document above, item P1, suspects it; `NeverReopens` counts
  them as two). If such a
  console is also asked for a waiver, or to restore a skipped window, before its first tick, and the second window cannot
  be entered, the rollback brings the earlier window back and its
  snapshot is then deleted (`sysmodule_core.c:391`, `sysmodule_request_recovery.c:262`: whatever
  window it is of). A television policy that begins before the next quiet tick finds none and is refused by every tick, and
  the console stays open (`Orphaned`). `BedComplete` says that this does not happen, and is violated; what remains true,
  and is enough for the settings, is that such a window is over and of an earlier day (`Gone`), so that its snapshot would not have been
  put back. When a rest ends in the tick in which the policy begins, the policy's
  snapshot is of the settings the rest had blocked; the next full tick repairs what comes of it, and
  the property admits exactly this case. Switching bedtime off writes the rules before the state: if the
  second write fails and no journal was open, the answer is an error and the plan is off
  (`RefusedChangesNothing` speaks of the state only). A save outside a journal that is broken off between the removal and the renaming
  (`fs_storage.c:82-86`) loses `state.json`: a request is refused and the state is gone (`sysmodule_request_recovery.c:298`,
  `sysmodule_dock.c:304`), or the reasons are forgotten while PCTL is blocked, and the next tick takes its snapshots of blocked
  settings (`"lost"` in `harmed`; `NeverReopens` holds nevertheless). When `write_disable_flag` fails the service goes on over whatever
  made it stop (`"flag"`). A `recovery_clear` that fails for a request leaves a journal that is not the tick's:
  each later `recovery_begin` of the tick is refused (`sysmodule_storage.c:510`), and PCTL stays as it is until another request or
  a start-up resolves the journal (`LeftOver`). A snapshot whose file is lost leaves a reason that no tick can end (`Bare`). Under `disable.flag` a rest that is over still counts as a reason.
- *Counting.* A reading is used again for five seconds, so that each return to the television may
  lose that much. Left out of the promise: a sample that was not saved or was
  rolled back, a second change of the mode while a tick waits up to 30 s for the effect of its transaction and looks at nothing else, a date put back by hand, a clock put back within a
  date whose count had not begun (`sysmodule_dock.c:41-47`; section 4), and play between the last sample and the switching-off of the policy. A save that is broken off after the removal of
  `state.json` (`fs_storage.c:82-86`) begins the count anew, also within the date (`sysmodule_storage.c:1144`); inside a
  transaction the journal still has the count and a rollback puts it back. A journal that `recovery_clear` left takes back,
  when it is at last rolled back, every sample since.
- *Update.* A file that is cut short in one of the temporary names whose owner is read from its
  content, or the lock cut short, is never owned and every recovery is refused. So is a rollback that was
  interrupted twice at certain places (`RollbackResumes` is violated; `docs/开发/在线更新.md` says
  that it can go on at the next start), and a power cut between the removal and
  the renaming of a journal just after the lock was taken leaves a lock whose update is not found
  (`OwnerIsFound` is violated). The neighbour of `active.json` left by an earlier update
  makes each save of the next one fail. When the lock is removed and the commit of that fails (`update_install.c:14`), a finished
  install is undone without a lock. `active.json` then says what is under way and keeps the service from starting, except between its
  removal and its renaming (`update_fs.c:168-169`): if the power is cut there, the files are mixed, neither lock nor journal is on the
  card, a service may start from them and no recovery is offered (`Astray`, which `MixedIsBlocked`, the refinement and
  `RecoveryEndsOrRefused` except, and nothing beside it).
  The test `!startup && prepared` in `ptc_update_fs_busy` decides nothing, since the lock is there.

- *Redemption.* The note is nobody's: a program that saves, closes a result page or clears after a refusal
  takes away the other's note (`robbed`; `NoteIsHandled` is violated), after which an end of the other program leaves nobody
  to show the outcome. A failure between the removal and the renaming of the second save
  loses the note of what was sent (`torn`). The overlay, or the next start, tells the child that nothing
  was sent while the submission is under way, or in a call that its caller did not live to see answered
  (`hasty`; `UnsubmittedIsUnconsumed` is violated). A request that was never stored, for the call was lost and is taken
  for sent, or one archived without a result, is waited for without end: each start finds the note,
  new codes, hot reload and the refresh of the status stay blocked, and nothing but the removal of the file
  helps. `OutcomeShown` speaks of requests with a result, for this reason.

### Bounds

`MaxCrashes`, `MaxFaults`, `MaxFlips`, `MaxRestarts`, `MaxIntents` bound what the
environment does; the properties are about one or two interruptions meeting, and the
second fault in `TxCodes` is what reaches a rollback that fails after a write
that failed, or a clearing that fails after a commit. Two requests are the
least that compete for a code, a journal or a waiter. The constants of the code
are scaled: 16 waiters to 1 or 2 (with two clients one is a full table),
a batch of 32 files to 1 (two requests need two ticks), 120 quiet ticks to 2.
In `HoHandover` the 3 samples of absence are 2, the 120 ticks 2; the 2 launches are
the code's. `MaxProcesses` is a bound on names and is never met (a launcher stopped
by it would violate `HandoffEnds`). With two power losses the safety properties
were checked as well (208 thousand states); the configuration has one, which is
what the temporal properties can afford beside two faults.
Clients, requests, texts and the requests of one kind are symmetric; the
runs with temporal properties of fair specifications use no symmetry.

`Setup` has a week of two days, the least in which today and another day differ, and
`SeLiveness` only settings that can be read (with an unreadable slot on the only other day the
parent of the model has no day to confirm on). `ReReasons` has a window that spans midnight, a
period before it in which a rest or the policy can be in force when it begins, a second window that begins as the
first one ends, and a morning; two moves
are the least for a request during a rest, or for a reason that meets another one away from the television; two faults the least for a rollback that
fails. `DuUsage` has three days for a gap of one and of two dates, and a reading that is used for
2 s instead of 5. `UpFaults` has 4 files for 13: what the service runs from, the empty flag, a new one and
the application, the three that the code treats differently and the one that has no
predecessor; two updates for what the first leaves to the second; two faults for a recovery that is
interrupted. `RdNote` has two requests for one to take the other's note, and two troubles for one in the submission and one
in the recovery; with three troubles (1.1 million states), or three requests and one trouble (2.3
million), the safety properties hold as well.

### Fairness

`Transaction`: `WF(Service)`, the main loop runs as long as there is power.
Submissions, docking, crashes and the parent are not fair, and a failing call is
never forced to succeed, only bounded in number. `Delivery`: weak fairness of the loop,
of the IPC thread's steps outside the mutex, and of each client that has an
answer to fetch; strong fairness of the IPC thread's sections, for the loop
releases the mutex again and again and the kernel hands it to the thread that
waits in `mutexLock`. `GiveUp` and `Drop` are not fair: `EveryCallEnds` must not
owe its truth to a time limit. `Handover`: weak fairness of the launcher, which is
polled in every frame, of the services' loops, and of the parent who closes an
application that has failed (`Exit` in phase `failed`) and opens it again (`Open`): what the code
repairs at the next start of the application needs one. He need never begin a hand-off, nor
close the application during one. `TickExitTimeout` is for a launcher that took the
flag: a recovery that found no process takes its samples in the next frames, long
before the 10 s are over.

`Setup`: the worker; the parent confirms on each weekday again and again what can be confirmed
(strong, for a failed attempt disables it in between), and restores where nothing else
is possible; days pass. `ReReasons`: the steps of a job, the tick and the power: nothing the parent does.
`DockUsage`: the tick and the start of the service. `UpdateInstall`: the worker, the service's start, and a
parent who opens the application and confirms the recovery that it shows, however often
it was closed. `Redemption`: the programs' loops and the IPC calls; a child who closes what is shown, and
opens and closes both programs, again and again. Nobody need redeem a code, a
program need not give up, and the service need not answer: `OutcomeShown` begins with the answer.

### Where the code and its documents disagree

The modules state some claims of the documents that the
code does not keep; each is violated when it is added to the configuration named, in the place of the
properties there:

| Property | Configuration | What TLC shows |
|---|---|---|
| `DurableResultCommits` | `TxCodes` | An offline code's success answer is written before its last files. After a power loss in between, start-up rolls the grant back although the answer says ok. PROTOCOL.md: "A durable result commits the transaction." |
| `FailureMeansUnconsumed` | `TxCodes` | Power is lost after the commit and before the archiving. The request is executed again, the ledger refuses the code, and an error answer replaces the true one. PROTOCOL.md: "Failure indicates the code was unconsumed." |
| `TickLeavesForeignJournal` | `TxGrants` | A tick that enters the dock restriction and is refused by `recovery_begin` rolls back a journal whose owner it has not looked at. PROTOCOL.md: "Transactions are isolated by `meta.json.request_id`." |
| `BufferOncePerDay` | `TxGrants` | The usage sample rewrites `state.json` outside any journal; the rewrite fails after the removal, the claim is forgotten, and the buffer is claimed again. |
| `EventHeld` | `DvFaults` | A result could not be written. The first client's `GET_RESULT` closes, by id, the waiter a second client has just been given. |
| `MissingIsTrue` | `DvFaults` | The file route misses the result, then finds the request archived, and reports a failure for a request that has its answer. |
| `RestoreIsFinal` | `SeTakeover` | See the limits above. |
| `RollbackResumes`, `OwnerIsFound` | `UpFaults` | See the limits above. |
| `UnsubmittedIsUnconsumed`, `NoteIsHandled` | `RdNote` | See the limits above. PROTOCOL.md: "unsubmitted entries are treated as unconsumed"; "The recovery marker is removed once the final result is presented to the user." |
| `BedComplete` | `ReReasons` | A waiver lifts the window that is over, cannot enter the next one, and its rollback restores the earlier window, whose snapshot is then dropped. test_control_safety.c: "rollback restores both bedtime snapshot and instance metadata". |
| `NewDayCounts` | `DuUsage` with `FairSpec`, `Limit = 1`, `MaxPlay = 1` and no faults or moves | When more than 36 hours lie between two samples, or the date moved by two days, `ptc_usage_counter_step` answers that the step is unknown and the old baseline stays, so that the next sample is as far away. The count stays on the old day, and handheld play is blocked until each day's waiver; switching the policy off and on does not help. PROTOCOL.md: "a new local day starts a new count." |

## 4. Proofs

Each theorem is of the specification, without bounds: for any sets of requests, kinds and codes,
any number of files, updates, days, processes, crashes and failed calls. The inductive invariants were
first checked by TLC, each in the instance of its module's run with more faults than the run allows. Each
action has a lemma that says it keeps the invariant, with a step for each conjunct it can disturb;
what the operators return is in lemmas of their own.

### `TransactionProofs`

Assumptions: `KindAssumption` (each request has one of the four kinds), `ActorsAssumption` (the names are
distinct), `BoundsAssumption`, and `MarkAssumption` (a grant is not one of the marks in a file).

- `TypeCorrect`: `Spec => []TypeOK`; `JournalIsOwn`: `Spec => []OwnJournalOnly`;
- `DisabledIsFinal`: `Spec => DisabledGrantsNothing`; `BootResolves`: `Spec => []BootResolvesJournal`;
- `GrantsAreWhole`: `Spec => []WholeGrants`; `ImplementsBook`: `Spec => GrantsAreBooked`.

That `at` stays a position depends on which sequence it
points into, so `Positions` says it is inside the body while a body runs and
inside `UndoOrder` during a rollback; a body is never empty, which `BodyShape`
states. That the start-up rollback, which resolves anyone's journal, is not one
of a request's depends on `BootActor`: the worker is the background owner
until start-up is over. The first inductive invariant is

    IInv == FilesOK /\ ControlOK /\ SwitchesOK /\ HistoryOK
            /\ Positions /\ BootActor /\ OwnJournalOnly

where the first four are `TypeOK` (`TypeParts`). On it rest two more.

    Paths == Undone /\ Taken /\ Barred /\ Decided /\ Shrinks

is what each place of the code may rely on whatever has failed: a rollback reaches `recovery_clear` only
when every item it has passed is the journal's; a request being executed is in `processing/`; no grant is
executed while the service is disabled; what a handler has decided adds its own grant and no other; under the
journal of the tick, or of a waiver, no grant is written. `StepViews` then says what a step can do to what a
recovery would restore (`View`): keep it, hand it to a journal of the same content, or hand it back to the files
when the journal is cleared. `DisabledGrantsNothing` needs no more: what a disabled service commits adds nothing.

    Books == UnderWay /\ Complete /\ Waiting /\ Resolved /\ Again /\ Fresh

is how far files and journal may be apart inside a transaction while nothing was spoiled outside one: the
grant is in exactly those files the body has passed, in all of them at the commit (`BodyCovers`: the order of
writes of each kind of request leaves none out), a target that waits for its confirmation has written no
grant, a journal that start-up could not clear has been rolled back, so that a request executed again
finds nothing of its own, and what was admitted is still unspent when it is written. `WholeGrants` and the
refinement follow when the journal is cleared, the only moment at which the view changes (`StepWhole`, `BookStep`).

- `FailuresConsumeNothing`: `Spec => FailedIsUnconsumed`; `AnswersAreGranted`: `Spec => OkIsGranted`.

    Answers == Answered /\ Once /\ Untraced /\ WaiverKept

is what an answer says of the files. `Answered`: at which places of the code the request being executed has its answer
and at which it cannot have one yet, unless it is one that could not be removed; `Once`: before a restart no request is taken twice; `Untraced`: a request
without an answer is in no file, except what its own open transaction has written and would take back; `WaiverKept`: a waiver
answered with success is still in what a recovery would restore. That a step settles a request by its own commit only
(`StepSettles`), that what was granted stays granted (`GrantedStays`, from `BookStep` and `ViewWaived`) and that
harm is never undone (`HarmStays`, `TrustStays`) give both action properties.

The attempt found a case the runs had not: three failed calls. A tick's target waits for its confirmation with its
journal open; the save that confirms it fails and has removed `state.json` (`sysmodule_core.c:150-162`); the
writing of `disable.flag` fails as well, which is ignored (`sysmodule_setup.c:395-402`). The next tick reads
the missing state as defaults (`sysmodule_storage.c:1144`), finds the journal its own, joins it
(`sysmodule_storage.c:510`) and commits: the day's grants are gone from the state and still in the rules. With a
failed sample under a tick's journal the same happens (`sysmodule_core.c:181-189`). `Begin` now records it
(`"join"` in `harmed`), and the properties about grants exclude it by name.

### `HandoverProofs`

For any limits and bounds, from `LimitsAssumption` (the
numbers of samples, launches, quiet ticks and processes are positive):

- `TypeCorrect`: `Spec => []TypeOK`, which includes that a target is never launched
  more often than `MaxAttempts`;
- `NeverTwoServices`: `Spec => []OneService`;
- `FlagIsRecoverable`: `Spec => []DisabledIsRecoverable`;
- `EndsAreSettled`: `Spec => []Settled`; `LeavingKnown`: `Spec => []LeavingIsRecorded`.

The inductive invariant adds to the first three what each routine of the launcher takes for granted
when it is called:

- `Calls`: on whose behalf a routine may run, and with which phase in the record;
- `Launches`: at a launch nothing runs and an attempt is left; from the moment the tick has
  seen the source gone nothing runs until the launch. `OneService` rests on this;
- `Known`: where the application knows the record of a hand-off (so that what it writes
  is one);
- `OneTxn`: the records on the card and in memory are of the same hand-off. Without it, a
  temporary file beside an older journal could be one that `read_journal` refuses;
- `Reliance`: at the replacement the temporary file is complete and the one in memory; while
  `disable_boot` records its change the flag is away.

Most actions end in a continuation that depends on the caller, and each continuation
(`WrittenKeeps`, `WriteFailedKeeps`, `RestoreFailedKeeps`, `LaunchFailedKeeps`,
`FinishedKeeps`, `GiveUpKeeps`) is a lemma; the action lemmas cite them. A service's
step never adds a service (`ServiceSteps`).

The last two rest on a second invariant over the first,
`JInv == Tasks /\ Births /\ OldLeaves /\ Ends /\ LeavingIsRecorded`: at which phase each routine runs; processes are
born in order and report only after they have begun; while the flag is away only the old version runs, so no
other can be leaving; and where the flag is back in its place (`FlagBack`), which is what an end has to show.

### `DeliveryProofs`

For any sets of clients, requests and texts, any number of waiters, and any number of hand-offs, restarts and failing calls, from
`NamesAssumption` and `LimitsAssumption`:

- `TypeCorrect`; `NeverMissed`: `Spec => []NoMissedSignal`; `AnswersAreMine`: `Spec => []AnswerIsMine`;
- `UnpersistedTold`: `Spec => []UnpersistedIsTrue`; `TokensLive`: `Spec => []TokenLive`;
- `QuietHolds`: `Spec => QuietWhenReady`, with its exception of a hand-off that has `lapsed`.

`Calls` says for whom the IPC thread works between its sections, and what that client waits for. `Awake`
is `NoMissedSignal` but for the waiter of a submission that could not be stored, which is removed in a section
of its own: whenever the loop sleeps, a waiter not yet signalled is of a request not yet answered. `Mine`: who was accepted
finds its own text under its id, which nobody can replace there. `Told`: what is archived without a
result gets none. `Quieted`: an acknowledgement of the hand-off under way means that the
loop's batch is empty, and the fields that keep it so are set. `Events` ties an event to one client and one request, and `Kept`,
while no call has failed, ties each promise to a waiter or to a settled request; `TokensLive` needs both.

### `SetupProofs`

For any number of dates, failed calls and restarts, from `NativesAssumption` (the parent's settings are among the native ones, the
service's own are not) and `BoundsAssumption`:

- `TypeCorrect`: `Spec => [](CardOK /\ JobOK /\ WorldOK)`; `OriginalKept`: `Spec => OriginalIsKept`;
- `RestoredHolds`: `Spec => []RestoredIsOriginal`; `FailuresUndone`: `Spec => []FailedReleaseIsUndone`;
- `TodayKept`: `Spec => []TodayIsKept`.

The invariant is the types (`CardOK`, `JobOK`, `WorldOK`) and eight parts. `Labels` and `Phases` say which routine may run in which phase of
`setup.json`; `Journalled` when there is a journal and whose; `Original` that the settings saved at the
take-over are the parent's at each phase in which the code would put them back; `GivenBack` and `PutBack` how far a release and
its undoing have come; `Handed` and `Adopted` what a direct take-over has captured of today, and that it is in
force once it was adopted. Each of the 48 actions has a lemma that proves the invariant and the step of `OriginalIsKept` at once. `LossKeeps` is
the one for all replacements that lose their file: with `setup.json` or the rules gone the invariant asks less of the card, whatever
the job goes on with.

The attempt changed the model. `FailedReleaseIsUndone` spoke of a flag that is there; but a failure whose phase could not be
saved leaves the flag of an earlier failure, because the writing of `disable.flag` is not checked (`sysmodule_setup.c:395-402`). That takes four
failed calls, more than the run allows. `told` now says whether the flag was written after the phase, and the property is about those.

### `RestrictionsProofs`

For any time line (`TimeLineAssumption`: dates do not decrease, a window is a run of periods, and two windows begin
on different days), any number of requests, rests, changes of the mode, failing calls and power cuts, with
`NoneAssumption` (the absent value is none of the others) and `BoundsAssumption`:

- `TypeCorrect`: `Spec => []TypeOK`; `ReasonsHaveSnapshots`: `Spec => []SnapshotsSound`;
- `LiftingKeepsOthers`: `Spec => NeverReopens`; `RefusalUndoes`: `Spec => RefusedChangesNothing`.

    IInv == TypeOK /\ Labels /\ Running /\ Loaded /\ Apart /\ Fresh /\ Follows
            /\ (~flag /\ harmed = {} => Rest)

`Labels` says at which steps each job can stand, `Loaded` what a request that lifts carries from one step to
the next, `Apart` that a rest and bedtime are never recorded together, `Follows` that an enforcement carries the state on the card, but for a
rest that begins or ends; this is all that `NeverReopens` needs, which therefore holds over every kind of harm. The
rest is claimed only of a service that has not stopped itself and of which nothing is `harmed`:

- `Journalled`: what the journal would put back is sound, and so is the card itself but for an undoing that
  failed. `Owned`: whose journal there is at each step, and where there is one for certain;
- `Settled`, `Taken`: where no target waits, and that each reason an enforcement is about to record has its
  snapshot by then;
- `Undone`, `Left`: what an undoing puts back has not lost its snapshot on the way, also when the
  journal is one that an earlier tick has left behind;
- `Found`, `Named`: what a request found is what its refusal leaves, and the window it names.

`SnapshotsSound` is `Journalled` between two jobs. Four cases carry the induction. A
journal left behind without a target that waits, joined by the next tick (`Left`): no rest ends under it, for
the target before was not open and neither is the one after. A window whose snapshot is dropped
is over (`GoneIs`; here the windows' days count). A waiver, or the clearing of a skip, that finds a window
in force lifts it only if it is not the one due. A clearing that is undone has its window skipped again, so that the one
recorded is another and over. `NeverReopens` then needs the four steps that write a setting
(`LiftingReopens`, `ApplyReopens`, `WakeReopens`, `ReleaseReopens`): each opens only what its own conditions say that no
reason keeps closed, because what it carries is what is on the card.

### `DockUsageProofs`

For any allowance, any age of a reading that is positive, and any numbers of days, seconds, faults and moves:

- `BaseInvariant`: types, and that the fields of the counter fit together, of the state and of a journal's copy of it;
- `NeverRefunded`: `Spec => NothingRefunded`, with its exception of a save that is broken off; `CountIsWhole`: `Spec => []CountsAll`.

That a rollback refunds nothing rests on the order of the code: the tick's sample is saved before the transaction copies the state
(`sysmodule_core.c:182-189`), so that what a journal puts back is a count that has been in force.

`CountsAll` is about a count that is known; it holds because of what is true of one that is not.
`Owed` bounds what the next sample could fail to charge: a count that runs is short by no more than the seconds since the
last reading and has a reason to be charged for them (`Running`); one put aside holds everything
(`Parked`); play of a date the count has not reached is never joined to it as if it had followed
midnight (`Early`). The same bound is kept for a reading the adapter may use again (`Tells`, `Bounded`).
`Off` and `Clear` say that no count runs while the allowance is off and that a known count has no
gap in it.

This too had a counterexample that needed a longer sequence than the run has. After a gap of more than 36
hours the first sample is refused (`sysmodule_dock.c:41-47`); with the allowance off and the clock put back by
some hours within the date, the gap is short enough, and the count of the new date is called known without the
play before. `PutBack` therefore releases the promise for a date whose count has not begun.

### `UpdateInstallProofs`

For any number of files from three on, any files that the first release lacks, and any number of updates, failed calls
and torn writes, with `EntryAssumption` (no value of a journal is that of a missing or torn file):

- `TypeCorrect`: `Spec => []TypeOK`;
- `NeverMixed`: `Spec => []MixedIsBlocked`; `FinishedIsTrue`: `Spec => []FinishedIsWhole`;
- `ImplementsSwitch`: `Spec => SwitchesReleases`, the refinement of `ReleaseSwitch`.

The inductive invariant says who may rely on what between two writings of a journal. `Sources`: with the lock free
the files are a whole release, or an update is being undone that lost its lock to a failed commit (`Bare`), and the holder of the lock has a
whole release to go back to; `Holding`: while files
are replaced the lock is the job's, or a rollback goes on without it, and `active.json` is the journal it keeps; `Lowering` and
`Steps`: a rollback without a lock goes from the last file to the first, so that a later one finds every file it has to give back, and there is always its journal
or its neighbour; `Truth`: a finished journal
tells the truth of the files, or of those the holder of the lock began with; `Quiet`: an update is
under way only under its lock, or had it. `Claiming`, `Ending` and `Written` are what holds at the steps where
lock, journal and files change one after the other.

### `RedemptionProofs`

For any number of codes and troubles:

- `TypeCorrect`: `Spec => []TypeOK`;
- `DenialsHold`: `Spec => []DenialIsTrue`; `OutcomesKept`: `Spec => []OutcomeKept`.

`OneEach` (no request is submitted or waited for by two programs) and `Progress` (how far a request can
have come at each step of its submission) carry `Denials`; `Noted` (what is on its way or has come
through has the note as long as nothing was said of it) carries `OutcomeKept`.

### Model-checked only

Every invariant and every action property of the runs is a theorem. All liveness and all fairness (`InboxDrains`, `ConfirmationEnds`, `EveryCallEnds`, `HandoffEnds`, `FlagReturns`,
`ServiceReturns`, `TakesOver`, `TargetEnforced`, `RecoveryEndsOrRefused`, `OutcomeShown`) is outside the provers' reach.

## 5. What is not modelled, and why

*Inside the modelled parts.* The tick's branch that disables the service when a
confirmation is pending without its journal: the last part of `SnapshotsSound` shows that it
is not reached. Activity history and the failure counters of the second code
format: further items of the same transaction. In `Restrictions`: the calendar that chooses a
day's window, the counting of play for the eyes, the requests that change one of the three
policies, and what follows after the parent has removed `disable.flag`. In `Setup`:
failing reads of `setup.json`. In `Delivery`: malformed calls,
the session table, eviction from the result cache (a miss reads the card), the
retention of old files, an IPC server that does not start (its clients are those
that `Drop`), and what the launcher believes between its steps.
`HandoffQuiet` and its sisters take `handoff_tick` as one step; `Handover` takes it
call by call. In `Handover`: restarts for a capture, acknowledgements of the first protocol
version (without `source_pid`), the recovery journal of the write path that delays a
source's answer (`Delivery` has it), and writes to the card that the commit
reorders.

*Components.* Schemas, the device lab and, but for what `Redemption` has, the user interfaces, which are most of the lines of the
repository: no state shared with another part, or pure conversion. PCTL's layout: one item that a
failed call may leave half written. The PIN policy is left aside on purpose. Configuration backup and
calendars: the backup's files are further preimages of the transaction, and a calendar is data that the
windows of `Restrictions` stand for. Retention of old files subtracts 16-bit day indexes and
is wrong only for a clock set back by years.

## 6. Plan

1. *Done.* `Transaction` with `GrantBook`; `Delivery`; first theorems.
2. *Done.* `Handover`, one run with safety and liveness; theorems.
3. *Done.* `Setup`; `UpdateInstall` with `ReleaseSwitch`; `DockUsage`; `Restrictions`; `Redemption`.
4. *Done.* Every invariant and every safety property of the runs is a theorem.
5. Next: the calendar that chooses a day's window, and the transaction of a configuration backup.

The runs are few on purpose, one for each question; as parts are added, runs whose
question another one answers are merged.
