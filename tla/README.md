# Models of harmony-hub-control

This directory holds TLA+ models of harmony-hub-control, checked with TLC, and
proofs checked with TLAPS: how the hub's configuration is written and edited, how
the engine and the remote learn of it, and how the helpers share the radios and
the engine's keys. Paths below are relative to the repository. `W` is
`payload/source/codex_webui.c`, `L` is `payload/activity/codexactivity.lua`,
`N` is `payload/scripts/netservicestarter.lua`, `M` is
`payload/mqtt/codexmqtt.lua`.

## The system

A Logitech Harmony hub keeps its configuration in five JSON lists:
`ActivityList`, `MapList`, `FunctionList`, `DeviceList`, `ProtocolList`. Two
stock engines (`harmonyengine`, `activityengine`) run from loaded copies of
them, and a paired remote holds another copy. The project adds a web server
with an HTTP interface, a plugin that writes the lists from inside the hub's
Lua runtime, and replacements for what the cloud used to do.

| Component | State | Operations | Hard behaviour |
| --- | --- | --- | --- |
| Offline-writer exchange (`W` 2653-2732, `L` 2564-2635) | lock, request and response file | submit, poll, give up; read, remove, run, respond | callers in separate processes, killed at will; a writer that is slow or restarts |
| Writer transactions (`L`) | five lists, state digest, reload barrier | `CommitActivityResources`, `CommitDeviceSettings`, `CommitDeviceScreen`, `CommitHaDevices` | several files without a journal, rollbacks, reloads that fail, tasks that run where it waits |
| Activity load, save, refresh (`W` 2987-3320) | none of its own: the lists and a revision | `/api/activity-config`, `-save`, `-sync` | a check before a wait, torn reads, a rollback from outside the writer |
| Device settings, Home Assistant set, Touch screen (`W` 2797-2975) | none | one writer request each | as the exchange |
| DeviceList edits (`W` 3337-3795, 7510-7685) | `DeviceList.json`, `ProtocolList.json` and one temporary file of each | create, label, add, change, remove, clear, import, repair, delete, import a list | unlocked read-modify-write outside the writer, through a shared temporary name |
| Reload flag (`W` 1800-1818, `L` 2532-2562, `payload/mqtt/codexmqtt.lua` 51-70) | one flag file | request, take, reload | two readers, taken before the reload succeeds |
| Hold-to-repeat (`W` 4985-5660) | lease and note files per hold | start, keepalive, release | four processes on the same files, timeouts |
| IR batch and cancel (`W` 4804-4835, 8040-8157) | a flag per run | run, cancel | flag outlives its run |
| Import, bundle, backup (`W` 1820-1878, 7510-7685) | list files | copy | failure half way |
| RF remotes, pairing (`W` 7810-7915) | lock, radio | pair, list | a lock that outlives its child, a radio that goes on when its caller has left |
| Handlers for remotes (`N`) | the lists, a sync flag | get, put, begin and end of a sync | pulls and confirmations interleave with saves |
| MQTT plugin (`payload/mqtt/codexmqtt.lua`) | broker connection | publish, reload | second reader of the reload flag |
| Egress guard, start-up, access point (`payload/scripts`, `codex_dhcpd.c`, `codex_portal.c`) | kernel tables | - | route set again by DHCP |
| Bluetooth tools (`codex_hal_ltcp.c`, `codex_bthid_keyboard.c`) | a lock and a time stamp | one call to `hal` each | `hal` uses freed memory for a second after a connect or disconnect |
| Pairing agent (`codex_bt_pair_agent.c`) | link keys, the links it has seen | pair, report, answer GET_REPORT | a stale clock, crossing channel requests |
| Bus and hardware helpers (`codex_hbus.c`, `codex_flash_free.c`) | - | one-shot tools | - |
| Hub update (`desktop/src/hub-update.js`, `desktop/src/hub-update/hub_update.sh`) | installed files, new copies on flash, rollback copies in RAM | status, apply, roll back, restart or reboot | any step may fail; a power cut forgets the update; nothing keeps two apart |
| Desktop, Android, web interface, installers, Docker manager, tools | their own | clients of the HTTP interface | - |

What makes the modelled components correct:

* exchange: a caller is told the truth about its own request, a request is run
  at most once and never after it was refused, and every call comes back;
* transactions: a save happens as a whole or not at all, the answer says
  which, the engines and the remote end up with what is on disk, and the only
  writer is never blocked for ever;
* activity saves: what an editor is told agrees with the disk, a rollback never
  races the save it undoes, and nobody else's save is lost;
* held keys: the engine repeats one key at a time, a key that nobody holds any
  more comes up in bounded time, and an answer tells what was sent;
* device lists: an edit that was published stays, a list on disk is whole and
  consistent, and no activity names a device that is gone, except after the races
  that a list without a lock cannot avoid;
* reload flag: an edit reaches the engine, or somebody still takes care of it;
* batches, radio, Bluetooth: a batch stops when it is cancelled and only then, a
  pairing window is alone, `hal` is never called while it uses freed memory, a
  pairing is complete only with a link, and a host's GET_REPORT is answered to
  that host;
* hub update: an update that failed leaves every file as it was, one that worked
  leaves every file as in its release and the new server on the port, also after a
  power cut during an earlier one.

PROJECT.json lists every component with its status, and under "hazards" each
place where this code can go wrong in a way a test would hardly reach.

## Modules

| Module | Models | Role |
| --- | --- | --- |
| `WriterCalls` | the promise of `offline_writer_request` to its callers | abstract specification |
| `OfflineWriter` | the exchange, one action per file operation | implements `WriterCalls` |
| `OfflineWriterProofs` | - | theorems about `OfflineWriter` |
| `AtomicCommit` | "Saves are transactions" (`README.md:188`) | abstract specification |
| `CommitTransaction` | the four transactions, the reload, the barrier, the digest, a pulling remote | implements `AtomicCommit` |
| `CommitTransactionProofs` | - | theorems about `CommitTransaction` |
| `ActivitySave` | several editors, refreshes and Touch screens over one writer | composes callers and writer through the promise of `WriterCalls` |
| `ActivitySaveProofs` | - | theorems about `ActivitySave` |
| `HoldToRepeat` | press, hold and release of held keys, with the detached holders and their files | stands alone |
| `HoldToRepeatProofs` | - | theorems about `HoldToRepeat` |
| `DeviceEdits` | every handler that replaces `DeviceList` or `ProtocolList`, and the imports of the lists that name devices, among each other and against saves | part of `HubHelpers` |
| `ReloadFlag` | the reload flag, its writers and its two readers | part of `HubHelpers` |
| `IrBatch` | batches of IR commands and the cancel file | part of `HubHelpers` |
| `RfPairing` | the RF pairing window and its lock | part of `HubHelpers` |
| `BthidGuard` | the lock and the time stamp around `bthid` calls | part of `HubHelpers` |
| `PairAgent` | the pairing agent's main loop | part of `HubHelpers` |
| `HidControl` | the agent's answer to GET_REPORT | part of `HubHelpers` |
| `HubUpdate` | the update of the hub's software and its rollback | part of `HubHelpers` |
| `HubHelpers` | - | holds those eight parts, which share no state, side by side |
| `HubHelpersProofs` | - | theorems about six of the parts |
| `DeviceEditsProofs` | - | theorems about `DeviceEdits`: published edits, deleted devices, the temporary file |
| `DeviceListsProofs` | - | theorem about `DeviceEdits`: the lists stay sound |
| `HubUpdateProofs` | - | theorems about `HubUpdate`, and about the types of all eight parts |
| `MC...` | - | bounds, symmetry |

### OfflineWriter

`phase[c]` is the place of child `c` in `offline_writer_lock` and
`offline_writer_request`; `turns` is the loop counter (`turn`, then `attempt`);
`requestFile` and `responseFile` are the two files, `None` when absent. A file
holds the child whose id is in it. Each `unlink`, `rename` and read is an action
of its own, in the order of the code: `Begin`/`TakeLock`/`LockIsHeld`/
`GiveUpLock`, `DropResponse`, `DropRequest`, `Submit`/`SubmitFails`,
`TakeAnswer`/`KeepPolling`/`GiveUpAnswer`, `Leave` (the `out:` label), `Close`.
The writer's are `StartRequest`, `StartResponse` (top of `workerLoop`),
`ReadRequest`, `RemoveRequest`, `RunRequest` (`pcall(processRequest)`),
`DropOldResponse`, `Publish`, `PublishFails`. `PublishFails` also stands for a
response longer than the 32768 bytes the child reads, and for a `pcall` failure
whose response has no id: nobody can take either for its own. `Kill` is
`killall codex_webui` (`desktop/src/hub-update/hub_update.sh:79`);
`WriterStops` and `WriterStarts` are a crash or restart of the runtime.

Time: the unit is the 100 ms sleep of both loops. `Tick` happens when every
child in a loop sleeps; file operations on the RAM disk take no time next to
that. The writer has no clock and may take any number of ticks. The bounds in
the code are 1300 and 1200 turns; the model keeps that the lock's wait exceeds
the poll's by more than the one turn the loops need to notice each other
(`TurnsAssumption`).

### CommitTransaction

`pc`, `job` and `todo` are the writer's task inside one commit function.
`SaveOrder`, `RestoreOrder`, `ReloadOf` and `Strict` hold what differs between
the four. A list is known by the transaction that wrote it and, for devices and
protocols, by whether it holds Home Assistant entries. `haAdd` is a set that
adds a device (the protocol too when it is the first), `haRemove` one that
removes the last.

| Action | Code |
| --- | --- |
| `Refuse`, `Begin` | the checks and snapshots before the first save |
| `SaveNext`, `SaveFails` | `saveResource`, `saveDeviceListText`: a failed read-back has written |
| `Reload`, `ReloadFails` | `config_new`; a refusal may come before or after loading |
| `SendBarrier`, `BarrierPending`, `BarrierAnswered`, `BarrierTimesOut` | `waitForActivityEngine` with its helper task |
| `Publish`, `PublishFails` | `publishLocalRevision`, and its copy in `commitActivityResources` |
| `RestoreNext`, `RestoreFails`, `AllRestored`, `ReloadOld`, `ReloadOldFails`, `Revert` | `restoreSnapshots`, the local `restore` functions |
| `Pull` | `offlineResourceGet` of `N` |

The runtime is cooperative: other tasks run only where the writer waits
(`Yielding`). The engines, the remote and a reboot are external and modelled
from how this code uses them: `config_new` loads lists and queues
`init_activity_engine`; `process_activity` is answered in queue order; a remote
pulls when both versions of the digest are new to it (`docs/TOUCH_EDITOR.md:16`,
`docs/HOME_ASSISTANT.md:106`), list by list, and takes the result when it has
all.

### ActivitySave

One `Client` is an editor (load, change, save), a refresh, or a Touch-screen
change. `phase` is its place in the handler; `left` and `read` are the list
files it has still to read and has read, one action per file, so a read can be
torn by the writer. A list's content is the set of clients whose edits are in
it. `request` holds the calls to the writer; a caller sees exactly what
`WriterCalls` promises: a verdict, a refusal (`NotSubmitted`), or silence
(`CommitTimesOut`, with the unread request withdrawn). The writer is
`commitActivityResources`, list by list, with any of its steps failing and any
restore failing. `commitDeviceScreen` is one step, `SetScreen`: it reads and
writes inside the writer.

`Confirm` is `keepActivityConfirmations` (`N` 658): a remote reports that an
activity started, and the runtime takes its question out of `ActivityList`. That is
a second writer of the list, in a task of its own: it cannot run between two
`saveResource` calls, but does run while a commit waits for the engine, when all
its lists are written. Whoever is in flight then is overtaken. `ConfirmationDropped`
is the same answer without the change (a sync under way, or a failing save).

### HoldToRepeat

Three kinds of process per hold. `starter[h]` is the child that serves the press
(`hold_start`): it has `lock`, visits every other hold (`MeetLive`, `MeetDead`,
`AskToLetGo`, which are `hold_live` and the loop of `hold_release_others`), waits
(`WaitForOthers`), claims its lease, forks and reads the report. `holder[h]` is
`hold_run`, from `WritePid` to `RemoveRest`; `report[h]` is the pipe between the
two. `beat[h]` and `releaser[h]` are the children that serve the browser's "hold"
(two notes, then the lease) and "release" (look for the lease, then write). The
files of a hold are `lease`, `release`, `pid` and `note`; of the lease file's
size only "changed since the holder looked" is kept, of the release file its first
writer. `engine` is the key the engine repeats: a press replaces it, any release
clears it, and it stops by itself when no heartbeat comes.

Time: a turn is half a second. `Tick` happens when every process only waits for
time (`MayWait`); the loops of 20 and 80 ms, the refusal wait of 150 ms and the
closing of a hold are done within the turn, in every interleaving of their file
operations. Preparing (Bluetooth, protocol repair) has no bound; opening the
connection has `ConnectTurns`. The children of the browser may be as slow as they
like. `HOLD_LEASE_MS`, `HOLD_MAX_MS`, `HOLD_PRESS_WAIT_MS` and the 3 s of
`hold_start` become `LeaseTurns`, `MaxTurns`, `PipeTurns` and `WaitTurns`.
`TurnsAssumption` (a press waits longer than a connection takes, and a turn more)
is the comment's "a holder still connecting can take up to 2 s more": with
`WaitTurns` one less, TLC finds two keys down at once. `hold_ws_open` sets its
2 s on each system call and not on the whole, so an engine that trickles its
answer is outside the assumption.

The clocks of a process that does not read them any more are put back to 0, and a
note may become old after any turn instead of 10 s.

### DeviceEdits

`ch[c]` is one child with one request. It reads a list, computes the whole new
one, and goes through `write_file_atomic` (`W` 262-281) one call at a time: `Open`
(`fopen`, which empties a file somebody else has open), `Write`, `Publish` (the
rename). `tmp` is the file behind `<list>.new`, one name for all children. `on`
says which file a child's open descriptor belongs to by now: the temporary one, the
live one (somebody else has renamed it into place) or one that is gone. `refs` holds
the ids that `ActivityList`, `MapList` and `FunctionList` name; each of them is replaced in
one step.

| Action | Code |
| --- | --- |
| `Scan` | `create_ir_device_ex`: the largest id, or the time of day above the floor |
| `ScanFails` | `scan_ir_resource_stats` cannot read the list, and its caller does not notice |
| `Check` | `delete_ir_device`: is the device named in one list after another |
| `Read` | the handler's own checks (`Accepts`) and its new list (`Edited`) |
| `Look`, `Ensure`, `AppendItem` | `repair_known_protocols`, `ensure_ir_protocol`, `append_top_array_item` |
| `Reread` | `append_command_to_device`: reads the list again |
| `ReadFails` | `read_file_alloc` fails, also on a list that `delete_ir_device` has to look at (`W` 3552-3556) |
| `OpenFails`, `FlushFails`, `WriteFails`, `PublishFails` | the failures of `write_file_atomic`, seen and unseen |
| `ReplaceList`, `ReplaceFails` | an import of `ActivityList`, `MapList` or `FunctionList`, alone (`W` 7652) or in a bundle (`W` 7577-7588: after `DeviceList` and, but for `FunctionList`, after `ProtocolList`) |
| `SaveBegins`, `SaveWrites`, `SaveEnds` | `commitActivityResources`: the devices it finds when it begins, and its three lists one by one, with the children in between |
| `SaveUndone` | `restoreSnapshots` (`L` 252-283): each list gets its old references back, or cannot be saved |
| `SettingsBegin`, `SettingsSaved`, `SettingsEnd`, `SettingsUndone` | `commitDeviceSettings` (`L` 1170-1244) with its rollback: it writes the list back as it read it |

`want` is the abstract list: every published edit applied to it in the order of
the renames. `mishaps` names what happened that no unlocked file survives: two
children with the temporary file open (`overlap`), a rename over a list that was
not read (`lost`), an id or a protocol chosen from an older list (`overtaken`), a
flush whose failure nobody looks at (`flush`), a reference to a device that is gone, or whose
deletion has already looked at that list, written by a save or its rollback (`reference`)
or by an import (`import`). A child that could not read the list for the largest id counts as
`overtaken`. `deleted` is the ids that were deleted and have not come back with a list
that was written over. Each property lists the ones it excuses, and the step that sets one
is the step that causes the harm, so everything else must hold.

### ReloadFlag

`Edit`, `ImportRest`, `ImportFails` are the handlers; `OpenFlag`, `OpenFlagFails`,
`SignFlag` are `request_resource_reload` (`W` 1800-1818), `fopen` and `fputs`
apart. `WorkerReadsFlag` is `reloadRequestedResources` (`L` 2532-2562), which
leaves the flag while a sync owns the lists; `MqttReadsFlag` is
`checkResourceReload` (`M` 51-70), which does not look. `RemoveFlag`, `Reload`,
`ReloadIsRefused` follow. `version` counts the edits of the device lists; `engine`
and `remote` are the versions they have been told of.

### IrBatch

`run[r]` is one batch: `Look` is the head of the loop (limit, cancel file, a line
that names no command), `Send` the transmission, `Doze` one step of
`cancelable_sleep_ms`, `NextLine` the rest. `Cancel` creates the file of an id and
nobody removes it. `late` counts what goes out after a cancellation.

### RfPairing

`Begin` is `rf_pair_lock`: the lock belongs to an open file (`flock`), which the
helper `codex_hal_ltcp` inherits, so `KeepsLock` holds until both are gone. `Ask`,
`Answers`, `GivesUp` are one call of the helper; `Dies` kills the child and not the
helper. `hal[c]` is what `hal` is still busy with for child `c`, whoever listens
(`EndsUnheard`). `WaitsFor` is `hal_wait_seconds`.

### BthidGuard

One module for `codex_hal_ltcp.c` and `codex_bthid_keyboard.c`, whose guards are
the same code. `Lock`, `LockFails`, `Send`, `Returns`, `End` are
`bthid_guard_begin`, the call, and `bthid_guard_end`; `Killed` drops the lock
without a stamp. `hal` serves a command at any time after it was sent
(`HalServes`) and its pointer dangles for `Teardown` after a connect or disconnect.

### PairAgent

`Round` is the head of the agent's loop: the deadline, completion, a connection of
its own in the mode `direct-only`. `Handle` is one event of the adapter, entered
with the time of the head of the round (`agent.now`), which is from before the
agent waited. The adapter's events are queued (`LinkComes`, `LinkGoes`, `Says`).

### HidControl

The daemon picks the ids of the HID control channel out of the L2CAP requests and
responses that pass (`PeerRequests`, `HubRequests`, `HubResponds`,
`PeerResponds`), in `localCid` and `remoteCid`, one pair for all links. A request counts when
its PSM is that of HID control; a successful response counts whatever channel it opens, on
whatever link, when the id in it is the one that is remembered
(`payload/source/codex_bt_pair_agent.c` 510-523). Channels are therefore of two kinds, HID
control and other (SDP, HID interrupt), and `Opens` says which kinds a host opens. `chans` and
`asks` are what the hosts have really opened and asked for; `GetReport` compares.
`Restarts` is a new daemon, which has seen nothing. `mishaps` names what the agent cannot
follow: a second HID control channel (`second`), one that opened before the daemon ran
(`unseen`), and a response for another channel that names the remembered id while an HID
channel is open or asked for (`alike`).

### HubUpdate

`up[u]` is one run of `hub_update.sh` with the application's half before it.
`Begin` asks for the checksums of the installed files and plans those that differ,
`codex_webui` last (`updateHub`); `left` is what the loop at hand has still to do, and `NextFile` its next. `BackUp` makes the rollback copies (`rb`, in RAM),
`Write` one `<dest>.codex-new` (`new`), `Install` one rename and the line in `done`
that a rollback reads. `Restart` and `Health` are `start_services` and `healthy`;
`Rollback` puts one file back, newest first, and `RolledBack` gives the result.
When boot scripts or plugins change there is no look at the port: the result is
`ok` and the hub reboots (`Reboot`). Every step that writes may fail (`Refuse`,
`WriteFails`, `InstallFails`, a branch of `BackUp`, `Install` and `Rollback`), and
`PowerCut` ends whatever runs and leaves what was renamed so far. A file is known by
its text, which two releases may share. `mishaps` names what the script cannot see:
another update at work (`together`), a rollback copy that was never made
(`uncopied`), an installed file that is not listed (`unlisted`).

## Runs

| Run | Bounds | Shows |
| --- | --- | --- |
| `writer_safety` | 3 children, 1 restart, 3/1 turns | own answers, at most once, refused means never run, the holder's request, busy means two ahead |
| `writer_contract` | 2 children, 2 restarts, 4/2 turns | refinement of `WriterCalls`; every call returns |
| `writer_unread` (violation) | 2 children | the writer's read and remove are not atomic |
| `commit_faults` | 2 requests of any kind, all faults, 1 reboot | atomicity, true answers, a truthful `activityEngineReady`, termination |
| `commit_remote` | 3 requests of any kind, failing saves, a remote | the engine never loads half a save; the remote ends with the hub's lists |
| `commit_protocol` (violation) | 2 requests, 1 reboot | a removal takes the protocol away first |
| `commit_reject` (violation) | 2 activity requests, rejected reloads, a remote | a rolled-back save stays on the remote |
| `save_answers` | 2 clients (editor, refresh, Touch screen, confirmation), edits of nothing, one list, all lists | answers agree with the disk; only overtaken children lose others' edits; no undo races its save |
| `save_lost` (violation) | as above | two editors both pass the revision check |
| `hold_safety` | 2 holds, 1 restart; connection 1, wait 3, report 2, lease 1, cap 3 turns | one key at a time, the newest press wins, true answers, no lease without an owner, the reason of an end outlives it, every key comes up in time |
| `hold_late` (violation) | 2 holds, no restart | a press sent after its failure was answered |
| `hub_helpers` | eight parts, below | published edits stay, lists are sound, no dangling references; edits reach engine and remote; batches stop when told; the pairing window is alone; `hal` never reads freed memory; pairing completes with a link; GET_REPORT is answered to its host; the result of an update is true |

`hub_helpers` has one initial state per part (`Parts`) and lets only that part move: they
share no state, so their state spaces add up (1.5 million states) and what is
checked of each is what a run of its own would check. Its bounds:

| Part | Bounds |
| --- | --- |
| `DeviceEdits` | 2 children, one with any of 11 requests, the other with any of 4 (create, delete, add, import of a list); one or two devices, one of which may be named (`NamedIds`); 2 commands per device, 3 names, one of which needs the protocol; one save or one failing read or write |
| `ReloadFlag` | 2 children with any edit, 2 stock syncs, 1 fault |
| `IrBatch` | 2 batches of up to 4 lines, limit 2, pauses of 2 steps, 2 ids and none |
| `RfPairing` | 2 children; windows of 10 and 120 s, 15 s to clean up, 8 s of patience (the code's numbers: `HAL_WAIT_SECONDS` lies between a short answer and a window) |
| `BthidGuard` | 2 tools; ticks of half a second: cooldown 3, teardown 2, times 1 to 4 |
| `PairAgent` | 1 host, 4 events; settle 3, retry 2, 2 attempts, `hcitool` 1, deadline 8 |
| `HidControl` | 2 hosts, 2 channel ids on each side; one host opens HID control only, the other one other channels as well |
| `HubUpdate` | 2 updates, together or one after the other, of either of 2 releases; 3 files: a new one, one that needs a reboot, the server; one fault or power cut |

Why the bounds are enough. Three children are the least that lets one be
turned away with two in front; what the writer still holds of an earlier caller
needs two. Two transactions show what a first leaves behind for a second
(a parked barrier, a taken-back version, a pull under way), and a third lets the
lists change again during the pull. In ActivitySave each client has up to two
calls to the writer (a save and its undo), so two clients give four, in every
order with the reads of the other. Two holds are the old and the new one, or the
two that contend for the lock; a third would be asked and waited for in the same
way, by a starter that has the lock alone. The turns are the least that keep their
order and let each clock run out while others still run. Two children are the ones
that race for a file; each request of one meets the four of the other, which
differ in how they read and write; with nine of them, a second bundle and `MapList` included, the
properties of the lists hold as well (1.6 million states of that part alone, too many for
the shared run). Two devices and a full command list give the
limit, the name that is taken and the protocol that is found by mistake. Two tools
are the one that tears `hal` down and the next one. With a second host two links
can contend for the one pair of channel ids, and a channel of another kind can carry the same
id. Two updates are the one that is cut off
and the one that repairs it; with two faults or power cuts `ResultIsTrue` holds as well
(3.2 million states of that part alone, too many for the shared run).

### Disagreements found

Each violation run is a finding in PROJECT.json, with the sentence it
contradicts. More were met and have no run of their own:

* `/api/activity-sync` has no revision: it commits what it read, and undoes a
  save that lands between (`docs/API.md:203` calls it a refresh "without an
  edit"). The rollback of a rejected or busy save has the same effect on another
  client's save. `OnlyOvertakenLoses` bounds both.
* `docs/API.md` says that the writer publishes without waiting for the activity
  engine; `L` 706-715 waits up to 25 s.
* The comment at `L` 17-20 speaks of 45 s and a rollback, `W` 2669 of 120 s and
  none.
* A request that throws in `processRequest` is answered without an id
  (`L` 2572-2578), so its caller waits 120 s, though the comment at `L` 2496
  says the id is sent "so codex_webui stops waiting".
* A renewal that looks for the notes before the holder writes its error and for the
  lease after answers 410 "The hold has ended." instead of the 502 with the error
  (`W` 5012: "A connection failure or an engine refusal comes back as 502").
* A release that arrives before the press has claimed its lease is dropped (`W`
  5655); the web page waits for the press's answer, an API client need not.
* `write_file_atomic` writes through one name per list for all children: a second
  `fopen` empties what the first has written, and a child whose file was renamed by
  another goes on writing into the live list. What `fputc` and `fclose` return is not
  looked at, so on a full disk a cut-off list is renamed into place.
* `protocol_list_has_id` looks for the digits of an id followed by anything: another
  protocol whose id starts with them counts, and the protocol is not added.
* The comment at `L` 2528 says that the flag "stays put" while a stock sync owns the
  resources; `M` 54 takes it all the same, and publishes no revision, so the remote
  is not told.
* The reload flag is removed before the reload: a reload that the engine refuses is
  not asked for again. A flag for devices that is overwritten, or removed, by one for
  activity lists is lost.
* An IR command whose pause is interrupted counts as sent and as skipped.
* A confirmation between a commit and its read-back makes the child report that "the
  offline writer returned success, but its stored resources did not match", and undo
  a good save.
* The pairing agent enters an event with a time it took before it waited for it, and
  may count a link as settled up to a poll, or a whole `hcitool`, too early.
* Two HID control channels, or one that closes before a crossing request is settled,
  leave ids that belong to neither.
* The pairing agent follows a successful L2CAP response by its id alone, and ids are unique on
  one link only: with one host's control channel open, another host's SDP channel whose id is
  the same overwrites the ids, and the next GET_REPORT is not answered (`alike`).
* An import compares its lists with no other: an `ActivityList`, `MapList` or `FunctionList`
  that names a device which is gone is taken, though the comment at `W` 3525-3526 says that
  every later activity save is then rejected; so is a device deleted between a bundle's
  `DeviceList` and the lists that name it (`import`).
* `create_ir_device_ex` does not look at what `scan_ir_resource_stats` returns: when the list
  cannot be read for a moment, the new id is chosen as if there were no device.
* `hub_update.sh:133-134` compares the checksum of a rollback copy with the one in its
  `.md5` file: when the copy cannot be made at all, neither is there, both are empty
  and the check passes. A later rollback skips the file and answers that "the hub went
  back to its previous software" (214). So does one whose file could not be added to
  `done` (190), as nobody looks.
* "If anything goes wrong, the hub keeps its current software"
  (`desktop/src/main.js:358`) holds for what the script can see fail. An update that
  needs a reboot answers `ok reboot` and never looks whether the software comes up
  (`hub_update.sh:199-202`; the application only waits for an answer), and a power cut
  leaves files of two releases and new copies on flash, with no rollback; the dialog
  does say "Keep the hub plugged in".
* Two updates of one hub share `<dest>.codex-new`; the application keeps its own apart
  (`updatingHub`), and nothing keeps two computers, or the installer, apart.

A reboot between two saves of one transaction leaves a mix of lists on disk and
no new revision; nothing at boot repairs it. `AtomicCommit` allows this only for
a request that was never answered (`Break`).

## Fairness

* `OfflineWriter`: weak fairness of each child's steps once it has begun, and of
  `Tick`: children are kernel-scheduled processes, and sleeps end. Kills need not
  happen. Nothing is assumed of the writer, so `EveryCallReturns` holds with a
  writer that is stuck or absent.
* `CommitTransaction`: weak fairness of the writer's own work (`Work`):
  `saveResource` works on local files and `config_new` is answered. The activity
  engine, the helper task and the remote get none, so `RequestsEnd` rests on the
  barrier's time-out and not on an answer.
* `ReloadFlag`: weak fairness of each child's steps once it has begun (processes of
  the kernel) and of the runtime: the worker looks every 100 ms, a task that has taken
  the flag goes on, and a stock sync ends. Nothing is assumed of codexmqtt, and no
  edit need happen. `HubHelpers` repeats it for that part.
* `ActivitySave` and `HoldToRepeat` state safety only. That a key comes up is a
  bound in turns (`KeyComesUp`); deadlock is checked in the runs of
  `HoldToRepeat`, where the clock must always be able to go on.
* The other parts of `HubHelpers` state safety only: a batch, a call of a helper,
  an update and the pairing agent end by their own limits, and waiting for `hal` by time-outs.

`CHECK_DEADLOCK FALSE` in every other run: those models are finite scripts of
requests, and stop when every request is settled.

## Proofs

`OfflineWriterProofs` proves for any set of children, any timeouts that keep
`TurnsAssumption` and any number of restarts: `TypeCorrect`,
`RequestsRunAtMostOnce`, `AnswersAreOwn`, `RefusedRequestsAreNeverRun`,
`RequestsTakeTurns`, `BusyMeansTwoAhead`, and `Refinement` (every behaviour is one of
`WriterCalls`).

None of these is inductive. The strengthening `IInv` (and for `BusyMeansTwoAhead` another one,
below) says:

* `HolderIsCritical`: a child between taking the lock and closing it is the lock's
  holder, which is what makes the exchange one-at-a-time;
* `ToldWhenDecided`: `told` is set in the last phases only;
* `UnseenUnlessSubmitted`: neither the file nor the writer has the request of a
  child that has not renamed it into place, or was told that it was refused;
* `ReadableIsNew`: a request in the file has not been run, unless it is the one the
  writer has read and not yet removed;
* `WriterKnowsItsJob`, `ResponseIsTrue`, `RunsMatchVerdict`: what the writer holds
  and what is in the response file agree with the verdict on that request.

`IInv` was checked by TLC on the bounds of `writer_safety` before it was proved.
Each preservation proof has one step per action. The refinement maps each step of
the exchange to a step of `WriterCalls` or a stutter: `OpensCall`, `ClosesCall` and
`NextCalls` say which; `AnswerIsOwn` and `RefusedIsNeverRun` supply its guards.

### CommitTransaction

For any set of requests and kinds, and whatever faults the constants allow. The
answers' meaning is not inductive, because what the answer says of the lists was
decided many steps before. `Safety` proves four parts together:

* `Typed`: the types, and that a busy writer works on a request;
* `OnDisk`: at every `pc`, which lists have their new version and which the old one: a
  list no longer in `todo` is new while saving and old again while restoring;
* `Live`: what the engine has loaded of them, with `SavedIsLive` and
  `RolledBackLeavesNoTrace`;
* `Rebuilt`: the activity engine is built from the lists it should have, or an init in
  its mailbox will see to it, and the one barrier that counts is behind that init.
  Barriers that were given up before stay in front and are not counted.

`Refinement` maps every step to a step of `AtomicCommit` or a stutter; `OnDisk` gives
what the disk holds when the answer is given.

`EngineRunsWholeSaves`, `RemoteCatchesUp` and `DevicesHaveTheirProtocol` assume
`Undisturbed`: no restore fails, the engine accepts every reload, the runtime does not
die. That is not what the program promises but when: with any one of the three faults TLC finds
the first two broken (`commit_reject` is one such run), and the third by a failing restore
or a crash (`commit_protocol`). `RemoteCatchesUp` also assumes that the state digest can
be saved and announced; without it TLC finds a remote that is never told. The parts added for these are
`LoadedIsWhole` (which lists of which transaction the engine has at every `pc`) and
`RemoteFollows` (both numbers of a revision go together, and what was pulled under
the current one is what is on disk).

### ActivitySave

For any number of editors, refreshes and Touch screens and any lists. `Calls` relates
where a child is to the calls it has made, and the writer to the one it works at; from it
follows `UndoFollowsItsSave`. `Knows` says that as long as nobody has written behind a
child, what it read is what is on disk, and what it proposes, has read before, or the writer writes
for it, differs from the disk by its own edits at most. That gives `AnswerMatchesDisk`
and, as what a write can do to others' edits, `OnlyOvertakenLoses`.

### HoldToRepeat

For any number of holds and all time-outs that keep `TurnsAssumption`. Types need
`CountsAt`: at every place, how far its clock can be. `OneAtATime` is the result that the
lock, the files and the waiting are for. Its invariant `Alone` has these parts:

* `Owned`, `Turns`: leases, locks and processes go together, one press has its turn;
* `OnlyOne`: of the holds that nobody has asked to let go there is one at most;
* `Asked`: the press whose turn it is has asked every hold it has passed, and found one
  that can still press alive (`AskedAt`); one that was asked has come no further since than
  the turns that were waited allow (`AwaitedAt`). A hold that was asked before it started to connect
  finds the request first, so only one that was connecting can still press, and it has
  `ConnectTurns`, a turn to look, and a turn to release. The press waits for longer:
  this is where `ConnectTurns + 1 < WaitTurns` is used.

`LeaseHasOwner`, `PressAnswerIsTrue`, `LeaseEnds`, `ReasonOutlivesLease` and
`KeyComesUp` have small invariants of their own (`Answered`, `Quieted`, `Noted`,
`DownInTime`). `NoLatePress` is not an invariant: `hold_late` refutes it.

### HubHelpers

Six parts, for any number of children, tools and hosts and any limits that keep the
named assumptions of `HubHelpers`: numbers are numbers, `none` is no one's name, a
channel id is not 0, and hal's pointer does not dangle for longer than the guard waits
(`GuardAssumption`: a second, and a second and a half).

* `HalIsGuarded`: `Stamped` says that while the pointer dangles there is a stamp from
  no earlier than the teardown, or a caller inside is about to write it; `GuardAt` that one
  caller is inside and has slept past it.
* `WindowsAreAlone`: `OneLock` counts the helper that has inherited the lock, and
  `RadioAt` says that `hal` does nothing that no helper waits for.
* `CancellingWorks`: `Counted` relates the numbers sent and skipped to the line the batch is at;
  `Heeded` says that a batch that was asked to stop can only be in the pause after a line that was on
  its way.
* `EditsAreHeard`: a child that has emptied the flag still holds it and will write the
  names again (`OnItsWay`), and the runtime forgets a flag only with the names it read.
* `RepliesReachAskers`: as long as one host is engaged in HID control at a time (`OneHost`) with
  one channel, the two ids are those of that channel, or of the one asked for (`Known`), whatever other
  channels open on any link: their requests are passed over by the PSM, and their responses name
  another id, or are excused as `alike`.
* `PairingMeansLink`: `Timely` bounds how far the clock has gone since the agent looked;
  `OneHostLinked` says that with one host about, what the agent believes of the link is what
  is true once the rest of the queue is read.

The parts share no state: a step of the whole is a step of the part or leaves its
variables alone, and so each section proves its invariant of the part by itself. Each leaf
that rests on what the code does was seen to fail with the model changed there (the lock
not inherited, the count not kept, the empty flag taken for activity lists, a teardown longer than the cooldown).

### BusyHasTwoAhead

A child that is answered "busy" has waited its whole time, and others held the lock in
turn. No sum over the queue is needed: the model keeps with each waiting child who was
ahead of it (`ahead`), and `Waits` relates the turns of two children at a time.
`HoldsBriefly` bounds the turns of a holder by the poll's, `WaitsForHolders` says that
a child with one other ahead has waited no longer than that one has held the lock, and one
turn more when it is gone. Two waits that `TurnsAssumption` keeps apart then leave no
room for "busy" behind one holder (`OneIsNotEnough`).

### DeviceEdits

Two modules, for any number of children, any requests, any lists within
`DevicesAssumption`, and any limits. What a child knows is in `Steady`: which steps a
request comes to (`InStep`), that what a child writes is what its request makes of the list
it read (`Made`), and what it has checked of that list (`Looked`). On this rest:

* `DeletedStaysUnreferenced`: `Unseen` says that a child that deletes has found no reference in the
  lists it has looked at, and none at all once it writes. Whoever replaces such a list, a save
  (`SaveWrites`), its rollback (`SaveUndone`) or an import (`ReplaceList`), names no device that is
  gone or that such a child has passed (`OnTime`), or is excused as `reference` or `import`;
  `NamesWhatIsThere` is the step.
* `OneWriter`: as long as no two children had the temporary file open and no flush failed unseen, the
  file belongs to one child and holds what that child has written so far, so that
  nothing but a whole list is ever renamed into place.
* `EditsAreKept`: the rename publishes `Made` of what was read; what was read is what is there
  (or `lost`), so the edit applied to the list (`IntendedOf`) is what the list becomes.
* `ListsStaySound` (`DeviceListsProofs`): each edit keeps a list tidy that was tidy (`TidyEdited`,
  `TidyGrown`, `TidyLabelled`, `BuiltinAdded`). For protocols `Sound` carries two facts from the look to the
  write: a child that adds the protocol saw that it was not there (`AddsOnce`), one that
  stores a command that needs it has seen it in the file (`IsServed`), and nobody removes one.

The lemmas about lists (a position holds what was looked for, a removal or a renaming makes no
duplicate, a set in order has each member once) rest on Cardinality and on finite
numbers having a least member, which is proved here by well-founded descent in place of
the induction that the provers cannot instantiate.

### HubUpdate and the types of all parts

`UpdatesStayTrue` is proved for any files in any order, any releases and any number of updates.
`Fits` says how the update that began last and the hub's files fit at each of its steps:
`Planned` (its plan is what the release changes, its rollback copies are of the files as they
were), `Placed` (what each file and each new copy holds, by whether the loop has passed it) and
`Reported` (what its answer says). `UpdateSafe` adds that no other update is at work, which is
what `together` excuses. The loops are over the set of files that are left, which `NextFile` takes
in the script's order; the order itself matters to no property.

`TypesAreKept` joins the typing invariants of all parts (`AllTyped`) with the bounds that
the types state and no single step shows: the version the engine runs is not ahead of the edits,
and there are no more edits than children that began one (`ReloadBound`); a batch sends no more than
its limit and pauses no longer than its pause; the agent's clock and attempts stay
within its deadline and their limit.

`HubHelpers` states what the proofs assume of the constants, and TLC evaluates it:
finitely many children; numbers are numbers; the lists at the start are tidy, and so is what is
imported (it comes from a hub's export, which `ListsStaySound` shows tidy; the import looks
at the syntax only); `Texts` holds every string a list may contain; a release has a
text for each file; the pairing agent runs for a while (`Deadline # 0`).

### What the proofs changed

* Two definitions had a CASE whose arms overlap, so that CHOOSE might have taken either:
  `DeviceEdits!Intended` and `RfPairing!After`. The prover asks which; TLC takes the first.
* `DeletedIsUnreferenced` held of ids that had come back only within TLC's bounds: an old list that
  is imported, or the settings' rollback, brings a device back and later
  saves may name it again. `deleted` now forgets ids that a rename brings back.
* `Renamed` and `RemoveFirst` take the first command of a name, as `find_ir_command_span` does;
  the sets they replaced agreed with it only on lists without duplicates.
* An import excuses the missing protocol of a command whoever did it and whenever.

### Only model-checked

Liveness: `EveryCallReturns`, `RequestsEnd` and `HubCatchesUp` need fairness and ENABLED, which
are outside the prover. Every other property of a passing run is a theorem. The
sentences of the violation runs are false, so there is nothing to prove about them;
`DevicesHaveTheirProtocol` states under which hypotheses one of them does hold.

## Abstractions and assumptions

* Contents are opaque: the rules of `validateGraph`, the construction of screens
  and Home Assistant devices and all JSON handling are left out; a request is
  valid or not.
* `saveResource` and `getResource` do not run other tasks.
* A remote records the revision it saw when its pull ends, and does not make the
  hub refuse saves: with the cloud blocker on, the begin and end of its sync are
  only acknowledged (`N` 787-800), so `isAnySyncInProgress` stays false.
* Two different lists have different hashes in `activity_revision`.
* `fork` succeeds: when it fails, `main` serves the request itself.
* A save is called with a request id of its own (pid, time and hash).
* The pairing agent is prompt: time passes only while it waits for an event or for
  `hcitool`. `hal` answers a pairing window within the window and 15 s; when it
  takes longer, `WindowIsAlone` does not hold (`slow`).
* Stock clients of `hal` do not take the guard and are not modelled: `HalNeverReadsFreed`
  is about the calls of the two tools.
* A bundle's protocols need not fit its devices, as nothing compares them.
* Flash keeps renames in their order, and a rename happens as a whole (jffs2). The
  loss of power is seen by no application, so an update that it ends has no result.
* A server whose file is the one that served before the restart of the hub comes up
  again; any other may or may not.

## Not modelled

* The map's share of the implementation is small for a reason: of its 51 thousand
  lines of C, nearly 38 thousand are generated headers that embed web pages and a
  picture (`harmony_shell_assets.h`, `activity_ui_assets.h`, `remote_skin_jpg.h`) and hold
  no behaviour. Much of the 13.6 thousand that are written by hand parses forms and formats
  JSON and HTML.
* State, system, Wi-Fi, LED and Bluetooth pages; MQTT publishing; `codex_hbus.c`,
  `codex_flash_free.c`, `codex_dhcpd.c`, `codex_portal.c`: one request, one answer,
  no state that two of them share.
* `validateGraph`, the construction of screens and of Home Assistant devices: pure
  functions of JSON, covered by the repository's tests.
* `ensure_lab_target_device` looks for its device and creates it when it is missing: two
  children can create two. It is `Scan` and `AppendItem` again.
* Backups and the checks of an import; the files of a bundle that are no list of devices,
  protocols or references (automation, MQTT, Wi-Fi, Bluetooth, blocker) are one step, in
  `ReloadFlag`.
* The temporary files of `ActivityList`, `MapList` and `FunctionList`: each is replaced in one
  step. What children do to each other through a shared temporary name is modelled for the two
  lists that every edit writes. The rollback of a failed save is one step as well; between
  its three saves a child could at most look at an older list.
* Link-key files, PIN entry and the report bytes of the Bluetooth tools; a pairing with
  several hosts at once, whose one `connected` flag stands for all of them.
* The stock engines and `hal` beyond what this code relies on.
* Of the hub update: the handoff backup, which the update never reads; the staging folder
  in RAM; the application's polling of the log, which gives up after six minutes and
  changes nothing.
* Firewall rules, boot scripts, installers, the rest of the desktop and the Android
  application: clients of the HTTP interface or shell scripts that run once.

## Plan

1. Done: the exchange, the transactions, the activity saves, the held keys, the device edits, the
   reload flag, the helpers and the hub update; and a proof of every safety and action
   property that a run checks, and of both refinements.
2. The sentences that the violation runs refute, each with the weakest hypothesis under which it
   holds, as `DevicesHaveTheirProtocol` is for `commit_protocol`.
3. Safety that the liveness rests on: a step of the exchange, of a commit and of the reload
   flag that can always be taken until the call has returned.
