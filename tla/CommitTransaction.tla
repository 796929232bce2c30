-------------------------- MODULE CommitTransaction --------------------------
(***************************************************************************)
(* The transactions of codexactivity.lua, the hub's only writer of its     *)
(* configuration: commitActivityResources, commitDeviceSettings, commit-   *)
(* DeviceScreen and commitHaDevices.                                       *)
(*                                                                         *)
(* Each checks its request, saves the lists it changes one after another,  *)
(* has the engine reload them, waits (not for ever) until the activity     *)
(* engine has rebuilt, and publishes a new revision that makes the paired  *)
(* remote pull.  If a save or the reload fails it saves the old lists      *)
(* again.  The kinds differ in the lists, in their order and in what is    *)
(* undone when: SaveOrder, RestoreOrder and Strict hold the differences.   *)
(*                                                                         *)
(* The writer is one task of a cooperative runtime.  Other tasks (the two  *)
(* engines, the handler that serves a remote's pull) run where it waits:   *)
(* in sendMessage, in the barrier's sleep and between requests.            *)
(***************************************************************************)
EXTENDS Naturals, Sequences

CONSTANTS
  Txn,            \* the requests, in the order the writer takes them: 1..n
  Kinds,          \* the kinds of request that occur
  SaveFaults,     \* whether saveResource, or its read-back, may fail
  RestoreFaults,  \* whether that may also happen to a restore
  EngineRejects,  \* whether config_new may be answered with anything but true
  DigestFaults,   \* whether saving or announcing the state digest may fail
  RemotePaired,   \* whether a remote is paired with the hub
  MaxCrashes      \* how often the runtime may die and boot again

AllKinds == {"activity", "settings", "screen", "haAdd", "haRemove"}

ASSUME TxnAssumption == Txn \subseteq Nat \ {0}
ASSUME KindsAssumption == Kinds \subseteq AllKinds
ASSUME FaultsAssumption ==
  {SaveFaults, RestoreFaults, EngineRejects, DigestFaults, RemotePaired} \subseteq BOOLEAN
ASSUME CrashesAssumption == MaxCrashes \in Nat

ActivityResources == {"ActivityList", "MapList", "FunctionList"}
Resources == ActivityResources \cup {"DeviceList", "ProtocolList"}

\* A list is known by the transaction that wrote it (0: before them all); of the
\* device and protocol lists it also matters whether they hold Home Assistant
\* entries.
Value == [by : Txn \cup {0}, ha : BOOLEAN]

VARIABLES
  pc,       \* where the writer's task is
  job,      \* the request it works on, or worked on last
  todo,     \* lists still to be saved or restored
  outcome,  \* the answer to each request
  disk,     \* the lists as the resource manager has them
  engine,   \* the lists harmonyengine has loaded
  built,    \* the lists the activity engine was built from
  mailbox,  \* messages waiting for the activityengine task
  barrier,  \* the helper task that sends process_activity
  digest,   \* the state digest in memory, which remotes poll
  saved,    \* the state digest on disk
  remote,   \* the paired remote: the revision it knows and the lists it has
  crashes,  \* bound on Crash
  legit     \* history: the configurations before and after a whole transaction

writerVars == <<pc, job, todo, outcome>>
engineVars == <<engine, built, mailbox, barrier>>
digestVars == <<digest, saved>>
vars == <<writerVars, disk, engineVars, digestVars, remote, crashes, legit>>

Pcs == {"idle", "save", "reload", "await", "waiting", "publish",
        "restore", "reloadOld", "revert"}
Outcomes == {"open", "ok", "refused", "rolledBack", "notRolledBack", "lost"}
Config == [Resources -> Value]
Revision == [config : Nat, state : Nat]

\* revision, has: what the remote finished pulling last; the rest: the pull under way.
Remote == [revision : Revision, has : Config,
           seen : Revision, staged : Config, pulling : Seq(Resources)]

\* It asks for the lists one after another.
PullOrder == <<"ActivityList", "DeviceList", "FunctionList", "MapList", "ProtocolList">>

Job == [txn : Txn \cup {0}, kind : AllKinds, old : Config, config : Nat,
        changed : SUBSET Resources, clean : BOOLEAN, reloaded : BOOLEAN,
        ready : BOOLEAN]

TypeOK ==
  /\ pc \in Pcs
  /\ job \in Job
  /\ todo \in Seq(Resources)
  /\ outcome \in [Txn -> Outcomes]
  /\ disk \in Config
  /\ engine \in Config
  /\ built \in Config
  /\ mailbox \in Seq({"init", "barrier"})
  /\ barrier \in {"none", "sent", "answered"}
  /\ digest \in Revision
  /\ saved \in Revision
  /\ remote \in Remote
  /\ crashes \in Nat
  /\ legit \in SUBSET Config

Original == [r \in Resources |-> [by |-> 0, ha |-> FALSE]]
FirstRevision == [config |-> 0, state |-> 0]

Init ==
  /\ pc = "idle"
  /\ job = [txn |-> 0, kind |-> "activity", old |-> Original, config |-> 0,
            changed |-> {}, clean |-> TRUE, reloaded |-> FALSE, ready |-> FALSE]
  /\ todo = <<>>
  /\ outcome = [t \in Txn |-> "open"]
  /\ disk = Original
  /\ engine = Original
  /\ built = Original
  /\ mailbox = <<>>
  /\ barrier = "none"
  /\ digest = FirstRevision
  /\ saved = FirstRevision
  /\ remote = [revision |-> FirstRevision, has |-> Original,
               seen |-> FirstRevision, staged |-> Original, pulling |-> <<>>]
  /\ crashes = 0
  /\ legit = {Original}

-----------------------------------------------------------------------------
(* What the four transactions differ in. *)

\* The lists in the order they are saved.  The Home Assistant set touches the
\* protocol only when the first device comes or the last one goes.
SaveOrder(k, c) ==
  CASE k = "activity" -> <<"ActivityList", "MapList", "FunctionList">>
    [] k = "settings" -> <<"DeviceList">>
    [] k = "screen"   -> <<"MapList">>
    [] k = "haAdd"    -> IF c["ProtocolList"].ha
                           THEN <<"DeviceList", "MapList">>
                           ELSE <<"ProtocolList", "DeviceList", "MapList">>
    [] k = "haRemove" -> <<"ProtocolList", "DeviceList", "MapList">>

\* Bug: the rollback forgets the last list.
RestoreOrderWithoutFunctions(k, c) ==
  IF k = "activity" THEN <<"ActivityList", "MapList">> ELSE SaveOrder(k, c)

RestoreOrder(k, c) == SaveOrder(k, c)

\* Bug: of a Home Assistant set only the devices are reloaded.
ReloadOfDevicesOnly(k, changed) ==
  CASE k = "activity"               -> ActivityResources
    [] k \in {"settings", "screen"} -> changed
    [] k \in {"haAdd", "haRemove"}  -> {"DeviceList"}

\* The names sent with config_new.
ReloadOf(k, changed) ==
  CASE k = "activity"               -> ActivityResources
    [] k \in {"settings", "screen"} -> changed
    [] k \in {"haAdd", "haRemove"}  -> {"DeviceList", "ProtocolList"} \cup
                                         (changed \cap {"MapList"})

\* Only an activity save reloads after a failed save, counts a failed reload as a
\* failed rollback, and undoes everything when the revision cannot be published.
Strict(k) == k = "activity"

\* A removal needs something to remove.
Possible(k, c) == k = "haRemove" => c["DeviceList"].ha

NewValue(t, k, r, v) ==
  [by |-> t,
   ha |-> IF r \in {"DeviceList", "ProtocolList"} /\ k \in {"haAdd", "haRemove"}
            THEN k = "haAdd" ELSE v.ha]

After(t, k, c) ==
  LET order == SaveOrder(k, c)
      wrote == {order[i] : i \in DOMAIN order}
  IN  [r \in Resources |-> IF r \in wrote THEN NewValue(t, k, r, c[r]) ELSE c[r]]

-----------------------------------------------------------------------------
(* The writer. *)

\* The next request in the order of the exchange file.
IsNext(t) == /\ outcome[t] = "open"
             /\ \A u \in Txn : u < t => outcome[u] # "open"

Answer(o) == /\ outcome' = [outcome EXCEPT ![job.txn] = o]
             /\ pc' = "idle"

\* The cloud blocker is off, a list cannot be read, the request is not valid or a
\* sync is under way: nothing has been written yet.
Refuse(t) ==
  /\ pc = "idle"
  /\ IsNext(t)
  /\ outcome' = [outcome EXCEPT ![t] = "refused"]
  /\ job' = [job EXCEPT !.txn = t, !.old = disk]
  /\ UNCHANGED <<pc, todo, disk, engineVars, digestVars, remote, crashes, legit>>

\* Snapshots taken, request valid, no sync under way.
Begin(t, k) ==
  /\ pc = "idle"
  /\ IsNext(t)
  /\ Possible(k, disk)
  /\ LET order == SaveOrder(k, disk)
     IN  /\ todo' = order
         /\ job' = [txn |-> t, kind |-> k, old |-> disk, config |-> digest.config,
                    changed |-> {order[i] : i \in DOMAIN order},
                    clean |-> TRUE, reloaded |-> FALSE, ready |-> FALSE]
  /\ legit' = legit \cup {After(t, k, disk)}
  /\ pc' = "save"
  /\ UNCHANGED <<outcome, disk, engineVars, digestVars, remote, crashes>>

Written(r) == [disk EXCEPT ![r] = NewValue(job.txn, job.kind, r, job.old[r])]

\* saveResource wrote the list and read the same back.
SaveNext ==
  /\ pc = "save"
  /\ todo # <<>>
  /\ disk' = Written(Head(todo))
  /\ todo' = Tail(todo)
  /\ UNCHANGED <<pc, job, outcome, engineVars, digestVars, remote, crashes, legit>>

AllSaved ==
  /\ pc = "save"
  /\ todo = <<>>
  /\ pc' = "reload"
  /\ UNCHANGED <<job, todo, outcome, disk, engineVars, digestVars, remote, crashes,
                 legit>>

StartRestore == /\ pc' = "restore"
                /\ todo' = RestoreOrder(job.kind, job.old)

\* The save failed, or it went through and its read-back did not match.
SaveFails ==
  /\ SaveFaults
  /\ pc = "save"
  /\ todo # <<>>
  /\ disk' \in {disk, Written(Head(todo))}
  /\ StartRestore
  /\ UNCHANGED <<job, outcome, engineVars, digestVars, remote, crashes, legit>>

Load(names) == [r \in Resources |-> IF r \in names THEN disk[r] ELSE engine[r]]

\* config_new: harmonyengine loads the lists and broadcasts init_activity_engine.
ReloadEngine(names) ==
  /\ engine' = Load(names)
  /\ mailbox' = Append(mailbox, "init")

\* It answers something else than true; it may have loaded the lists all the same.
EngineRefuses(names) ==
  /\ EngineRejects
  /\ \/ ReloadEngine(names)
     \/ UNCHANGED <<engine, mailbox>>

Reload ==
  /\ pc = "reload"
  /\ ReloadEngine(ReloadOf(job.kind, job.changed))
  /\ job' = [job EXCEPT !.reloaded = TRUE]
  /\ pc' = "await"
  /\ UNCHANGED <<todo, outcome, disk, built, barrier, digestVars, remote, crashes,
                 legit>>

ReloadFails ==
  /\ pc = "reload"
  /\ EngineRefuses(ReloadOf(job.kind, job.changed))
  /\ job' = [job EXCEPT !.reloaded = TRUE]
  /\ StartRestore
  /\ UNCHANGED <<outcome, disk, built, barrier, digestVars, remote, crashes, legit>>

\* waitForActivityEngine sends process_activity from a helper task ...
SendBarrier ==
  /\ pc = "await"
  /\ barrier = "none"
  /\ barrier' = "sent"
  /\ mailbox' = Append(mailbox, "barrier")
  /\ pc' = "waiting"
  /\ UNCHANGED <<job, todo, outcome, disk, engine, built, digestVars, remote, crashes,
                 legit>>

\* Bug: the answer to an earlier barrier is waited for instead.
BarrierShared ==
  /\ pc = "await"
  /\ barrier # "none"
  /\ pc' = "waiting"
  /\ UNCHANGED <<job, todo, outcome, disk, engineVars, digestVars, remote, crashes,
                 legit>>

\* ... unless a helper that timed out earlier still hangs: "previous activity engine
\* barrier is still pending".
BarrierPending ==
  /\ pc = "await"
  /\ barrier # "none"
  /\ pc' = "publish"
  /\ UNCHANGED <<job, todo, outcome, disk, engineVars, digestVars, remote, crashes,
                 legit>>

BarrierAnswered ==
  /\ pc = "waiting"
  /\ barrier = "answered"
  /\ barrier' = "none"
  /\ job' = [job EXCEPT !.ready = TRUE]
  /\ pc' = "publish"
  /\ UNCHANGED <<todo, outcome, disk, engine, built, mailbox, digestVars, remote,
                 crashes, legit>>

\* Bug: the wait has no end.
BarrierNeverTimesOut == FALSE

\* 25 s without an answer: the helper stays parked in sendMessage.
BarrierTimesOut ==
  /\ pc = "waiting"
  /\ barrier = "sent"
  /\ pc' = "publish"
  /\ UNCHANGED <<job, todo, outcome, disk, engineVars, digestVars, remote, crashes,
                 legit>>

\* Bug: only the state version moves.
NextRevisionOfState == [digest EXCEPT !.state = @ + 1]

\* An activity save numbers its revision from the one it started with, the others
\* from the current one.
NextRevision == [config |-> 1 + IF Strict(job.kind) THEN job.config ELSE digest.config,
                 state  |-> 1 + digest.state]

Publish ==
  /\ pc = "publish"
  /\ digest' = NextRevision
  /\ saved' = NextRevision
  /\ Answer("ok")
  /\ UNCHANGED <<job, todo, disk, engineVars, remote, crashes, legit>>

\* saveStateDigest or the broadcast raises an error.
PublishFails ==
  /\ DigestFaults
  /\ pc = "publish"
  /\ digest' = NextRevision
  /\ saved' \in {saved, NextRevision}
  /\ IF Strict(job.kind)
       THEN StartRestore /\ UNCHANGED outcome
       ELSE Answer("ok") /\ UNCHANGED todo
  /\ UNCHANGED <<job, disk, engineVars, remote, crashes, legit>>

Restored(r) == [disk EXCEPT ![r] = job.old[r]]

RestoreNext ==
  /\ pc = "restore"
  /\ todo # <<>>
  /\ disk' = Restored(Head(todo))
  /\ todo' = Tail(todo)
  /\ UNCHANGED <<pc, job, outcome, engineVars, digestVars, remote, crashes, legit>>

\* A list that cannot be restored does not keep the others from it.
RestoreFails ==
  /\ RestoreFaults
  /\ pc = "restore"
  /\ todo # <<>>
  /\ disk' \in {disk, Restored(Head(todo))}
  /\ todo' = Tail(todo)
  /\ job' = [job EXCEPT !.clean = FALSE]
  /\ UNCHANGED <<pc, outcome, engineVars, digestVars, remote, crashes, legit>>

RolledBack(clean) == IF clean THEN "rolledBack" ELSE "notRolledBack"

AllRestored ==
  /\ pc = "restore"
  /\ todo = <<>>
  /\ IF Strict(job.kind) \/ job.reloaded
       THEN pc' = "reloadOld" /\ UNCHANGED outcome
       ELSE Answer(RolledBack(job.clean))
  /\ UNCHANGED <<job, todo, disk, engineVars, digestVars, remote, crashes, legit>>

ReloadOld ==
  /\ pc = "reloadOld"
  /\ ReloadEngine(ReloadOf(job.kind, job.changed))
  /\ IF Strict(job.kind)
       THEN pc' = "revert" /\ UNCHANGED outcome
       ELSE Answer(RolledBack(job.clean))
  /\ UNCHANGED <<job, todo, disk, built, barrier, digestVars, remote, crashes, legit>>

ReloadOldFails ==
  /\ pc = "reloadOld"
  /\ EngineRefuses(ReloadOf(job.kind, job.changed))
  /\ IF Strict(job.kind)
       THEN /\ job' = [job EXCEPT !.clean = FALSE]
            /\ pc' = "revert"
            /\ UNCHANGED outcome
       ELSE Answer(RolledBack(job.clean)) /\ UNCHANGED job
  /\ UNCHANGED <<todo, disk, built, barrier, digestVars, remote, crashes, legit>>

\* Bug: the rollback takes one version back, although none may have been published.
RevertByOne ==
  /\ pc = "revert"
  /\ digest' = [digest EXCEPT !.config = @ - 1]
  /\ saved' = digest'
  /\ Answer(RolledBack(job.clean))
  /\ UNCHANGED <<job, todo, disk, engineVars, remote, crashes, legit>>

\* The end of restoreSnapshots: configVersion goes back, stateVersion does not; an
\* error while saving the digest is ignored.
Revert ==
  /\ pc = "revert"
  /\ digest' = [digest EXCEPT !.config = job.config]
  /\ \/ saved' = digest'
     \/ DigestFaults /\ UNCHANGED saved
  /\ Answer(RolledBack(job.clean))
  /\ UNCHANGED <<job, todo, disk, engineVars, remote, crashes, legit>>

-----------------------------------------------------------------------------
(* The other tasks, and the paired remote. *)

Yielding == pc \in {"idle", "reload", "await", "waiting", "reloadOld", "revert"}

\* init_activity_engine: the activity engine is built from the loaded lists.
Rebuild ==
  /\ Yielding
  /\ mailbox # <<>>
  /\ Head(mailbox) = "init"
  /\ built' = engine
  /\ mailbox' = Tail(mailbox)
  /\ UNCHANGED <<writerVars, disk, engine, barrier, digestVars, remote, crashes, legit>>

\* process_activity: the helper gets its answer and ends, waited for or not.
AnswerBarrier ==
  /\ Yielding
  /\ mailbox # <<>>
  /\ Head(mailbox) = "barrier"
  /\ barrier' = IF pc = "waiting" THEN "answered" ELSE "none"
  /\ mailbox' = Tail(mailbox)
  /\ UNCHANGED <<writerVars, disk, engine, built, digestVars, remote, crashes, legit>>

\* A remote pulls when it sees a new stateVersion together with a new configVersion.
IsNews(d) == /\ d.state # remote.revision.state
             /\ d.config # remote.revision.config

StartPull ==
  /\ RemotePaired
  /\ Yielding
  /\ remote.pulling = <<>>
  /\ IsNews(digest)
  /\ remote' = [remote EXCEPT !.seen = digest, !.pulling = PullOrder]
  /\ UNCHANGED <<writerVars, disk, engineVars, digestVars, crashes, legit>>

\* proxy.resource?get, answered with the list on disk; the last one ends the pull.
Pull ==
  /\ Yielding
  /\ remote.pulling # <<>>
  /\ LET r      == Head(remote.pulling)
         rest   == Tail(remote.pulling)
         staged == [remote.staged EXCEPT ![r] = disk[r]]
     IN  remote' = IF rest # <<>>
                     THEN [remote EXCEPT !.staged = staged, !.pulling = rest]
                     ELSE [remote EXCEPT !.staged = staged, !.pulling = rest,
                                         !.has = staged, !.revision = remote.seen]
  /\ UNCHANGED <<writerVars, disk, engineVars, digestVars, crashes, legit>>

\* The runtime dies and boots again: what was in memory is read from disk, and a
\* pull under way is dropped.
Crash ==
  /\ crashes < MaxCrashes
  /\ crashes' = crashes + 1
  /\ outcome' = IF pc = "idle" THEN outcome ELSE [outcome EXCEPT ![job.txn] = "lost"]
  /\ pc' = "idle"
  /\ todo' = <<>>
  /\ engine' = disk
  /\ built' = disk
  /\ mailbox' = <<>>
  /\ barrier' = "none"
  /\ digest' = saved
  /\ remote' = [remote EXCEPT !.pulling = <<>>]
  /\ UNCHANGED <<job, disk, saved, legit>>

-----------------------------------------------------------------------------
Work ==
  \/ SaveNext \/ AllSaved \/ SaveFails
  \/ Reload \/ ReloadFails
  \/ SendBarrier \/ BarrierPending \/ BarrierAnswered \/ BarrierTimesOut
  \/ Publish \/ PublishFails
  \/ RestoreNext \/ RestoreFails \/ AllRestored
  \/ ReloadOld \/ ReloadOldFails \/ Revert

Next ==
  \/ \E t \in Txn : Refuse(t) \/ \E k \in Kinds : Begin(t, k)
  \/ Work
  \/ Rebuild \/ AnswerBarrier
  \/ StartPull \/ Pull
  \/ Crash

Spec == Init /\ [][Next]_vars

\* The writer's own steps end: saveResource works on local files and harmonyengine
\* answers config_new.  The activity engine may be busy for ever.
FairSpec == Spec /\ WF_vars(Work)

-----------------------------------------------------------------------------
(* Properties. *)

\* The last request was answered so, and nothing has happened since.
LastAnswer(o) == pc = "idle" /\ job.txn # 0 /\ outcome[job.txn] = o

\* "If anything fails, it restores the previous version": a save that reports
\* rolledBack left every list as it found it, although other lists may have been
\* written before the failing one; an activity save also has the engine run them.
RolledBackLeavesNoTrace ==
  LastAnswer("rolledBack") =>
    /\ disk = job.old
    /\ Strict(job.kind) => \A r \in ActivityResources : engine[r] = disk[r]

\* A save that reports success is on disk whole and is what the engine runs.
SavedIsLive ==
  LastAnswer("ok") => /\ disk = After(job.txn, job.kind, job.old)
                      /\ \A r \in job.changed : engine[r] = disk[r]

\* "A synchronous send is a FIFO barrier behind the init_activity_engine": a save
\* that reports activityEngineReady really has the activity engine rebuilt from the
\* lists it saved, also when an earlier barrier was given up and answered late.
ReadyMeansRebuilt ==
  pc = "publish" /\ job.ready => \A r \in job.changed : built[r] = disk[r]

\* The engine runs the lists from before a save or those from after it, never some
\* of each.
EngineNeverRunsHalfASave == engine \in legit

\* "The protocol goes first, so the engine never loads a device without it."
NoDeviceWithoutProtocol == engine["DeviceList"].ha => engine["ProtocolList"].ha

\* A remote that has pulled the current revision has the hub's lists, whatever was
\* saved and rolled back meanwhile: nothing would make it pull again.
RemoteIsUpToDate ==
  pc = "idle" /\ remote.pulling = <<>> /\ ~ IsNews(digest) => remote.has = disk

\* No request occupies the only writer for ever, though the activity engine may never
\* answer its barrier.
RequestsEnd == pc # "idle" ~> pc = "idle"

\* Seen from outside, the configuration changes in one step or not at all, unless the
\* answer says that it could not be rolled back, or there is none.
Atomic == INSTANCE AtomicCommit WITH
  Results <- LAMBDA t, c : {After(t, k, c) : k \in Kinds},
  content <- IF pc = "idle" THEN disk ELSE job.old,
  settled <- [t \in Txn |-> CASE outcome[t] = "open"                       -> "open"
                              [] outcome[t] = "ok"                         -> "saved"
                              [] outcome[t] \in {"refused", "rolledBack"}  -> "not_saved"
                              [] outcome[t] \in {"notRolledBack", "lost"}  -> "broken"]

ImplementsAtomicCommit == Atomic!Spec
=============================================================================
