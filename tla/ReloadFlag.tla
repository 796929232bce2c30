----------------------------- MODULE ReloadFlag ------------------------------
(***************************************************************************)
(* How the engine learns of an edit.  A child that has replaced a list of  *)
(* devices writes into a flag file which lists to load again; codexactivity*)
(* takes the flag, has the engine load them and publishes a revision for   *)
(* the remote.  codexmqtt takes the same flag on its own and publishes     *)
(* nothing.                                                                *)
(*                                                                         *)
(* The lists of devices are a version, counted by the edits.  The hub's    *)
(* tasks are cooperative: one reads and removes the flag without another   *)
(* task in between, but with any child's steps.                            *)
(***************************************************************************)
EXTENDS Naturals, FiniteSets

CONSTANTS
  Child,      \* children of the web server, each with one request
  MaxBusy,    \* bound on stock syncs
  MaxFaults   \* bound on refused reloads and failing writes

VARIABLES
  ch,       \* the children: what they edit and how far they are
  version,  \* the device lists on disk
  flag,     \* what the flag file names
  task,     \* the task of the runtime that has taken the flag
  engine,   \* the version that the engine runs
  remote,   \* the version of the last published revision
  busy,     \* a stock sync owns the lists, or the engine is not listening yet
  used,     \* how many syncs and faults there have been
  mishaps   \* history: how a request for the devices was lost so far

vars == <<ch, version, flag, task, engine, remote, busy, used, mishaps>>

\* One list of devices, the lists of a bundle, or lists of activities only.
Kinds == {"devices", "bundle", "lists"}
Mishaps == {"overwritten", "removed", "refused", "mqtt", "partial"}
Idle == [pc |-> "idle", kind |-> "devices", holds |-> FALSE]
Resting == [pc |-> "idle", by |-> "worker", names |-> "none"]

\* Bug: a bundle asks for the lists of activities only.
NamesOfOne(kind) == IF kind = "devices" THEN "devices" ELSE "lists"
\* What a handler writes into the flag: with the devices, or without.
NamesOf(kind) == IF kind = "lists" THEN "lists" ELSE "devices"

Init ==
  /\ ch = [c \in Child |-> Idle]
  /\ version = 0
  /\ flag = "none"
  /\ task = Resting
  /\ engine = 0
  /\ remote = 0
  /\ busy \in BOOLEAN
  /\ used = [busy |-> 0, faults |-> 0]
  /\ mishaps = {}

Become(c, next) == ch' = [ch EXCEPT ![c] = next]
Lose(how, lost) == mishaps' = mishaps \cup IF lost THEN {how} ELSE {}
Fault == used.faults < MaxFaults /\ used' = [used EXCEPT !.faults = @ + 1]

\* The rename in write_file_atomic: the lists of devices are new.
Edit(c) ==
  /\ ch[c].pc = "idle"
  /\ \E k \in Kinds :
       /\ Become(c, [Idle EXCEPT !.pc = IF k = "bundle" THEN "rest" ELSE "flag", !.kind = k])
       /\ version' = IF k = "lists" THEN version ELSE version + 1
  /\ UNCHANGED <<flag, task, engine, remote, busy, used, mishaps>>

\* handle_import_bundle: the other lists, and the settings.
ImportRest(c) ==
  /\ ch[c].pc = "rest"
  /\ Become(c, [ch[c] EXCEPT !.pc = "flag"])
  /\ UNCHANGED <<version, flag, task, engine, remote, busy, used, mishaps>>

\* One of them cannot be written: the import ends there, without a flag.
ImportFails(c) ==
  /\ ch[c].pc = "rest"
  /\ Fault
  /\ Become(c, [ch[c] EXCEPT !.pc = "done"])
  /\ Lose("partial", TRUE)
  /\ UNCHANGED <<version, flag, task, engine, remote, busy>>

\* fopen(RESOURCE_RELOAD_FLAG, "w") empties a flag that nobody has taken yet.
OpenFlag(c) ==
  /\ ch[c].pc = "flag"
  /\ flag' = "empty"
  /\ Become(c, [ch[c] EXCEPT !.pc = "sign", !.holds = TRUE])
  /\ Lose("overwritten", flag = "devices" /\ NamesOf(ch[c].kind) = "lists")
  /\ UNCHANGED <<version, task, engine, remote, busy, used>>

\* The edit stands, and nobody hears of it.
OpenFlagFails(c) ==
  /\ ch[c].pc = "flag"
  /\ Fault
  /\ Become(c, [ch[c] EXCEPT !.pc = "done"])
  /\ Lose("partial", NamesOf(ch[c].kind) = "devices")
  /\ UNCHANGED <<version, flag, task, engine, remote, busy>>

\* fputs: into a file that somebody else may have written to, or removed.
SignFlag(c) ==
  LET names == NamesOf(ch[c].kind) IN
  /\ ch[c].pc = "sign"
  /\ flag' = IF ch[c].holds THEN names ELSE flag
  /\ Become(c, [ch[c] EXCEPT !.pc = "done", !.holds = FALSE])
  /\ Lose("overwritten", ch[c].holds /\ flag = "devices" /\ names = "lists")
  /\ UNCHANGED <<version, task, engine, remote, busy, used>>

ChildStep(c) ==
  ImportRest(c) \/ ImportFails(c) \/ OpenFlag(c) \/ OpenFlagFails(c) \/ SignFlag(c)

\* A flag that names nothing stands for the lists of devices and protocols.
FlagIsRead(by) ==
  /\ task.pc = "idle"
  /\ flag # "none"
  /\ task' = [pc |-> "read", by |-> by, names |-> IF flag = "empty" THEN "devices" ELSE flag]
  /\ UNCHANGED <<ch, version, flag, engine, remote, busy, used, mishaps>>

\* reloadRequestedResources leaves the flag where it is while a sync owns the lists.
WorkerReadsFlag == ~busy /\ FlagIsRead("worker")
\* checkResourceReload does not look.
MqttReadsFlag == FlagIsRead("mqtt")

\* os.remove: names that were written since go with it.
RemoveFlag ==
  LET Writing(c) == ch[c].holds /\ NamesOf(ch[c].kind) = "devices" IN
  /\ task.pc = "read"
  /\ flag' = "none"
  /\ task' = [task EXCEPT !.pc = "removed"]
  /\ ch' = [c \in Child |-> [ch[c] EXCEPT !.holds = FALSE]]
  /\ Lose("removed", task.names = "lists" /\ (flag = "devices" \/ \E c \in Child : Writing(c)))
  /\ UNCHANGED <<version, engine, remote, busy, used>>

\* Bug: the worker does not publish a revision either.
ReloadSilently ==
  /\ task.pc = "removed"
  /\ engine' = IF task.names = "devices" THEN version ELSE engine
  /\ remote' = remote
  /\ task' = Resting
  /\ Lose("mqtt", task.by = "mqtt")
  /\ UNCHANGED <<ch, version, flag, busy, used>>
\* config_new; the worker publishes a revision as well, and the remote pulls what is there then.
Reload ==
  /\ task.pc = "removed"
  /\ engine' = IF task.names = "devices" THEN version ELSE engine
  /\ remote' = IF task.by = "worker" THEN version ELSE remote
  /\ task' = Resting
  /\ Lose("mqtt", task.by = "mqtt")
  /\ UNCHANGED <<ch, version, flag, busy, used>>

\* The engine answers something else than true: nothing is published, and the flag is gone.
ReloadIsRefused ==
  /\ task.pc = "removed"
  /\ Fault
  /\ task' = Resting
  /\ Lose("refused", TRUE)
  /\ UNCHANGED <<ch, version, flag, engine, remote, busy>>

SyncBegins ==
  /\ task.pc = "idle" /\ ~busy
  /\ used.busy < MaxBusy
  /\ used' = [used EXCEPT !.busy = @ + 1]
  /\ busy' = TRUE
  /\ UNCHANGED <<ch, version, flag, task, engine, remote, mishaps>>

SyncEnds ==
  /\ task.pc = "idle" /\ busy
  /\ busy' = FALSE
  /\ UNCHANGED <<ch, version, flag, task, engine, remote, used, mishaps>>

RuntimeWorks == WorkerReadsFlag \/ RemoveFlag \/ Reload \/ ReloadIsRefused \/ SyncEnds

Next ==
  \/ \E c \in Child : Edit(c) \/ ChildStep(c)
  \/ MqttReadsFlag \/ SyncBegins \/ RuntimeWorks

\* The kernel runs the children, the worker looks every 100 ms, and a sync ends.
Fairness == /\ \A c \in Child : WF_vars(ChildStep(c))
            /\ WF_vars(RuntimeWorks)

Spec == Init /\ [][Next]_vars /\ Fairness

-----------------------------------------------------------------------------
TypeOK ==
  /\ \A c \in Child : ch[c].pc \in {"idle", "rest", "flag", "sign", "done"}
                      /\ ch[c].kind \in Kinds /\ ch[c].holds \in BOOLEAN
  /\ version \in 0..Cardinality(Child)
  /\ flag \in {"none", "empty", "devices", "lists"}
  /\ task.pc \in {"idle", "read", "removed"}
  /\ {engine, remote} \subseteq 0..version
  /\ busy \in BOOLEAN
  /\ mishaps \subseteq Mishaps

OnlyMishaps(names) == mishaps \subseteq names

\* A device list that is on disk but not in the engine always has somebody who still takes care
\* of it: a child on its way to the flag, the flag itself, or the task that took it. The one
\* exception is a request that was overwritten or removed by one for activity lists, refused by
\* the engine, or never made because a bundle's import or the flag's fopen failed.
StaleIsOnItsWay ==
  OnlyMishaps({"mqtt"}) /\ engine # version =>
    \/ \E c \in Child : ch[c].pc \in {"rest", "flag", "sign"} /\ NamesOf(ch[c].kind) = "devices"
    \/ flag = "devices"
    \/ task.names = "devices"

\* Every edit reaches the engine, and the remote unless codexmqtt takes the flag, in whatever
\* order the flag is written, overwritten, read and removed, with the exceptions above.
HubCatchesUp ==
  /\ <>[](OnlyMishaps({"mqtt"}) => engine = version)
  /\ <>[](OnlyMishaps({}) => remote = version)
=============================================================================
