---------------------------- MODULE HoldToRepeat ----------------------------
(***************************************************************************)
(* Holding a key of the remote down: the children of codex_webui that      *)
(* serve the "press", "hold" and "release" requests of /api/ir-send, the   *)
(* detached holder each press starts, and the files in HOLD_DIR they share.*)
(*                                                                         *)
(* A press takes the lock, asks every other hold to let go and waits for   *)
(* it, claims its lease, starts its holder and waits for the report.  The  *)
(* holder prepares (Bluetooth, protocols: no bound), opens the connection  *)
(* to the engine, sends the press and looks at its files until it has to   *)
(* let go.  A "hold" renews the lease, a "release" leaves a release file.  *)
(* A restart of codex_webui kills them all and leaves the files.           *)
(*                                                                         *)
(* Time passes in turns of half a second.  Whatever takes less (the loops  *)
(* of 20 and 80 ms, the refusal wait, the closing of a hold) is done       *)
(* within the turn, in any interleaving; the children that serve "hold"    *)
(* and "release" may be slow.                                              *)
(***************************************************************************)
EXTENDS Naturals, FiniteSets

CONSTANTS
  Hold,          \* the holds, each with a fresh id
  None,          \* "no hold"
  ConnectTurns,  \* hold_ws_open: the longest a connection takes
  WaitTurns,     \* hold_start: how long a press waits for the others
  PipeTurns,     \* HOLD_PRESS_WAIT_MS: how long a press waits for its holder
  LeaseTurns,    \* HOLD_LEASE_MS
  MaxTurns,      \* HOLD_MAX_MS
  MaxRestarts    \* bound on the restarts of codex_webui

ASSUME NoneAssumption == None \notin Hold
ASSUME TurnsAssumption ==
  /\ {ConnectTurns, WaitTurns, PipeTurns, LeaseTurns, MaxTurns, MaxRestarts} \subseteq Nat
  /\ ConnectTurns + 1 < WaitTurns

VARIABLES
  lock,      \* who has the flock
  starter,   \* where the child that serves the press is
  todo,      \* the holds it has still to visit in this pass
  target,    \* the live hold it is about to ask to let go
  anyLive,   \* whether this pass met a live one
  waited,    \* turns it has waited, for the others or for the report
  told,      \* the answer to the press
  holder,    \* where the holder is
  report,    \* what it has written to the pipe
  spent,     \* turns it has been opening, then turns since its press
  quiet,     \* turns since it last saw the lease change
  cause,     \* why it lets go
  lease,     \* the lease file: absent, as last looked at, or grown since
  release,   \* the release file, by its first writer
  pid,       \* the pid files
  note,      \* the file <id>.error or <id>.ended, and what became of it
  oldNote,   \* notes older than 10 s
  beat,      \* where the child that serves a "hold" is
  releaser,  \* where the child that serves the "release" is
  engine,    \* the hold whose key the engine repeats
  pressed,   \* history: holds whose press was sent
  silent,    \* history: turns since the last renewal, or since the answer
  down,      \* history: turns the engine has repeated its key
  restarts

starterVars == <<lock, starter, todo, target, anyLive, waited, told>>
holderVars  == <<holder, report, spent, quiet, cause>>
fileVars    == <<lease, release, pid, note, oldNote>>
browserVars == <<beat, releaser>>
engineVars  == <<engine, pressed, down>>
vars == <<starterVars, holderVars, fileVars, browserVars, engineVars, silent, restarts>>

StarterPcs == {"new", "asking", "asleep", "claimed", "reporting", "done", "killed"}
HolderPcs  == {"none", "born", "preparing", "opening", "pressed", "sleeping", "looking",
               "releasing", "noting", "failing", "removing", "tidying", "ended", "killed"}
Tellings   == {"none", "ok", "gone", "error", "late"}
Notes      == {"none", "error", "ended", "taken", "swept"}

TypeOK ==
  /\ lock \in Hold \cup {None}
  /\ starter \in [Hold -> StarterPcs]
  /\ todo \in [Hold -> SUBSET Hold]
  /\ target \in [Hold -> Hold \cup {None}]
  /\ anyLive \in [Hold -> BOOLEAN]
  /\ waited \in [Hold -> 0 .. WaitTurns + PipeTurns]
  /\ told \in [Hold -> Tellings]
  /\ holder \in [Hold -> HolderPcs]
  /\ report \in [Hold -> {"none", "ok", "gone", "error"}]
  /\ spent \in [Hold -> 0 .. ConnectTurns + MaxTurns + 1]
  /\ quiet \in [Hold -> 0 .. LeaseTurns + 1]
  /\ cause \in [Hold -> {"none", "error", "ended"}]
  /\ lease \in [Hold -> {"absent", "seen", "grown"}]
  /\ release \in [Hold -> {"absent", "own", "other"}]
  /\ pid \in SUBSET Hold
  /\ note \in [Hold -> Notes]
  /\ oldNote \in SUBSET Hold
  /\ beat \in [Hold -> {"idle", "noError", "noEnded"}]
  /\ releaser \in [Hold -> {"idle", "checked", "done"}]
  /\ engine \in Hold \cup {None}
  /\ pressed \in SUBSET Hold
  /\ silent \in [Hold -> 0 .. LeaseTurns + 3]
  /\ down \in 0 .. MaxTurns + 3
  /\ restarts \in 0 .. MaxRestarts

Init ==
  /\ lock = None
  /\ starter = [h \in Hold |-> "new"]
  /\ todo = [h \in Hold |-> {}]
  /\ target = [h \in Hold |-> None]
  /\ anyLive = [h \in Hold |-> FALSE]
  /\ waited = [h \in Hold |-> 0]
  /\ told = [h \in Hold |-> "none"]
  /\ holder = [h \in Hold |-> "none"]
  /\ report = [h \in Hold |-> "none"]
  /\ spent = [h \in Hold |-> 0]
  /\ quiet = [h \in Hold |-> 0]
  /\ cause = [h \in Hold |-> "none"]
  /\ lease = [h \in Hold |-> "absent"]
  /\ release = [h \in Hold |-> "absent"]
  /\ pid = {}
  /\ note = [h \in Hold |-> "none"]
  /\ oldNote = {}
  /\ beat = [h \in Hold |-> "idle"]
  /\ releaser = [h \in Hold |-> "idle"]
  /\ engine = None
  /\ pressed = {}
  /\ silent = [h \in Hold |-> 0]
  /\ down = 0
  /\ restarts = 0

-----------------------------------------------------------------------------
(* The files. *)

HasLease(h)  == lease[h] # "absent"
Cancelled(h) == release[h] # "absent" \/ ~HasLease(h)

\* The release file is written by appending: its first writer counts.
WriteRelease(h, who) ==
  release' = IF release[h] = "absent" THEN [release EXCEPT ![h] = who] ELSE release

\* A holder whose process runs.
Running(h) == holder[h] \notin {"none", "ended", "killed"}

\* Somebody is about to write the pid file of this lease: it is young.
IsYoung(h) == starter[h] = "claimed" \/ holder[h] = "born"

\* A lease left without a pid is live until it is older than 5 s.
MayBeLive(h) == HasLease(h) /\ (h \in pid => Running(h))
MayBeDead(h) == HasLease(h) /\ IF h \in pid THEN ~Running(h) ELSE ~IsYoung(h)

-----------------------------------------------------------------------------
(* The press. *)

\* Bug: presses do not wait for one another.
TakeLockShared(h) ==
  /\ starter[h] = "new"
  /\ lock' = h
  /\ starter' = [starter EXCEPT ![h] = "asking"]
  /\ todo' = [todo EXCEPT ![h] = Hold \ {h}]
  /\ UNCHANGED <<target, anyLive, waited, told, holderVars, fileVars, browserVars,
                 engineVars, silent, restarts>>

TakeLock(h) ==
  /\ starter[h] = "new" /\ lock = None
  /\ lock' = h
  /\ starter' = [starter EXCEPT ![h] = "asking"]
  /\ todo' = [todo EXCEPT ![h] = Hold \ {h}]
  /\ UNCHANGED <<target, anyLive, waited, told, holderVars, fileVars, browserVars,
                 engineVars, silent, restarts>>

\* One pass over the directory, in any order: each entry of another hold is visited.
Visit(h, o) ==
  /\ starter[h] = "asking" /\ target[h] = None /\ o \in todo[h]
  /\ todo' = [todo EXCEPT ![h] = @ \ {o}]
  /\ UNCHANGED <<lock, starter, waited, told, holderVars, browserVars, engineVars,
                 silent, restarts>>

MeetLive(h, o) ==
  /\ Visit(h, o) /\ MayBeLive(o)
  /\ target' = [target EXCEPT ![h] = o]
  /\ anyLive' = [anyLive EXCEPT ![h] = TRUE]
  /\ UNCHANGED fileVars

\* The files a dead holder left, and those without a lease, are removed; so is a note
\* nobody came back for.
MeetDead(h, o) ==
  /\ Visit(h, o) /\ (~HasLease(o) \/ MayBeDead(o))
  /\ lease' = [lease EXCEPT ![o] = "absent"]
  /\ release' = [release EXCEPT ![o] = "absent"]
  /\ pid' = pid \ {o}
  /\ note' = IF o \in oldNote THEN [note EXCEPT ![o] = "swept"] ELSE note
  /\ oldNote' = oldNote \ {o}
  /\ UNCHANGED <<target, anyLive>>

\* It may have ended since it was met.
AskToLetGo(h) ==
  /\ target[h] # None
  /\ WriteRelease(target[h], "other")
  /\ target' = [target EXCEPT ![h] = None]
  /\ UNCHANGED <<lock, starter, todo, anyLive, waited, told, holderVars, lease, pid,
                 note, oldNote, browserVars, engineVars, silent, restarts>>

PassIsOver(h) == starter[h] = "asking" /\ todo[h] = {} /\ target[h] = None

\* Bug: a press asks the others and does not wait for them.
HasWaitedForNobody(h) == TRUE

\* Bug: a press waits for the others without a limit.
HasWaitedForAll(h) == FALSE

HasWaited(h) == waited[h] >= WaitTurns

WaitForOthers(h) ==
  /\ PassIsOver(h) /\ anyLive[h] /\ ~HasWaited(h)
  /\ starter' = [starter EXCEPT ![h] = "asleep"]
  /\ UNCHANGED <<lock, todo, target, anyLive, waited, told, holderVars, fileVars,
                 browserVars, engineVars, silent, restarts>>

\* The id is fresh: no lease, no note and no release of its own are there.
Claim(h) ==
  /\ PassIsOver(h) /\ (~anyLive[h] \/ HasWaited(h))
  /\ lease' = [lease EXCEPT ![h] = "seen"]
  /\ release' = [release EXCEPT ![h] = "absent"]
  /\ lock' = None
  /\ starter' = [starter EXCEPT ![h] = "claimed"]
  /\ waited' = [waited EXCEPT ![h] = 0]
  /\ anyLive' = [anyLive EXCEPT ![h] = FALSE]
  /\ UNCHANGED <<todo, target, told, holderVars, pid, note, oldNote, browserVars,
                 engineVars, silent, restarts>>

Fork(h) ==
  /\ starter[h] = "claimed"
  /\ starter' = [starter EXCEPT ![h] = "reporting"]
  /\ holder' = [holder EXCEPT ![h] = "born"]
  /\ UNCHANGED <<lock, todo, target, anyLive, waited, told, report, spent, quiet, cause,
                 fileVars, browserVars, engineVars, silent, restarts>>

Conclude(h, answer) ==
  /\ starter' = [starter EXCEPT ![h] = "done"]
  /\ told' = [told EXCEPT ![h] = answer]
  /\ waited' = [waited EXCEPT ![h] = 0]
  /\ UNCHANGED <<lock, todo, target, anyLive>>

\* No pipe, or no process.
ForkFails(h) ==
  /\ starter[h] = "claimed"
  /\ Conclude(h, "error")
  /\ lease' = [lease EXCEPT ![h] = "absent"]
  /\ UNCHANGED <<holderVars, release, pid, note, oldNote, browserVars, engineVars,
                 silent, restarts>>

ReadReport(h) ==
  /\ starter[h] = "reporting" /\ report[h] # "none"
  /\ Conclude(h, report[h])
  /\ UNCHANGED <<holderVars, fileVars, browserVars, engineVars, silent, restarts>>

GiveUp(h) ==
  /\ starter[h] = "reporting" /\ report[h] = "none" /\ waited[h] = PipeTurns
  /\ Conclude(h, "late")
  /\ WriteRelease(h, "own")
  /\ UNCHANGED <<holderVars, lease, pid, note, oldNote, browserVars, engineVars,
                 silent, restarts>>

-----------------------------------------------------------------------------
(* The holder. *)

HolderGoes(h, from, to) ==
  /\ holder[h] = from
  /\ holder' = [holder EXCEPT ![h] = to]
  /\ UNCHANGED <<starterVars, browserVars, restarts>>

WritePid(h) ==
  /\ HolderGoes(h, "born", "preparing")
  /\ pid' = pid \cup {h}
  /\ UNCHANGED <<report, spent, quiet, cause, lease, release, note, oldNote, engineVars,
                 silent>>

\* The hub id, the Bluetooth connection.
PrepareFails(h) ==
  /\ HolderGoes(h, "preparing", "failing")
  /\ UNCHANGED <<report, spent, quiet, cause, fileVars, engineVars, silent>>

\* Bug: the holder looks for a takeover only when it has pressed.
TakenOverLate(h) ==
  /\ (HolderGoes(h, "preparing", "removing") \/ HolderGoes(h, "pressed", "removing"))
  /\ Cancelled(h)
  /\ report' = [report EXCEPT ![h] = "gone"]
  /\ UNCHANGED <<spent, quiet, cause, fileVars, engineVars, silent>>

TakenOver(h) ==
  /\ HolderGoes(h, "preparing", "removing") /\ Cancelled(h)
  /\ report' = [report EXCEPT ![h] = "gone"]
  /\ UNCHANGED <<spent, quiet, cause, fileVars, engineVars, silent>>

StartOpening(h) ==
  /\ HolderGoes(h, "preparing", "opening") /\ ~Cancelled(h)
  /\ UNCHANGED <<report, spent, quiet, cause, fileVars, engineVars, silent>>

OpenFails(h) ==
  /\ HolderGoes(h, "opening", "failing")
  /\ UNCHANGED <<report, spent, quiet, cause, fileVars, engineVars, silent>>

Press(h) ==
  /\ HolderGoes(h, "opening", "pressed")
  /\ spent' = [spent EXCEPT ![h] = 0]
  /\ engine' = h
  /\ down' = 0
  /\ pressed' = pressed \cup {h}
  /\ UNCHANGED <<report, quiet, cause, fileVars, silent>>

\* The engine knows no such command: the press was sent, and changes nothing.
PressRefused(h) ==
  /\ HolderGoes(h, "opening", "failing")
  /\ pressed' = pressed \cup {h}
  /\ UNCHANGED <<report, spent, quiet, cause, fileVars, engine, down, silent>>

PressLost(h) ==
  /\ HolderGoes(h, "pressed", "failing")
  /\ UNCHANGED <<report, spent, quiet, cause, fileVars, engineVars, silent>>

\* The lease clock starts with the answer.
PressIsOut(h) ==
  /\ HolderGoes(h, "pressed", "sleeping")
  /\ report' = [report EXCEPT ![h] = "ok"]
  /\ quiet' = [quiet EXCEPT ![h] = 0]
  /\ lease' = IF HasLease(h) THEN [lease EXCEPT ![h] = "seen"] ELSE lease
  /\ silent' = [silent EXCEPT ![h] = 0]
  /\ UNCHANGED <<spent, cause, release, pid, note, oldNote, engineVars>>

\* The clocks are not looked at any more.
LetGo(h, why) ==
  /\ HolderGoes(h, "looking", "releasing")
  /\ cause' = [cause EXCEPT ![h] = why]
  /\ spent' = [spent EXCEPT ![h] = 0]
  /\ quiet' = [quiet EXCEPT ![h] = 0]
  /\ silent' = [silent EXCEPT ![h] = 0]
  /\ UNCHANGED <<report, lease, release, pid, note, oldNote, engineVars>>

\* The connection closes, or the engine refuses after all.
HoldFails(h) == LetGo(h, "error")

\* Bug: a lease that exists counts as renewed.
QuietNowIfLeased(h) == IF HasLease(h) THEN 0 ELSE quiet[h]

\* Turns since the lease changed, as of this look.
QuietNow(h) == IF lease[h] = "grown" THEN 0 ELSE quiet[h]

SeesRelease(h) ==
  LetGo(h, IF release[h] = "other" THEN "ended" ELSE "none") /\ Cancelled(h)

LeaseRunsOut(h) ==
  LetGo(h, "ended") /\ ~Cancelled(h) /\ QuietNow(h) > LeaseTurns

CapIsReached(h) ==
  LetGo(h, "ended") /\ ~Cancelled(h) /\ QuietNow(h) <= LeaseTurns /\ spent[h] > MaxTurns

\* Bug: a renewal restarts the cap as well.
HoldOnAfresh(h) ==
  /\ HolderGoes(h, "looking", "sleeping")
  /\ ~Cancelled(h) /\ QuietNow(h) <= LeaseTurns /\ spent[h] <= MaxTurns
  /\ quiet' = [quiet EXCEPT ![h] = QuietNow(h)]
  /\ spent' = IF lease[h] = "grown" THEN [spent EXCEPT ![h] = 0] ELSE spent
  /\ lease' = [lease EXCEPT ![h] = "seen"]
  /\ UNCHANGED <<report, cause, release, pid, note, oldNote, engineVars, silent>>

\* The heartbeat goes to the engine.
HoldOn(h) ==
  /\ HolderGoes(h, "looking", "sleeping")
  /\ ~Cancelled(h) /\ QuietNow(h) <= LeaseTurns /\ spent[h] <= MaxTurns
  /\ quiet' = [quiet EXCEPT ![h] = QuietNow(h)]
  /\ lease' = [lease EXCEPT ![h] = "seen"]
  /\ UNCHANGED <<report, spent, cause, release, pid, note, oldNote, engineVars, silent>>

\* Any release that arrives ends what the engine does.
SendRelease(h) ==
  /\ HolderGoes(h, "releasing", "noting")
  /\ \/ engine' = None /\ down' = 0
     \/ cause[h] = "error" /\ UNCHANGED <<engine, down>>
  /\ UNCHANGED <<report, spent, quiet, cause, fileVars, pressed, silent>>

\* Bug: only an ordinary end leaves a note.
LeaveNoteIfEnded(h) ==
  /\ HolderGoes(h, "noting", "removing")
  /\ note' = IF cause[h] = "ended" THEN [note EXCEPT ![h] = "ended"] ELSE note
  /\ UNCHANGED <<report, spent, quiet, cause, lease, release, pid, oldNote, engineVars,
                 silent>>

LeaveNote(h) ==
  /\ HolderGoes(h, "noting", "removing")
  /\ note' = IF cause[h] = "none" THEN note ELSE [note EXCEPT ![h] = cause[h]]
  /\ UNCHANGED <<report, spent, quiet, cause, lease, release, pid, oldNote, engineVars,
                 silent>>

ReportFailure(h) ==
  /\ HolderGoes(h, "failing", "removing")
  /\ report' = [report EXCEPT ![h] = "error"]
  /\ UNCHANGED <<spent, quiet, cause, fileVars, engineVars, silent>>

RemoveLease(h) ==
  /\ HolderGoes(h, "removing", "tidying")
  /\ lease' = [lease EXCEPT ![h] = "absent"]
  /\ UNCHANGED <<report, spent, quiet, cause, release, pid, note, oldNote, engineVars,
                 silent>>

RemoveRest(h) ==
  /\ HolderGoes(h, "tidying", "ended")
  /\ release' = [release EXCEPT ![h] = "absent"]
  /\ pid' = pid \ {h}
  /\ UNCHANGED <<report, spent, quiet, cause, lease, note, oldNote, engineVars, silent>>

-----------------------------------------------------------------------------
(* The browser's "hold" and "release": one child of each at a time. *)

BrowserOnly ==
  UNCHANGED <<starterVars, holderVars, pid, engineVars, restarts>>

Sent(h) == starter[h] # "new"

\* The web page renews once its press was answered.
MayBeat(h) == told[h] = "ok"

BeatGoes(h, from, to) ==
  /\ beat[h] = from
  /\ beat' = [beat EXCEPT ![h] = to]
  /\ BrowserOnly /\ UNCHANGED <<releaser, release>>

TakeNote(h) ==
  /\ note' = [note EXCEPT ![h] = "taken"]
  /\ oldNote' = oldNote \ {h}
  /\ UNCHANGED <<lease, silent>>

TakeError(h) ==
  /\ BeatGoes(h, "idle", "idle") /\ MayBeat(h) /\ note[h] = "error" /\ TakeNote(h)

NoError(h) ==
  /\ BeatGoes(h, "idle", "noError") /\ MayBeat(h) /\ note[h] # "error"
  /\ UNCHANGED <<lease, note, oldNote, silent>>

TakeEnded(h) ==
  /\ BeatGoes(h, "noError", "idle") /\ note[h] = "ended" /\ TakeNote(h)

NoEnded(h) ==
  /\ BeatGoes(h, "noError", "noEnded") /\ note[h] # "ended"
  /\ UNCHANGED <<lease, note, oldNote, silent>>

\* Bug: the lease file is opened with O_CREAT.
RenewOrCreate(h) ==
  /\ BeatGoes(h, "noEnded", "idle")
  /\ lease' = [lease EXCEPT ![h] = "grown"]
  /\ silent' = [silent EXCEPT ![h] = 0]
  /\ UNCHANGED <<note, oldNote>>

\* Only a lease that is there is renewed.
Renew(h) ==
  /\ BeatGoes(h, "noEnded", "idle") /\ HasLease(h)
  /\ lease' = [lease EXCEPT ![h] = "grown"]
  /\ silent' = [silent EXCEPT ![h] = 0]
  /\ UNCHANGED <<note, oldNote>>

NothingToRenew(h) ==
  /\ BeatGoes(h, "noEnded", "idle") /\ ~HasLease(h)
  /\ UNCHANGED <<lease, note, oldNote, silent>>

ReleaserGoes(h, from, to) ==
  /\ releaser[h] = from
  /\ releaser' = [releaser EXCEPT ![h] = to]
  /\ BrowserOnly /\ UNCHANGED <<beat, lease, note, oldNote, silent>>

FindLease(h) ==
  ReleaserGoes(h, "idle", "checked") /\ Sent(h) /\ HasLease(h) /\ UNCHANGED release

FindNoLease(h) ==
  ReleaserGoes(h, "idle", "done") /\ Sent(h) /\ ~HasLease(h) /\ UNCHANGED release

AskRelease(h) == ReleaserGoes(h, "checked", "done") /\ WriteRelease(h, "own")

-----------------------------------------------------------------------------
(* Time and restarts. *)

\* A process that only waits for time, or for something without a bound.
MayWait(h) ==
  /\ \/ starter[h] \in {"new", "asleep", "done", "killed"}
     \/ starter[h] = "reporting" /\ report[h] = "none" /\ waited[h] < PipeTurns
  /\ \/ holder[h] \in {"none", "preparing", "sleeping", "ended", "killed"}
     \/ holder[h] = "opening" /\ spent[h] < ConnectTurns

\* The hardware stops by itself when no heartbeat comes.
Tick ==
  /\ \A h \in Hold : MayWait(h)
  /\ starter' = [h \in Hold |-> IF starter[h] = "asleep" THEN "asking" ELSE starter[h]]
  /\ todo' = [h \in Hold |-> IF starter[h] = "asleep" THEN Hold \ {h} ELSE todo[h]]
  /\ anyLive' = [h \in Hold |-> IF starter[h] = "asleep" THEN FALSE ELSE anyLive[h]]
  /\ waited' = [h \in Hold |-> IF starter[h] \in {"asleep", "reporting"}
                               THEN waited[h] + 1 ELSE waited[h]]
  /\ holder' = [h \in Hold |-> IF holder[h] = "sleeping" THEN "looking" ELSE holder[h]]
  /\ spent' = [h \in Hold |-> IF holder[h] \in {"opening", "sleeping"}
                              THEN spent[h] + 1 ELSE spent[h]]
  /\ quiet' = [h \in Hold |-> IF holder[h] = "sleeping" THEN quiet[h] + 1 ELSE quiet[h]]
  /\ silent' = [h \in Hold |-> IF holder[h] = "sleeping" /\ silent[h] < LeaseTurns + 3
                               THEN silent[h] + 1 ELSE silent[h]]
  /\ IF engine # None /\ holder[engine] = "sleeping"
     THEN engine' = engine /\ down' = IF down < MaxTurns + 3 THEN down + 1 ELSE down
     ELSE engine' = None /\ down' = 0
  /\ \E aged \in SUBSET {h \in Hold : note[h] \in {"error", "ended"}} :
       oldNote' = oldNote \cup aged
  /\ UNCHANGED <<lock, target, told, report, cause, lease, release, pid, note,
                 browserVars, pressed, restarts>>

\* killall codex_webui: the children and the holders go, the flock with them.
Restart ==
  /\ restarts < MaxRestarts
  /\ restarts' = restarts + 1
  /\ starter' = [h \in Hold |-> IF starter[h] \in {"new", "done"} THEN starter[h]
                                ELSE "killed"]
  /\ holder' = [h \in Hold |-> IF Running(h) THEN "killed" ELSE holder[h]]
  /\ lock' = None
  /\ target' = [h \in Hold |-> None]
  /\ beat' = [h \in Hold |-> "idle"]
  /\ releaser' = [h \in Hold |-> IF releaser[h] = "checked" THEN "done" ELSE releaser[h]]
  /\ todo' = [h \in Hold |-> {}]
  /\ anyLive' = [h \in Hold |-> FALSE]
  /\ waited' = [h \in Hold |-> 0]
  /\ spent' = [h \in Hold |-> 0]
  /\ quiet' = [h \in Hold |-> 0]
  /\ silent' = [h \in Hold |-> 0]
  /\ UNCHANGED <<told, report, cause, fileVars, engineVars>>

-----------------------------------------------------------------------------
StarterStep(h) ==
  \/ TakeLock(h) \/ AskToLetGo(h) \/ WaitForOthers(h) \/ Claim(h) \/ Fork(h)
  \/ ForkFails(h) \/ ReadReport(h) \/ GiveUp(h)
  \/ \E o \in Hold : MeetLive(h, o) \/ MeetDead(h, o)

\* What the holder does once its press is on the way.
HolderStep(h) ==
  \/ WritePid(h) \/ OpenFails(h) \/ Press(h) \/ PressRefused(h) \/ PressLost(h)
  \/ PressIsOut(h) \/ HoldFails(h) \/ SeesRelease(h) \/ LeaseRunsOut(h)
  \/ CapIsReached(h) \/ HoldOn(h) \/ SendRelease(h) \/ LeaveNote(h) \/ ReportFailure(h)
  \/ RemoveLease(h) \/ RemoveRest(h)

Prepared(h) == PrepareFails(h) \/ TakenOver(h) \/ StartOpening(h)

BrowserStep(h) ==
  \/ TakeError(h) \/ NoError(h) \/ TakeEnded(h) \/ NoEnded(h) \/ Renew(h)
  \/ NothingToRenew(h) \/ FindLease(h) \/ FindNoLease(h) \/ AskRelease(h)

Next ==
  \/ \E h \in Hold : StarterStep(h) \/ HolderStep(h) \/ Prepared(h) \/ BrowserStep(h)
  \/ Tick
  \/ Restart

Spec == Init /\ [][Next]_vars

-----------------------------------------------------------------------------
(* What must hold. *)

\* While a holder has its key down, the engine repeats that key and no other: no other
\* hold has pressed meanwhile, and no release of an older hold has cut it off
\* (hold_start: "an older hold's release arriving after this press would cancel it").
OneAtATime == \A h \in Hold : holder[h] \in {"pressed", "sleeping", "looking"} => engine = h

\* Of two holds that have a lease at the same time, one has been asked to let go: a
\* holder that is still preparing when a newer press goes ahead without it finds the
\* request before it presses (hold_start: "two presses arriving together still leave a
\* single hold").
OneUnasked ==
  \A h, o \in Hold :
    /\ h # o /\ HasLease(h) /\ HasLease(o)
    /\ starter[h] # "killed" /\ starter[o] # "killed"
    => release[h] # "absent" \/ release[o] # "absent"

\* The answer to a press tells what went out: "ok" only after the press was sent, 410
\* only if it never is (hold_start: "nothing was sent").
PressAnswerIsTrue ==
  \A h \in Hold : /\ told[h] = "ok" => h \in pressed
                  /\ told[h] = "gone" => h \notin pressed

\* A key is up at the latest one turn after the lease of a browser that fell silent has
\* run out, whatever late renewals and looks interleave.
LeaseEnds ==
  \A h \in Hold : holder[h] = "sleeping" => silent[h] <= LeaseTurns + 1

\* A lease belongs to a press or a holder that will remove it, or to one that was killed:
\* a late renewal does not bring one back, which every later press would wait for.
LeaseHasOwner ==
  \A h \in Hold : HasLease(h) =>
    \/ starter[h] = "claimed" \/ Running(h)
    \/ starter[h] = "killed" \/ holder[h] = "killed"

\* When the lease of a hold that ended by itself is gone, its reason is there for the
\* browser, unless a browser took it or nobody came for it.
ReasonOutlivesLease ==
  \A h \in Hold : cause[h] # "none" /\ ~HasLease(h) /\ holder[h] # "killed" =>
    note[h] \in {cause[h], "taken", "swept"}

\* Every key that goes down comes up within the cap, even while its browser keeps
\* renewing the lease and never releases it, and after a restart that left nobody to
\* send the release.
KeyComesUp == engine # None => down <= MaxTurns + 1

\* After the press was answered "The hold did not start in time.", it is never sent
\* (hold_start: "make sure the holder never sends a late press").
NoLatePress ==
  [][\A h \in Hold : told[h] = "late" /\ h \in pressed' => h \in pressed]_vars
=============================================================================
