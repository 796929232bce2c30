---------------------------- MODULE OfflineWriter ----------------------------
(***************************************************************************)
(* The request/response exchange between codex_webui and codexactivity.    *)
(*                                                                         *)
(* codex_webui forks one child per HTTP request (main, codex_webui.c).  A  *)
(* child that has a change for the hub's single writer calls offline_      *)
(* writer_request: it takes a flock, removes both exchange files, renames  *)
(* its request into place and polls for a response with its own id.  The   *)
(* writer is one Lua task (workerLoop, codexactivity.lua) in another       *)
(* process: it reads the request, removes it, carries it out and renames   *)
(* a response into place.  Children may be killed at any point (a hub      *)
(* update runs killall codex_webui) and the writer's process may restart.  *)
(*                                                                         *)
(* Time is counted in the 100 ms sleeps of the two polling loops.  A Tick  *)
(* happens when every child is asleep: between two sleeps a child only     *)
(* touches files in RAM.  The writer is as slow as it likes.               *)
(***************************************************************************)
EXTENDS Naturals, FiniteSets

CONSTANTS Child,        \* the forked web children; the id of a request is its child
          None,         \* "no child", "no file"
          LockTurns,    \* sleeps spent waiting for the flock (1300)
          PollTurns,    \* sleeps spent waiting for the response (1200)
          MaxRestarts   \* bound on restarts of the writer's process

ASSUME NoneAssumption == None \notin Child
\* "The wait outlasts one whole request" (codex_webui.c:2656).  The extra turn is
\* the one both loops spend before they can notice each other.
ASSUME TurnsAssumption == /\ PollTurns \in Nat
                          /\ LockTurns \in Nat
                          /\ LockTurns > PollTurns + 1
ASSUME RestartsAssumption == MaxRestarts \in Nat

VARIABLES
  phase,        \* where each child is in offline_writer_request
  turns,        \* sleeps done in the child's current polling loop
  asleep,       \* the children inside usleep
  told,         \* what the call returned to the child
  lock,         \* holder of the flock on ACTIVITY_LOCK_FILE
  requestFile,  \* whose request is in ACTIVITY_REQUEST_FILE
  responseFile, \* the answer in ACTIVITY_RESPONSE_FILE
  writer,       \* the Lua task: where it is and what it holds
  restarts,     \* restarts of the writer's process so far
  verdict,      \* history: how the writer carried each request out
  runs,         \* history: how often it did
  ahead         \* history: the children that held the flock while c waited for it

childVars  == <<phase, turns, asleep, told, ahead>>
fileVars   == <<requestFile, responseFile>>
historyVars == <<verdict, runs>>
vars == <<childVars, lock, fileVars, writer, restarts, historyVars>>

Phases == {"new", "locking", "dropResponse", "dropRequest", "submit",
           "polling", "leaving", "closing", "done", "killed"}
Answers  == {"ok", "rejected"}
Refusals == {"busy", "not_submitted"}
Tellings == {"none", "no_answer"} \cup Answers \cup Refusals

WriterPcs == {"down", "startRequest", "startResponse", "idle",
              "remove", "run", "dropOld", "publish"}

Response == [id : Child, answer : Answers]
Writer   == [pc : WriterPcs, job : Child \cup {None}, answer : Answers \cup {"none"}]

TypeOK ==
  /\ phase \in [Child -> Phases]
  /\ turns \in [Child -> Nat]
  /\ asleep \in SUBSET Child
  /\ told \in [Child -> Tellings]
  /\ lock \in Child \cup {None}
  /\ requestFile \in Child \cup {None}
  /\ responseFile \in Response \cup {None}
  /\ writer \in Writer
  /\ restarts \in Nat
  /\ verdict \in [Child -> {"not_run"} \cup Answers]
  /\ runs \in [Child -> Nat]
  /\ ahead \in [Child -> SUBSET Child]

Resting(pc) == [pc |-> pc, job |-> None, answer |-> "none"]

Init ==
  /\ phase = [c \in Child |-> "new"]
  /\ turns = [c \in Child |-> 0]
  /\ asleep = {}
  /\ told = [c \in Child |-> "none"]
  /\ lock = None
  /\ requestFile = None
  /\ responseFile = None
  /\ writer = Resting("startRequest")
  /\ restarts = 0
  /\ verdict = [c \in Child |-> "not_run"]
  /\ runs = [c \in Child |-> 0]
  /\ ahead = [c \in Child |-> {}]

-----------------------------------------------------------------------------
(* The web child: offline_writer_lock, then offline_writer_request. *)

\* Bug: the two loops are given the same bound.
LockLimitOfOneRequest == PollTurns

\* The flock's bound: the loop tries LockTurns times, sleeping after each failure.
LockLimit == LockTurns

Goto(c, p) == phase' = [phase EXCEPT ![c] = p]

Awake(c, p) == phase[c] = p /\ c \notin asleep

\* open(ACTIVITY_LOCK_FILE) succeeds, or offline_writer_lock returns -1 at once.
Begin(c) ==
  /\ phase[c] = "new"
  /\ Goto(c, "locking")
  /\ ahead' = [ahead EXCEPT ![c] = {lock} \ {None}]
  /\ UNCHANGED <<turns, asleep, told, lock, fileVars, writer, restarts, historyVars>>

BeginFails(c) ==
  /\ phase[c] = "new"
  /\ told' = [told EXCEPT ![c] = "not_submitted"]
  /\ Goto(c, "done")
  /\ UNCHANGED <<turns, asleep, ahead, lock, fileVars, writer, restarts, historyVars>>

\* flock(LOCK_EX | LOCK_NB) succeeds.  Everyone still waiting now waits behind c.
TakeLock(c) ==
  /\ Awake(c, "locking")
  /\ turns[c] < LockLimit
  /\ lock = None
  /\ lock' = c
  /\ turns' = [turns EXCEPT ![c] = 0]
  /\ ahead' = [d \in Child |-> IF phase[d] = "locking" /\ d # c
                                 THEN ahead[d] \cup {c} ELSE ahead[d]]
  /\ Goto(c, "dropResponse")
  /\ UNCHANGED <<asleep, told, fileVars, writer, restarts, historyVars>>

LockIsHeld(c) ==
  /\ Awake(c, "locking")
  /\ turns[c] < LockLimit
  /\ lock # None
  /\ asleep' = asleep \cup {c}
  /\ UNCHANGED <<phase, turns, told, ahead, lock, fileVars, writer, restarts,
                 historyVars>>

\* "another change is still being saved on the hub; try again"
GiveUpLock(c) ==
  /\ Awake(c, "locking")
  /\ turns[c] >= LockLimit
  /\ told' = [told EXCEPT ![c] = "busy"]
  /\ Goto(c, "done")
  /\ UNCHANGED <<turns, asleep, ahead, lock, fileVars, writer, restarts, historyVars>>

DropResponse(c) ==
  /\ phase[c] = "dropResponse"
  /\ responseFile' = None
  /\ Goto(c, "dropRequest")
  /\ UNCHANGED <<turns, asleep, told, ahead, lock, requestFile, writer, restarts,
                 historyVars>>

DropRequest(c) ==
  /\ phase[c] = "dropRequest"
  /\ requestFile' = None
  /\ Goto(c, "submit")
  /\ UNCHANGED <<turns, asleep, told, ahead, lock, responseFile, writer, restarts,
                 historyVars>>

\* write_file_atomic: a rename of the finished file, or an error before it.
Submit(c) ==
  /\ phase[c] = "submit"
  /\ requestFile' = c
  /\ Goto(c, "polling")
  /\ UNCHANGED <<turns, asleep, told, ahead, lock, responseFile, writer, restarts,
                 historyVars>>

\* Bug: a failure after the rename (chmod, sync) is reported as "not submitted".
SubmitFailsLate(c) ==
  /\ phase[c] = "submit"
  /\ requestFile' = c
  /\ told' = [told EXCEPT ![c] = "not_submitted"]
  /\ Goto(c, "closing")
  /\ UNCHANGED <<turns, asleep, ahead, lock, responseFile, writer, restarts,
                 historyVars>>

SubmitFails(c) ==
  /\ phase[c] = "submit"
  /\ told' = [told EXCEPT ![c] = "not_submitted"]
  /\ Goto(c, "leaving")
  /\ UNCHANGED <<turns, asleep, ahead, lock, fileVars, writer, restarts, historyVars>>

\* Bug: any response is taken for one's own.
IsAnyAnswer(c, r) == r # None

\* The response the child takes for its own: its id is compared with the request's.
IsAnswerFor(c, r) == r # None /\ r.id = c

TakeAnswer(c) ==
  /\ Awake(c, "polling")
  /\ turns[c] < PollTurns
  /\ responseFile # None
  /\ IsAnswerFor(c, responseFile)
  /\ told' = [told EXCEPT ![c] = responseFile.answer]
  /\ responseFile' = None
  /\ Goto(c, "leaving")
  /\ UNCHANGED <<turns, asleep, ahead, lock, requestFile, writer, restarts,
                 historyVars>>

\* Bug: a response to somebody else starts the wait afresh.
KeepPollingAfresh(c) ==
  /\ Awake(c, "polling")
  /\ turns[c] < PollTurns
  /\ ~ IsAnswerFor(c, responseFile)
  /\ turns' = [turns EXCEPT ![c] = IF responseFile # None THEN 0 ELSE @]
  /\ asleep' = asleep \cup {c}
  /\ UNCHANGED <<phase, told, ahead, lock, fileVars, writer, restarts, historyVars>>

\* No response yet, or somebody else's: sleep 100 ms.
KeepPolling(c) ==
  /\ Awake(c, "polling")
  /\ turns[c] < PollTurns
  /\ ~ IsAnswerFor(c, responseFile)
  /\ asleep' = asleep \cup {c}
  /\ UNCHANGED <<phase, turns, told, ahead, lock, fileVars, writer, restarts,
                 historyVars>>

\* Bug: a timeout is reported like a rejection.
GiveUpAnswerAsRejected(c) ==
  /\ Awake(c, "polling")
  /\ turns[c] >= PollTurns
  /\ told' = [told EXCEPT ![c] = "rejected"]
  /\ Goto(c, "leaving")
  /\ UNCHANGED <<turns, asleep, ahead, lock, fileVars, writer, restarts, historyVars>>

\* OFFLINE_WRITER_NO_ANSWER: "the plugin may still be applying the request".
GiveUpAnswer(c) ==
  /\ Awake(c, "polling")
  /\ turns[c] >= PollTurns
  /\ told' = [told EXCEPT ![c] = "no_answer"]
  /\ Goto(c, "leaving")
  /\ UNCHANGED <<turns, asleep, ahead, lock, fileVars, writer, restarts, historyVars>>

\* Bug: the request of a child that gives up stays in place.
LeaveRequestBehind(c) ==
  /\ phase[c] = "leaving"
  /\ Goto(c, "closing")
  /\ UNCHANGED <<turns, asleep, told, ahead, lock, fileVars, writer, restarts,
                 historyVars>>

\* The "out:" label: unlink the request, whoever's it is by now, then close the lock.
Leave(c) ==
  /\ phase[c] = "leaving"
  /\ requestFile' = None
  /\ Goto(c, "closing")
  /\ UNCHANGED <<turns, asleep, told, ahead, lock, responseFile, writer, restarts,
                 historyVars>>

Close(c) ==
  /\ phase[c] = "closing"
  /\ lock' = None
  /\ Goto(c, "done")
  /\ UNCHANGED <<turns, asleep, told, ahead, fileVars, writer, restarts, historyVars>>

\* killall codex_webui: the kernel drops the flock, the files stay where they are.
Kill(c) ==
  /\ phase[c] \notin {"new", "done", "killed"}
  /\ Goto(c, "killed")
  /\ asleep' = asleep \ {c}
  /\ lock' = IF lock = c THEN None ELSE lock
  /\ UNCHANGED <<turns, told, ahead, fileVars, writer, restarts, historyVars>>

\* 100 ms pass for every child in a polling loop.
Tick ==
  /\ asleep # {}
  /\ \A c \in Child : phase[c] \in {"new", "done", "killed"} \/ c \in asleep
  /\ turns' = [c \in Child |-> IF c \in asleep THEN turns[c] + 1 ELSE turns[c]]
  /\ asleep' = {}
  /\ UNCHANGED <<phase, told, ahead, lock, fileVars, writer, restarts, historyVars>>

-----------------------------------------------------------------------------
(* The writer's task: workerLoop and the parts of processRequest seen from  *)
(* the outside.                                                             *)

\* workerLoop starts by removing both files, one after the other.
StartRequest ==
  /\ writer.pc = "startRequest"
  /\ requestFile' = None
  /\ writer' = Resting("startResponse")
  /\ UNCHANGED <<childVars, lock, responseFile, restarts, historyVars>>

StartResponse ==
  /\ writer.pc = "startResponse"
  /\ responseFile' = None
  /\ writer' = Resting("idle")
  /\ UNCHANGED <<childVars, lock, requestFile, restarts, historyVars>>

\* Bug: a request file that is not there is taken for a request.
ReadRequestBlindly ==
  /\ writer.pc = "idle"
  /\ writer' = [pc |-> "remove", job |-> requestFile, answer |-> "none"]
  /\ UNCHANGED <<childVars, lock, fileVars, restarts, historyVars>>

ReadRequest ==
  /\ writer.pc = "idle"
  /\ requestFile # None
  /\ writer' = [pc |-> "remove", job |-> requestFile, answer |-> "none"]
  /\ UNCHANGED <<childVars, lock, fileVars, restarts, historyVars>>

\* Bug: the request is only removed with the next start of the loop.
RemoveRequestLater ==
  /\ writer.pc = "remove"
  /\ writer' = [writer EXCEPT !.pc = "run"]
  /\ UNCHANGED <<childVars, lock, fileVars, restarts, historyVars>>

\* os.remove(REQUEST_FILE) removes whatever is there now, which need not be what
\* was read.
RemoveRequest ==
  /\ writer.pc = "remove"
  /\ requestFile' = None
  /\ writer' = [writer EXCEPT !.pc = "run"]
  /\ UNCHANGED <<childVars, lock, responseFile, restarts, historyVars>>

\* processRequest under pcall: it saves, or it answers with an error.
RunRequest ==
  /\ writer.pc = "run"
  /\ \E a \in Answers :
       /\ writer' = [writer EXCEPT !.pc = "dropOld", !.answer = a]
       /\ verdict' = [verdict EXCEPT ![writer.job] = a]
  /\ runs' = [runs EXCEPT ![writer.job] = @ + 1]
  /\ UNCHANGED <<childVars, lock, fileVars, restarts>>

\* writeFileAtomic(RESPONSE_FILE): remove the old response, then rename.
DropOldResponse ==
  /\ writer.pc = "dropOld"
  /\ responseFile' = None
  /\ writer' = [writer EXCEPT !.pc = "publish"]
  /\ UNCHANGED <<childVars, lock, requestFile, restarts, historyVars>>

Publish ==
  /\ writer.pc = "publish"
  /\ responseFile' = [id |-> writer.job, answer |-> writer.answer]
  /\ writer' = Resting("idle")
  /\ UNCHANGED <<childVars, lock, requestFile, restarts, historyVars>>

\* The response cannot be encoded, written or renamed; or it is longer than the
\* 32768 bytes read_file_alloc accepts, and no child will ever see it.
PublishFails ==
  /\ writer.pc \in {"dropOld", "publish"}
  /\ writer' = Resting("idle")
  /\ UNCHANGED <<childVars, lock, fileVars, restarts, historyVars>>

\* The hub runtime stops or crashes, in the middle of a request or not.
WriterStops ==
  /\ writer.pc # "down"
  /\ restarts < MaxRestarts
  /\ restarts' = restarts + 1
  /\ writer' = Resting("down")
  /\ UNCHANGED <<childVars, lock, fileVars, historyVars>>

WriterStarts ==
  /\ writer.pc = "down"
  /\ writer' = Resting("startRequest")
  /\ UNCHANGED <<childVars, lock, fileVars, restarts, historyVars>>

-----------------------------------------------------------------------------
ChildStep(c) ==
  \/ Begin(c) \/ BeginFails(c) \/ TakeLock(c) \/ LockIsHeld(c) \/ GiveUpLock(c)
  \/ DropResponse(c) \/ DropRequest(c) \/ Submit(c) \/ SubmitFails(c)
  \/ TakeAnswer(c) \/ KeepPolling(c) \/ GiveUpAnswer(c)
  \/ Leave(c) \/ Close(c)

WriterStep ==
  \/ StartRequest \/ StartResponse
  \/ ReadRequest \/ RemoveRequest \/ RunRequest
  \/ DropOldResponse \/ Publish \/ PublishFails

Next ==
  \/ \E c \in Child : ChildStep(c) \/ Kill(c)
  \/ Tick
  \/ WriterStep
  \/ WriterStops
  \/ WriterStarts

Spec == Init /\ [][Next]_vars

\* Children are ordinary processes the kernel schedules, and sleeps end.  Nothing
\* is assumed of the writer: it may be stuck, or not running at all.
Fairness == /\ \A c \in Child : WF_vars(ChildStep(c) /\ phase[c] # "new")
            /\ WF_vars(Tick)

FairSpec == Spec /\ Fairness

-----------------------------------------------------------------------------
(* Properties. *)

\* A child that reports success or a rejection reports what the writer did with
\* its own request: never the answer to the request before it, which a slow writer
\* may publish while this child is polling.
AnswerIsOwn == \A c \in Child : told[c] \in Answers => /\ runs[c] = 1
                                                     /\ verdict[c] = told[c]

\* No request is carried out twice, though files are left behind by killed children
\* and the writer restarts: a second run would apply an old save over a newer one.
AtMostOnce == \A c \in Child : runs[c] <= 1

\* A child that was told its change was refused may safely try again: the writer
\* has not run the request, does not hold it and will not find it.
RefusedIsNeverRun == \A c \in Child : told[c] \in Refusals => /\ runs[c] = 0
                                                            /\ requestFile # c
                                                            /\ writer.job # c

\* "Requests take turns": the request waiting in the file is the lock holder's.  Only
\* a killed child leaves one behind.
RequestIsHolders == \A c \in Child : requestFile = c => \/ lock = c
                                                       \/ phase[c] = "killed"

\* "The wait outlasts one whole request": nobody is turned away as busy who had only
\* one other request in front.
BusyHasTwoAhead == \A c \in Child : told[c] = "busy" => Cardinality(ahead[c]) >= 2

\* Every call comes back, whatever the writer does: neither a stopped writer nor a
\* stream of other children's answers keeps an HTTP request open for ever.
EveryCallReturns == \A c \in Child :
  phase[c] = "locking" ~> phase[c] \in {"done", "killed"}

\* The lock is there because "two at once delete each other's files" (codex_webui.c:
\* 2654): a request leaves its file because the writer read it, because its child
\* gave up or died, or because the writer restarted.
RequestIsReadOrWithdrawn ==
  [][\A c \in Child : requestFile = c /\ requestFile' # c =>
       \/ phase[c] \in {"leaving", "killed"}
       \/ writer.job = c
       \/ writer.pc = "startRequest"]_vars

\* The exchange keeps the promise of WriterCalls.
CallOf(c) == CASE phase[c] = "new"                          -> "unborn"
               [] phase[c] = "killed" /\ told[c] = "none"   -> "died"
               [] phase[c] # "new" /\ told[c] # "none"      -> told[c]
               [] OTHER                                     -> "open"

Calls == INSTANCE WriterCalls WITH call <- [c \in Child |-> CallOf(c)]

ImplementsCalls == Calls!Spec
=============================================================================
