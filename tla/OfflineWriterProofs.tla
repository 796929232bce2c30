------------------------ MODULE OfflineWriterProofs ------------------------
(***************************************************************************)
(* The safety of the exchange between the web children and the writer, for *)
(* every number of children, every length of the two waits and any number  *)
(* of restarts.                                                            *)
(***************************************************************************)
EXTENDS OfflineWriter, FiniteSetTheorems, TLAPS

\* The flock is held from the first unlink to the close, and at no other time.
Critical == {"dropResponse", "dropRequest", "submit", "polling", "leaving", "closing"}

\* Being at such a step and holding it is the same.
HolderIsCritical == \A c \in Child : phase[c] \in Critical <=> lock = c

\* Nothing is returned before the answer, the timeout or the refusal.
Deciding == {"new", "locking", "dropResponse", "dropRequest", "submit", "polling"}

\* Until then a child has been told nothing.
ToldWhenDecided == \A c \in Child : phase[c] \in Deciding => told[c] = "none"

\* The writer has no trace of c's request: it is in no file and in no variable of
\* the task, and it was not run.
Unseen(c) == /\ runs[c] = 0
             /\ requestFile # c
             /\ writer.job # c

\* The steps before the rename that makes the request readable.
Unsubmitted == {"new", "locking", "dropResponse", "dropRequest", "submit"}

\* A request that was not submitted, or was refused, left no trace.
UnseenUnlessSubmitted ==
  \A c \in Child : phase[c] \in Unsubmitted \/ told[c] \in Refusals => Unseen(c)

\* A request that can still be read was not run, and is in the writer's hands at most
\* until the writer has removed it.
ReadableIsNew ==
  \A c \in Child : requestFile = c =>
    /\ phase[c] \in {"polling", "leaving", "killed"}
    /\ runs[c] = 0
    /\ writer.job = c => writer.pc = "remove"

\* The writer has a job from the read to the answer, and runs it once in between.
WriterKnowsItsJob ==
  /\ writer.pc \in {"remove", "run"} =>
       /\ writer.job \in Child
       /\ runs[writer.job] = 0
  /\ writer.pc \in {"dropOld", "publish"} =>
       /\ writer.job \in Child
       /\ runs[writer.job] = 1
       /\ writer.answer = verdict[writer.job]
       /\ writer.answer \in Answers
  /\ writer.pc \in {"down", "startRequest", "startResponse", "idle"} => writer.job = None

\* A response file tells of a request that was run, and what came of it.
ResponseIsTrue ==
  responseFile # None => /\ runs[responseFile.id] = 1
                         /\ verdict[responseFile.id] = responseFile.answer

\* A request has a verdict when it was run, and then one.
RunsMatchVerdict ==
  \A c \in Child : \/ runs[c] = 0 /\ verdict[c] = "not_run"
                   \/ runs[c] = 1 /\ verdict[c] \in Answers

\* What the safety of the exchange follows from.
IInv ==
  /\ HolderIsCritical
  /\ ToldWhenDecided
  /\ UnseenUnlessSubmitted
  /\ ReadableIsNew
  /\ WriterKnowsItsJob
  /\ ResponseIsTrue
  /\ RunsMatchVerdict
  /\ AnswerIsOwn
-----------------------------------------------------------------------------
(* Types. *)

\* From reading a request to answering it the writer has one.
WriterHasJob ==
  /\ writer.pc \in {"remove", "run", "dropOld", "publish"} => writer.job \in Child
  /\ writer.pc \in {"dropOld", "publish"} => writer.answer \in Answers

Typed == TypeOK /\ WriterHasJob

\* At boot every variable has its type and the writer holds no request.
LEMMA InitTyped == Init => Typed
BY DEF Init, Typed, WriterHasJob, TypeOK, Resting, Phases, Tellings, Writer, WriterPcs

\* No step of a child or of the writer, nor a kill, leaves the types.
LEMMA NextTyped == Typed /\ [Next]_vars => Typed'
<1> SUFFICES ASSUME Typed, [Next]_vars PROVE Typed'
  OBVIOUS
<1> USE DEF Typed, WriterHasJob, TypeOK, Phases, Answers, Refusals, Tellings, WriterPcs,
            Response, Writer, childVars, fileVars, historyVars
<1>1. ASSUME NEW c \in Child, Begin(c) PROVE Typed'
  BY <1>1 DEF Begin, Goto
<1>2. ASSUME NEW c \in Child, BeginFails(c) PROVE Typed'
  BY <1>2 DEF BeginFails, Goto
<1>3. ASSUME NEW c \in Child, TakeLock(c) PROVE Typed'
  BY <1>3 DEF TakeLock, Goto, Awake
<1>4. ASSUME NEW c \in Child, LockIsHeld(c) PROVE Typed'
  BY <1>4 DEF LockIsHeld, Awake
<1>5. ASSUME NEW c \in Child, GiveUpLock(c) PROVE Typed'
  BY <1>5 DEF GiveUpLock, Goto, Awake
<1>6. ASSUME NEW c \in Child, DropResponse(c) PROVE Typed'
  BY <1>6 DEF DropResponse, Goto
<1>7. ASSUME NEW c \in Child, DropRequest(c) PROVE Typed'
  BY <1>7 DEF DropRequest, Goto
<1>8. ASSUME NEW c \in Child, Submit(c) PROVE Typed'
  BY <1>8 DEF Submit, Goto
<1>9. ASSUME NEW c \in Child, SubmitFails(c) PROVE Typed'
  BY <1>9 DEF SubmitFails, Goto
<1>10. ASSUME NEW c \in Child, TakeAnswer(c) PROVE Typed'
  BY <1>10 DEF TakeAnswer, Goto, Awake, IsAnswerFor
<1>11. ASSUME NEW c \in Child, KeepPolling(c) PROVE Typed'
  BY <1>11 DEF KeepPolling, Awake, IsAnswerFor
<1>12. ASSUME NEW c \in Child, GiveUpAnswer(c) PROVE Typed'
  BY <1>12 DEF GiveUpAnswer, Goto, Awake
<1>13. ASSUME NEW c \in Child, Leave(c) PROVE Typed'
  BY <1>13 DEF Leave, Goto
<1>14. ASSUME NEW c \in Child, Close(c) PROVE Typed'
  BY <1>14 DEF Close, Goto
<1>15. ASSUME NEW c \in Child, Kill(c) PROVE Typed'
  BY <1>15 DEF Kill, Goto
<1>16. CASE Tick
  BY <1>16 DEF Tick
<1>17. CASE StartRequest
  BY <1>17 DEF StartRequest, Resting
<1>18. CASE StartResponse
  BY <1>18 DEF StartResponse, Resting
<1>19. CASE ReadRequest
  BY <1>19 DEF ReadRequest
<1>20. CASE RemoveRequest
  BY <1>20 DEF RemoveRequest
<1>21. CASE RunRequest
  <2>1. PICK a \in Answers :
          /\ writer' = [writer EXCEPT !.pc = "dropOld", !.answer = a]
          /\ verdict' = [verdict EXCEPT ![writer.job] = a]
    BY <1>21 DEF RunRequest
  <2>2. writer.job \in Child
    BY <1>21 DEF RunRequest, WriterHasJob
  <2>3. writer' \in Writer /\ WriterHasJob'
    BY <2>1, <2>2
  <2>4. verdict' \in [Child -> {"not_run"} \cup Answers]
    BY <2>1, <2>2
  <2>5. runs' \in [Child -> Nat]
    BY <1>21, <2>2 DEF RunRequest
  <2> QED
    BY <1>21, <2>3, <2>4, <2>5 DEF RunRequest
<1>22. CASE DropOldResponse
  BY <1>22 DEF DropOldResponse
<1>23. CASE Publish
  <2>1. [id |-> writer.job, answer |-> writer.answer] \in Response
    BY <1>23 DEF Publish, WriterHasJob
  <2> QED
    BY <1>23, <2>1 DEF Publish, Resting, WriterHasJob
<1>24. CASE PublishFails
  BY <1>24 DEF PublishFails, Resting
<1>25. CASE WriterStops
  BY <1>25 DEF WriterStops, Resting
<1>26. CASE WriterStarts
  BY <1>26 DEF WriterStarts, Resting
<1>27. CASE UNCHANGED vars
  BY <1>27 DEF vars
<1> QED
  BY <1>1, <1>2, <1>3, <1>4, <1>5, <1>6, <1>7, <1>8, <1>9, <1>10, <1>11, <1>12, <1>13,
     <1>14, <1>15, <1>16, <1>17, <1>18, <1>19, <1>20, <1>21, <1>22, <1>23, <1>24, <1>25,
     <1>26, <1>27 DEF Next, ChildStep, WriterStep

\* The variables keep their types: in particular the writer never takes the absence
\* of a request for one, whoever removed the file under its hands.
THEOREM TypeCorrect == Spec => []TypeOK
<1>1. Spec => []Typed
  BY InitTyped, NextTyped, PTL DEF Spec
<1> QED
  BY <1>1, PTL DEF Typed

-----------------------------------------------------------------------------
(* Safety. *)

\* The strengthened invariant holds at boot, when both files are absent.
LEMMA InitIInv == Init => IInv
BY NoneAssumption
   DEF Init, IInv, HolderIsCritical, Critical, ToldWhenDecided, UnseenUnlessSubmitted,
       Unseen, ReadableIsNew, WriterKnowsItsJob, ResponseIsTrue, RunsMatchVerdict,
       AnswerIsOwn, Resting, Answers, Refusals

\* Every step keeps the strengthened invariant, one case per action.
LEMMA NextIInv == Typed /\ Typed' /\ IInv /\ [Next]_vars => IInv'
<1> SUFFICES ASSUME Typed, Typed', IInv, [Next]_vars PROVE IInv'
  OBVIOUS
<1> USE NoneAssumption
    DEF Typed, TypeOK, Phases, Answers, Refusals, Tellings, WriterPcs, Response, Writer,
        IInv, HolderIsCritical, Critical, ToldWhenDecided, Deciding,
        UnseenUnlessSubmitted, Unsubmitted, Unseen, ReadableIsNew, WriterKnowsItsJob,
        ResponseIsTrue, RunsMatchVerdict, AnswerIsOwn, childVars, fileVars, historyVars
<1>1. ASSUME NEW c \in Child, Begin(c) PROVE IInv'
  BY <1>1 DEF Begin, Goto
<1>2. ASSUME NEW c \in Child, BeginFails(c) PROVE IInv'
  BY <1>2 DEF BeginFails, Goto
<1>3. ASSUME NEW c \in Child, TakeLock(c) PROVE IInv'
  BY <1>3 DEF TakeLock, Goto, Awake
<1>4. ASSUME NEW c \in Child, LockIsHeld(c) PROVE IInv'
  BY <1>4 DEF LockIsHeld, Awake
<1>5. ASSUME NEW c \in Child, GiveUpLock(c) PROVE IInv'
  BY <1>5 DEF GiveUpLock, Goto, Awake
<1>6. ASSUME NEW c \in Child, DropResponse(c) PROVE IInv'
  BY <1>6 DEF DropResponse, Goto
<1>7. ASSUME NEW c \in Child, DropRequest(c) PROVE IInv'
  BY <1>7 DEF DropRequest, Goto
<1>8. ASSUME NEW c \in Child, Submit(c) PROVE IInv'
  BY <1>8 DEF Submit, Goto
<1>9. ASSUME NEW c \in Child, SubmitFails(c) PROVE IInv'
  BY <1>9 DEF SubmitFails, Goto
<1>10. ASSUME NEW c \in Child, TakeAnswer(c) PROVE IInv'
  BY <1>10 DEF TakeAnswer, Goto, Awake, IsAnswerFor
<1>11. ASSUME NEW c \in Child, KeepPolling(c) PROVE IInv'
  BY <1>11 DEF KeepPolling, Awake, IsAnswerFor
<1>12. ASSUME NEW c \in Child, GiveUpAnswer(c) PROVE IInv'
  BY <1>12 DEF GiveUpAnswer, Goto, Awake
<1>13. ASSUME NEW c \in Child, Leave(c) PROVE IInv'
  BY <1>13 DEF Leave, Goto
<1>14. ASSUME NEW c \in Child, Close(c) PROVE IInv'
  BY <1>14 DEF Close, Goto
<1>15. ASSUME NEW c \in Child, Kill(c) PROVE IInv'
  BY <1>15 DEF Kill, Goto
<1>16. CASE Tick
  BY <1>16 DEF Tick
<1>17. CASE StartRequest
  BY <1>17 DEF StartRequest, Resting
<1>18. CASE StartResponse
  BY <1>18 DEF StartResponse, Resting
<1>19. CASE ReadRequest
  BY <1>19 DEF ReadRequest
<1>20. CASE RemoveRequest
  BY <1>20 DEF RemoveRequest
<1>21. CASE RunRequest
  BY <1>21 DEF RunRequest
<1>22. CASE DropOldResponse
  BY <1>22 DEF DropOldResponse
<1>23. CASE Publish
  BY <1>23 DEF Publish, Resting
<1>24. CASE PublishFails
  BY <1>24 DEF PublishFails, Resting
<1>25. CASE WriterStops
  BY <1>25 DEF WriterStops, Resting
<1>26. CASE WriterStarts
  BY <1>26 DEF WriterStarts, Resting
<1>27. CASE UNCHANGED vars
  BY <1>27 DEF vars
<1> QED
  BY <1>1, <1>2, <1>3, <1>4, <1>5, <1>6, <1>7, <1>8, <1>9, <1>10, <1>11, <1>12, <1>13,
     <1>14, <1>15, <1>16, <1>17, <1>18, <1>19, <1>20, <1>21, <1>22, <1>23, <1>24, <1>25,
     <1>26, <1>27 DEF Next, ChildStep, WriterStep

\* Types and strengthened invariant hold throughout; the theorems below read it.
LEMMA Safety == Spec => [](Typed /\ IInv)
<1>1. Init => Typed /\ IInv
  BY InitTyped, InitIInv
<1>2. Typed /\ IInv /\ [Next]_vars => (Typed /\ IInv)'
  BY NextTyped, NextIInv
<1> QED
  BY <1>1, <1>2, PTL DEF Spec

\* Whatever is left in the two files by children that died and by writers that
\* stopped, no request is carried out twice.
THEOREM RequestsRunAtMostOnce == Spec => []AtMostOnce
<1>1. IInv => AtMostOnce
  BY DEF IInv, RunsMatchVerdict, AtMostOnce
<1> QED
  BY <1>1, Safety, PTL

\* A child that gets an answer gets the writer's verdict on its own request.
THEOREM AnswersAreOwn == Spec => []AnswerIsOwn
BY Safety, PTL DEF IInv

\* A refused request was not run, and no trace of it is left that could make the
\* writer run it later.
THEOREM RefusedRequestsAreNeverRun == Spec => []RefusedIsNeverRun
<1>1. IInv => RefusedIsNeverRun
  BY DEF IInv, UnseenUnlessSubmitted, Unseen, RefusedIsNeverRun
<1> QED
  BY <1>1, Safety, PTL

\* The request in the file is that of the child that holds the flock, or of a child
\* that was killed.
THEOREM RequestsTakeTurns == Spec => []RequestIsHolders
<1>1. IInv => RequestIsHolders
  BY DEF IInv, ReadableIsNew, HolderIsCritical, Critical, RequestIsHolders
<1> QED
  BY <1>1, Safety, PTL

-----------------------------------------------------------------------------
(* The two waits. *)

\* A child sleeps in one of the two polling loops, and no longer than it may.
SleepsInLoop ==
  \A c \in asleep : phase[c] = "locking" \/ (phase[c] = "polling" /\ turns[c] < PollTurns)

\* The holder of the flock has slept as often as one request lets it.
HoldsBriefly == \A h \in Child : lock = h => turns[h] <= PollTurns

\* Who was ahead of a child has held the flock.
AheadHaveHeld ==
  \A c \in Child : /\ IsFiniteSet(ahead[c]) /\ ahead[c] \subseteq Child
                   /\ \A h \in ahead[c] : phase[h] \notin {"new", "locking"}

\* A child that waits has not slept before somebody held the flock, and while it was one child
\* and no other it has slept as often as that one, and once more when it is over.
WaitsForHolders ==
  \A c \in Child :
    /\ phase[c] = "new" => turns[c] = 0
    /\ phase[c] = "locking" =>
         /\ lock # None => lock \in ahead[c]
         /\ ahead[c] = {} => turns[c] = 0 /\ c \notin asleep
         /\ \A h \in Child : ahead[c] \subseteq {h} =>
              /\ lock = h => turns[c] <= turns[h]
              /\ lock = None => /\ turns[c] <= PollTurns + 1
                                /\ c \in asleep => turns[c] <= PollTurns

\* A child that is turned away had more than one child ahead.
BusyHadOthers ==
  \A c \in Child : told[c] = "busy" =>
    phase[c] \notin {"new", "locking"} /\ ahead[c] # {} /\ \A h \in Child : ahead[c] # {h}

\* Where the children that wait for the flock are, and how long they have waited.
Waits ==
  SleepsInLoop /\ HoldsBriefly /\ AheadHaveHeld /\ WaitsForHolders /\ BusyHadOthers

\* Nobody waits at boot.
LEMMA InitWaits == Init => Waits
<1> SUFFICES ASSUME Init PROVE Waits
  OBVIOUS
<1> USE NoneAssumption, TurnsAssumption DEF Init
<1>1. SleepsInLoop /\ HoldsBriefly /\ WaitsForHolders /\ BusyHadOthers
  BY DEF SleepsInLoop, HoldsBriefly, WaitsForHolders, BusyHadOthers
<1>2. AheadHaveHeld
  BY FS_EmptySet DEF AheadHaveHeld
<1> QED
  BY <1>1, <1>2 DEF Waits

\* A step of the holder of the flock that keeps it: nobody waits longer for it.
LEMMA HolderGoesOn ==
  ASSUME Typed, Waits, NEW c \in Child, NEW p \in Critical, phase[c] \in Critical, c \notin asleep,
         Goto(c, p), told' = told \/ \E word \in Tellings \ {"busy"} : told' = [told EXCEPT ![c] = word],
         UNCHANGED <<turns, asleep, ahead, lock>>
  PROVE  Waits'
<1> USE DEF Typed, TypeOK, Critical
<1>1. /\ phase'[c] = p /\ \A d \in Child : d # c => phase'[d] = phase[d]
      /\ \A d \in Child : told'[d] = "busy" => told[d] = "busy"
  BY DEF Goto
<1>2. /\ phase'[c] \notin {"new", "locking"} /\ phase[c] \notin {"new", "locking"}
      /\ \A d \in Child : phase'[d] \in {"new", "locking"} <=> phase[d] \in {"new", "locking"}
      /\ \A d \in Child : phase'[d] \in {"new", "locking"} => phase'[d] = phase[d]
  BY <1>1
<1>3. SleepsInLoop'
  BY <1>1 DEF Waits, SleepsInLoop
<1>4. HoldsBriefly' /\ AheadHaveHeld'
  BY <1>2 DEF Waits, HoldsBriefly, AheadHaveHeld
<1>5. WaitsForHolders'
  BY <1>2 DEF Waits, WaitsForHolders
<1>6. BusyHadOthers'
  BY <1>1, <1>2 DEF Waits, BusyHadOthers
<1> QED
  BY <1>3, <1>4, <1>5, <1>6 DEF Waits

\* The flock is given back, or its holder dies: who has waited for that child alone has slept at
\* most as often as the child.
LEMMA LockIsReleased ==
  ASSUME Typed, HolderIsCritical, Waits, NEW c \in Child, lock = c,
         NEW p \in {"done", "killed"}, Goto(c, p), lock' = None, asleep' = asleep \ {c},
         UNCHANGED <<turns, told, ahead>>
  PROVE  Waits'
<1> USE NoneAssumption, TurnsAssumption DEF Typed, TypeOK
<1>1. /\ phase'[c] = p /\ \A d \in Child : d # c => phase'[d] = phase[d]
      /\ phase[c] \in Critical
  BY DEF Goto, HolderIsCritical
<1>2. /\ phase'[c] \notin {"new", "locking"} /\ phase[c] \notin {"new", "locking"}
      /\ \A d \in Child : phase'[d] \in {"new", "locking"} <=> phase[d] \in {"new", "locking"}
      /\ \A d \in Child : phase'[d] \in {"new", "locking"} => phase'[d] = phase[d] /\ d # c
  BY <1>1 DEF Critical
<1>3. SleepsInLoop'
  BY <1>1 DEF Waits, SleepsInLoop
<1>4. HoldsBriefly' /\ AheadHaveHeld'
  BY <1>2 DEF Waits, HoldsBriefly, AheadHaveHeld
<1>5. ASSUME NEW d \in Child, phase'[d] = "locking", NEW h \in Child, ahead[d] \subseteq {h}
      PROVE  turns[d] <= PollTurns
  <2>1. phase[d] = "locking" /\ c \in ahead[d]
    BY <1>2, <1>5 DEF Waits, WaitsForHolders
  <2>2. h = c
    BY <1>5, <2>1
  <2>3. turns[d] <= turns[c] /\ turns[c] <= PollTurns
    BY <1>5, <2>1, <2>2 DEF Waits, WaitsForHolders, HoldsBriefly
  <2> QED
    BY <2>3
<1>6. \A d \in Child : turns[d] <= PollTurns => turns[d] <= PollTurns + 1
  OBVIOUS
<1>7. WaitsForHolders'
  BY <1>2, <1>5, <1>6 DEF Waits, WaitsForHolders
<1>8. BusyHadOthers'
  BY <1>2 DEF Waits, BusyHadOthers
<1> QED
  BY <1>3, <1>4, <1>7, <1>8 DEF Waits

\* A child leaves that does not hold the flock: nobody has waited for it.
LEMMA BystanderLeaves ==
  ASSUME Typed, Waits, NEW c \in Child, lock # c, NEW p \in {"done", "killed"}, Goto(c, p),
         asleep' = asleep \ {c}, UNCHANGED <<turns, ahead, lock>>,
         \/ told' = told
         \/ told' = [told EXCEPT ![c] = "not_submitted"]
         \/ told' = [told EXCEPT ![c] = "busy"] /\ ahead[c] # {} /\ \A h \in Child : ahead[c] # {h}
  PROVE  Waits'
<1> USE DEF Typed, TypeOK
<1>1. /\ phase'[c] = p /\ \A d \in Child : d # c => phase'[d] = phase[d] /\ told'[d] = told[d]
      /\ told'[c] = "busy" =>
           told[c] = "busy" \/ (ahead[c] # {} /\ \A h \in Child : ahead[c] # {h})
  BY DEF Goto
<1>2. /\ phase'[c] \notin {"new", "locking"}
      /\ \A d \in Child : phase'[d] \in {"new", "locking"} => phase'[d] = phase[d] /\ d # c
  BY <1>1
<1>3. SleepsInLoop'
  BY <1>1 DEF Waits, SleepsInLoop
<1>4. HoldsBriefly' /\ AheadHaveHeld'
  BY <1>2 DEF Waits, HoldsBriefly, AheadHaveHeld
<1>5. WaitsForHolders'
  BY <1>2 DEF Waits, WaitsForHolders
<1>6. BusyHadOthers'
  BY <1>1, <1>2 DEF Waits, BusyHadOthers
<1> QED
  BY <1>3, <1>4, <1>5, <1>6 DEF Waits

\* A child that begins waits for the holder of the flock, if there is one.
LEMMA BeginWaits ==
  ASSUME Typed, HolderIsCritical, ToldWhenDecided, Waits, NEW c \in Child, Begin(c)
  PROVE  Waits'
<1> USE NoneAssumption DEF Typed, TypeOK
<1>1. /\ phase[c] = "new" /\ phase'[c] = "locking"
      /\ \A d \in Child : d # c => phase'[d] = phase[d] /\ ahead'[d] = ahead[d]
      /\ ahead'[c] = {lock} \ {None}
      /\ UNCHANGED <<turns, asleep, told, lock>>
  BY DEF Begin, Goto, childVars
<1>2. \A d \in Child : phase[d] \in Critical => phase[d] \notin {"new", "locking"}
  BY DEF Critical
<1>3. SleepsInLoop' /\ HoldsBriefly'
  BY <1>1 DEF Waits, SleepsInLoop, HoldsBriefly
<1>4. c \notin asleep
  BY <1>1 DEF Waits, SleepsInLoop
<1>5. AheadHaveHeld'
  <2>1. IsFiniteSet(ahead'[c]) /\ ahead'[c] \subseteq Child
    <3>1. lock = None \/ lock \in Child
      OBVIOUS
    <3>2. ahead'[c] = {} \/ ahead'[c] = {lock}
      BY <1>1
    <3>3. IsFiniteSet({}) /\ IsFiniteSet({lock})
      BY FS_EmptySet, FS_Singleton
    <3> QED
      BY <1>1, <3>1, <3>2, <3>3
  <2>2. \A h \in ahead'[c] : h \in Child /\ phase[h] \notin {"new", "locking"}
    BY <1>1, <1>2 DEF HolderIsCritical
  <2>3. \A d \in Child : \A h \in ahead'[d] : phase[h] \notin {"new", "locking"}
    BY <1>1, <2>2 DEF Waits, AheadHaveHeld
  <2>4. \A h : phase[h] \notin {"new", "locking"} => h # c
    BY <1>1
  <2>5. \A d \in Child : ahead'[d] \subseteq Child /\ IsFiniteSet(ahead'[d])
    BY <1>1, <2>1 DEF Waits, AheadHaveHeld
  <2>6. \A d \in Child : \A h \in ahead'[d] : phase'[h] \notin {"new", "locking"}
    BY <1>1, <2>3, <2>4, <2>5
  <2> QED
    BY <2>5, <2>6 DEF AheadHaveHeld
<1>6. turns[c] = 0 /\ lock # c
  BY <1>1 DEF Waits, WaitsForHolders, HolderIsCritical, Critical
<1>7. WaitsForHolders'
  <2>1. ASSUME NEW d \in Child, d # c
        PROVE  /\ phase'[d] = "new" => turns'[d] = 0
               /\ phase'[d] = "locking" =>
                    /\ lock' # None => lock' \in ahead'[d]
                    /\ ahead'[d] = {} => turns'[d] = 0 /\ d \notin asleep'
                    /\ \A h \in Child : ahead'[d] \subseteq {h} =>
                         /\ lock' = h => turns'[d] <= turns'[h]
                         /\ lock' = None => /\ turns'[d] <= PollTurns + 1
                                            /\ d \in asleep' => turns'[d] <= PollTurns
    BY <1>1, <2>1 DEF Waits, WaitsForHolders
  <2>2. \A h \in Child : turns[c] <= turns[h] /\ turns[c] <= PollTurns + 1
    BY <1>6, TurnsAssumption
  <2>3. lock # None => lock \in ahead'[c]
    BY <1>1
  <2> QED
    BY <1>1, <1>4, <1>6, <2>1, <2>2, <2>3 DEF WaitsForHolders
<1>8. BusyHadOthers'
  <2>1. told[c] # "busy"
    BY <1>1 DEF ToldWhenDecided, Deciding
  <2> QED
    BY <1>1, <2>1 DEF Waits, BusyHadOthers
<1> QED
  BY <1>3, <1>5, <1>7, <1>8 DEF Waits

\* Who takes the flock is ahead of everybody who waits.
LEMMA TakeLockWaits ==
  ASSUME Typed, Typed', ToldWhenDecided, Waits, NEW c \in Child, TakeLock(c)
  PROVE  Waits'
<1> USE NoneAssumption DEF Typed, TypeOK
<1>1. /\ phase[c] = "locking" /\ c \notin asleep /\ lock = None /\ lock' = c
      /\ phase'[c] = "dropResponse" /\ turns'[c] = 0
      /\ \A d \in Child : d # c => phase'[d] = phase[d] /\ turns'[d] = turns[d]
      /\ \A d \in Child : ahead'[d] = IF phase[d] = "locking" /\ d # c THEN ahead[d] \cup {c}
                                      ELSE ahead[d]
      /\ UNCHANGED <<asleep, told>>
  BY DEF TakeLock, Goto, Awake
<1>2. SleepsInLoop'
  BY <1>1 DEF Waits, SleepsInLoop
<1>3. HoldsBriefly'
  BY <1>1, TurnsAssumption DEF HoldsBriefly
<1>4. AheadHaveHeld'
  <2>1. \A d \in Child : IsFiniteSet(ahead[d] \cup {c}) /\ IsFiniteSet(ahead[d])
    BY FS_AddElement DEF Waits, AheadHaveHeld
  <2>2. \A d \in Child : IsFiniteSet(ahead'[d]) /\ ahead'[d] \subseteq Child
    BY <1>1, <2>1
  <2>3. \A d \in Child : \A h \in ahead'[d] : phase'[h] \notin {"new", "locking"}
    BY <1>1, <2>2 DEF Waits, AheadHaveHeld
  <2> QED
    BY <2>2, <2>3 DEF AheadHaveHeld
<1>5. ASSUME NEW d \in Child, phase'[d] = "locking"
      PROVE  /\ c \in ahead'[d] /\ d # c
             /\ \A h \in Child : ahead'[d] \subseteq {h} => h = c /\ turns'[d] = 0
  <2>1. phase[d] = "locking" /\ d # c /\ ahead'[d] = ahead[d] \cup {c}
    BY <1>1, <1>5
  <2>2. c \notin ahead[d]
    BY <1>1 DEF Waits, AheadHaveHeld
  <2>3. \A h \in Child : ahead'[d] \subseteq {h} => h = c /\ ahead[d] = {}
    BY <2>1, <2>2
  <2> QED
    BY <1>1, <2>1, <2>3 DEF Waits, WaitsForHolders
<1>6. WaitsForHolders'
  <2>1. \A d \in Child : phase'[d] = "new" => turns'[d] = 0
    BY <1>1 DEF Waits, WaitsForHolders
  <2>2. \A d \in Child : phase'[d] = "locking" => c \in ahead'[d]
          /\ \A h \in Child : ahead'[d] \subseteq {h} => h = c /\ turns'[d] <= turns'[h]
    <3>1. 0 <= 0
      OBVIOUS
    <3> QED
      BY <1>1, <1>5, <3>1
  <2> QED
    BY <1>1, <2>1, <2>2 DEF WaitsForHolders
<1>7. BusyHadOthers'
  <2>1. ASSUME NEW d \in Child, told[d] = "busy"
        PROVE  phase'[d] \notin {"new", "locking"} /\ ahead'[d] = ahead[d] /\ phase[d] \notin {"new", "locking"}
    BY <1>1, <2>1 DEF Waits, BusyHadOthers
  <2> QED
    BY <1>1, <2>1 DEF Waits, BusyHadOthers
<1> QED
  BY <1>2, <1>3, <1>4, <1>6, <1>7 DEF Waits

\* While one child and no other has been ahead, the wait for the flock does not run out: it
\* outlasts one whole request.
LEMMA OneIsNotEnough ==
  ASSUME Typed, Waits, NEW c \in Child, phase[c] = "locking", turns[c] >= LockTurns
  PROVE  ahead[c] # {} /\ \A h \in Child : ahead[c] # {h}
<1> USE TurnsAssumption DEF Typed, TypeOK
<1>1. ahead[c] # {}
  <2>1. LockTurns > 0
    OBVIOUS
  <2> QED
    BY <2>1 DEF Waits, WaitsForHolders
<1>2. ASSUME NEW h \in Child, ahead[c] = {h} PROVE FALSE
  <2>1. lock = None \/ lock = h
    BY <1>2 DEF Waits, WaitsForHolders
  <2>2. turns[c] <= PollTurns + 1
    <3>1. CASE lock = None
      BY <1>2, <3>1 DEF Waits, WaitsForHolders
    <3>2. CASE lock = h
      <4>1. turns[c] <= turns[h] /\ turns[h] <= PollTurns
        BY <1>2, <3>2 DEF Waits, WaitsForHolders, HoldsBriefly
      <4> QED
        BY <4>1
    <3> QED
      BY <2>1, <3>1, <3>2
  <2> QED
    BY <2>2
<1> QED
  BY <1>1, <1>2

\* A child goes to sleep: in the wait for the flock only while it is held.
LEMMA SleepWaits ==
  ASSUME Typed, Waits, NEW c \in Child, LockIsHeld(c) \/ KeepPolling(c)
  PROVE  Waits'
<1> USE DEF Typed, TypeOK
<1>1. /\ \/ phase[c] = "locking" /\ lock # None
         \/ phase[c] = "polling" /\ turns[c] < PollTurns
      /\ asleep' = asleep \cup {c}
      /\ UNCHANGED <<phase, turns, told, ahead, lock>>
  BY DEF LockIsHeld, KeepPolling, Awake
<1>2. SleepsInLoop'
  BY <1>1 DEF Waits, SleepsInLoop
<1>3. HoldsBriefly' /\ AheadHaveHeld' /\ BusyHadOthers'
  BY <1>1 DEF Waits, HoldsBriefly, AheadHaveHeld, BusyHadOthers
<1>4. phase[c] = "locking" => lock # None /\ ahead[c] # {}
  BY <1>1 DEF Waits, WaitsForHolders
<1>5. WaitsForHolders'
  BY <1>1, <1>4 DEF Waits, WaitsForHolders
<1> QED
  BY <1>2, <1>3, <1>5 DEF Waits

\* A turn of all who sleep, the holder of the flock among them.
LEMMA TickWaits ==
  ASSUME Typed, Typed', HolderIsCritical, Waits, Tick
  PROVE  Waits'
<1> USE TurnsAssumption, NoneAssumption DEF Typed, TypeOK
<1>1. /\ \A c \in Child : phase[c] \in {"new", "done", "killed"} \/ c \in asleep
      /\ \A c \in Child : turns'[c] = IF c \in asleep THEN turns[c] + 1 ELSE turns[c]
      /\ asleep' = {} /\ UNCHANGED <<phase, told, ahead, lock>>
  BY DEF Tick
<1>2. \A c \in Child : turns[c] \in Nat
  OBVIOUS
<1>3. SleepsInLoop' /\ AheadHaveHeld' /\ BusyHadOthers'
  BY <1>1 DEF Waits, SleepsInLoop, AheadHaveHeld, BusyHadOthers
<1>4. \A h \in Child : lock = h => h \in asleep /\ turns[h] < PollTurns
  BY <1>1 DEF Waits, SleepsInLoop, HolderIsCritical, Critical
<1>5. HoldsBriefly'
  BY <1>1, <1>2, <1>4 DEF HoldsBriefly
<1>6. ASSUME NEW c \in Child, phase[c] = "locking"
      PROVE  /\ c \in asleep /\ ahead[c] # {} /\ turns'[c] = turns[c] + 1
             /\ \A h \in Child : ahead[c] \subseteq {h} =>
                  /\ lock = h => turns'[c] <= turns'[h]
                  /\ lock = None => turns'[c] <= PollTurns + 1
  <2>1. c \in asleep /\ turns'[c] = turns[c] + 1
    BY <1>1, <1>6
  <2>2. ahead[c] # {}
    BY <1>6, <2>1 DEF Waits, WaitsForHolders
  <2>3. ASSUME NEW h \in Child, ahead[c] \subseteq {h}, lock = h PROVE turns'[c] <= turns'[h]
    <3>1. turns[c] <= turns[h]
      BY <1>6, <2>3 DEF Waits, WaitsForHolders
    <3>2. turns'[h] = turns[h] + 1
      BY <1>1, <1>4, <2>3
    <3> QED
      BY <1>2, <2>1, <3>1, <3>2
  <2>4. ASSUME NEW h \in Child, ahead[c] \subseteq {h}, lock = None PROVE turns'[c] <= PollTurns + 1
    <3>1. turns[c] <= PollTurns
      BY <1>6, <2>1, <2>4 DEF Waits, WaitsForHolders
    <3> QED
      BY <1>2, <2>1, <3>1
  <2> QED
    BY <2>1, <2>2, <2>3, <2>4
<1>7. \A c \in Child : phase[c] = "new" => turns'[c] = 0
  <2>1. \A c \in Child : phase[c] = "new" => c \notin asleep /\ turns[c] = 0
    BY DEF Waits, SleepsInLoop, WaitsForHolders
  <2> QED
    BY <1>1, <2>1
<1>8. \A c \in Child : phase[c] = "locking" /\ lock # None => lock \in ahead[c]
  BY DEF Waits, WaitsForHolders
<1>9. WaitsForHolders'
  BY <1>1, <1>6, <1>7, <1>8 DEF WaitsForHolders
<1> QED
  BY <1>3, <1>5, <1>9 DEF Waits

\* Every step keeps the two waits in proportion, one case per action.
LEMMA NextWaits == Typed /\ Typed' /\ IInv /\ Waits /\ [Next]_vars => Waits'
<1> SUFFICES ASSUME Typed, Typed', IInv, Waits, [Next]_vars PROVE Waits'
  OBVIOUS
<1> USE DEF IInv
<1>1. ASSUME NEW c \in Child, Begin(c) PROVE Waits'
  BY <1>1, BeginWaits
<1>2. \A c \in asleep : c \in Child /\ phase[c] \in {"locking", "polling"}
  BY DEF Waits, SleepsInLoop, Typed, TypeOK
<1>3. ASSUME NEW c \in Child, BeginFails(c) \/ GiveUpLock(c) PROVE Waits'
  <2>1. /\ phase[c] \in {"new", "locking"} /\ c \notin asleep
        /\ Goto(c, "done") /\ UNCHANGED <<turns, asleep, ahead, lock>>
    BY <1>2, <1>3 DEF BeginFails, GiveUpLock, Awake
  <2>2. lock # c
    BY <2>1 DEF HolderIsCritical, Critical
  <2>3. \/ told' = [told EXCEPT ![c] = "not_submitted"]
        \/ told' = [told EXCEPT ![c] = "busy"] /\ phase[c] = "locking" /\ turns[c] >= LockTurns
    BY <1>3 DEF BeginFails, GiveUpLock, Awake, LockLimit
  <2>4. \/ told' = [told EXCEPT ![c] = "not_submitted"]
        \/ told' = [told EXCEPT ![c] = "busy"] /\ ahead[c] # {} /\ \A h \in Child : ahead[c] # {h}
    BY <2>3, OneIsNotEnough
  <2>5. asleep' = asleep \ {c}
    BY <2>1
  <2> QED
    BY <2>1, <2>2, <2>4, <2>5, BystanderLeaves
<1>4. ASSUME NEW c \in Child, TakeLock(c) PROVE Waits'
  BY <1>4, TakeLockWaits
<1>5. ASSUME NEW c \in Child, LockIsHeld(c) \/ KeepPolling(c) PROVE Waits'
  BY <1>5, SleepWaits
<1>6. ASSUME NEW c \in Child,
             \/ DropResponse(c) \/ DropRequest(c) \/ Submit(c) \/ SubmitFails(c)
             \/ TakeAnswer(c) \/ GiveUpAnswer(c) \/ Leave(c)
      PROVE  Waits'
  <2>1. /\ \/ phase[c] \in {"dropResponse", "dropRequest", "submit", "leaving"}
           \/ phase[c] = "polling" /\ c \notin asleep
        /\ UNCHANGED <<turns, asleep, ahead, lock>>
        /\ \E p \in {"dropRequest", "submit", "polling", "leaving", "closing"} : Goto(c, p)
    BY <1>6 DEF DropResponse, DropRequest, Submit, SubmitFails, TakeAnswer, GiveUpAnswer,
       Leave, Awake
  <2>2. told' = told \/ \E word \in Tellings \ {"busy"} : told' = [told EXCEPT ![c] = word]
    BY <1>6 DEF DropResponse, DropRequest, Submit, SubmitFails, TakeAnswer, GiveUpAnswer, Leave,
                Tellings, Answers, Refusals, Typed, TypeOK, Response
  <2>3. phase[c] \in Critical /\ c \notin asleep
    BY <1>2, <2>1 DEF Critical
  <2> QED
    BY <2>1, <2>2, <2>3, HolderGoesOn DEF Critical
<1>7. ASSUME NEW c \in Child, Close(c) PROVE Waits'
  <2>1. phase[c] = "closing" /\ Goto(c, "done") /\ lock' = None /\ UNCHANGED <<turns, asleep, told, ahead>>
    BY <1>7 DEF Close
  <2>2. lock = c /\ asleep' = asleep \ {c}
    BY <1>2, <2>1 DEF HolderIsCritical, Critical
  <2> QED
    BY <2>1, <2>2, LockIsReleased
<1>8. ASSUME NEW c \in Child, Kill(c) PROVE Waits'
  BY <1>8, LockIsReleased, BystanderLeaves DEF Kill
<1>9. CASE Tick
  BY <1>9, TickWaits
<1>10. CASE WriterStep \/ WriterStops \/ WriterStarts \/ UNCHANGED vars
  <2>1. UNCHANGED <<childVars, lock>>
    BY <1>10 DEF WriterStep, WriterStops, WriterStarts, StartRequest, StartResponse,
       ReadRequest,
                 RemoveRequest, RunRequest, DropOldResponse, Publish, PublishFails, vars,
       fileVars,
                 historyVars
  <2> QED
    BY <2>1 DEF childVars, Waits, SleepsInLoop, HoldsBriefly, AheadHaveHeld, WaitsForHolders,
                BusyHadOthers
<1> QED
  BY <1>1, <1>3, <1>4, <1>5, <1>6, <1>7, <1>8, <1>9, <1>10 DEF Next, ChildStep

\* Nobody is told "busy" who had only one other request in front, killed or not.
THEOREM BusyMeansTwoAhead == Spec => []BusyHasTwoAhead
<1>1. Init => Typed /\ IInv /\ Waits
  BY InitTyped, InitIInv, InitWaits
<1>2. Typed /\ IInv /\ Waits /\ [Next]_vars => (Typed /\ IInv /\ Waits)'
  BY NextTyped, NextIInv, NextWaits
<1>3. Typed /\ Waits => BusyHasTwoAhead
  <2> SUFFICES ASSUME Typed, Waits, NEW c \in Child, told[c] = "busy"
               PROVE  Cardinality(ahead[c]) >= 2
    BY DEF BusyHasTwoAhead
  <2>1. /\ IsFiniteSet(ahead[c]) /\ ahead[c] \subseteq Child
        /\ ahead[c] # {} /\ \A h \in Child : ahead[c] # {h}
    BY DEF Waits, AheadHaveHeld, BusyHadOthers
  <2>2. Cardinality(ahead[c]) \in Nat /\ Cardinality(ahead[c]) # 0
    BY <2>1, FS_CardinalityType, FS_EmptySet
  <2>3. Cardinality(ahead[c]) # 1
    <3>1. \A h : ahead[c] = {h} => h \in Child
      BY <2>1
    <3> QED
      BY <2>1, <3>1, FS_Singleton
  <2> QED
    BY <2>2, <2>3
<1> QED
  BY <1>1, <1>2, <1>3, PTL DEF Spec

-----------------------------------------------------------------------------
(* The exchange implements WriterCalls. *)

\* At boot no call is open, so the exchange starts where the contract starts.
LEMMA InitCalls == Init => Calls!Init
BY DEF Init, Calls!Init, CallOf

\* Steps of the contract, told by what they do to the call of one child.
LEMMA OpensCall ==
  ASSUME NEW c \in Child, CallOf(c) = "unborn", CallOf(c)' = "open",
         \A d \in Child \ {c} : CallOf(d)' = CallOf(d),
         verdict' = verdict
  PROVE  Calls!Next
<1> DEFINE call == [d \in Child |-> CallOf(d)]
<1>1. call' = [call EXCEPT ![c] = "open"]
  OBVIOUS
<1> QED
  BY <1>1 DEF Calls!Next, Calls!Open

\* Settling the call of one child, with what is done and what is answered, closes it.
LEMMA ClosesCall ==
  ASSUME NEW c \in Child, NEW o \in Answers \cup Refusals \cup {"no_answer", "died"},
         CallOf(c) \in {"unborn", "open"}, CallOf(c)' = o,
         CallOf(c) = "unborn" => o \in Refusals,
         o \in Answers => verdict[c] = o,
         o \in Refusals => verdict[c] = "not_run",
         \A d \in Child \ {c} : CallOf(d)' = CallOf(d),
         verdict' = verdict
  PROVE  Calls!Next
<1> DEFINE call == [d \in Child |-> CallOf(d)]
<1>1. call' = [call EXCEPT ![c] = o]
  OBVIOUS
<1>2. o \in Calls!Answers \cup Calls!Refusals \cup Calls!Silence
  BY DEF Answers, Refusals, Calls!Answers, Calls!Refusals, Calls!Silence
<1>3. /\ call[c] \in {"unborn", "open"}
      /\ call[c] = "unborn" => o \in Calls!Refusals
      /\ o \in Calls!Answers => verdict[c] = o
      /\ o \in Calls!Refusals => verdict[c] = "not_run"
  BY DEF Answers, Refusals, Calls!Answers, Calls!Refusals
<1>4. Calls!Close(c)
  BY <1>1, <1>2, <1>3 DEF Calls!Close
<1> QED
  BY <1>4 DEF Calls!Next

\* Every step of the exchange is a step of the contract or leaves the calls alone.
LEMMA NextCalls ==
  Typed /\ IInv /\ [Next]_vars => [Calls!Next]_(Calls!wcVars)
<1> SUFFICES ASSUME Typed, IInv, [Next]_vars PROVE [Calls!Next]_(Calls!wcVars)
  OBVIOUS
<1> USE NoneAssumption
    DEF Typed, TypeOK, Phases, Answers, Refusals, Tellings, WriterPcs, Response, Writer,
        IInv, HolderIsCritical, Critical, ToldWhenDecided, Deciding,
        UnseenUnlessSubmitted, Unsubmitted, Unseen, ReadableIsNew, WriterKnowsItsJob,
        ResponseIsTrue, RunsMatchVerdict, AnswerIsOwn, childVars, fileVars, historyVars,
        CallOf, Calls!wcVars
<1>1. ASSUME NEW c \in Child, Begin(c) PROVE [Calls!Next]_(Calls!wcVars)
  <2>1. /\ CallOf(c) = "unborn" /\ CallOf(c)' = "open"
        /\ \A d \in Child \ {c} : CallOf(d)' = CallOf(d)
        /\ verdict' = verdict
    BY <1>1 DEF Begin, Goto
  <2> QED
    BY <2>1, OpensCall
<1>2. ASSUME NEW c \in Child, BeginFails(c) PROVE [Calls!Next]_(Calls!wcVars)
  <2>1. /\ CallOf(c) \in {"unborn", "open"} /\ verdict[c] = "not_run"
        /\ CallOf(c)' = "not_submitted"
        /\ \A d \in Child \ {c} : CallOf(d)' = CallOf(d)
        /\ verdict' = verdict
    BY <1>2 DEF BeginFails, Goto
  <2> QED
    BY <2>1, ClosesCall
<1>3. ASSUME NEW c \in Child, TakeLock(c) PROVE [Calls!Next]_(Calls!wcVars)
  BY <1>3 DEF TakeLock, Goto, Awake
<1>4. ASSUME NEW c \in Child, LockIsHeld(c) PROVE [Calls!Next]_(Calls!wcVars)
  BY <1>4 DEF LockIsHeld, Awake
<1>5. ASSUME NEW c \in Child, GiveUpLock(c) PROVE [Calls!Next]_(Calls!wcVars)
  <2>1. /\ CallOf(c) \in {"unborn", "open"} /\ verdict[c] = "not_run"
        /\ CallOf(c)' = "busy"
        /\ \A d \in Child \ {c} : CallOf(d)' = CallOf(d)
        /\ verdict' = verdict
    BY <1>5 DEF GiveUpLock, Goto, Awake
  <2> QED
    BY <2>1, ClosesCall
<1>6. ASSUME NEW c \in Child, DropResponse(c) PROVE [Calls!Next]_(Calls!wcVars)
  BY <1>6 DEF DropResponse, Goto
<1>7. ASSUME NEW c \in Child, DropRequest(c) PROVE [Calls!Next]_(Calls!wcVars)
  BY <1>7 DEF DropRequest, Goto
<1>8. ASSUME NEW c \in Child, Submit(c) PROVE [Calls!Next]_(Calls!wcVars)
  BY <1>8 DEF Submit, Goto
<1>9. ASSUME NEW c \in Child, SubmitFails(c) PROVE [Calls!Next]_(Calls!wcVars)
  <2>1. /\ CallOf(c) \in {"unborn", "open"} /\ verdict[c] = "not_run"
        /\ CallOf(c)' = "not_submitted"
        /\ \A d \in Child \ {c} : CallOf(d)' = CallOf(d)
        /\ verdict' = verdict
    BY <1>9 DEF SubmitFails, Goto
  <2> QED
    BY <2>1, ClosesCall
<1>10. ASSUME NEW c \in Child, TakeAnswer(c) PROVE [Calls!Next]_(Calls!wcVars)
  <2>1. /\ CallOf(c) = "open" /\ responseFile.answer \in Answers
        /\ verdict[c] = responseFile.answer
        /\ CallOf(c)' = responseFile.answer
        /\ \A d \in Child \ {c} : CallOf(d)' = CallOf(d)
        /\ verdict' = verdict
    BY <1>10 DEF TakeAnswer, Goto, Awake, IsAnswerFor
  <2> QED
    BY <2>1, ClosesCall
<1>11. ASSUME NEW c \in Child, KeepPolling(c) PROVE [Calls!Next]_(Calls!wcVars)
  BY <1>11 DEF KeepPolling, Awake, IsAnswerFor
<1>12. ASSUME NEW c \in Child, GiveUpAnswer(c) PROVE [Calls!Next]_(Calls!wcVars)
  <2>1. /\ CallOf(c) = "open"
        /\ CallOf(c)' = "no_answer"
        /\ \A d \in Child \ {c} : CallOf(d)' = CallOf(d)
        /\ verdict' = verdict
    BY <1>12 DEF GiveUpAnswer, Goto, Awake
  <2> QED
    BY <2>1, ClosesCall
<1>13. ASSUME NEW c \in Child, Leave(c) PROVE [Calls!Next]_(Calls!wcVars)
  BY <1>13 DEF Leave, Goto
<1>14. ASSUME NEW c \in Child, Close(c) PROVE [Calls!Next]_(Calls!wcVars)
  BY <1>14 DEF Close, Goto
<1>15. ASSUME NEW c \in Child, Kill(c) PROVE [Calls!Next]_(Calls!wcVars)
  <2>1. CASE told[c] = "none"
    <3>1. /\ CallOf(c) = "open"
          /\ CallOf(c)' = "died"
          /\ \A d \in Child \ {c} : CallOf(d)' = CallOf(d)
          /\ verdict' = verdict
      BY <1>15, <2>1 DEF Kill, Goto
    <3> QED
      BY <3>1, ClosesCall
  <2>2. CASE told[c] # "none"
    BY <1>15, <2>2 DEF Kill, Goto
  <2> QED
    BY <2>1, <2>2
<1>16. CASE Tick
  BY <1>16 DEF Tick
<1>17. CASE StartRequest
  BY <1>17 DEF StartRequest, Resting
<1>18. CASE StartResponse
  BY <1>18 DEF StartResponse, Resting
<1>19. CASE ReadRequest
  BY <1>19 DEF ReadRequest
<1>20. CASE RemoveRequest
  BY <1>20 DEF RemoveRequest
<1>21. CASE RunRequest
  <2> DEFINE call == [d \in Child |-> CallOf(d)]
  <2>1. PICK a \in Answers : verdict' = [verdict EXCEPT ![writer.job] = a]
    BY <1>21 DEF RunRequest
  <2>2. /\ writer.job \in Child
        /\ verdict[writer.job] = "not_run"
    BY <1>21 DEF RunRequest
  <2>3. phase[writer.job] # "new" /\ told[writer.job] \notin Refusals
    BY <2>2
  <2>4. call[writer.job] \notin Calls!Refusals \cup {"unborn"}
    BY <2>2, <2>3 DEF Calls!Refusals
  <2>5. call' = call
    BY <1>21 DEF RunRequest
  <2>6. a \in Calls!Answers
    BY DEF Calls!Answers
  <2> HIDE DEF call
  <2>7. Calls!Run(writer.job)
    BY <2>1, <2>2, <2>4, <2>5, <2>6 DEF Calls!Run, call
  <2> QED
    BY <2>2, <2>7 DEF Calls!Next
<1>22. CASE DropOldResponse
  BY <1>22 DEF DropOldResponse
<1>23. CASE Publish
  BY <1>23 DEF Publish, Resting
<1>24. CASE PublishFails
  BY <1>24 DEF PublishFails, Resting
<1>25. CASE WriterStops
  BY <1>25 DEF WriterStops, Resting
<1>26. CASE WriterStarts
  BY <1>26 DEF WriterStarts, Resting
<1>27. CASE UNCHANGED vars
  BY <1>27 DEF vars
<1> QED
  BY <1>1, <1>2, <1>3, <1>4, <1>5, <1>6, <1>7, <1>8, <1>9, <1>10, <1>11, <1>12, <1>13,
     <1>14, <1>15, <1>16, <1>17, <1>18, <1>19, <1>20, <1>21, <1>22, <1>23, <1>24, <1>25,
     <1>26, <1>27 DEF Next, ChildStep, WriterStep

\* The contract of a call to the writer holds of the exchange through the two files.
THEOREM Refinement == Spec => ImplementsCalls
<1>1. Calls!Spec <=> Calls!Init /\ [][Calls!Next]_(Calls!wcVars)
  BY DEF Calls!Spec
<1> QED
  BY <1>1, InitCalls, NextCalls, Safety, PTL DEF Spec, ImplementsCalls
=============================================================================
