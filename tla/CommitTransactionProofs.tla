----------------------- MODULE CommitTransactionProofs -----------------------
(***************************************************************************)
(* What holds of the transactions for every set of requests and kinds and  *)
(* whatever faults the constants allow.  The invariant is                  *)
(*                                                                         *)
(*   Typed    the types, and a busy writer works on one of the requests;   *)
(*   OnDisk   which version of each list is on disk at every pc;           *)
(*   Live     what the engine has loaded of them;                          *)
(*   Rebuilt  what the activity engine is built from, or which message in  *)
(*            its mailbox will rebuild it, and where the barrier is.       *)
(*                                                                         *)
(* From it follow the answers' meaning (RolledBackLeavesNoTrace,           *)
(* SavedIsLive, ReadyMeansRebuilt) and that the transactions implement     *)
(* AtomicCommit.  With the faults that can leave the hub in part excluded  *)
(* (Undisturbed) two more parts are invariant: LoadedIsWhole, for what the *)
(* engine runs, and RemoteFollows, for what a remote has pulled.           *)
(***************************************************************************)
EXTENDS CommitTransaction, TLAPS

(* The operators of the model. *)

\* The lists a sequence of them names.
ListsIn(s) == {s[i] : i \in DOMAIN s}

\* SaveOrder without its order.
Lists(k, c) ==
  CASE k = "activity" -> ActivityResources
    [] k = "settings" -> {"DeviceList"}
    [] k = "screen"   -> {"MapList"}
    [] k = "haAdd"    -> {"DeviceList", "MapList"} \cup
                           IF c["ProtocolList"].ha THEN {} ELSE {"ProtocolList"}
    [] k = "haRemove" -> {"ProtocolList", "DeviceList", "MapList"}

\* Each kind of transaction saves lists of the hub.
LEMMA SaveOrderTyped ==
  ASSUME NEW k \in AllKinds, NEW c PROVE SaveOrder(k, c) \in Seq(Resources)
<1> USE DEF SaveOrder, AllKinds, Resources, ActivityResources
<1>1. CASE k = "activity"
  BY <1>1
<1>2. CASE k = "settings"
  BY <1>2
<1>3. CASE k = "screen"
  BY <1>3
<1>4. CASE k = "haAdd" /\ c["ProtocolList"].ha
  BY <1>4
<1>5. CASE k = "haAdd" /\ ~ c["ProtocolList"].ha
  BY <1>5
<1>6. CASE k = "haRemove"
  BY <1>6
<1> QED
  BY <1>1, <1>2, <1>3, <1>4, <1>5, <1>6

\* The lists a transaction saves, and later restores, are those of Lists.
LEMMA SaveOrderLists ==
  ASSUME NEW k \in AllKinds, NEW c PROVE ListsIn(SaveOrder(k, c)) = Lists(k, c)
BY DEF SaveOrder, AllKinds, ActivityResources, Lists, ListsIn

\* Taking the first list off a sequence of lists leaves the others.
LEMMA HeadTail ==
  ASSUME NEW S, NEW s \in Seq(S), s # <<>>
  PROVE  /\ Head(s) \in S /\ Tail(s) \in Seq(S)
         /\ ListsIn(s) = {Head(s)} \cup ListsIn(Tail(s))
<1>1. Head(s) \in S /\ Tail(s) \in Seq(S)
  OBVIOUS
<1>2. ListsIn(s) \subseteq {Head(s)} \cup ListsIn(Tail(s))
  <2> SUFFICES ASSUME NEW i \in 1..Len(s), i # 1 PROVE s[i] \in ListsIn(Tail(s))
    BY DEF ListsIn
  <2> QED 
    <3>1. i - 1 \in DOMAIN Tail(s) /\ Tail(s)[i - 1] = s[i]
      OBVIOUS
    <3> QED BY <3>1 DEF ListsIn
<1>3. {Head(s)} \cup ListsIn(Tail(s)) \subseteq ListsIn(s)
  BY DEF ListsIn
<1> QED BY <1>1, <1>2, <1>3

\* What a transaction writes to a list is a list.
LEMMA NewValueTyped ==
  ASSUME NEW t \in Txn \cup {0}, NEW k, NEW r, NEW v \in Value
  PROVE  NewValue(t, k, r, v) \in Value
BY DEF NewValue, Value

\* A whole transaction makes a configuration of a configuration.
LEMMA AfterTyped ==
  ASSUME NEW t \in Txn \cup {0}, NEW k, NEW c \in Config
  PROVE  After(t, k, c) \in Config
BY NewValueTyped DEF After, Config

-----------------------------------------------------------------------------
(* Typed: the types of the variables. *)

\* The parts of the request the writer works on.
LEMMA JobTyped ==
  ASSUME job \in Job
  PROVE  /\ job.txn \in Txn \cup {0} /\ job.kind \in AllKinds /\ job.old \in Config
         /\ job.config \in Nat /\ job.changed \subseteq Resources
         /\ job.clean \in BOOLEAN /\ job.reloaded \in BOOLEAN /\ job.ready \in BOOLEAN
         /\ \A t \in Txn, c \in Config : [job EXCEPT !.txn = t, !.old = c] \in Job
BY DEF Job

\* What the writer notes about its job changes nothing else of it.
LEMMA JobNoted ==
  ASSUME job \in Job,
         \/ job' = [job EXCEPT !.reloaded = TRUE]
         \/ job' = [job EXCEPT !.ready = TRUE]
         \/ job' = [job EXCEPT !.clean = FALSE]
  PROVE  /\ job' \in Job
         /\ job'.txn = job.txn /\ job'.kind = job.kind /\ job'.old = job.old
         /\ job'.config = job.config /\ job'.changed = job.changed
BY DEF Job

\* A list saved, or restored, leaves a configuration on disk.
LEMMA WrittenTyped ==
  ASSUME TypeOK, NEW r \in Resources
  PROVE  Written(r) \in Config /\ Restored(r) \in Config
<1>1. job.old[r] \in Value /\ job.txn \in Txn \cup {0}
  BY JobTyped DEF TypeOK, Config
<1>2. NewValue(job.txn, job.kind, r, job.old[r]) \in Value
  BY <1>1, NewValueTyped
<1> QED
  BY <1>1, <1>2 DEF TypeOK, Config, Written, Restored

\* config_new leaves the engine with a configuration and the mailbox with messages.
LEMMA ReloadTyped ==
  ASSUME TypeOK, NEW names, ReloadEngine(names)
  PROVE  engine' \in Config /\ mailbox' \in Seq({"init", "barrier"})
<1>1. Load(names) \in Config
  BY DEF TypeOK, Config, Load
<1> QED
  BY <1>1 DEF TypeOK, ReloadEngine

\* So does a config_new that is not answered with true.
LEMMA RefusedTyped ==
  ASSUME TypeOK, NEW names, EngineRefuses(names)
  PROVE  engine' \in Config /\ mailbox' \in Seq({"init", "barrier"})
BY ReloadTyped DEF EngineRefuses, TypeOK

\* A rollback starts with lists of the hub to restore.
LEMMA RestoreTyped == TypeOK /\ StartRestore => pc' = "restore" /\ todo' \in Seq(Resources)
BY SaveOrderTyped, JobTyped DEF StartRestore, RestoreOrder, TypeOK

\* The revision that is published next is one.
LEMMA RevisionTyped == TypeOK => NextRevision \in Revision
<1> SUFFICES ASSUME TypeOK PROVE NextRevision \in Revision
  OBVIOUS
<1>1. (IF Strict(job.kind) THEN job.config ELSE digest.config) \in Nat
  BY JobTyped DEF TypeOK, Revision
<1> QED
  BY <1>1 DEF TypeOK, NextRevision, Revision

\* A remote asks for every list the hub has.
LEMMA PullTyped ==
  /\ PullOrder \in Seq(Resources)
  /\ ListsIn(PullOrder) = Resources
BY DEF PullOrder, Resources, ActivityResources, ListsIn

\* An answer ends the request.
LEMMA AnswerTyped ==
  ASSUME TypeOK, NEW o \in Outcomes, Answer(o)
  PROVE  pc' = "idle" /\ outcome' \in [Txn -> Outcomes]
BY DEF TypeOK, Answer

\* A rollback is answered with rolledBack or notRolledBack.
LEMMA RolledBackTyped == \A clean : RolledBack(clean) \in Outcomes
BY DEF RolledBack, Outcomes

\* A busy writer works on one of the requests.
JobHasTxn == pc # "idle" => job.txn \in Txn /\ job.kind \in Kinds

Typed == TypeOK /\ JobHasTxn

\* The types at boot.
LEMMA InitTyped == Init => Typed
<1> SUFFICES ASSUME Init PROVE Typed
  OBVIOUS
<1>1. Original \in Config
  BY DEF Original, Config, Value
<1>2. FirstRevision \in Revision
  BY DEF FirstRevision, Revision
<1> QED
  BY <1>1, <1>2 DEF Init, Typed, JobHasTxn, TypeOK, Pcs, Job, AllKinds, Outcomes, Remote

\* No step of a transaction, of another task or of the remote leaves the types.
LEMMA NextTyped == Typed /\ [Next]_vars => Typed'
<1> SUFFICES ASSUME Typed, [Next]_vars PROVE Typed'
  OBVIOUS
<1> USE DEF Typed, JobHasTxn, TypeOK, Pcs, writerVars, engineVars, digestVars
<1>1. ASSUME NEW t \in Txn, Refuse(t) PROVE Typed'
  BY <1>1, JobTyped DEF Refuse, Outcomes
<1>2. ASSUME NEW t \in Txn, NEW k \in Kinds, Begin(t, k) PROVE Typed'
  <2>1. SaveOrder(k, disk) \in Seq(Resources) /\ ListsIn(SaveOrder(k, disk)) \subseteq Resources
    BY KindsAssumption, SaveOrderTyped DEF ListsIn
  <2>2. After(t, k, disk) \in Config
    BY AfterTyped
  <2>3. job' \in Job /\ job'.txn = t /\ job'.kind = k
    BY <1>2, <2>1, KindsAssumption DEF Begin, Job, Revision, ListsIn
  <2> QED
    BY <1>2, <2>1, <2>2, <2>3 DEF Begin
<1>3. CASE SaveNext
  BY <1>3, WrittenTyped, HeadTail DEF SaveNext
<1>4. CASE AllSaved
  BY <1>4 DEF AllSaved
<1>5. CASE SaveFails
  BY <1>5, WrittenTyped, RestoreTyped, HeadTail DEF SaveFails
<1>6. CASE Reload
  BY <1>6, ReloadTyped, JobNoted DEF Reload
<1>7. CASE ReloadFails
  BY <1>7, RefusedTyped, RestoreTyped, JobNoted DEF ReloadFails
<1>8. CASE SendBarrier
  BY <1>8 DEF SendBarrier
<1>9. CASE BarrierPending
  BY <1>9 DEF BarrierPending
<1>10. CASE BarrierAnswered
  BY <1>10, JobNoted DEF BarrierAnswered
<1>11. CASE BarrierTimesOut
  BY <1>11 DEF BarrierTimesOut
<1>12. CASE Publish
  BY <1>12, RevisionTyped, AnswerTyped DEF Publish, Outcomes
<1>13. CASE PublishFails
  BY <1>13, RevisionTyped, AnswerTyped, RestoreTyped DEF PublishFails, Outcomes
<1>14. CASE RestoreNext
  BY <1>14, WrittenTyped, HeadTail DEF RestoreNext
<1>15. CASE RestoreFails
  BY <1>15, WrittenTyped, HeadTail, JobNoted DEF RestoreFails
<1>16. CASE AllRestored
  BY <1>16, AnswerTyped, RolledBackTyped DEF AllRestored
<1>17. CASE ReloadOld
  BY <1>17, ReloadTyped, AnswerTyped, RolledBackTyped DEF ReloadOld
<1>18. CASE ReloadOldFails
  BY <1>18, RefusedTyped, AnswerTyped, RolledBackTyped, JobNoted DEF ReloadOldFails
<1>19. CASE Revert
  <2>1. digest' \in Revision
    BY <1>19, JobTyped DEF Revert, Revision
  <2> QED
    BY <1>19, <2>1, AnswerTyped, RolledBackTyped DEF Revert
<1>20. CASE Rebuild
  BY <1>20, HeadTail DEF Rebuild
<1>21. CASE AnswerBarrier
  BY <1>21, HeadTail DEF AnswerBarrier
<1>22. CASE StartPull
  BY <1>22, PullTyped DEF StartPull, Remote
<1>23. CASE Pull
  BY <1>23, HeadTail DEF Pull, Remote, Config
<1>24. CASE Crash
  <2>1. remote' \in Remote
    <3>1. <<>> \in Seq(Resources)
      OBVIOUS
    <3> QED
      BY <1>24, <3>1 DEF Crash, Remote
  <2>2. outcome' \in [Txn -> Outcomes]
    BY <1>24 DEF Crash, Outcomes
  <2> QED
    BY <1>24, <2>1, <2>2 DEF Crash
<1>25. CASE UNCHANGED vars
  BY <1>25 DEF vars
<1> QED
  BY <1>1, <1>2, <1>3, <1>4, <1>5, <1>6, <1>7, <1>8, <1>9, <1>10, <1>11, <1>12, <1>13,
     <1>14, <1>15, <1>16, <1>17, <1>18, <1>19, <1>20, <1>21, <1>22, <1>23, <1>24, <1>25
     DEF Next, Work

-----------------------------------------------------------------------------
(* OnDisk: what is on disk while a transaction is under way. *)

\* What the transaction writes to a list.
Wrote(r) == NewValue(job.txn, job.kind, r, job.old[r])

\* All is saved and nothing undone yet.
Saving == {"reload", "await", "waiting", "publish"}

\* A transaction that is not answered touches no list but those it saves.
JobIsOpen ==
  pc # "idle" =>
    /\ outcome[job.txn] = "open"
    /\ job.changed = ListsIn(SaveOrder(job.kind, job.old))
    /\ \A r \in Resources \ job.changed : disk[r] = job.old[r]

\* Of a list that is still to be saved either version may be on disk.
SavedSoFar ==
  /\ pc = "save" =>
       /\ ListsIn(todo) \subseteq job.changed
       /\ \A r \in job.changed :
            disk[r] = Wrote(r) \/ (r \in ListsIn(todo) /\ disk[r] = job.old[r])
  /\ pc \in Saving => \A r \in job.changed : disk[r] = Wrote(r)

\* After a rollback so far without failure, all but the lists still to be restored are
\* as they were.
RestoredSoFar ==
  /\ pc = "restore" =>
       /\ ListsIn(todo) \subseteq job.changed
       /\ job.clean => \A r \in Resources \ ListsIn(todo) : disk[r] = job.old[r]
  /\ pc \in {"reloadOld", "revert"} /\ job.clean => disk = job.old

\* The answers hold good until the next request.
AnswersMatchDisk ==
  /\ LastAnswer("rolledBack") => disk = job.old
  /\ LastAnswer("ok") => disk = After(job.txn, job.kind, job.old)

OnDisk == JobIsOpen /\ SavedSoFar /\ RestoredSoFar /\ AnswersMatchDisk

\* Once the last list is saved the disk holds the whole transaction.
LEMMA SavedWhole ==
  ASSUME Typed, OnDisk, pc \in Saving
  PROVE  disk = After(job.txn, job.kind, job.old)
<1>1. job.changed = ListsIn(SaveOrder(job.kind, job.old)) /\ job.old \in Config
  BY JobTyped DEF OnDisk, JobIsOpen, Saving, Typed, TypeOK
<1>2. \A r \in Resources : disk[r] = IF r \in job.changed THEN Wrote(r) ELSE job.old[r]
  BY DEF OnDisk, SavedSoFar, JobIsOpen, Saving
<1>3. disk = [r \in Resources |-> disk[r]]
  BY DEF Typed, TypeOK, Config
<1> QED
  BY <1>1, <1>2, <1>3 DEF After, ListsIn, Wrote

\* Once the last list is restored without a failure the disk holds the snapshots.
LEMMA RestoredWhole ==
  ASSUME Typed, OnDisk, pc = "restore", todo = <<>>, job.clean
  PROVE  disk = job.old
<1>1. ListsIn(todo) = {}
  BY DEF ListsIn
<1>2. \A r \in Resources : disk[r] = job.old[r]
  BY <1>1 DEF OnDisk, RestoredSoFar
<1>3. disk \in [Resources -> Value] /\ job.old \in [Resources -> Value]
  BY JobTyped DEF Typed, TypeOK, Config
<1> QED
  BY <1>2, <1>3

\* What is on disk at boot.
LEMMA InitOnDisk == Init => OnDisk
BY DEF Init, OnDisk, JobIsOpen, SavedSoFar, RestoredSoFar, AnswersMatchDisk, LastAnswer, Saving

\* A rollback restores exactly the lists the transaction may have written.
LEMMA StartRestoreLists ==
  ASSUME Typed, OnDisk, pc # "idle", StartRestore
  PROVE  ListsIn(todo') = job.changed
BY JobTyped DEF StartRestore, RestoreOrder, Typed, TypeOK, OnDisk, JobIsOpen

\* Every step of the writer keeps account of what is on disk; no other task writes it.
LEMMA NextOnDisk == Typed /\ Typed' /\ OnDisk /\ [Next]_vars => OnDisk'
<1> SUFFICES ASSUME Typed, Typed', OnDisk, [Next]_vars PROVE OnDisk'
  OBVIOUS
<1> USE DEF OnDisk, JobIsOpen, SavedSoFar, RestoredSoFar, AnswersMatchDisk, LastAnswer, Saving,
            writerVars, engineVars, digestVars
<1>0. /\ job \in Job /\ outcome \in [Txn -> Outcomes] /\ disk \in Config
      /\ todo \in Seq(Resources) /\ job.changed \in SUBSET Resources /\ job.old \in Config
      /\ pc # "idle" => job.txn \in Txn /\ job.txn # 0
      /\ pc \in Pcs
  BY JobTyped, TxnAssumption DEF Typed, TypeOK, JobHasTxn
<1>1. ASSUME NEW t \in Txn, Refuse(t) PROVE OnDisk'
  BY <1>0, <1>1 DEF Refuse, Job
<1>2. ASSUME NEW t \in Txn, NEW k \in Kinds, Begin(t, k) PROVE OnDisk'
  <2>1. /\ job'.txn = t /\ job'.kind = k /\ job'.old = disk
        /\ job'.changed = ListsIn(SaveOrder(k, disk))
    BY <1>2 DEF Begin, ListsIn
  <2>2. outcome'[t] = "open"
    BY <1>2 DEF Begin, IsNext
  <2> QED
    BY <1>2, <2>1, <2>2 DEF Begin
<1>3. CASE SaveNext
  <2>1. /\ ListsIn(todo) = {Head(todo)} \cup ListsIn(Tail(todo))
        /\ \A r \in Resources : disk'[r] = IF r = Head(todo) THEN Wrote(r) ELSE disk[r]
    BY <1>0, <1>3, HeadTail DEF SaveNext, Written, Wrote, Config
  <2>2. ListsIn(todo') \subseteq job'.changed /\ Head(todo) \in job.changed
    BY <1>3, <2>1 DEF SaveNext
  <2>3. \A r \in Resources : Wrote(r)' = Wrote(r)
    BY <1>3 DEF SaveNext, Wrote
  <2> QED
    BY <1>0, <1>3, <2>1, <2>2, <2>3 DEF SaveNext
<1>4. CASE AllSaved
  BY <1>0, <1>4 DEF AllSaved, Wrote, ListsIn
<1>5. CASE SaveFails
  BY <1>0, <1>5, HeadTail, StartRestoreLists DEF SaveFails, Written, Config, StartRestore
<1>6. CASE Reload
  BY <1>0, <1>6, JobNoted DEF Reload, Wrote
<1>7. CASE ReloadFails
  BY <1>0, <1>7, JobNoted, StartRestoreLists DEF ReloadFails, StartRestore
<1>8. CASE SendBarrier
  BY <1>8 DEF SendBarrier, Wrote
<1>9. CASE BarrierPending
  BY <1>9 DEF BarrierPending, Wrote
<1>10. CASE BarrierAnswered
  BY <1>0, <1>10, JobNoted DEF BarrierAnswered, Wrote
<1>11. CASE BarrierTimesOut
  BY <1>11 DEF BarrierTimesOut, Wrote
<1>12. CASE Publish
  BY <1>0, <1>12, SavedWhole DEF Publish, Answer
<1>13. CASE PublishFails
  BY <1>0, <1>13, SavedWhole, StartRestoreLists DEF PublishFails, Answer, StartRestore
<1>14. CASE RestoreNext
  BY <1>0, <1>14, HeadTail DEF RestoreNext, Restored, Config
<1>15. CASE RestoreFails
  BY <1>0, <1>15, HeadTail, JobNoted DEF RestoreFails, Restored, Config
<1>16. CASE AllRestored
  BY <1>0, <1>16, RestoredWhole DEF AllRestored, Answer, RolledBack
<1>17. CASE ReloadOld
  BY <1>0, <1>17 DEF ReloadOld, Answer, RolledBack
<1>18. CASE ReloadOldFails
  BY <1>0, <1>18, JobNoted DEF ReloadOldFails, Answer, RolledBack, Job
<1>19. CASE Revert
  BY <1>0, <1>19 DEF Revert, Answer, RolledBack
<1>20. ASSUME UNCHANGED <<writerVars, disk>> PROVE OnDisk'
  BY <1>20 DEF Wrote
<1>21. CASE Crash
  BY <1>0, <1>21 DEF Crash
<1> QED
  BY <1>1, <1>2, <1>3, <1>4, <1>5, <1>6, <1>7, <1>8, <1>9, <1>10, <1>11, <1>12, <1>13,
     <1>14, <1>15, <1>16, <1>17, <1>18, <1>19, <1>20, <1>21
     DEF Next, Work, Rebuild, AnswerBarrier, StartPull, Pull, vars

-----------------------------------------------------------------------------
(* Live: what the engine has loaded. *)

\* A reload leaves nothing of the transaction behind that the engine has not seen.
Loaded ==
  /\ pc \in {"await", "waiting", "publish"} => \A r \in job.changed : engine[r] = disk[r]
  /\ pc = "revert" => Strict(job.kind)
  /\ pc = "revert" /\ job.clean => \A r \in ActivityResources : engine[r] = disk[r]

Live == Loaded /\ RolledBackLeavesNoTrace /\ SavedIsLive

\* The names sent with config_new include every list the transaction saved.
LEMMA ReloadCovers ==
  ASSUME NEW k \in AllKinds, NEW c, NEW changed, changed = ListsIn(SaveOrder(k, c))
  PROVE  changed \subseteq ReloadOf(k, changed)
BY SaveOrderLists DEF ReloadOf, Lists, AllKinds, ActivityResources

\* After config_new the engine has the lists the transaction saved, as they are on disk.
LEMMA ReloadLoads ==
  ASSUME Typed, OnDisk, pc # "idle", ReloadEngine(ReloadOf(job.kind, job.changed))
  PROVE  /\ \A r \in job.changed : engine'[r] = disk[r]
         /\ Strict(job.kind) => \A r \in ActivityResources : engine'[r] = disk[r]
<1>1. job.kind \in AllKinds /\ job.changed \subseteq Resources
  BY JobTyped DEF Typed, TypeOK
<1>2. job.changed \subseteq ReloadOf(job.kind, job.changed)
  BY <1>1, ReloadCovers DEF OnDisk, JobIsOpen
<1> QED
  BY <1>1, <1>2 DEF ReloadEngine, Load, ReloadOf, Strict, Resources

\* What the engine has loaded at boot.
LEMMA InitLive == Init => Live
BY DEF Init, Live, Loaded, RolledBackLeavesNoTrace, SavedIsLive, LastAnswer

\* Every step keeps account of what the engine has loaded.
LEMMA NextLive == Typed /\ Typed' /\ OnDisk /\ OnDisk' /\ Live /\ [Next]_vars => Live'
<1> SUFFICES ASSUME Typed, Typed', OnDisk, OnDisk', Live, [Next]_vars PROVE Live'
  OBVIOUS
<1> USE DEF Live, Loaded, RolledBackLeavesNoTrace, SavedIsLive, LastAnswer,
            writerVars, engineVars, digestVars
<1>0. /\ job \in Job /\ outcome \in [Txn -> Outcomes] /\ pc \in Pcs
      /\ job.changed \in SUBSET Resources
      /\ pc # "idle" => job.txn \in Txn /\ job.txn # 0
  BY JobTyped, TxnAssumption DEF Typed, TypeOK, JobHasTxn
<1>d. AnswersMatchDisk'
  BY DEF OnDisk
<1> USE DEF AnswersMatchDisk
<1>1. ASSUME NEW t \in Txn, Refuse(t) PROVE Live'
  BY <1>0, <1>d, <1>1 DEF Refuse, Job
<1>2. ASSUME NEW t \in Txn, NEW k \in Kinds, Begin(t, k) PROVE Live'
  BY <1>2 DEF Begin
<1>3. CASE SaveNext
  BY <1>3 DEF SaveNext
<1>4. CASE AllSaved
  BY <1>4 DEF AllSaved
<1>5. CASE SaveFails
  BY <1>5 DEF SaveFails, StartRestore
<1>6. CASE Reload
  BY <1>0, <1>6, ReloadLoads, JobNoted DEF Reload
<1>7. CASE ReloadFails
  BY <1>7 DEF ReloadFails, StartRestore
<1>8. CASE SendBarrier
  BY <1>8 DEF SendBarrier
<1>9. CASE BarrierPending
  BY <1>9 DEF BarrierPending
<1>10. CASE BarrierAnswered
  BY <1>0, <1>10, JobNoted DEF BarrierAnswered
<1>11. CASE BarrierTimesOut
  BY <1>11 DEF BarrierTimesOut
<1>12. CASE Publish
  BY <1>0, <1>d, <1>12 DEF Publish, Answer
<1>13. CASE PublishFails
  BY <1>0, <1>d, <1>13 DEF PublishFails, Answer, StartRestore
<1>14. CASE RestoreNext
  BY <1>14 DEF RestoreNext
<1>15. CASE RestoreFails
  BY <1>15 DEF RestoreFails
<1>16. CASE AllRestored
  BY <1>0, <1>d, <1>16 DEF AllRestored, Answer, RolledBack
<1>17. CASE ReloadOld
  BY <1>0, <1>d, <1>17, ReloadLoads DEF ReloadOld, Answer, RolledBack
<1>18. CASE ReloadOldFails
  BY <1>0, <1>d, <1>18, JobNoted DEF ReloadOldFails, Answer, RolledBack, Job
<1>19. CASE Revert
  BY <1>0, <1>d, <1>19 DEF Revert, Answer, RolledBack
<1>20. ASSUME UNCHANGED <<writerVars, disk, engine>> PROVE Live'
  BY <1>20
<1>21. CASE Crash
  BY <1>0, <1>d, <1>21 DEF Crash, Strict
<1> QED
  BY <1>1, <1>2, <1>3, <1>4, <1>5, <1>6, <1>7, <1>8, <1>9, <1>10, <1>11, <1>12, <1>13,
     <1>14, <1>15, <1>16, <1>17, <1>18, <1>19, <1>20, <1>21
     DEF Next, Work, Rebuild, AnswerBarrier, StartPull, Pull, vars

-----------------------------------------------------------------------------
(* Rebuilt: what the activity engine was built from. *)

\* A message that rebuilds is on its way.
HasInit == \E i \in DOMAIN mailbox : mailbox[i] = "init"

\* The activity engine has been built from what is loaded, or a message will rebuild it.
BuiltOrToBeBuilt == built = engine \/ HasInit

\* At most one barrier is in the mailbox, and its helper waits for the answer.
OneBarrier ==
  /\ \A i, j \in DOMAIN mailbox : mailbox[i] = "barrier" /\ mailbox[j] = "barrier" => i = j
  /\ (\E i \in DOMAIN mailbox : mailbox[i] = "barrier") => barrier = "sent"
  /\ barrier = "answered" => pc = "waiting"

\* A barrier the writer waits for is behind the message that rebuilds.
BarrierIsBehind ==
  pc = "waiting" =>
    /\ barrier # "none"
    /\ barrier = "answered" => built = engine
    /\ built = engine \/ \A i \in DOMAIN mailbox : mailbox[i] = "barrier" =>
                           \E j \in DOMAIN mailbox : j < i /\ mailbox[j] = "init"

\* The writer notes ready only when the answer came in time.
NotReadyYet ==
  /\ pc \in {"save", "reload", "await", "waiting"} => ~ job.ready
  /\ pc = "publish" /\ job.ready => built = engine

Rebuilt == BuiltOrToBeBuilt /\ OneBarrier /\ BarrierIsBehind /\ NotReadyYet

\* What the activity engine is built from at boot.
LEMMA InitRebuilt == Init => Rebuilt
BY DEF Init, Rebuilt, BuiltOrToBeBuilt, OneBarrier, BarrierIsBehind, NotReadyYet

\* The activityengine task takes the oldest message.
LEMMA HeadOfTwo ==
  ASSUME mailbox \in Seq({"init", "barrier"}), mailbox # <<>>, mailbox' = Tail(mailbox)
  PROVE  /\ Len(mailbox) >= 1 /\ Head(mailbox) = mailbox[1]
         /\ DOMAIN mailbox = 1..Len(mailbox) /\ DOMAIN mailbox' = 1..(Len(mailbox) - 1)
         /\ \A i \in DOMAIN mailbox' : i + 1 \in DOMAIN mailbox /\ mailbox'[i] = mailbox[i + 1]
         /\ \A i \in DOMAIN mailbox : i = 1 \/ (i - 1 \in DOMAIN mailbox' /\ mailbox'[i - 1] = mailbox[i])
OBVIOUS

\* A message sent to it comes last.
LEMMA Appended ==
  ASSUME mailbox \in Seq({"init", "barrier"}), NEW m, mailbox' = Append(mailbox, m)
  PROVE  /\ DOMAIN mailbox = 1..Len(mailbox) /\ DOMAIN mailbox' = 1..(Len(mailbox) + 1)
         /\ Len(mailbox) \in Nat
         /\ \A i \in DOMAIN mailbox : mailbox'[i] = mailbox[i]
         /\ mailbox'[Len(mailbox) + 1] = m
OBVIOUS

\* A reload sends the message that rebuilds the activity engine behind all others.
LEMMA EngineKeepsRebuilt ==
  ASSUME Typed, Rebuilt, NEW names, ReloadEngine(names), UNCHANGED <<built, barrier>>,
         pc \notin {"waiting", "publish"}, pc' \notin {"waiting", "publish"},
         job'.ready => pc' \notin {"save", "reload", "await"}
  PROVE  Rebuilt'
BY Appended
   DEF Typed, TypeOK, ReloadEngine, Rebuilt, BuiltOrToBeBuilt, HasInit, OneBarrier,
       BarrierIsBehind, NotReadyYet

\* Every step keeps account of what the activity engine is built from.
LEMMA NextRebuilt == Typed /\ Rebuilt /\ [Next]_vars => Rebuilt'
<1> SUFFICES ASSUME Typed, Rebuilt, [Next]_vars PROVE Rebuilt'
  OBVIOUS
<1> USE DEF Rebuilt, BuiltOrToBeBuilt, HasInit, OneBarrier, BarrierIsBehind, NotReadyYet,
            writerVars, engineVars, digestVars
<1>0. mailbox \in Seq({"init", "barrier"}) /\ job \in Job
  BY DEF Typed, TypeOK
<1>1. ASSUME NEW t \in Txn, Refuse(t) PROVE Rebuilt'
  BY <1>0, <1>1 DEF Refuse, Job
<1>2. ASSUME NEW t \in Txn, NEW k \in Kinds, Begin(t, k) PROVE Rebuilt'
  BY <1>2 DEF Begin
<1>3. CASE SaveNext
  BY <1>3 DEF SaveNext
<1>4. CASE AllSaved
  BY <1>4 DEF AllSaved
<1>5. CASE SaveFails
  BY <1>5 DEF SaveFails, StartRestore
<1>6. CASE Reload
  <2>1. ~ job'.ready
    BY <1>0, <1>6 DEF Reload, Job
  <2> QED
    BY <1>6, <2>1, EngineKeepsRebuilt DEF Reload
<1>7. CASE ReloadFails
  BY <1>7, EngineKeepsRebuilt DEF ReloadFails, EngineRefuses, StartRestore
<1>8. CASE SendBarrier
  BY <1>0, <1>8, Appended DEF SendBarrier
<1>9. CASE BarrierPending
  BY <1>9 DEF BarrierPending
<1>10. CASE BarrierAnswered
  BY <1>10 DEF BarrierAnswered
<1>11. CASE BarrierTimesOut
  BY <1>11 DEF BarrierTimesOut
<1>12. CASE Publish
  BY <1>12 DEF Publish, Answer
<1>13. CASE PublishFails
  BY <1>13 DEF PublishFails, Answer, StartRestore
<1>14. CASE RestoreNext
  BY <1>14 DEF RestoreNext
<1>15. CASE RestoreFails
  BY <1>15 DEF RestoreFails
<1>16. CASE AllRestored
  BY <1>16 DEF AllRestored, Answer
<1>17. CASE ReloadOld
  BY <1>17, EngineKeepsRebuilt DEF ReloadOld, Answer
<1>18. CASE ReloadOldFails
  BY <1>18, EngineKeepsRebuilt DEF ReloadOldFails, EngineRefuses, Answer
<1>19. CASE Revert
  BY <1>19 DEF Revert, Answer
<1>20. CASE Rebuild
  BY <1>0, <1>20, HeadOfTwo DEF Rebuild, Yielding
<1>21. CASE AnswerBarrier
  BY <1>0, <1>21, HeadOfTwo DEF AnswerBarrier, Yielding
<1>22. ASSUME UNCHANGED <<writerVars, engineVars>> PROVE Rebuilt'
  BY <1>22
<1>23. CASE Crash
  BY <1>23 DEF Crash
<1> QED
  BY <1>1, <1>2, <1>3, <1>4, <1>5, <1>6, <1>7, <1>8, <1>9, <1>10, <1>11, <1>12, <1>13,
     <1>14, <1>15, <1>16, <1>17, <1>18, <1>19, <1>20, <1>21, <1>22, <1>23
     DEF Next, Work, StartPull, Pull, vars

-----------------------------------------------------------------------------
(* What follows. *)

\* The invariant.
LEMMA Safety == Spec => [](Typed /\ OnDisk /\ Live /\ Rebuilt)
<1>1. Init => Typed /\ OnDisk /\ Live /\ Rebuilt
  BY InitTyped, InitOnDisk, InitLive, InitRebuilt
<1>2. Typed /\ OnDisk /\ Live /\ Rebuilt /\ [Next]_vars => (Typed /\ OnDisk /\ Live /\ Rebuilt)'
  BY NextTyped, NextOnDisk, NextLive, NextRebuilt
<1> QED
  BY <1>1, <1>2, PTL DEF Spec

\* TypeOK is invariant: the transactions keep to their types.
THEOREM TypeCorrect == Spec => []TypeOK
BY Safety, PTL DEF Typed

\* RolledBackLeavesNoTrace is invariant: a transaction answered with rolledBack left
\* every list as restoreSnapshots found it, and an activity save had the engine load
\* them, whichever save, read-back, reload or announcement failed.
THEOREM RollbacksLeaveNoTrace == Spec => []RolledBackLeavesNoTrace
BY Safety, PTL DEF Live

\* SavedIsLive is invariant: a transaction answered with ok is on disk whole, and the
\* engine has loaded every list it changed, whatever names the kind sends with config_new.
THEOREM SavesAreLive == Spec => []SavedIsLive
BY Safety, PTL DEF Live

\* ReadyMeansRebuilt is invariant: waitForActivityEngine says ready only if the activity
\* engine was rebuilt from the lists just saved, although barriers that were given up
\* may still be in its mailbox or be answered late.
THEOREM ReadyIsRebuilt == Spec => []ReadyMeansRebuilt
<1>1. OnDisk /\ Live /\ Rebuilt => ReadyMeansRebuilt
  BY DEF OnDisk, Live, Loaded, Rebuilt, NotReadyYet, ReadyMeansRebuilt
<1> QED
  BY <1>1, Safety, PTL

-----------------------------------------------------------------------------
(* The transactions implement AtomicCommit. *)

\* The two variables of AtomicCommit, as the refinement mapping has them.
Content == IF pc = "idle" THEN disk ELSE job.old

Settled == [t \in Txn |-> CASE outcome[t] = "open"                       -> "open"
                              [] outcome[t] = "ok"                         -> "saved"
                              [] outcome[t] \in {"refused", "rolledBack"}  -> "not_saved"
                              [] outcome[t] \in {"notRolledBack", "lost"}  -> "broken"]

\* At boot the abstract configuration is the one on disk and no request is settled.
LEMMA InitRefines == Init => Atomic!Init
<1> SUFFICES ASSUME Init PROVE Atomic!Init
  OBVIOUS
<1>1. disk \in Config /\ pc = "idle"
  BY InitTyped DEF Typed, TypeOK, Init
<1>2. Settled = [t \in Txn |-> "open"]
  BY DEF Init, Settled
<1> QED
  BY <1>1, <1>2 DEF Atomic!Init, Settled

\* One request of Settled.
Verdict(o) == CASE o = "open"                       -> "open"
                [] o = "ok"                         -> "saved"
                [] o \in {"refused", "rolledBack"}  -> "not_saved"
                [] o \in {"notRolledBack", "lost"}  -> "broken"

\* Answering one request settles it and no other.
LEMMA Settles ==
  ASSUME Typed, NEW t \in Txn, NEW o \in Outcomes,
         outcome[t] = "open", outcome' = [outcome EXCEPT ![t] = o]
  PROVE  /\ Settled[t] = "open"
         /\ Settled' = [Settled EXCEPT ![t] = Verdict(o)]
<1>1. Settled = [u \in Txn |-> Verdict(outcome[u])]
  BY DEF Settled, Verdict
<1>2. Settled' = [u \in Txn |-> Verdict(outcome'[u])]
  BY DEF Settled, Verdict
<1>3. \A u \in Txn : outcome'[u] = IF u = t THEN o ELSE outcome[u]
  BY DEF Typed, TypeOK
<1>4. Verdict("open") = "open"
  BY DEF Verdict
<1> QED
  BY <1>1, <1>2, <1>3, <1>4

\* A step that answers nothing and changes no finished configuration is none outside.
LEMMA Stutters ==
  ASSUME UNCHANGED outcome, Content' = Content
  PROVE  [Atomic!Next]_Atomic!acVars
BY DEF Atomic!acVars, Content

\* An answer ok is an atomic save.
LEMMA SaveRefines ==
  ASSUME Typed, NEW t \in Txn, NEW k \in Kinds, outcome[t] = "open",
         outcome' = [outcome EXCEPT ![t] = "ok"], Content' = After(t, k, Content)
  PROVE  Atomic!Next
<1>1. Settled[t] = "open" /\ Settled' = [Settled EXCEPT ![t] = "saved"]
  BY Settles DEF Outcomes, Verdict
<1>2. Atomic!Save(t)
  BY <1>1 DEF Atomic!Save, Atomic!Settle, Settled, Content
<1> QED
  BY <1>2 DEF Atomic!Next

\* An answer refused or rolledBack is an atomic refusal.
LEMMA DeclineRefines ==
  ASSUME Typed, NEW t \in Txn, NEW o \in {"refused", "rolledBack"}, outcome[t] = "open",
         outcome' = [outcome EXCEPT ![t] = o], Content' = Content
  PROVE  Atomic!Next
<1>1. Settled[t] = "open" /\ Settled' = [Settled EXCEPT ![t] = "not_saved"]
  BY Settles DEF Outcomes, Verdict
<1>2. Atomic!Decline(t)
  BY <1>1 DEF Atomic!Decline, Atomic!Settle, Settled, Content
<1> QED
  BY <1>2 DEF Atomic!Next

\* An answer notRolledBack, or none after a crash, is a reported break.
LEMMA BreakRefines ==
  ASSUME Typed, NEW t \in Txn, NEW o \in {"notRolledBack", "lost"}, outcome[t] = "open",
         outcome' = [outcome EXCEPT ![t] = o], Content' \in Config
  PROVE  Atomic!Next
<1>1. Settled[t] = "open" /\ Settled' = [Settled EXCEPT ![t] = "broken"]
  BY Settles DEF Outcomes, Verdict
<1>2. Atomic!Break(t)
  BY <1>1 DEF Atomic!Break, Atomic!Settle, Settled, Content
<1> QED
  BY <1>2 DEF Atomic!Next

\* The end of a rollback is one of the two.
LEMMA RollbackRefines ==
  ASSUME Typed, Typed', OnDisk, UNCHANGED disk, pc # "idle", Answer(RolledBack(job.clean)),
         job.clean => disk = job.old
  PROVE  Atomic!Next
<1>1. job.txn \in Txn /\ outcome[job.txn] = "open" /\ Content = job.old /\ Content' = disk
  BY DEF Typed, JobHasTxn, OnDisk, JobIsOpen, Content, Answer
<1>2. CASE job.clean
  BY <1>1, <1>2, DeclineRefines DEF Answer, RolledBack
<1>3. CASE ~ job.clean
  BY <1>1, <1>3, BreakRefines DEF Answer, RolledBack, Typed, TypeOK
<1> QED
  BY <1>2, <1>3

\* Every step is a step of AtomicCommit or changes nothing seen from outside.
LEMMA StepRefines == Typed /\ Typed' /\ OnDisk /\ [Next]_vars => [Atomic!Next]_Atomic!acVars
<1> SUFFICES ASSUME Typed, Typed', OnDisk, [Next]_vars PROVE [Atomic!Next]_Atomic!acVars
  OBVIOUS
<1> USE DEF writerVars, engineVars, digestVars
<1>0. job \in Job /\ (pc # "idle" => job.txn \in Txn /\ job.kind \in Kinds)
  BY DEF Typed, TypeOK, JobHasTxn
<1>1. ASSUME NEW t \in Txn, Refuse(t) PROVE Atomic!Next
  BY <1>1, DeclineRefines DEF Refuse, IsNext, Content
<1>2. ASSUME NEW t \in Txn, NEW k \in Kinds, Begin(t, k) PROVE [Atomic!Next]_Atomic!acVars
  BY <1>2, Stutters DEF Begin, Content
<1>3. ASSUME pc # "idle", pc' # "idle", UNCHANGED outcome, job'.old = job.old
      PROVE  [Atomic!Next]_Atomic!acVars
  BY <1>3, Stutters DEF Content
<1>4. CASE Publish \/ (PublishFails /\ ~ Strict(job.kind))
  <2>1. disk = After(job.txn, job.kind, job.old)
    BY <1>4, SavedWhole DEF Publish, PublishFails, Saving
  <2> QED
    BY <1>0, <1>4, <2>1, SaveRefines
       DEF Publish, PublishFails, Answer, OnDisk, JobIsOpen, Content
<1>5. CASE AllRestored
  BY <1>3, <1>5, RollbackRefines, RestoredWhole DEF AllRestored
<1>6. CASE ReloadOld
  BY <1>3, <1>6, RollbackRefines DEF ReloadOld, OnDisk, RestoredSoFar
<1>7. CASE ReloadOldFails
  BY <1>0, <1>3, <1>7, RollbackRefines, JobNoted DEF ReloadOldFails, OnDisk, RestoredSoFar
<1>8. CASE Revert
  BY <1>8, RollbackRefines DEF Revert, OnDisk, RestoredSoFar
<1>9. CASE Crash /\ pc # "idle"
  BY <1>0, <1>9, BreakRefines DEF Crash, OnDisk, JobIsOpen, Content, Typed, TypeOK
<1>10. ASSUME pc = "idle", pc' = "idle", UNCHANGED <<outcome, disk>>
       PROVE  [Atomic!Next]_Atomic!acVars
  BY <1>10, Stutters DEF Content
<1>11. ASSUME UNCHANGED <<writerVars, disk>>
       PROVE  [Atomic!Next]_Atomic!acVars
  BY <1>11, Stutters DEF Content
<1>12. CASE SaveNext \/ AllSaved \/ SaveFails \/ SendBarrier \/ BarrierPending
            \/ BarrierTimesOut \/ RestoreNext \/ (PublishFails /\ Strict(job.kind))
  BY <1>3, <1>12
     DEF SaveNext, AllSaved, SaveFails, SendBarrier, BarrierPending, BarrierTimesOut,
         RestoreNext, PublishFails, StartRestore
<1>13. CASE Reload \/ ReloadFails \/ BarrierAnswered \/ RestoreFails
  BY <1>0, <1>3, <1>13, JobNoted
     DEF Reload, ReloadFails, BarrierAnswered, RestoreFails, StartRestore
<1> QED
  BY <1>1, <1>2, <1>4, <1>5, <1>6, <1>7, <1>8, <1>9, <1>10, <1>11, <1>12, <1>13
     DEF Next, Work, Crash, Rebuild, AnswerBarrier, StartPull, Pull, vars

\* The transactions implement AtomicCommit: seen from outside, a save happens in one step
\* or not at all, unless its answer, or the lack of one, says otherwise.
THEOREM Refinement == Spec => ImplementsAtomicCommit
<1>1. Spec => [][Atomic!Next]_Atomic!acVars
  BY Safety, StepRefines, PTL DEF Spec
<1> QED
  BY <1>1, InitRefines, PTL DEF Spec, ImplementsAtomicCommit, Atomic!Spec

-----------------------------------------------------------------------------
(* LoadedIsWhole: without the faults that leave the hub in part. *)

\* No restore fails, the engine accepts every reload, the runtime does not die.  Each
\* of these alone leaves the engine, or the disk, with part of a transaction.
Undisturbed == ~ RestoreFaults /\ ~ EngineRejects /\ MaxCrashes = 0

\* Snapshots and results are whole configurations, and the engine has one of them: the
\* snapshots until the reload, then what is on disk, then the snapshots again.
LoadedIsWhole ==
  /\ crashes = 0
  /\ engine \in legit
  /\ pc = "idle" => engine = disk
  /\ pc # "idle" =>
       /\ job.clean
       /\ job.old \in legit
       /\ After(job.txn, job.kind, job.old) \in legit
       /\ \A r \in Resources \ job.changed : engine[r] = job.old[r]
  /\ pc \in {"save", "reload"} => engine = job.old /\ ~ job.reloaded
  /\ pc \in {"restore", "reloadOld"} /\ ~ Strict(job.kind) => engine = job.old /\ ~ job.reloaded
  /\ pc \in {"await", "waiting", "publish"} => engine = disk
  /\ pc = "reloadOld" => Strict(job.kind)
  /\ pc = "revert" => engine = job.old

\* config_new after whole saves or whole rollbacks: the engine has what is on disk.
LEMMA ReloadsWhole ==
  ASSUME Typed, OnDisk, LoadedIsWhole, pc # "idle",
         ReloadEngine(ReloadOf(job.kind, job.changed))
  PROVE  engine' = disk
<1>1. \A r \in Resources : engine'[r] = disk[r]
  <2> SUFFICES ASSUME NEW r \in Resources PROVE engine'[r] = disk[r]
    OBVIOUS
  <2>1. CASE r \in job.changed
    BY <2>1, ReloadLoads
  <2>2. CASE r \notin job.changed
    BY <2>2 DEF OnDisk, JobIsOpen, LoadedIsWhole, ReloadEngine, Load
  <2> QED
    BY <2>1, <2>2
<1>2. engine' \in [Resources -> Value] /\ disk \in [Resources -> Value]
  BY ReloadTyped DEF Typed, TypeOK, Config
<1> QED
  BY <1>1, <1>2

\* What the engine has loaded at boot.
LEMMA InitLoadedIsWhole == Init => LoadedIsWhole
BY DEF Init, LoadedIsWhole

\* Without those faults every step keeps the engine on whole configurations.
LEMMA NextLoadedIsWhole ==
  ASSUME Undisturbed, Typed, Typed', OnDisk, OnDisk', LoadedIsWhole, [Next]_vars
  PROVE  LoadedIsWhole'
<1> USE DEF LoadedIsWhole, writerVars, engineVars, digestVars
<1>0. job \in Job /\ pc \in Pcs /\ disk \in Config /\ engine \in Config
  BY DEF Typed, TypeOK
<1>1. ASSUME NEW t \in Txn, Refuse(t) PROVE LoadedIsWhole'
  BY <1>1 DEF Refuse
<1>2. ASSUME NEW t \in Txn, NEW k \in Kinds, Begin(t, k) PROVE LoadedIsWhole'
  BY <1>2 DEF Begin
<1>3. CASE SaveNext
  BY <1>3 DEF SaveNext
<1>4. CASE AllSaved
  BY <1>4 DEF AllSaved
<1>5. CASE SaveFails
  BY <1>5 DEF SaveFails, StartRestore
<1>6. CASE Reload
  <2>1. engine' = After(job.txn, job.kind, job.old)
    <3>1. engine' = disk /\ disk' = disk
      BY <1>6, ReloadsWhole DEF Reload
    <3>2. disk = After(job.txn, job.kind, job.old)
      BY <1>0, <1>6, SavedWhole, JobNoted DEF Reload, Saving
    <3> QED
      BY <3>1, <3>2
  <2>2. /\ job'.old = job.old /\ job'.txn = job.txn /\ job'.kind = job.kind
        /\ job'.changed = job.changed /\ job'.clean = job.clean
    BY <1>0, <1>6 DEF Reload, Job
  <2>3. engine' = disk' /\ \A r \in Resources \ job.changed : disk'[r] = job.old[r]
    BY <1>6, ReloadsWhole DEF Reload, OnDisk, JobIsOpen
  <2>4. pc' = "await" /\ crashes' = crashes /\ legit' = legit /\ pc = "reload"
    BY <1>6 DEF Reload
  <2>5. After(job.txn, job.kind, job.old)' = After(job.txn, job.kind, job.old)
    BY <2>2 DEF After, SaveOrder, NewValue
  <2> QED
    BY <2>1, <2>2, <2>3, <2>4, <2>5
<1>7. CASE SendBarrier \/ BarrierPending \/ BarrierTimesOut
  BY <1>7 DEF SendBarrier, BarrierPending, BarrierTimesOut
<1>8. CASE BarrierAnswered
  BY <1>0, <1>8 DEF BarrierAnswered, Job
<1>9. CASE Publish \/ PublishFails
  BY <1>9 DEF Publish, PublishFails, Answer, StartRestore
<1>10. CASE RestoreNext
  BY <1>10 DEF RestoreNext
<1>11. CASE AllRestored
  BY <1>11, RestoredWhole DEF AllRestored, Answer
<1>12. CASE ReloadOld
  BY <1>12, ReloadsWhole DEF ReloadOld, Answer, OnDisk, RestoredSoFar
<1>13. CASE Revert
  BY <1>13 DEF Revert, Answer, OnDisk, RestoredSoFar
<1>14. ASSUME UNCHANGED <<writerVars, disk, engine, crashes, legit>> PROVE LoadedIsWhole'
  BY <1>14
<1>15. ~ ReloadFails /\ ~ ReloadOldFails /\ ~ RestoreFails /\ ~ Crash
  BY <1>0 DEF Undisturbed, ReloadFails, ReloadOldFails, EngineRefuses, RestoreFails, Crash
<1> QED
  BY <1>1, <1>2, <1>3, <1>4, <1>5, <1>6, <1>7, <1>8, <1>9, <1>10, <1>11, <1>12, <1>13,
     <1>14, <1>15
     DEF Next, Work, Rebuild, AnswerBarrier, StartPull, Pull, vars

\* The invariant without those faults.
LEMMA UndisturbedSafety ==
  ASSUME Undisturbed PROVE Spec => [](Typed /\ OnDisk /\ LoadedIsWhole)
<1>1. Typed /\ Typed' /\ OnDisk /\ OnDisk' /\ LoadedIsWhole /\ [Next]_vars => LoadedIsWhole'
  BY NextLoadedIsWhole
<1> QED
  BY <1>1, Safety, InitLoadedIsWhole, PTL DEF Spec

\* EngineNeverRunsHalfASave is invariant while no restore fails, the engine accepts every
\* reload and the runtime does not die: harmonyengine has the lists from before or after
\* a whole transaction, although each is saved on its own and not all are reloaded.
THEOREM EngineRunsWholeSaves ==
  ASSUME Undisturbed PROVE Spec => []EngineNeverRunsHalfASave
BY UndisturbedSafety, PTL DEF LoadedIsWhole, EngineNeverRunsHalfASave

-----------------------------------------------------------------------------
(* RemoteFollows: what a remote has pulled. *)

\* Two revisions are equal or differ in both numbers, and the hub's is the newest.
VersionsGoTogether ==
  /\ digest.config = digest.state
  /\ remote.revision.config = remote.revision.state
  /\ remote.seen.config = remote.seen.state
  /\ remote.revision.state <= digest.state
  /\ remote.seen.state <= digest.state
  /\ pc # "idle" => job.config = digest.config

\* Unless a new revision is on its way, a remote that knows the current one has, and
\* one that is pulling it gets, the lists that will be there when the writer is idle.
PulledIsCurrent ==
  pc \notin Saving =>
    /\ remote.seen = digest =>
         \A r \in Resources \ ListsIn(remote.pulling) : remote.staged[r] = Content[r]
    /\ remote.revision = digest => remote.has = Content

RemoteFollows == VersionsGoTogether /\ PulledIsCurrent

\* What the remote has at boot.
LEMMA InitRemoteFollows == Init => RemoteFollows
BY DEF Init, RemoteFollows, VersionsGoTogether, PulledIsCurrent, FirstRevision, Content, Saving

\* Every step keeps account of what the remote has and of the two version numbers.
LEMMA NextRemoteFollows ==
  ASSUME Undisturbed, ~ DigestFaults, Typed, Typed', OnDisk, LoadedIsWhole, RemoteFollows,
         [Next]_vars
  PROVE  RemoteFollows'
<1> USE DEF RemoteFollows, VersionsGoTogether, PulledIsCurrent, Content, Saving,
            writerVars, engineVars, digestVars
<1>0. /\ job \in Job /\ pc \in Pcs /\ disk \in Config /\ remote \in Remote
      /\ digest \in Revision /\ remote.revision \in Revision /\ remote.seen \in Revision
      /\ job.clean \in BOOLEAN
  BY JobTyped DEF Typed, TypeOK, Remote
<1>1. ASSUME NEW t \in Txn, Refuse(t) PROVE RemoteFollows'
  BY <1>0, <1>1 DEF Refuse
<1>2. ASSUME NEW t \in Txn, NEW k \in Kinds, Begin(t, k) PROVE RemoteFollows'
  BY <1>0, <1>2 DEF Begin
<1>3. CASE SaveNext
  BY <1>0, <1>3 DEF SaveNext
<1>4. CASE AllSaved
  BY <1>0, <1>4 DEF AllSaved
<1>5. CASE SaveFails
  BY <1>0, <1>5 DEF SaveFails, StartRestore
<1>6. CASE Reload
  BY <1>0, <1>6, JobNoted DEF Reload
<1>7. CASE SendBarrier \/ BarrierPending \/ BarrierTimesOut
  BY <1>0, <1>7 DEF SendBarrier, BarrierPending, BarrierTimesOut
<1>8. CASE BarrierAnswered
  BY <1>0, <1>8, JobNoted DEF BarrierAnswered
<1>9. CASE Publish
  <2>1. digest'.state = 1 + digest.state /\ digest'.config = 1 + digest.config
    BY <1>0, <1>9 DEF Publish, NextRevision, Strict
  <2> QED
    BY <1>0, <1>9, <2>1 DEF Publish, Answer, Revision
<1>10. CASE RestoreNext
  BY <1>0, <1>10 DEF RestoreNext
<1>11. CASE AllRestored
  BY <1>0, <1>11, RestoredWhole DEF AllRestored, Answer, LoadedIsWhole
<1>12. CASE ReloadOld
  BY <1>0, <1>12 DEF ReloadOld, Answer, OnDisk, RestoredSoFar, LoadedIsWhole
<1>13. CASE Revert
  <2>1. digest' = digest
    BY <1>0, <1>13 DEF Revert, Revision
  <2> QED
    BY <1>0, <1>13, <2>1 DEF Revert, Answer, OnDisk, RestoredSoFar, LoadedIsWhole
<1>14. CASE StartPull
  <2>1. /\ remote'.seen = digest /\ remote'.pulling = PullOrder
        /\ remote'.revision = remote.revision /\ remote'.has = remote.has
    BY <1>0, <1>14 DEF StartPull, Remote
  <2>2. UNCHANGED <<pc, job, disk, digest>>
    BY <1>14 DEF StartPull
  <2>3. VersionsGoTogether'
    BY <1>0, <2>1, <2>2 DEF Revision
  <2>4. PulledIsCurrent'
    BY <2>1, <2>2, PullTyped
  <2> QED
    BY <2>3, <2>4
<1>15. CASE Pull
  <2> DEFINE r == Head(remote.pulling)
             staged == [remote.staged EXCEPT ![r] = disk[r]]
  <2>1. /\ remote.pulling \in Seq(Resources) /\ remote.pulling # <<>>
        /\ r \in Resources
        /\ ListsIn(remote.pulling) = {r} \cup ListsIn(Tail(remote.pulling))
    BY <1>0, <1>15, HeadTail DEF Pull, Remote
  <2>2. staged \in Config /\ \A q \in Resources :
          staged[q] = IF q = r THEN disk[q] ELSE remote.staged[q]
    BY <1>0, <2>1 DEF Remote, Config
  <2>3. pc \notin Saving => Content = disk
    BY <1>15 DEF Pull, Yielding, OnDisk, RestoredSoFar, LoadedIsWhole
  <2>4. /\ UNCHANGED <<pc, job, disk, digest>> /\ remote'.seen = remote.seen
        /\ remote'.staged = staged /\ remote'.pulling = Tail(remote.pulling)
    BY <1>0, <1>15 DEF Pull, Remote
  <2>5. pc \notin Saving /\ remote.seen = digest =>
          \A q \in Resources \ ListsIn(remote'.pulling) : staged[q] = Content[q]
    BY <2>1, <2>2, <2>3, <2>4
  <2>6. CASE Tail(remote.pulling) # <<>>
    BY <1>0, <1>15, <2>4, <2>5, <2>6 DEF Pull, Remote
  <2>7. CASE Tail(remote.pulling) = <<>>
    <3>1. remote'.has = staged /\ remote'.revision = remote.seen
      BY <1>0, <1>15, <2>7 DEF Pull, Remote
    <3>2. pc \notin Saving /\ remote.seen = digest => staged = Content
      BY <1>0, <2>2, <2>3, <2>4, <2>5, <2>7 DEF ListsIn, Config
    <3> QED
      BY <2>4, <2>5, <3>1, <3>2
  <2> QED
    BY <2>6, <2>7
<1>16. ASSUME UNCHANGED <<writerVars, disk, digest, remote>> PROVE RemoteFollows'
  BY <1>16
<1>17. ~ ReloadFails /\ ~ ReloadOldFails /\ ~ RestoreFails /\ ~ PublishFails /\ ~ Crash
  BY DEF Undisturbed, ReloadFails, ReloadOldFails, EngineRefuses, RestoreFails, Crash,
         PublishFails, LoadedIsWhole
<1> QED
  BY <1>1, <1>2, <1>3, <1>4, <1>5, <1>6, <1>7, <1>8, <1>9, <1>10, <1>11, <1>12, <1>13,
     <1>14, <1>15, <1>16, <1>17
     DEF Next, Work, Rebuild, AnswerBarrier, vars

\* RemoteIsUpToDate is invariant if also the state digest can be saved and announced: a
\* remote that sees no newer revision has the lists on disk, although it pulls them one
\* by one while the next transaction saves, rolls back and takes its version back.
THEOREM RemoteCatchesUp ==
  ASSUME Undisturbed, ~ DigestFaults PROVE Spec => []RemoteIsUpToDate
<1>1. /\ Typed /\ Typed' /\ OnDisk /\ LoadedIsWhole /\ RemoteFollows /\ [Next]_vars
      => RemoteFollows'
  BY NextRemoteFollows
<1>2. Typed /\ RemoteFollows => RemoteIsUpToDate
  BY DEF Typed, TypeOK, Remote, Revision, RemoteFollows, VersionsGoTogether,
         PulledIsCurrent, Saving, Content, RemoteIsUpToDate, IsNews
<1> QED
  BY <1>1, <1>2, UndisturbedSafety, InitRemoteFollows, PTL DEF Spec

-----------------------------------------------------------------------------
(* The protocol of the Home Assistant devices. *)

\* NoDeviceWithoutProtocol, of one configuration.
HasItsProtocol(c) == c["DeviceList"].ha => c["ProtocolList"].ha

\* Whether a list a transaction writes holds Home Assistant entries.
LEMMA NewHa ==
  ASSUME NEW t, NEW k, NEW r, NEW v
  PROVE  /\ r \in {"DeviceList", "ProtocolList"} /\ k = "haAdd" => NewValue(t, k, r, v).ha
         /\ r \in {"DeviceList", "ProtocolList"} /\ k = "haRemove"
              => ~ NewValue(t, k, r, v).ha
         /\ k \notin {"haAdd", "haRemove"} => NewValue(t, k, r, v).ha = v.ha
BY DEF NewValue

\* A whole transaction on lists where no Home Assistant device lacks its protocol makes
\* such lists.
LEMMA AfterHasItsProtocol ==
  ASSUME NEW t \in Txn, NEW k \in AllKinds, NEW c \in Config, HasItsProtocol(c)
  PROVE  HasItsProtocol(After(t, k, c))
<1> DEFINE a == After(t, k, c)
           wrote == ListsIn(SaveOrder(k, c))
<1>1. \A r \in Resources : a[r] = IF r \in wrote THEN NewValue(t, k, r, c[r]) ELSE c[r]
  BY DEF After, ListsIn
<1>2. "DeviceList" \in Resources /\ "ProtocolList" \in Resources
  BY DEF Resources
<1>3. wrote = Lists(k, c)
  BY SaveOrderLists
<1>4. CASE k \in {"activity", "screen"}
  <2>1. a["DeviceList"] = c["DeviceList"] /\ a["ProtocolList"] = c["ProtocolList"]
    BY <1>1, <1>2, <1>3, <1>4 DEF Lists, ActivityResources
  <2> QED
    BY <2>1 DEF HasItsProtocol
<1>5. CASE k = "settings"
  <2>1. a["ProtocolList"] = c["ProtocolList"]
    BY <1>1, <1>2, <1>3, <1>5 DEF Lists
  <2>2. a["DeviceList"] = NewValue(t, k, "DeviceList", c["DeviceList"])
    BY <1>1, <1>2, <1>3, <1>5 DEF Lists
  <2>3. a["DeviceList"].ha = c["DeviceList"].ha
    BY <1>5, <2>2, NewHa
  <2> QED
    BY <2>1, <2>3 DEF HasItsProtocol
<1>6. CASE k = "haAdd" /\ c["ProtocolList"].ha
  <2>1. a["ProtocolList"] = c["ProtocolList"]
    BY <1>1, <1>2, <1>3, <1>6 DEF Lists
  <2> QED
    BY <1>6, <2>1 DEF HasItsProtocol
<1>7. CASE k = "haAdd" /\ ~ c["ProtocolList"].ha
  <2>1. a["ProtocolList"] = NewValue(t, k, "ProtocolList", c["ProtocolList"])
    BY <1>1, <1>2, <1>3, <1>7 DEF Lists
  <2>2. a["ProtocolList"].ha
    BY <1>7, <2>1, NewHa
  <2> QED
    BY <2>2 DEF HasItsProtocol
<1>8. CASE k = "haRemove"
  <2>1. a["DeviceList"] = NewValue(t, k, "DeviceList", c["DeviceList"])
    BY <1>1, <1>2, <1>3, <1>8 DEF Lists
  <2>2. ~ a["DeviceList"].ha
    BY <1>8, <2>1, NewHa
  <2> QED
    BY <2>2 DEF HasItsProtocol
<1> QED
  BY <1>4, <1>5, <1>6, <1>7, <1>8 DEF AllKinds

\* NoDeviceWithoutProtocol is invariant while no restore fails, the engine accepts every
\* reload and the runtime does not die: commitHaDevices never has the engine load a Home
\* Assistant device without the protocol.
THEOREM DevicesHaveTheirProtocol ==
  ASSUME Undisturbed PROVE Spec => []NoDeviceWithoutProtocol
<1> DEFINE Sound == \A c \in legit : HasItsProtocol(c)
<1>1. Init => Sound
  BY DEF Init, Original, HasItsProtocol, Resources
<1>2. Typed /\ LoadedIsWhole /\ Sound /\ [Next]_vars => Sound'
  <2> SUFFICES ASSUME Typed, LoadedIsWhole, Sound, [Next]_vars PROVE Sound'
    OBVIOUS
  <2>1. ASSUME NEW t \in Txn, NEW k \in Kinds, Begin(t, k) PROVE Sound'
    <3>1. disk \in legit /\ disk \in Config
      BY <2>1 DEF Begin, LoadedIsWhole, Typed, TypeOK
    <3>2. HasItsProtocol(After(t, k, disk))
      BY <3>1, AfterHasItsProtocol, KindsAssumption
    <3> QED
      BY <2>1, <3>2 DEF Begin
  <2>2. legit' = legit \/ \E t \in Txn, k \in Kinds : Begin(t, k)
    BY DEF Next, Work, Refuse, SaveNext, AllSaved, SaveFails, Reload, ReloadFails, SendBarrier,
           BarrierPending, BarrierAnswered, BarrierTimesOut, Publish, PublishFails,
           RestoreNext, RestoreFails, AllRestored, ReloadOld, ReloadOldFails, Revert,
           Rebuild, AnswerBarrier, StartPull, Pull, Crash, vars
  <2> QED
    BY <2>1, <2>2
<1>3. LoadedIsWhole /\ Sound => NoDeviceWithoutProtocol
  BY DEF LoadedIsWhole, HasItsProtocol, NoDeviceWithoutProtocol
<1> QED
  BY <1>1, <1>2, <1>3, UndisturbedSafety, PTL DEF Spec
=============================================================================
