-------------------------- MODULE ActivitySaveProofs --------------------------
(***************************************************************************)
(* What holds of the saves for every number of editors, syncs and screens. *)
(* The invariant has two parts beside the types.  Calls relates where a    *)
(* child is to the calls that it has made and to the call that the writer  *)
(* is at.  Knows says what a child still knows of the lists on disk: as    *)
(* long as nobody has written behind it, what it has read of a list is     *)
(* what the list is, and what it proposes, and what it read before, differ *)
(* from the list by its own edits only.  So does what the writer writes.   *)
(***************************************************************************)
EXTENDS ActivitySave, TLAPS

\* What a child may ask of the writer.
Kinds == {"save", "undo", "sync"}

\* The elements of a sequence.
ListsIn(s) == {s[i] : i \in DOMAIN s}

\* The calls of a child, by where the child is and what it has told.
CallsAt(e) ==
  /\ request[<<e, "save">>] = "waiting" => phase[e] = "commit"
  /\ request[<<e, "undo">>] = "waiting" => phase[e] = "undo"
  /\ request[<<e, "sync">>] = "waiting" => phase[e] = "syncCommit"
  /\ phase[e] \in {"new", "load", "edit", "check", "syncCheck"} =>
       \A kind \in Kinds : request[<<e, kind>>] = "none"
  /\ phase[e] \in {"commit", "verify", "compare"} => request[<<e, "undo">>] = "none"
  /\ phase[e] \in {"verify", "compare", "undo", "compareAgain"} =>
       request[<<e, "save">>] \notin {"waiting", "taken"}
  /\ phase[e] = "compareAgain" => request[<<e, "undo">>] = "ok"
  /\ phase[e] \in {"commit", "verify", "compare", "undo", "compareAgain"} =>
       request[<<e, "sync">>] = "none"
  /\ request[<<e, "undo">>] # "none" => request[<<e, "save">>] \notin {"waiting", "taken"}
  /\ told[e] # "none" => phase[e] = "done"
  /\ told[e] = "saved" => \A kind \in Kinds : request[<<e, kind>>] \notin {"waiting", "taken"}

\* The writer only works at a call that it has taken and not yet answered.
WriterIsAsked == writer.mode # "idle" => writer.call \in Call /\ request[writer.call] = "taken"

\* The children and the writer agree about the calls.
Calls == WriterIsAsked /\ \A e \in Client : CallsAt(e)

\* Two versions of a list that differ by the edits of c at most.
Same(c, x, y) == x \ {c} = y \ {c}

\* What c knows of the lists on disk, unless somebody has written behind it.
KnowsAt(c) ==
  /\ phase[c] = "check" => \A l \in List : Same(c, proposal[c][l], base[c][l])
  /\ c \notin overtaken =>
       /\ phase[c] \in Reading \ {"load"} =>
            \A l \in List \ ListsIn(left[c]) : read[c][l] = disk[l]
       /\ phase[c] \in {"commit", "verify", "compare", "undo", "compareAgain"} =>
            \A l \in List : Same(c, old[c][l], disk[l]) /\ Same(c, proposal[c][l], disk[l])
       /\ phase[c] = "syncCommit" => \A l \in List : Same(c, proposal[c][l], disk[l])

\* What the writer writes and what it restores differ from the disk by the edits of its
\* caller at most, unless somebody has written behind the caller.
WritesSame ==
  writer.mode # "idle" /\ writer.call[1] \notin overtaken =>
    \A l \in List : /\ Same(writer.call[1], writer.content[l], disk[l])
                    /\ Same(writer.call[1], writer.before[l], disk[l])

\* What the children and the writer know of the disk.
Knows == WritesSame /\ \A c \in Client : KnowsAt(c)

\* The invariant of the module.
IInv == TypeOK /\ Calls /\ Knows

-----------------------------------------------------------------------------
(* TypeOK. *)

\* The lists at the start, and the order in which they are read and written.
LEMMA Constants ==
  /\ Empty \in Lists
  /\ Order \in Seq(List) /\ ListsIn(Order) = List
  /\ NoCall \notin Call
BY NoCallAssumption DEF Empty, Lists, Order, List, ListsIn, Call

\* Taking the first element off a sequence.
LEMMA HeadTail ==
  ASSUME NEW S, NEW s \in Seq(S), s # <<>>
  PROVE  /\ Head(s) \in S /\ Tail(s) \in Seq(S)
         /\ ListsIn(s) = {Head(s)} \cup ListsIn(Tail(s))
<1>1. Head(s) \in S /\ Tail(s) \in Seq(S)
  OBVIOUS
<1>2. ListsIn(s) \subseteq {Head(s)} \cup ListsIn(Tail(s))
  <2> SUFFICES ASSUME NEW i \in 1..Len(s), i # 1 PROVE s[i] \in ListsIn(Tail(s))
    BY DEF ListsIn
  <2>1. i - 1 \in DOMAIN Tail(s) /\ Tail(s)[i - 1] = s[i]
    OBVIOUS
  <2> QED
    BY <2>1 DEF ListsIn
<1>3. {Head(s)} \cup ListsIn(Tail(s)) \subseteq ListsIn(s)
  BY DEF ListsIn
<1> QED
  BY <1>1, <1>2, <1>3

\* A child enters a phase.
LEMMA EnterTyped ==
  ASSUME TypeOK, NEW c \in Client, NEW p \in Phases, Enter(c, p)
  PROVE  /\ phase' \in [Client -> Phases] /\ left' \in [Client -> Seq(List)]
         /\ read' \in [Client -> Lists]
<1>1. (IF p \in Reading THEN Order ELSE <<>>) \in Seq(List)
  BY Constants
<1> QED
  BY <1>1, Constants DEF TypeOK, Enter

\* A child answers and exits.
LEMMA TellTyped ==
  ASSUME TypeOK, NEW c \in Client, NEW a \in Answers, Tell(c, a)
  PROVE  /\ phase' \in [Client -> Phases] /\ left' \in [Client -> Seq(List)]
         /\ read' \in [Client -> Lists] /\ base' \in [Client -> Lists]
         /\ proposal' \in [Client -> Lists] /\ old' \in [Client -> Lists]
         /\ told' \in [Client -> Answers]
BY EnterTyped, Constants DEF TypeOK, Tell, Phases

\* A call is made, withdrawn or found not to be made.
LEMMA RequestTyped ==
  ASSUME TypeOK, NEW c \in Client, NEW kind \in Kinds,
         Submit(c, kind) \/ Withdraw(c, kind) \/ NotSubmitted(c, kind)
  PROVE  request' \in [Call -> RequestStates]
<1>1. <<c, kind>> \in Call
  BY DEF Call, Kinds
<1> QED
  BY <1>1 DEF TypeOK, Submit, Withdraw, NotSubmitted, RequestStates

\* The types at the start.
LEMMA InitTyped == Init => TypeOK
BY Constants DEF Init, TypeOK, Phases, Answers, RequestStates, Writer

\* The writer writes and restores lists.
LEMMA WriterTyped ==
  ASSUME TypeOK, writer.mode # "idle" => writer.call \in Call,
         WriteNext \/ WriteFails \/ RestoreNext
  PROVE  disk' \in Lists /\ writer' \in Writer /\ overtaken' \in SUBSET Client
<1>1. /\ writer.content \in Lists /\ writer.before \in Lists /\ writer.todo \in Seq(List)
      /\ disk \in Lists
  BY DEF TypeOK, Writer
<1>2. overtaken' \in SUBSET Client
  BY DEF TypeOK, WriteNext, WriteFails, RestoreNext, Overtakes, InFlight
<1>3. writer.todo # <<>> => Head(writer.todo) \in List /\ Tail(writer.todo) \in Seq(List)
  BY <1>1, HeadTail
<1>4. writer' \in Writer
  BY <1>3, Constants DEF TypeOK, Writer, WriteNext, WriteFails, RestoreNext
<1>5. disk' \in Lists
  BY <1>1, <1>3 DEF Lists, Written, WriteNext, WriteFails, RestoreNext
<1> QED
  BY <1>2, <1>4, <1>5

\* Every step keeps the types.
LEMMA NextTyped == TypeOK /\ Calls /\ [Next]_vars => TypeOK'
<1> SUFFICES ASSUME TypeOK, Calls, [Next]_vars PROVE TypeOK'
  OBVIOUS
<1> USE DEF Phases, Reading, Answers, Kinds, childVars
<1>1. ASSUME NEW c \in Client, ReadNext(c) PROVE TypeOK'
  <2>1. Head(left[c]) \in List /\ Tail(left[c]) \in Seq(List)
    BY <1>1, HeadTail DEF ReadNext, TypeOK
  <2>2. read' \in [Client -> Lists] /\ left' \in [Client -> Seq(List)]
    BY <1>1, <2>1 DEF ReadNext, TypeOK, Lists
  <2> QED
    BY <1>1, <2>2 DEF ReadNext, TypeOK
<1>2. ASSUME NEW c \in Client, ReadFails(c) PROVE TypeOK'
  BY <1>2, TellTyped, EnterTyped, RequestTyped DEF ReadFails, Goto, TypeOK
<1>3. ASSUME NEW c \in Client, StartLoad(c) \/ CommitOk(c) \/ VerifyFails(c) \/ UndoOk(c)
                               \/ StartSync(c)
      PROVE  TypeOK'
  BY <1>3, EnterTyped DEF StartLoad, CommitOk, VerifyFails, UndoOk, StartSync, TypeOK
<1>4. ASSUME NEW c \in Client, Loaded(c) PROVE TypeOK'
  BY <1>4, EnterTyped DEF Loaded, TypeOK
<1>5. ASSUME NEW c \in Client, StartSave(c) PROVE TypeOK'
  <2>1. PICK shape \in EditShapes :
          proposal' = [proposal EXCEPT ![c] =
            [l \in List |-> IF l \in shape THEN base[c][l] \cup {c} ELSE base[c][l]]]
    BY <1>5 DEF StartSave
  <2>2. proposal' \in [Client -> Lists]
    BY <2>1 DEF TypeOK, Lists
  <2> QED
    BY <1>5, <2>2, EnterTyped DEF StartSave, TypeOK
<1>6. ASSUME NEW c \in Client, Conflict(c) \/ Verified(c) \/ NothingToUndo(c) \/ ComparedAgain(c)
      PROVE  TypeOK'
  <2>1. \E a \in Answers : Tell(c, a)
    BY <1>6 DEF Conflict, Verified, NothingToUndo, ComparedAgain
  <2> QED
    BY <1>6, <2>1, TellTyped DEF Conflict, Verified, NothingToUndo, ComparedAgain, TypeOK
<1>7. ASSUME NEW c \in Client, Commit(c) \/ NothingToCommit(c) PROVE TypeOK'
  BY <1>7, EnterTyped, RequestTyped DEF Commit, NothingToCommit, TypeOK
<1>8. ASSUME NEW c \in Client, CommitFails(c) \/ Undo(c) PROVE TypeOK'
  BY <1>8, EnterTyped, RequestTyped DEF CommitFails, Undo, TypeOK
<1>9. ASSUME NEW c \in Client, CommitTimesOut(c) \/ UndoFails(c) \/ SyncEnds(c) PROVE TypeOK'
  BY <1>9, TellTyped, RequestTyped DEF CommitTimesOut, UndoFails, SyncEnds, TypeOK
<1>10. ASSUME NEW c \in Client, Resubmit(c) PROVE TypeOK'
  BY <1>10, EnterTyped, RequestTyped DEF Resubmit, TypeOK
<1>11. ASSUME NEW call \in Call, Take(call) \/ TurnDown(call) PROVE TypeOK'
  <2>1. request' \in [Call -> RequestStates]
    BY <1>11 DEF Take, TurnDown, TypeOK, RequestStates
  <2>2. call[1] \in Client
    BY DEF Call
  <2>3. writer' \in Writer
    BY <1>11, <2>2, Constants DEF Take, TurnDown, TypeOK, Writer
  <2> QED
    BY <1>11, <2>1, <2>3 DEF Take, TurnDown, TypeOK
<1>12. CASE WriteNext \/ WriteFails \/ RestoreNext
  <2>1. disk' \in Lists /\ writer' \in Writer /\ overtaken' \in SUBSET Client
    BY <1>12, WriterTyped DEF Calls, WriterIsAsked
  <2> QED
    BY <1>12, <2>1 DEF WriteNext, WriteFails, RestoreNext, TypeOK
<1>13. CASE Answer
  <2>1. writer' \in Writer
    BY <1>13 DEF Answer, TypeOK, Writer
  <2>2. request' \in [Call -> RequestStates]
    BY <1>13 DEF Answer, TypeOK, RequestStates
  <2> QED
    BY <1>13, <2>1, <2>2 DEF Answer, TypeOK
<1>14. ASSUME NEW c \in Client, SetScreen(c) \/ Confirm(c) \/ ConfirmationDropped(c) PROVE TypeOK'
  <2>1. disk' \in Lists
    <3>1. disk \in [List -> SUBSET Client]
      BY DEF TypeOK, Lists
    <3>2. \A l \in List : [disk EXCEPT ![l] = @ \cup {c}] \in [List -> SUBSET Client]
      BY <3>1
    <3>3. "MapList" \in List /\ "ActivityList" \in List
      BY DEF List
    <3> QED
      BY <1>14, <3>1, <3>2, <3>3 DEF SetScreen, Confirm, ConfirmationDropped, Lists
  <2>2. overtaken' \in SUBSET Client
    BY <1>14 DEF SetScreen, Confirm, ConfirmationDropped, TypeOK, Overtakes, InFlight
  <2>3. \E a \in Answers : Tell(c, a)
    BY <1>14 DEF SetScreen, Confirm, ConfirmationDropped
  <2> QED
    BY <1>14, <2>1, <2>2, <2>3, TellTyped DEF SetScreen, Confirm, ConfirmationDropped, TypeOK
<1>15. CASE UNCHANGED vars
  BY <1>15 DEF vars, TypeOK
<1> QED
  BY <1>1, <1>2, <1>3, <1>4, <1>5, <1>6, <1>7, <1>8, <1>9, <1>10, <1>11, <1>12, <1>13, <1>14, <1>15
     DEF Next, EditorStep, SyncerStep, WriterStep

-----------------------------------------------------------------------------
(* Calls. *)

\* A call that is made waits, and the others stay as they are.
LEMMA Submits ==
  ASSUME TypeOK, NEW c \in Client, NEW kind \in Kinds, Submit(c, kind)
  PROVE  \A d \in Client, k \in Kinds :
           request'[<<d, k>>] = IF d = c /\ k = kind THEN "waiting" ELSE request[<<d, k>>]
<1>1. request' = [request EXCEPT ![<<c, kind>>] = "waiting"]
  BY DEF Submit
<1>2. /\ request \in [Call -> RequestStates] /\ <<c, kind>> \in Call
      /\ \A d \in Client, k \in Kinds :
           <<d, k>> \in Call /\ (<<d, k>> = <<c, kind>> <=> d = c /\ k = kind)
  BY DEF TypeOK, Call, Kinds
<1> QED
  BY <1>1, <1>2

\* A call that nobody has taken is withdrawn, and the others stay as they are.
LEMMA Withdraws ==
  ASSUME TypeOK, NEW c \in Client, NEW kind \in Kinds,
         Withdraw(c, kind) \/ NotSubmitted(c, kind)
  PROVE  \A d \in Client, k \in Kinds :
           request'[<<d, k>>] = IF d = c /\ k = kind /\ request[<<d, k>>] = "waiting"
                                THEN "withdrawn" ELSE request[<<d, k>>]
<1>1. request' = [request EXCEPT ![<<c, kind>>] =
                    IF request[<<c, kind>>] = "waiting" THEN "withdrawn" ELSE request[<<c, kind>>]]
  BY DEF Withdraw, NotSubmitted, Answered
<1>2. /\ request \in [Call -> RequestStates] /\ <<c, kind>> \in Call
      /\ \A d \in Client, k \in Kinds :
           <<d, k>> \in Call /\ (<<d, k>> = <<c, kind>> <=> d = c /\ k = kind)
  BY DEF TypeOK, Call, Kinds
<1> QED
  BY <1>1, <1>2

\* Entering a phase concerns one child, which then has all the files before it.
LEMMA Enters ==
  ASSUME TypeOK, NEW c \in Client, NEW p, Enter(c, p)
  PROVE  /\ phase' = [phase EXCEPT ![c] = p]
         /\ \A d \in Client : /\ phase'[d] = IF d = c THEN p ELSE phase[d]
                              /\ d # c => read'[d] = read[d] /\ left'[d] = left[d]
         /\ p \in Reading => left'[c] = Order
BY DEF TypeOK, Enter

\* So does an answer.
LEMMA Tells ==
  ASSUME TypeOK, NEW c \in Client, NEW a, Tell(c, a)
  PROVE  /\ Enter(c, "done")
         /\ \A d \in Client : /\ told'[d] = IF d = c THEN a ELSE told[d]
                              /\ phase'[d] = IF d = c THEN "done" ELSE phase[d]
                              /\ d # c => /\ read'[d] = read[d] /\ left'[d] = left[d]
                                          /\ base'[d] = base[d] /\ old'[d] = old[d]
                                          /\ proposal'[d] = proposal[d]
BY Enters DEF TypeOK, Tell

\* Nobody has called at the start.
LEMMA InitCalls == Init => Calls
<1> SUFFICES ASSUME Init PROVE Calls
  OBVIOUS
<1>1. WriterIsAsked
  BY DEF Init, WriterIsAsked
<1>2. ASSUME NEW e \in Client PROVE CallsAt(e)
  <2>1. \A k \in Kinds : <<e, k>> \in Call /\ request[<<e, k>>] = "none"
    BY DEF Init, Call, Kinds
  <2>2. phase[e] = "new" /\ told[e] = "none"
    BY DEF Init
  <2> QED
    BY <2>1, <2>2 DEF CallsAt, Kinds
<1> QED
  BY <1>1, <1>2 DEF Calls

\* The children keep the writer's call as it is.
LEMMA KeepsWriterAsked ==
  ASSUME TypeOK, WriterIsAsked, UNCHANGED writer,
         \A call \in Call : request[call] = "taken" => request'[call] = "taken"
  PROVE  WriterIsAsked'
BY DEF WriterIsAsked

\* A call is a child and a kind.
LEMMA CallSplits ==
  ASSUME NEW call \in Call
  PROVE  \E c \in Client, k \in Kinds : call = <<c, k>> /\ call[1] = c /\ call[2] = k
BY DEF Call, Kinds

\* What a child's step leaves alone.
\* A child's step concerns neither the disk, nor the writer, nor the other children.
LEMMA ChildFrame ==
  ASSUME TypeOK, NEW c \in Client,
         ReadNext(c) \/ ReadFails(c) \/ EditorStep(c) \/ SyncerStep(c)
  PROVE  /\ UNCHANGED <<disk, writer, overtaken>>
         /\ \A d \in Client \ {c} :
              /\ phase'[d] = phase[d] /\ left'[d] = left[d] /\ read'[d] = read[d]
              /\ base'[d] = base[d] /\ proposal'[d] = proposal[d] /\ old'[d] = old[d]
              /\ told'[d] = told[d]
              /\ \A k \in Kinds : request'[<<d, k>>] = request[<<d, k>>]
<1>1. CASE ReadNext(c)
  BY <1>1 DEF ReadNext, TypeOK
<1> DEFINE Still(f, g) == \A d \in Client \ {c} : g[d] = f[d]
<1>2. ASSUME NEW p, Enter(c, p)
      PROVE  Still(phase, phase') /\ Still(left, left') /\ Still(read, read')
  BY <1>2, Enters
<1>3. ASSUME NEW a, Tell(c, a)
      PROVE  /\ Still(phase, phase') /\ Still(left, left') /\ Still(read, read')
             /\ Still(base, base') /\ Still(proposal, proposal') /\ Still(old, old')
             /\ Still(told, told')
  BY <1>3, Tells
<1> DEFINE Kept == \A d \in Client \ {c}, k \in Kinds : request'[<<d, k>>] = request[<<d, k>>]
<1>4. \A kind \in Kinds : Submit(c, kind) \/ Withdraw(c, kind) \/ NotSubmitted(c, kind) => Kept
  <2> TAKE kind \in Kinds
  <2>1. ASSUME Submit(c, kind) PROVE Kept
    <3> SUFFICES ASSUME NEW d \in Client \ {c}, NEW k \in Kinds
                 PROVE  request'[<<d, k>>] = request[<<d, k>>]
      OBVIOUS
    <3>1. request'[<<d, k>>] = IF d = c /\ k = kind THEN "waiting" ELSE request[<<d, k>>]
      BY <2>1, Submits
    <3> QED
      BY <3>1
  <2>2. ASSUME Withdraw(c, kind) \/ NotSubmitted(c, kind) PROVE Kept
    BY <2>2, Withdraws
  <2> QED
    BY <2>1, <2>2
<1>5. UNCHANGED request => Kept
  OBVIOUS
<1>6. (\E p : Enter(c, p)) \/ ReadNext(c)
  BY DEF ReadFails, Goto, EditorStep, SyncerStep, StartLoad, Loaded, StartSave, Conflict, Commit,
         NothingToCommit, CommitOk, CommitFails, CommitTimesOut, Verified, VerifyFails,
         NothingToUndo, Undo, UndoOk, UndoFails, ComparedAgain, StartSync, Resubmit, SyncEnds, Tell
<1>7. CASE ReadFails(c)
  BY <1>7, <1>2, <1>3, <1>4, <1>5 DEF ReadFails, Goto, Kinds
<1>8. CASE Commit(c) \/ CommitFails(c) \/ Undo(c) \/ Resubmit(c)
  <2>1. Still(proposal, proposal') /\ Still(base, base') /\ Still(told, told') /\ Still(old, old')
    BY <1>8 DEF Commit, CommitFails, Undo, Resubmit, TypeOK
  <2>2. Kept
    BY <1>8, <1>4, <1>5 DEF Commit, CommitFails, Undo, Resubmit, Kinds
  <2>3. \E p : Enter(c, p)
    BY <1>8 DEF Commit, CommitFails, Undo, Resubmit
  <2> QED
    BY <1>8, <1>2, <2>1, <2>2, <2>3 DEF Commit, CommitFails, Undo, Resubmit
<1>9. CASE CommitTimesOut(c) \/ UndoFails(c) \/ SyncEnds(c)
  <2>1. Kept
    BY <1>9, <1>4, <1>5 DEF CommitTimesOut, UndoFails, SyncEnds, Kinds
  <2>2. \E a : Tell(c, a)
    BY <1>9 DEF CommitTimesOut, UndoFails, SyncEnds
  <2> QED
    BY <1>9, <1>3, <2>1, <2>2 DEF CommitTimesOut, UndoFails, SyncEnds
<1>10. CASE Conflict(c) \/ Verified(c) \/ NothingToUndo(c) \/ ComparedAgain(c)
  <2>1. \E a : Tell(c, a)
    BY <1>10 DEF Conflict, Verified, NothingToUndo, ComparedAgain
  <2> QED
    BY <1>10, <1>3, <1>5, <2>1 DEF Conflict, Verified, NothingToUndo, ComparedAgain
<1>11. CASE StartLoad(c) \/ Loaded(c) \/ StartSave(c) \/ NothingToCommit(c) \/ CommitOk(c)
            \/ VerifyFails(c) \/ UndoOk(c) \/ StartSync(c)
  <2>1. Still(proposal, proposal') /\ Still(base, base') /\ Still(told, told') /\ Still(old, old')
    BY <1>11 DEF StartLoad, Loaded, StartSave, NothingToCommit, CommitOk, VerifyFails, UndoOk,
                 StartSync, TypeOK
  <2>2. \E p : Enter(c, p)
    BY <1>11 DEF StartLoad, Loaded, StartSave, NothingToCommit, CommitOk, VerifyFails, UndoOk,
                 StartSync
  <2>3. UNCHANGED <<disk, writer, overtaken>> /\ Kept
    BY <1>11, <1>5 DEF StartLoad, Loaded, StartSave, NothingToCommit, CommitOk, VerifyFails, UndoOk,
                 StartSync
  <2> QED
    BY <1>2, <2>1, <2>2, <2>3
<1> QED
  BY <1>1, <1>7, <1>8, <1>9, <1>10, <1>11 DEF EditorStep, SyncerStep

\* What a step leaves alone keeps its calls in order.
LEMMA OthersCalls ==
  ASSUME NEW d, CallsAt(d), phase'[d] = phase[d], told'[d] = told[d],
         \A k \in Kinds : request'[<<d, k>>] = request[<<d, k>>]
  PROVE  CallsAt(d)'
BY DEF CallsAt, Kinds

\* A child neither gives a call it has not made the mark of the writer nor takes it away.
LEMMA ChildKeepsTaken ==
  ASSUME TypeOK, Calls, NEW c \in Client,
         ReadNext(c) \/ ReadFails(c) \/ EditorStep(c) \/ SyncerStep(c)
  PROVE  WriterIsAsked'
<1>1. CallsAt(c) /\ WriterIsAsked
  BY DEF Calls
<1>2. \A k \in Kinds : request[<<c, k>>] = "taken" => request'[<<c, k>>] = "taken"
  <2>1. CASE UNCHANGED request
    BY <2>1
  <2>2. ASSUME NEW kind \in Kinds, Withdraw(c, kind) \/ NotSubmitted(c, kind)
        PROVE  \A k \in Kinds : request[<<c, k>>] = "taken" => request'[<<c, k>>] = "taken"
    BY <2>2, Withdraws
  <2>3. ASSUME NEW kind \in Kinds, Submit(c, kind), request[<<c, kind>>] # "taken"
        PROVE  \A k \in Kinds : request[<<c, k>>] = "taken" => request'[<<c, k>>] = "taken"
    BY <2>3, Submits
  <2>4. CASE Commit(c)
    BY <2>4, <2>3, <1>1 DEF Commit, HasRead, CallsAt, Kinds
  <2>5. CASE Undo(c)
    BY <2>5, <2>3, <1>1 DEF Undo, HasRead, CallsAt, Kinds
  <2>6. CASE Resubmit(c)
    BY <2>6, <2>3, <1>1 DEF Resubmit, HasRead, CallsAt, Kinds
  <2>7. CASE ReadFails(c)
    BY <2>7, <2>1, <2>3, <1>1 DEF ReadFails, CallsAt, Kinds
  <2>8. CASE CommitFails(c) \/ CommitTimesOut(c) \/ UndoFails(c) \/ SyncEnds(c)
    BY <2>8, <2>1, <2>2 DEF CommitFails, CommitTimesOut, UndoFails, SyncEnds, Kinds
  <2>9. CASE \/ ReadNext(c) \/ StartLoad(c) \/ Loaded(c) \/ StartSave(c) \/ Conflict(c)
             \/ NothingToCommit(c) \/ CommitOk(c) \/ Verified(c) \/ VerifyFails(c)
             \/ NothingToUndo(c) \/ UndoOk(c) \/ ComparedAgain(c) \/ StartSync(c)
    BY <2>9, <2>1 DEF ReadNext, StartLoad, Loaded, StartSave, Conflict, NothingToCommit, CommitOk,
                      Verified, VerifyFails, NothingToUndo, UndoOk, ComparedAgain, StartSync
  <2> QED
    BY <2>4, <2>5, <2>6, <2>7, <2>8, <2>9 DEF EditorStep, SyncerStep
<1>3. \A call \in Call : request[call] = "taken" => request'[call] = "taken"
  BY <1>2, ChildFrame, CallSplits
<1> QED
  BY <1>1, <1>3, ChildFrame, KeepsWriterAsked

\* Every child's step keeps the calls in order: an undo is only made once the save is over.
LEMMA ChildCalls ==
  ASSUME TypeOK, Calls, NEW c \in Client,
         ReadNext(c) \/ ReadFails(c) \/ EditorStep(c) \/ SyncerStep(c)
  PROVE  Calls'
<1>0. CallsAt(c)
  BY DEF Calls
<1>1. \A d \in Client \ {c} : CallsAt(d)'
  BY ChildFrame, OthersCalls DEF Calls
<1> SUFFICES CallsAt(c)'
  BY <1>1, ChildKeepsTaken DEF Calls
<1> USE DEF Kinds, Reading
<1>2. CASE ReadNext(c)
  BY <1>2, <1>0 DEF ReadNext, CallsAt
<1>3. ASSUME UNCHANGED <<told, request>>,
             \/ phase[c] = "new" /\ phase'[c] \in {"load", "syncCheck"}
             \/ phase[c] = "load" /\ phase'[c] = "edit"
             \/ phase[c] = "edit" /\ phase'[c] = "check"
             \/ phase[c] = "check" /\ phase'[c] = "verify"
             \/ phase[c] = "commit" /\ phase'[c] \in {"verify", "compare"}
                /\ request[<<c, "save">>] \notin {"waiting", "taken"}
             \/ phase[c] = "verify" /\ phase'[c] = "compare"
             \/ phase[c] = "undo" /\ phase'[c] = "compareAgain" /\ request[<<c, "undo">>] = "ok"
      PROVE  CallsAt(c)'
  BY <1>0, <1>3 DEF CallsAt
<1>4. CASE \/ StartLoad(c) \/ Loaded(c) \/ StartSave(c) \/ NothingToCommit(c) \/ CommitOk(c)
           \/ VerifyFails(c) \/ UndoOk(c) \/ StartSync(c)
  BY <1>4, <1>3, Enters DEF StartLoad, Loaded, StartSave, NothingToCommit, CommitOk, VerifyFails,
                    UndoOk, StartSync, HasRead, Answered
<1>5. ASSUME UNCHANGED told,
             \/ phase[c] = "check" /\ Submit(c, "save") /\ phase'[c] = "commit"
             \/ phase[c] = "compare" /\ Submit(c, "undo") /\ phase'[c] = "undo"
             \/ phase[c] = "syncCheck" /\ Submit(c, "sync") /\ phase'[c] = "syncCommit"
      PROVE  CallsAt(c)'
  BY <1>0, <1>5, Submits DEF CallsAt
<1>6. CASE Commit(c) \/ Undo(c) \/ Resubmit(c)
  BY <1>6, <1>5, Enters DEF Commit, Undo, Resubmit, HasRead
<1>7. CASE CommitFails(c)
  <2>1. phase[c] = "commit" /\ phase'[c] = "compare" /\ UNCHANGED told
    BY <1>7, Enters DEF CommitFails
  <2>2. CASE NotSubmitted(c, "save")
    <3>1. request[<<c, "save">>] = "waiting"
      BY <2>2 DEF NotSubmitted, Answered
    <3>2. /\ request'[<<c, "save">>] = "withdrawn" /\ request'[<<c, "undo">>] = request[<<c, "undo">>]
          /\ request'[<<c, "sync">>] = request[<<c, "sync">>]
      BY <2>2, <3>1, Withdraws
    <3>3. told[c] = "none" \/ told[c] # "none"
      OBVIOUS
    <3> QED
      BY <1>0, <2>1, <3>1, <3>2 DEF CallsAt
  <2>3. CASE Answered(c, "save", "rejected") /\ UNCHANGED request
    BY <2>1, <2>3, <1>3 DEF Answered
  <2> QED
    BY <1>7, <2>2, <2>3 DEF CommitFails
<1>8. ASSUME UNCHANGED request, phase'[c] = "done",
             phase[c] \notin {"commit", "undo", "syncCommit"},
             told'[c] = "saved" => phase[c] = "verify"
      PROVE  CallsAt(c)'
  BY <1>0, <1>8 DEF CallsAt
<1>9. CASE Conflict(c) \/ Verified(c) \/ NothingToUndo(c) \/ ComparedAgain(c)
  BY <1>9, <1>8, Tells DEF Conflict, Verified, NothingToUndo, ComparedAgain, HasRead
<1>10. ASSUME phase'[c] = "done", told'[c] # "saved",
              \/ phase[c] = "commit" /\ Withdraw(c, "save")
              \/ phase[c] = "undo" /\ Withdraw(c, "undo")
              \/ phase[c] = "syncCommit" /\ Withdraw(c, "sync")
       PROVE  CallsAt(c)'
  BY <1>0, <1>10, Withdraws DEF CallsAt
<1>11. CASE CommitTimesOut(c) \/ UndoFails(c)
  BY <1>11, <1>10, Tells DEF CommitTimesOut, UndoFails
<1>12. CASE SyncEnds(c)
  <2>1. CASE Answered(c, "sync", "ok") /\ Tell(c, "refreshed") /\ UNCHANGED request
    <3>1. phase'[c] = "done" /\ told'[c] = "refreshed"
      BY <2>1, Tells
    <3>2. phase[c] = "syncCommit" /\ request[<<c, "sync">>] = "ok"
      BY <1>12, <2>1 DEF SyncEnds, Answered
    <3> QED
      BY <1>0, <2>1, <3>1, <3>2 DEF CallsAt
  <2>2. CASE Withdraw(c, "sync") /\ Tell(c, "failed")
    BY <1>12, <2>2, <1>10, Tells DEF SyncEnds
  <2> QED
    BY <1>12, <2>1, <2>2 DEF SyncEnds
<1>13. CASE ReadFails(c)
  <2>1. CASE phase[c] \in {"load", "check", "syncCheck"} /\ Tell(c, "unavailable") /\ UNCHANGED request
    BY <2>1, <1>8, Tells
  <2>2. CASE phase[c] = "verify" /\ Goto(c, "compare") /\ UNCHANGED request
    BY <2>2, <1>3, Enters DEF Goto
  <2>3. CASE phase[c] = "compare" /\ Goto(c, "undo") /\ Submit(c, "undo")
    BY <2>3, <1>5, Enters DEF Goto
  <2>4. CASE phase[c] = "compareAgain" /\ Tell(c, "notRolledBack") /\ UNCHANGED request
    BY <2>4, <1>8, Tells
  <2> QED
    BY <1>13, <2>1, <2>2, <2>3, <2>4 DEF ReadFails
<1> QED
  BY <1>2, <1>4, <1>6, <1>7, <1>9, <1>11, <1>12, <1>13 DEF EditorStep, SyncerStep

\* The writer takes, refuses or answers a call that somebody waits for.
LEMMA RequestMoves ==
  ASSUME TypeOK, Calls, NEW call \in Call, NEW v \in {"taken", "ok", "rejected"},
         request[call] \in {"waiting", "taken"}, v = "taken" => request[call] = "waiting",
         request' = [request EXCEPT ![call] = v], UNCHANGED <<phase, told>>
  PROVE  \A d \in Client : CallsAt(d)'
<1>1. PICK c \in Client, kind \in Kinds : call = <<c, kind>>
  BY CallSplits
<1>2. \A d \in Client, k \in Kinds :
        request'[<<d, k>>] = IF d = c /\ k = kind THEN v ELSE request[<<d, k>>]
  <2>1. /\ request \in [Call -> RequestStates]
        /\ \A d \in Client, k \in Kinds :
             <<d, k>> \in Call /\ (<<d, k>> = <<c, kind>> <=> d = c /\ k = kind)
    BY DEF TypeOK, Call, Kinds
  <2> QED
    BY <1>1, <2>1
<1>3. \A d \in Client : CallsAt(d)
  BY DEF Calls
<1>4. \A d \in Client \ {c} : CallsAt(d)'
  <2> TAKE d \in Client \ {c}
  <2>1. \A k \in Kinds : request'[<<d, k>>] = request[<<d, k>>]
    BY <1>2
  <2> QED
    BY <1>3, <2>1, OthersCalls
<1>5. CallsAt(c)'
  <2>1. request[<<c, kind>>] \in {"waiting", "taken"}
        /\ (v = "taken" => request[<<c, kind>>] = "waiting")
    BY <1>1
  <2>2. \A k \in Kinds : request'[<<c, k>>] = IF k = kind THEN v ELSE request[<<c, k>>]
    BY <1>2
  <2> QED
    BY <1>3, <2>1, <2>2 DEF CallsAt, Kinds
<1> QED
  BY <1>4, <1>5

\* So does every step of the writer's.
LEMMA WriterKeepsCalls ==
  ASSUME TypeOK, Calls, WriterStep
  PROVE  Calls'
<1>0. WriterIsAsked /\ \A d \in Client : CallsAt(d)
  BY DEF Calls
<1>1. ASSUME NEW call \in Call, Take(call) PROVE Calls'
  <2>1. /\ request[call] = "waiting" /\ request' = [request EXCEPT ![call] = "taken"]
        /\ UNCHANGED <<phase, told>> /\ writer'.call = call
    BY <1>1 DEF Take, childVars
  <2>2. \A d \in Client : CallsAt(d)'
    BY <2>1, RequestMoves
  <2>3. WriterIsAsked'
    BY <2>1 DEF WriterIsAsked, TypeOK
  <2> QED
    BY <2>2, <2>3 DEF Calls
<1>2. ASSUME NEW call \in Call, TurnDown(call) PROVE Calls'
  <2>1. /\ request[call] = "waiting" /\ request' = [request EXCEPT ![call] = "rejected"]
        /\ UNCHANGED <<phase, told, writer>> /\ writer.mode = "idle"
    BY <1>2 DEF TurnDown, childVars
  <2>2. \A d \in Client : CallsAt(d)'
    BY <2>1, RequestMoves
  <2> QED
    BY <2>1, <2>2 DEF Calls, WriterIsAsked
<1>3. CASE Answer
  <2> DEFINE v == IF writer.mode = "saving" THEN "ok" ELSE "rejected"
  <2>1. /\ writer.call \in Call /\ request[writer.call] = "taken"
        /\ request' = [request EXCEPT ![writer.call] = v]
        /\ UNCHANGED <<phase, told>> /\ writer' = [writer EXCEPT !.mode = "idle"]
    BY <1>0, <1>3 DEF Answer, childVars, WriterIsAsked
  <2>2. v \in {"ok", "rejected"}
    OBVIOUS
  <2>3. \A d \in Client : CallsAt(d)'
    BY <2>1, <2>2, RequestMoves
  <2>4. WriterIsAsked'
    BY <2>1 DEF WriterIsAsked, TypeOK, Writer
  <2> QED
    BY <2>3, <2>4 DEF Calls
<1>4. CASE WriteNext \/ WriteFails \/ RestoreNext
  <2>1. UNCHANGED <<phase, told, request>>
    BY <1>4 DEF WriteNext, WriteFails, RestoreNext, childVars
  <2>2. writer'.call = writer.call /\ writer.mode # "idle"
    BY <1>4 DEF WriteNext, WriteFails, RestoreNext, TypeOK, Writer
  <2> QED
    BY <1>0, <2>1, <2>2 DEF Calls, CallsAt, WriterIsAsked
<1>5. ASSUME NEW c \in Client, SetScreen(c) \/ Confirm(c) \/ ConfirmationDropped(c) PROVE Calls'
  <2>1. (\E a \in Answers : Tell(c, a)) /\ UNCHANGED <<request, writer>> /\ phase[c] = "new"
    BY <1>5 DEF SetScreen, Confirm, ConfirmationDropped, Answers
  <2>2. \A d \in Client : /\ d # c => phase'[d] = phase[d] /\ told'[d] = told[d]
                          /\ d = c => phase'[d] = "done"
    BY <2>1, Tells
  <2>3. CallsAt(c)'
    BY <1>0, <2>1, <2>2 DEF CallsAt, Kinds
  <2>4. \A d \in Client \ {c} : CallsAt(d)'
    <3> TAKE d \in Client \ {c}
    <3>1. phase'[d] = phase[d] /\ told'[d] = told[d]
      BY <2>2
    <3> QED
      BY <1>0, <2>1, <3>1, OthersCalls
  <2> QED
    BY <1>0, <2>1, <2>3, <2>4 DEF Calls, WriterIsAsked
<1> QED
  BY <1>1, <1>2, <1>3, <1>4, <1>5 DEF WriterStep

\* Every step keeps the calls in order.
LEMMA NextCalls == TypeOK /\ Calls /\ [Next]_vars => Calls'
<1> SUFFICES ASSUME TypeOK, Calls, [Next]_vars PROVE Calls'
  OBVIOUS
<1>1. CASE UNCHANGED vars
  BY <1>1 DEF vars, childVars, Calls, CallsAt, WriterIsAsked
<1> QED
  BY <1>1, ChildCalls, WriterKeepsCalls DEF Next

-----------------------------------------------------------------------------
(* Knows. *)

\* Nobody knows anything at the start.
LEMMA InitKnows == Init => Knows
BY DEF Init, Knows, KnowsAt, WritesSame, Reading

\* What a step leaves alone knows what it knew.
LEMMA OthersKnow ==
  ASSUME NEW d, KnowsAt(d), UNCHANGED <<disk, overtaken>>, phase'[d] = phase[d],
         left'[d] = left[d], read'[d] = read[d], base'[d] = base[d],
         proposal'[d] = proposal[d], old'[d] = old[d]
  PROVE  KnowsAt(d)'
BY DEF KnowsAt

\* A child that has read all the lists has them as they are.
LEMMA AllRead ==
  ASSUME Knows, NEW c \in Client, NEW p \in Reading \ {"load"}, HasRead(c, p), c \notin overtaken
  PROVE  \A l \in List : read[c][l] = disk[l]
<1>1. ListsIn(<<>>) = {}
  BY DEF ListsIn
<1> QED
  BY <1>1 DEF Knows, KnowsAt, HasRead

\* Every child's step keeps what the children know: a child only proposes what its lists
\* were when it loaded them, and the revision says that they are the same now.
LEMMA ChildKnows ==
  ASSUME TypeOK, Knows, NEW c \in Client,
         ReadNext(c) \/ ReadFails(c) \/ EditorStep(c) \/ SyncerStep(c)
  PROVE  Knows'
<1>1. UNCHANGED <<disk, writer, overtaken>>
  BY ChildFrame
<1>2. WritesSame' /\ \A d \in Client \ {c} : KnowsAt(d)'
  <2>1. WritesSame'
    BY <1>1 DEF Knows, WritesSame
  <2>2. \A d \in Client \ {c} : KnowsAt(d)'
    BY <1>1, ChildFrame, OthersKnow DEF Knows
  <2> QED
    BY <2>1, <2>2
<1> SUFFICES KnowsAt(c)'
  BY <1>2 DEF Knows
<1>3. KnowsAt(c)
  BY DEF Knows
<1> USE DEF Reading
<1>4. CASE ReadNext(c)
  <2> DEFINE h == Head(left[c])
  <2>1. /\ left[c] \in Seq(List) /\ left[c] # <<>> /\ read \in [Client -> Lists]
        /\ left \in [Client -> Seq(List)]
    BY <1>4 DEF ReadNext, TypeOK
  <2>2. h \in List /\ ListsIn(left[c]) = {h} \cup ListsIn(Tail(left[c]))
    BY <2>1, HeadTail
  <2>3. left'[c] = Tail(left[c]) /\ \A l \in List : read'[c][l] = IF l = h THEN disk[l] ELSE read[c][l]
    BY <1>4, <2>1, <2>2 DEF ReadNext, Lists
  <2>4. \A l \in List : l \notin ListsIn(left'[c]) => l = h \/ l \notin ListsIn(left[c])
    BY <2>2, <2>3
  <2>5. UNCHANGED <<phase, base, proposal, old, disk, overtaken>>
    BY <1>4 DEF ReadNext
  <2> QED
    BY <1>3, <2>3, <2>4, <2>5 DEF KnowsAt
<1>5. ASSUME phase'[c] \in {"done", "edit", "load", "undo", "syncCheck"},
             phase'[c] = "undo" => phase[c] = "compare",
             phase'[c] = "syncCheck" => left'[c] = Order, UNCHANGED <<old, proposal>> \/ phase'[c] = "done"
      PROVE  KnowsAt(c)'
  BY <1>1, <1>3, <1>5, Constants DEF KnowsAt
<1>6. ASSUME NEW p \in {"verify", "compare", "compareAgain"}, Enter(c, p), UNCHANGED <<old, proposal>>,
             phase[c] \in {"commit", "verify", "compare", "undo", "compareAgain"}
      PROVE  KnowsAt(c)'
  <2>1. phase'[c] = p /\ left'[c] = Order
    BY <1>6, Enters
  <2> QED
    BY <1>1, <1>3, <1>6, <2>1, Constants DEF KnowsAt
<1>7. CASE \/ StartLoad(c) \/ Loaded(c) \/ Conflict(c) \/ CommitTimesOut(c) \/ Verified(c)
           \/ NothingToUndo(c) \/ UndoFails(c) \/ ComparedAgain(c) \/ SyncEnds(c)
  BY <1>7, <1>5, Enters, Tells
     DEF StartLoad, Loaded, Conflict, CommitTimesOut, Verified, NothingToUndo, UndoFails,
         ComparedAgain, SyncEnds
<1>8. CASE Undo(c) \/ StartSync(c)
  BY <1>8, <1>5, Enters DEF Undo, StartSync, HasRead
<1>9. CASE CommitOk(c) \/ CommitFails(c) \/ VerifyFails(c) \/ UndoOk(c)
  BY <1>9, <1>6 DEF CommitOk, CommitFails, VerifyFails, UndoOk, HasRead
<1>10. CASE ReadFails(c)
  <2>1. CASE \E a : Tell(c, a)
    BY <2>1, <1>5, Tells
  <2>2. CASE phase[c] = "verify" /\ Goto(c, "compare")
    BY <2>2, <1>6 DEF Goto
  <2>3. CASE phase[c] = "compare" /\ Goto(c, "undo")
    BY <2>3, <1>5, Enters DEF Goto
  <2> QED
    BY <1>10, <2>1, <2>2, <2>3 DEF ReadFails
<1>11. CASE StartSave(c)
  <2>1. PICK shape \in EditShapes :
          proposal' = [proposal EXCEPT ![c] =
            [l \in List |-> IF l \in shape THEN base[c][l] \cup {c} ELSE base[c][l]]]
    BY <1>11 DEF StartSave
  <2>2. phase'[c] = "check" /\ left'[c] = Order /\ UNCHANGED base
    BY <1>11, Enters DEF StartSave
  <2>3. \A l \in List : Same(c, proposal'[c][l], base[c][l])
    BY <2>1 DEF TypeOK, Same
  <2> QED
    BY <2>2, <2>3, Constants DEF KnowsAt
<1>12. CASE Commit(c) \/ NothingToCommit(c)
  <2>1. /\ HasRead(c, "check") /\ Revision(read[c]) = Revision(base[c])
        /\ old' = [old EXCEPT ![c] = read[c]] /\ UNCHANGED proposal
    BY <1>12 DEF Commit, NothingToCommit
  <2>2. phase'[c] \in {"commit", "verify"} /\ (phase'[c] = "verify" => left'[c] = Order)
    BY <1>12, Enters DEF Commit, NothingToCommit
  <2>3. \A l \in List : read[c][l] = base[c][l]
    BY <2>1 DEF Revision, List
  <2>4. c \notin overtaken => \A l \in List : read[c][l] = disk[l]
    BY <2>1, AllRead
  <2>5. old'[c] = read[c]
    BY <2>1 DEF TypeOK
  <2>6. \A l \in List : Same(c, proposal[c][l], base[c][l])
    BY <1>3, <2>1 DEF KnowsAt, HasRead
  <2>7. c \notin overtaken =>
          \A l \in List : Same(c, old'[c][l], disk[l]) /\ Same(c, proposal[c][l], disk[l])
    BY <2>3, <2>4, <2>5, <2>6 DEF Same
  <2> QED
    BY <1>1, <2>1, <2>2, <2>7, Constants DEF KnowsAt
<1>13. CASE Resubmit(c)
  <2>1. HasRead(c, "syncCheck") /\ proposal' = [proposal EXCEPT ![c] = read[c]]
    BY <1>13 DEF Resubmit
  <2>2. phase'[c] = "syncCommit"
    BY <1>13, Enters DEF Resubmit
  <2>3. c \notin overtaken => \A l \in List : read[c][l] = disk[l]
    BY <2>1, AllRead
  <2>4. proposal'[c] = read[c]
    BY <2>1 DEF TypeOK
  <2> QED
    BY <1>1, <2>2, <2>3, <2>4 DEF KnowsAt, Same
<1> QED
  BY <1>4, <1>7, <1>8, <1>9, <1>10, <1>11, <1>12, <1>13 DEF EditorStep, SyncerStep

\* A step of somebody's that changes the lists leaves every other child on its way overtaken.
LEMMA WriterLeavesOvertaken ==
  ASSUME Calls, NEW a \in Client, UNCHANGED <<phase, base, proposal>>, Overtakes(a), Knows,
         NEW d \in Client \ {a}
  PROVE  KnowsAt(d)'
<1>1. d \in InFlight => d \in overtaken'
  BY DEF Overtakes
<1>2. phase[d] \notin {"new", "load", "edit", "done"} => d \in overtaken'
  BY <1>1 DEF InFlight
<1> QED
  BY <1>2 DEF Knows, KnowsAt, Reading

\* The child that the writer works for is not reading, and has not been told "saved".
LEMMA AskerIsNotReading ==
  ASSUME Calls, NEW c \in Client, writer.mode # "idle", writer.call[1] = c
  PROVE  /\ phase[c] \notin Reading /\ phase[c] # "new" /\ told[c] # "saved"
         /\ c \in InFlight
<1>1. PICK k \in Kinds : writer.call = <<c, k>> /\ request[<<c, k>>] = "taken"
  BY CallSplits DEF Calls, WriterIsAsked
<1> QED
  BY <1>1 DEF Calls, CallsAt, Kinds, Reading, InFlight

\* A write or a restore for a is no news to a, and leaves the others overtaken.
LEMMA WriteKnows ==
  ASSUME TypeOK, Calls, Knows, NEW a \in Client, writer.mode # "idle", writer.call[1] = a,
         Overtakes(a), UNCHANGED childVars,
         \A l \in List : disk'[l] \in {disk[l], writer.content[l], writer.before[l]},
         writer'.call = writer.call, writer'.content = writer.content,
         writer'.before = writer.before
  PROVE  Knows'
<1>1. UNCHANGED <<phase, left, read, base, proposal, old>>
  BY DEF childVars
<1>2. \A d \in Client \ {a} : KnowsAt(d)'
  BY <1>1, WriterLeavesOvertaken
<1>3. phase[a] \notin Reading
  BY AskerIsNotReading
<1>4. overtaken \subseteq overtaken'
  BY DEF Overtakes
<1>5. a \notin overtaken => \A l \in List : Same(a, disk'[l], disk[l])
  BY DEF Knows, WritesSame, Same
<1>6. KnowsAt(a)'
  <2>1. KnowsAt(a)
    BY DEF Knows
  <2> QED
    BY <1>1, <1>3, <1>4, <1>5, <2>1 DEF KnowsAt, Same, Reading
<1>7. WritesSame'
  BY <1>4, <1>5 DEF Knows, WritesSame, Same
<1> QED
  BY <1>2, <1>6, <1>7 DEF Knows

\* Every step of the writer's keeps what the children know.
LEMMA WriterKnows ==
  ASSUME TypeOK, Calls, Knows, WriterStep
  PROVE  Knows'
<1>1. ASSUME NEW call \in Call, Take(call) PROVE Knows'
  <2>1. PICK c \in Client, k \in Kinds : call = <<c, k>> /\ call[1] = c /\ call[2] = k
    BY CallSplits
  <2>2. /\ request[<<c, k>>] = "waiting" /\ UNCHANGED <<disk, childVars, overtaken>>
        /\ writer'.call[1] = c /\ writer'.before = disk
        /\ writer'.content = IF k = "undo" THEN old[c] ELSE proposal[c]
    BY <1>1, <2>1 DEF Take
  <2>3. phase[c] \in {"commit", "undo", "syncCommit"} /\ (k = "undo" => phase[c] = "undo")
        /\ (k # "undo" => phase[c] # "undo")
    BY <2>2 DEF Calls, CallsAt, Kinds
  <2>4. KnowsAt(c)
    BY DEF Knows
  <2>5. c \notin overtaken => \A l \in List : Same(c, writer'.content[l], disk[l])
    BY <2>2, <2>3, <2>4 DEF KnowsAt
  <2>6. WritesSame'
    BY <2>2, <2>5 DEF WritesSame, Same
  <2>7. \A d \in Client : KnowsAt(d)'
    BY <2>2 DEF Knows, KnowsAt, childVars
  <2> QED
    BY <2>6, <2>7 DEF Knows
<1>2. ASSUME NEW call \in Call, TurnDown(call) PROVE Knows'
  BY <1>2 DEF TurnDown, Knows, KnowsAt, WritesSame, childVars
<1>3. CASE Answer
  <2>1. writer'.mode = "idle" /\ UNCHANGED <<disk, childVars, overtaken>>
    BY <1>3 DEF Answer, TypeOK, Writer
  <2> QED
    BY <2>1 DEF Knows, KnowsAt, WritesSame, childVars
<1>4. CASE WriteNext \/ WriteFails \/ RestoreNext
  <2> DEFINE a == writer.call[1]
  <2>1. writer.mode # "idle" /\ Overtakes(a) /\ UNCHANGED childVars
    BY <1>4 DEF WriteNext, WriteFails, RestoreNext
  <2>2. a \in Client
    BY <2>1 DEF Calls, WriterIsAsked, Call
  <2>3. /\ writer'.call = writer.call /\ writer'.content = writer.content
        /\ writer'.before = writer.before
    BY <1>4 DEF WriteNext, WriteFails, RestoreNext, TypeOK, Writer
  <2>4. \A l \in List : disk'[l] \in {disk[l], writer.content[l], writer.before[l]}
    <3>1. writer.todo # <<>> => Head(writer.todo) \in List
      BY HeadTail DEF TypeOK, Writer
    <3> QED
      BY <1>4, <3>1 DEF WriteNext, WriteFails, RestoreNext, Written, TypeOK, Lists
  <2> HIDE DEF a
  <2> QED
    BY <2>1, <2>2, <2>3, <2>4, WriteKnows DEF a
<1>5. ASSUME NEW c \in Client, SetScreen(c) \/ Confirm(c) PROVE Knows'
  <2>1. phase[c] = "new" /\ Tell(c, "saved") /\ Overtakes(c) /\ UNCHANGED writer
    BY <1>5 DEF SetScreen, Confirm
  <2>2. \A d \in Client : /\ d # c => phase'[d] = phase[d] /\ base'[d] = base[d] /\ proposal'[d] = proposal[d]
                          /\ d = c => phase'[d] = "done"
    BY <2>1, Tells
  <2>3. \A d \in Client : d # c /\ d \in InFlight => d \in overtaken'
    BY <2>1 DEF Overtakes
  <2>4. \A d \in Client : KnowsAt(d)'
    BY <2>2, <2>3 DEF Knows, KnowsAt, InFlight, Reading
  <2>5. WritesSame'
    <3> SUFFICES ASSUME writer.mode # "idle" PROVE writer.call[1] \in overtaken'
      BY <2>1 DEF WritesSame
    <3>1. writer.call[1] \in Client
      BY DEF Calls, WriterIsAsked, Call
    <3> QED
      BY <2>1, <2>3, <3>1, AskerIsNotReading
  <2> QED
    BY <2>4, <2>5 DEF Knows
<1>6. ASSUME NEW c \in Client, ConfirmationDropped(c) PROVE Knows'
  <2>1. UNCHANGED <<disk, writer, overtaken>> /\ Tell(c, "failed")
    BY <1>6 DEF ConfirmationDropped
  <2>2. KnowsAt(c)'
    BY <2>1, Tells DEF KnowsAt, Reading
  <2>3. \A d \in Client \ {c} : KnowsAt(d)'
    BY <2>1, Tells, OthersKnow DEF Knows
  <2> QED
    BY <2>1, <2>2, <2>3 DEF Knows, WritesSame
<1> QED
  BY <1>1, <1>2, <1>3, <1>4, <1>5, <1>6 DEF WriterStep

\* Every step keeps what the children know.
LEMMA NextKnows == TypeOK /\ Calls /\ Knows /\ [Next]_vars => Knows'
<1> SUFFICES ASSUME TypeOK, Calls, Knows, [Next]_vars PROVE Knows'
  OBVIOUS
<1>1. CASE UNCHANGED vars
  BY <1>1 DEF vars, childVars, Knows, KnowsAt, WritesSame
<1> QED
  BY <1>1, ChildKnows, WriterKnows DEF Next

-----------------------------------------------------------------------------
(* Theorems. *)

\* The invariant holds: the types, the order of the calls and what the children know.
THEOREM InvariantHolds == Spec => []IInv
<1>1. Init => IInv
  BY InitTyped, InitCalls, InitKnows DEF IInv
<1>2. IInv /\ [Next]_vars => IInv'
  BY NextTyped, NextCalls, NextKnows DEF IInv
<1> QED
  BY <1>1, <1>2, PTL DEF Spec

\* TypeOK is invariant: disk, children, calls and writer keep to their types.
THEOREM TypeCorrect == Spec => []TypeOK
<1>1. IInv => TypeOK
  BY DEF IInv
<1> QED
  BY <1>1, InvariantHolds, PTL

\* UndoFollowsItsSave is invariant: codex_webui never hands a rollback to the writer while
\* the save that it is to undo may still be waiting or running, because a save without an answer
\* is left alone.
THEOREM UndoFollowsSave == Spec => []UndoFollowsItsSave
<1>1. IInv => UndoFollowsItsSave
  BY DEF IInv, Calls, CallsAt, UndoFollowsItsSave
<1> QED
  BY <1>1, InvariantHolds, PTL

\* The writer takes an acknowledged edit out only for a caller that somebody wrote behind.
LEMMA WriterLosesOnlyOvertaken ==
  ASSUME TypeOK, Calls, Knows, WriteNext \/ WriteFails \/ RestoreNext,
         NEW a \in Client, NEW l \in List, Acknowledged(a, l), a \notin disk'[l]
  PROVE  writer.call[1] \in overtaken
<1> SUFFICES ASSUME writer.call[1] \notin overtaken PROVE FALSE
  OBVIOUS
<1>1. writer.mode # "idle"
  BY DEF WriteNext, WriteFails, RestoreNext
<1>2. writer.call[1] \in Client
  BY <1>1 DEF Calls, WriterIsAsked, Call
<1>3. writer.call[1] # a
  BY <1>1, AskerIsNotReading DEF Acknowledged
<1>4. a \in writer.content[l] /\ a \in writer.before[l]
  BY <1>1, <1>3 DEF Knows, WritesSame, Same, Acknowledged
<1>5. disk'[l] \in {disk[l], writer.content[l], writer.before[l]}
  <2>1. writer.todo # <<>> => Head(writer.todo) \in List
    BY HeadTail DEF TypeOK, Writer
  <2> QED
    BY <2>1 DEF WriteNext, WriteFails, RestoreNext, Written, TypeOK, Lists
<1> QED
  BY <1>4, <1>5 DEF Acknowledged

\* OnlyOvertakenLoses: an edit that was reported saved only disappears by a call whose child
\* was overtaken between its reading the lists and the writing, whatever fails or is restored.
THEOREM LossesAreOvertaken == Spec => OnlyOvertakenLoses
<1> DEFINE Kept == \A a \in Client, l \in List :
              Acknowledged(a, l) /\ a \notin disk'[l] => writer.call[1] \in overtaken
<1>1. IInv /\ [Next]_vars => [Kept]_vars
  <2> SUFFICES ASSUME IInv, Next PROVE Kept
    OBVIOUS
  <2>1. TypeOK /\ Calls /\ Knows
    BY DEF IInv
  <2>2. CASE UNCHANGED disk
    BY <2>2 DEF Acknowledged
  <2>3. CASE WriteNext \/ WriteFails \/ RestoreNext
    BY <2>1, <2>3, WriterLosesOnlyOvertaken
  <2>4. ASSUME NEW c \in Client, SetScreen(c) \/ Confirm(c) PROVE Kept
    <3>1. \A l \in List : disk[l] \subseteq disk'[l]
      BY <2>1, <2>4 DEF SetScreen, Confirm, TypeOK, Lists
    <3> QED
      BY <3>1 DEF Acknowledged
  <2>5. ASSUME NEW call \in Call, Take(call) \/ TurnDown(call) PROVE UNCHANGED disk
    BY <2>5 DEF Take, TurnDown
  <2>6. ASSUME NEW c \in Client, ConfirmationDropped(c) PROVE UNCHANGED disk
    BY <2>6 DEF ConfirmationDropped
  <2>7. Answer => UNCHANGED disk
    BY DEF Answer
  <2> HIDE DEF Kept
  <2> QED
    BY <2>1, <2>2, <2>3, <2>4, <2>5, <2>6, <2>7, ChildFrame DEF Next, WriterStep
<1>2. OnlyOvertakenLoses <=> [][Kept]_vars
  BY PTL DEF OnlyOvertakenLoses
<1> QED
  BY <1>1, <1>2, InvariantHolds, PTL DEF Spec

\* Lists that are equal list by list are equal.
LEMMA SameLists ==
  ASSUME NEW f \in Lists, NEW g \in Lists, \A l \in List : f[l] = g[l]
  PROVE  f = g
BY DEF Lists

\* A child that was not overtaken compares what it proposed, or read before, with the disk.
LEMMA ChildTellsWhatIsOnDisk ==
  ASSUME TypeOK, Calls, Knows, NEW e \in Client, phase[e] \notin {"new", "done"}, e \notin overtaken,
         ReadNext(e) \/ ReadFails(e) \/ EditorStep(e) \/ SyncerStep(e)
  PROVE  /\ told'[e] = "saved" => disk = proposal[e]
         /\ told'[e] = "rolledBack" => disk = old[e]
<1>1. told[e] = "none"
  BY DEF Calls, CallsAt
<1>2. disk \in Lists /\ proposal[e] \in Lists /\ old[e] \in Lists
  BY DEF TypeOK
<1>3. CASE Verified(e)
  <2>1. told'[e] = "saved" /\ HasRead(e, "verify") /\ \A l \in List : read[e][l] = proposal[e][l]
    BY <1>3, Tells DEF Verified, Matches
  <2>2. \A l \in List : read[e][l] = disk[l]
    BY <2>1, AllRead DEF Reading
  <2> QED
    BY <1>2, <2>1, <2>2, SameLists
<1>4. CASE NothingToUndo(e)
  <2>1. told'[e] = "rolledBack" /\ HasRead(e, "compare") /\ \A l \in List : read[e][l] = old[e][l]
    BY <1>4, Tells DEF NothingToUndo, Matches
  <2>2. \A l \in List : read[e][l] = disk[l]
    BY <2>1, AllRead DEF Reading
  <2> QED
    BY <1>2, <2>1, <2>2, SameLists
<1>5. CASE ComparedAgain(e)
  <2>1. /\ HasRead(e, "compareAgain")
        /\ told'[e] = IF Matches(read[e], old[e]) THEN "rolledBack" ELSE "notRolledBack"
    BY <1>5, Tells DEF ComparedAgain
  <2>2. \A l \in List : read[e][l] = disk[l]
    BY <2>1, AllRead DEF Reading
  <2> QED
    BY <1>2, <2>1, <2>2, SameLists DEF Matches
<1>6. ASSUME UNCHANGED told PROVE told'[e] = "none"
  BY <1>1, <1>6
<1>7. CASE \/ ReadNext(e) \/ StartLoad(e) \/ Loaded(e) \/ StartSave(e) \/ Commit(e)
           \/ NothingToCommit(e) \/ CommitOk(e) \/ CommitFails(e) \/ VerifyFails(e) \/ Undo(e)
           \/ UndoOk(e) \/ StartSync(e) \/ Resubmit(e)
  <2>1. UNCHANGED told
    BY <1>7 DEF ReadNext, StartLoad, Loaded, StartSave, Commit, NothingToCommit, CommitOk,
                CommitFails, VerifyFails, Undo, UndoOk, StartSync, Resubmit
  <2> QED
    BY <1>6, <2>1
<1>8. CASE Conflict(e) \/ CommitTimesOut(e) \/ UndoFails(e) \/ SyncEnds(e)
  <2>1. told'[e] \in {"conflict", "pending", "notRolledBack", "refreshed", "failed"}
    BY <1>8, Tells DEF Conflict, CommitTimesOut, UndoFails, SyncEnds
  <2> QED
    BY <2>1
<1>9. CASE ReadFails(e)
  <2>1. UNCHANGED told \/ told'[e] \in {"unavailable", "notRolledBack"}
    BY <1>9, Tells DEF ReadFails, Goto
  <2> QED
    BY <1>6, <2>1
<1> QED
  BY <1>3, <1>4, <1>5, <1>7, <1>8, <1>9 DEF EditorStep, SyncerStep

\* AnswerMatchesDisk: after "saved" the lists on disk are all as proposed, after "rolledBack"
\* all as they were read before, unless somebody else wrote in the meantime.
THEOREM AnswersMatchDisk == Spec => AnswerMatchesDisk
<1> DEFINE True(e) == phase[e] \notin {"new", "done"} /\ e \notin overtaken =>
              /\ told'[e] = "saved" => disk = proposal[e]
              /\ told'[e] = "rolledBack" => disk = old[e]
<1>1. IInv /\ [Next]_vars => [\A e \in Client : True(e)]_vars
  <2> SUFFICES ASSUME IInv, Next, NEW e \in Client, phase[e] \notin {"new", "done"},
                      e \notin overtaken
               PROVE  /\ told'[e] = "saved" => disk = proposal[e]
                      /\ told'[e] = "rolledBack" => disk = old[e]
    OBVIOUS
  <2>1. TypeOK /\ Calls /\ Knows
    BY DEF IInv
  <2>2. told[e] = "none"
    BY <2>1 DEF Calls, CallsAt
  <2>3. CASE ReadNext(e) \/ ReadFails(e) \/ EditorStep(e) \/ SyncerStep(e)
    BY <2>1, <2>3, ChildTellsWhatIsOnDisk
  <2>4. ASSUME NEW c \in Client \ {e}, ReadNext(c) \/ ReadFails(c) \/ EditorStep(c) \/ SyncerStep(c)
        PROVE  told'[e] = "none"
    BY <2>1, <2>2, <2>4, ChildFrame
  <2>5. CASE WriterStep
    <3>1. ASSUME NEW c \in Client, SetScreen(c) \/ Confirm(c) \/ ConfirmationDropped(c)
          PROVE  told'[e] = "none"
      BY <2>1, <2>2, <3>1 DEF SetScreen, Confirm, ConfirmationDropped, Tell, TypeOK
    <3>2. UNCHANGED told => told'[e] = "none"
      BY <2>2
    <3> QED
      BY <2>5, <3>1, <3>2 DEF WriterStep, Take, TurnDown, WriteNext, WriteFails, RestoreNext,
                              Answer, childVars
  <2> QED
    BY <2>3, <2>4, <2>5 DEF Next
<1>2. AnswerMatchesDisk <=> [][\A e \in Client : True(e)]_vars
  BY PTL DEF AnswerMatchesDisk
<1> QED
  BY <1>1, <1>2, InvariantHolds, PTL DEF Spec
===============================================================================
