---------------------------- MODULE ActivitySave ----------------------------
(***************************************************************************)
(* Saving activities from several editors at once: the children of codex_  *)
(* webui that serve /api/activity-config, /api/activity-save and           *)
(* /api/activity-sync, and the writer they hand their lists to.            *)
(*                                                                         *)
(* An editor loads the three lists with their revision, changes them and   *)
(* sends all three back with that revision.  The child reads the lists     *)
(* from disk, compares revisions, has the writer commit the editor's       *)
(* lists, reads the lists back, and on any failure compares again and has  *)
(* the writer commit the lists it read first.  A sync has the writer       *)
(* commit what it reads.  The lists are files that are read one after      *)
(* another, while the writer may be writing them one after another.        *)
(*                                                                         *)
(* A call to the writer keeps the contract of WriterCalls: it is answered  *)
(* with the writer's verdict, or refused and never run, or not answered    *)
(* and perhaps still running.                                              *)
(***************************************************************************)
EXTENDS Naturals, Sequences

CONSTANTS
  Client,      \* an editor with one load and save, a sync, a Touch screen, or a remote's
               \* confirmation that an activity started
  EditShapes,  \* the sets of lists an edit may change
  NoCall       \* "no call"

ASSUME NoCallAssumption == NoCall \notin Client \X {"save", "undo", "sync"}

List == {"ActivityList", "MapList", "FunctionList"}
Order == <<"ActivityList", "MapList", "FunctionList">>

ASSUME ShapesAssumption == EditShapes \subseteq SUBSET List

\* A list is known by the clients whose edits it contains; nobody takes another's
\* edit out on purpose.
Lists == [List -> SUBSET Client]
Call  == Client \X {"save", "undo", "sync"}

VARIABLES
  disk,       \* the three lists
  phase,      \* where each child is
  left,       \* files it has still to read
  read,       \* what it has read
  base,       \* what the editor loaded
  proposal,   \* what is sent to the writer
  old,        \* what the child read before the commit
  told,       \* the HTTP answer
  request,    \* the calls to the writer
  writer,     \* the writer's task
  overtaken   \* history: children somebody wrote behind, since they read the lists

childVars == <<phase, left, read, base, proposal, old, told>>
vars == <<disk, childVars, request, writer, overtaken>>

Reading == {"load", "check", "verify", "compare", "compareAgain", "syncCheck"}
Phases  == {"new", "edit", "commit", "undo", "syncCommit", "done"} \cup Reading
Answers == {"none", "conflict", "unavailable", "saved", "pending", "rolledBack",
            "notRolledBack", "refreshed", "failed"}
RequestStates == {"none", "waiting", "taken", "ok", "rejected", "withdrawn"}
Writer == [mode : {"idle", "saving", "restoring"}, call : Call \cup {NoCall},
           content : Lists, before : Lists, todo : Seq(List)]

TypeOK ==
  /\ disk \in Lists
  /\ phase \in [Client -> Phases]
  /\ left \in [Client -> Seq(List)]
  /\ read \in [Client -> Lists]
  /\ base \in [Client -> Lists]
  /\ proposal \in [Client -> Lists]
  /\ old \in [Client -> Lists]
  /\ told \in [Client -> Answers]
  /\ request \in [Call -> RequestStates]
  /\ writer \in Writer
  /\ overtaken \in SUBSET Client

Empty == [l \in List |-> {}]

Init ==
  /\ disk = Empty
  /\ phase = [c \in Client |-> "new"]
  /\ left = [c \in Client |-> <<>>]
  /\ read = [c \in Client |-> Empty]
  /\ base = [c \in Client |-> Empty]
  /\ proposal = [c \in Client |-> Empty]
  /\ old = [c \in Client |-> Empty]
  /\ told = [c \in Client |-> "none"]
  /\ request = [k \in Call |-> "none"]
  /\ writer = [mode |-> "idle", call |-> NoCall, content |-> Empty, before |-> Empty,
               todo |-> <<>>]
  /\ overtaken = {}

-----------------------------------------------------------------------------
(* Reading the lists. *)

Enter(c, p) ==
  /\ phase' = [phase EXCEPT ![c] = p]
  /\ left' = [left EXCEPT ![c] = IF p \in Reading THEN Order ELSE <<>>]
  /\ read' = [read EXCEPT ![c] = Empty]

Goto(c, p) == Enter(c, p) /\ UNCHANGED <<base, proposal, old, told>>

\* The out: label frees what the child holds, and the child exits.
Tell(c, answer) ==
  /\ told' = [told EXCEPT ![c] = answer]
  /\ Enter(c, "done")
  /\ base' = [base EXCEPT ![c] = Empty]
  /\ proposal' = [proposal EXCEPT ![c] = Empty]
  /\ old' = [old EXCEPT ![c] = Empty]

Submit(c, kind) == request' = [request EXCEPT ![<<c, kind>>] = "waiting"]

HasRead(c, p) == phase[c] = p /\ left[c] = <<>>

ReadNext(c) ==
  /\ phase[c] \in Reading
  /\ left[c] # <<>>
  /\ read' = [read EXCEPT ![c][Head(left[c])] = disk[Head(left[c])]]
  /\ left' = [left EXCEPT ![c] = Tail(@)]
  /\ UNCHANGED <<disk, phase, base, proposal, old, told, request, writer, overtaken>>

\* A file is missing, too long or there is no memory for it.
ReadFails(c) ==
  /\ phase[c] \in Reading
  /\ left[c] # <<>>
  /\ \/ phase[c] \in {"load", "check", "syncCheck"} /\ Tell(c, "unavailable") /\ UNCHANGED request
     \/ phase[c] = "verify" /\ Goto(c, "compare") /\ UNCHANGED request
     \/ phase[c] = "compare" /\ Goto(c, "undo") /\ Submit(c, "undo")
     \/ phase[c] = "compareAgain" /\ Tell(c, "notRolledBack") /\ UNCHANGED request
  /\ UNCHANGED <<disk, writer, overtaken>>

\* Bug: the revision does not cover the function list.
RevisionOfTwo(lists) == <<lists["ActivityList"], lists["MapList"]>>

\* activity_revision: a hash of each list.
Revision(lists) == <<lists["ActivityList"], lists["MapList"], lists["FunctionList"]>>

\* Bug: the function list is not compared.
MatchesTwo(a, b) == \A l \in List \ {"FunctionList"} : a[l] = b[l]

\* json_semantically_matches, list by list.
Matches(a, b) == \A l \in List : a[l] = b[l]

-----------------------------------------------------------------------------
(* The web children. *)

\* GET /api/activity-config.
StartLoad(e) ==
  /\ phase[e] = "new"
  /\ Enter(e, "load")
  /\ UNCHANGED <<disk, base, proposal, old, told, request, writer, overtaken>>

Loaded(e) ==
  /\ HasRead(e, "load")
  /\ base' = [base EXCEPT ![e] = read[e]]
  /\ Enter(e, "edit")
  /\ UNCHANGED <<disk, proposal, old, told, request, writer, overtaken>>

\* POST /api/activity-save: the editor's lists, with the revision it loaded.
StartSave(e) ==
  /\ phase[e] = "edit"
  /\ \E shape \in EditShapes :
       proposal' = [proposal EXCEPT ![e] =
         [l \in List |-> IF l \in shape THEN base[e][l] \cup {e} ELSE base[e][l]]]
  /\ Enter(e, "check")
  /\ UNCHANGED <<disk, base, old, told, request, writer, overtaken>>

\* 409: "activity resources changed since this editor loaded".
Conflict(e) ==
  /\ HasRead(e, "check")
  /\ Revision(read[e]) # Revision(base[e])
  /\ Tell(e, "conflict")
  /\ UNCHANGED <<disk, request, writer, overtaken>>

Commit(e) ==
  /\ HasRead(e, "check")
  /\ Revision(read[e]) = Revision(base[e])
  /\ old' = [old EXCEPT ![e] = read[e]]
  /\ Enter(e, "commit")
  /\ Submit(e, "save")
  /\ UNCHANGED <<disk, base, proposal, told, writer, overtaken>>

\* Nothing changed and no refresh of the remote wanted: "no write was needed".
NothingToCommit(e) ==
  /\ HasRead(e, "check")
  /\ Revision(read[e]) = Revision(base[e])
  /\ Matches(proposal[e], read[e])
  /\ old' = [old EXCEPT ![e] = read[e]]
  /\ Enter(e, "verify")
  /\ UNCHANGED <<disk, base, proposal, told, request, writer, overtaken>>

Answered(c, kind, state) == request[<<c, kind>>] = state

\* The request never reached the writer: the lock is busy or the file cannot be
\* written.
NotSubmitted(c, kind) ==
  /\ Answered(c, kind, "waiting")
  /\ request' = [request EXCEPT ![<<c, kind>>] = "withdrawn"]

\* No more waiting: a request the writer has not read yet is removed.
Withdraw(c, kind) ==
  request' = [request EXCEPT ![<<c, kind>>] = IF @ = "waiting" THEN "withdrawn" ELSE @]

CommitOk(e) ==
  /\ phase[e] = "commit"
  /\ Answered(e, "save", "ok")
  /\ Enter(e, "verify")
  /\ UNCHANGED <<disk, base, proposal, old, told, request, writer, overtaken>>

CommitFails(e) ==
  /\ phase[e] = "commit"
  /\ \/ Answered(e, "save", "rejected") /\ UNCHANGED request
     \/ NotSubmitted(e, "save")
  /\ Enter(e, "compare")
  /\ UNCHANGED <<disk, base, proposal, old, told, writer, overtaken>>

\* Bug: no answer is treated like a rejection.
CommitTimesOutAsFailure(e) ==
  /\ phase[e] = "commit"
  /\ ~ Answered(e, "save", "ok")
  /\ Enter(e, "compare")
  /\ UNCHANGED <<disk, base, proposal, old, told, request, writer, overtaken>>

\* OFFLINE_WRITER_NO_ANSWER, 504: "The plugin may still finish this save, so a
\* rollback now would land after it and undo it."  An unread request is withdrawn;
\* the answer may also be there without the child being able to read it.
CommitTimesOut(e) ==
  /\ phase[e] = "commit"
  /\ Withdraw(e, "save")
  /\ Tell(e, "pending")
  /\ UNCHANGED <<disk, writer, overtaken>>

Verified(e) ==
  /\ HasRead(e, "verify")
  /\ Matches(read[e], proposal[e])
  /\ Tell(e, "saved")
  /\ UNCHANGED <<disk, request, writer, overtaken>>

\* "the offline writer returned success, but its stored resources did not match"
VerifyFails(e) ==
  /\ HasRead(e, "verify")
  /\ ~ Matches(read[e], proposal[e])
  /\ Enter(e, "compare")
  /\ UNCHANGED <<disk, base, proposal, old, told, request, writer, overtaken>>

\* The rollback: label.  The lists may be as they were already.
NothingToUndo(e) ==
  /\ HasRead(e, "compare")
  /\ Matches(read[e], old[e])
  /\ Tell(e, "rolledBack")
  /\ UNCHANGED <<disk, request, writer, overtaken>>

Undo(e) ==
  /\ HasRead(e, "compare")
  /\ ~ Matches(read[e], old[e])
  /\ Enter(e, "undo")
  /\ Submit(e, "undo")
  /\ UNCHANGED <<disk, base, proposal, old, told, writer, overtaken>>

UndoOk(e) ==
  /\ phase[e] = "undo"
  /\ Answered(e, "undo", "ok")
  /\ Enter(e, "compareAgain")
  /\ UNCHANGED <<disk, base, proposal, old, told, request, writer, overtaken>>

\* Rejected, refused, or not answered in time.
UndoFails(e) ==
  /\ phase[e] = "undo"
  /\ Withdraw(e, "undo")
  /\ Tell(e, "notRolledBack")
  /\ UNCHANGED <<disk, writer, overtaken>>

ComparedAgain(e) ==
  /\ HasRead(e, "compareAgain")
  /\ Tell(e, IF Matches(read[e], old[e]) THEN "rolledBack" ELSE "notRolledBack")
  /\ UNCHANGED <<disk, request, writer, overtaken>>

\* POST /api/activity-sync has no revision to compare: it commits what it reads, to
\* have the engine reload it and the remote pull it.
StartSync(s) ==
  /\ phase[s] = "new"
  /\ Enter(s, "syncCheck")
  /\ UNCHANGED <<disk, base, proposal, old, told, request, writer, overtaken>>

\* Bug: the function list is left out of the request.
ResubmitTwo(s) ==
  /\ HasRead(s, "syncCheck")
  /\ proposal' = [proposal EXCEPT ![s] =
       [l \in {"ActivityList", "MapList"} |-> read[s][l]]]
  /\ Enter(s, "syncCommit")
  /\ Submit(s, "sync")
  /\ UNCHANGED <<disk, base, old, told, writer, overtaken>>

Resubmit(s) ==
  /\ HasRead(s, "syncCheck")
  /\ proposal' = [proposal EXCEPT ![s] = read[s]]
  /\ Enter(s, "syncCommit")
  /\ Submit(s, "sync")
  /\ UNCHANGED <<disk, base, old, told, writer, overtaken>>

SyncEnds(s) ==
  /\ phase[s] = "syncCommit"
  /\ \/ Answered(s, "sync", "ok") /\ Tell(s, "refreshed") /\ UNCHANGED request
     \/ Withdraw(s, "sync") /\ Tell(s, "failed")
  /\ UNCHANGED <<disk, writer, overtaken>>

-----------------------------------------------------------------------------
(* The writer, as the children see it: commitActivityResources list by list. *)

\* Also the child whose call the writer is at, though it may have given up.
InFlight ==
  {c \in Client : \/ phase[c] \notin {"new", "load", "edit", "done"}
                  \/ writer.mode # "idle" /\ writer.call[1] = c}

Overtakes(actor) == overtaken' = overtaken \cup (InFlight \ {actor})

Take(call) ==
  /\ writer.mode = "idle"
  /\ request[call] = "waiting"
  /\ request' = [request EXCEPT ![call] = "taken"]
  /\ writer' = [mode |-> "saving", call |-> call, before |-> disk, todo |-> Order,
                content |-> IF call[2] = "undo" THEN old[call[1]]
                                                ELSE proposal[call[1]]]
  /\ UNCHANGED <<disk, childVars, overtaken>>

\* Refused before anything is written: blocker off, list unreadable, lists not
\* valid, sync under way.
TurnDown(call) ==
  /\ writer.mode = "idle"
  /\ request[call] = "waiting"
  /\ request' = [request EXCEPT ![call] = "rejected"]
  /\ UNCHANGED <<disk, childVars, writer, overtaken>>

Written(l) == [disk EXCEPT ![l] = writer.content[l]]

WriteNext ==
  /\ writer.mode = "saving"
  /\ writer.todo # <<>>
  /\ disk' = Written(Head(writer.todo))
  /\ writer' = [writer EXCEPT !.todo = Tail(@)]
  /\ Overtakes(writer.call[1])
  /\ UNCHANGED <<childVars, request>>

\* A save, its read-back, the reload or the publication fails.
WriteFails ==
  /\ writer.mode = "saving"
  /\ \/ UNCHANGED disk
     \/ writer.todo # <<>> /\ disk' = Written(Head(writer.todo))
  /\ writer' = [writer EXCEPT !.mode = "restoring", !.todo = Order]
  /\ Overtakes(writer.call[1])
  /\ UNCHANGED <<childVars, request>>

\* restoreSnapshots: each list, though one before it could not be restored.
RestoreNext ==
  /\ writer.mode = "restoring"
  /\ writer.todo # <<>>
  /\ LET l == Head(writer.todo)
     IN  disk' \in {disk, [disk EXCEPT ![l] = writer.before[l]]}
  /\ writer' = [writer EXCEPT !.todo = Tail(@)]
  /\ Overtakes(writer.call[1])
  /\ UNCHANGED <<childVars, request>>

Answer ==
  /\ writer.mode # "idle"
  /\ writer.todo = <<>>
  /\ request' = [request EXCEPT ![writer.call] =
                   IF writer.mode = "saving" THEN "ok" ELSE "rejected"]
  /\ writer' = [writer EXCEPT !.mode = "idle"]
  /\ UNCHANGED <<disk, childVars, overtaken>>

\* commitDeviceScreen works on the list as it is when its turn comes.
SetScreen(s) ==
  /\ writer.mode = "idle"
  /\ phase[s] = "new"
  /\ disk' = [disk EXCEPT !["MapList"] = @ \cup {s}]
  /\ Tell(s, "saved")
  /\ Overtakes(s)
  /\ UNCHANGED <<request, writer>>

\* keepActivityConfirmations: the paired remote puts an ActivityList with an activity confirmed,
\* and the runtime keeps just that in the list on disk. It is a task of its own, and runs where
\* the writer waits: between requests, and once the lists of one are all written.
Confirm(r) ==
  /\ writer.todo = <<>>
  /\ phase[r] = "new"
  /\ disk' = [disk EXCEPT !["ActivityList"] = @ \cup {r}]
  /\ Tell(r, "saved")
  /\ Overtakes(r)
  /\ UNCHANGED <<request, writer>>

\* The same answer, but a sync is under way or the list cannot be saved.
ConfirmationDropped(r) ==
  /\ writer.todo = <<>>
  /\ phase[r] = "new"
  /\ Tell(r, "failed")
  /\ UNCHANGED <<disk, request, writer, overtaken>>

-----------------------------------------------------------------------------
EditorStep(e) ==
  \/ StartLoad(e) \/ Loaded(e)
  \/ StartSave(e) \/ Conflict(e) \/ Commit(e) \/ NothingToCommit(e)
  \/ CommitOk(e) \/ CommitFails(e) \/ CommitTimesOut(e)
  \/ Verified(e) \/ VerifyFails(e)
  \/ NothingToUndo(e) \/ Undo(e) \/ UndoOk(e) \/ UndoFails(e) \/ ComparedAgain(e)

SyncerStep(s) == StartSync(s) \/ Resubmit(s) \/ SyncEnds(s)

WriterStep ==
  \/ \E call \in Call : Take(call) \/ TurnDown(call)
  \/ WriteNext \/ WriteFails \/ RestoreNext \/ Answer
  \/ \E c \in Client : SetScreen(c) \/ Confirm(c) \/ ConfirmationDropped(c)

Next ==
  \/ \E c \in Client : ReadNext(c) \/ ReadFails(c) \/ EditorStep(c) \/ SyncerStep(c)
  \/ WriterStep

Spec == Init /\ [][Next]_vars

-----------------------------------------------------------------------------
(* Properties. *)

\* What a save, a screen or a confirmation that was reported saved has put in a list.
Acknowledged(a, l) == told[a] = "saved" /\ a \in disk[l]

\* The revision catches every write but those behind the child's back: an edit that
\* was reported saved only disappears by a call of a child somebody else wrote
\* behind, after it had read the lists.
OnlyOvertakenLoses ==
  [][\A a \in Client, l \in List : Acknowledged(a, l) /\ a \notin disk'[l] =>
       writer.call[1] \in overtaken]_vars

\* "A stale editor receives 409 Conflict, preventing another local editor from being
\* overwritten" (docs/API.md:74): the save of an editor removes no edit of another
\* editor that was reported saved.
SaveOverwritesNobody ==
  [][\A a \in Client, l \in List :
       /\ Acknowledged(a, l) /\ request[<<a, "save">>] = "ok"
       /\ writer.mode = "saving" /\ writer.call[2] = "save"
       => a \in disk'[l]]_vars

\* The answer says what is on disk: all of the editor's lists after "saved", all of
\* the old ones after "rolledBack", whichever of the saves, read-backs, restores and
\* rollbacks on the way failed.
AnswerMatchesDisk ==
  [][\A e \in Client : phase[e] \notin {"new", "done"} /\ e \notin overtaken =>
       /\ told'[e] = "saved"      => disk = proposal[e]
       /\ told'[e] = "rolledBack" => disk = old[e]]_vars

\* A rollback is never handed to the writer while the save it is to undo may still be
\* waiting or running: "a rollback now would land after it and undo it".
UndoFollowsItsSave ==
  \A e \in Client : request[<<e, "undo">>] # "none" =>
    request[<<e, "save">>] \notin {"waiting", "taken"}
=============================================================================
