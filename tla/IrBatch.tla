------------------------------- MODULE IrBatch --------------------------------
(***************************************************************************)
(* Batches of IR commands and their cancellation.  A child of codex_webui  *)
(* works through the commands of a batch with a pause after each; another  *)
(* child cancels a run by creating a file named after the run's id, which  *)
(* the first one looks for.  Nobody removes the file.                      *)
(*                                                                         *)
(* A command is good or bad (no name that could be sent); the transmission *)
(* itself is external and takes one step.                                  *)
(***************************************************************************)
EXTENDS Naturals, Sequences

CONSTANTS
  Run,      \* children with a batch each
  Batches,  \* what browsers ask: sets of [id, dry, lines] for each run
  Id,       \* run ids that are cancelled
  Limit,    \* MAX_IR_BATCH_COMMANDS
  Pause     \* the steps of a pause, each with a look for the file

VARIABLES
  run,        \* the batches
  cancelled,  \* the ids whose file exists
  asked,      \* history: runs that somebody cancelled after they began
  old,        \* history: runs whose id had been cancelled before
  late        \* history: the commands that each run sent after it was cancelled

vars == <<run, cancelled, asked, old, late>>

Resting == [pc |-> "idle", id |-> "none", dry |-> FALSE, lines |-> <<>>, at |-> 1,
            sent |-> 0, skipped |-> 0, attempted |-> 0, slept |-> 0, told |-> "none"]

\* Bug: a run without an id of its own is cancelled with any other.
IsCanceledByAny(id) == id \in cancelled \/ (id = "none" /\ cancelled # {})
\* ir_run_canceled: a run without an id has no file.
IsCanceled(id) == id \in cancelled

Init ==
  /\ run = [r \in Run |-> Resting]
  /\ cancelled = {}
  /\ asked = [r \in Run |-> FALSE]
  /\ old = [r \in Run |-> FALSE]
  /\ late = [r \in Run |-> 0]

Become(r, next) == run' = [run EXCEPT ![r] = next]
OnlyThinks == UNCHANGED <<cancelled, asked, old, late>>

\* The commands that are left, the one it stands at included, count as skipped.
Ended(r, me, verdict) ==
  Become(r, [me EXCEPT !.pc = "done", !.told = verdict,
                       !.skipped = @ + Len(me.lines) + 1 - me.at])

Begin(r) ==
  /\ run[r].pc = "idle"
  /\ \E b \in Batches[r] :
       /\ Become(r, [Resting EXCEPT !.pc = "look", !.id = b.id, !.dry = b.dry, !.lines = b.lines])
       /\ old' = [old EXCEPT ![r] = IsCanceled(b.id)]
  /\ UNCHANGED <<cancelled, asked, late>>

\* The head of the loop.
Look(r) ==
  LET me == run[r] IN
  /\ me.pc = "look"
  /\ IF me.at > Len(me.lines) \/ me.attempted = Limit
     THEN Ended(r, me, IF me.sent = 0 THEN "nothing" ELSE "sent")
     ELSE IF IsCanceled(me.id) THEN Ended(r, me, "canceled")
     ELSE IF me.lines[me.at] = "bad"
     THEN Become(r, [me EXCEPT !.skipped = @ + 1, !.at = @ + 1])
     ELSE Become(r, [me EXCEPT !.attempted = @ + 1, !.pc = IF me.dry THEN "next" ELSE "send"])
  /\ OnlyThinks

Send(r) ==
  /\ run[r].pc = "send"
  /\ Become(r, [run[r] EXCEPT !.pc = "doze", !.slept = 0])
  /\ late' = [late EXCEPT ![r] = @ + IF asked[r] THEN 1 ELSE 0]
  /\ UNCHANGED <<cancelled, asked, old>>

\* Bug: the pause takes one step more than it should.
DozeTooLong(r) ==
  LET me == run[r] IN
  /\ me.pc = "doze"
  /\ IF IsCanceled(me.id) THEN Ended(r, [me EXCEPT !.sent = @ + 1], "interrupted")
     ELSE IF me.slept <= Pause THEN Become(r, [me EXCEPT !.slept = @ + 1])
     ELSE Become(r, [me EXCEPT !.pc = "next"])
  /\ OnlyThinks
\* cancelable_sleep_ms: it looks before every step, and after the last.
Doze(r) ==
  LET me == run[r] IN
  /\ me.pc = "doze"
  /\ IF IsCanceled(me.id) THEN Ended(r, [me EXCEPT !.sent = @ + 1], "interrupted")
     ELSE IF me.slept < Pause THEN Become(r, [me EXCEPT !.slept = @ + 1])
     ELSE Become(r, [me EXCEPT !.pc = "next"])
  /\ OnlyThinks

NextLine(r) ==
  /\ run[r].pc = "next"
  /\ Become(r, [run[r] EXCEPT !.pc = "look", !.sent = @ + 1, !.at = @ + 1])
  /\ OnlyThinks

\* render_ir_cancel_json, whether or not a run has the id.
Cancel(id) ==
  /\ cancelled' = cancelled \cup {id}
  /\ asked' = [r \in Run |-> asked[r] \/ (run[r].pc \notin {"idle", "done"} /\ run[r].id = id)]
  /\ UNCHANGED <<run, old, late>>

RunStep(r) == Begin(r) \/ Look(r) \/ Send(r) \/ Doze(r) \/ NextLine(r)

Next == (\E r \in Run : RunStep(r)) \/ (\E id \in Id : Cancel(id))

Spec == Init /\ [][Next]_vars

-----------------------------------------------------------------------------
TypeOK ==
  /\ \A r \in Run :
       /\ run[r].pc \in {"idle", "look", "send", "doze", "next", "done"}
       /\ run[r].told \in {"none", "sent", "nothing", "canceled", "interrupted"}
       /\ run[r].slept \in 0..Pause /\ run[r].attempted \in 0..Limit
       /\ late[r] \in Nat
  /\ cancelled \subseteq Id
  /\ {asked, old} \subseteq [Run -> BOOLEAN]

\* A batch ends as cancelled only if somebody cancelled its id, after it began or before; then at
\* most the one command goes out that it was about to send, and none if the id was cancelled
\* before it began. The counts in its answer name each command once, but for the command whose
\* pause was interrupted, which counts as sent and as skipped.
CancelIsHonoured ==
  \A r \in Run :
    LET me == run[r] IN
    /\ me.told \in {"canceled", "interrupted"} => asked[r] \/ old[r]
    /\ late[r] <= 1
    /\ old[r] => me.sent = 0
    /\ me.pc = "done" =>
         me.sent + me.skipped = Len(me.lines) + IF me.told = "interrupted" THEN 1 ELSE 0
=============================================================================
