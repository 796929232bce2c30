---------------------------- MODULE WriterCalls ----------------------------
(***************************************************************************)
(* What a caller of the hub's offline writer is promised, whatever happens *)
(* to the request file, the response file, the caller's process and the    *)
(* writer's task in between.  This is the contract that offline_writer_    *)
(* request (payload/source/codex_webui.c) states in its comments; the      *)
(* module OfflineWriter is shown to implement it.                          *)
(***************************************************************************)
CONSTANT Child          \* the forked web children, one request each

VARIABLES call,         \* what is known of the child's request
          verdict       \* what the writer did with it

wcVars == <<call, verdict>>

\* Answers the writer gave, answers that say it was never asked, and the answer
\* that says nothing at all.
Answers   == {"ok", "rejected"}
Refusals  == {"busy", "not_submitted"}
Silence   == {"no_answer", "died"}
Calls     == {"unborn", "open"} \cup Answers \cup Refusals \cup Silence
Verdicts  == {"not_run"} \cup Answers

TypeOK == /\ call \in [Child -> Calls]
          /\ verdict \in [Child -> Verdicts]

Init == /\ call = [c \in Child |-> "unborn"]
        /\ verdict = [c \in Child |-> "not_run"]

Open(c) == /\ call[c] = "unborn"
           /\ call' = [call EXCEPT ![c] = "open"]
           /\ UNCHANGED verdict

\* The writer carries a request out at most once, and never one whose caller was
\* told that it was refused.  It may do so after the caller stopped waiting.
Run(c) == /\ call[c] \notin Refusals \cup {"unborn"}
          /\ verdict[c] = "not_run"
          /\ \E v \in Answers : verdict' = [verdict EXCEPT ![c] = v]
          /\ UNCHANGED call

\* The caller learns the writer's own verdict, or that nothing was submitted, or
\* nothing at all.  A call may be refused at once.
Close(c) == /\ call[c] \in {"unborn", "open"}
            /\ \E o \in Answers \cup Refusals \cup Silence :
                 /\ call[c] = "unborn" => o \in Refusals
                 /\ o \in Answers => verdict[c] = o
                 /\ o \in Refusals => verdict[c] = "not_run"
                 /\ call' = [call EXCEPT ![c] = o]
            /\ UNCHANGED verdict

Next == \E c \in Child : Open(c) \/ Run(c) \/ Close(c)

Spec == Init /\ [][Next]_wcVars
=============================================================================
