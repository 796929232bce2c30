------------------------------ MODULE RfPairing -------------------------------
(***************************************************************************)
(* The radio of RF remotes.  A child of codex_webui lists the paired       *)
(* remotes (rf.info) or opens a pairing window, with the list from before  *)
(* and after it.  A lock file keeps two children apart.  The lock belongs  *)
(* to an open file that the child's helper codex_hal_ltcp inherits, so it  *)
(* stays until both have closed it or died.  hal is external: it goes on   *)
(* with what it was asked, whoever has hung up.                            *)
(***************************************************************************)
EXTENDS Naturals

CONSTANTS
  Child,    \* children of the web server, each with one request
  Windows,  \* the seconds that a pairing window may be asked to stay open
  Room,     \* seconds that hal may need to clean up after a window
  HalWait   \* HAL_WAIT_SECONDS

VARIABLES
  kid,     \* the children, with the open lock file and the helper of each
  hal,     \* what hal is doing for each child: "info", "window"
  mishaps  \* history: whether hal was slow

vars == <<kid, hal, mishaps>>

Mishaps == {"slow"}
Resting == [pc |-> "idle", kind |-> "list", seconds |-> 0, locked |-> FALSE,
            open |-> FALSE, helper |-> "none", tries |-> 0, told |-> "none"]

\* Bug: the helper does not inherit the lock file.
KeepsLockAlone(k) == k.locked /\ k.open
\* Whether the file that this child has locked is still open somewhere.
KeepsLock(k) == k.locked /\ (k.open \/ k.helper # "none")

\* Bug: the helper waits for the window no longer than for anything else.
WaitsShort(request, timeout) == HalWait
\* hal_wait_seconds
WaitsFor(request, timeout) ==
  IF request = "window" /\ timeout > HalWait THEN timeout ELSE HalWait

\* How long hal may take without being slow.
Takes(request, seconds) == IF request = "window" THEN seconds + Room ELSE HalWait

Init ==
  /\ kid = [c \in Child |-> Resting]
  /\ hal = [c \in Child |-> {}]
  /\ mishaps = {}

Become(c, next) == kid' = [kid EXCEPT ![c] = next]
Closed(k, verdict) == [k EXCEPT !.pc = "done", !.open = FALSE, !.told = verdict]

\* rf_pair_lock
Begin(c) ==
  /\ kid[c].pc = "idle"
  /\ \E kind \in {"list", "pair"}, s \in Windows :
       LET me == [kid[c] EXCEPT !.kind = kind, !.seconds = s] IN
       Become(c, IF \E d \in Child : KeepsLock(kid[d])
                 THEN Closed(me, "pairing")
                 ELSE [me EXCEPT !.pc = "before", !.locked = TRUE, !.open = TRUE])
  /\ UNCHANGED <<hal, mishaps>>

LockFails(c) ==
  /\ kid[c].pc = "idle"
  /\ Become(c, Closed(kid[c], "no lock"))
  /\ UNCHANGED <<hal, mishaps>>

\* run_hal_json, or run_cmd with the window's command line.
Ask(c) ==
  LET me == kid[c]
      request == IF me.pc = "window" THEN "window" ELSE "info"
  IN
  /\ me.pc \in {"before", "window", "after"} /\ me.helper = "none"
  /\ Become(c, [me EXCEPT !.helper = request])
  /\ hal' = [hal EXCEPT ![c] = @ \cup {request}]
  /\ UNCHANGED mishaps

\* What the child does once its helper has ended, with an answer or without.
After(me, ok) ==
  LET next == [me EXCEPT !.helper = "none"] IN
  CASE me.pc = "before" -> IF ~ok THEN Closed(next, "failed")
                           ELSE IF me.kind = "list" THEN Closed(next, "listed")
                           ELSE [next EXCEPT !.pc = "window"]
    [] me.pc = "window" -> [next EXCEPT !.pc = "after"]
    [] me.pc = "after"  -> IF ~ok /\ me.tries = 0 THEN [next EXCEPT !.tries = 1]
                           ELSE Closed(next, "paired")
    [] OTHER -> next

Answers(c) ==
  LET me == kid[c] IN
  /\ me.helper \in hal[c]
  /\ \E ok \in BOOLEAN : Become(c, After(me, ok))
  /\ hal' = [hal EXCEPT ![c] = @ \ {me.helper}]
  /\ UNCHANGED mishaps

\* hal is done with something that nobody waits for any more.
EndsUnheard(c) ==
  /\ \E what \in hal[c] \ {kid[c].helper} : hal' = [hal EXCEPT ![c] = @ \ {what}]
  /\ UNCHANGED <<kid, mishaps>>

\* The helper has waited long enough, and hal goes on.
GivesUp(c) ==
  LET me == kid[c]
      patience == WaitsFor(me.helper, me.seconds + Room)
  IN
  /\ me.helper \in hal[c]
  /\ Become(c, After(me, FALSE))
  /\ mishaps' = mishaps \cup IF patience >= Takes(me.helper, me.seconds) THEN {"slow"} ELSE {}
  /\ UNCHANGED hal

\* The child dies; its helper does not.
Dies(c) ==
  /\ kid[c].pc \notin {"idle", "done"}
  /\ Become(c, [kid[c] EXCEPT !.pc = "done", !.open = FALSE])
  /\ UNCHANGED <<hal, mishaps>>

ChildStep(c) == Ask(c) \/ Answers(c) \/ EndsUnheard(c) \/ GivesUp(c)

Next == \E c \in Child : Begin(c) \/ LockFails(c) \/ ChildStep(c) \/ Dies(c)

Spec == Init /\ [][Next]_vars

-----------------------------------------------------------------------------
TypeOK ==
  /\ \A c \in Child :
       /\ kid[c].pc \in {"idle", "before", "window", "after", "done"}
       /\ kid[c].helper \in {"none", "info", "window"}
       /\ kid[c].locked \in BOOLEAN /\ kid[c].open \in BOOLEAN
       /\ kid[c].told \in {"none", "pairing", "no lock", "failed", "listed", "paired"}
       /\ hal[c] \subseteq {"info", "window"}
  /\ mishaps \subseteq Mishaps

\* While a pairing window is open there is no second one and nobody reads rf.info, although the
\* child that opened it may have died, unless hal took longer than the helper was told to wait
\* (the window and room for the clean-up, 8 seconds for rf.info): two readers of the pairing
\* slots can take each other's answers.
WindowIsAlone ==
  "slow" \notin mishaps =>
    \A c, d \in Child : "window" \in hal[c] =>
      hal[d] = IF d = c THEN {"window"} ELSE {}
=============================================================================
