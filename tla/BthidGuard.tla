------------------------------ MODULE BthidGuard ------------------------------
(***************************************************************************)
(* The guard around bthid.* calls in codex_hal_ltcp and, line for line the *)
(* same, in codex_bthid_keyboard.  Stock hal frees its HID instance when   *)
(* it connects or disconnects and clears the pointer a second later: a     *)
(* call it serves in between reads freed memory.  The tools take one lock  *)
(* for every call and leave a time stamp after a connect or disconnect, and*)
(* the next call waits until it is old enough.                             *)
(*                                                                         *)
(* Time goes by in ticks of half a second.  hal is external: it serves what*)
(* it was asked whenever it gets to it, and answers some time later.       *)
(***************************************************************************)
EXTENDS Naturals, Sequences

CONSTANTS
  Caller,    \* processes of the two tools, each with one errand
  Cooldown,  \* BTHID_TEARDOWN_COOLDOWN_MS in ticks
  Teardown,  \* how long hal's pointer dangles, in ticks
  MaxTime    \* bound on the time

VARIABLES
  caller,   \* the tools
  owner,    \* who has the lock, or "none"
  stamp,    \* the time in the stamp file, 0 for none
  now,      \* the monotonic clock
  asked,    \* the commands that hal has not served yet, by the tool that sent them
  freed,    \* until when hal's pointer dangles
  crashed,  \* history: hal served a call while it dangled
  mishaps   \* history: what the guard cannot cover

vars == <<caller, owner, stamp, now, asked, freed, crashed, mishaps>>

\* A connect, a disconnect, or a report after its check that the keyboard is connected.
Errands == {<<"connect">>, <<"disconnect">>, <<"status", "report">>}
Mishaps == {"unguarded", "unstamped", "killed", "unserved"}
Resting == [pc |-> "idle", todo |-> <<>>, until |-> 0, guarded |-> FALSE]

\* Bug: a connect is not taken for a teardown.
TearsDownIfNamed(cmd) == cmd = "disconnect"
\* The commands after which bthid_guard_end leaves a stamp.
TearsDown(cmd) == cmd \in {"connect", "disconnect"}

\* How long bthid_guard_begin sleeps.
Sleep ==
  LET left == stamp + Cooldown - now IN
  IF stamp = 0 \/ stamp + Cooldown <= now THEN 0 ELSE IF left > Cooldown THEN Cooldown ELSE left

Init ==
  /\ caller = [c \in Caller |-> Resting]
  /\ owner = "none"
  /\ stamp = 0
  /\ now = 1
  /\ asked = [c \in Caller |-> {}]
  /\ freed = 0
  /\ crashed = FALSE
  /\ mishaps = {}

Become(c, next) == caller' = [caller EXCEPT ![c] = next]
Cmd(c) == Head(caller[c].todo)

Begin(c) ==
  /\ caller[c].pc = "idle"
  /\ \E e \in Errands : Become(c, [Resting EXCEPT !.pc = "lock", !.todo = e])
  /\ UNCHANGED <<owner, stamp, now, asked, freed, crashed, mishaps>>

\* flock waits for the others, and nobody reads the stamp before he has the lock.
Lock(c) ==
  /\ caller[c].pc = "lock"
  /\ owner = "none"
  /\ owner' = c
  /\ Become(c, [caller[c] EXCEPT !.pc = "sleep", !.guarded = TRUE, !.until = now + Sleep])
  /\ UNCHANGED <<stamp, now, asked, freed, crashed, mishaps>>

\* The lock file cannot be opened: the call is made all the same.
LockFails(c) ==
  /\ caller[c].pc = "lock"
  /\ Become(c, [caller[c] EXCEPT !.pc = "sleep", !.guarded = FALSE, !.until = now])
  /\ mishaps' = mishaps \cup {"unguarded"}
  /\ UNCHANGED <<owner, stamp, now, asked, freed, crashed>>

\* run_ltcp_once_unguarded
Send(c) ==
  /\ caller[c].pc = "sleep"
  /\ now >= caller[c].until
  /\ Become(c, [caller[c] EXCEPT !.pc = "wait"])
  /\ asked' = [asked EXCEPT ![c] = @ \cup {Cmd(c)}]
  /\ UNCHANGED <<owner, stamp, now, freed, crashed, mishaps>>

HalServes(c) ==
  /\ \E cmd \in asked[c] :
       /\ asked' = [asked EXCEPT ![c] = @ \ {cmd}]
       /\ freed' = IF cmd \in {"connect", "disconnect"} THEN now + Teardown ELSE freed
  /\ crashed' = (crashed \/ now < freed)
  /\ UNCHANGED <<caller, owner, stamp, now, mishaps>>

\* hal answers what it has served; no answer after 8 seconds is an answer as well.
Returns(c) ==
  /\ caller[c].pc = "wait"
  /\ Become(c, [caller[c] EXCEPT !.pc = "end"])
  /\ mishaps' = mishaps \cup IF Cmd(c) \in asked[c] THEN {"unserved"} ELSE {}
  /\ UNCHANGED <<owner, stamp, now, asked, freed, crashed>>

\* The next command of the errand, if this one went well enough.
Onwards(c) ==
  LET me == caller[c]
      rest == Tail(me.todo)
  IN \/ rest # <<>> /\ Become(c, [Resting EXCEPT !.pc = "lock", !.todo = rest])
     \/ Become(c, [Resting EXCEPT !.pc = "done"])

\* bthid_guard_end
End(c) ==
  LET me == caller[c]
      stamps == me.guarded /\ TearsDown(Cmd(c))
  IN
  /\ me.pc = "end"
  /\ \E written \in BOOLEAN :
       /\ written => stamps
       /\ stamp' = IF written THEN now ELSE stamp
       /\ mishaps' = mishaps \cup IF stamps /\ ~written THEN {"unstamped"} ELSE {}
  /\ owner' = IF me.guarded THEN "none" ELSE owner
  /\ Onwards(c)
  /\ UNCHANGED <<now, asked, freed, crashed>>

\* The lock goes with the process, and there is no stamp.
Killed(c) ==
  LET me == caller[c] IN
  /\ me.pc \notin {"idle", "done"}
  /\ Become(c, [Resting EXCEPT !.pc = "done"])
  /\ owner' = IF owner = c THEN "none" ELSE owner
  /\ mishaps' = mishaps \cup IF me.pc \in {"wait", "end"} THEN {"killed"} ELSE {}
  /\ UNCHANGED <<stamp, now, asked, freed, crashed>>

Tick ==
  /\ now < MaxTime
  /\ now' = now + 1
  /\ UNCHANGED <<caller, owner, stamp, asked, freed, crashed, mishaps>>

ToolStep(c) ==
  Begin(c) \/ Lock(c) \/ LockFails(c) \/ Send(c) \/ Returns(c) \/ End(c) \/ Killed(c)

Next == (\E c \in Caller : ToolStep(c) \/ HalServes(c)) \/ Tick

Spec == Init /\ [][Next]_vars

-----------------------------------------------------------------------------
TypeOK ==
  /\ \A c \in Caller : caller[c].pc \in {"idle", "lock", "sleep", "wait", "end", "done"}
                       /\ caller[c].guarded \in BOOLEAN
  /\ owner \in Caller \cup {"none"}
  /\ {stamp, now} \subseteq 0..MaxTime
  /\ freed \in 0..(MaxTime + Teardown)
  /\ crashed \in BOOLEAN
  /\ mishaps \subseteq Mishaps

\* Whatever the tools call at the same time, hal never serves a call while its HID instance is
\* freed and still in use, unless the guard was not there to prevent it: its lock file could
\* not be opened, the stamp could not be written, the tool was killed during its call, or it
\* gave up before hal got to the call.
HalNeverReadsFreed == mishaps = {} => ~crashed
=============================================================================
