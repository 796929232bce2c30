--------------------------- MODULE HubHelpersProofs ---------------------------
(***************************************************************************)
(* What holds of six of the parts that share no state, whatever their      *)
(* limits, their children and their hosts.  Each section proves of the     *)
(* part alone that its invariant holds at the start and is kept by every   *)
(* step, then that a step of the whole is a step of the part or none, and  *)
(* ends in the theorem about the whole.                                    *)
(***************************************************************************)
EXTENDS HubHelpers, TLAPS

-----------------------------------------------------------------------------
(* BthidGuard. *)

\* What the guard is called for.
Cmds == {"connect", "disconnect", "status", "report"}

\* Where a caller holds the lock of the helper.
Holding == {"sleep", "wait", "end"}

\* A caller of the helper.
Tool == [pc : {"idle", "lock", "sleep", "wait", "end", "done"}, todo : Seq(Cmds),
         until : Nat, guarded : BOOLEAN]

\* The types of the guard, and that whoever still runs has a command to run.
GuardTyped ==
  /\ bCaller \in [Child -> Tool]
  /\ \A c \in Child : bCaller[c].pc \notin {"idle", "done"} => bCaller[c].todo # <<>>
  /\ bOwner \in Child \cup {"none"}
  /\ bNow \in 1 .. MaxTime /\ bStamp \in 0 .. bNow
  /\ bAsked \in [Child -> SUBSET Cmds]
  /\ bFreed \in 0 .. (bNow + Teardown)
  /\ bCrashed \in BOOLEAN /\ bMishaps \in SUBSET B!Mishaps

\* A caller inside is the only one, has slept while the pointer dangles, and hal has been
\* asked for its command only.
GuardAt(c) ==
  /\ bCaller[c].pc \in Holding <=> bOwner = c
  /\ bCaller[c].pc \in Holding => bCaller[c].guarded
  /\ bCaller[c].pc # "wait" => bAsked[c] = {}
  /\ bAsked[c] \subseteq {B!Cmd(c)}
  /\ bCaller[c].pc = "sleep" => bFreed <= bCaller[c].until
  /\ bAsked[c] # {} => bFreed <= bNow

\* A caller that has torn the HID instance down, or may, and has not written the stamp.
WillStamp(c) == bCaller[c].pc \in {"wait", "end"} /\ B!TearsDown(B!Cmd(c))

\* The pointer does not dangle for longer than a teardown takes from the stamp.
Fresh == bFreed = 0 \/ (bStamp # 0 /\ bFreed <= bStamp + Teardown)

\* Of every teardown there is a stamp, or somebody is about to write one.
Stamped == Fresh \/ \E c \in Child : WillStamp(c)

\* What the guard achieves as long as no mishap has happened.
Guarded == bMishaps = {} => ~bCrashed /\ Stamped /\ \A c \in Child : GuardAt(c)

\* The commands of a tool are one or two.
LEMMA ShortSequences ==
  ASSUME NEW S, NEW a \in S, NEW b \in S
  PROVE  <<a>> \in Seq(S) /\ <<a>> # <<>> /\ <<a, b>> \in Seq(S) /\ <<a, b>> # <<>>
OBVIOUS

\* What is left to do after a command.
LEMMA TailOf ==
  ASSUME NEW S, NEW s \in Seq(S), s # <<>>
  PROVE  Head(s) \in S /\ Tail(s) \in Seq(S)
OBVIOUS

\* Nobody has called at the start.
LEMMA GuardInit == B!Init => GuardTyped /\ Guarded
<1> SUFFICES ASSUME B!Init PROVE GuardTyped /\ Guarded
  OBVIOUS
<1> USE GuardAssumption DEF B!Init
<1>1. B!Resting \in Tool
  BY DEF B!Resting, Tool
<1>2. \A c \in Child : bCaller[c].pc = "idle" /\ bAsked[c] = {}
  BY DEF B!Resting
<1>3. GuardTyped
  <2>1. bCaller \in [Child -> Tool] /\ bAsked \in [Child -> SUBSET Cmds]
    BY <1>1
  <2>2. bNow \in 1 .. MaxTime /\ bStamp \in 0 .. bNow /\ bFreed \in 0 .. (bNow + Teardown)
    OBVIOUS
  <2> QED
    BY <1>2, <2>1, <2>2 DEF GuardTyped
<1>4. Guarded
  BY <1>2 DEF Guarded, GuardAt, Stamped, Fresh, Holding
<1> QED
  BY <1>3, <1>4

\* Every step keeps the types.
LEMMA GuardNextTyped == GuardTyped /\ [B!Next]_bVars => GuardTyped'
<1> SUFFICES ASSUME GuardTyped, [B!Next]_bVars PROVE GuardTyped'
  OBVIOUS
<1>0. ASSUME NEW c \in Child, NEW next \in Tool, B!Become(c, next),
             next.pc \notin {"idle", "done"} => next.todo # <<>>
      PROVE  /\ bCaller' \in [Child -> Tool]
             /\ \A d \in Child : bCaller'[d].pc \notin {"idle", "done"} => bCaller'[d].todo # <<>>
  BY <1>0 DEF B!Become, GuardTyped
<1> USE GuardAssumption DEF GuardTyped
<1>00. B!Resting \in Tool
  BY DEF B!Resting, Tool
<1>1. ASSUME NEW c \in Child, B!Begin(c) PROVE GuardTyped'
  <2>1. PICK e \in B!Errands : B!Become(c, [B!Resting EXCEPT !.pc = "lock", !.todo = e])
    BY <1>1 DEF B!Begin
  <2>2. e \in Seq(Cmds) /\ e # <<>>
    <3>1. \A cmd \in Cmds : <<cmd>> \in Seq(Cmds) /\ <<cmd>> # <<>>
      BY ShortSequences
    <3>2. <<"status", "report">> \in Seq(Cmds) /\ <<"status", "report">> # <<>>
      BY ShortSequences DEF Cmds
    <3>3. "connect" \in Cmds /\ "disconnect" \in Cmds
      BY DEF Cmds
    <3> QED
      BY <2>1, <3>1, <3>2, <3>3 DEF B!Errands
  <2>3. [B!Resting EXCEPT !.pc = "lock", !.todo = e] \in Tool
    BY <2>2 DEF B!Resting, Tool
  <2>4. [B!Resting EXCEPT !.pc = "lock", !.todo = e].todo # <<>>
    BY <2>2 DEF B!Resting
  <2> QED
    BY <1>1, <2>1, <2>3, <2>4, <1>0 DEF B!Begin
<1>2. ASSUME NEW c \in Child, B!Lock(c) PROVE GuardTyped'
  <2> DEFINE next == [bCaller[c] EXCEPT !.pc = "sleep", !.guarded = TRUE, !.until = bNow + B!Sleep]
  <2>1. bNow + B!Sleep \in Nat
    BY DEF B!Sleep
  <2>2. next \in Tool /\ next.todo # <<>> /\ B!Become(c, next)
    BY <1>2, <2>1 DEF B!Lock, Tool
  <2> HIDE DEF next
  <2> QED
    BY <1>2, <2>2, <1>0 DEF B!Lock
<1>3. ASSUME NEW c \in Child, B!LockFails(c) PROVE GuardTyped'
  <2> DEFINE next == [bCaller[c] EXCEPT !.pc = "sleep", !.guarded = FALSE, !.until = bNow]
  <2>0. bNow \in Nat /\ bCaller[c] \in Tool /\ bCaller[c].todo # <<>> /\ B!Become(c, next)
    BY <1>3 DEF B!LockFails
  <2>1. next \in Tool /\ next.todo # <<>>
    BY <2>0 DEF Tool
  <2>2. bMishaps' \in SUBSET B!Mishaps
    BY <1>3 DEF B!LockFails, B!Mishaps
  <2> HIDE DEF next
  <2> QED
    BY <1>3, <2>0, <2>1, <2>2, <1>0 DEF B!LockFails
<1>4. ASSUME NEW c \in Child, B!Send(c) PROVE GuardTyped'
  <2> DEFINE next == [bCaller[c] EXCEPT !.pc = "wait"]
  <2>1. next \in Tool /\ next.todo # <<>> /\ B!Become(c, next)
    BY <1>4 DEF B!Send, Tool
  <2>2. B!Cmd(c) \in Cmds
    <3>1. bCaller[c].todo \in Seq(Cmds) /\ bCaller[c].todo # <<>>
      BY <1>4 DEF B!Send, Tool
    <3> QED
      BY <3>1, TailOf DEF B!Cmd
  <2>3. bAsked' \in [Child -> SUBSET Cmds]
    BY <1>4, <2>2 DEF B!Send
  <2> HIDE DEF next
  <2> QED
    BY <1>4, <2>1, <2>3, <1>0 DEF B!Send
<1>5. ASSUME NEW c \in Child, B!HalServes(c) PROVE GuardTyped'
  <2>1. bFreed' \in 0 .. (bNow + Teardown)
    BY <1>5 DEF B!HalServes
  <2>2. bCrashed' \in BOOLEAN
    BY <1>5 DEF B!HalServes
  <2>3. bAsked' \in [Child -> SUBSET Cmds]
    BY <1>5 DEF B!HalServes
  <2> QED
    BY <1>5, <2>1, <2>2, <2>3 DEF B!HalServes
<1>6. ASSUME NEW c \in Child, B!Returns(c) PROVE GuardTyped'
  <2> DEFINE next == [bCaller[c] EXCEPT !.pc = "end"]
  <2>1. next \in Tool /\ next.todo # <<>> /\ B!Become(c, next)
    BY <1>6 DEF B!Returns, Tool
  <2>2. bMishaps' \in SUBSET B!Mishaps
    BY <1>6 DEF B!Returns, B!Mishaps
  <2> HIDE DEF next
  <2> QED
    BY <1>6, <2>1, <2>2, <1>0 DEF B!Returns
<1>7. ASSUME NEW c \in Child, B!End(c) PROVE GuardTyped'
  <2>1. Tail(bCaller[c].todo) \in Seq(Cmds)
    <3>1. bCaller[c].todo \in Seq(Cmds) /\ bCaller[c].todo # <<>>
      BY <1>7 DEF B!End, Tool
    <3> QED
      BY <3>1, TailOf
  <2>2. PICK next \in Tool : B!Become(c, next) /\ (next.pc \notin {"idle", "done"} => next.todo # <<>>)
    <3>1. [B!Resting EXCEPT !.pc = "lock", !.todo = Tail(bCaller[c].todo)] \in Tool
      BY <2>1 DEF B!Resting, Tool
    <3>2. [B!Resting EXCEPT !.pc = "lock", !.todo = Tail(bCaller[c].todo)].todo = Tail(bCaller[c].todo)
      BY DEF B!Resting
    <3>3. [B!Resting EXCEPT !.pc = "done"] \in Tool /\ [B!Resting EXCEPT !.pc = "done"].pc = "done"
      BY <1>00 DEF Tool
    <3>4. \/ /\ Tail(bCaller[c].todo) # <<>>
             /\ B!Become(c, [B!Resting EXCEPT !.pc = "lock", !.todo = Tail(bCaller[c].todo)])
          \/ B!Become(c, [B!Resting EXCEPT !.pc = "done"])
      BY <1>7 DEF B!End, B!Onwards
    <3> QED
      BY <3>1, <3>2, <3>3, <3>4
  <2>3. bStamp' \in 0 .. bNow /\ bOwner' \in Child \cup {"none"} /\ bMishaps' \in SUBSET B!Mishaps
    BY <1>7 DEF B!End, B!Mishaps
  <2> QED
    BY <1>7, <2>2, <2>3, <1>0 DEF B!End
<1>8. ASSUME NEW c \in Child, B!Killed(c) PROVE GuardTyped'
  <2> DEFINE next == [B!Resting EXCEPT !.pc = "done"]
  <2>1. next \in Tool /\ next.pc = "done" /\ B!Become(c, next)
    BY <1>8, <1>00 DEF B!Killed, Tool
  <2>2. bMishaps' \in SUBSET B!Mishaps /\ bOwner' \in Child \cup {"none"}
    BY <1>8 DEF B!Killed, B!Mishaps
  <2> HIDE DEF next
  <2> QED
    BY <1>8, <2>1, <2>2, <1>0 DEF B!Killed
<1>9. CASE B!Tick
  BY <1>9 DEF B!Tick
<1>10. CASE UNCHANGED bVars
  BY <1>10 DEF bVars
<1> QED
  BY <1>1, <1>2, <1>3, <1>4, <1>5, <1>6, <1>7, <1>8, <1>9, <1>10 DEF B!Next, B!ToolStep

\* Every step keeps the guard: who enters after a teardown sleeps out the cooldown, which is
\* no shorter than the pointer dangles, and only one caller at a time is inside.
LEMMA GuardNext == GuardTyped /\ Guarded /\ [B!Next]_bVars => Guarded'
<1> SUFFICES ASSUME GuardTyped, Guarded, [B!Next]_bVars, bMishaps' = {}
             PROVE  ~bCrashed' /\ Stamped' /\ \A c \in Child : GuardAt(c)'
  BY DEF Guarded
<1> USE GuardAssumption
<1>1. bMishaps = {}
  <2>1. bMishaps \subseteq bMishaps'
    BY DEF B!Next, B!ToolStep, B!Begin, B!Lock, B!LockFails, B!Send, B!HalServes, B!Returns, B!End,
           B!Killed, B!Tick, bVars
  <2> QED
    BY <2>1
<1>2. ~bCrashed /\ Stamped /\ \A c \in Child : GuardAt(c)
  BY <1>1 DEF Guarded
<1>3. ASSUME NEW c \in Child, NEW next, B!Become(c, next)
      PROVE  bCaller'[c] = next /\ \A d \in Child : d # c => bCaller'[d] = bCaller[d]
  BY <1>3 DEF B!Become, GuardTyped
<1>4. ASSUME NEW d \in Child, bCaller'[d] = bCaller[d], bAsked'[d] = bAsked[d], bFreed' = bFreed,
             bNow' \in Nat, bNow' >= bNow, bOwner' = d <=> bOwner = d
      PROVE  GuardAt(d)' /\ (WillStamp(d)' <=> WillStamp(d))
  <2>1. B!Cmd(d)' = B!Cmd(d)
    BY <1>4 DEF B!Cmd
  <2>2. WillStamp(d)' <=> WillStamp(d)
    BY <1>4, <2>1 DEF WillStamp, B!TearsDown
  <2>3. bFreed \in Nat /\ bNow \in Nat
    BY DEF GuardTyped
  <2>4. GuardAt(d)
    BY <1>2
  <2>5. (bAsked[d] # {} => bFreed <= bNow) => (bAsked'[d] # {} => bFreed' <= bNow')
    BY <1>4, <2>3
  <2>6. GuardAt(d)'
    BY <1>4, <2>1, <2>4, <2>5 DEF GuardAt
  <2> QED
    BY <2>2, <2>6
<1>5. ASSUME NEW c \in Child, B!Begin(c)
      PROVE  ~bCrashed' /\ Stamped' /\ \A d \in Child : GuardAt(d)'
  <2>1. /\ bCaller[c].pc = "idle" /\ UNCHANGED <<bOwner, bStamp, bNow, bAsked, bFreed, bCrashed>>
        /\ \E next : B!Become(c, next) /\ next.pc = "lock"
    <3>1. PICK e \in B!Errands : B!Become(c, [B!Resting EXCEPT !.pc = "lock", !.todo = e])
      BY <1>5 DEF B!Begin
    <3>2. [B!Resting EXCEPT !.pc = "lock", !.todo = e].pc = "lock"
      BY DEF B!Resting
    <3> QED
      BY <1>5, <3>1, <3>2 DEF B!Begin
  <2>2. bCaller'[c].pc = "lock" /\ \A d \in Child : d # c => bCaller'[d] = bCaller[d]
    BY <2>1, <1>3
  <2>3. GuardAt(c)' /\ ~WillStamp(c)' /\ ~WillStamp(c)
    BY <1>2, <2>1, <2>2 DEF GuardAt, WillStamp, Holding
  <2>4. \A d \in Child : d # c => GuardAt(d)' /\ (WillStamp(d)' <=> WillStamp(d))
    <3> TAKE d \in Child
    <3> HAVE d # c
    <3>1. bCaller'[d] = bCaller[d] /\ bAsked'[d] = bAsked[d] /\ (bOwner' = d <=> bOwner = d)
      BY <2>1, <2>2
    <3>2. bFreed' = bFreed /\ bNow' \in Nat /\ bNow' >= bNow
      BY <2>1 DEF GuardTyped
    <3> QED
      BY <1>4, <3>1, <3>2
  <2> QED
    BY <1>2, <2>1, <2>3, <2>4 DEF Stamped, Fresh
<1>6. ASSUME NEW c \in Child, B!Lock(c)
      PROVE  ~bCrashed' /\ Stamped' /\ \A d \in Child : GuardAt(d)'
  <2>1. /\ bCaller[c].pc = "lock" /\ bOwner = "none" /\ bOwner' = c
        /\ UNCHANGED <<bStamp, bNow, bAsked, bFreed, bCrashed>>
        /\ B!Become(c, [bCaller[c] EXCEPT !.pc = "sleep", !.guarded = TRUE, !.until = bNow + B!Sleep])
    BY <1>6 DEF B!Lock
  <2>2. /\ bCaller'[c] = [bCaller[c] EXCEPT !.pc = "sleep", !.guarded = TRUE, !.until = bNow + B!Sleep]
        /\ \A d \in Child : d # c => bCaller'[d] = bCaller[d]
    BY <2>1, <1>3
  <2>3. bCaller'[c].pc = "sleep" /\ bCaller'[c].guarded /\ bCaller'[c].until = bNow + B!Sleep
    BY <2>2 DEF GuardTyped, Tool
  <2>4. \A d \in Child : bCaller[d].pc \notin Holding /\ ~WillStamp(d)
    BY <1>2, <2>1 DEF GuardAt, WillStamp, Holding
  <2>5. bFreed <= bNow + B!Sleep
    <3>1. bFreed = 0 \/ (bStamp # 0 /\ bFreed <= bStamp + Teardown)
      <4>1. ~ \E d \in Child : WillStamp(d)
        BY <2>4
      <4>2. Fresh \/ \E d \in Child : WillStamp(d)
        BY <1>2 DEF Stamped
      <4> QED
        BY <4>1, <4>2 DEF Fresh
    <3> QED
      BY <3>1 DEF B!Sleep, GuardTyped
  <2>6. GuardAt(c)'
    BY <1>2, <2>1, <2>3, <2>5 DEF GuardAt, Holding
  <2>7. \A d \in Child : d # c => GuardAt(d)'
    BY <1>2, <2>1, <2>2, <2>4 DEF GuardAt, Holding, B!Cmd
  <2>8. Stamped'
    BY <1>2, <2>1, <2>4 DEF Stamped, Fresh
  <2> QED
    BY <1>2, <2>1, <2>6, <2>7, <2>8
<1>7. ASSUME NEW c \in Child, B!LockFails(c) PROVE FALSE
  BY <1>7 DEF B!LockFails
<1>8. ASSUME NEW c \in Child, B!Send(c)
      PROVE  ~bCrashed' /\ Stamped' /\ \A d \in Child : GuardAt(d)'
  <2>1. /\ bCaller[c].pc = "sleep" /\ bNow >= bCaller[c].until
        /\ UNCHANGED <<bOwner, bStamp, bNow, bFreed, bCrashed>>
        /\ bAsked' = [bAsked EXCEPT ![c] = @ \cup {B!Cmd(c)}]
        /\ B!Become(c, [bCaller[c] EXCEPT !.pc = "wait"])
    BY <1>8 DEF B!Send
  <2>2. /\ bCaller'[c] = [bCaller[c] EXCEPT !.pc = "wait"]
        /\ \A d \in Child : d # c => bCaller'[d] = bCaller[d] /\ bAsked'[d] = bAsked[d]
    BY <2>1, <1>3 DEF GuardTyped
  <2>3. /\ bCaller'[c].pc = "wait" /\ bCaller'[c].guarded = bCaller[c].guarded
        /\ B!Cmd(c)' = B!Cmd(c)
    BY <2>2 DEF GuardTyped, Tool, B!Cmd
  <2>4. bAsked[c] = {} /\ bFreed <= bCaller[c].until /\ bOwner = c /\ bCaller[c].guarded
    BY <1>2, <2>1 DEF GuardAt, Holding
  <2>5. bAsked'[c] = {B!Cmd(c)}
    BY <2>1, <2>4 DEF GuardTyped
  <2>6. bFreed <= bNow
    BY <2>1, <2>4 DEF GuardTyped, Tool
  <2>7. GuardAt(c)'
    BY <2>1, <2>3, <2>4, <2>5, <2>6 DEF GuardAt, Holding
  <2>8. \A d \in Child : d # c => GuardAt(d)' /\ (WillStamp(d)' <=> WillStamp(d))
    <3> TAKE d \in Child
    <3> HAVE d # c
    <3>1. bCaller'[d] = bCaller[d] /\ bAsked'[d] = bAsked[d] /\ (bOwner' = d <=> bOwner = d)
      BY <2>1, <2>2
    <3>2. bFreed' = bFreed /\ bNow' \in Nat /\ bNow' >= bNow
      BY <2>1 DEF GuardTyped
    <3> QED
      BY <1>4, <3>1, <3>2
  <2>9. ~WillStamp(c)
    BY <2>1 DEF WillStamp
  <2> QED
    BY <1>2, <2>1, <2>7, <2>8, <2>9 DEF Stamped, Fresh
<1>9. ASSUME NEW c \in Child, B!HalServes(c)
      PROVE  ~bCrashed' /\ Stamped' /\ \A d \in Child : GuardAt(d)'
  <2>1. PICK cmd \in bAsked[c] :
          /\ bAsked' = [bAsked EXCEPT ![c] = @ \ {cmd}]
          /\ bFreed' = IF cmd \in {"connect", "disconnect"} THEN bNow + Teardown ELSE bFreed
    BY <1>9 DEF B!HalServes
  <2>2. /\ bCrashed' = (bCrashed \/ bNow < bFreed)
        /\ UNCHANGED <<bCaller, bOwner, bStamp, bNow, bMishaps>>
    BY <1>9 DEF B!HalServes
  <2>3. bCaller[c].pc = "wait" /\ cmd = B!Cmd(c) /\ bFreed <= bNow /\ bOwner = c /\ bCaller[c].guarded
    BY <1>2, <2>1 DEF GuardAt, Holding
  <2>4. bAsked'[c] = {} /\ \A d \in Child : d # c => bAsked'[d] = bAsked[d]
    BY <1>2, <2>1, <2>3 DEF GuardAt, GuardTyped
  <2>5. GuardAt(c)'
    BY <2>2, <2>3, <2>4 DEF GuardAt, Holding
  <2>6. \A d \in Child : d # c => GuardAt(d)'
    BY <1>2, <2>2, <2>3, <2>4 DEF GuardAt, Holding, B!Cmd
  <2>7. Stamped'
    <3>1. CASE cmd \in {"connect", "disconnect"}
      <4>1. WillStamp(c)'
        BY <2>2, <2>3, <3>1 DEF WillStamp, B!TearsDown, B!Cmd
      <4> QED
        BY <4>1 DEF Stamped, Fresh
    <3>2. CASE cmd \notin {"connect", "disconnect"}
      BY <1>2, <2>1, <2>2, <3>2 DEF Stamped, Fresh, WillStamp, B!Cmd, B!TearsDown
    <3> QED
      BY <3>1, <3>2
  <2>8. ~bCrashed'
    BY <1>2, <2>2, <2>3 DEF GuardTyped
  <2> QED
    BY <2>5, <2>6, <2>7, <2>8
<1>10. ASSUME NEW c \in Child, B!Returns(c)
       PROVE  ~bCrashed' /\ Stamped' /\ \A d \in Child : GuardAt(d)'
  <2>1. /\ bCaller[c].pc = "wait" /\ B!Cmd(c) \notin bAsked[c]
        /\ UNCHANGED <<bOwner, bStamp, bNow, bAsked, bFreed, bCrashed>>
        /\ B!Become(c, [bCaller[c] EXCEPT !.pc = "end"])
    BY <1>10 DEF B!Returns
  <2>2. /\ bCaller'[c] = [bCaller[c] EXCEPT !.pc = "end"]
        /\ \A d \in Child : d # c => bCaller'[d] = bCaller[d]
    BY <2>1, <1>3
  <2>3. /\ bCaller'[c].pc = "end" /\ bCaller'[c].guarded = bCaller[c].guarded
        /\ B!Cmd(c)' = B!Cmd(c)
    BY <2>2 DEF GuardTyped, Tool, B!Cmd
  <2>4. bAsked[c] = {} /\ bOwner = c /\ bCaller[c].guarded
    BY <1>2, <2>1 DEF GuardAt, Holding
  <2>5. GuardAt(c)' /\ (WillStamp(c)' <=> WillStamp(c))
    BY <2>1, <2>3, <2>4 DEF GuardAt, Holding, WillStamp, B!TearsDown
  <2>6. \A d \in Child : d # c => GuardAt(d)' /\ (WillStamp(d)' <=> WillStamp(d))
    <3> TAKE d \in Child
    <3> HAVE d # c
    <3>1. bCaller'[d] = bCaller[d] /\ bAsked'[d] = bAsked[d] /\ (bOwner' = d <=> bOwner = d)
      BY <2>1, <2>2
    <3>2. bFreed' = bFreed /\ bNow' \in Nat /\ bNow' >= bNow
      BY <2>1 DEF GuardTyped
    <3> QED
      BY <1>4, <3>1, <3>2
  <2> QED
    BY <1>2, <2>1, <2>5, <2>6 DEF Stamped, Fresh
<1>11. ASSUME NEW c \in Child, B!End(c)
       PROVE  ~bCrashed' /\ Stamped' /\ \A d \in Child : GuardAt(d)'
  <2>1. /\ bCaller[c].pc = "end" /\ bCaller[c].guarded /\ bOwner = c /\ bAsked[c] = {}
    BY <1>2, <1>11 DEF B!End, GuardAt, Holding
  <2>2. /\ bOwner' = "none" /\ UNCHANGED <<bNow, bAsked, bFreed, bCrashed>>
        /\ bStamp' = IF B!TearsDown(B!Cmd(c)) THEN bNow ELSE bStamp
        /\ \E next : B!Become(c, next) /\ next.pc \in {"lock", "done"}
    <3>1. /\ bOwner' = "none" /\ UNCHANGED <<bNow, bAsked, bFreed, bCrashed>>
          /\ bStamp' = IF B!TearsDown(B!Cmd(c)) THEN bNow ELSE bStamp
      BY <1>11, <2>1 DEF B!End
    <3>2. [B!Resting EXCEPT !.pc = "lock", !.todo = Tail(bCaller[c].todo)].pc = "lock"
      BY DEF B!Resting
    <3>3. [B!Resting EXCEPT !.pc = "done"].pc = "done"
      BY DEF B!Resting
    <3>4. \/ B!Become(c, [B!Resting EXCEPT !.pc = "lock", !.todo = Tail(bCaller[c].todo)])
          \/ B!Become(c, [B!Resting EXCEPT !.pc = "done"])
      BY <1>11 DEF B!End, B!Onwards
    <3> QED
      BY <3>1, <3>2, <3>3, <3>4
  <2>3. bCaller'[c].pc \in {"lock", "done"} /\ \A d \in Child : d # c => bCaller'[d] = bCaller[d]
    BY <2>2, <1>3
  <2>4. \A d \in Child : d # c => bCaller[d].pc \notin Holding
    BY <1>2, <2>1 DEF GuardAt
  <2>5. GuardAt(c)'
    BY <2>1, <2>2, <2>3 DEF GuardAt, Holding
  <2>6. \A d \in Child : d # c => GuardAt(d)'
    BY <1>2, <2>1, <2>2, <2>3, <2>4 DEF GuardAt, Holding, B!Cmd
  <2>7. Stamped'
    <3>1. CASE B!TearsDown(B!Cmd(c))
      BY <2>2, <3>1 DEF Stamped, Fresh, GuardTyped
    <3>2. CASE ~B!TearsDown(B!Cmd(c))
      <4>1. \A d \in Child : ~WillStamp(d)
        BY <2>4, <3>2 DEF WillStamp, Holding
      <4> QED
        BY <1>2, <2>2, <3>2, <4>1 DEF Stamped, Fresh
    <3> QED
      BY <3>1, <3>2
  <2> QED
    BY <1>2, <2>2, <2>5, <2>6, <2>7
<1>12. ASSUME NEW c \in Child, B!Killed(c)
       PROVE  ~bCrashed' /\ Stamped' /\ \A d \in Child : GuardAt(d)'
  <2>1. /\ bCaller[c].pc \notin {"wait", "end"} /\ bOwner' = IF bOwner = c THEN "none" ELSE bOwner
        /\ UNCHANGED <<bStamp, bNow, bAsked, bFreed, bCrashed>>
        /\ \E next : B!Become(c, next) /\ next.pc = "done"
    <3>1. [B!Resting EXCEPT !.pc = "done"].pc = "done"
      BY DEF B!Resting
    <3> QED
      BY <1>12, <3>1 DEF B!Killed
  <2>2. bCaller'[c].pc = "done" /\ \A d \in Child : d # c => bCaller'[d] = bCaller[d]
    BY <2>1, <1>3
  <2>3. GuardAt(c)' /\ ~WillStamp(c)' /\ ~WillStamp(c)
    BY <1>2, <2>1, <2>2 DEF GuardAt, WillStamp, Holding
  <2>4. \A d \in Child : d # c => GuardAt(d)' /\ (WillStamp(d)' <=> WillStamp(d))
    <3> TAKE d \in Child
    <3> HAVE d # c
    <3>1. bCaller'[d] = bCaller[d] /\ bAsked'[d] = bAsked[d] /\ (bOwner' = d <=> bOwner = d)
      BY <2>1, <2>2
    <3>2. bFreed' = bFreed /\ bNow' \in Nat /\ bNow' >= bNow
      BY <2>1 DEF GuardTyped
    <3> QED
      BY <1>4, <3>1, <3>2
  <2> QED
    BY <1>2, <2>1, <2>3, <2>4 DEF Stamped, Fresh
<1>13. CASE B!Tick \/ UNCHANGED bVars
  <2>1. /\ UNCHANGED <<bCaller, bOwner, bStamp, bAsked, bFreed, bCrashed>> /\ bNow' \in Nat /\ bNow' >= bNow
    BY <1>13 DEF B!Tick, bVars, GuardTyped
  <2>2. \A d \in Child : GuardAt(d)' /\ (WillStamp(d)' <=> WillStamp(d))
    BY <1>4, <2>1
  <2> QED
    BY <1>2, <2>1, <2>2 DEF Stamped, Fresh
<1> QED
  BY <1>5, <1>6, <1>7, <1>8, <1>9, <1>10, <1>11, <1>12, <1>13 DEF B!Next, B!ToolStep

\* A step of the whole is a step of the guard's callers or leaves them alone.
LEMMA GuardSteps == [Next]_vars => [B!Next]_bVars
BY DEF Next, vars, bVars, DeviceStep, ReloadStep, BatchStep, RadioStep, GuardStep, PairingStep,
       ControlStep, UpdateStep

\* HalNeverReadsFreed is invariant: codex_hal_ltcp_guard never lets hal serve a HID call while
\* its instance is freed, unless the lock or the stamp could not be used or a tool was killed.
THEOREM HalIsGuarded == Spec => []HalNeverReadsFreed
<1>1. Init => GuardTyped /\ Guarded
  BY GuardInit DEF Init
<1>2. GuardTyped /\ Guarded /\ [Next]_vars => GuardTyped' /\ Guarded'
  BY GuardSteps, GuardNextTyped, GuardNext
<1>3. Guarded => HalNeverReadsFreed
  BY DEF Guarded, HalNeverReadsFreed, B!HalNeverReadsFreed
<1> QED
  BY <1>1, <1>2, <1>3, PTL DEF Spec
-----------------------------------------------------------------------------
(* RfPairing. *)

\* Where a child is between opening the local bus and closing it.
Busy == {"before", "window", "after"}

\* A child that lists the RF remotes or pairs one.
Kid == [pc : Busy \cup {"idle", "done"}, kind : {"list", "pair"}, seconds : Nat,
        locked : BOOLEAN, open : BOOLEAN, helper : {"none", "info", "window"}, tries : {0, 1},
        told : {"none", "pairing", "no lock", "failed", "listed", "paired"}]

\* The types of the children, of what hal does for them and of what went wrong.
RadioTyped ==
  /\ fKid \in [Child -> Kid]
  /\ fHal \in [Child -> SUBSET {"info", "window"}]
  /\ fMishaps \in SUBSET F!Mishaps

\* A child has the lock while it has the bus open, and so does the helper that it started.
KidLocks(k) ==
  /\ k.helper # "none" => k.locked
  /\ k.pc \in Busy => k.locked /\ k.open
  /\ k.pc = "idle" => k.helper = "none" /\ ~k.open

\* Hal does nothing for a child but what its helper waits for.
RadioAt(c) == KidLocks(fKid[c]) /\ fHal[c] \subseteq {fKid[c].helper}

\* The lock belongs to one child and to its helper.
OneLock == \A c, d \in Child : F!KeepsLock(fKid[c]) /\ F!KeepsLock(fKid[d]) => c = d

\* What the lock achieves as long as hal is not slow.
RadioSafe == "slow" \notin fMishaps => OneLock /\ \A c \in Child : RadioAt(c)

\* A child that closes the bus is done and keeps the lock for its helper only.
LEMMA ClosedKid ==
  ASSUME NEW k \in Kid, NEW verdict \in {"pairing", "no lock", "failed", "listed", "paired"}
  PROVE  /\ F!Closed(k, verdict) \in Kid
         /\ F!Closed(k, verdict).pc = "done" /\ ~F!Closed(k, verdict).open
         /\ F!Closed(k, verdict).locked = k.locked
         /\ F!Closed(k, verdict).helper = k.helper
BY DEF Kid, F!Closed

\* A child whose helper has ended tries again, goes on or closes.
LEMMA AfterKid ==
  ASSUME NEW k \in Kid, NEW ok \in BOOLEAN
  PROVE  /\ F!After(k, ok) \in Kid
         /\ F!After(k, ok).helper = "none"
         /\ F!After(k, ok).locked = k.locked
         /\ F!After(k, ok).open => k.open
         /\ F!After(k, ok).pc \in Busy => k.pc \in Busy /\ F!After(k, ok).open = k.open
         /\ F!After(k, ok).pc = "idle" => k.pc = "idle"
<1> DEFINE next == [k EXCEPT !.helper = "none"]
           Fine(m) == /\ m \in Kid /\ m.helper = "none" /\ m.locked = k.locked /\ (m.open => k.open)
                      /\ m.pc \in Busy => k.pc \in Busy /\ m.open = k.open
                      /\ m.pc = "idle" => k.pc = "idle"
<1>1. next \in Kid /\ next.helper = "none" /\ next.locked = k.locked /\ next.open = k.open
      /\ next.pc = k.pc /\ next.tries = k.tries
  BY DEF Kid
<1>2. ASSUME NEW m \in Kid, m.helper = "none", m.locked = k.locked, m.open = k.open, k.pc \in Busy,
             NEW pc \in Busy
      PROVE  Fine([m EXCEPT !.pc = pc])
  BY <1>2 DEF Kid, Busy
<1>3. k.pc \in Busy => Fine([next EXCEPT !.tries = 1])
  BY <1>1 DEF Kid, Busy
<1>4. ASSUME NEW verdict \in {"failed", "listed", "paired"} PROVE Fine(F!Closed(next, verdict))
  <2> HIDE DEF next
  <2>1. /\ F!Closed(next, verdict) \in Kid
        /\ F!Closed(next, verdict).pc = "done" /\ ~F!Closed(next, verdict).open
        /\ F!Closed(next, verdict).locked = next.locked
        /\ F!Closed(next, verdict).helper = next.helper
    <3>1. verdict \in {"pairing", "no lock", "failed", "listed", "paired"} /\ next \in Kid
      BY <1>1, <1>4
    <3> QED
      BY <3>1, ClosedKid
  <2> QED
    BY <1>1, <2>1 DEF Busy
<1>5. Fine(next)
  BY <1>1
<1>6. k.pc = "before" => Fine([next EXCEPT !.pc = "window"])
  BY <1>1, <1>2 DEF Busy
<1>7. k.pc = "window" => Fine([next EXCEPT !.pc = "after"])
  BY <1>1, <1>2 DEF Busy
<1>8. Fine(F!Closed(next, "failed")) /\ Fine(F!Closed(next, "listed"))
      /\ Fine(F!Closed(next, "paired"))
  BY <1>4
<1> HIDE DEF next, Fine
<1>9. F!After(k, ok) =
        CASE k.pc = "before" -> IF ~ok THEN F!Closed(next, "failed")
                                ELSE IF k.kind = "list" THEN F!Closed(next, "listed")
                                ELSE [next EXCEPT !.pc = "window"]
          [] k.pc = "window" -> [next EXCEPT !.pc = "after"]
          [] k.pc = "after"  -> IF ~ok /\ k.tries = 0 THEN [next EXCEPT !.tries = 1]
                                ELSE F!Closed(next, "paired")
          [] OTHER -> next
  BY DEF F!After, next
<1>10. Fine(F!After(k, ok))
  BY <1>3, <1>5, <1>6, <1>7, <1>8, <1>9 DEF Busy
<1> QED
  BY <1>10 DEF Fine

\* No child has the lock at the start.
LEMMA RadioInit == F!Init => RadioTyped /\ RadioSafe
<1> SUFFICES ASSUME F!Init PROVE RadioTyped /\ RadioSafe
  OBVIOUS
<1> USE DEF F!Init
<1>1. F!Resting \in Kid
  BY DEF F!Resting, Kid
<1>2. RadioTyped
  BY <1>1 DEF RadioTyped
<1>3. \A c \in Child : RadioAt(c) /\ ~F!KeepsLock(fKid[c])
  BY DEF RadioAt, KidLocks, F!KeepsLock, F!Resting, Busy
<1> QED
  BY <1>2, <1>3 DEF RadioSafe, OneLock

\* Every step keeps the lock with one child: a helper that outlives its child has inherited
\* it, and only a slow hal outlasts the helper.
LEMMA RadioNext == RadioTyped /\ RadioSafe /\ [F!Next]_fVars => RadioTyped' /\ RadioSafe'
<1> SUFFICES ASSUME RadioTyped, RadioSafe, [F!Next]_fVars PROVE RadioTyped' /\ RadioSafe'
  OBVIOUS
<1> USE RadioAssumption
\* The step of one child: what hal does for the others, and their locks, stay.
<1>1. ASSUME NEW c \in Child, NEW next \in Kid, F!Become(c, next),
             fHal' \in [Child -> SUBSET {"info", "window"}],
             \A d \in Child : d # c => fHal'[d] = fHal[d],
             fMishaps \subseteq fMishaps', fMishaps' \in SUBSET F!Mishaps,
             "slow" \notin fMishaps' /\ KidLocks(fKid[c]) /\ fHal[c] \subseteq {fKid[c].helper} =>
               KidLocks(next) /\ fHal'[c] \subseteq {next.helper},
             "slow" \notin fMishaps' /\ KidLocks(fKid[c]) /\ F!KeepsLock(next) =>
               F!KeepsLock(fKid[c]) \/ ~ \E d \in Child : F!KeepsLock(fKid[d])
      PROVE  RadioTyped' /\ RadioSafe'
  <2>1. fKid' \in [Child -> Kid] /\ fKid'[c] = next /\ \A d \in Child : d # c => fKid'[d] = fKid[d]
    BY <1>1 DEF F!Become, RadioTyped
  <2>2. RadioTyped'
    BY <1>1, <2>1 DEF RadioTyped
  <2>3. ASSUME "slow" \notin fMishaps' PROVE OneLock' /\ \A d \in Child : RadioAt(d)'
    <3>1. OneLock /\ \A d \in Child : RadioAt(d)
      BY <1>1, <2>3 DEF RadioSafe
    <3>2. \A d \in Child : RadioAt(d)'
      BY <1>1, <2>1, <2>3, <3>1 DEF RadioAt
    <3>3. OneLock'
      BY <1>1, <2>1, <2>3, <3>1 DEF OneLock, RadioAt
    <3> QED
      BY <3>2, <3>3
  <2> QED
    BY <2>2, <2>3 DEF RadioSafe
<1>2. ASSUME NEW c \in Child, F!Begin(c) PROVE RadioTyped' /\ RadioSafe'
  <2>1. PICK kind \in {"list", "pair"}, s \in Windows :
          LET me == [fKid[c] EXCEPT !.kind = kind, !.seconds = s] IN
          F!Become(c, IF \E d \in Child : F!KeepsLock(fKid[d])
                      THEN F!Closed(me, "pairing")
                      ELSE [me EXCEPT !.pc = "before", !.locked = TRUE, !.open = TRUE])
    BY <1>2 DEF F!Begin
  <2> DEFINE me == [fKid[c] EXCEPT !.kind = kind, !.seconds = s]
             opened == [me EXCEPT !.pc = "before", !.locked = TRUE, !.open = TRUE]
  <2>2. fKid[c] \in Kid /\ fKid[c].pc = "idle" /\ UNCHANGED <<fHal, fMishaps>>
    BY <1>2 DEF F!Begin, RadioTyped
  <2>3. me \in Kid /\ me.helper = fKid[c].helper /\ me.locked = fKid[c].locked
    BY <2>2 DEF Kid
  <2>4. /\ opened \in Kid /\ opened.helper = fKid[c].helper /\ opened.locked /\ opened.open
        /\ opened.pc = "before"
    BY <2>2 DEF Kid, Busy
  <2>5. F!Become(c, IF \E d \in Child : F!KeepsLock(fKid[d]) THEN F!Closed(me, "pairing") ELSE opened)
    BY <2>1
  <2> HIDE DEF me, opened
  <2>6. CASE \E d \in Child : F!KeepsLock(fKid[d])
    <3> DEFINE next == F!Closed(me, "pairing")
    <3>1. /\ next \in Kid /\ next.pc = "done" /\ ~next.open /\ next.locked = fKid[c].locked
          /\ next.helper = fKid[c].helper
      BY <2>3, ClosedKid
    <3>2. F!Become(c, next)
      BY <2>5, <2>6
    <3> HIDE DEF next
    <3>3. KidLocks(fKid[c]) => KidLocks(next)
      BY <2>2, <3>1 DEF KidLocks, Busy
    <3>4. F!KeepsLock(next) => F!KeepsLock(fKid[c])
      BY <3>1 DEF F!KeepsLock
    <3> QED
      BY <1>1, <2>2, <3>1, <3>2, <3>3, <3>4 DEF RadioTyped
  <2>7. CASE ~ \E d \in Child : F!KeepsLock(fKid[d])
    <3>1. F!Become(c, opened)
      BY <2>5, <2>7
    <3>2. KidLocks(opened)
      BY <2>4 DEF KidLocks
    <3> QED
      BY <1>1, <2>2, <2>4, <2>7, <3>1, <3>2 DEF RadioTyped
  <2> QED
    BY <2>6, <2>7
<1>3. ASSUME NEW c \in Child, F!LockFails(c) PROVE RadioTyped' /\ RadioSafe'
  <2> DEFINE next == F!Closed(fKid[c], "no lock")
  <2>1. fKid[c] \in Kid /\ F!Become(c, next) /\ UNCHANGED <<fHal, fMishaps>>
    BY <1>3 DEF F!LockFails, RadioTyped
  <2>2. /\ next \in Kid /\ next.pc = "done" /\ ~next.open /\ next.locked = fKid[c].locked
        /\ next.helper = fKid[c].helper
    BY <2>1, ClosedKid
  <2> HIDE DEF next
  <2>3. KidLocks(fKid[c]) => KidLocks(next)
    BY <2>2 DEF KidLocks, Busy
  <2>4. F!KeepsLock(next) => F!KeepsLock(fKid[c])
    BY <2>2 DEF F!KeepsLock
  <2> QED
    BY <1>1, <2>1, <2>2, <2>3, <2>4 DEF RadioTyped
<1>4. ASSUME NEW c \in Child, F!Ask(c) PROVE RadioTyped' /\ RadioSafe'
  <2> DEFINE request == IF fKid[c].pc = "window" THEN "window" ELSE "info"
             next == [fKid[c] EXCEPT !.helper = request]
  <2>1. /\ fKid[c] \in Kid /\ fKid[c].pc \in Busy /\ fKid[c].helper = "none"
        /\ fHal' = [fHal EXCEPT ![c] = @ \cup {request}] /\ UNCHANGED fMishaps
        /\ F!Become(c, next)
    BY <1>4 DEF F!Ask, RadioTyped, Busy
  <2>2. /\ next \in Kid /\ next.pc = fKid[c].pc /\ next.open = fKid[c].open
        /\ next.locked = fKid[c].locked /\ next.helper = request
    BY <2>1 DEF Kid
  <2>3. /\ fHal' \in [Child -> SUBSET {"info", "window"}] /\ fHal'[c] = fHal[c] \cup {request}
        /\ \A d \in Child : d # c => fHal'[d] = fHal[d]
    BY <2>1 DEF RadioTyped
  <2>4. fHal[c] \in SUBSET {"info", "window"}
    BY DEF RadioTyped
  <2> HIDE DEF next, request
  <2>5. KidLocks(fKid[c]) => KidLocks(next)
    BY <2>1, <2>2 DEF KidLocks, Busy
  <2>6. fHal[c] \subseteq {fKid[c].helper} => fHal'[c] \subseteq {next.helper}
    BY <2>1, <2>2, <2>3, <2>4
  <2>7. KidLocks(fKid[c]) => F!KeepsLock(fKid[c])
    BY <2>1 DEF KidLocks, F!KeepsLock
  <2> QED
    BY <1>1, <2>1, <2>2, <2>3, <2>5, <2>6, <2>7 DEF RadioTyped
<1>5. ASSUME NEW c \in Child, F!Answers(c) PROVE RadioTyped' /\ RadioSafe'
  <2>1. PICK ok \in BOOLEAN : F!Become(c, F!After(fKid[c], ok))
    BY <1>5 DEF F!Answers
  <2> DEFINE next == F!After(fKid[c], ok)
  <2>2. /\ fKid[c] \in Kid /\ fKid[c].helper \in fHal[c] /\ fHal[c] \in SUBSET {"info", "window"}
        /\ fHal' = [fHal EXCEPT ![c] = @ \ {fKid[c].helper}] /\ UNCHANGED fMishaps
    BY <1>5 DEF F!Answers, RadioTyped
  <2>3. /\ next \in Kid /\ next.helper = "none" /\ next.locked = fKid[c].locked
        /\ next.open => fKid[c].open
        /\ next.pc \in Busy => fKid[c].pc \in Busy /\ next.open = fKid[c].open
        /\ next.pc = "idle" => fKid[c].pc = "idle"
    BY <2>2, AfterKid
  <2>4. /\ fHal' \in [Child -> SUBSET {"info", "window"}] /\ fHal'[c] = fHal[c] \ {fKid[c].helper}
        /\ \A d \in Child : d # c => fHal'[d] = fHal[d]
    BY <2>2 DEF RadioTyped
  <2>5. F!Become(c, next)
    BY <2>1
  <2> HIDE DEF next
  <2>6. KidLocks(fKid[c]) => KidLocks(next)
    BY <2>2, <2>3 DEF KidLocks
  <2>7. fHal[c] \subseteq {fKid[c].helper} => fHal'[c] \subseteq {next.helper}
    BY <2>4
  <2>8. F!KeepsLock(next) => F!KeepsLock(fKid[c])
    BY <2>3 DEF F!KeepsLock
  <2> QED
    BY <1>1, <2>2, <2>3, <2>4, <2>5, <2>6, <2>7, <2>8 DEF RadioTyped
\* While hal has never been slow it does nothing that no helper waits for.
<1>6. ASSUME NEW c \in Child, F!EndsUnheard(c) PROVE RadioTyped' /\ RadioSafe'
  <2>1. PICK what \in fHal[c] \ {fKid[c].helper} : fHal' = [fHal EXCEPT ![c] = @ \ {what}]
    BY <1>6 DEF F!EndsUnheard
  <2>2. UNCHANGED <<fKid, fMishaps>>
    BY <1>6 DEF F!EndsUnheard
  <2>3. RadioTyped'
    BY <2>1, <2>2 DEF RadioTyped
  <2>4. "slow" \in fMishaps
    BY <2>1 DEF RadioSafe, RadioAt
  <2> QED
    BY <2>2, <2>3, <2>4 DEF RadioSafe
\* The helper waits as long as hal may take: who gives up has met a slow hal.
<1>7. ASSUME NEW c \in Child, F!GivesUp(c) PROVE RadioTyped' /\ RadioSafe'
  <2> DEFINE next == F!After(fKid[c], FALSE)
  <2>1. /\ fKid[c] \in Kid /\ F!Become(c, next) /\ UNCHANGED fHal
        /\ fMishaps' = fMishaps \cup
             IF F!WaitsFor(fKid[c].helper, fKid[c].seconds + Room)
                  >= F!Takes(fKid[c].helper, fKid[c].seconds)
             THEN {"slow"} ELSE {}
    BY <1>7 DEF F!GivesUp, RadioTyped
  <2>2. next \in Kid
    BY <2>1, AfterKid
  <2>3. fKid[c].seconds \in Nat
    BY <2>1 DEF Kid
  <2>4. F!WaitsFor(fKid[c].helper, fKid[c].seconds + Room) >= F!Takes(fKid[c].helper, fKid[c].seconds)
    BY <2>3 DEF F!WaitsFor, F!Takes
  <2>5. fMishaps' = fMishaps \cup {"slow"}
    BY <2>1, <2>4
  <2>6. fMishaps' \in SUBSET F!Mishaps
    BY <2>5 DEF RadioTyped, F!Mishaps
  <2> HIDE DEF next
  <2> QED
    BY <1>1, <2>1, <2>2, <2>5, <2>6 DEF RadioTyped
<1>8. ASSUME NEW c \in Child, F!Dies(c) PROVE RadioTyped' /\ RadioSafe'
  <2> DEFINE next == [fKid[c] EXCEPT !.pc = "done", !.open = FALSE]
  <2>1. fKid[c] \in Kid /\ F!Become(c, next) /\ UNCHANGED <<fHal, fMishaps>>
    BY <1>8 DEF F!Dies, RadioTyped
  <2>2. /\ next \in Kid /\ next.pc = "done" /\ ~next.open /\ next.locked = fKid[c].locked
        /\ next.helper = fKid[c].helper
    BY <2>1 DEF Kid
  <2> HIDE DEF next
  <2>3. KidLocks(fKid[c]) => KidLocks(next)
    BY <2>2 DEF KidLocks, Busy
  <2>4. F!KeepsLock(next) => F!KeepsLock(fKid[c])
    BY <2>2 DEF F!KeepsLock
  <2> QED
    BY <1>1, <2>1, <2>2, <2>3, <2>4 DEF RadioTyped
<1>9. CASE UNCHANGED fVars
  BY <1>9 DEF fVars, RadioTyped, RadioSafe, OneLock, RadioAt
<1> QED
  BY <1>2, <1>3, <1>4, <1>5, <1>6, <1>7, <1>8, <1>9 DEF F!Next, F!ChildStep

\* A step of the whole is a step of the radio's children or leaves them alone.
LEMMA RadioSteps == [Next]_vars => [F!Next]_fVars
BY DEF Next, vars, fVars, DeviceStep, ReloadStep, BatchStep, RadioStep, GuardStep, PairingStep,
       ControlStep, UpdateStep

\* WindowIsAlone is invariant: with flock_serial nobody reads the pairing slots while a
\* pairing window is open, unless hal was slower than the helper waits.
THEOREM WindowsAreAlone == Spec => []WindowIsAlone
<1>1. Init => RadioTyped /\ RadioSafe
  BY RadioInit DEF Init
<1>2. RadioTyped /\ RadioSafe /\ [Next]_vars => RadioTyped' /\ RadioSafe'
  BY RadioSteps, RadioNext
<1>3. RadioTyped /\ RadioSafe => WindowIsAlone
  <2> SUFFICES ASSUME RadioTyped, RadioSafe, "slow" \notin fMishaps,
                      NEW c \in Child, NEW d \in Child, "window" \in fHal[c]
               PROVE  fHal[d] = IF d = c THEN {"window"} ELSE {}
    BY DEF WindowIsAlone, F!WindowIsAlone
  <2>1. OneLock /\ RadioAt(c) /\ RadioAt(d)
    BY DEF RadioSafe
  <2>2. fKid[c].helper = "window" /\ F!KeepsLock(fKid[c])
    BY <2>1 DEF RadioAt, KidLocks, F!KeepsLock
  <2>3. fHal[d] # {} => F!KeepsLock(fKid[d])
    <3>1. fHal[d] \in SUBSET {"info", "window"}
      BY DEF RadioTyped
    <3> QED
      BY <2>1, <3>1 DEF RadioAt, KidLocks, F!KeepsLock
  <2>4. fHal[d] # {} => c = d
    BY <2>1, <2>2, <2>3 DEF OneLock
  <2> QED
    BY <2>1, <2>2, <2>4 DEF RadioAt
<1> QED
  BY <1>1, <1>2, <1>3, PTL DEF Spec
-----------------------------------------------------------------------------
(* IrBatch. *)

\* A line of the batch either parses or is skipped.
Line == {"good", "bad"}

\* Where a batch runs.
Running == {"look", "send", "doze", "next"}

\* A run of a batch.
Batch == [pc : Running \cup {"idle", "done"}, id : Id \cup {"none"}, dry : BOOLEAN,
          lines : Seq(Line), at : Nat, sent : Nat, skipped : Nat, attempted : Nat, slept : Nat,
          told : {"none", "sent", "nothing", "canceled", "interrupted"}]

\* The types of the runs and of what is noted about them.
BatchTyped ==
  /\ iRun \in [Child -> Batch]
  /\ iCancelled \in SUBSET Id
  /\ iAsked \in [Child -> BOOLEAN] /\ iOld \in [Child -> BOOLEAN] /\ iLate \in [Child -> Nat]

\* A run has accounted for every line before the one it is at, and at the end for all of
\* them, with the line at which it was interrupted.
Counted(me) ==
  /\ me.pc \in Running =>
       me.sent + me.skipped + 1 = me.at /\ me.at <= Len(me.lines) + 1 /\ me.told = "none"
  /\ me.pc \in {"send", "doze", "next"} => me.at <= Len(me.lines)
  /\ me.pc = "idle" => me.sent = 0 /\ me.told = "none"
  /\ me.pc = "done" =>
       me.sent + me.skipped = Len(me.lines) + IF me.told = "interrupted" THEN 1 ELSE 0

\* A run is only told that it was cancelled when it was asked to stop, or found a file from
\* before; after it was asked it sends at most the line that was on its way.
Heeded(me, asked, old, late) ==
  /\ me.told \in {"canceled", "interrupted"} => asked \/ old
  /\ me.pc \in Running /\ me.id \in iCancelled => asked \/ old
  /\ asked => me.id \in iCancelled /\ me.pc # "idle"
  /\ late = 0 \/ (late = 1 /\ asked /\ me.pc \in {"doze", "done"})
  /\ old => me.id \in iCancelled /\ me.pc \in {"look", "done"} /\ me.sent = 0

\* What holds of a run.
BatchAt(r) == Counted(iRun[r]) /\ Heeded(iRun[r], iAsked[r], iOld[r], iLate[r])

\* What holds of every run.
BatchSafe == \A r \in Child : BatchAt(r)

\* The length of a batch is a number.
LEMMA LinesHaveLength ==
  ASSUME NEW s \in Seq(Line)
  PROVE  Len(s) \in Nat
OBVIOUS

\* One more line is sent.
LEMMA Sums ==
  ASSUME NEW sent \in Nat, NEW skipped \in Nat, NEW at \in Nat, sent + skipped + 1 = at
  PROVE  (sent + 1) + skipped + 1 = at + 1
OBVIOUS

\* No batch runs at the start.
LEMMA BatchInit == I!Init => BatchTyped /\ BatchSafe
<1> SUFFICES ASSUME I!Init PROVE BatchTyped /\ BatchSafe
  OBVIOUS
<1> USE DEF I!Init
<1>1. I!Resting \in Batch
  BY DEF I!Resting, Batch
<1>2. BatchTyped
  BY <1>1 DEF BatchTyped
<1>3. ASSUME NEW r \in Child PROVE BatchAt(r)
  <2>1. /\ iRun[r].pc = "idle" /\ iRun[r].told = "none" /\ iRun[r].sent = 0
        /\ ~iAsked[r] /\ ~iOld[r] /\ iLate[r] = 0
    BY <1>3 DEF I!Resting
  <2>2. Counted(iRun[r])
    BY <2>1 DEF Counted, Running
  <2>3. Heeded(iRun[r], iAsked[r], iOld[r], iLate[r])
    BY <2>1 DEF Heeded, Running
  <2> QED
    BY <2>2, <2>3 DEF BatchAt
<1> QED
  BY <1>2, <1>3 DEF BatchSafe

\* Every step keeps the counts and heeds the requests to stop.
LEMMA BatchNext == BatchTyped /\ BatchSafe /\ [I!Next]_iVars => BatchTyped' /\ BatchSafe'
<1> SUFFICES ASSUME BatchTyped, BatchSafe, [I!Next]_iVars PROVE BatchTyped' /\ BatchSafe'
  OBVIOUS
<1> USE BatchAssumption
\* The step of one run, with no id cancelled.
<1>1. ASSUME NEW r \in Child, NEW next \in Batch, I!Become(r, next), UNCHANGED <<iCancelled, iAsked>>,
             iOld' \in [Child -> BOOLEAN], iLate' \in [Child -> Nat],
             \A s \in Child : s # r => iOld'[s] = iOld[s] /\ iLate'[s] = iLate[s],
             Counted(next), Heeded(next, iAsked[r], iOld'[r], iLate'[r])
      PROVE  BatchTyped' /\ BatchSafe'
  <2>1. iRun' \in [Child -> Batch] /\ iRun'[r] = next /\ \A s \in Child : s # r => iRun'[s] = iRun[s]
    BY <1>1 DEF I!Become, BatchTyped
  <2>2. BatchTyped'
    BY <1>1, <2>1 DEF BatchTyped
  <2>3. ASSUME NEW s \in Child PROVE BatchAt(s)'
    <3>1. BatchAt(s)
      BY DEF BatchSafe
    <3>2. CASE s = r
      BY <1>1, <2>1, <3>2 DEF BatchAt, Counted, Heeded
    <3>3. CASE s # r
      BY <1>1, <2>1, <3>1, <3>3 DEF BatchAt, Counted, Heeded
    <3> QED
      BY <3>2, <3>3
  <2> QED
    BY <2>2, <2>3 DEF BatchSafe
<1>2. ASSUME NEW r \in Child, NEW next \in Batch, I!Become(r, next),
             UNCHANGED <<iCancelled, iAsked, iOld, iLate>>,
             Counted(next), Heeded(next, iAsked[r], iOld[r], iLate[r])
      PROVE  BatchTyped' /\ BatchSafe'
  BY <1>1, <1>2 DEF BatchTyped
<1>3. \A r \in Child : /\ iRun[r] \in Batch /\ Counted(iRun[r])
                       /\ Heeded(iRun[r], iAsked[r], iOld[r], iLate[r])
                       /\ iAsked[r] \in BOOLEAN /\ iOld[r] \in BOOLEAN /\ iLate[r] \in Nat
  BY DEF BatchTyped, BatchSafe, BatchAt
<1>4. ASSUME NEW r \in Child, NEW me \in Batch, NEW verdict \in {"sent", "nothing", "canceled", "interrupted"},
             me.pc \in Running, me.at <= Len(me.lines) + 1,
             me.sent + me.skipped + 1 = me.at + IF verdict = "interrupted" THEN 1 ELSE 0,
             verdict \in {"canceled", "interrupted"} => iAsked[r] \/ iOld[r],
             iOld[r] => me.sent = 0,
             iLate[r] = 0 \/ (iLate[r] = 1 /\ iAsked[r]),
             iAsked[r] \/ iOld[r] => me.id \in iCancelled,
             I!Ended(r, me, verdict), UNCHANGED <<iCancelled, iAsked, iOld, iLate>>
      PROVE  BatchTyped' /\ BatchSafe'
  <2> DEFINE next == [me EXCEPT !.pc = "done", !.told = verdict,
                                !.skipped = @ + Len(me.lines) + 1 - me.at]
  <2>1. I!Become(r, next)
    BY <1>4 DEF I!Ended
  <2>2. Len(me.lines) \in Nat /\ me.at \in Nat /\ me.skipped \in Nat /\ me.sent \in Nat
    BY LinesHaveLength DEF Batch
  <2>3. me.skipped + Len(me.lines) + 1 - me.at \in Nat
    BY <1>4, <2>2
  <2>4. /\ next \in Batch /\ next.pc = "done" /\ next.told = verdict /\ next.id = me.id
        /\ next.sent = me.sent /\ next.lines = me.lines
        /\ next.skipped = me.skipped + Len(me.lines) + 1 - me.at
    BY <2>3 DEF Batch
  <2> HIDE DEF next
  <2>5. Counted(next)
    <3>1. next.sent + next.skipped = Len(next.lines) + IF verdict = "interrupted" THEN 1 ELSE 0
      <4>1. PICK one \in {0, 1} : one = IF verdict = "interrupted" THEN 1 ELSE 0
        OBVIOUS
      <4>2. me.sent + me.skipped + 1 = me.at + one
        BY <1>4, <4>1
      <4>3. PICK sent \in Nat, skipped \in Nat, at \in Nat, len \in Nat :
              sent = me.sent /\ skipped = me.skipped /\ at = me.at /\ len = Len(me.lines)
        BY <2>2
      <4>4. sent + (skipped + len + 1 - at) = len + one
        <5>1. sent + skipped + 1 = at + one
          BY <4>2, <4>3
        <5>2. one \in Nat
          BY <4>1
        <5> QED
          BY <5>1, <5>2
      <4> QED
        BY <2>4, <4>1, <4>3, <4>4
    <3> QED
      BY <2>4, <3>1 DEF Counted, Running
  <2>6. Heeded(next, iAsked[r], iOld[r], iLate[r])
    BY <1>3, <1>4, <2>4 DEF Heeded, Running
  <2> QED
    BY <1>2, <1>4, <2>1, <2>4, <2>5, <2>6
<1>5. ASSUME NEW r \in Child, I!Begin(r) PROVE BatchTyped' /\ BatchSafe'
  <2>1. PICK b \in Batches[r] :
          /\ I!Become(r, [I!Resting EXCEPT !.pc = "look", !.id = b.id, !.dry = b.dry, !.lines = b.lines])
          /\ iOld' = [iOld EXCEPT ![r] = I!IsCanceled(b.id)]
    BY <1>5 DEF I!Begin
  <2> DEFINE next == [I!Resting EXCEPT !.pc = "look", !.id = b.id, !.dry = b.dry, !.lines = b.lines]
  <2>2. b \in [id : Id \cup {"none"}, dry : BOOLEAN, lines : Seq(Line)]
    BY <2>1 DEF Line
  <2>3. b.id \in Id \cup {"none"} /\ b.dry \in BOOLEAN /\ b.lines \in Seq(Line)
    BY <2>2
  <2>4. /\ next \in Batch /\ next.pc = "look" /\ next.id = b.id /\ next.lines = b.lines
        /\ next.at = 1 /\ next.sent = 0 /\ next.skipped = 0 /\ next.told = "none"
    BY <2>3 DEF Batch, I!Resting, Running
  <2>5. iRun[r].pc = "idle" /\ UNCHANGED <<iCancelled, iAsked, iLate>> /\ I!Become(r, next)
    BY <1>5, <2>1 DEF I!Begin
  <2>6. Len(b.lines) \in Nat
    BY <2>3, LinesHaveLength
  <2> HIDE DEF next
  <2>7. Counted(next)
    BY <2>4, <2>6 DEF Counted, Running
  <2>8. iOld' \in [Child -> BOOLEAN] /\ (iOld'[r] <=> b.id \in iCancelled)
        /\ \A s \in Child : s # r => iOld'[s] = iOld[s]
    <3>1. I!IsCanceled(b.id) \in BOOLEAN /\ (I!IsCanceled(b.id) <=> b.id \in iCancelled)
      BY DEF I!IsCanceled
    <3>2. iOld' \in [Child -> BOOLEAN] /\ iOld'[r] = I!IsCanceled(b.id)
      BY <2>1, <3>1 DEF BatchTyped
    <3>3. \A s \in Child : s # r => iOld'[s] = iOld[s]
      BY <2>1, <3>1 DEF BatchTyped
    <3> QED
      BY <3>1, <3>2, <3>3
  <2>9. ~iAsked[r] /\ iLate[r] = 0
    BY <1>3, <2>5 DEF Heeded
  <2>10. Heeded(next, iAsked[r], iOld'[r], iLate'[r])
    <3>1. iLate'[r] = 0
      BY <2>5, <2>9
    <3>2. /\ next.told = "none" /\ next.pc = "look" /\ next.sent = 0
          /\ (iOld'[r] <=> next.id \in iCancelled)
      BY <2>4, <2>8
    <3> QED
      BY <2>5, <2>9, <3>1, <3>2 DEF Heeded
  <2>11. iLate' \in [Child -> Nat] /\ \A s \in Child : s # r => iLate'[s] = iLate[s]
    BY <2>5 DEF BatchTyped
  <2> QED
    BY <1>1, <2>4, <2>5, <2>7, <2>8, <2>10, <2>11
<1>6. ASSUME NEW r \in Child, I!Look(r) PROVE BatchTyped' /\ BatchSafe'
  <2> DEFINE me == iRun[r]
  <2>1. /\ me \in Batch /\ me.pc = "look" /\ UNCHANGED <<iCancelled, iAsked, iOld, iLate>>
        /\ IF me.at > Len(me.lines) \/ me.attempted = Limit
           THEN I!Ended(r, me, IF me.sent = 0 THEN "nothing" ELSE "sent")
           ELSE IF I!IsCanceled(me.id) THEN I!Ended(r, me, "canceled")
           ELSE IF me.lines[me.at] = "bad"
           THEN I!Become(r, [me EXCEPT !.skipped = @ + 1, !.at = @ + 1])
           ELSE I!Become(r, [me EXCEPT !.attempted = @ + 1, !.pc = IF me.dry THEN "next" ELSE "send"])
    BY <1>3, <1>6 DEF I!Look, I!OnlyThinks
  <2>2. Counted(me) /\ Heeded(me, iAsked[r], iOld[r], iLate[r]) /\ iLate[r] = 0
    BY <1>3, <2>1 DEF Heeded
  <2>3. /\ me.sent \in Nat /\ me.skipped \in Nat /\ me.at \in Nat /\ Len(me.lines) \in Nat
        /\ me.sent + me.skipped + 1 = me.at /\ me.at <= Len(me.lines) + 1 /\ me.told = "none"
        /\ me.attempted \in Nat /\ me.dry \in BOOLEAN
    BY <2>1, <2>2, LinesHaveLength DEF Batch, Counted, Running
  <2> HIDE DEF me
  <2>4. CASE me.at > Len(me.lines) \/ me.attempted = Limit
    <3>1. PICK verdict \in {"sent", "nothing"} : I!Ended(r, me, verdict)
      BY <2>1, <2>4
    <3> QED
      BY <1>4, <2>1, <2>2, <2>3, <3>1 DEF Heeded, Running
  <2>5. CASE me.at <= Len(me.lines) /\ me.attempted # Limit /\ I!IsCanceled(me.id)
    <3>1. I!Ended(r, me, "canceled") /\ me.id \in iCancelled
      BY <2>1, <2>3, <2>5 DEF I!IsCanceled
    <3> QED
      BY <1>4, <2>1, <2>2, <2>3, <3>1 DEF Heeded, Running
  <2>6. CASE me.at <= Len(me.lines) /\ me.attempted # Limit /\ ~I!IsCanceled(me.id)
    <3>1. ~iAsked[r] /\ ~iOld[r] /\ me.id \notin iCancelled
      BY <2>2, <2>6 DEF Heeded, I!IsCanceled
    <3>2. CASE me.lines[me.at] = "bad"
      <4> DEFINE next == [me EXCEPT !.skipped = @ + 1, !.at = @ + 1]
      <4>1. I!Become(r, next)
        BY <2>1, <2>3, <2>6, <3>2
      <4>2. /\ next \in Batch /\ next.pc = "look" /\ next.id = me.id /\ next.lines = me.lines
            /\ next.at = me.at + 1 /\ next.sent = me.sent /\ next.skipped = me.skipped + 1
            /\ next.told = me.told
        <5>1. me.skipped + 1 \in Nat /\ me.at + 1 \in Nat
          BY <2>3
        <5> QED
          BY <2>1, <5>1 DEF Batch
      <4> HIDE DEF next
      <4>3. Counted(next)
        BY <2>3, <2>6, <4>2 DEF Counted, Running
      <4>4. Heeded(next, iAsked[r], iOld[r], iLate[r])
        BY <2>2, <2>3, <3>1, <4>2 DEF Heeded
      <4> QED
        BY <1>2, <2>1, <4>1, <4>2, <4>3, <4>4
    <3>3. CASE me.lines[me.at] # "bad"
      <4>1. PICK pc \in {"next", "send"} : I!Become(r, [me EXCEPT !.attempted = @ + 1, !.pc = pc])
        <5>1. I!Become(r, [me EXCEPT !.attempted = @ + 1, !.pc = IF me.dry THEN "next" ELSE "send"])
          BY <2>1, <2>3, <2>6, <3>3
        <5>2. (IF me.dry THEN "next" ELSE "send") \in {"next", "send"}
          BY <2>3
        <5> QED
          BY <5>1, <5>2
      <4> DEFINE next == [me EXCEPT !.attempted = @ + 1, !.pc = pc]
      <4>2. /\ next \in Batch /\ next.pc = pc /\ next.id = me.id /\ next.lines = me.lines
            /\ next.at = me.at /\ next.sent = me.sent /\ next.skipped = me.skipped
            /\ next.told = me.told
        <5>1. me.attempted + 1 \in Nat
          BY <2>3
        <5> QED
          BY <2>1, <5>1 DEF Batch, Running
      <4>3. I!Become(r, next)
        BY <4>1
      <4> HIDE DEF next
      <4>4. Counted(next)
        BY <2>3, <2>6, <4>2 DEF Counted, Running
      <4>5. Heeded(next, iAsked[r], iOld[r], iLate[r])
        BY <2>2, <2>3, <3>1, <4>2 DEF Heeded
      <4> QED
        BY <1>2, <2>1, <4>2, <4>3, <4>4, <4>5
    <3> QED
      BY <3>2, <3>3
  <2> QED
    BY <2>3, <2>4, <2>5, <2>6
<1>7. ASSUME NEW r \in Child, I!Send(r) PROVE BatchTyped' /\ BatchSafe'
  <2> DEFINE next == [iRun[r] EXCEPT !.pc = "doze", !.slept = 0]
  <2>1. /\ iRun[r] \in Batch /\ iRun[r].pc = "send" /\ UNCHANGED <<iCancelled, iAsked, iOld>>
        /\ iLate' = [iLate EXCEPT ![r] = @ + IF iAsked[r] THEN 1 ELSE 0]
        /\ I!Become(r, next)
    BY <1>3, <1>7 DEF I!Send
  <2>2. /\ next \in Batch /\ next.pc = "doze" /\ next.id = iRun[r].id
        /\ next.lines = iRun[r].lines /\ next.at = iRun[r].at /\ next.sent = iRun[r].sent
        /\ next.skipped = iRun[r].skipped /\ next.told = iRun[r].told
    BY <2>1 DEF Batch, Running
  <2> HIDE DEF next
  <2>3. Counted(iRun[r]) /\ Heeded(iRun[r], iAsked[r], iOld[r], iLate[r]) /\ iLate[r] = 0 /\ ~iOld[r]
    BY <1>3, <2>1 DEF Heeded
  <2>4. Counted(next)
    BY <2>1, <2>2, <2>3 DEF Counted, Running
  <2>5. /\ iLate' \in [Child -> Nat] /\ iLate'[r] = IF iAsked[r] THEN 1 ELSE 0
        /\ \A s \in Child : s # r => iLate'[s] = iLate[s]
    BY <2>1, <2>3 DEF BatchTyped
  <2>6. Heeded(next, iAsked[r], iOld'[r], iLate'[r])
    BY <2>1, <2>2, <2>3, <2>5 DEF Heeded, Running
  <2>7. iOld' \in [Child -> BOOLEAN] /\ \A s \in Child : s # r => iOld'[s] = iOld[s]
    BY <2>1 DEF BatchTyped
  <2> QED
    BY <1>1, <2>1, <2>2, <2>4, <2>5, <2>6, <2>7
\* The pause looks for the file before every step: a run that was asked never sends again.
<1>8. ASSUME NEW r \in Child, I!Doze(r) PROVE BatchTyped' /\ BatchSafe'
  <2> DEFINE me == iRun[r]
  <2>1. /\ me \in Batch /\ me.pc = "doze" /\ UNCHANGED <<iCancelled, iAsked, iOld, iLate>>
        /\ IF I!IsCanceled(me.id) THEN I!Ended(r, [me EXCEPT !.sent = @ + 1], "interrupted")
           ELSE IF me.slept < Pause THEN I!Become(r, [me EXCEPT !.slept = @ + 1])
           ELSE I!Become(r, [me EXCEPT !.pc = "next"])
    BY <1>3, <1>8 DEF I!Doze, I!OnlyThinks
  <2>2. Counted(me) /\ Heeded(me, iAsked[r], iOld[r], iLate[r]) /\ ~iOld[r]
    BY <1>3, <2>1 DEF Heeded
  <2>3. /\ me.sent \in Nat /\ me.skipped \in Nat /\ me.at \in Nat /\ Len(me.lines) \in Nat
        /\ me.sent + me.skipped + 1 = me.at /\ me.at <= Len(me.lines) /\ me.told = "none"
    BY <2>1, <2>2, LinesHaveLength DEF Batch, Counted, Running
  <2> HIDE DEF me
  <2>4. CASE I!IsCanceled(me.id)
    <3> DEFINE last == [me EXCEPT !.sent = @ + 1]
    <3>1. I!Ended(r, last, "interrupted") /\ me.id \in iCancelled
      BY <2>1, <2>4 DEF I!IsCanceled
    <3>2. /\ last \in Batch /\ last.pc = "doze" /\ last.id = me.id /\ last.lines = me.lines
          /\ last.at = me.at /\ last.sent = me.sent + 1 /\ last.skipped = me.skipped
      <4>1. me.sent + 1 \in Nat
        BY <2>3
      <4> QED
        BY <2>1, <4>1 DEF Batch
    <3> HIDE DEF last
    <3>3. iAsked[r] /\ (iLate[r] = 0 \/ iLate[r] = 1)
      BY <2>1, <2>2, <3>1 DEF Heeded, Running
    <3>4. last.sent + last.skipped + 1 = last.at + 1 /\ last.at <= Len(last.lines) + 1
      <4>1. (me.sent + 1) + me.skipped + 1 = me.at + 1 /\ me.at <= Len(me.lines) + 1
        BY <2>3, Sums
      <4> QED
        BY <3>2, <4>1
    <3> QED
      BY <1>4, <2>1, <2>2, <3>1, <3>2, <3>3, <3>4 DEF Running
  <2>5. CASE ~I!IsCanceled(me.id)
    <3>1. ~iAsked[r] /\ me.id \notin iCancelled /\ iLate[r] = 0
      BY <2>2, <2>5 DEF Heeded, I!IsCanceled
    <3>2. ASSUME NEW next \in Batch, next.pc \in {"doze", "next"}, next.id = me.id,
                 next.lines = me.lines, next.at = me.at, next.sent = me.sent,
                 next.skipped = me.skipped, next.told = me.told, I!Become(r, next)
          PROVE  BatchTyped' /\ BatchSafe'
      <4>1. Counted(next)
        BY <2>3, <3>2 DEF Counted, Running
      <4>2. Heeded(next, iAsked[r], iOld[r], iLate[r])
        BY <2>2, <2>3, <3>1, <3>2 DEF Heeded
      <4> QED
        BY <1>2, <2>1, <3>2, <4>1, <4>2
    <3>3. CASE me.slept < Pause
      <4> DEFINE next == [me EXCEPT !.slept = @ + 1]
      <4>1. I!Become(r, next)
        BY <2>1, <2>5, <3>3
      <4>2. /\ next \in Batch /\ next.pc = "doze" /\ next.id = me.id /\ next.lines = me.lines
            /\ next.at = me.at /\ next.sent = me.sent /\ next.skipped = me.skipped
            /\ next.told = me.told
        <5>1. me.slept + 1 \in Nat
          BY <2>1 DEF Batch
        <5> QED
          BY <2>1, <5>1 DEF Batch
      <4> HIDE DEF next
      <4> QED
        BY <3>2, <4>1, <4>2
    <3>4. CASE ~(me.slept < Pause)
      <4> DEFINE next == [me EXCEPT !.pc = "next"]
      <4>1. I!Become(r, next)
        BY <2>1, <2>5, <3>4
      <4>2. /\ next \in Batch /\ next.pc = "next" /\ next.id = me.id /\ next.lines = me.lines
            /\ next.at = me.at /\ next.sent = me.sent /\ next.skipped = me.skipped
            /\ next.told = me.told
        BY <2>1 DEF Batch, Running
      <4> HIDE DEF next
      <4> QED
        BY <3>2, <4>1, <4>2
    <3> QED
      BY <3>3, <3>4
  <2> QED
    BY <2>4, <2>5
<1>9. ASSUME NEW r \in Child, I!NextLine(r) PROVE BatchTyped' /\ BatchSafe'
  <2> DEFINE next == [iRun[r] EXCEPT !.pc = "look", !.sent = @ + 1, !.at = @ + 1]
  <2>1. /\ iRun[r] \in Batch /\ iRun[r].pc = "next" /\ I!Become(r, next)
        /\ UNCHANGED <<iCancelled, iAsked, iOld, iLate>>
    BY <1>3, <1>9 DEF I!NextLine, I!OnlyThinks
  <2>2. /\ next \in Batch /\ next.pc = "look" /\ next.id = iRun[r].id
        /\ next.lines = iRun[r].lines /\ next.at = iRun[r].at + 1 /\ next.sent = iRun[r].sent + 1
        /\ next.skipped = iRun[r].skipped /\ next.told = iRun[r].told
    <3>1. iRun[r].sent + 1 \in Nat /\ iRun[r].at + 1 \in Nat
      BY <2>1 DEF Batch
    <3> QED
      BY <2>1, <3>1 DEF Batch, Running
  <2>3. /\ Counted(iRun[r]) /\ Heeded(iRun[r], iAsked[r], iOld[r], iLate[r]) /\ ~iOld[r]
        /\ iLate[r] = 0
    BY <1>3, <2>1 DEF Heeded
  <2>4. /\ iRun[r].sent \in Nat /\ iRun[r].skipped \in Nat /\ iRun[r].at \in Nat
        /\ Len(iRun[r].lines) \in Nat
    BY <2>1, LinesHaveLength DEF Batch
  <2> HIDE DEF next
  <2>5. Counted(next)
    <3>1. /\ iRun[r].sent + iRun[r].skipped + 1 = iRun[r].at /\ iRun[r].at <= Len(iRun[r].lines)
          /\ iRun[r].told = "none"
      BY <2>1, <2>3 DEF Counted, Running
    <3>2. /\ (iRun[r].sent + 1) + iRun[r].skipped + 1 = iRun[r].at + 1
          /\ iRun[r].at + 1 <= Len(iRun[r].lines) + 1
      <4>1. PICK sent \in Nat, skipped \in Nat, at \in Nat, n \in Nat :
              /\ sent = iRun[r].sent /\ skipped = iRun[r].skipped /\ at = iRun[r].at
              /\ n = Len(iRun[r].lines)
        BY <2>4, Zenon
      <4>2. sent + skipped + 1 = at /\ at <= n
        BY <3>1, <4>1, Zenon
      <4>3. (sent + 1) + skipped + 1 = at + 1 /\ at + 1 <= n + 1
        BY <4>2, SMT
      <4> QED
        BY <4>1, <4>3, Zenon
    <3>3. /\ next.sent + next.skipped + 1 = next.at /\ next.at <= Len(next.lines) + 1
      BY <2>2, <3>2
    <3> QED
      BY <2>2, <3>1, <3>3 DEF Counted, Running
  <2>6. Heeded(next, iAsked[r], iOld[r], iLate[r])
    BY <2>1, <2>2, <2>3 DEF Heeded, Running
  <2> QED
    BY <1>2, <2>1, <2>2, <2>5, <2>6
\* Everybody who runs under the id has been asked from now on.
<1>10. ASSUME NEW id \in Id, I!Cancel(id) PROVE BatchTyped' /\ BatchSafe'
  <2>1. /\ iCancelled' = iCancelled \cup {id} /\ UNCHANGED <<iRun, iOld, iLate>>
        /\ iAsked' = [r \in Child |->
             iAsked[r] \/ (iRun[r].pc \notin {"idle", "done"} /\ iRun[r].id = id)]
    BY <1>10 DEF I!Cancel
  <2>2. BatchTyped'
    BY <2>1 DEF BatchTyped
  <2>3. ASSUME NEW r \in Child PROVE BatchAt(r)'
    <3>1. /\ Counted(iRun[r]) /\ Heeded(iRun[r], iAsked[r], iOld[r], iLate[r])
          /\ iRun[r].pc \in Running \cup {"idle", "done"}
      BY <1>3 DEF Batch
    <3>2. iAsked'[r] <=> iAsked[r] \/ (iRun[r].pc \in Running /\ iRun[r].id = id)
      BY <2>1, <3>1 DEF Running
    <3>3. Counted(iRun[r])'
      BY <2>1, <3>1 DEF Counted
    <3>4. Heeded(iRun[r], iAsked[r], iOld[r], iLate[r])'
      BY <2>1, <3>1, <3>2 DEF Heeded, Running
    <3> QED
      BY <3>3, <3>4 DEF BatchAt
  <2> QED
    BY <2>2, <2>3 DEF BatchSafe
<1>11. CASE UNCHANGED iVars
  <2>1. BatchTyped'
    BY <1>11 DEF iVars, BatchTyped
  <2>2. BatchSafe'
    BY <1>11 DEF iVars, BatchSafe, BatchAt, Counted, Heeded
  <2> QED
    BY <2>1, <2>2
<1> QED
  BY <1>5, <1>6, <1>7, <1>8, <1>9, <1>10, <1>11 DEF I!Next, I!RunStep

\* A step of the whole is a step of the batches or leaves them alone.
LEMMA BatchSteps == [Next]_vars => [I!Next]_iVars
BY DEF Next, vars, iVars, DeviceStep, ReloadStep, BatchStep, RadioStep, GuardStep, PairingStep,
       ControlStep, UpdateStep

\* CancelIsHonoured is invariant: a batch stops when it is cancelled and only then, sends at
\* most the line on its way, and reports the numbers of lines sent and skipped as they are.
THEOREM CancellingWorks == Spec => []CancelIsHonoured
<1>1. Init => BatchTyped /\ BatchSafe
  BY BatchInit DEF Init
<1>2. BatchTyped /\ BatchSafe /\ [Next]_vars => BatchTyped' /\ BatchSafe'
  BY BatchSteps, BatchNext
<1>3. BatchTyped /\ BatchSafe => CancelIsHonoured
  <2> SUFFICES ASSUME BatchTyped, BatchSafe, NEW r \in Child
               PROVE  /\ iRun[r].told \in {"canceled", "interrupted"} => iAsked[r] \/ iOld[r]
                      /\ iLate[r] <= 1
                      /\ iOld[r] => iRun[r].sent = 0
                      /\ iRun[r].pc = "done" =>
                           iRun[r].sent + iRun[r].skipped
                             = Len(iRun[r].lines) + IF iRun[r].told = "interrupted" THEN 1 ELSE 0
    BY DEF CancelIsHonoured, I!CancelIsHonoured
  <2>1. Counted(iRun[r]) /\ Heeded(iRun[r], iAsked[r], iOld[r], iLate[r])
    BY DEF BatchSafe, BatchAt
  <2>2. iLate[r] <= 1
    BY <2>1 DEF Heeded
  <2> QED
    BY <2>1, <2>2 DEF Counted, Heeded
<1> QED
  BY <1>1, <1>2, <1>3, PTL DEF Spec
-----------------------------------------------------------------------------
(* ReloadFlag. *)

\* A child that edits the device list or the activity lists.
Editor == [pc : {"idle", "rest", "flag", "sign", "done"}, kind : R!Kinds, holds : BOOLEAN]

\* The types of the children, of the flag, of the runtime and of what went wrong.
ReloadTyped ==
  /\ rCh \in [Child -> Editor]
  /\ rVersion \in Nat /\ rEngine \in Nat
  /\ rFlag \in {"none", "empty", "devices", "lists"}
  /\ rTask \in [pc : {"idle", "read", "removed"}, by : {"worker", "mqtt"},
                names : {"none", "devices", "lists"}]
  /\ rTask.pc = "idle" <=> rTask.names = "none"
  /\ rMishaps \in SUBSET R!Mishaps

\* A child that will still set the flag to "devices", or signal having set it.
WillAsk(c) ==
  /\ rCh[c].pc \in {"rest", "flag"} \/ (rCh[c].pc = "sign" /\ rCh[c].holds)
  /\ R!NamesOf(rCh[c].kind) = "devices"

\* Somebody takes care that the engine loads the device list.
OnItsWay == (\E c \in Child : WillAsk(c)) \/ rFlag = "devices" \/ rTask.names = "devices"

\* What the flag achieves as long as no request is overwritten, removed, refused or never made;
\* codexmqtt may take the flag.
Heard == R!OnlyMishaps({"mqtt"}) /\ rEngine # rVersion => OnItsWay

\* The engine starts with the device list as it is.
LEMMA ReloadInit == R!Init => ReloadTyped /\ Heard
<1> SUFFICES ASSUME R!Init PROVE ReloadTyped /\ Heard
  OBVIOUS
<1> USE DEF R!Init
<1>1. R!Idle \in Editor
  BY DEF R!Idle, Editor, R!Kinds
<1>2. /\ rTask \in [pc : {"idle", "read", "removed"}, by : {"worker", "mqtt"},
                    names : {"none", "devices", "lists"}]
      /\ rTask.pc = "idle" /\ rTask.names = "none"
  BY DEF R!Resting
<1>3. ReloadTyped
  BY <1>1, <1>2 DEF ReloadTyped
<1> QED
  BY <1>3 DEF Heard

\* Every step keeps an edit on its way: the runtime forgets the flag only with the names it
\* has read, and a child that finds it gone writes it again.
LEMMA ReloadNext == ReloadTyped /\ Heard /\ [R!Next]_rVars => ReloadTyped' /\ Heard'
<1> SUFFICES ASSUME ReloadTyped, Heard, [R!Next]_rVars PROVE ReloadTyped' /\ Heard'
  OBVIOUS
<1> USE DEF ReloadTyped
<1>1. ASSUME NEW c \in Child, NEW next \in Editor, R!Become(c, next)
      PROVE  /\ rCh' \in [Child -> Editor] /\ rCh'[c] = next
             /\ \A d \in Child : d # c => rCh'[d] = rCh[d]
  BY <1>1 DEF R!Become
<1>2. \A how \in R!Mishaps, lost \in BOOLEAN :
        R!Lose(how, lost) => rMishaps' \in SUBSET R!Mishaps /\ rMishaps \subseteq rMishaps'
                             /\ (lost => how \in rMishaps')
  BY DEF R!Lose
\* A child steps, the lists stay the same, and what it was about to ask is in the flag or lost.
<1>3. ASSUME NEW c \in Child, NEW next \in Editor, R!Become(c, next), ReloadTyped',
             UNCHANGED <<rVersion, rTask, rEngine>>, rMishaps \subseteq rMishaps',
             R!OnlyMishaps({"mqtt"})' /\ WillAsk(c) => OnItsWay',
             R!OnlyMishaps({"mqtt"})' /\ rFlag = "devices" => OnItsWay'
      PROVE  ReloadTyped' /\ Heard'
  <2> SUFFICES ASSUME R!OnlyMishaps({"mqtt"})', rEngine' # rVersion' PROVE OnItsWay'
    BY <1>3 DEF Heard
  <2>1. OnItsWay
    BY <1>3 DEF Heard, R!OnlyMishaps
  <2>2. ASSUME NEW d \in Child, WillAsk(d), d # c PROVE OnItsWay'
    BY <1>1, <1>3, <2>2 DEF OnItsWay, WillAsk
  <2> QED
    BY <1>3, <2>1, <2>2 DEF OnItsWay
<1>4. ASSUME NEW c \in Child, R!Edit(c) PROVE ReloadTyped' /\ Heard'
  <2>1. PICK k \in R!Kinds :
          /\ R!Become(c, [R!Idle EXCEPT !.pc = IF k = "bundle" THEN "rest" ELSE "flag", !.kind = k])
          /\ rVersion' = IF k = "lists" THEN rVersion ELSE rVersion + 1
    BY <1>4 DEF R!Edit
  <2> DEFINE next == [R!Idle EXCEPT !.pc = IF k = "bundle" THEN "rest" ELSE "flag", !.kind = k]
  <2>2. next \in Editor /\ next.pc \in {"rest", "flag"} /\ next.kind = k
    BY DEF R!Idle, Editor
  <2>3. /\ rCh[c].pc = "idle" /\ UNCHANGED <<rFlag, rTask, rEngine, rBusy, rUsed, rMishaps>>
        /\ R!Become(c, next)
    BY <1>4, <2>1 DEF R!Edit
  <2> HIDE DEF next
  <2>4. rCh' \in [Child -> Editor] /\ rCh'[c] = next /\ \A d \in Child : d # c => rCh'[d] = rCh[d]
    BY <1>1, <2>2, <2>3
  <2>5. ReloadTyped'
    BY <2>1, <2>3, <2>4
  <2>6. Heard'
    <3> SUFFICES ASSUME R!OnlyMishaps({"mqtt"})', rEngine' # rVersion' PROVE OnItsWay'
      BY DEF Heard
    <3>1. CASE k = "lists"
      <4>1. OnItsWay
        BY <2>1, <2>3, <3>1 DEF Heard, R!OnlyMishaps
      <4>2. ~WillAsk(c)
        BY <2>3 DEF WillAsk
      <4> QED
        BY <2>3, <2>4, <4>1, <4>2 DEF OnItsWay, WillAsk
    <3>2. CASE k # "lists"
      <4>1. WillAsk(c)'
        BY <2>2, <2>4, <3>2 DEF WillAsk, R!NamesOf
      <4> QED
        BY <4>1 DEF OnItsWay
    <3> QED
      BY <3>1, <3>2
  <2> QED
    BY <2>5, <2>6
<1>5. ASSUME NEW c \in Child, R!ImportRest(c) PROVE ReloadTyped' /\ Heard'
  <2> DEFINE next == [rCh[c] EXCEPT !.pc = "flag"]
  <2>1. /\ rCh[c] \in Editor /\ rCh[c].pc = "rest" /\ R!Become(c, next)
        /\ UNCHANGED <<rVersion, rFlag, rTask, rEngine, rMishaps>>
    BY <1>5 DEF R!ImportRest
  <2>2. next \in Editor /\ next.pc = "flag" /\ next.kind = rCh[c].kind
    BY <2>1 DEF Editor
  <2> HIDE DEF next
  <2>3. rCh' \in [Child -> Editor] /\ rCh'[c] = next
    BY <1>1, <2>1, <2>2
  <2>4. WillAsk(c) => OnItsWay'
    BY <2>2, <2>3 DEF WillAsk, OnItsWay
  <2>5. rFlag = "devices" => OnItsWay'
    BY <2>1 DEF OnItsWay
  <2>6. ReloadTyped'
    BY <2>1, <2>3
  <2> QED
    BY <1>3, <2>1, <2>2, <2>4, <2>5, <2>6
<1>6. ASSUME NEW c \in Child, R!ImportFails(c) PROVE ReloadTyped' /\ Heard'
  <2> DEFINE next == [rCh[c] EXCEPT !.pc = "done"]
  <2>1. /\ rCh[c] \in Editor /\ R!Become(c, next) /\ R!Lose("partial", TRUE)
        /\ UNCHANGED <<rVersion, rFlag, rTask, rEngine>>
    BY <1>6 DEF R!ImportFails
  <2>2. next \in Editor
    BY <2>1 DEF Editor
  <2> HIDE DEF next
  <2>3. rMishaps' \in SUBSET R!Mishaps /\ "partial" \in rMishaps'
    BY <1>2, <2>1 DEF R!Mishaps
  <2>4. ~R!OnlyMishaps({"mqtt"})'
    BY <2>3 DEF R!OnlyMishaps
  <2>5. ReloadTyped'
    BY <1>1, <2>1, <2>2, <2>3
  <2> QED
    BY <2>4, <2>5 DEF Heard
<1>7. ASSUME NEW c \in Child, R!OpenFlag(c) PROVE ReloadTyped' /\ Heard'
  <2> DEFINE next == [rCh[c] EXCEPT !.pc = "sign", !.holds = TRUE]
  <2>1. /\ rCh[c] \in Editor /\ rCh[c].pc = "flag" /\ R!Become(c, next) /\ rFlag' = "empty"
        /\ R!Lose("overwritten", rFlag = "devices" /\ R!NamesOf(rCh[c].kind) = "lists")
        /\ UNCHANGED <<rVersion, rTask, rEngine>>
    BY <1>7 DEF R!OpenFlag
  <2>2. next \in Editor /\ next.pc = "sign" /\ next.holds /\ next.kind = rCh[c].kind
    BY <2>1 DEF Editor
  <2> HIDE DEF next
  <2>3. /\ rMishaps' \in SUBSET R!Mishaps /\ rMishaps \subseteq rMishaps'
        /\ rFlag = "devices" /\ R!NamesOf(rCh[c].kind) = "lists" => "overwritten" \in rMishaps'
    BY <1>2, <2>1 DEF R!Mishaps
  <2>4. rCh' \in [Child -> Editor] /\ rCh'[c] = next
    BY <1>1, <2>1, <2>2
  <2>5. ReloadTyped'
    BY <2>1, <2>3, <2>4
  <2>6. R!NamesOf(rCh[c].kind) # "lists" => OnItsWay'
    BY <2>2, <2>4 DEF OnItsWay, WillAsk, R!NamesOf
  <2>7. R!OnlyMishaps({"mqtt"})' => "overwritten" \notin rMishaps'
    BY DEF R!OnlyMishaps
  <2> QED
    BY <1>3, <2>1, <2>2, <2>3, <2>5, <2>6, <2>7 DEF WillAsk
<1>8. ASSUME NEW c \in Child, R!OpenFlagFails(c) PROVE ReloadTyped' /\ Heard'
  <2> DEFINE next == [rCh[c] EXCEPT !.pc = "done"]
  <2>1. /\ rCh[c] \in Editor /\ R!Become(c, next)
        /\ R!Lose("partial", R!NamesOf(rCh[c].kind) = "devices")
        /\ UNCHANGED <<rVersion, rFlag, rTask, rEngine>>
    BY <1>8 DEF R!OpenFlagFails
  <2>2. next \in Editor
    BY <2>1 DEF Editor
  <2> HIDE DEF next
  <2>3. /\ rMishaps' \in SUBSET R!Mishaps /\ rMishaps \subseteq rMishaps'
        /\ R!NamesOf(rCh[c].kind) = "devices" => "partial" \in rMishaps'
    BY <1>2, <2>1 DEF R!Mishaps
  <2>4. ReloadTyped'
    BY <1>1, <2>1, <2>2, <2>3
  <2>5. R!OnlyMishaps({"mqtt"})' => ~WillAsk(c)
    BY <2>3 DEF R!OnlyMishaps, WillAsk
  <2>6. rFlag = "devices" => OnItsWay'
    BY <2>1 DEF OnItsWay
  <2> QED
    BY <1>3, <2>1, <2>2, <2>3, <2>4, <2>5, <2>6
<1>9. ASSUME NEW c \in Child, R!SignFlag(c) PROVE ReloadTyped' /\ Heard'
  <2> DEFINE next == [rCh[c] EXCEPT !.pc = "done", !.holds = FALSE]
             names == R!NamesOf(rCh[c].kind)
  <2>1. /\ rCh[c] \in Editor /\ rCh[c].pc = "sign" /\ R!Become(c, next)
        /\ rFlag' = IF rCh[c].holds THEN names ELSE rFlag
        /\ R!Lose("overwritten", rCh[c].holds /\ rFlag = "devices" /\ names = "lists")
        /\ UNCHANGED <<rVersion, rTask, rEngine>>
    BY <1>9 DEF R!SignFlag
  <2>2. next \in Editor
    BY <2>1 DEF Editor
  <2>3. names \in {"devices", "lists"} /\ rCh[c].holds \in BOOLEAN
    BY <2>1 DEF R!NamesOf, Editor
  <2> HIDE DEF next, names
  <2>4. /\ rMishaps' \in SUBSET R!Mishaps /\ rMishaps \subseteq rMishaps'
        /\ rCh[c].holds /\ rFlag = "devices" /\ names = "lists" => "overwritten" \in rMishaps'
    BY <1>2, <2>1, <2>3 DEF R!Mishaps
  <2>5. ReloadTyped'
    BY <1>1, <2>1, <2>2, <2>3, <2>4
  <2>6. WillAsk(c) => OnItsWay'
    BY <2>1 DEF WillAsk, OnItsWay, names
  <2>7. rFlag = "devices" => OnItsWay' \/ "overwritten" \in rMishaps'
    BY <2>1, <2>3, <2>4 DEF OnItsWay
  <2>8. R!OnlyMishaps({"mqtt"})' => "overwritten" \notin rMishaps'
    BY DEF R!OnlyMishaps
  <2> QED
    BY <1>3, <2>1, <2>2, <2>4, <2>5, <2>6, <2>7, <2>8
\* The task that read the flag knows of the devices, if anybody had asked for them.
<1>10. ASSUME R!WorkerReadsFlag \/ R!MqttReadsFlag PROVE ReloadTyped' /\ Heard'
  <2>1. PICK by \in {"worker", "mqtt"} : R!FlagIsRead(by)
    BY <1>10 DEF R!WorkerReadsFlag, R!MqttReadsFlag
  <2>2. /\ rTask.pc = "idle" /\ rFlag # "none"
        /\ rTask' = [pc |-> "read", by |-> by,
                     names |-> IF rFlag = "empty" THEN "devices" ELSE rFlag]
        /\ UNCHANGED <<rCh, rVersion, rFlag, rEngine, rMishaps>>
    BY <2>1 DEF R!FlagIsRead
  <2>3. ReloadTyped'
    BY <2>2
  <2>4. rTask.names = "none"
    BY <2>2
  <2>5. OnItsWay => OnItsWay'
    BY <2>2, <2>4 DEF OnItsWay, WillAsk
  <2> QED
    BY <2>2, <2>3, <2>5 DEF Heard, R!OnlyMishaps
\* What goes with the flag is in the task, or it is counted as removed.
<1>11. ASSUME R!RemoveFlag PROVE ReloadTyped' /\ Heard'
  <2>1. /\ rTask.pc = "read" /\ rFlag' = "none" /\ rTask' = [rTask EXCEPT !.pc = "removed"]
        /\ rCh' = [c \in Child |-> [rCh[c] EXCEPT !.holds = FALSE]]
        /\ R!Lose("removed", rTask.names = "lists" /\
             (rFlag = "devices" \/ \E c \in Child : rCh[c].holds /\ R!NamesOf(rCh[c].kind) = "devices"))
        /\ UNCHANGED <<rVersion, rEngine>>
    BY <1>11 DEF R!RemoveFlag
  <2>2. /\ rMishaps' \in SUBSET R!Mishaps /\ rMishaps \subseteq rMishaps'
        /\ rTask.names = "lists" /\
             (rFlag = "devices" \/ \E c \in Child : rCh[c].holds /\ R!NamesOf(rCh[c].kind) = "devices")
           => "removed" \in rMishaps'
    BY <1>2, <2>1 DEF R!Mishaps
  <2>3. rTask'.names = rTask.names /\ rTask'.pc = "removed" /\ rTask.names \in {"devices", "lists"}
        /\ rTask' \in [pc : {"idle", "read", "removed"}, by : {"worker", "mqtt"},
                       names : {"none", "devices", "lists"}]
    BY <2>1
  <2>4. \A c \in Child : /\ [rCh[c] EXCEPT !.holds = FALSE] \in Editor
                         /\ [rCh[c] EXCEPT !.holds = FALSE].pc = rCh[c].pc
                         /\ [rCh[c] EXCEPT !.holds = FALSE].kind = rCh[c].kind
    BY DEF Editor
  <2>5. /\ rCh' \in [Child -> Editor]
        /\ \A c \in Child : rCh'[c].pc = rCh[c].pc /\ rCh'[c].kind = rCh[c].kind
    BY <2>1, <2>4
  <2>6. ReloadTyped'
    BY <2>1, <2>2, <2>3, <2>5
  <2>7. Heard'
    <3> SUFFICES ASSUME R!OnlyMishaps({"mqtt"})', rEngine' # rVersion' PROVE OnItsWay'
      BY DEF Heard
    <3>1. OnItsWay
      BY <2>1, <2>2 DEF Heard, R!OnlyMishaps
    <3>2. CASE rTask.names = "devices"
      BY <2>3, <3>2 DEF OnItsWay
    <3>3. CASE rTask.names = "lists"
      <4>1. "removed" \notin rMishaps'
        BY DEF R!OnlyMishaps
      <4>2. PICK c \in Child : WillAsk(c)
        BY <2>2, <3>1, <3>3, <4>1 DEF OnItsWay
      <4>3. rCh[c].pc \in {"rest", "flag"}
        BY <2>2, <3>3, <4>1, <4>2 DEF WillAsk
      <4>4. WillAsk(c)'
        BY <2>5, <4>2, <4>3 DEF WillAsk
      <4> QED
        BY <4>4 DEF OnItsWay
    <3> QED
      BY <2>3, <3>2, <3>3
  <2> QED
    BY <2>6, <2>7
<1>12. ASSUME R!Reload PROVE ReloadTyped' /\ Heard'
  <2>1. /\ rEngine' = (IF rTask.names = "devices" THEN rVersion ELSE rEngine) /\ rTask' = R!Resting
        /\ R!Lose("mqtt", rTask.by = "mqtt") /\ UNCHANGED <<rCh, rVersion, rFlag>>
    BY <1>12 DEF R!Reload
  <2>2. /\ R!Resting \in [pc : {"idle", "read", "removed"}, by : {"worker", "mqtt"},
                          names : {"none", "devices", "lists"}]
        /\ R!Resting.pc = "idle" /\ R!Resting.names = "none"
    BY DEF R!Resting
  <2>3. rMishaps' \in SUBSET R!Mishaps /\ rMishaps \subseteq rMishaps'
    BY <1>2, <2>1 DEF R!Mishaps
  <2>4. ReloadTyped'
    BY <2>1, <2>2, <2>3
  <2>5. Heard'
    <3> SUFFICES ASSUME R!OnlyMishaps({"mqtt"})', rEngine' # rVersion' PROVE OnItsWay'
      BY DEF Heard
    <3>1. rTask.names # "devices" /\ rEngine # rVersion
      BY <2>1
    <3>2. OnItsWay
      BY <2>3, <3>1 DEF Heard, R!OnlyMishaps
    <3> QED
      BY <2>1, <3>1, <3>2 DEF OnItsWay, WillAsk
  <2> QED
    BY <2>4, <2>5
<1>13. ASSUME R!ReloadIsRefused PROVE ReloadTyped' /\ Heard'
  <2>1. rTask' = R!Resting /\ R!Lose("refused", TRUE) /\ UNCHANGED <<rCh, rVersion, rFlag, rEngine>>
    BY <1>13 DEF R!ReloadIsRefused
  <2>2. /\ R!Resting \in [pc : {"idle", "read", "removed"}, by : {"worker", "mqtt"},
                          names : {"none", "devices", "lists"}]
        /\ R!Resting.pc = "idle" /\ R!Resting.names = "none"
    BY DEF R!Resting
  <2>3. rMishaps' \in SUBSET R!Mishaps /\ "refused" \in rMishaps'
    BY <1>2, <2>1 DEF R!Mishaps
  <2>4. ReloadTyped'
    BY <2>1, <2>2, <2>3
  <2>5. ~R!OnlyMishaps({"mqtt"})'
    BY <2>3 DEF R!OnlyMishaps
  <2> QED
    BY <2>4, <2>5 DEF Heard
<1>14. CASE R!SyncBegins \/ R!SyncEnds \/ UNCHANGED rVars
  <2>1. UNCHANGED <<rCh, rVersion, rFlag, rTask, rEngine, rMishaps>>
    BY <1>14 DEF R!SyncBegins, R!SyncEnds, rVars
  <2>2. ReloadTyped'
    BY <2>1
  <2>3. OnItsWay => OnItsWay'
    BY <2>1 DEF OnItsWay, WillAsk
  <2> QED
    BY <2>1, <2>2, <2>3 DEF Heard, R!OnlyMishaps
<1> QED
  BY <1>4, <1>5, <1>6, <1>7, <1>8, <1>9, <1>10, <1>11, <1>12, <1>13, <1>14
     DEF R!Next, R!ChildStep, R!RuntimeWorks

\* A step of the whole is a step of the reload flag or leaves it alone.
LEMMA ReloadSteps == [Next]_vars => [R!Next]_rVars
BY DEF Next, vars, rVars, DeviceStep, ReloadStep, BatchStep, RadioStep, GuardStep, PairingStep,
       ControlStep, UpdateStep

\* StaleIsOnItsWay is invariant: while the engine has not loaded the latest device list, a
\* child, the flag or the runtime still takes care of it, unless a request was overwritten or
\* removed by one for activity lists, refused by the engine, or never made.
THEOREM EditsAreHeard == Spec => []StaleIsOnItsWay
<1>1. Init => ReloadTyped /\ Heard
  BY ReloadInit DEF Init
<1>2. ReloadTyped /\ Heard /\ [Next]_vars => ReloadTyped' /\ Heard'
  BY ReloadSteps, ReloadNext
<1>3. ReloadTyped /\ Heard => StaleIsOnItsWay
  BY DEF ReloadTyped, Heard, OnItsWay, WillAsk, StaleIsOnItsWay, R!StaleIsOnItsWay
<1> QED
  BY <1>1, <1>2, <1>3, PTL DEF Spec
-----------------------------------------------------------------------------
(* HidControl. *)

\* The types of the channels, of the hosts that wait and of the reply.
ControlTyped ==
  /\ hChans \in [Peer -> SUBSET H!Channel]
  /\ hAsks \in [Peer -> SUBSET H!Ask]
  /\ hReply \in {"none", "right", "wrong", "missed"}

\* The HID control channels of a host, and the requests for one.
HidChans(p) == H!Hid(hChans[p])
HidAsks(p) == H!Hid(hAsks[p])

\* One host is engaged at a time.
OneHost == \A p, d \in Peer : H!Engaged(p) /\ H!Engaged(d) => p = d

\* A host has one control channel.
OneChannel == \A p \in Peer : \A c, e \in HidChans(p) : c = e

\* The id that the agent remembers of the end that asked.
Remembered(ask) == IF ask.by = "hub" THEN hLocalCid ELSE hRemoteCid

\* The agent knows the control channel of the host, and the one that is asked for.
Known ==
  \A p \in Peer :
    /\ \A c \in HidChans(p) : c.local = hLocalCid /\ c.remote = hRemoteCid
    /\ HidChans(p) = {} => \A a \in HidAsks(p) : a.cid = Remembered(a)

\* What the guard knows as long as nothing happens that its author ruled out.
Followed ==
  hMishaps = {} => hReply \in {"none", "right"} /\ OneHost /\ OneChannel /\ Known

\* No host is connected at the start.
LEMMA ControlInit == H!Init => ControlTyped /\ Followed
<1> SUFFICES ASSUME H!Init PROVE ControlTyped /\ Followed
  OBVIOUS
<1> USE DEF H!Init
<1>1. \A p \in Peer : hChans[p] = {} /\ hAsks[p] = {}
  OBVIOUS
<1>2. \A p \in Peer : HidChans(p) = {} /\ HidAsks(p) = {} /\ ~H!Engaged(p)
  BY <1>1 DEF HidChans, HidAsks, H!Hid, H!Engaged
<1>3. ControlTyped
  BY DEF ControlTyped
<1> QED
  BY <1>2, <1>3 DEF Followed, OneHost, OneChannel, Known

\* A step that changes no control channel, no request for one and no id that is remembered
\* leaves the agent as informed as it was.
LEMMA SameControl ==
  ASSUME \A p \in Peer : UNCHANGED <<HidChans(p), HidAsks(p)>>,
         UNCHANGED <<hLocalCid, hRemoteCid>>
  PROVE  (OneHost => OneHost') /\ (OneChannel => OneChannel') /\ (Known => Known')
<1>1. \A p \in Peer : UNCHANGED H!Engaged(p)
  BY DEF H!Engaged, HidChans, HidAsks
<1>2. \A ask : UNCHANGED Remembered(ask)
  BY DEF Remembered
<1> QED
  BY <1>1, <1>2 DEF OneHost, OneChannel, Known

\* Every step keeps the agent informed: it sees every request and response pass.
LEMMA ControlNext == ControlTyped /\ Followed /\ [H!Next]_hVars => ControlTyped' /\ Followed'
<1> SUFFICES ASSUME ControlTyped, Followed, [H!Next]_hVars PROVE ControlTyped' /\ Followed'
  OBVIOUS
<1> USE ControlAssumption
<1>1. \A p \in Peer : hChans[p] \in SUBSET H!Channel /\ hAsks[p] \in SUBSET H!Ask
  BY DEF ControlTyped
<1> DEFINE Fine == hReply \in {"none", "right"} /\ OneHost /\ OneChannel /\ Known
\* A request for a control channel while nothing is open, and nobody else asks; or for another.
<1>2. ASSUME NEW p \in Peer, NEW ask \in H!Ask, H!Requests(p, ask),
             ask.psm = "hid" => /\ ask.by = "hub" => hLocalCid' = ask.cid /\ UNCHANGED hRemoteCid
                                /\ ask.by = "peer" => hRemoteCid' = ask.cid /\ UNCHANGED hLocalCid,
             ask.psm # "hid" => UNCHANGED <<hLocalCid, hRemoteCid>>
      PROVE  ControlTyped' /\ Followed'
  <2>1. /\ UNCHANGED <<hChans, hReply>> /\ \A a \in H!Asked(p, ask.by) : a.psm # ask.psm
        /\ hAsks' = [hAsks EXCEPT ![p] = @ \cup {ask}]
        /\ hMishaps' = hMishaps \cup {m \in {"second"} : ask.psm = "hid" /\ H!Second(p)}
    BY <1>2 DEF H!Requests
  <2>2. /\ hAsks' \in [Peer -> SUBSET H!Ask] /\ hAsks'[p] = hAsks[p] \cup {ask}
        /\ \A d \in Peer : d # p => hAsks'[d] = hAsks[d]
    BY <1>2, <2>1 DEF ControlTyped
  <2>3. ControlTyped'
    BY <2>1, <2>2 DEF ControlTyped
  <2>4. /\ \A d \in Peer : HidChans(d)' = HidChans(d)
        /\ \A d \in Peer : d # p => HidAsks(d)' = HidAsks(d)
        /\ HidAsks(p)' = IF ask.psm = "hid" THEN HidAsks(p) \cup {ask} ELSE HidAsks(p)
    BY <2>1, <2>2 DEF HidChans, HidAsks, H!Hid
  <2>5. ASSUME hMishaps' = {} PROVE Fine'
    <3>1. Fine /\ (ask.psm = "hid" => ~H!Second(p))
      BY <2>1, <2>5 DEF Followed
    <3>2. CASE ask.psm # "hid"
      BY <1>2, <2>1, <2>4, <3>1, <3>2, SameControl
    <3>3. CASE ask.psm = "hid"
      <4>1. \A d \in Peer : HidChans(d) = {} /\ (d # p => HidAsks(d) = {})
        BY <3>1, <3>3 DEF H!Second, HidChans, HidAsks
      <4>2. \A d \in Peer : HidChans(d)' = {} /\ (d # p => HidAsks(d)' = {})
        BY <2>4, <4>1
      <4>3. OneHost'
        BY <4>2 DEF OneHost, H!Engaged, HidChans, HidAsks
      <4>4. OneChannel'
        BY <4>2 DEF OneChannel
      <4>5. \A a \in H!Ask : a.by \in {"hub", "peer"}
        BY DEF H!Ask
      <4>6. ask.cid = Remembered(ask)'
        BY <1>2, <3>3, <4>5 DEF Remembered
      <4>7. ASSUME NEW a \in HidAsks(p) PROVE a.cid = Remembered(a)'
        <5>1. a \in hAsks[p] /\ a.psm = "hid"
          BY DEF HidAsks, H!Hid
        <5>2. a.by \in {"hub", "peer"} /\ a.by # ask.by
          BY <1>1, <2>1, <3>3, <4>5, <5>1 DEF H!Asked
        <5>3. a.cid = Remembered(a)
          BY <3>1, <4>1 DEF Known
        <5> QED
          BY <1>2, <3>3, <4>5, <5>2, <5>3 DEF Remembered
      <4>8. Known'
        BY <2>4, <3>3, <4>2, <4>6, <4>7 DEF Known
      <4> QED
        BY <2>1, <3>1, <4>3, <4>4, <4>8
    <3> QED
      BY <3>2, <3>3
  <2> QED
    BY <2>3, <2>5 DEF Followed
\* The response to a request for a control channel: the agent knows the id of the end that asked,
\* and learns the other one. The response to any other request has no id that it remembers.
<1>3. ASSUME NEW p \in Peer, NEW ask \in hAsks[p], NEW opened \in SUBSET H!Channel,
             \A c \in opened : c.psm = ask.psm,
             H!Responds(p, ask, opened, Remembered(ask)),
             opened = {} \/ ask.cid # Remembered(ask) => UNCHANGED <<hLocalCid, hRemoteCid>>,
             opened # {} /\ ask.cid = Remembered(ask) =>
               opened = {[local |-> hLocalCid', remote |-> hRemoteCid', psm |-> ask.psm]}
      PROVE  ControlTyped' /\ Followed'
  <2>1. /\ hAsks' = [hAsks EXCEPT ![p] = @ \ {ask}]
        /\ hChans' = [hChans EXCEPT ![p] = @ \cup opened]
        /\ opened # {} /\ hMishaps' = {} =>
             /\ ask.psm = "hid" => HidChans(p) = {}
             /\ ask.psm # "hid" /\ ask.cid = Remembered(ask) => \A d \in Peer : ~H!Engaged(d)
        /\ hMishaps' = {} => hMishaps = {}
        /\ UNCHANGED hReply
    BY <1>3 DEF H!Responds, H!Confused, HidChans
  <2>2. /\ hAsks' \in [Peer -> SUBSET H!Ask] /\ hChans' \in [Peer -> SUBSET H!Channel]
        /\ hAsks'[p] = hAsks[p] \ {ask} /\ hChans'[p] = hChans[p] \cup opened
        /\ \A d \in Peer : d # p => hAsks'[d] = hAsks[d] /\ hChans'[d] = hChans[d]
    BY <1>3, <2>1 DEF ControlTyped
  <2>3. ControlTyped'
    BY <2>1, <2>2 DEF ControlTyped
  <2>4. /\ \A d \in Peer : d # p => HidChans(d)' = HidChans(d) /\ HidAsks(d)' = HidAsks(d)
        /\ HidAsks(p)' = HidAsks(p) \ {ask}
        /\ HidChans(p)' = IF ask.psm = "hid" THEN HidChans(p) \cup opened ELSE HidChans(p)
        /\ ask.psm # "hid" => HidAsks(p)' = HidAsks(p)
        /\ ask.psm = "hid" => ask \in HidAsks(p)
    BY <1>3, <2>2 DEF HidChans, HidAsks, H!Hid
  <2>5. ASSUME hMishaps' = {} PROVE Fine'
    <3>1. Fine
      BY <2>1, <2>5 DEF Followed
    <3>2. CASE opened = {}
      <4>1. /\ \A d \in Peer : HidChans(d)' = HidChans(d) /\ HidAsks(d)' \subseteq HidAsks(d)
            /\ UNCHANGED <<hLocalCid, hRemoteCid>>
        BY <1>3, <2>4, <3>2
      <4>2. \A d \in Peer : H!Engaged(d)' => H!Engaged(d)
        BY <4>1 DEF H!Engaged, HidChans, HidAsks
      <4>3. OneHost' /\ OneChannel'
        BY <3>1, <4>1, <4>2 DEF OneHost, OneChannel
      <4>4. \A a : Remembered(a)' = Remembered(a)
        BY <4>1 DEF Remembered
      <4>5. Known'
        BY <3>1, <4>1, <4>4 DEF Known
      <4> QED
        BY <2>1, <3>1, <4>3, <4>5
    <3>3. CASE opened # {} /\ ask.psm = "hid"
      <4>1. HidChans(p) = {} /\ ask \in HidAsks(p)
        BY <2>1, <2>4, <2>5, <3>3
      <4>2. ask.cid = Remembered(ask)
        BY <3>1, <4>1 DEF Known
      <4>3. HidChans(p)' = {[local |-> hLocalCid', remote |-> hRemoteCid', psm |-> ask.psm]}
        BY <1>3, <2>4, <3>3, <4>1, <4>2
      <4>4. /\ \A c \in HidChans(p)' : c.local = hLocalCid' /\ c.remote = hRemoteCid'
            /\ \A c, e \in HidChans(p)' : c = e
            /\ HidChans(p)' # {}
        BY <4>3
      <4>5. H!Engaged(p)
        BY <4>1 DEF H!Engaged, HidAsks
      <4>6. \A d \in Peer : d # p => HidChans(d) = {} /\ HidAsks(d) = {}
        BY <3>1, <4>5 DEF OneHost, H!Engaged, HidChans, HidAsks
      <4>7. \A d \in Peer : d # p => HidChans(d)' = {} /\ HidAsks(d)' = {}
        BY <2>4, <4>6
      <4>8. OneHost'
        BY <4>7 DEF OneHost, H!Engaged, HidChans, HidAsks
      <4>9. OneChannel' /\ Known'
        BY <4>4, <4>7 DEF OneChannel, Known
      <4> QED
        BY <2>1, <3>1, <4>8, <4>9
    <3>4. CASE opened # {} /\ ask.psm # "hid"
      <4>1. \A d \in Peer : UNCHANGED <<HidChans(d), HidAsks(d)>>
        BY <2>4, <3>4
      <4>2. CASE ask.cid # Remembered(ask)
        BY <1>3, <2>1, <3>1, <4>1, <4>2, SameControl
      <4>3. CASE ask.cid = Remembered(ask)
        <5>1. \A d \in Peer : ~H!Engaged(d)
          BY <2>1, <2>5, <3>4, <4>3
        <5>2. \A d \in Peer : HidChans(d)' = {} /\ HidAsks(d)' = {}
          BY <4>1, <5>1 DEF H!Engaged, HidChans, HidAsks
        <5>3. OneHost'
          BY <5>2 DEF OneHost, H!Engaged, HidChans, HidAsks
        <5>4. OneChannel' /\ Known'
          BY <5>2 DEF OneChannel, Known
        <5> QED
          BY <2>1, <3>1, <5>3, <5>4
      <4> QED
        BY <4>2, <4>3
    <3> QED
      BY <3>2, <3>3, <3>4
  <2> QED
    BY <2>3, <2>5 DEF Followed
<1>4. ASSUME NEW p \in Peer, H!PeerRequests(p) PROVE ControlTyped' /\ Followed'
  <2>1. PICK r \in H!FreePeerCids(p), psm \in Opens[p] :
          /\ H!Requests(p, [by |-> "peer", cid |-> r, psm |-> psm])
          /\ hRemoteCid' = IF psm = "hid" THEN r ELSE hRemoteCid
          /\ UNCHANGED hLocalCid
    BY <1>4 DEF H!PeerRequests
  <2>2. [by |-> "peer", cid |-> r, psm |-> psm] \in H!Ask
    BY DEF H!FreePeerCids, H!Ask, H!Psm
  <2> QED
    BY <1>2, <2>1, <2>2
<1>5. ASSUME NEW p \in Peer, H!HubRequests(p) PROVE ControlTyped' /\ Followed'
  <2>1. PICK l \in H!FreeHubCids(p), psm \in Opens[p] :
          /\ H!Requests(p, [by |-> "hub", cid |-> l, psm |-> psm])
          /\ hLocalCid' = IF psm = "hid" THEN l ELSE hLocalCid
          /\ UNCHANGED hRemoteCid
    BY <1>5 DEF H!HubRequests
  <2>2. [by |-> "hub", cid |-> l, psm |-> psm] \in H!Ask
    BY DEF H!FreeHubCids, H!Ask, H!Psm
  <2> QED
    BY <1>2, <2>1, <2>2
<1>6. ASSUME NEW p \in Peer, H!HubResponds(p) PROVE ControlTyped' /\ Followed'
  <2>1. PICK ask \in H!Asked(p, "peer"), l \in H!FreeHubCids(p), ok \in BOOLEAN :
          /\ H!Responds(p, ask, IF ok THEN {[local |-> l, remote |-> ask.cid, psm |-> ask.psm]} ELSE {}, hRemoteCid)
          /\ hLocalCid' = IF ok /\ ask.cid = hRemoteCid THEN l ELSE hLocalCid
          /\ UNCHANGED hRemoteCid
    BY <1>6 DEF H!HubResponds
  <2>2. ask \in hAsks[p] /\ ask.by = "peer" /\ l \in HubCid
    BY DEF H!Asked, H!FreeHubCids
  <2>3. ask.cid \in PeerCid /\ ask.psm \in H!Psm
    BY <1>1, <2>2 DEF H!Ask
  <2>4. Remembered(ask) = hRemoteCid
    BY <2>2 DEF Remembered
  <2>5. CASE ok
    <3> DEFINE opened == {[local |-> l, remote |-> ask.cid, psm |-> ask.psm]}
    <3>1. opened \in SUBSET H!Channel /\ opened # {} /\ \A c \in opened : c.psm = ask.psm
      BY <2>2, <2>3 DEF H!Channel
    <3>2. H!Responds(p, ask, opened, Remembered(ask))
      BY <2>1, <2>4, <2>5
    <3>3. ask.cid # Remembered(ask) => UNCHANGED <<hLocalCid, hRemoteCid>>
      BY <2>1, <2>4
    <3>4. ask.cid = Remembered(ask) =>
            opened = {[local |-> hLocalCid', remote |-> hRemoteCid', psm |-> ask.psm]}
      BY <2>1, <2>4, <2>5
    <3> HIDE DEF opened
    <3> QED
      BY <1>3, <2>2, <3>1, <3>2, <3>3, <3>4
  <2>6. CASE ~ok
    <3>1. H!Responds(p, ask, {}, Remembered(ask)) /\ UNCHANGED <<hLocalCid, hRemoteCid>>
      BY <2>1, <2>4, <2>6
    <3> QED
      BY <1>3, <2>2, <3>1
  <2> QED
    BY <2>5, <2>6
<1>7. ASSUME NEW p \in Peer, H!PeerResponds(p) PROVE ControlTyped' /\ Followed'
  <2>1. PICK ask \in H!Asked(p, "hub"), r \in H!FreePeerCids(p), ok \in BOOLEAN :
          /\ H!Responds(p, ask, IF ok THEN {[local |-> ask.cid, remote |-> r, psm |-> ask.psm]} ELSE {}, hLocalCid)
          /\ hRemoteCid' = IF ok /\ ask.cid = hLocalCid THEN r ELSE hRemoteCid
          /\ UNCHANGED hLocalCid
    BY <1>7 DEF H!PeerResponds
  <2>2. ask \in hAsks[p] /\ ask.by = "hub" /\ r \in PeerCid
    BY DEF H!Asked, H!FreePeerCids
  <2>3. ask.cid \in HubCid /\ ask.psm \in H!Psm
    BY <1>1, <2>2 DEF H!Ask
  <2>4. Remembered(ask) = hLocalCid
    BY <2>2 DEF Remembered
  <2>5. CASE ok
    <3> DEFINE opened == {[local |-> ask.cid, remote |-> r, psm |-> ask.psm]}
    <3>1. opened \in SUBSET H!Channel /\ opened # {} /\ \A c \in opened : c.psm = ask.psm
      BY <2>2, <2>3 DEF H!Channel
    <3>2. H!Responds(p, ask, opened, Remembered(ask))
      BY <2>1, <2>4, <2>5
    <3>3. ask.cid # Remembered(ask) => UNCHANGED <<hLocalCid, hRemoteCid>>
      BY <2>1, <2>4
    <3>4. ask.cid = Remembered(ask) =>
            opened = {[local |-> hLocalCid', remote |-> hRemoteCid', psm |-> ask.psm]}
      BY <2>1, <2>4, <2>5
    <3> HIDE DEF opened
    <3> QED
      BY <1>3, <2>2, <3>1, <3>2, <3>3, <3>4
  <2>6. CASE ~ok
    <3>1. H!Responds(p, ask, {}, Remembered(ask)) /\ UNCHANGED <<hLocalCid, hRemoteCid>>
      BY <2>1, <2>4, <2>6
    <3> QED
      BY <1>3, <2>2, <3>1
  <2> QED
    BY <2>5, <2>6
<1>8. ASSUME NEW p \in Peer, H!GetReport(p) PROVE ControlTyped' /\ Followed'
  <2>1. PICK c \in HidChans(p) :
          /\ hReply' = IF hMishaps = {} THEN H!Reply(c) ELSE hReply
          /\ UNCHANGED <<hChans, hAsks, hLocalCid, hRemoteCid, hMishaps>>
    BY <1>8 DEF H!GetReport, HidChans
  <2>2. ControlTyped'
    <3>1. hReply' \in {"none", "right", "wrong", "missed"}
      BY <2>1 DEF ControlTyped, H!Reply
    <3> QED
      BY <2>1, <3>1 DEF ControlTyped
  <2>3. ASSUME hMishaps' = {} PROVE Fine'
    <3>1. Fine
      BY <2>1, <2>3 DEF Followed
    <3>2. c \in hChans[p]
      BY DEF HidChans, H!Hid
    <3>3. c.local = hLocalCid /\ c.remote = hRemoteCid /\ c.remote \in PeerCid
      BY <1>1, <3>1, <3>2 DEF Known, H!Channel
    <3>4. hReply' = "right"
      BY <2>1, <2>3, <3>3 DEF H!Reply, H!None
    <3>5. \A d \in Peer : UNCHANGED <<HidChans(d), HidAsks(d)>>
      BY <2>1 DEF HidChans, HidAsks
    <3> QED
      BY <2>1, <3>1, <3>4, <3>5, SameControl
  <2> QED
    BY <2>2, <2>3 DEF Followed
\* What is left is nothing at all, or the agent may have lost track, or it lost another channel.
<1>9. ASSUME NEW cs \in [Peer -> SUBSET H!Channel], NEW as \in [Peer -> SUBSET H!Ask], H!Left(cs, as),
             hMishaps = {} =>
               \/ \A d \in Peer : H!Hid(cs[d]) = {} /\ H!Hid(as[d]) = {}
               \/ \E d \in Peer : HidChans(d) # H!Hid(cs[d]) /\ H!Hid(as[d]) # {}
               \/ \A d \in Peer : HidChans(d) = H!Hid(cs[d]) /\ HidAsks(d) = H!Hid(as[d])
      PROVE  ControlTyped' /\ Followed'
  <2> DEFINE over == \A d \in Peer : H!Hid(cs[d]) = {} /\ H!Hid(as[d]) = {}
             early == \E d \in Peer : HidChans(d) # H!Hid(cs[d]) /\ H!Hid(as[d]) # {}
  <2>1. /\ hChans' = cs /\ hAsks' = as
        /\ hMishaps' = (IF over THEN {} ELSE hMishaps \cup IF early THEN {"second"} ELSE {})
        /\ hReply' = (IF over THEN "none" ELSE hReply)
        /\ UNCHANGED <<hLocalCid, hRemoteCid>>
    BY <1>9 DEF H!Left, HidChans
  <2>2. ControlTyped'
    BY <1>9, <2>1 DEF ControlTyped
  <2>3. \A d \in Peer : HidChans(d)' = H!Hid(cs[d]) /\ HidAsks(d)' = H!Hid(as[d])
    BY <2>1 DEF HidChans, HidAsks, H!Hid
  <2>4. CASE over
    <3>1. \A d \in Peer : HidChans(d)' = {} /\ HidAsks(d)' = {}
      BY <2>3, <2>4
    <3>2. OneHost'
      BY <3>1 DEF OneHost, H!Engaged, HidChans, HidAsks
    <3>3. OneChannel' /\ Known'
      BY <3>1 DEF OneChannel, Known
    <3> QED
      BY <2>1, <2>2, <2>4, <3>2, <3>3 DEF Followed
  <2>5. CASE ~over /\ hMishaps' = {}
    <3>1. hMishaps = {} /\ ~early
      BY <2>1, <2>5
    <3>2. \A d \in Peer : HidChans(d) = H!Hid(cs[d]) /\ HidAsks(d) = H!Hid(as[d])
      BY <1>9, <2>5, <3>1
    <3>3. \A d \in Peer : UNCHANGED <<HidChans(d), HidAsks(d)>>
      BY <2>3, <3>2
    <3>4. Fine
      BY <3>1 DEF Followed
    <3> QED
      BY <2>1, <2>2, <2>5, <3>3, <3>4, SameControl DEF Followed
  <2>6. CASE hMishaps' # {}
    BY <2>2, <2>6 DEF Followed
  <2> QED
    BY <2>4, <2>5, <2>6
<1>10. ASSUME NEW p \in Peer, H!ChannelCloses(p) PROVE ControlTyped' /\ Followed'
  <2>1. PICK c \in hChans[p] : H!Left([hChans EXCEPT ![p] = @ \ {c}], hAsks)
    BY <1>10 DEF H!ChannelCloses
  <2> DEFINE cs == [hChans EXCEPT ![p] = @ \ {c}]
  <2>2. /\ cs \in [Peer -> SUBSET H!Channel] /\ cs[p] = hChans[p] \ {c}
        /\ \A d \in Peer : d # p => cs[d] = hChans[d]
    BY DEF ControlTyped
  <2>3. hAsks \in [Peer -> SUBSET H!Ask] /\ H!Left(cs, hAsks)
    BY <2>1 DEF ControlTyped
  <2> HIDE DEF cs
  <2>4. /\ \A d \in Peer : HidAsks(d) = H!Hid(hAsks[d])
        /\ \A d \in Peer : d # p => HidChans(d) = H!Hid(cs[d])
        /\ H!Hid(cs[p]) = HidChans(p) \ {c}
    BY <2>2 DEF HidChans, HidAsks, H!Hid
  <2>5. ASSUME hMishaps = {}
        PROVE  \/ \A d \in Peer : H!Hid(cs[d]) = {} /\ H!Hid(hAsks[d]) = {}
               \/ \E d \in Peer : HidChans(d) # H!Hid(cs[d]) /\ H!Hid(hAsks[d]) # {}
               \/ \A d \in Peer : HidChans(d) = H!Hid(cs[d]) /\ HidAsks(d) = H!Hid(hAsks[d])
    <3>1. OneHost /\ OneChannel
      BY <2>5 DEF Followed
    <3>2. CASE c \notin HidChans(p)
      BY <2>4, <3>2
    <3>3. CASE c \in HidChans(p)
      <4>1. H!Hid(cs[p]) = {} /\ HidChans(p) # {}
        BY <2>4, <3>1, <3>3 DEF OneChannel
      <4>2. H!Engaged(p)
        BY <4>1 DEF H!Engaged, HidChans
      <4>3. \A d \in Peer : d # p => HidChans(d) = {} /\ HidAsks(d) = {}
        BY <3>1, <4>2 DEF OneHost, H!Engaged, HidChans, HidAsks
      <4> QED
        BY <2>4, <4>1, <4>3
    <3> QED
      BY <3>2, <3>3
  <2> QED
    BY <1>9, <2>2, <2>3, <2>5
<1>11. ASSUME NEW p \in Peer, H!LinkGoes(p) PROVE ControlTyped' /\ Followed'
  <2> DEFINE cs == [hChans EXCEPT ![p] = {}]
             as == [hAsks EXCEPT ![p] = {}]
  <2>1. H!Left(cs, as)
    BY <1>11 DEF H!LinkGoes
  <2>2. /\ cs \in [Peer -> SUBSET H!Channel] /\ as \in [Peer -> SUBSET H!Ask]
        /\ cs[p] = {} /\ as[p] = {} /\ \A d \in Peer : d # p => cs[d] = hChans[d] /\ as[d] = hAsks[d]
    BY DEF ControlTyped
  <2> HIDE DEF cs, as
  <2>3. /\ H!Hid(cs[p]) = {} /\ H!Hid(as[p]) = {}
        /\ \A d \in Peer : d # p => H!Hid(cs[d]) = HidChans(d) /\ H!Hid(as[d]) = HidAsks(d)
    BY <2>2 DEF HidChans, HidAsks, H!Hid
  <2>4. ASSUME hMishaps = {}
        PROVE  \/ \A d \in Peer : H!Hid(cs[d]) = {} /\ H!Hid(as[d]) = {}
               \/ \A d \in Peer : HidChans(d) = H!Hid(cs[d]) /\ HidAsks(d) = H!Hid(as[d])
    <3>1. OneHost
      BY <2>4 DEF Followed
    <3>2. CASE H!Engaged(p)
      <4>1. \A d \in Peer : d # p => HidChans(d) = {} /\ HidAsks(d) = {}
        BY <3>1, <3>2 DEF OneHost, H!Engaged, HidChans, HidAsks
      <4> QED
        BY <2>3, <4>1
    <3>3. CASE ~H!Engaged(p)
      <4>1. HidChans(p) = {} /\ HidAsks(p) = {}
        BY <3>3 DEF H!Engaged, HidChans, HidAsks
      <4> QED
        BY <2>3, <4>1
    <3> QED
      BY <3>2, <3>3
  <2> QED
    BY <1>9, <2>1, <2>2, <2>4
<1>12. ASSUME H!Restarts PROVE ControlTyped' /\ Followed'
  <2>1. /\ UNCHANGED <<hChans, hAsks, hReply>>
        /\ hMishaps' = hMishaps \cup {m \in {"unseen"} : \E p \in Peer : H!Engaged(p)}
    BY <1>12 DEF H!Restarts
  <2>2. ControlTyped'
    BY <2>1 DEF ControlTyped
  <2>3. ASSUME hMishaps' = {} PROVE Fine'
    <3>1. hReply \in {"none", "right"} /\ \A p \in Peer : ~H!Engaged(p)
      BY <2>1, <2>3 DEF Followed
    <3>2. \A d \in Peer : HidChans(d)' = {} /\ HidAsks(d)' = {}
      BY <2>1, <3>1 DEF H!Engaged, HidChans, HidAsks
    <3>3. OneHost'
      BY <3>2 DEF OneHost, H!Engaged, HidChans, HidAsks
    <3>4. OneChannel' /\ Known'
      BY <3>2 DEF OneChannel, Known
    <3> QED
      BY <2>1, <3>1, <3>3, <3>4
  <2> QED
    BY <2>2, <2>3 DEF Followed
<1>13. CASE UNCHANGED hVars
  <2>1. UNCHANGED <<hChans, hAsks, hLocalCid, hRemoteCid, hReply, hMishaps>>
    BY <1>13 DEF hVars
  <2>2. \A d \in Peer : UNCHANGED <<HidChans(d), HidAsks(d)>>
    BY <2>1 DEF HidChans, HidAsks
  <2> QED
    BY <2>1, <2>2, SameControl DEF ControlTyped, Followed
<1> QED
  BY <1>4, <1>5, <1>6, <1>7, <1>8, <1>10, <1>11, <1>12, <1>13 DEF H!Next

\* A step of the whole is a step of the control channels or leaves them alone.
LEMMA ControlSteps == [Next]_vars => [H!Next]_hVars
BY DEF Next, vars, hVars, DeviceStep, ReloadStep, BatchStep, RadioStep, GuardStep, PairingStep,
       ControlStep, UpdateStep

\* ReplyReachesAsker is invariant: the guard sends the reply to GET_REPORT to the channel
\* of the host that asked, unless one of the named mishaps has happened.
THEOREM RepliesReachAskers == Spec => []ReplyReachesAsker
<1>1. Init => ControlTyped /\ Followed
  BY ControlInit DEF Init
<1>2. ControlTyped /\ Followed /\ [Next]_vars => ControlTyped' /\ Followed'
  BY ControlSteps, ControlNext
<1>3. Followed => ReplyReachesAsker
  BY DEF Followed, ReplyReachesAsker, H!ReplyReachesAsker
<1> QED
  BY <1>1, <1>2, <1>3, PTL DEF Spec
-----------------------------------------------------------------------------
(* PairAgent. *)

\* Events that say whether a host is linked.
LinkKinds == {"up", "down", "failed"}

\* Events that do not.
OtherKinds == {"request", "confirm", "key", "paired"}

\* An event on the local bus.
Happening == [kind : LinkKinds \cup OtherKinds, peer : Host]

\* The pairing agent.
Agent == [pc : {"start", "loop", "poll", "reconnect", "complete", "timeout", "stopped"},
          now : Nat, paired : BOOLEAN, linked : BOOLEAN, since : Nat, next : Nat,
          attempts : Nat, last : Host \cup {P!Nobody}, saved : SUBSET Host]

\* An event in the queue says something about a link.
HasLink(q) == \E i \in 1 .. Len(q) : q[i].kind \in LinkKinds

\* The last event in the queue that says something about a link says that it is up.
EndsUp(q) ==
  \E i \in 1 .. Len(q) : /\ q[i].kind = "up"
                         /\ \A j \in 1 .. Len(q) : j > i => q[j].kind \notin LinkKinds

\* How long a call for reconnection keeps the agent from reading events.
Blocked == IF pMode = "direct-only" THEN Block ELSE 0

\* The types of the agent, and that no link is younger than now.
AgentTyped ==
  /\ pMode \in P!Modes /\ pAgent \in Agent
  /\ pTime \in Nat /\ pTime # 0 /\ pSpent \in Nat
  /\ pQueue \in Seq(Happening)
  /\ pUp \in [Host -> Nat] /\ \A p \in Host : pUp[p] <= pTime
  /\ pSeen \in SUBSET Host

\* How far time may have gone since the agent last looked at the clock.
Timely ==
  /\ pAgent.pc = "start" => ~pAgent.linked
  /\ pAgent.pc = "reconnect" =>
       pMode = "direct-only" /\ pSpent <= Block /\ pTime = pAgent.now + pSpent
  /\ pAgent.pc = "poll" => pSpent <= P!Poll /\ pTime <= pAgent.now + Blocked + pSpent
  /\ pAgent.pc = "complete" => pAgent.linked /\ pTime >= pAgent.since + Settle

\* A host whose link came up before the agent, which has seen it, says.
LinkedTo(p) == pUp[p] # 0 /\ pUp[p] <= pAgent.since + Blocked + P!Poll

\* With one host about, an agent that has read all the events believes in the link that is.
OneHostLinked ==
  \A p \in Host : pSeen \subseteq {p} =>
    /\ pAgent.linked /\ ~HasLink(pQueue) => LinkedTo(p)
    /\ EndsUp(pQueue) => pUp[p] # 0

\* What the rest of a queue says about links.
LEMMA TailLinks ==
  ASSUME NEW q \in Seq(Happening), q # <<>>
  PROVE  /\ Head(q) \in Happening /\ Tail(q) \in Seq(Happening)
         /\ EndsUp(Tail(q)) => EndsUp(q)
         /\ Head(q).kind \notin LinkKinds /\ ~HasLink(Tail(q)) => ~HasLink(q)
         /\ Head(q).kind = "up" /\ ~HasLink(Tail(q)) => EndsUp(q)
<1>1. /\ Head(q) \in Happening /\ Tail(q) \in Seq(Happening) /\ Head(q) = q[1]
      /\ Len(q) \in Nat /\ Len(q) > 0 /\ Len(Tail(q)) = Len(q) - 1
      /\ \A i \in 1 .. Len(Tail(q)) : Tail(q)[i] = q[i + 1]
  OBVIOUS
<1>2. \A i \in 1 .. Len(q) : i = 1 \/ (i - 1 \in 1 .. Len(Tail(q)) /\ q[i] = Tail(q)[i - 1])
  BY <1>1
<1>3. ASSUME EndsUp(Tail(q)) PROVE EndsUp(q)
  <2>1. PICK i \in 1 .. Len(Tail(q)) :
          /\ Tail(q)[i].kind = "up"
          /\ \A j \in 1 .. Len(Tail(q)) : j > i => Tail(q)[j].kind \notin LinkKinds
    BY <1>3 DEF EndsUp
  <2>2. i + 1 \in 1 .. Len(q) /\ q[i + 1].kind = "up"
    BY <1>1, <2>1
  <2>3. ASSUME NEW j \in 1 .. Len(q), j > i + 1 PROVE q[j].kind \notin LinkKinds
    <3>1. j - 1 \in 1 .. Len(Tail(q)) /\ j - 1 > i /\ q[j] = Tail(q)[j - 1]
      BY <1>1, <1>2, <2>3
    <3> QED
      BY <2>1, <3>1
  <2> QED
    BY <2>2, <2>3 DEF EndsUp
<1>4. ASSUME ~HasLink(Tail(q)) PROVE \A j \in 1 .. Len(q) : j > 1 => q[j].kind \notin LinkKinds
  <2>1. ASSUME NEW j \in 1 .. Len(q), j > 1 PROVE q[j].kind \notin LinkKinds
    <3>1. j - 1 \in 1 .. Len(Tail(q)) /\ q[j] = Tail(q)[j - 1]
      BY <1>2, <2>1
    <3> QED
      BY <1>4, <3>1 DEF HasLink
  <2> QED
    BY <2>1
<1>5. ASSUME Head(q).kind \notin LinkKinds, ~HasLink(Tail(q)) PROVE ~HasLink(q)
  BY <1>1, <1>2, <1>5 DEF HasLink
<1>6. ASSUME Head(q).kind = "up", ~HasLink(Tail(q)) PROVE EndsUp(q)
  BY <1>1, <1>4, <1>6 DEF EndsUp
<1> QED
  BY <1>1, <1>3, <1>5, <1>6

\* What a queue with one more event says about links.
LEMMA AppendLinks ==
  ASSUME NEW q \in Seq(Happening), NEW ev \in Happening
  PROVE  /\ Append(q, ev) \in Seq(Happening)
         /\ ev.kind \in LinkKinds => HasLink(Append(q, ev)) /\ (EndsUp(Append(q, ev)) => ev.kind = "up")
         /\ ev.kind \notin LinkKinds =>
              (HasLink(q) => HasLink(Append(q, ev))) /\ (EndsUp(Append(q, ev)) => EndsUp(q))
<1> DEFINE new == Append(q, ev)
<1>1. /\ new \in Seq(Happening) /\ Len(q) \in Nat /\ Len(new) = Len(q) + 1 /\ new[Len(q) + 1] = ev
      /\ \A i \in 1 .. Len(q) : new[i] = q[i]
  OBVIOUS
<1> HIDE DEF new
<1>2. \A i \in 1 .. Len(new) : i = Len(q) + 1 \/ i \in 1 .. Len(q)
  BY <1>1
<1>3. Len(q) + 1 \in 1 .. Len(new) /\ \A i \in 1 .. Len(q) : i \in 1 .. Len(new) /\ Len(q) + 1 > i
  BY <1>1
<1>4. ASSUME ev.kind \in LinkKinds PROVE HasLink(new) /\ (EndsUp(new) => ev.kind = "up")
  BY <1>1, <1>2, <1>3, <1>4 DEF HasLink, EndsUp
<1>5. ASSUME ev.kind \notin LinkKinds
      PROVE  (HasLink(q) => HasLink(new)) /\ (EndsUp(new) => EndsUp(q))
  <2>1. HasLink(q) => HasLink(new)
    BY <1>1, <1>3 DEF HasLink
  <2>2. ASSUME EndsUp(new) PROVE EndsUp(q)
    <3>1. PICK i \in 1 .. Len(new) :
            new[i].kind = "up" /\ \A j \in 1 .. Len(new) : j > i => new[j].kind \notin LinkKinds
      BY <2>2 DEF EndsUp
    <3>2. i \in 1 .. Len(q)
      BY <1>1, <1>2, <1>5, <3>1 DEF LinkKinds
    <3>3. q[i].kind = "up" /\ \A j \in 1 .. Len(q) : j > i => q[j].kind \notin LinkKinds
      BY <1>1, <1>3, <3>1, <3>2
    <3> QED
      BY <3>2, <3>3 DEF EndsUp
  <2> QED
    BY <2>1, <2>2
<1> QED
  BY <1>1, <1>4, <1>5 DEF new

\* What the agent believes after an event.
LEMMA HandledAgent ==
  ASSUME pAgent \in Agent, NEW ev \in Happening, NEW a \in P!Handled(ev)
  PROVE  /\ a \in Agent
         /\ ev.kind \in OtherKinds => a.linked = pAgent.linked /\ a.since = pAgent.since
         /\ ev.kind = "up" => a.linked /\ a.since = pAgent.now
         /\ ev.kind \in {"down", "failed"} => ~a.linked
<1>0. ev.kind \in LinkKinds \cup OtherKinds /\ ev.peer \in Host
  BY DEF Happening
<1>1. CASE ev.kind \in {"request", "confirm"}
  <2>1. a = [pAgent EXCEPT !.last = ev.peer]
    BY <1>1 DEF P!Handled
  <2> QED
    BY <1>0, <1>1, <2>1 DEF Agent
<1>2. CASE ev.kind = "key"
  <2>1. PICK keys \in {pAgent.saved, pAgent.saved \cup {ev.peer}} :
          a = [pAgent EXCEPT !.last = ev.peer, !.paired = TRUE, !.next = pAgent.now + 1,
                             !.saved = keys]
    BY <1>2 DEF P!Handled
  <2>2. keys \in SUBSET Host /\ pAgent.now + 1 \in Nat
    BY <1>0 DEF Agent
  <2> QED
    BY <1>0, <1>2, <2>1, <2>2 DEF Agent
<1>3. CASE ev.kind = "paired"
  <2>1. a = [pAgent EXCEPT !.paired = TRUE, !.next = pAgent.now + 1]
    BY <1>3 DEF P!Handled
  <2>2. pAgent.now + 1 \in Nat
    BY DEF Agent
  <2> QED
    BY <1>3, <2>1, <2>2 DEF Agent
<1>4. CASE ev.kind = "up"
  <2>1. a = [pAgent EXCEPT !.linked = TRUE, !.since = pAgent.now]
    BY <1>4 DEF P!Handled
  <2> QED
    BY <1>4, <2>1 DEF Agent, OtherKinds
<1>5. CASE ev.kind \in {"down", "failed"}
  <2>1. a = [pAgent EXCEPT !.linked = FALSE, !.since = 0,
                           !.next = IF pAgent.paired THEN pAgent.now + 1 ELSE pAgent.next]
    BY <1>5 DEF P!Handled
  <2>2. (IF pAgent.paired THEN pAgent.now + 1 ELSE pAgent.next) \in Nat
    BY DEF Agent
  <2> QED
    BY <1>5, <2>1, <2>2 DEF Agent, OtherKinds
<1> QED
  BY <1>0, <1>1, <1>2, <1>3, <1>4, <1>5 DEF LinkKinds, OtherKinds

\* The agent starts with nothing read.
LEMMA AgentInit == P!Init => AgentTyped /\ Timely /\ OneHostLinked
<1> SUFFICES ASSUME P!Init PROVE AgentTyped /\ Timely /\ OneHostLinked
  OBVIOUS
<1> USE DEF P!Init
<1>1. pAgent \in Agent
  BY DEF Agent, P!Nobody
<1>3. AgentTyped
  BY <1>1 DEF AgentTyped, P!Modes
<1>4. ~HasLink(pQueue) /\ ~EndsUp(pQueue)
  BY DEF HasLink, EndsUp
<1> QED
  BY <1>3, <1>4 DEF Timely, OneHostLinked

\* Every step keeps the agent timely, and right about a single host.
LEMMA AgentNext ==
  AgentTyped /\ Timely /\ OneHostLinked /\ [P!Next]_pVars => AgentTyped' /\ Timely' /\ OneHostLinked'
<1> SUFFICES ASSUME AgentTyped, Timely, OneHostLinked, [P!Next]_pVars
             PROVE  AgentTyped' /\ Timely' /\ OneHostLinked'
  OBVIOUS
<1> USE PairingAssumption
<1>1. Blocked \in Nat /\ P!Poll = 1 /\ pTime \in Nat /\ pSpent \in Nat /\ pAgent \in Agent
      /\ pAgent.now \in Nat /\ pAgent.since \in Nat /\ Settle \in Nat /\ Block \in Nat
  BY DEF Blocked, AgentTyped, Agent, P!Poll
\* A step of the agent that leaves the link, the events and the adapter alone.
<1>2. ASSUME NEW next \in Agent, P!Become(next), next.linked = pAgent.linked, next.since = pAgent.since,
             UNCHANGED <<pTime, pQueue, pUp, pEvents, pSeen>>,
             pMode' = pMode \/ (pMode' \in P!Modes /\ ~pAgent.linked)
      PROVE  AgentTyped' /\ OneHostLinked' /\ pAgent' = next /\ pSpent' = 0
  <2>1. pAgent' = next /\ pSpent' = 0
    BY <1>2 DEF P!Become
  <2>2. AgentTyped'
    BY <1>2, <2>1 DEF AgentTyped
  <2>3. OneHostLinked'
    BY <1>2, <2>1 DEF OneHostLinked, LinkedTo, Blocked
  <2> QED
    BY <2>1, <2>2, <2>3
<1>3. CASE P!Start
  <2> DEFINE next == [pAgent EXCEPT !.pc = "loop"]
  <2>1. next \in Agent /\ next.pc = "loop" /\ next.linked = pAgent.linked /\ next.since = pAgent.since
    BY <1>1 DEF Agent
  <2>2. /\ P!Become(next) /\ pMode' \in P!Modes /\ UNCHANGED <<pTime, pQueue, pUp, pEvents, pSeen>>
        /\ pAgent.pc = "start"
    BY <1>3 DEF P!Start
  <2> HIDE DEF next
  <2>3. AgentTyped' /\ OneHostLinked' /\ pAgent' = next
    BY <1>2, <2>1, <2>2 DEF Timely
  <2> QED
    BY <2>1, <2>3 DEF Timely
<1>4. CASE P!Round
  <2> DEFINE pc == IF pTime >= Deadline THEN "timeout" ELSE IF P!IsComplete THEN "complete"
                   ELSE IF P!Reconnects THEN "reconnect" ELSE "poll"
             next == [pAgent EXCEPT !.pc = pc, !.now = pTime,
                                    !.attempts = IF pc = "reconnect" THEN @ + 1 ELSE @]
  <2>1. P!Become(next) /\ UNCHANGED <<pMode, pTime, pQueue, pUp, pEvents, pSeen>>
    BY <1>4 DEF P!Round
  <2>2. /\ pc \in {"timeout", "complete", "reconnect", "poll"}
        /\ pc = "complete" => P!IsComplete
        /\ pc = "reconnect" => P!Reconnects
    OBVIOUS
  <2> HIDE DEF pc
  <2>3. (IF pc = "reconnect" THEN pAgent.attempts + 1 ELSE pAgent.attempts) \in Nat
    BY <1>1 DEF Agent
  <2>4. /\ next \in Agent /\ next.pc = pc /\ next.now = pTime /\ next.linked = pAgent.linked
        /\ next.since = pAgent.since
    BY <1>1, <2>2, <2>3 DEF Agent
  <2> HIDE DEF next
  <2>5. AgentTyped' /\ OneHostLinked' /\ pAgent' = next /\ pSpent' = 0
    BY <1>2, <2>1, <2>4
  <2>6. pc = "complete" => pAgent.linked /\ pTime >= pAgent.since + Settle
    BY <1>1, <2>2 DEF P!IsComplete
  <2>7. pc = "reconnect" => pMode = "direct-only"
    BY <2>2 DEF P!Reconnects
  <2>8. Blocked' = Blocked
    BY <2>1 DEF Blocked
  <2>9. Timely'
    BY <1>1, <2>1, <2>2, <2>4, <2>5, <2>6, <2>7, <2>8 DEF Timely
  <2> QED
    BY <2>5, <2>9
<1>5. CASE P!Reconnected
  <2> DEFINE next == [pAgent EXCEPT !.pc = "poll", !.next = pAgent.now + Retry]
  <2>1. /\ P!Become(next) /\ UNCHANGED <<pMode, pTime, pQueue, pUp, pEvents, pSeen>>
        /\ pAgent.pc = "reconnect"
    BY <1>5 DEF P!Reconnected
  <2>2. pAgent.now + Retry \in Nat
    BY <1>1
  <2>3. /\ next \in Agent /\ next.pc = "poll" /\ next.now = pAgent.now /\ next.linked = pAgent.linked
        /\ next.since = pAgent.since
    BY <1>1, <2>2 DEF Agent
  <2> HIDE DEF next
  <2>4. AgentTyped' /\ OneHostLinked' /\ pAgent' = next /\ pSpent' = 0
    BY <1>2, <2>1, <2>3
  <2>5. Blocked' = Blocked /\ Blocked = Block /\ pTime <= pAgent.now + Block
    BY <1>1, <2>1 DEF Timely, Blocked
  <2>6. Timely'
    BY <1>1, <2>1, <2>3, <2>4, <2>5 DEF Timely
  <2> QED
    BY <2>4, <2>6
<1>6. CASE P!Waited \/ P!Stop
  <2>1. PICK pc \in {"loop", "stopped"} :
          /\ P!Become([pAgent EXCEPT !.pc = pc])
          /\ UNCHANGED <<pMode, pTime, pQueue, pUp, pEvents, pSeen>>
    BY <1>6 DEF P!Waited, P!Stop
  <2> DEFINE next == [pAgent EXCEPT !.pc = pc]
  <2>2. next \in Agent /\ next.pc = pc /\ next.linked = pAgent.linked /\ next.since = pAgent.since
    BY <1>1 DEF Agent
  <2>3. P!Become(next)
    BY <2>1
  <2> HIDE DEF next
  <2>4. AgentTyped' /\ OneHostLinked' /\ pAgent' = next
    BY <1>2, <2>1, <2>2, <2>3
  <2> QED
    BY <2>2, <2>4 DEF Timely
\* The link's event is entered with the round's time, from before the wait.
<1>7. CASE P!Handle
  <2>1. /\ pAgent.pc = "poll" /\ pQueue # <<>> /\ pQueue' = Tail(pQueue) /\ pQueue \in Seq(Happening)
        /\ UNCHANGED <<pMode, pTime, pUp, pEvents, pSeen>>
    BY <1>7 DEF P!Handle, AgentTyped
  <2>2. PICK a \in P!Handled(Head(pQueue)) : P!Become([a EXCEPT !.pc = "loop"])
    BY <1>7 DEF P!Handle
  <2> DEFINE ev == Head(pQueue)
             next == [a EXCEPT !.pc = "loop"]
  <2>3. /\ ev \in Happening /\ pQueue' \in Seq(Happening)
        /\ EndsUp(pQueue') => EndsUp(pQueue)
        /\ ev.kind \notin LinkKinds /\ ~HasLink(pQueue') => ~HasLink(pQueue)
        /\ ev.kind = "up" /\ ~HasLink(pQueue') => EndsUp(pQueue)
    BY <2>1, TailLinks
  <2>4. /\ a \in Agent
        /\ ev.kind \in OtherKinds => a.linked = pAgent.linked /\ a.since = pAgent.since
        /\ ev.kind = "up" => a.linked /\ a.since = pAgent.now
        /\ ev.kind \in {"down", "failed"} => ~a.linked
    BY <1>1, <2>2, <2>3, HandledAgent
  <2>5. next \in Agent /\ next.pc = "loop" /\ next.linked = a.linked /\ next.since = a.since
    BY <2>4 DEF Agent
  <2>6. pAgent' = next /\ pSpent' = 0
    BY <2>2 DEF P!Become
  <2> HIDE DEF next, ev
  <2>7. AgentTyped'
    BY <2>1, <2>3, <2>5, <2>6 DEF AgentTyped
  <2>8. Timely'
    BY <2>5, <2>6 DEF Timely
  <2>9. Blocked' = Blocked /\ pTime <= pAgent.now + Blocked + P!Poll
    BY <1>1, <2>1 DEF Timely, Blocked
  <2>10. ASSUME NEW p \in Host, pSeen' \subseteq {p}
         PROVE  /\ pAgent'.linked /\ ~HasLink(pQueue') => LinkedTo(p)'
                /\ EndsUp(pQueue') => pUp'[p] # 0
    <3>1. /\ pAgent.linked /\ ~HasLink(pQueue) => LinkedTo(p)
          /\ EndsUp(pQueue) => pUp[p] # 0
      BY <2>1, <2>10 DEF OneHostLinked
    <3>2. pUp[p] \in Nat /\ pUp[p] <= pTime
      BY DEF AgentTyped
    <3>3. ev.kind \in LinkKinds \cup OtherKinds
      BY <2>3 DEF Happening
    <3>4. CASE ev.kind \in OtherKinds
      <4>1. ev.kind \notin LinkKinds
        BY <3>4 DEF OtherKinds, LinkKinds
      <4>2. LinkedTo(p) => LinkedTo(p)'
        BY <2>1, <2>4, <2>5, <2>6, <2>9, <3>4 DEF LinkedTo
      <4> QED
        BY <2>1, <2>3, <2>4, <2>5, <2>6, <3>1, <3>4, <4>1, <4>2
    <3>5. CASE ev.kind = "up"
      <4>1. EndsUp(pQueue) => LinkedTo(p)'
        BY <1>1, <2>1, <2>4, <2>5, <2>6, <2>9, <3>1, <3>2, <3>5 DEF LinkedTo
      <4> QED
        BY <2>1, <2>3, <3>1, <3>5, <4>1
    <3>6. CASE ev.kind \in {"down", "failed"}
      BY <2>1, <2>3, <2>4, <2>5, <2>6, <3>1, <3>6
    <3> QED
      BY <3>3, <3>4, <3>5, <3>6 DEF LinkKinds
  <2> QED
    BY <2>7, <2>8, <2>10 DEF OneHostLinked
\* The adapter: the last event of the link says how it is.
<1>8. ASSUME NEW p \in Host, NEW kind \in LinkKinds \cup OtherKinds, P!Happens(kind, p),
             pUp' \in [Host -> Nat], \A d \in Host : pUp'[d] <= pTime,
             kind \in OtherKinds => UNCHANGED pUp,
             kind = "up" => pUp'[p] # 0
      PROVE  AgentTyped' /\ Timely' /\ OneHostLinked'
  <2> DEFINE ev == [kind |-> kind, peer |-> p]
  <2>1. /\ pQueue' = Append(pQueue, ev) /\ pSeen' = pSeen \cup {p}
        /\ UNCHANGED <<pMode, pAgent, pTime, pSpent>> /\ pQueue \in Seq(Happening)
    BY <1>8 DEF P!Happens, AgentTyped
  <2>2. ev \in Happening /\ ev.kind = kind
    BY DEF Happening
  <2> HIDE DEF ev
  <2>3. /\ pQueue' \in Seq(Happening)
        /\ kind \in LinkKinds => HasLink(pQueue') /\ (EndsUp(pQueue') => kind = "up")
        /\ kind \notin LinkKinds =>
             (HasLink(pQueue) => HasLink(pQueue')) /\ (EndsUp(pQueue') => EndsUp(pQueue))
    BY <2>1, <2>2, AppendLinks
  <2>5. AgentTyped'
    BY <1>8, <2>1, <2>3 DEF AgentTyped
  <2>6. Timely'
    BY <2>1 DEF Timely, Blocked
  <2>7. ASSUME NEW d \in Host, pSeen' \subseteq {d}
        PROVE  /\ pAgent'.linked /\ ~HasLink(pQueue') => LinkedTo(d)'
               /\ EndsUp(pQueue') => pUp'[d] # 0
    <3>1. d = p /\ pSeen \subseteq {d}
      BY <2>1, <2>7
    <3>2. /\ pAgent.linked /\ ~HasLink(pQueue) => LinkedTo(d)
          /\ EndsUp(pQueue) => pUp[d] # 0
      BY <3>1 DEF OneHostLinked
    <3>3. CASE kind \in LinkKinds
      BY <1>8, <2>3, <3>1, <3>3
    <3>4. CASE kind \notin LinkKinds
      <4>1. UNCHANGED pUp
        BY <1>8, <3>4
      <4>2. LinkedTo(d)' <=> LinkedTo(d)
        BY <2>1, <4>1 DEF LinkedTo, Blocked
      <4> QED
        BY <2>1, <2>3, <3>2, <3>4, <4>1, <4>2
    <3> QED
      BY <3>3, <3>4
  <2> QED
    BY <2>5, <2>6, <2>7 DEF OneHostLinked
<1>9. CASE P!AdapterStep
  <2>1. PICK p \in Host : \/ P!LinkComes(p) \/ P!LinkFails(p) \/ P!LinkGoes(p)
                          \/ \E kind \in OtherKinds : P!Says(kind, p)
    BY <1>9 DEF P!AdapterStep, OtherKinds
  <2>2. pUp \in [Host -> Nat] /\ pTime \in Nat /\ pTime # 0 /\ \A d \in Host : pUp[d] <= pTime
    BY DEF AgentTyped
  <2>3. CASE P!LinkComes(p)
    <3>1. P!Happens("up", p) /\ pUp' = [pUp EXCEPT ![p] = pTime]
      BY <2>3 DEF P!LinkComes
    <3>2. /\ pUp' \in [Host -> Nat] /\ pUp'[p] = pTime
          /\ \A d \in Host : pUp'[d] <= pTime
      BY <2>2, <3>1
    <3> QED
      BY <1>8, <2>2, <3>1, <3>2 DEF LinkKinds, OtherKinds
  <2>4. CASE P!LinkFails(p)
    <3>1. P!Happens("failed", p) /\ UNCHANGED pUp
      BY <2>4 DEF P!LinkFails
    <3> QED
      BY <1>8, <2>2, <3>1 DEF LinkKinds
  <2>5. CASE P!LinkGoes(p)
    <3>1. P!Happens("down", p) /\ pUp' = [pUp EXCEPT ![p] = 0]
      BY <2>5 DEF P!LinkGoes
    <3>2. pUp' \in [Host -> Nat] /\ \A d \in Host : pUp'[d] <= pTime
      BY <2>2, <3>1
    <3> QED
      BY <1>8, <3>1, <3>2 DEF LinkKinds, OtherKinds
  <2>6. ASSUME NEW kind \in OtherKinds, P!Says(kind, p) PROVE AgentTyped' /\ Timely' /\ OneHostLinked'
    <3>1. P!Happens(kind, p) /\ UNCHANGED pUp
      BY <2>6 DEF P!Says
    <3> QED
      BY <1>8, <2>2, <3>1 DEF OtherKinds
  <2> QED
    BY <2>1, <2>3, <2>4, <2>5, <2>6
<1>10. CASE P!Tick
  <2>1. /\ UNCHANGED <<pMode, pAgent, pQueue, pUp, pSeen>> /\ pTime' = pTime + 1 /\ pSpent' = pSpent + 1
        /\ \/ pAgent.pc = "poll" /\ pSpent < P!Poll
           \/ pAgent.pc = "reconnect" /\ pSpent < Block
    BY <1>10 DEF P!Tick
  <2>2. AgentTyped'
    BY <2>1 DEF AgentTyped
  <2>3. Blocked' = Blocked
    BY <2>1 DEF Blocked
  <2>4. Timely'
    BY <1>1, <2>1, <2>3 DEF Timely
  <2>5. OneHostLinked'
    BY <2>1, <2>3 DEF OneHostLinked, LinkedTo
  <2> QED
    BY <2>2, <2>4, <2>5
<1>11. CASE UNCHANGED pVars
  BY <1>11 DEF pVars, AgentTyped, Timely, OneHostLinked, LinkedTo, Blocked
<1> QED
  BY <1>3, <1>4, <1>5, <1>6, <1>7, <1>9, <1>10, <1>11 DEF P!Next

\* A step of the whole is a step of the pairing agent or leaves it alone.
LEMMA PairingSteps == [Next]_vars => [P!Next]_pVars
BY DEF Next, vars, pVars, DeviceStep, ReloadStep, BatchStep, RadioStep, GuardStep, PairingStep,
       ControlStep, UpdateStep

\* CompletedIsLinked is invariant: when the agent reports the pairing complete with all events
\* read, the only host that it has heard of is linked, and has been for as long as the code asks.
THEOREM PairingMeansLink == Spec => []CompletedIsLinked
<1>1. Init => AgentTyped /\ Timely /\ OneHostLinked
  BY AgentInit DEF Init
<1>2. AgentTyped /\ Timely /\ OneHostLinked /\ [Next]_vars => AgentTyped' /\ Timely' /\ OneHostLinked'
  BY PairingSteps, AgentNext
<1>3. AgentTyped /\ Timely /\ OneHostLinked => CompletedIsLinked
  <2> SUFFICES ASSUME AgentTyped, Timely, OneHostLinked, pAgent.pc = "complete", pQueue = <<>>,
                      NEW p \in Host, pSeen = {p}
               PROVE  /\ pUp[p] # 0
                      /\ pTime - pUp[p] >=
                           Settle - P!Poll - IF pMode = "direct-only" THEN Block ELSE 0
    BY DEF CompletedIsLinked, P!CompletedIsLinked
  <2>1. ~HasLink(pQueue)
    BY DEF HasLink
  <2>2. LinkedTo(p) /\ pTime >= pAgent.since + Settle
    BY <2>1 DEF OneHostLinked, Timely
  <2>3. pUp[p] \in Nat /\ pTime \in Nat /\ pAgent.since \in Nat /\ Blocked \in Nat /\ Settle \in Nat
    BY PairingAssumption DEF AgentTyped, Agent, Blocked
  <2>4. pTime - pUp[p] >= Settle - P!Poll - Blocked
    BY <2>2, <2>3 DEF LinkedTo, P!Poll
  <2> QED
    BY <2>2, <2>4 DEF LinkedTo, Blocked
<1> QED
  BY <1>1, <1>2, <1>3, PTL DEF Spec
===============================================================================
