------------------------- MODULE HoldToRepeatProofs -------------------------
(***************************************************************************)
(* What holds of the holds for every number of them and for every limit    *)
(* that keeps ConnectTurns + 1 < WaitTurns, as the code's limits do.  The  *)
(* main result is OneAtATime: the lock, the lease and release files and    *)
(* the wait of hold_start together keep two holders from pressing at the   *)
(* same time.  Its invariant Alone says, of the press whose turn it is,    *)
(* which holds it has asked already (Asked) and how far those that were    *)
(* asked can have come since (Awaited), so that none of them presses or    *)
(* keeps its key down by the time the press stops waiting.                 *)
(***************************************************************************)
EXTENDS HoldToRepeat, TLAPS

-----------------------------------------------------------------------------
(* Typed: the counters stay within the limits at which somebody looks at them. *)

\* A counter is looked at before it can pass its limit, and a press that has not claimed
\* its lease has no holder.
CountsAt(h) ==
  /\ starter[h] \in {"new", "asking", "asleep", "claimed"} => holder[h] = "none"
  /\ starter[h] \in {"new", "claimed"} => waited[h] = 0
  /\ starter[h] = "asking" => waited[h] <= WaitTurns
  /\ starter[h] = "asleep" => waited[h] < WaitTurns
  /\ starter[h] = "reporting" => waited[h] <= PipeTurns
  /\ holder[h] \in {"none", "born", "preparing", "pressed"} => spent[h] = 0
  /\ holder[h] = "opening" => spent[h] <= ConnectTurns
  /\ holder[h] = "sleeping" => spent[h] <= MaxTurns /\ quiet[h] <= LeaseTurns

Typed == TypeOK /\ \A h \in Hold : CountsAt(h)

\* The limits are numbers, and a press waits longer for the others than one of them can
\* take to connect and to look at its files.
LEMMA Limits ==
  /\ ConnectTurns \in Nat /\ WaitTurns \in Nat /\ PipeTurns \in Nat
  /\ LeaseTurns \in Nat /\ MaxTurns \in Nat /\ MaxRestarts \in Nat
  /\ ConnectTurns + 1 < WaitTurns
BY TurnsAssumption

\* The types at the start.
LEMMA InitTyped == Init => Typed
BY NoneAssumption, Limits
   DEF Init, Typed, TypeOK, CountsAt, StarterPcs, HolderPcs, Tellings, Notes

\* A turn of time passes no limit: whoever is at one has something to do first.
LEMMA TickTyped ==
  ASSUME Typed, Tick
  PROVE  /\ starter' \in [Hold -> StarterPcs] /\ todo' \in [Hold -> SUBSET Hold]
         /\ anyLive' \in [Hold -> BOOLEAN] /\ holder' \in [Hold -> HolderPcs]
         /\ waited' \in [Hold -> 0 .. WaitTurns + PipeTurns]
         /\ spent' \in [Hold -> 0 .. ConnectTurns + MaxTurns + 1]
         /\ quiet' \in [Hold -> 0 .. LeaseTurns + 1]
         /\ silent' \in [Hold -> 0 .. LeaseTurns + 3]
         /\ engine' \in Hold \cup {None} /\ down' \in 0 .. MaxTurns + 3
         /\ oldNote' \in SUBSET Hold
<1>1. starter' \in [Hold -> StarterPcs] /\ todo' \in [Hold -> SUBSET Hold]
      /\ holder' \in [Hold -> HolderPcs]
  BY DEF Typed, TypeOK, Tick, StarterPcs, HolderPcs
<1>2. anyLive' \in [Hold -> BOOLEAN]
  <2>1. anyLive \in [Hold -> BOOLEAN]
    BY DEF Typed, TypeOK
  <2>2. anyLive' = [h \in Hold |-> IF starter[h] = "asleep" THEN FALSE ELSE anyLive[h]]
    BY DEF Tick
  <2> QED
    BY <2>1, <2>2, Zenon
<1>3. waited' \in [Hold -> 0 .. WaitTurns + PipeTurns]
  BY Limits DEF Typed, TypeOK, CountsAt, Tick, MayWait
<1>4. spent' \in [Hold -> 0 .. ConnectTurns + MaxTurns + 1]
  BY Limits DEF Typed, TypeOK, CountsAt, Tick, MayWait
<1>5. quiet' \in [Hold -> 0 .. LeaseTurns + 1] /\ silent' \in [Hold -> 0 .. LeaseTurns + 3]
  BY Limits DEF Typed, TypeOK, CountsAt, Tick, MayWait
<1>6. /\ engine' \in Hold \cup {None} /\ down' \in 0 .. MaxTurns + 3
      /\ oldNote' \in SUBSET Hold
  BY Limits DEF Typed, TypeOK, Tick
<1> QED
  BY <1>1, <1>2, <1>3, <1>4, <1>5, <1>6

\* No step of a press, a holder, a browser or a restart leaves the types.
LEMMA NextTypeOK == Typed /\ [Next]_vars => TypeOK'
<1> SUFFICES ASSUME Typed, [Next]_vars PROVE TypeOK'
  OBVIOUS
<1>0. TypeOK /\ \A h \in Hold : CountsAt(h)
  BY DEF Typed
<1> USE NoneAssumption, Limits
    DEF TypeOK, StarterPcs, HolderPcs, Tellings, Notes,
        starterVars, holderVars, fileVars, browserVars, engineVars
<1>1. ASSUME NEW h \in Hold, TakeLock(h) \/ WaitForOthers(h) \/ Fork(h) PROVE TypeOK'
  BY <1>0, <1>1 DEF TakeLock, WaitForOthers, Fork
<1>2. ASSUME NEW h \in Hold, NEW o \in Hold, MeetLive(h, o) PROVE TypeOK'
  BY <1>0, <1>2 DEF MeetLive, Visit
<1>3. ASSUME NEW h \in Hold, NEW o \in Hold, MeetDead(h, o) PROVE TypeOK'
  BY <1>0, <1>3 DEF MeetDead, Visit
<1>4. ASSUME NEW h \in Hold, AskToLetGo(h) PROVE TypeOK'
  BY <1>0, <1>4 DEF AskToLetGo, WriteRelease
<1>5. ASSUME NEW h \in Hold, Claim(h) PROVE TypeOK'
  BY <1>0, <1>5 DEF Claim
<1>6. ASSUME NEW h \in Hold, ForkFails(h) \/ ReadReport(h) PROVE TypeOK'
  BY <1>0, <1>6 DEF ForkFails, ReadReport, Conclude
<1>7. ASSUME NEW h \in Hold, GiveUp(h) PROVE TypeOK'
  BY <1>0, <1>7 DEF GiveUp, Conclude, WriteRelease
<1>8. ASSUME NEW h \in Hold, WritePid(h) \/ PrepareFails(h) \/ TakenOver(h) \/ StartOpening(h)
      PROVE  TypeOK'
  BY <1>0, <1>8 DEF WritePid, PrepareFails, TakenOver, StartOpening, HolderGoes
<1>9. ASSUME NEW h \in Hold, OpenFails(h) \/ Press(h) \/ PressRefused(h) \/ PressLost(h)
      PROVE  TypeOK'
  BY <1>0, <1>9 DEF OpenFails, Press, PressRefused, PressLost, HolderGoes
<1>10. ASSUME NEW h \in Hold, PressIsOut(h) PROVE TypeOK'
  BY <1>0, <1>10 DEF PressIsOut, HolderGoes
<1>11. ASSUME NEW h \in Hold, NEW why \in {"none", "error", "ended"}, LetGo(h, why)
       PROVE  TypeOK'
  BY <1>0, <1>11 DEF LetGo, HolderGoes
<1>12. ASSUME NEW h \in Hold, HoldOn(h) PROVE TypeOK'
  BY <1>0, <1>12 DEF HoldOn, HolderGoes, QuietNow
<1>13. ASSUME NEW h \in Hold,
              SendRelease(h) \/ ReportFailure(h) \/ RemoveLease(h) \/ RemoveRest(h)
       PROVE  TypeOK'
  BY <1>0, <1>13 DEF SendRelease, ReportFailure, RemoveLease, RemoveRest, HolderGoes
<1>14. ASSUME NEW h \in Hold, LeaveNote(h) PROVE TypeOK'
  BY <1>0, <1>14 DEF LeaveNote, HolderGoes
<1>15. ASSUME NEW h \in Hold, TakeError(h) \/ TakeEnded(h) PROVE TypeOK'
  BY <1>0, <1>15 DEF TakeError, TakeEnded, TakeNote, BeatGoes, BrowserOnly
<1>16. ASSUME NEW h \in Hold, NoError(h) \/ NoEnded(h) \/ Renew(h) \/ NothingToRenew(h)
       PROVE  TypeOK'
  BY <1>0, <1>16 DEF NoError, NoEnded, Renew, NothingToRenew, BeatGoes, BrowserOnly
<1>17. ASSUME NEW h \in Hold, FindLease(h) \/ FindNoLease(h) PROVE TypeOK'
  BY <1>0, <1>17 DEF FindLease, FindNoLease, ReleaserGoes, BrowserOnly
<1>18. ASSUME NEW h \in Hold, AskRelease(h) PROVE TypeOK'
  BY <1>0, <1>18 DEF AskRelease, ReleaserGoes, BrowserOnly, WriteRelease
<1>19. CASE Tick
  BY <1>0, <1>19, TickTyped DEF Tick
<1>20. CASE Restart
  BY <1>0, <1>20 DEF Restart
<1>21. CASE UNCHANGED vars
  BY <1>0, <1>21 DEF vars
<1> QED
  BY <1>1, <1>2, <1>3, <1>4, <1>5, <1>6, <1>7, <1>8, <1>9, <1>10, <1>11, <1>12, <1>13,
     <1>14, <1>15, <1>16, <1>17, <1>18, <1>19, <1>20, <1>21
     DEF Next, StarterStep, HolderStep, Prepared, BrowserStep, HoldFails, SeesRelease,
         LeaseRunsOut, CapIsReached

\* The children that serve "hold" and "release" touch their files only.
LEMMA BrowserSteps ==
  ASSUME NEW h \in Hold, BrowserStep(h)
  PROVE  /\ UNCHANGED <<starterVars, holderVars, pid, engineVars, restarts>>
         /\ \/ Renew(h) /\ UNCHANGED <<note, oldNote, release>>
            \/ AskRelease(h) /\ UNCHANGED <<note, oldNote, lease, silent>>
            \/ (TakeError(h) \/ TakeEnded(h)) /\ UNCHANGED <<lease, release, silent>>
            \/ UNCHANGED <<fileVars, silent>>
BY DEF BrowserStep, TakeError, NoError, TakeEnded, NoEnded, Renew, NothingToRenew, FindLease,
       FindNoLease, AskRelease, TakeNote, BeatGoes, ReleaserGoes, BrowserOnly, fileVars

\* A holder touches neither the press nor the browser.
LEMMA HolderSteps ==
  ASSUME NEW h \in Hold, HolderStep(h) \/ Prepared(h)
  PROVE  UNCHANGED <<starterVars, browserVars, restarts>>
BY DEF HolderStep, Prepared, WritePid, RemoveLease, RemoveRest, PrepareFails, TakenOver,
       StartOpening, OpenFails, Press, PressRefused, PressLost, SendRelease, LeaveNote,
       ReportFailure, PressIsOut, HoldOn, HolderGoes, LetGo, HoldFails, SeesRelease,
       LeaseRunsOut, CapIsReached

\* A holder lets go in one way, for one of three reasons.
LEMMA LettingGo ==
  ASSUME NEW h \in Hold,
         HoldFails(h) \/ SeesRelease(h) \/ LeaseRunsOut(h) \/ CapIsReached(h)
  PROVE  \E why \in {"none", "error", "ended"} : LetGo(h, why)
BY DEF HoldFails, SeesRelease, LeaseRunsOut, CapIsReached

\* Every step keeps the counters within their limits.
LEMMA NextCounts == Typed /\ [Next]_vars => \A h \in Hold : CountsAt(h)'
<1> SUFFICES ASSUME Typed, [Next]_vars, NEW g \in Hold PROVE CountsAt(g)'
  OBVIOUS
<1>0. /\ starter \in [Hold -> StarterPcs] /\ holder \in [Hold -> HolderPcs]
      /\ waited \in [Hold -> 0 .. WaitTurns + PipeTurns]
      /\ spent \in [Hold -> 0 .. ConnectTurns + MaxTurns + 1]
      /\ quiet \in [Hold -> 0 .. LeaseTurns + 1]
      /\ \A h \in Hold : CountsAt(h)
  BY DEF Typed, TypeOK
<1> USE Limits
    DEF CountsAt, starterVars, holderVars, fileVars, browserVars, engineVars
<1>1. ASSUME NEW h \in Hold, TakeLock(h) \/ WaitForOthers(h) \/ Claim(h) \/ Fork(h)
      PROVE  CountsAt(g)'
  BY <1>0, <1>1 DEF TakeLock, WaitForOthers, HasWaited, Claim, Fork, PassIsOver
<1>2. ASSUME NEW h \in Hold, ForkFails(h) \/ ReadReport(h) \/ GiveUp(h) PROVE CountsAt(g)'
  BY <1>0, <1>2 DEF ForkFails, ReadReport, GiveUp, Conclude
<1>3. ASSUME NEW h \in Hold,
             \/ WritePid(h) \/ PrepareFails(h) \/ TakenOver(h) \/ StartOpening(h)
             \/ OpenFails(h) \/ Press(h) \/ PressRefused(h) \/ PressLost(h)
      PROVE  CountsAt(g)'
  BY <1>0, <1>3 DEF WritePid, PrepareFails, TakenOver, StartOpening, OpenFails, Press,
                    PressRefused, PressLost, HolderGoes
<1>4. ASSUME NEW h \in Hold, PressIsOut(h) \/ HoldOn(h) PROVE CountsAt(g)'
  BY <1>0, <1>4 DEF PressIsOut, HoldOn, HolderGoes, QuietNow
<1>5. ASSUME NEW h \in Hold, NEW why, LetGo(h, why) PROVE CountsAt(g)'
  BY <1>0, <1>5 DEF LetGo, HolderGoes
<1>6. ASSUME NEW h \in Hold,
             \/ SendRelease(h) \/ LeaveNote(h) \/ ReportFailure(h) \/ RemoveLease(h)
             \/ RemoveRest(h)
      PROVE  CountsAt(g)'
  BY <1>0, <1>6 DEF SendRelease, LeaveNote, ReportFailure, RemoveLease, RemoveRest, HolderGoes
<1>7. CASE Tick
  BY <1>0, <1>7 DEF Tick, MayWait
<1>8. CASE Restart
  BY <1>0, <1>8 DEF Restart, Running
<1>9. ASSUME UNCHANGED <<starter, holder, waited, spent, quiet>> PROVE CountsAt(g)'
  BY <1>0, <1>9
<1> QED
  BY <1>1, <1>2, <1>3, <1>4, <1>5, <1>6, <1>7, <1>8, <1>9, LettingGo, BrowserSteps
     DEF Next, vars, StarterStep, HolderStep, Prepared, MeetLive, MeetDead, Visit, AskToLetGo

\* TypeOK and the limits are kept by every step.
LEMMA NextTyped == Typed /\ [Next]_vars => Typed'
BY NextTypeOK, NextCounts DEF Typed

-----------------------------------------------------------------------------
(* Owned: the files of a hold and its processes. *)

\* Which files a hold has at each stage of its press and holder.
OwnedAt(h) ==
  /\ starter[h] \in {"new", "asking", "asleep", "claimed"} => h \notin pid
  /\ starter[h] = "claimed" => HasLease(h)
  /\ starter[h] = "killed" => ~ Running(h)
  /\ Running(h) /\ holder[h] # "tidying" => HasLease(h) /\ (holder[h] = "born" \/ h \in pid)
  /\ holder[h] = "tidying" => ~ HasLease(h)
  /\ HasLease(h) => \/ starter[h] = "claimed" \/ Running(h)
                    \/ starter[h] = "killed" \/ holder[h] = "killed"

Owned == \A h \in Hold : OwnedAt(h)

\* There are no files at the start.
LEMMA InitOwned == Init => Owned
BY DEF Init, Owned, OwnedAt, HasLease, Running

\* Every step keeps the files of a hold in step with its processes: no other press takes
\* the files of a hold that is young or runs, and no renewal brings a lease back.
LEMMA NextOwned == Typed /\ Owned /\ [Next]_vars => Owned'
<1> SUFFICES ASSUME Typed, Owned, [Next]_vars PROVE Owned'
  OBVIOUS
<1>0. /\ starter \in [Hold -> StarterPcs] /\ holder \in [Hold -> HolderPcs]
      /\ lease \in [Hold -> {"absent", "seen", "grown"}]
      /\ \A g \in Hold : CountsAt(g) /\ OwnedAt(g)
  BY DEF Typed, TypeOK, Owned
<1> SUFFICES ASSUME NEW g \in Hold PROVE OwnedAt(g)'
  BY DEF Owned
<1> USE DEF CountsAt, OwnedAt, HasLease, Running,
            starterVars, holderVars, fileVars, browserVars, engineVars
<1>1. ASSUME NEW h \in Hold,
             TakeLock(h) \/ WaitForOthers(h) \/ Claim(h) \/ Fork(h)
       PROVE OwnedAt(g)'
  BY <1>0, <1>1 DEF TakeLock, WaitForOthers, Claim, Fork, PassIsOver
<1>2. ASSUME NEW h \in Hold, NEW o \in Hold, MeetDead(h, o) PROVE OwnedAt(g)'
  BY <1>0, <1>2 DEF MeetDead, Visit, MayBeDead, IsYoung
<1>3. ASSUME NEW h \in Hold, ForkFails(h) \/ ReadReport(h) \/ GiveUp(h) PROVE OwnedAt(g)'
  BY <1>0, <1>3 DEF ForkFails, ReadReport, GiveUp, Conclude
<1>4. ASSUME NEW h \in Hold, WritePid(h) \/ RemoveLease(h) \/ RemoveRest(h) PROVE OwnedAt(g)'
  BY <1>0, <1>4 DEF WritePid, RemoveLease, RemoveRest, HolderGoes
<1>5. ASSUME NEW h \in Hold,
             \/ PrepareFails(h) \/ TakenOver(h) \/ StartOpening(h) \/ OpenFails(h)
             \/ Press(h) \/ PressRefused(h) \/ PressLost(h) \/ SendRelease(h)
             \/ LeaveNote(h) \/ ReportFailure(h)
       PROVE OwnedAt(g)'
  BY <1>0, <1>5 DEF PrepareFails, TakenOver, StartOpening, OpenFails, Press, PressRefused,
                    PressLost, SendRelease, LeaveNote, ReportFailure, HolderGoes
<1>6. ASSUME NEW h \in Hold, NEW why, LetGo(h, why) PROVE OwnedAt(g)'
  BY <1>0, <1>6 DEF LetGo, HolderGoes
<1>7. ASSUME NEW h \in Hold, PressIsOut(h) \/ HoldOn(h) PROVE OwnedAt(g)'
  BY <1>0, <1>7 DEF PressIsOut, HoldOn, HolderGoes, Cancelled
<1>8. ASSUME NEW h \in Hold, Renew(h) PROVE OwnedAt(g)'
  BY <1>0, <1>8 DEF Renew, BeatGoes, BrowserOnly
<1>9. CASE Tick
  BY <1>0, <1>9 DEF Tick
<1>10. CASE Restart
  BY <1>0, <1>10 DEF Restart
<1>11. ASSUME UNCHANGED <<starter, holder, lease, pid>> PROVE OwnedAt(g)'
  BY <1>0, <1>11
<1> QED
  BY <1>1, <1>2, <1>3, <1>4, <1>5, <1>6, <1>7, <1>8, <1>9, <1>10, <1>11
     DEF Next, vars, StarterStep, HolderStep, Prepared, BrowserStep, MeetLive, Visit, AskToLetGo,
         HoldFails, SeesRelease, LeaseRunsOut, CapIsReached, TakeError, NoError, TakeEnded,
         NoEnded, NothingToRenew, FindLease, FindNoLease, AskRelease, TakeNote, BeatGoes,
         ReleaserGoes, BrowserOnly

-----------------------------------------------------------------------------
(* Turns: the lock. *)

\* The press holds the flock.
HasTurn(h) == starter[h] \in {"asking", "asleep"}

\* Only one press has it, and only in its turn it is about to ask anybody to let go.
Turns == \A h \in Hold :
  /\ HasTurn(h) <=> lock = h
  /\ target[h] # None => starter[h] = "asking"

\* Nobody has the flock at the start.
LEMMA InitTurns == Init => Turns
BY NoneAssumption DEF Init, Turns, HasTurn

\* The flock goes from one press to the next.
LEMMA NextTurns == Typed /\ Turns /\ [Next]_vars => Turns'
<1> SUFFICES ASSUME Typed, Turns, [Next]_vars PROVE Turns'
  OBVIOUS
<1>0. /\ starter \in [Hold -> StarterPcs] /\ target \in [Hold -> Hold \cup {None}]
      /\ lock \in Hold \cup {None}
  BY DEF Typed, TypeOK
<1> USE NoneAssumption
    DEF Turns, HasTurn, starterVars, holderVars, fileVars, browserVars, engineVars
<1>1. ASSUME NEW h \in Hold,
             TakeLock(h) \/ AskToLetGo(h) \/ WaitForOthers(h) \/ Claim(h) \/ Fork(h)
       PROVE Turns'
  BY <1>0, <1>1 DEF TakeLock, AskToLetGo, WaitForOthers, Claim, Fork, PassIsOver
<1>2. ASSUME NEW h \in Hold, NEW o \in Hold, MeetLive(h, o) \/ MeetDead(h, o) PROVE Turns'
  BY <1>0, <1>2 DEF MeetLive, MeetDead, Visit
<1>3. ASSUME NEW h \in Hold, ForkFails(h) \/ ReadReport(h) \/ GiveUp(h) PROVE Turns'
  BY <1>0, <1>3 DEF ForkFails, ReadReport, GiveUp, Conclude
<1>4. CASE Tick
  BY <1>0, <1>4 DEF Tick
<1>5. CASE Restart
  BY <1>0, <1>5 DEF Restart
<1>6. ASSUME UNCHANGED <<lock, starter, target>> PROVE Turns'
  BY <1>0, <1>6
<1>7. ASSUME NEW h \in Hold, HolderStep(h) \/ Prepared(h) \/ BrowserStep(h)
      PROVE  UNCHANGED starterVars
  BY <1>7, HolderSteps, BrowserSteps
<1> QED
  BY <1>1, <1>2, <1>3, <1>4, <1>5, <1>6, <1>7
     DEF Next, vars, StarterStep

-----------------------------------------------------------------------------
(* OnlyOne, Asked: one hold that can press, and why. *)

\* Nobody has told this hold to let go.
Unasked(h) == HasLease(h) /\ starter[h] # "killed" /\ release[h] = "absent"

\* The press has been through the files of o at least once, and left a release file if
\* there was a lease.
Visited(h, o) == \/ starter[h] = "asleep" \/ waited[h] > 0
                 \/ o \notin todo[h] /\ o # target[h]

\* The holder is past its last look at the files before it presses, and has not sent its
\* release yet.
Active(h) == holder[h] \in {"opening", "pressed", "sleeping", "looking", "releasing"}

\* The hold keeps its key down, or can still come to.
MayPress(h) == Active(h) \/ ((starter[h] = "claimed" \/ holder[h] \in {"born", "preparing"})
                             /\ ~ Cancelled(h))

\* That is true of one hold at a time.
OnlyOne == \A h, o \in Hold : h # o =>
  /\ ~ (Unasked(h) /\ Unasked(o))
  /\ ~ (MayPress(h) /\ MayPress(o))

\* What the press h knows of the hold o.
AskedAt(h, o) ==
  /\ Visited(h, o) => ~ Unasked(o)
  /\ starter[h] = "asking" /\ o \notin todo[h] /\ ~ anyLive[h] => ~ MayPress(o)
  /\ target[h] # None => anyLive[h]

\* How far o can have come since h asked it, by the turns that h has waited: it cannot
\* have started to connect after it was asked.
AwaitedAt(h, o) ==
  /\ holder[o] = "opening" => waited[h] <= spent[o]
  /\ holder[o] \in {"pressed", "sleeping"} => waited[h] <= ConnectTurns
  /\ holder[o] \in {"looking", "releasing"} => waited[h] <= ConnectTurns + 1

\* Every other hold, while h has its turn.
Asked == \A h, o \in Hold : HasTurn(h) /\ h # o => AskedAt(h, o) /\ AwaitedAt(h, o)

\* A hold that can still press has its lease; unless it is connecting already, it has not
\* been asked to let go.
LEMMA MayPressUnlessAsked ==
  ASSUME Typed, Owned, NEW o \in Hold
  PROVE  /\ MayPress(o) => HasLease(o) /\ starter[o] # "killed"
         /\ MayPress(o) /\ ~ Active(o) => Unasked(o)
         /\ Running(o) /\ ~ Cancelled(o) => Unasked(o)
BY DEF Owned, OwnedAt, MayPress, Active, Unasked, Cancelled, Running, HasLease

\* The claim of a lease is the only step that makes a hold able to press, or unasked.
LEMMA NoNewcomer ==
  ASSUME Typed, Owned, [Next]_vars, NEW o \in Hold, ~ Claim(o)
  PROVE  /\ Unasked(o)' => Unasked(o)
         /\ MayPress(o)' => MayPress(o)
<1>0. /\ starter \in [Hold -> StarterPcs] /\ holder \in [Hold -> HolderPcs]
      /\ lease \in [Hold -> {"absent", "seen", "grown"}]
      /\ release \in [Hold -> {"absent", "own", "other"}]
      /\ CountsAt(o) /\ OwnedAt(o)
  BY DEF Typed, TypeOK, Owned
<1> DEFINE Goal == (Unasked(o)' => Unasked(o)) /\ (MayPress(o)' => MayPress(o))
<1> USE DEF CountsAt, OwnedAt, Unasked, MayPress, Active, Running, Cancelled, HasLease,
            starterVars, holderVars, fileVars, browserVars, engineVars
<1>1. ASSUME NEW h \in Hold, TakeLock(h) \/ WaitForOthers(h) \/ Fork(h) PROVE Goal
  BY <1>0, <1>1 DEF TakeLock, WaitForOthers, Fork, PassIsOver
<1>2. ASSUME NEW h \in Hold, Claim(h) PROVE Goal
  BY <1>0, <1>2 DEF Claim
<1>3. ASSUME NEW h \in Hold, NEW q \in Hold, MeetDead(h, q) PROVE Goal
  BY <1>0, <1>3 DEF MeetDead, Visit
<1>4. ASSUME NEW h \in Hold, AskToLetGo(h) PROVE Goal
  BY <1>0, <1>4 DEF AskToLetGo, WriteRelease
<1>5. ASSUME NEW h \in Hold, ForkFails(h) \/ ReadReport(h) PROVE Goal
  BY <1>0, <1>5 DEF ForkFails, ReadReport, Conclude
<1>6. ASSUME NEW h \in Hold, GiveUp(h) PROVE Goal
  BY <1>0, <1>6 DEF GiveUp, WriteRelease, Conclude
<1>7. ASSUME NEW h \in Hold,
             \/ WritePid(h) \/ PrepareFails(h) \/ TakenOver(h) \/ StartOpening(h)
             \/ OpenFails(h) \/ Press(h) \/ PressRefused(h) \/ PressLost(h)
      PROVE  Goal
  BY <1>0, <1>7 DEF WritePid, PrepareFails, TakenOver, StartOpening, OpenFails, Press,
                    PressRefused, PressLost, HolderGoes
<1>8. ASSUME NEW h \in Hold, PressIsOut(h) \/ HoldOn(h) PROVE Goal
  BY <1>0, <1>8 DEF PressIsOut, HoldOn, HolderGoes
<1>9. ASSUME NEW h \in Hold, NEW why, LetGo(h, why) PROVE Goal
  BY <1>0, <1>9 DEF LetGo, HolderGoes
<1>10. ASSUME NEW h \in Hold,
              \/ SendRelease(h) \/ LeaveNote(h) \/ ReportFailure(h) \/ RemoveLease(h)
              \/ RemoveRest(h)
       PROVE  Goal
  BY <1>0, <1>10 DEF SendRelease, LeaveNote, ReportFailure, RemoveLease, RemoveRest, HolderGoes
<1>11. ASSUME NEW h \in Hold, BrowserStep(h) PROVE Goal
  BY <1>0, <1>11, BrowserSteps DEF Renew, AskRelease, WriteRelease
<1>12. CASE Tick
  BY <1>0, <1>12 DEF Tick
<1>13. CASE Restart
  BY <1>0, <1>13 DEF Restart
<1>14. ASSUME UNCHANGED <<starter, holder, lease, release>> PROVE Goal
  BY <1>14
<1> QED
  BY <1>1, <1>2, <1>3, <1>4, <1>5, <1>6, <1>7, <1>8, <1>9, <1>10, <1>11, <1>12, <1>13, <1>14,
     LettingGo
     DEF Next, vars, StarterStep, HolderStep, Prepared, MeetLive, Visit

\* When a press claims its lease no other hold can press: it met no live one, or it has
\* waited so long that those it asked have let go.
LEMMA ClaimsAlone ==
  ASSUME Typed, Owned, Turns, Asked, NEW c \in Hold, Claim(c), NEW o \in Hold, o # c
  PROVE  ~ Unasked(o) /\ ~ MayPress(o)
<1>1. /\ starter[c] = "asking" /\ todo[c] = {} /\ target[c] = None
      /\ ~ anyLive[c] \/ waited[c] >= WaitTurns
  BY DEF Claim, PassIsOver, HasWaited
<1>2. ~ Unasked(o)
  BY <1>1, NoneAssumption DEF Asked, AskedAt, HasTurn, Visited
<1>3. ~ anyLive[c] => ~ MayPress(o)
  BY <1>1 DEF Asked, AskedAt, HasTurn
<1>4. waited[c] >= WaitTurns => ~ Active(o)
  BY <1>1, Limits DEF Asked, AwaitedAt, HasTurn, Active, Typed, TypeOK, CountsAt
<1> QED
  BY <1>1, <1>2, <1>3, <1>4, MayPressUnlessAsked

\* No hold can press at the start.
LEMMA InitOnlyOne == Init => OnlyOne /\ Asked
BY DEF Init, OnlyOne, Asked, Unasked, MayPress, Active, HasTurn, HasLease

\* No step lets a second hold press.
LEMMA NextOnlyOne ==
  Typed /\ Owned /\ Turns /\ OnlyOne /\ Asked /\ [Next]_vars => OnlyOne'
<1> SUFFICES ASSUME Typed, Owned, Turns, OnlyOne, Asked, [Next]_vars,
                    NEW h \in Hold, NEW o \in Hold, h # o
             PROVE  (~ (Unasked(h) /\ Unasked(o)) /\ ~ (MayPress(h) /\ MayPress(o)))'
  BY DEF OnlyOne
<1>1. CASE ~ Claim(h) /\ ~ Claim(o)
  BY <1>1, NoNewcomer DEF OnlyOne
<1>2. ASSUME Claim(h) PROVE ~ Claim(o)
  BY <1>2 DEF Claim, PassIsOver, Turns, HasTurn
<1>3. CASE Claim(h)
  BY <1>2, <1>3, ClaimsAlone, NoNewcomer
<1>4. CASE Claim(o)
  BY <1>2, <1>4, ClaimsAlone, NoNewcomer
<1> QED
  BY <1>1, <1>3, <1>4

\* What a press knows of the others stays true during its turn.
LEMMA KeepsAsking ==
  ASSUME Typed, Owned, Turns, [Next]_vars, NEW h \in Hold, NEW o \in Hold, h # o,
         HasTurn(h), AskedAt(h, o), HasTurn(h)'
  PROVE  AskedAt(h, o)'
<1>0. /\ starter \in [Hold -> StarterPcs] /\ target \in [Hold -> Hold \cup {None}]
      /\ todo \in [Hold -> SUBSET Hold] /\ anyLive \in [Hold -> BOOLEAN]
      /\ waited \in [Hold -> 0 .. WaitTurns + PipeTurns]
      /\ lease \in [Hold -> {"absent", "seen", "grown"}]
      /\ release \in [Hold -> {"absent", "own", "other"}]
      /\ OwnedAt(o) /\ CountsAt(h)
  BY DEF Typed, TypeOK, Owned
<1>1. ~ Claim(o)
  BY DEF Claim, PassIsOver, Turns, HasTurn
<1>2. (Unasked(o)' => Unasked(o)) /\ (MayPress(o)' => MayPress(o))
  BY <1>1, NoNewcomer
<1> USE NoneAssumption, Limits
    DEF AskedAt, Visited, HasTurn, starterVars, holderVars, fileVars, browserVars, engineVars
<1>3. ASSUME NEW q \in Hold, TakeLock(q) \/ WaitForOthers(q) \/ Claim(q) \/ Fork(q)
      PROVE  AskedAt(h, o)'
  BY <1>0, <1>2, <1>3 DEF TakeLock, WaitForOthers, Claim, Fork, PassIsOver
<1>4. ASSUME NEW q \in Hold, NEW r \in Hold, MeetLive(q, r) PROVE AskedAt(h, o)'
  BY <1>0, <1>2, <1>4 DEF MeetLive, Visit
<1>5. ASSUME NEW q \in Hold, NEW r \in Hold, MeetDead(q, r) PROVE AskedAt(h, o)'
  <2>1. CASE r = o
    <3>1. ~ Unasked(o)'
      BY <1>0, <1>5, <2>1 DEF MeetDead, Unasked, HasLease
    <3>2. ~ MayPress(o)'
      BY <1>0, <1>2, <1>5, <2>1
         DEF MeetDead, Visit, MayBeDead, IsYoung, MayPress, Active, OwnedAt, Running, HasLease,
             Cancelled
    <3> QED
      BY <1>0, <1>5, <3>1, <3>2 DEF MeetDead, Visit
  <2>2. CASE r # o
    BY <1>0, <1>2, <1>5, <2>2 DEF MeetDead, Visit
  <2> QED
    BY <2>1, <2>2
<1>6. ASSUME NEW q \in Hold, AskToLetGo(q) PROVE AskedAt(h, o)'
  <2>1. target[q] = o => ~ Unasked(o)'
    BY <1>0, <1>6 DEF AskToLetGo, WriteRelease, Unasked
  <2> QED
    BY <1>0, <1>2, <1>6, <2>1 DEF AskToLetGo
<1>7. ASSUME NEW q \in Hold, ForkFails(q) \/ ReadReport(q) \/ GiveUp(q) PROVE AskedAt(h, o)'
  BY <1>0, <1>2, <1>7 DEF ForkFails, ReadReport, GiveUp, Conclude
<1>8. CASE Tick
  <2>1. starter[h] = "asleep" /\ target[h] = None
    BY <1>0, <1>8 DEF Tick, MayWait, Turns
  <2>2. starter'[h] = "asking" /\ todo'[h] = Hold \ {h} /\ target' = target
    BY <1>0, <1>8, <2>1 DEF Tick
  <2> QED
    BY <1>2, <2>1, <2>2
<1>9. ~ Restart
  BY <1>0 DEF Restart
<1>10. ASSUME UNCHANGED starterVars PROVE AskedAt(h, o)'
  BY <1>2, <1>10
<1> QED
  BY <1>3, <1>4, <1>5, <1>6, <1>7, <1>8, <1>9, <1>10, HolderSteps, BrowserSteps
     DEF Next, vars, StarterStep

\* A hold that was asked comes no further than connecting, pressing and one look.
LEMMA KeepsWaiting ==
  ASSUME Typed, Owned, Turns, [Next]_vars, NEW h \in Hold, NEW o \in Hold, h # o,
         HasTurn(h), AskedAt(h, o), AwaitedAt(h, o), HasTurn(h)'
  PROVE  AwaitedAt(h, o)'
<1>0. /\ starter \in [Hold -> StarterPcs] /\ holder \in [Hold -> HolderPcs]
      /\ waited \in [Hold -> 0 .. WaitTurns + PipeTurns]
      /\ spent \in [Hold -> 0 .. ConnectTurns + MaxTurns + 1]
      /\ CountsAt(h) /\ CountsAt(o)
  BY DEF Typed, TypeOK
<1>1. waited[h] > 0 /\ Running(o) => Cancelled(o)
  BY MayPressUnlessAsked DEF AskedAt, Visited
<1> USE Limits
    DEF AwaitedAt, HasTurn, CountsAt, Running,
        starterVars, holderVars, fileVars, browserVars, engineVars
<1>2. ASSUME NEW q \in Hold, TakeLock(q) \/ WaitForOthers(q) \/ Claim(q) \/ Fork(q)
      PROVE  AwaitedAt(h, o)'
  BY <1>0, <1>2 DEF TakeLock, WaitForOthers, Claim, Fork, PassIsOver
<1>3. ASSUME NEW q \in Hold, ForkFails(q) \/ ReadReport(q) \/ GiveUp(q) PROVE AwaitedAt(h, o)'
  BY <1>0, <1>3 DEF ForkFails, ReadReport, GiveUp, Conclude
<1>4. ASSUME NEW q \in Hold,
             \/ WritePid(q) \/ PrepareFails(q) \/ TakenOver(q) \/ OpenFails(q) \/ PressRefused(q)
             \/ PressLost(q) \/ Press(q) \/ PressIsOut(q)
      PROVE  AwaitedAt(h, o)'
  BY <1>0, <1>4 DEF WritePid, PrepareFails, TakenOver, OpenFails, PressRefused, PressLost, Press,
                    PressIsOut, HolderGoes
<1>5. ASSUME NEW q \in Hold, StartOpening(q) \/ HoldOn(q) PROVE AwaitedAt(h, o)'
  BY <1>0, <1>1, <1>5 DEF StartOpening, HoldOn, HolderGoes
<1>6. ASSUME NEW q \in Hold, NEW why, LetGo(q, why) PROVE AwaitedAt(h, o)'
  BY <1>0, <1>6 DEF LetGo, HolderGoes
<1>7. ASSUME NEW q \in Hold,
             \/ SendRelease(q) \/ LeaveNote(q) \/ ReportFailure(q) \/ RemoveLease(q)
             \/ RemoveRest(q)
      PROVE  AwaitedAt(h, o)'
  BY <1>0, <1>7 DEF SendRelease, LeaveNote, ReportFailure, RemoveLease, RemoveRest, HolderGoes
<1>8. CASE Tick
  BY <1>0, <1>8 DEF Tick, MayWait
<1>9. ~ Restart
  BY <1>0 DEF Restart
<1>10. ASSUME UNCHANGED <<starter, holder, waited, spent>> PROVE AwaitedAt(h, o)'
  BY <1>10
<1> QED
  BY <1>2, <1>3, <1>4, <1>5, <1>6, <1>7, <1>8, <1>9, <1>10, LettingGo, BrowserSteps
     DEF Next, vars, StarterStep, HolderStep, Prepared, MeetLive, MeetDead, Visit, AskToLetGo

\* At the beginning of its turn a press has visited and awaited nobody.
LEMMA TurnBegins ==
  ASSUME Typed, Turns, [Next]_vars, NEW h \in Hold, NEW o \in Hold, h # o,
         ~ HasTurn(h), HasTurn(h)'
  PROVE  AskedAt(h, o)' /\ AwaitedAt(h, o)'
<1>0. /\ starter \in [Hold -> StarterPcs] /\ target \in [Hold -> Hold \cup {None}]
      /\ todo \in [Hold -> SUBSET Hold]
      /\ spent \in [Hold -> 0 .. ConnectTurns + MaxTurns + 1]
      /\ CountsAt(h)
  BY DEF Typed, TypeOK
<1>1. TakeLock(h)
  BY <1>0, HolderSteps, BrowserSteps
     DEF HasTurn, Next, vars, StarterStep, MeetLive, MeetDead, Visit, AskToLetGo, TakeLock,
         WaitForOthers, PassIsOver, Claim, Fork, ForkFails, ReadReport, GiveUp, Conclude, Tick,
         Restart, starterVars
<1>2. /\ starter'[h] = "asking" /\ todo'[h] = Hold \ {h} /\ target'[h] = None
      /\ waited'[h] = 0 /\ spent' = spent
  BY <1>0, <1>1 DEF TakeLock, Turns, holderVars, CountsAt
<1> QED
  BY <1>0, <1>2, Limits DEF AskedAt, AwaitedAt, Visited

\* Every step keeps account of whom the press in its turn has asked.
LEMMA NextAsked == Typed /\ Owned /\ Turns /\ Asked /\ [Next]_vars => Asked'
<1> SUFFICES ASSUME Typed, Owned, Turns, Asked, [Next]_vars,
                    NEW h \in Hold, NEW o \in Hold, HasTurn(h)', h # o
             PROVE  AskedAt(h, o)' /\ AwaitedAt(h, o)'
  BY DEF Asked
<1>1. CASE HasTurn(h)
  BY <1>1, KeepsAsking, KeepsWaiting DEF Asked
<1>2. CASE ~ HasTurn(h)
  BY <1>2, TurnBegins
<1> QED
  BY <1>1, <1>2

-----------------------------------------------------------------------------
(* OneAtATime. *)

\* No step makes the engine repeat another key than that of the active holder.
LEMMA NextOneAtATime ==
  Typed /\ OnlyOne /\ OneAtATime /\ [Next]_vars => OneAtATime'
<1> SUFFICES ASSUME Typed, OnlyOne, OneAtATime, [Next]_vars, NEW g \in Hold,
                    holder'[g] \in {"pressed", "sleeping", "looking"}
             PROVE  engine' = g
  BY DEF OneAtATime
<1>0. holder \in [Hold -> HolderPcs]
  BY DEF Typed, TypeOK
<1> USE DEF OneAtATime, starterVars, holderVars, browserVars, engineVars
<1>1. ASSUME NEW h \in Hold, Press(h) PROVE engine' = g
  BY <1>0, <1>1 DEF Press, HolderGoes, OnlyOne, MayPress, Active
<1>2. ASSUME NEW h \in Hold, SendRelease(h) PROVE engine' = g
  BY <1>0, <1>2 DEF SendRelease, HolderGoes, OnlyOne, MayPress, Active
<1>3. ASSUME NEW h \in Hold, PressIsOut(h) \/ HoldOn(h) PROVE engine' = g
  BY <1>0, <1>3 DEF PressIsOut, HoldOn, HolderGoes
<1>4. ASSUME NEW h \in Hold,
             \/ WritePid(h) \/ PrepareFails(h) \/ TakenOver(h) \/ StartOpening(h)
             \/ OpenFails(h) \/ PressRefused(h) \/ PressLost(h) \/ LeaveNote(h)
             \/ ReportFailure(h) \/ RemoveLease(h) \/ RemoveRest(h) \/ Fork(h)
      PROVE  engine' = g
  BY <1>0, <1>4 DEF WritePid, PrepareFails, TakenOver, StartOpening, OpenFails, PressRefused,
                    PressLost, LeaveNote, ReportFailure, RemoveLease, RemoveRest, Fork, HolderGoes
<1>5. ASSUME NEW h \in Hold, NEW why, LetGo(h, why) PROVE engine' = g
  BY <1>0, <1>5 DEF LetGo, HolderGoes
<1>6. CASE Tick
  BY <1>0, <1>6, NoneAssumption DEF Tick, MayWait
<1>7. ~ Restart
  BY DEF Restart, Running
<1>8. ASSUME UNCHANGED <<holder, engine>> PROVE engine' = g
  BY <1>8
<1> QED
  BY <1>1, <1>2, <1>3, <1>4, <1>5, <1>6, <1>7, <1>8, LettingGo, BrowserSteps
     DEF Next, vars, StarterStep, HolderStep, Prepared, TakeLock, MeetLive, MeetDead, Visit,
         AskToLetGo, WaitForOthers, Claim, ForkFails, ReadReport, GiveUp

-----------------------------------------------------------------------------
(* The answers. *)

\* What the holder reports, and its press tells the browser, by where the holder is.
AnsweredAt(h) ==
  /\ holder[h] \in {"none", "born", "preparing", "opening"} => h \notin pressed
  /\ report[h] = "ok" => h \in pressed
  /\ report[h] = "gone" => h \notin pressed /\ (~ Running(h) \/ holder[h] \in {"removing", "tidying"})
  /\ holder[h] = "pressed" => h \in pressed
  /\ holder[h] \in {"none", "born", "preparing", "opening", "pressed", "failing"} =>
       report[h] = "none"
  /\ told[h] \in {"ok", "gone"} => report[h] = told[h]

Answered == \A h \in Hold : AnsweredAt(h)

\* Every step keeps report and answer true.
LEMMA NextAnswered == Typed /\ Answered /\ [Next]_vars => Answered'
<1> SUFFICES ASSUME Typed, Answered, [Next]_vars, NEW g \in Hold PROVE AnsweredAt(g)'
  BY DEF Answered
<1>0. /\ holder \in [Hold -> HolderPcs] /\ told \in [Hold -> Tellings]
      /\ report \in [Hold -> {"none", "ok", "gone", "error"}]
      /\ AnsweredAt(g) /\ \A h \in Hold : CountsAt(h)
  BY DEF Typed, TypeOK, Answered
<1> USE DEF AnsweredAt, Running, starterVars, holderVars, browserVars, engineVars
<1>1. ASSUME NEW h \in Hold, Fork(h) PROVE AnsweredAt(g)'
  BY <1>0, <1>1 DEF Fork, CountsAt
<1>2. ASSUME NEW h \in Hold, ForkFails(h) \/ ReadReport(h) \/ GiveUp(h) PROVE AnsweredAt(g)'
  BY <1>0, <1>2 DEF ForkFails, ReadReport, GiveUp, Conclude
<1>3. ASSUME NEW h \in Hold,
             \/ WritePid(h) \/ PrepareFails(h) \/ TakenOver(h) \/ StartOpening(h)
             \/ OpenFails(h) \/ Press(h) \/ PressRefused(h) \/ PressLost(h) \/ PressIsOut(h)
      PROVE  AnsweredAt(g)'
  BY <1>0, <1>3 DEF WritePid, PrepareFails, TakenOver, StartOpening, OpenFails, Press,
                    PressRefused, PressLost, PressIsOut, HolderGoes
<1>4. ASSUME NEW h \in Hold, NEW why, LetGo(h, why) PROVE AnsweredAt(g)'
  BY <1>0, <1>4 DEF LetGo, HolderGoes
<1>5. ASSUME NEW h \in Hold,
             \/ HoldOn(h) \/ SendRelease(h) \/ LeaveNote(h) \/ ReportFailure(h)
             \/ RemoveLease(h) \/ RemoveRest(h)
      PROVE  AnsweredAt(g)'
  BY <1>0, <1>5 DEF HoldOn, SendRelease, LeaveNote, ReportFailure, RemoveLease, RemoveRest,
                    HolderGoes
<1>6. CASE Tick
  BY <1>0, <1>6 DEF Tick
<1>7. CASE Restart
  BY <1>0, <1>7 DEF Restart
<1>8. ASSUME UNCHANGED <<holder, report, told, pressed>> PROVE AnsweredAt(g)'
  BY <1>0, <1>8
<1> QED
  BY <1>1, <1>2, <1>3, <1>4, <1>5, <1>6, <1>7, <1>8, LettingGo, BrowserSteps
     DEF Next, vars, StarterStep, HolderStep, Prepared, TakeLock, MeetLive, MeetDead, Visit,
         AskToLetGo, WaitForOthers, Claim

-----------------------------------------------------------------------------
(* The lease clock. *)

\* The time since the last renewal, by what the holder has seen of it: it sees a renewal
\* at its next look, at most one turn later.
QuietAt(h) ==
  /\ holder[h] \in {"sleeping", "looking"} /\ lease[h] = "seen" => silent[h] <= quiet[h] + 1
  /\ holder[h] = "sleeping" /\ lease[h] = "grown" => silent[h] = 0
  /\ holder[h] = "looking" /\ lease[h] = "grown" => silent[h] <= 1

Quieted == \A h \in Hold : QuietAt(h)

\* Every step keeps the two clocks of the lease together.
LEMMA NextQuieted == Typed /\ Owned /\ Quieted /\ [Next]_vars => Quieted'
<1> SUFFICES ASSUME Typed, Owned, Quieted, [Next]_vars, NEW g \in Hold PROVE QuietAt(g)'
  BY DEF Quieted
<1>0. /\ holder \in [Hold -> HolderPcs] /\ lease \in [Hold -> {"absent", "seen", "grown"}]
      /\ silent \in [Hold -> 0 .. LeaseTurns + 3] /\ quiet \in [Hold -> 0 .. LeaseTurns + 1]
      /\ QuietAt(g) /\ OwnedAt(g) /\ CountsAt(g)
  BY DEF Typed, TypeOK, Quieted, Owned
<1> USE Limits DEF QuietAt, HasLease, starterVars, holderVars, fileVars, browserVars, engineVars
<1>1. ASSUME NEW h \in Hold, Claim(h) \/ Fork(h) PROVE QuietAt(g)'
  BY <1>0, <1>1 DEF Claim, Fork, PassIsOver, CountsAt
<1>2. ASSUME NEW h \in Hold, NEW o \in Hold, MeetDead(h, o) PROVE QuietAt(g)'
  BY <1>0, <1>2 DEF MeetDead, Visit
<1>3. ASSUME NEW h \in Hold, ForkFails(h) PROVE QuietAt(g)'
  BY <1>0, <1>3 DEF ForkFails
<1>4. ASSUME NEW h \in Hold,
             \/ WritePid(h) \/ PrepareFails(h) \/ TakenOver(h) \/ StartOpening(h)
             \/ OpenFails(h) \/ Press(h) \/ PressRefused(h) \/ PressLost(h)
      PROVE  QuietAt(g)'
  BY <1>0, <1>4 DEF WritePid, PrepareFails, TakenOver, StartOpening, OpenFails, Press,
                    PressRefused, PressLost, HolderGoes
<1>5. ASSUME NEW h \in Hold, PressIsOut(h) PROVE QuietAt(g)'
  BY <1>0, <1>5 DEF PressIsOut, HolderGoes, OwnedAt, Running
<1>6. ASSUME NEW h \in Hold, HoldOn(h) PROVE QuietAt(g)'
  BY <1>0, <1>6 DEF HoldOn, HolderGoes, QuietNow, Cancelled
<1>7. ASSUME NEW h \in Hold, NEW why, LetGo(h, why) PROVE QuietAt(g)'
  BY <1>0, <1>7 DEF LetGo, HolderGoes
<1>8. ASSUME NEW h \in Hold,
             \/ SendRelease(h) \/ LeaveNote(h) \/ ReportFailure(h) \/ RemoveLease(h)
             \/ RemoveRest(h)
      PROVE  QuietAt(g)'
  BY <1>0, <1>8 DEF SendRelease, LeaveNote, ReportFailure, RemoveLease, RemoveRest, HolderGoes
<1>9. ASSUME NEW h \in Hold, Renew(h) PROVE QuietAt(g)'
  BY <1>0, <1>9 DEF Renew, BeatGoes, BrowserOnly
<1>10. CASE Tick
  BY <1>0, <1>10 DEF Tick, MayWait
<1>11. CASE Restart
  BY <1>0, <1>11 DEF Restart, Running
<1>12. ASSUME UNCHANGED <<holder, lease, quiet, silent>> PROVE QuietAt(g)'
  BY <1>0, <1>12
<1> QED
  BY <1>1, <1>2, <1>3, <1>4, <1>5, <1>6, <1>7, <1>8, <1>9, <1>10, <1>11, <1>12, LettingGo,
     BrowserSteps
     DEF Next, vars, StarterStep, HolderStep, Prepared, TakeLock, MeetLive, Visit,
         AskToLetGo, WaitForOthers, ReadReport, GiveUp

-----------------------------------------------------------------------------
(* The notes. *)

\* A holder that ends by itself leaves its note before it removes its lease.
NotedAt(h) ==
  /\ cause[h] # "none" =>
       holder[h] \in {"releasing", "noting", "removing", "tidying", "ended", "killed"}
  /\ cause[h] # "none" /\ holder[h] \in {"removing", "tidying", "ended"} =>
       note[h] \in {cause[h], "taken", "swept"}

Noted == \A h \in Hold : NotedAt(h)

\* Every step keeps the note, or lets it be taken or swept.
LEMMA NextNoted == Typed /\ Noted /\ [Next]_vars => Noted'
<1> SUFFICES ASSUME Typed, Noted, [Next]_vars, NEW g \in Hold PROVE NotedAt(g)'
  BY DEF Noted
<1>0. /\ holder \in [Hold -> HolderPcs] /\ note \in [Hold -> Notes]
      /\ cause \in [Hold -> {"none", "error", "ended"}]
      /\ NotedAt(g) /\ \A h \in Hold : CountsAt(h)
  BY DEF Typed, TypeOK, Noted
<1> USE DEF NotedAt, starterVars, holderVars, fileVars, browserVars, engineVars
<1>1. ASSUME NEW h \in Hold, Fork(h) PROVE NotedAt(g)'
  BY <1>0, <1>1 DEF Fork, CountsAt
<1>2. ASSUME NEW h \in Hold, NEW o \in Hold, MeetDead(h, o) PROVE NotedAt(g)'
  BY <1>0, <1>2 DEF MeetDead, Visit
<1>3. ASSUME NEW h \in Hold,
             \/ WritePid(h) \/ PrepareFails(h) \/ TakenOver(h) \/ StartOpening(h)
             \/ OpenFails(h) \/ Press(h) \/ PressRefused(h) \/ PressLost(h) \/ PressIsOut(h)
      PROVE  NotedAt(g)'
  BY <1>0, <1>3 DEF WritePid, PrepareFails, TakenOver, StartOpening, OpenFails, Press,
                    PressRefused, PressLost, PressIsOut, HolderGoes
<1>4. ASSUME NEW h \in Hold, NEW why, LetGo(h, why) PROVE NotedAt(g)'
  BY <1>0, <1>4 DEF LetGo, HolderGoes
<1>5. ASSUME NEW h \in Hold, LeaveNote(h) PROVE NotedAt(g)'
  BY <1>0, <1>5 DEF LeaveNote, HolderGoes
<1>6. ASSUME NEW h \in Hold,
             \/ HoldOn(h) \/ SendRelease(h) \/ ReportFailure(h) \/ RemoveLease(h) \/ RemoveRest(h)
      PROVE  NotedAt(g)'
  BY <1>0, <1>6 DEF HoldOn, SendRelease, ReportFailure, RemoveLease, RemoveRest, HolderGoes
<1>7. ASSUME NEW h \in Hold, TakeError(h) \/ TakeEnded(h) PROVE NotedAt(g)'
  BY <1>0, <1>7 DEF TakeError, TakeEnded, TakeNote, BeatGoes, BrowserOnly
<1>8. CASE Tick
  BY <1>0, <1>8 DEF Tick
<1>9. CASE Restart
  BY <1>0, <1>9 DEF Restart
<1>10. ASSUME UNCHANGED <<holder, cause, note>> PROVE NotedAt(g)'
  BY <1>0, <1>10
<1> QED
  BY <1>1, <1>2, <1>3, <1>4, <1>5, <1>6, <1>7, <1>8, <1>9, <1>10, LettingGo, BrowserSteps
     DEF Next, vars, StarterStep, HolderStep, Prepared, TakeLock, MeetLive, Visit,
         AskToLetGo, WaitForOthers, Claim, ForkFails, ReadReport, GiveUp

-----------------------------------------------------------------------------
(* The cap. *)

\* A key has been down for no longer than its holder's clock says.
DownInTime ==
  engine # None =>
    /\ down <= MaxTurns + 1
    /\ holder[engine] \in {"pressed", "sleeping", "looking"} => down <= spent[engine]

\* Every step keeps the key within the cap.
LEMMA NextDownInTime ==
  Typed /\ OnlyOne /\ OneAtATime /\ DownInTime /\ [Next]_vars => DownInTime'
<1> SUFFICES ASSUME Typed, OnlyOne, OneAtATime, DownInTime, [Next]_vars PROVE DownInTime'
  OBVIOUS
<1>0. /\ holder \in [Hold -> HolderPcs] /\ engine \in Hold \cup {None}
      /\ spent \in [Hold -> 0 .. ConnectTurns + MaxTurns + 1] /\ down \in 0 .. MaxTurns + 3
      /\ \A h \in Hold : CountsAt(h)
  BY DEF Typed, TypeOK
<1> USE Limits, NoneAssumption
    DEF DownInTime, starterVars, holderVars, browserVars, engineVars
<1>1. ASSUME NEW h \in Hold, Press(h) PROVE DownInTime'
  BY <1>0, <1>1 DEF Press, HolderGoes
<1>2. ASSUME NEW h \in Hold, SendRelease(h) PROVE DownInTime'
  BY <1>0, <1>2 DEF SendRelease, HolderGoes
<1>3. ASSUME NEW h \in Hold, PressIsOut(h) \/ HoldOn(h) PROVE DownInTime'
  BY <1>0, <1>3 DEF PressIsOut, HoldOn, HolderGoes
<1>4. ASSUME NEW h \in Hold,
             \/ WritePid(h) \/ PrepareFails(h) \/ TakenOver(h) \/ StartOpening(h)
             \/ OpenFails(h) \/ PressRefused(h) \/ PressLost(h) \/ LeaveNote(h)
             \/ ReportFailure(h) \/ RemoveLease(h) \/ RemoveRest(h) \/ Fork(h)
      PROVE  DownInTime'
  BY <1>0, <1>4 DEF WritePid, PrepareFails, TakenOver, StartOpening, OpenFails, PressRefused,
                    PressLost, LeaveNote, ReportFailure, RemoveLease, RemoveRest, Fork, HolderGoes
<1>5. ASSUME NEW h \in Hold, NEW why, LetGo(h, why) PROVE DownInTime'
  BY <1>0, <1>5 DEF LetGo, HolderGoes
<1>6. CASE Tick
  BY <1>0, <1>6 DEF Tick, CountsAt
<1>7. CASE Restart
  BY <1>0, <1>7 DEF Restart, Running
<1>8. ASSUME UNCHANGED <<holder, spent, engine, down>> PROVE DownInTime'
  BY <1>8
<1> QED
  BY <1>1, <1>2, <1>3, <1>4, <1>5, <1>6, <1>7, <1>8, LettingGo, BrowserSteps
     DEF Next, vars, StarterStep, HolderStep, Prepared, TakeLock, MeetLive, MeetDead, Visit,
         AskToLetGo, WaitForOthers, Claim, ForkFails, ReadReport, GiveUp

-----------------------------------------------------------------------------
(* What follows. *)

\* The invariant behind OneAtATime.
Alone == Owned /\ Turns /\ OnlyOne /\ Asked /\ OneAtATime

\* Typed and Alone are invariant.
LEMMA Exclusion == Spec => [](Typed /\ Alone)
<1>1. Init => Typed /\ Alone
  BY InitTyped, InitOwned, InitTurns, InitOnlyOne DEF Alone, Init, OneAtATime
<1>2. Typed /\ Alone /\ [Next]_vars => (Typed /\ Alone)'
  BY NextTyped, NextOwned, NextTurns, NextOnlyOne, NextAsked, NextOneAtATime DEF Alone
<1> QED
  BY <1>1, <1>2, PTL DEF Spec

\* TypeOK is invariant: the processes and files of the holds keep to their types, and no
\* counter passes its limit.
THEOREM TypeCorrect == Spec => []TypeOK
BY Exclusion, PTL DEF Typed

\* OneAtATime is invariant: while a holder has its key down the engine repeats that key,
\* although an older holder may still be connecting when a newer press comes, lease files
\* of dead holders lie around and a restart may leave the flock, the leases and the pids
\* in any state.
THEOREM HoldsAreAlone == Spec => []OneAtATime
BY Exclusion, PTL DEF Alone

\* OneUnasked is invariant: of two holds with a lease hold_start has asked one to let go.
THEOREM OnlyOneIsUnasked == Spec => []OneUnasked
<1>1. OnlyOne => OneUnasked
  BY DEF OnlyOne, OneUnasked, Unasked
<1> QED
  BY <1>1, Exclusion, PTL DEF Alone

\* LeaseHasOwner is invariant: no late renewal leaves a lease that nobody removes.
THEOREM LeasesHaveOwners == Spec => []LeaseHasOwner
<1>1. Owned => LeaseHasOwner
  BY DEF Owned, OwnedAt, LeaseHasOwner
<1> QED
  BY <1>1, Exclusion, PTL DEF Alone

\* PressAnswerIsTrue is invariant: a press is answered with ok only after it was sent,
\* and with 410 only if it never is.
THEOREM PressAnswersAreTrue == Spec => []PressAnswerIsTrue
<1>1. Init => Answered
  BY DEF Init, Answered, AnsweredAt
<1>2. Answered => PressAnswerIsTrue
  BY DEF Answered, AnsweredAt, PressAnswerIsTrue
<1> QED
  BY <1>1, <1>2, NextAnswered, Exclusion, PTL DEF Spec

\* LeaseEnds is invariant: a holder sees at the latest one turn after LeaseTurns that its
\* browser has fallen silent, however renewals and looks interleave.
THEOREM LeasesEnd == Spec => []LeaseEnds
<1>1. Init => Quieted
  BY DEF Init, Quieted, QuietAt
<1>2. Typed /\ Owned /\ Quieted => LeaseEnds
  <2> SUFFICES ASSUME Typed, Owned, Quieted, NEW h \in Hold, holder[h] = "sleeping"
               PROVE  silent[h] <= LeaseTurns + 1
    BY DEF LeaseEnds
  <2>1. lease[h] \in {"seen", "grown"} /\ quiet[h] \in Nat /\ quiet[h] <= LeaseTurns
    BY DEF Typed, TypeOK, CountsAt, Owned, OwnedAt, Running, HasLease
  <2> QED
    BY <2>1, Limits DEF Quieted, QuietAt, Typed, TypeOK
<1> QED
  BY <1>1, <1>2, NextQuieted, Exclusion, PTL DEF Spec, Alone

\* ReasonOutlivesLease is invariant: the note of a hold that ended by itself is there
\* before its lease goes, until a browser takes it or a later press sweeps it.
THEOREM ReasonsOutliveLeases == Spec => []ReasonOutlivesLease
<1>1. Init => Noted
  BY DEF Init, Noted, NotedAt
<1>2. Owned /\ Noted => ReasonOutlivesLease
  BY DEF Owned, OwnedAt, Running, Noted, NotedAt, ReasonOutlivesLease
<1> QED
  BY <1>1, <1>2, NextNoted, Exclusion, PTL DEF Spec, Alone

\* KeyComesUp is invariant: no key stays down for more than a turn beyond the cap, also
\* when its lease is renewed for ever or its holder was killed.
THEOREM KeysComeUp == Spec => []KeyComesUp
<1>1. Init => DownInTime
  BY DEF Init, DownInTime
<1>2. DownInTime => KeyComesUp
  BY DEF DownInTime, KeyComesUp
<1> QED
  BY <1>1, <1>2, NextDownInTime, Exclusion, PTL DEF Spec, Alone
=============================================================================
