------------------------------ MODULE HubUpdate ------------------------------
(***************************************************************************)
(* The update of the hub's software by hub_update.sh, which an application *)
(* starts over SSH: rollback copies in RAM, new copies beside the files,   *)
(* renames, a restart with a look at the port or a reboot, and the way back*)
(* when something fails.  The application sends the files that are not yet *)
(* what it installs; codex_webui comes last.                               *)
(*                                                                         *)
(* A file is known by its text, which two releases may share.  Flash keeps *)
(* what was renamed, in that order; RAM holds what the script knows.       *)
(* Nothing keeps two updates apart.                                        *)
(***************************************************************************)
EXTENDS Naturals, SequencesExt

CONSTANTS
  Update,     \* runs of hub_update.sh
  Releases,   \* what they install: a text for each file
  Order,      \* the files, codex_webui last
  Reboots,    \* those that need a reboot
  FirstFiles, \* what is installed at first: a text, or Absent, for each file
  MaxEvents   \* bound on faults and power cuts

VARIABLES
  up,       \* the updates
  dest,     \* the installed files
  new,      \* <dest>.codex-new of each file
  serving,  \* the codex_webui that has the port
  used,     \* how many events there have been
  latest,   \* history: the update that began last
  mishaps   \* history: what went wrong unseen since it began

vars == <<up, dest, new, serving, used, latest, mishaps>>

None == "none"
Absent == "absent"
File == ToSet(Order)
Webui == Last(Order)
Mishaps == {"together", "uncopied", "unlisted"}
Nothing == [f \in File |-> None]
Idle == [pc |-> "idle", release |-> FirstFiles, plan |-> {}, left |-> {}, rb |-> Nothing, done |-> <<>>,
         clean |-> TRUE, restarted |-> FALSE, told |-> "none", before |-> FirstFiles,
         strays |-> Nothing]

Init ==
  /\ up = [u \in Update |-> Idle]
  /\ dest = FirstFiles
  /\ new = Nothing
  /\ serving = FirstFiles[Webui]
  /\ used = 0
  /\ latest = None
  /\ mishaps = {}

Active(u) == up[u].pc \notin {"idle", "done", "rebooted"}
Become(u, next) == up' = [up EXCEPT ![u] = next]
Tell(u, result) == Become(u, [up[u] EXCEPT !.pc = "done", !.told = result])
Event == used < MaxEvents /\ used' = used + 1
Missing(how, unseen) == mishaps' = mishaps \cup IF unseen THEN {how} ELSE {}

\* The application asks for the state of the files and sends those that differ.
Begin(u) ==
  /\ up[u].pc = "idle"
  /\ \E release \in Releases :
       LET plan == {f \in File : dest[f] # release[f]}
           me == [Idle EXCEPT !.release = release, !.plan = plan, !.left = plan, !.before = dest,
                              !.strays = new]
       IN Become(u, IF plan = {} THEN [me EXCEPT !.pc = "done", !.told = "current"]
                    ELSE [me EXCEPT !.pc = "check"])
  /\ latest' = u
  /\ mishaps' = IF \E w \in Update : Active(w) THEN {"together"} ELSE {}
  /\ UNCHANGED <<dest, new, serving, used>>

\* The hub is not set up, a copy is damaged, RAM is short, or a rollback copy differs.
Refuse(u) ==
  /\ up[u].pc = "check"
  /\ Tell(u, "nothing")
  /\ UNCHANGED <<dest, new, serving, used, latest, mishaps>>

\* A copy that cannot be made at all has no checksum, like the one that it is compared with.
BackUp(u) ==
  LET me == up[u]
      copies == [f \in File |-> IF f \in me.plan THEN dest[f] ELSE None]
  IN
  /\ me.pc = "check"
  /\ \/ /\ Become(u, [me EXCEPT !.pc = "write", !.rb = copies])
        /\ UNCHANGED <<used, mishaps>>
     \/ /\ Event
        /\ \E f \in me.plan :
             /\ dest[f] # Absent
             /\ Become(u, [me EXCEPT !.pc = "write", !.rb = [copies EXCEPT ![f] = None]])
        /\ Missing("uncopied", TRUE)
  /\ UNCHANGED <<dest, new, serving, latest>>

\* Every loop of the script takes the files in one order: the next of those that are left.
NextFile(me) == Order[SelectInSeq(Order, LAMBDA f : f \in me.left)]

\* The loop goes on, or the next part of the script begins.
Onwards(me, part) ==
  LET rest == me.left \ {NextFile(me)} IN
  IF rest # {} THEN [me EXCEPT !.left = rest] ELSE [me EXCEPT !.left = me.plan, !.pc = part]

Write(u) ==
  LET me == up[u]
      f == NextFile(me)
  IN
  /\ me.pc = "write"
  /\ new' = [new EXCEPT ![f] = me.release[f]]
  /\ Become(u, Onwards(me, "install"))
  /\ UNCHANGED <<dest, serving, used, latest, mishaps>>

\* remove_new_copies
WithoutNewCopies(u) == [f \in File |-> IF f \in up[u].plan THEN None ELSE new[f]]

WriteFails(u) ==
  /\ up[u].pc = "write"
  /\ Event
  /\ new' = WithoutNewCopies(u)
  /\ Tell(u, "nothing")
  /\ UNCHANGED <<dest, serving, latest, mishaps>>

NeedsReboot(me) == me.plan \cap Reboots # {}

\* Nobody looks whether the line for the rollback could be written.
Install(u) ==
  LET me == up[u]
      f == NextFile(me)
      next == Onwards(me, IF NeedsReboot(me) THEN "reboot" ELSE "restart")
      told == [next EXCEPT !.told = IF next.pc = "reboot" THEN "ok" ELSE "none"]
  IN
  /\ me.pc = "install"
  /\ new[f] # None
  /\ dest' = [dest EXCEPT ![f] = new[f]]
  /\ new' = [new EXCEPT ![f] = None]
  /\ \/ Become(u, [told EXCEPT !.done = Append(@, f)]) /\ UNCHANGED <<used, mishaps>>
     \/ Event /\ Become(u, told) /\ Missing("unlisted", TRUE)
  /\ UNCHANGED <<serving, latest>>

InstallFails(u) ==
  LET me == up[u] IN
  /\ me.pc = "install"
  /\ IF new[NextFile(me)] = None THEN UNCHANGED used ELSE Event
  /\ new' = WithoutNewCopies(u)
  /\ Become(u, [me EXCEPT !.pc = "rollback"])
  /\ UNCHANGED <<dest, serving, latest, mishaps>>

\* killall, and whatever is installed now, which may not come up.
StartServices == serving' \in {dest[Webui], None} \ {Absent}

Restart(u) ==
  /\ up[u].pc = "restart"
  /\ StartServices
  /\ Become(u, [up[u] EXCEPT !.pc = "health"])
  /\ UNCHANGED <<dest, new, used, latest, mishaps>>

\* Somebody listens on the port within a minute, or it goes back.
Health(u) ==
  /\ up[u].pc = "health"
  /\ IF serving # None THEN Tell(u, "ok")
     ELSE Become(u, [up[u] EXCEPT !.pc = "rollback", !.restarted = TRUE])
  /\ UNCHANGED <<dest, new, serving, used, latest, mishaps>>

\* Bug: a file that was not there before stays.
RestoredIfCopied(u, f) == IF up[u].rb[f] \in {None, Absent} THEN dest[f] ELSE up[u].rb[f]
\* A file without a copy and without a mark that it was absent is left as it is.
Restored(u, f) == IF up[u].rb[f] = None THEN dest[f] ELSE up[u].rb[f]

Rollback(u) ==
  LET me == up[u]
      f == Last(me.done)
  IN
  /\ me.pc = "rollback" /\ me.done # <<>>
  /\ \/ /\ dest' = [dest EXCEPT ![f] = Restored(u, f)]
        /\ Become(u, [me EXCEPT !.done = Front(@)])
        /\ UNCHANGED used
     \/ /\ Event
        /\ Become(u, [me EXCEPT !.done = Front(@), !.clean = FALSE])
        /\ UNCHANGED dest
  /\ UNCHANGED <<new, serving, latest, mishaps>>

RolledBack(u) ==
  LET me == up[u] IN
  /\ me.pc = "rollback" /\ me.done = <<>>
  /\ Tell(u, IF me.clean THEN "rolledBack" ELSE "notRolledBack")
  /\ IF me.clean /\ me.restarted THEN StartServices ELSE UNCHANGED serving
  /\ UNCHANGED <<dest, new, used, latest, mishaps>>

\* What is in RAM is gone; a server that is running comes up again.
Boots ==
  /\ serving' \in IF serving = dest[Webui] THEN {serving} ELSE {dest[Webui], None} \ {Absent}
  /\ up' = [u \in Update |->
       IF up[u].pc = "reboot" THEN [up[u] EXCEPT !.pc = "rebooted"]
       ELSE IF Active(u) THEN [up[u] EXCEPT !.pc = "done", !.told = "lost"] ELSE up[u]]
  /\ UNCHANGED <<dest, new, latest, mishaps>>

Reboot(u) == up[u].pc = "reboot" /\ Boots /\ UNCHANGED used

PowerCut == Event /\ Boots

UpdateStep(u) ==
  \/ Begin(u) \/ Refuse(u) \/ BackUp(u) \/ Write(u) \/ WriteFails(u)
  \/ Install(u) \/ InstallFails(u) \/ Restart(u) \/ Health(u)
  \/ Rollback(u) \/ RolledBack(u) \/ Reboot(u)

Next == (\E u \in Update : UpdateStep(u)) \/ PowerCut

Spec == Init /\ [][Next]_vars

-----------------------------------------------------------------------------
Results == {"none", "current", "nothing", "ok", "rolledBack", "notRolledBack", "lost"}

TypeOK ==
  /\ \A u \in Update :
       /\ up[u].pc \in {"idle", "check", "write", "install", "restart", "health", "rollback",
                        "reboot", "rebooted", "done"}
       /\ up[u].told \in Results
       /\ up[u].left \subseteq File
  /\ \A f \in File : /\ dest[f] \in {release[f] : release \in Releases \cup {FirstFiles}}
                     /\ new[f] \in {release[f] : release \in Releases} \cup {None}
  /\ serving \in {release[Webui] : release \in Releases \cup {FirstFiles}} \cup {None}
  /\ latest \in Update \cup {None}
  /\ mishaps \subseteq Mishaps

\* "If anything goes wrong, the hub keeps its current software" (desktop/src/main.js): whatever
\* fails on the way, an update that says that nothing changed or that it went back leaves every
\* file as it found it and leaves no new copy on flash; one that says it worked leaves every file as in
\* its release, also those a power cut during an earlier update had left behind, and, if it did not
\* need a reboot, the new server on the port. A power cut leaves each file as it was or as in the
\* release. It does not hold when two updates overlap, or when the failure of a rollback copy or
\* of a line for the rollback went unseen.
ResultIsTrue ==
  latest # None /\ mishaps = {} =>
    LET me == up[latest] IN
    /\ me.told \in {"nothing", "rolledBack"} =>
         dest = me.before /\ \A f \in me.plan : new[f] \in {None, me.strays[f]}
    /\ me.told \in {"ok", "current"} => dest = me.release
    /\ me.told = "ok" /\ me.pc = "done" => serving = me.release[Webui]
    /\ \A f \in File : dest[f] \in {me.before[f], me.release[f]}
=============================================================================
