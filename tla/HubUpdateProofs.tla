---------------------------- MODULE HubUpdateProofs ----------------------------
(***************************************************************************)
(* The update of the hub, for any files, any releases and any number of    *)
(* updates, and with it the types of all the parts.  An update that        *)
(* reported a result says the truth of the store (ResultIsTrue): the       *)
(* invariant ties the plan of the update that began last to what each      *)
(* file of the store, each new copy and each rollback copy holds at every  *)
(* step of the script.                                                     *)
(***************************************************************************)
EXTENDS HubHelpersProofs, DeviceEditsProofs

-----------------------------------------------------------------------------
(* The types. *)

\* What a hub can have installed: a release, or the files it came with.
Manifests == Releases \cup {FirstFiles}

\* What a file of the store can hold.
InstalledAt(f) == {files[f] : files \in Manifests}

\* What a new copy of a file can hold.
SentAt(f) == {release[f] : release \in Releases}

\* What any file can hold.
Text == UNION {InstalledAt(f) : f \in U!File}

\* A run of hub_update.sh.
UpdateRun ==
  [pc : {"idle", "check", "write", "install", "restart", "health", "rollback", "reboot",
         "rebooted", "done"},
   release : Manifests, plan : SUBSET U!File, left : SUBSET U!File,
   rb : [U!File -> Text \cup {"none"}], done : Seq(U!File), clean : BOOLEAN,
   restarted : BOOLEAN, told : U!Results, before : [U!File -> Text],
   strays : [U!File -> Text \cup {"none"}]]

\* A run is of its type, sends a release, keeps rollback copies of what was
\* installed and has files left while it checks, writes and installs.
RunTyped(me) ==
  /\ me \in UpdateRun
  /\ me.pc # "idle" => me.release \in Releases
  /\ \A f \in U!File : me.rb[f] \in InstalledAt(f) \cup {"none"}
  /\ me.left \subseteq me.plan
  /\ me.pc \in {"check", "write", "install"} => me.left # {}

\* The types of the store: the installed files, the new copies, what is served.
StoreTyped(dest, new, serving) ==
  /\ dest \in [U!File -> Text] /\ \A f \in U!File : dest[f] \in InstalledAt(f)
  /\ new \in [U!File -> Text \cup {"none"}]
  /\ \A f \in U!File : new[f] \in SentAt(f) \cup {"none"}
  /\ serving \in InstalledAt(U!Webui) \cup {"none"}

\* The types of the update.
UpdateTyped ==
  /\ DOMAIN uUp = Update /\ \A u \in Update : RunTyped(uUp[u])
  /\ StoreTyped(uDest, uNew, uServing)
  /\ uLatest \in Update \cup {"none"}
  /\ uMishaps \in SUBSET U!Mishaps

\* What the assumption on the releases says of single files.
LEMMA FileFacts ==
  /\ U!Webui \in U!File
  /\ \A f \in U!File : InstalledAt(f) \subseteq Text /\ SentAt(f) \subseteq InstalledAt(f)
  /\ \A f \in U!File : "none" \notin InstalledAt(f) /\ "absent" \notin SentAt(f)
  /\ \A files \in Manifests : files \in [U!File -> Text]
  /\ \A files \in Manifests, f \in U!File : files[f] \in InstalledAt(f)
  /\ \A release \in Releases, f \in U!File : release[f] \in SentAt(f) /\ release[f] \in Text
<1>1. U!Webui \in U!File
  <2>1. Len(Order) \in 1 .. Len(Order) /\ DOMAIN Order = 1 .. Len(Order)
    BY UpdateAssumption
  <2>2. U!Webui = Order[Len(Order)]
    BY DEF U!Webui, U!Last
  <2> QED
    BY <2>1, <2>2 DEF U!File, U!ToSet
<1>2. \A f \in U!File : InstalledAt(f) \subseteq Text /\ SentAt(f) \subseteq InstalledAt(f)
  BY DEF Text, InstalledAt, SentAt, Manifests
<1>3. \A f \in U!File : "none" \notin InstalledAt(f) /\ "absent" \notin SentAt(f)
  BY UpdateAssumption DEF InstalledAt, SentAt, Manifests
<1>4. \A files \in Manifests, f \in U!File : files[f] \in InstalledAt(f)
  BY DEF InstalledAt
<1>5. \A files \in Manifests : files \in [U!File -> Text]
  <2> SUFFICES ASSUME NEW files \in Manifests PROVE files \in [U!File -> Text]
    OBVIOUS
  <2>1. files = [f \in U!File |-> files[f]]
    BY UpdateAssumption DEF Manifests
  <2>2. \A f \in U!File : files[f] \in Text
    BY <1>2, <1>4
  <2> QED
    BY <2>1, <2>2
<1>6. \A release \in Releases, f \in U!File : release[f] \in SentAt(f) /\ release[f] \in Text
  BY <1>2 DEF SentAt
<1> QED
  BY <1>1, <1>2, <1>3, <1>4, <1>5, <1>6

\* The loop of the script takes a file that is left.
LEMMA NextFileOf ==
  ASSUME NEW me, me.left \in SUBSET U!File, me.left # {}
  PROVE  U!NextFile(me) \in me.left
<1> DEFINE S == {i \in 1 .. Len(Order) : Order[i] \in me.left}
<1>1. Len(Order) \in Nat /\ DOMAIN Order = 1 .. Len(Order)
  BY UpdateAssumption
<1>2. S # {}
  BY <1>1 DEF U!File, U!ToSet
<1>3. U!SelectInSeq(Order, LAMBDA f : f \in me.left) = IF S # {} THEN U!Min(S) ELSE 0
  BY DEF U!SelectInSeq
<1>4. U!Min(S) = D!Min(S)
  BY DEF U!Min, D!Min
<1>5. U!SelectInSeq(Order, LAMBDA f : f \in me.left) \in S
  <2>1. S \in SUBSET (1 .. Len(Order))
    OBVIOUS
  <2> HIDE DEF S
  <2> QED
    BY <1>1, <1>2, <1>3, <1>4, <2>1, FirstOf
<1> QED
  BY <1>5 DEF U!NextFile

\* The run goes on with another file, or another part begins.
LEMMA OnwardsOf ==
  ASSUME NEW me, RunTyped(me), me.pc \in {"write", "install"},
         NEW phase \in {"install", "restart", "reboot"}
  PROVE  LET next == U!Onwards(me, phase)
             f == U!NextFile(me)
         IN /\ RunTyped(next) /\ f \in me.left /\ f \in U!File
            /\ next.release = me.release /\ next.plan = me.plan /\ next.rb = me.rb
            /\ next.done = me.done /\ next.clean = me.clean /\ next.restarted = me.restarted
            /\ next.told = me.told /\ next.before = me.before /\ next.strays = me.strays
            /\ \/ next.pc = me.pc /\ next.left = me.left \ {f}
               \/ next.pc = phase /\ next.left = me.plan /\ me.left = {f}
<1> DEFINE f == U!NextFile(me)
           rest == me.left \ {f}
           on == [me EXCEPT !.left = rest]
           over == [me EXCEPT !.left = me.plan, !.pc = phase]
           next == U!Onwards(me, phase)
<1>1. me \in UpdateRun /\ me.left # {} /\ me.left \subseteq me.plan
  BY DEF RunTyped
<1>2. me.plan \in SUBSET U!File /\ me.left \in SUBSET U!File
  BY <1>1 DEF UpdateRun
<1>3. f \in me.left
  BY <1>1, <1>2, NextFileOf
<1>4. next = IF rest # {} THEN on ELSE over
  BY DEF U!Onwards
<1> HIDE DEF f, rest, next
<1>5. rest \in SUBSET U!File /\ rest \subseteq me.plan /\ (rest = {} => me.left = {f})
  BY <1>1, <1>2, <1>3 DEF rest
<1>6. CASE rest # {}
  <2>1. next = on
    BY <1>4, <1>6
  <2>2. on \in UpdateRun
    BY <1>1, <1>5 DEF UpdateRun
  <2>3. /\ on.release = me.release /\ on.plan = me.plan /\ on.rb = me.rb
        /\ on.done = me.done /\ on.clean = me.clean /\ on.restarted = me.restarted
        /\ on.told = me.told /\ on.before = me.before /\ on.strays = me.strays
        /\ on.pc = me.pc /\ on.left = rest
    BY <1>1 DEF UpdateRun
  <2> HIDE DEF on
  <2>4. RunTyped(on)
    BY <1>5, <1>6, <2>2, <2>3 DEF RunTyped
  <2> QED
    BY <1>2, <1>3, <2>1, <2>3, <2>4 DEF next, f, rest
<1>7. CASE rest = {}
  <2>1. next = over
    BY <1>4, <1>7
  <2>2. over \in UpdateRun
    BY <1>1, <1>2 DEF UpdateRun
  <2>3. /\ over.release = me.release /\ over.plan = me.plan /\ over.rb = me.rb
        /\ over.done = me.done /\ over.clean = me.clean /\ over.restarted = me.restarted
        /\ over.told = me.told /\ over.before = me.before /\ over.strays = me.strays
        /\ over.pc = phase /\ over.left = me.plan
    BY <1>1 DEF UpdateRun
  <2> HIDE DEF over
  <2>4. me.plan # {}
    BY <1>1
  <2>5. RunTyped(over)
    BY <2>2, <2>3, <2>4 DEF RunTyped
  <2> QED
    BY <1>2, <1>3, <1>5, <1>7, <2>1, <2>3, <2>5 DEF next, f
<1> QED
  BY <1>6, <1>7

\* A run that has not begun.
LEMMA IdleRun ==
  /\ RunTyped(U!Idle) /\ U!Idle.pc = "idle" /\ U!Idle.done = <<>> /\ U!Idle.clean /\ ~U!Idle.restarted
  /\ U!Idle.told = "none" /\ U!Idle.rb = U!Nothing
<1>1. U!Idle.pc = "idle" /\ U!Idle.done = <<>> /\ U!Idle.clean /\ ~U!Idle.restarted
      /\ U!Idle.told = "none" /\ U!Idle.rb = U!Nothing /\ U!Idle.left = {} /\ U!Idle.plan = {}
  BY DEF U!Idle
<1>2. U!Nothing \in [U!File -> Text \cup {"none"}] /\ \A f \in U!File : U!Nothing[f] = "none"
  BY DEF U!Nothing, U!None
<1>3. FirstFiles \in Manifests /\ FirstFiles \in [U!File -> Text]
  BY FileFacts DEF Manifests
<1>4. U!Idle \in UpdateRun
  BY <1>2, <1>3 DEF U!Idle, UpdateRun, U!Results
<1> QED
  BY <1>1, <1>2, <1>4 DEF RunTyped

\* The types hold at the start.
LEMMA UpdateInit == U!Init => UpdateTyped
<1> SUFFICES ASSUME U!Init PROVE UpdateTyped
  OBVIOUS
<1>1. DOMAIN uUp = Update /\ \A u \in Update : RunTyped(uUp[u])
  BY IdleRun DEF U!Init
<1>2. FirstFiles \in Manifests
  BY DEF Manifests
<1>3. StoreTyped(uDest, uNew, uServing)
  <2>1. uDest \in [U!File -> Text] /\ \A f \in U!File : uDest[f] \in InstalledAt(f)
    BY <1>2, FileFacts DEF U!Init
  <2>2. uNew \in [U!File -> Text \cup {"none"}] /\ \A f \in U!File : uNew[f] = "none"
    BY DEF U!Init, U!Nothing, U!None
  <2>3. uServing \in InstalledAt(U!Webui)
    BY <1>2, FileFacts DEF U!Init
  <2> QED
    BY <2>1, <2>2, <2>3 DEF StoreTyped
<1> QED
  BY <1>1, <1>3 DEF UpdateTyped, U!Init, U!None

\* An update that goes on with its record changed.
LEMMA RunBecomes ==
  ASSUME UpdateTyped, NEW u \in Update, NEW next, RunTyped(next), U!Become(u, next),
         StoreTyped(uDest', uNew', uServing'),
         uLatest' \in Update \cup {"none"}, uMishaps' \in SUBSET U!Mishaps
  PROVE  UpdateTyped'
BY DEF UpdateTyped, U!Become

\* A run that begins plans the files the release changes, and ends at once if
\* there are none.
LEMMA BegunOf ==
  ASSUME UpdateTyped, NEW release \in Releases
  PROVE  LET plan == {f \in U!File : uDest[f] # release[f]}
             me == [U!Idle EXCEPT !.release = release, !.plan = plan, !.left = plan, !.before = uDest,
                                  !.strays = uNew]
             next == IF plan = {} THEN [me EXCEPT !.pc = "done", !.told = "current"]
                     ELSE [me EXCEPT !.pc = "check"]
         IN /\ RunTyped(next)
            /\ next.release = release /\ next.plan = plan /\ next.left = plan
            /\ next.before = uDest /\ next.strays = uNew /\ next.done = <<>> /\ next.clean
            /\ ~next.restarted
            /\ \/ next.pc = "done" /\ next.told = "current" /\ plan = {}
               \/ next.pc = "check" /\ next.told = "none" /\ plan # {}
<1> DEFINE plan == {f \in U!File : uDest[f] # release[f]}
           me == [U!Idle EXCEPT !.release = release, !.plan = plan, !.left = plan, !.before = uDest,
                                !.strays = uNew]
           idle == [me EXCEPT !.pc = "done", !.told = "current"]
           check == [me EXCEPT !.pc = "check"]
<1>1. plan \in SUBSET U!File /\ release \in Manifests
  BY DEF Manifests
<1>2. U!Idle \in UpdateRun /\ \A f \in U!File : U!Idle.rb[f] \in InstalledAt(f) \cup {"none"}
  BY IdleRun DEF RunTyped
<1>3. uDest \in [U!File -> Text] /\ uNew \in [U!File -> Text \cup {"none"}]
  BY DEF UpdateTyped, StoreTyped
<1> HIDE DEF plan
<1>4. me \in UpdateRun
  BY <1>1, <1>2, <1>3 DEF UpdateRun
<1>5. /\ me.release = release /\ me.plan = plan /\ me.left = plan
      /\ me.before = uDest /\ me.strays = uNew /\ me.done = U!Idle.done /\ me.clean = U!Idle.clean
      /\ me.restarted = U!Idle.restarted /\ me.told = U!Idle.told /\ me.rb = U!Idle.rb
  BY <1>2 DEF UpdateRun
<1> HIDE DEF me
<1>6. idle \in UpdateRun /\ check \in UpdateRun
  BY <1>4 DEF UpdateRun, U!Results
<1>7. /\ idle.release = release /\ idle.plan = plan /\ idle.left = plan
      /\ idle.before = uDest /\ idle.strays = uNew /\ idle.done = me.done /\ idle.clean = me.clean
      /\ idle.restarted = me.restarted /\ idle.rb = me.rb
      /\ idle.pc = "done" /\ idle.told = "current"
  BY <1>4, <1>5 DEF UpdateRun
<1>8. /\ check.release = release /\ check.plan = plan /\ check.left = plan
      /\ check.before = uDest /\ check.strays = uNew /\ check.done = me.done /\ check.clean = me.clean
      /\ check.restarted = me.restarted /\ check.rb = me.rb
      /\ check.pc = "check" /\ check.told = me.told
  BY <1>4, <1>5 DEF UpdateRun
<1> HIDE DEF idle, check
<1>9. RunTyped(idle)
  BY <1>2, <1>5, <1>6, <1>7 DEF RunTyped
<1>10. plan # {} => RunTyped(check)
  BY <1>2, <1>5, <1>6, <1>8 DEF RunTyped
<1>11. CASE plan = {}
  BY <1>5, <1>7, <1>9, <1>11, IdleRun DEF idle, me, plan
<1>12. CASE plan # {}
  BY <1>5, <1>8, <1>10, <1>12, IdleRun DEF check, me, plan
<1> QED
  BY <1>11, <1>12

\* An update that ends, with a word of its own.
LEMMA ToldRun ==
  ASSUME NEW me, RunTyped(me), me.pc # "idle", NEW result \in U!Results
  PROVE  LET next == [me EXCEPT !.pc = "done", !.told = result]
         IN /\ RunTyped(next) /\ next.pc = "done" /\ next.told = result
            /\ next.release = me.release /\ next.plan = me.plan /\ next.before = me.before
            /\ next.strays = me.strays
<1> DEFINE next == [me EXCEPT !.pc = "done", !.told = result]
<1>1. me \in UpdateRun
  BY DEF RunTyped
<1>2. next \in UpdateRun
  BY <1>1 DEF UpdateRun
<1>3. /\ next.pc = "done" /\ next.told = result
      /\ next.release = me.release /\ next.plan = me.plan /\ next.before = me.before
      /\ next.strays = me.strays /\ next.left = me.left /\ next.rb = me.rb
  BY <1>1 DEF UpdateRun
<1> HIDE DEF next
<1>4. RunTyped(next)
  BY <1>2, <1>3 DEF RunTyped
<1> QED
  BY <1>3, <1>4 DEF next

\* A run with its rollback copies made goes on to the new ones.
LEMMA BackedUpOf ==
  ASSUME UpdateTyped, NEW me, RunTyped(me), me.pc = "check",
         NEW rb, rb \in [U!File -> Text \cup {"none"}],
         \A f \in U!File : rb[f] \in InstalledAt(f) \cup {"none"}
  PROVE  LET next == [me EXCEPT !.pc = "write", !.rb = rb]
         IN /\ RunTyped(next) /\ next.pc = "write" /\ next.rb = rb
            /\ next.release = me.release /\ next.plan = me.plan /\ next.left = me.left
            /\ next.before = me.before /\ next.strays = me.strays /\ next.done = me.done
            /\ next.clean = me.clean /\ next.restarted = me.restarted /\ next.told = me.told
<1> DEFINE next == [me EXCEPT !.pc = "write", !.rb = rb]
<1>1. me \in UpdateRun
  BY DEF RunTyped
<1>2. next \in UpdateRun
  BY <1>1 DEF UpdateRun
<1>3. /\ next.pc = "write" /\ next.rb = rb
      /\ next.release = me.release /\ next.plan = me.plan /\ next.left = me.left
      /\ next.before = me.before /\ next.strays = me.strays /\ next.done = me.done
      /\ next.clean = me.clean /\ next.restarted = me.restarted /\ next.told = me.told
  BY <1>1 DEF UpdateRun
<1> HIDE DEF next
<1>4. RunTyped(next)
  BY <1>2, <1>3 DEF RunTyped
<1> QED
  BY <1>3, <1>4 DEF next

\* A rollback copy of each planned file, or of all but one.
LEMMA CopiesOf ==
  ASSUME UpdateTyped, NEW me
  PROVE  LET copies == [f \in U!File |-> IF f \in me.plan THEN uDest[f] ELSE "none"]
         IN /\ copies \in [U!File -> Text \cup {"none"}]
            /\ \A f \in U!File : copies[f] \in InstalledAt(f) \cup {"none"}
            /\ \A g \in U!File :
                 /\ [copies EXCEPT ![g] = "none"] \in [U!File -> Text \cup {"none"}]
                 /\ \A f \in U!File : [copies EXCEPT ![g] = "none"][f] \in InstalledAt(f) \cup {"none"}
BY DEF UpdateTyped, StoreTyped

\* The rollback copies keep the types.
LEMMA BackUpTyped ==
  ASSUME UpdateTyped, NEW u \in Update, U!BackUp(u)
  PROVE  UpdateTyped'
<1> DEFINE me == uUp[u]
           copies == [f \in U!File |-> IF f \in me.plan THEN uDest[f] ELSE "none"]
<1>1. RunTyped(me) /\ me.pc = "check"
  BY DEF UpdateTyped, U!BackUp
<1>2. PICK rb : /\ rb \in [U!File -> Text \cup {"none"}]
                /\ \A f \in U!File : rb[f] \in InstalledAt(f) \cup {"none"}
                /\ U!Become(u, [me EXCEPT !.pc = "write", !.rb = rb])
  <2>1. me.plan \subseteq U!File
    BY <1>1 DEF RunTyped, UpdateRun
  <2>2. \/ U!Become(u, [me EXCEPT !.pc = "write", !.rb = copies])
        \/ \E f \in U!File : U!Become(u, [me EXCEPT !.pc = "write", !.rb = [copies EXCEPT ![f] = "none"]])
    BY <2>1 DEF U!BackUp, U!None
  <2>3. /\ copies \in [U!File -> Text \cup {"none"}]
        /\ \A f \in U!File : copies[f] \in InstalledAt(f) \cup {"none"}
        /\ \A g \in U!File :
             /\ [copies EXCEPT ![g] = "none"] \in [U!File -> Text \cup {"none"}]
             /\ \A f \in U!File : [copies EXCEPT ![g] = "none"][f] \in InstalledAt(f) \cup {"none"}
    BY CopiesOf
  <2> HIDE DEF copies, me
  <2> QED
    BY <2>2, <2>3
<1>3. RunTyped([me EXCEPT !.pc = "write", !.rb = rb])
  BY <1>1, <1>2, BackedUpOf
<1>4. StoreTyped(uDest', uNew', uServing') /\ uLatest' \in Update \cup {"none"}
      /\ uMishaps' \in SUBSET U!Mishaps
  BY DEF U!BackUp, U!Missing, UpdateTyped, U!Mishaps
<1> HIDE DEF me
<1> QED
  BY <1>2, <1>3, <1>4, RunBecomes

\* An update that goes on where it needs no list of files.
LEMMA MovedRun ==
  ASSUME NEW me, RunTyped(me), me.pc # "idle", NEW pc \in {"rollback", "health", "rebooted"}
  PROVE  LET next == [me EXCEPT !.pc = pc]
         IN /\ RunTyped(next) /\ next.pc = pc /\ next.rb = me.rb
            /\ next.release = me.release /\ next.plan = me.plan /\ next.left = me.left
            /\ next.before = me.before /\ next.strays = me.strays /\ next.done = me.done
            /\ next.clean = me.clean /\ next.restarted = me.restarted /\ next.told = me.told
<1> DEFINE next == [me EXCEPT !.pc = pc]
<1>1. me \in UpdateRun
  BY DEF RunTyped
<1>2. next \in UpdateRun
  BY <1>1 DEF UpdateRun
<1>3. /\ next.pc = pc /\ next.rb = me.rb
      /\ next.release = me.release /\ next.plan = me.plan /\ next.left = me.left
      /\ next.before = me.before /\ next.strays = me.strays /\ next.done = me.done
      /\ next.clean = me.clean /\ next.restarted = me.restarted /\ next.told = me.told
  BY <1>1 DEF UpdateRun
<1> HIDE DEF next
<1>4. RunTyped(next)
  BY <1>2, <1>3 DEF RunTyped
<1> QED
  BY <1>3, <1>4 DEF next

\* A run whose health check failed turns back.
LEMMA RestartedRun ==
  ASSUME NEW me, RunTyped(me), me.pc = "health"
  PROVE  LET next == [me EXCEPT !.pc = "rollback", !.restarted = TRUE]
         IN /\ RunTyped(next) /\ next.pc = "rollback" /\ next.rb = me.rb
            /\ next.release = me.release /\ next.plan = me.plan
            /\ next.before = me.before /\ next.strays = me.strays /\ next.done = me.done
            /\ next.clean = me.clean /\ next.told = me.told
<1> DEFINE next == [me EXCEPT !.pc = "rollback", !.restarted = TRUE]
<1>1. me \in UpdateRun
  BY DEF RunTyped
<1>2. next \in UpdateRun
  BY <1>1 DEF UpdateRun
<1>3. /\ next.pc = "rollback" /\ next.rb = me.rb
      /\ next.release = me.release /\ next.plan = me.plan /\ next.left = me.left
      /\ next.before = me.before /\ next.strays = me.strays /\ next.done = me.done
      /\ next.clean = me.clean /\ next.told = me.told
  BY <1>1 DEF UpdateRun
<1> HIDE DEF next
<1>4. RunTyped(next)
  BY <1>2, <1>3 DEF RunTyped
<1> QED
  BY <1>3, <1>4 DEF next

\* The last of a list and what is before it.
LEMMA LastOne ==
  ASSUME NEW S, NEW s \in Seq(S), s # <<>>
  PROVE  /\ U!Last(s) \in S /\ U!Last(s) \in U!ToSet(s)
         /\ U!Front(s) \in Seq(S)
         /\ \A x \in U!ToSet(s) : x \in U!ToSet(U!Front(s)) \/ x = U!Last(s)
         /\ U!ToSet(U!Front(s)) \subseteq U!ToSet(s)
<1> DEFINE n == Len(s)
           front == U!Front(s)
<1>1. n \in Nat /\ n >= 1 /\ DOMAIN s = 1 .. n
  OBVIOUS
<1>2. U!Last(s) = s[n] /\ n \in 1 .. n
  BY <1>1 DEF U!Last
<1>3. front = SubSeq(s, 1, n - 1)
  BY DEF U!Front
<1>4. front \in Seq(S) /\ Len(front) = n - 1 /\ \A i \in 1 .. n - 1 : front[i] = s[i]
  BY <1>1, <1>3
<1>5. DOMAIN front = 1 .. n - 1
  BY <1>1, <1>4
<1> HIDE DEF front
<1>6. \A i \in 1 .. n : i \in 1 .. n - 1 \/ i = n
  <2> HIDE DEF n
  <2> QED
    BY <1>1
<1>7. \A i \in 1 .. n - 1 : i \in 1 .. n
  BY <1>1
<1>8. \A x \in U!ToSet(s) : x \in U!ToSet(front) \/ x = U!Last(s)
  BY <1>1, <1>2, <1>4, <1>5, <1>6 DEF U!ToSet
<1>9. U!ToSet(front) \subseteq U!ToSet(s)
  BY <1>1, <1>4, <1>5, <1>7 DEF U!ToSet
<1>10. U!Last(s) \in S /\ U!Last(s) \in U!ToSet(s)
  BY <1>1, <1>2 DEF U!ToSet
<1> QED
  BY <1>4, <1>8, <1>9, <1>10 DEF front

\* A list with one more at its end.
LEMMA OneMore ==
  ASSUME NEW S, NEW s \in Seq(S), NEW x \in S
  PROVE  Append(s, x) \in Seq(S) /\ U!ToSet(Append(s, x)) = U!ToSet(s) \cup {x}
<1> DEFINE new == Append(s, x)
           n == Len(s)
<1>1. /\ new \in Seq(S) /\ Len(new) = n + 1 /\ n \in Nat
      /\ \A i \in 1 .. n : new[i] = s[i]
      /\ new[n + 1] = x
  OBVIOUS
<1>2. DOMAIN new = 1 .. n + 1 /\ DOMAIN s = 1 .. n
  BY <1>1
<1> HIDE DEF new
<1>3. \A i \in 1 .. n + 1 : i \in 1 .. n \/ i = n + 1
  BY <1>1
<1>4. n + 1 \in 1 .. n + 1 /\ \A i \in 1 .. n : i \in 1 .. n + 1
  BY <1>1
<1>5. \A y \in U!ToSet(new) : y \in U!ToSet(s) \cup {x}
  BY <1>1, <1>2, <1>3 DEF U!ToSet
<1>6. \A y \in U!ToSet(s) \cup {x} : y \in U!ToSet(new)
  BY <1>1, <1>2, <1>4 DEF U!ToSet
<1> QED
  BY <1>1, <1>5, <1>6 DEF new

\* The line for the rollback, or a file that is back.
LEMMA ListedRun ==
  ASSUME NEW me, RunTyped(me), NEW done \in Seq(U!File)
  PROVE  LET next == [me EXCEPT !.done = done]
         IN /\ RunTyped(next) /\ next.pc = me.pc /\ next.rb = me.rb /\ next.left = me.left
            /\ next.release = me.release /\ next.plan = me.plan /\ next.done = done
            /\ next.before = me.before /\ next.strays = me.strays
            /\ next.clean = me.clean /\ next.told = me.told /\ next.restarted = me.restarted
<1> DEFINE next == [me EXCEPT !.done = done]
<1>1. me \in UpdateRun
  BY DEF RunTyped
<1>2. next \in UpdateRun
  BY <1>1 DEF UpdateRun
<1>3. /\ next.pc = me.pc /\ next.rb = me.rb /\ next.left = me.left
      /\ next.release = me.release /\ next.plan = me.plan /\ next.done = done
      /\ next.before = me.before /\ next.strays = me.strays
      /\ next.clean = me.clean /\ next.told = me.told /\ next.restarted = me.restarted
  BY <1>1 DEF UpdateRun
<1> HIDE DEF next
<1>4. RunTyped(next)
  BY <1>2, <1>3 DEF RunTyped
<1> QED
  BY <1>3, <1>4 DEF next

\* A run one of whose files could not be put back is not clean.
LEMMA DirtyRun ==
  ASSUME NEW me, RunTyped(me), me.pc = "rollback", NEW done \in Seq(U!File)
  PROVE  LET next == [me EXCEPT !.done = done, !.clean = FALSE]
         IN /\ RunTyped(next) /\ next.pc = me.pc /\ next.rb = me.rb /\ next.left = me.left
            /\ next.release = me.release /\ next.plan = me.plan /\ next.done = done
            /\ next.before = me.before /\ next.strays = me.strays
            /\ ~next.clean /\ next.told = me.told
<1> DEFINE next == [me EXCEPT !.done = done, !.clean = FALSE]
<1>1. me \in UpdateRun
  BY DEF RunTyped
<1>2. next \in UpdateRun
  BY <1>1 DEF UpdateRun
<1>3. /\ next.pc = me.pc /\ next.rb = me.rb /\ next.left = me.left
      /\ next.release = me.release /\ next.plan = me.plan /\ next.done = done
      /\ next.before = me.before /\ next.strays = me.strays
      /\ ~next.clean /\ next.told = me.told
  BY <1>1 DEF UpdateRun
<1> HIDE DEF next
<1>4. RunTyped(next)
  BY <1>2, <1>3 DEF RunTyped
<1> QED
  BY <1>3, <1>4 DEF next

\* A run that has its answer is otherwise as it was.
LEMMA AnsweredRun ==
  ASSUME NEW me, RunTyped(me), NEW told \in {"ok", "none"}
  PROVE  LET next == [me EXCEPT !.told = told]
         IN /\ RunTyped(next) /\ next.pc = me.pc /\ next.rb = me.rb /\ next.left = me.left
            /\ next.release = me.release /\ next.plan = me.plan /\ next.done = me.done
            /\ next.before = me.before /\ next.strays = me.strays
            /\ next.clean = me.clean /\ next.told = told /\ next.restarted = me.restarted
<1> DEFINE next == [me EXCEPT !.told = told]
<1>1. me \in UpdateRun
  BY DEF RunTyped
<1>2. next \in UpdateRun
  BY <1>1 DEF UpdateRun, U!Results
<1>3. /\ next.pc = me.pc /\ next.rb = me.rb /\ next.left = me.left
      /\ next.release = me.release /\ next.plan = me.plan /\ next.done = me.done
      /\ next.before = me.before /\ next.strays = me.strays
      /\ next.clean = me.clean /\ next.told = told /\ next.restarted = me.restarted
  BY <1>1 DEF UpdateRun
<1> HIDE DEF next
<1>4. RunTyped(next)
  BY <1>2, <1>3 DEF RunTyped
<1> QED
  BY <1>3, <1>4 DEF next

\* Removing the new copies of a run keeps the types of the store.
LEMMA Cleared ==
  ASSUME UpdateTyped, NEW u \in Update
  PROVE  StoreTyped(uDest, U!WithoutNewCopies(u), uServing)
BY DEF UpdateTyped, StoreTyped, U!WithoutNewCopies, U!None

\* So does the web interface starting, or not.
LEMMA StoreServed ==
  ASSUME UpdateTyped, NEW serving \in {uDest[U!Webui], "none"}
  PROVE  StoreTyped(uDest, uNew, serving)
BY FileFacts DEF UpdateTyped, StoreTyped

-----------------------------------------------------------------------------
(* The update that began last. *)

\* What a run knows: its plan is the difference of the release, its rollback
\* copies are the files from before, and it has no answer until its end.
Planned(me) ==
  /\ me.pc # "idle" /\ me.plan = {f \in U!File : me.before[f] # me.release[f]}
  /\ me.pc \in {"check", "write"} => me.done = <<>> /\ me.clean
  /\ me.pc = "check" => me.left = me.plan
  /\ me.pc \in {"write", "install", "restart", "health", "rollback"} =>
       \A f \in me.plan : me.rb[f] = me.before[f]
  /\ me.pc \in {"install", "restart", "health", "rollback"} => U!ToSet(me.done) \subseteq me.plan
  /\ me.pc \in {"check", "write", "install", "restart", "health", "rollback"} => me.told = "none"
  /\ me.pc \in {"reboot", "rebooted"} => me.told = "ok"

\* Where the files of the plan are: from before until they are installed, of the
\* release after, and from before again as far as the rollback has come.
Placed(me, dest, new) ==
  /\ \A f \in U!File : dest[f] \in {me.before[f], me.release[f]}
  /\ me.pc \in {"check", "write"} => \A f \in U!File : dest[f] = me.before[f]
  /\ me.pc = "check" => \A f \in U!File : new[f] = me.strays[f]
  /\ me.pc = "write" => \A f \in me.plan \ me.left : new[f] = me.release[f]
  /\ me.pc = "install" =>
       /\ \A f \in me.left : new[f] = me.release[f]
       /\ \A f \in me.plan \ me.left : dest[f] = me.release[f] /\ new[f] = "none"
  /\ me.pc \in {"install", "restart", "health", "rollback"} /\ me.clean =>
       \A f \in U!File \ U!ToSet(me.done) : dest[f] = me.before[f]
  /\ me.pc \in {"restart", "health", "rollback"} => \A f \in me.plan : new[f] = "none"
  /\ me.pc \in {"restart", "health", "reboot", "rebooted"} =>
       \A f \in U!File : dest[f] = me.release[f]

\* What the answer of a run says of the store.
Reported(me, dest, new, serving) ==
  /\ me.told \in {"nothing", "rolledBack"} =>
       /\ \A f \in U!File : dest[f] = me.before[f]
       /\ \A f \in me.plan : new[f] \in {"none", me.strays[f]}
  /\ me.told \in {"ok", "current"} => \A f \in U!File : dest[f] = me.release[f]
  /\ me.told = "ok" /\ me.pc = "done" => serving = me.release[U!Webui]
  /\ me.pc = "health" => serving \in {me.release[U!Webui], "none"}

\* The run fits the store.
Fits(me, dest, new, serving) ==
  Planned(me) /\ Placed(me, dest, new) /\ Reported(me, dest, new, serving)

\* A run that begins fits.
LEMMA BeginFits ==
  ASSUME UpdateTyped, NEW u \in Update, U!Begin(u)
  PROVE  UpdateTyped' /\ Fits(uUp'[u], uDest', uNew', uServing')
<1> DEFINE Plan(release) == {f \in U!File : uDest[f] # release[f]}
           Me(release) == [U!Idle EXCEPT !.release = release, !.plan = Plan(release),
                                         !.left = Plan(release), !.before = uDest, !.strays = uNew]
           Began(release) == IF Plan(release) = {}
                             THEN [Me(release) EXCEPT !.pc = "done", !.told = "current"]
                             ELSE [Me(release) EXCEPT !.pc = "check"]
<1>1. PICK release \in Releases : U!Become(u, Began(release))
  BY DEF U!Begin
<1> DEFINE next == Began(release)
<1>2. /\ RunTyped(next)
      /\ next.release = release /\ next.plan = Plan(release) /\ next.left = Plan(release)
      /\ next.before = uDest /\ next.strays = uNew /\ next.done = <<>> /\ next.clean
      /\ ~next.restarted
      /\ \/ next.pc = "done" /\ next.told = "current" /\ Plan(release) = {}
         \/ next.pc = "check" /\ next.told = "none" /\ Plan(release) # {}
  BY BegunOf
<1>3. UNCHANGED <<uDest, uNew, uServing>> /\ uLatest' = u /\ uMishaps' \in SUBSET U!Mishaps
  BY DEF U!Begin, U!Mishaps
<1> HIDE DEF next
<1>4. U!Become(u, next)
  BY <1>1 DEF next
<1>5. UpdateTyped'
  BY <1>2, <1>3, <1>4, RunBecomes DEF UpdateTyped
<1>6. uUp'[u] = next
  BY <1>4 DEF U!Become, UpdateTyped
<1>7. Fits(next, uDest, uNew, uServing)
  BY <1>2 DEF Fits, Planned, Placed, Reported
<1> QED
  BY <1>3, <1>5, <1>6, <1>7

\* A run that is refused fits.
LEMMA RefuseFits ==
  ASSUME UpdateTyped, NEW u \in Update, U!Refuse(u)
  PROVE  /\ UpdateTyped'
         /\ Fits(uUp[u], uDest, uNew, uServing) => Fits(uUp'[u], uDest', uNew', uServing')
<1> DEFINE me == uUp[u]
           next == [me EXCEPT !.pc = "done", !.told = "nothing"]
<1>1. RunTyped(me) /\ me.pc = "check" /\ U!Become(u, next)
  BY DEF UpdateTyped, U!Refuse, U!Tell
<1>2. "nothing" \in U!Results
  BY DEF U!Results
<1>3. UNCHANGED <<uDest, uNew, uServing, uLatest, uMishaps>>
  BY DEF U!Refuse
<1> HIDE DEF me
<1>4. /\ RunTyped(next) /\ next.pc = "done" /\ next.told = "nothing"
      /\ next.release = me.release /\ next.plan = me.plan /\ next.before = me.before
      /\ next.strays = me.strays
  BY <1>1, <1>2, ToldRun
<1> HIDE DEF next
<1>5. UpdateTyped'
  BY <1>1, <1>3, <1>4, RunBecomes DEF UpdateTyped
<1>6. uUp'[u] = next
  BY <1>1 DEF U!Become, UpdateTyped
<1>7. me.plan \subseteq U!File
  BY <1>1 DEF RunTyped, UpdateRun
<1>8. Fits(me, uDest, uNew, uServing) => Fits(next, uDest, uNew, uServing)
  BY <1>1, <1>4, <1>7 DEF Fits, Planned, Placed, Reported
<1> QED
  BY <1>3, <1>5, <1>6, <1>8 DEF me

\* A run with its rollback copies made fits, if all were made.
LEMMA BackUpFits ==
  ASSUME UpdateTyped, NEW u \in Update, U!BackUp(u)
  PROVE  /\ UpdateTyped'
         /\ Fits(uUp[u], uDest, uNew, uServing) /\ uMishaps' = {}
              => Fits(uUp'[u], uDest', uNew', uServing')
<1> DEFINE me == uUp[u]
           copies == [f \in U!File |-> IF f \in me.plan THEN uDest[f] ELSE "none"]
           next == [me EXCEPT !.pc = "write", !.rb = copies]
<1>1. RunTyped(me) /\ me.pc = "check"
  BY DEF UpdateTyped, U!BackUp
<1>2. UNCHANGED <<uDest, uNew, uServing, uLatest>>
  BY DEF U!BackUp
<1>3. uMishaps' = {} => U!Become(u, next)
  BY DEF U!BackUp, U!Missing, U!None
<1>4. /\ copies \in [U!File -> Text \cup {"none"}]
      /\ \A f \in U!File : copies[f] \in InstalledAt(f) \cup {"none"}
  BY CopiesOf
<1>5. me.plan \subseteq U!File
  BY <1>1 DEF RunTyped, UpdateRun
<1>6. \A f \in me.plan : copies[f] = uDest[f]
  BY <1>5
<1> HIDE DEF me, copies
<1>7. /\ RunTyped(next) /\ next.pc = "write" /\ next.rb = copies
      /\ next.release = me.release /\ next.plan = me.plan /\ next.left = me.left
      /\ next.before = me.before /\ next.strays = me.strays /\ next.done = me.done
      /\ next.clean = me.clean /\ next.restarted = me.restarted /\ next.told = me.told
  BY <1>1, <1>4, BackedUpOf
<1> HIDE DEF next
<1>8. uMishaps' = {} => uUp'[u] = next
  BY <1>3 DEF U!Become, UpdateTyped
<1>9. ASSUME Fits(me, uDest, uNew, uServing) PROVE Fits(next, uDest, uNew, uServing)
  <2>1. me.plan \ me.left = {}
    BY <1>1, <1>9 DEF Fits, Planned
  <2> QED
    BY <1>1, <1>5, <1>6, <1>7, <1>9, <2>1 DEF Fits, Planned, Placed, Reported
<1> QED
  BY <1>2, <1>8, <1>9, BackUpTyped DEF me

\* A run that has written one new copy fits.
LEMMA WriteFits ==
  ASSUME UpdateTyped, NEW u \in Update, U!Write(u)
  PROVE  /\ UpdateTyped'
         /\ Fits(uUp[u], uDest, uNew, uServing) => Fits(uUp'[u], uDest', uNew', uServing')
<1> DEFINE me == uUp[u]
           f == U!NextFile(me)
           next == U!Onwards(me, "install")
<1>1. /\ RunTyped(me) /\ me.pc = "write" /\ U!Become(u, next)
      /\ uNew' = [uNew EXCEPT ![f] = me.release[f]]
      /\ UNCHANGED <<uDest, uServing, uLatest, uMishaps>>
  BY DEF UpdateTyped, U!Write
<1> HIDE DEF me, f, next
<1>2. /\ RunTyped(next) /\ f \in me.left /\ f \in U!File
      /\ next.release = me.release /\ next.plan = me.plan /\ next.rb = me.rb
      /\ next.done = me.done /\ next.clean = me.clean /\ next.restarted = me.restarted
      /\ next.told = me.told /\ next.before = me.before /\ next.strays = me.strays
      /\ \/ next.pc = me.pc /\ next.left = me.left \ {f}
         \/ next.pc = "install" /\ next.left = me.plan /\ me.left = {f}
  BY <1>1, OnwardsOf DEF f, next
<1>3. me.release[f] \in SentAt(f) /\ me.release[f] \in Text
  BY <1>1, <1>2, FileFacts DEF RunTyped
<1>4. StoreTyped(uDest', uNew', uServing')
  BY <1>1, <1>2, <1>3 DEF UpdateTyped, StoreTyped
<1>5. UpdateTyped'
  BY <1>1, <1>2, <1>4, RunBecomes DEF UpdateTyped
<1>6. uUp'[u] = next
  BY <1>1 DEF U!Become, UpdateTyped
<1>7. /\ uNew'[f] = me.release[f] /\ \A g \in U!File : g # f => uNew'[g] = uNew[g]
      /\ me.plan \subseteq U!File /\ me.left \subseteq me.plan
  BY <1>1, <1>2 DEF UpdateTyped, StoreTyped, RunTyped, UpdateRun
<1>8. ASSUME Fits(me, uDest, uNew, uServing) PROVE Fits(next, uDest, uNew', uServing)
  <2>1. Planned(next)
    <3>1. U!ToSet(<<>>) = {}
      BY DEF U!ToSet
    <3> QED
      BY <1>1, <1>2, <1>8, <3>1 DEF Fits, Planned
  <2>2. \A g \in me.plan : g \notin me.left \ {f} => uNew'[g] = me.release[g]
    BY <1>1, <1>7, <1>8 DEF Fits, Placed
  <2>3. Placed(next, uDest, uNew')
    BY <1>1, <1>2, <1>7, <1>8, <2>2 DEF Fits, Placed
  <2>4. Reported(next, uDest, uNew', uServing)
    BY <1>1, <1>2, <1>8 DEF Fits, Reported, Planned
  <2> QED
    BY <2>1, <2>3, <2>4 DEF Fits
<1> QED
  BY <1>1, <1>5, <1>6, <1>8 DEF me

\* What is left of the new copies when a run has removed its own.
LEMMA NewCopiesGone ==
  ASSUME NEW u \in Update
  PROVE  \A f \in U!File :
           U!WithoutNewCopies(u)[f] = IF f \in uUp[u].plan THEN "none" ELSE uNew[f]
BY DEF U!WithoutNewCopies, U!None

\* A run that could not write a new copy has changed nothing.
LEMMA WriteFailsFits ==
  ASSUME UpdateTyped, NEW u \in Update, U!WriteFails(u)
  PROVE  /\ UpdateTyped'
         /\ Fits(uUp[u], uDest, uNew, uServing) => Fits(uUp'[u], uDest', uNew', uServing')
<1> DEFINE me == uUp[u]
           next == [me EXCEPT !.pc = "done", !.told = "nothing"]
<1>1. /\ RunTyped(me) /\ me.pc = "write" /\ U!Become(u, next)
      /\ uNew' = U!WithoutNewCopies(u) /\ UNCHANGED <<uDest, uServing, uLatest, uMishaps>>
  BY DEF UpdateTyped, U!WriteFails, U!Tell
<1>2. "nothing" \in U!Results
  BY DEF U!Results
<1>3. StoreTyped(uDest', uNew', uServing')
  BY <1>1, Cleared
<1>4. \A f \in U!File : uNew'[f] = IF f \in me.plan THEN "none" ELSE uNew[f]
  BY <1>1, NewCopiesGone
<1> HIDE DEF me
<1>5. /\ RunTyped(next) /\ next.pc = "done" /\ next.told = "nothing"
      /\ next.release = me.release /\ next.plan = me.plan /\ next.before = me.before
      /\ next.strays = me.strays
  BY <1>1, <1>2, ToldRun
<1> HIDE DEF next
<1>6. UpdateTyped'
  BY <1>1, <1>3, <1>5, RunBecomes DEF UpdateTyped
<1>7. uUp'[u] = next
  BY <1>1 DEF U!Become, UpdateTyped
<1>8. me.plan \subseteq U!File
  BY <1>1 DEF RunTyped, UpdateRun
<1>9. Fits(me, uDest, uNew, uServing) => Fits(next, uDest, uNew', uServing)
  BY <1>1, <1>4, <1>5, <1>8 DEF Fits, Planned, Placed, Reported
<1> QED
  BY <1>1, <1>6, <1>7, <1>9 DEF me

\* The move of one new copy into place in the terms of the run.
LEMMA InstalledOf ==
  ASSUME UpdateTyped, NEW u \in Update, U!Install(u)
  PROVE  LET me == uUp[u]
             f == U!NextFile(me)
             phase == IF U!NeedsReboot(me) THEN "reboot" ELSE "restart"
         IN \E next :
              /\ RunTyped(next) /\ uUp' = [uUp EXCEPT ![u] = next]
              /\ f \in me.left /\ f \in U!File
              /\ next.release = me.release /\ next.plan = me.plan /\ next.rb = me.rb
              /\ next.clean = me.clean /\ next.before = me.before /\ next.strays = me.strays
              /\ \/ next.pc = me.pc /\ next.left = me.left \ {f}
                 \/ next.pc = phase /\ next.left = me.plan /\ me.left = {f}
              /\ next.told = IF next.pc = "reboot" THEN "ok" ELSE "none"
              /\ uMishaps' = {} => U!ToSet(next.done) = U!ToSet(me.done) \cup {f}
              /\ uMishaps' \in SUBSET U!Mishaps
<1> DEFINE me == uUp[u]
           f == U!NextFile(me)
           phase == IF U!NeedsReboot(me) THEN "reboot" ELSE "restart"
           on == U!Onwards(me, phase)
           told == [on EXCEPT !.told = IF on.pc = "reboot" THEN "ok" ELSE "none"]
           list == [told EXCEPT !.done = Append(told.done, f)]
<1>1. /\ RunTyped(me) /\ me.pc = "install"
      /\ (U!Become(u, list) /\ UNCHANGED uMishaps) \/ (U!Become(u, told) /\ U!Missing("unlisted", TRUE))
  BY DEF UpdateTyped, U!Install
<1>2. phase \in {"restart", "reboot"}
  OBVIOUS
<1>3. uMishaps' \in SUBSET U!Mishaps /\ (uMishaps' = {} => U!Become(u, list))
  BY <1>1 DEF U!Missing, UpdateTyped, U!Mishaps
<1> HIDE DEF me, f, phase, on
<1>4. /\ RunTyped(on) /\ f \in me.left /\ f \in U!File
      /\ on.release = me.release /\ on.plan = me.plan /\ on.rb = me.rb
      /\ on.done = me.done /\ on.clean = me.clean /\ on.restarted = me.restarted
      /\ on.told = me.told /\ on.before = me.before /\ on.strays = me.strays
      /\ \/ on.pc = me.pc /\ on.left = me.left \ {f}
         \/ on.pc = phase /\ on.left = me.plan /\ me.left = {f}
  BY <1>1, <1>2, OnwardsOf DEF f, on
<1> DEFINE word == IF on.pc = "reboot" THEN "ok" ELSE "none"
<1>5. /\ RunTyped(told) /\ told.pc = on.pc /\ told.rb = on.rb /\ told.left = on.left
      /\ told.release = on.release /\ told.plan = on.plan /\ told.done = on.done
      /\ told.before = on.before /\ told.strays = on.strays
      /\ told.clean = on.clean /\ told.told = word /\ told.restarted = on.restarted
  <2>1. word \in {"ok", "none"}
    OBVIOUS
  <2> HIDE DEF word
  <2>2. LET n == [on EXCEPT !.told = word]
        IN /\ RunTyped(n) /\ n.pc = on.pc /\ n.rb = on.rb /\ n.left = on.left
           /\ n.release = on.release /\ n.plan = on.plan /\ n.done = on.done
           /\ n.before = on.before /\ n.strays = on.strays
           /\ n.clean = on.clean /\ n.told = word /\ n.restarted = on.restarted
    BY <1>4, <2>1, AnsweredRun
  <2> QED
    BY <2>2 DEF word
<1> HIDE DEF told
<1>6. /\ Append(told.done, f) \in Seq(U!File)
      /\ U!ToSet(Append(told.done, f)) = U!ToSet(told.done) \cup {f}
  <2>1. told.done \in Seq(U!File)
    BY <1>5 DEF RunTyped, UpdateRun
  <2> QED
    BY <1>4, <2>1, OneMore
<1>7. /\ RunTyped(list) /\ list.pc = told.pc /\ list.rb = told.rb /\ list.left = told.left
      /\ list.release = told.release /\ list.plan = told.plan /\ list.done = Append(told.done, f)
      /\ list.before = told.before /\ list.strays = told.strays
      /\ list.clean = told.clean /\ list.told = told.told /\ list.restarted = told.restarted
  BY <1>5, <1>6, ListedRun
<1> HIDE DEF list
<1>8. uUp' = [uUp EXCEPT ![u] = list] \/ (uUp' = [uUp EXCEPT ![u] = told] /\ uMishaps' # {})
  BY <1>1, <1>3 DEF U!Become, U!Missing
<1>9. CASE uUp' = [uUp EXCEPT ![u] = list]
  BY <1>3, <1>4, <1>5, <1>6, <1>7, <1>9 DEF me, f, phase
<1>10. CASE uUp' = [uUp EXCEPT ![u] = told] /\ uMishaps' # {}
  BY <1>3, <1>4, <1>5, <1>10 DEF me, f, phase
<1> QED
  BY <1>8, <1>9, <1>10

\* A run that has moved one new copy into place fits.
LEMMA InstallFits ==
  ASSUME UpdateTyped, NEW u \in Update, U!Install(u)
  PROVE  /\ UpdateTyped'
         /\ Fits(uUp[u], uDest, uNew, uServing) /\ uMishaps' = {}
              => Fits(uUp'[u], uDest', uNew', uServing')
<1> DEFINE me == uUp[u]
           f == U!NextFile(me)
           phase == IF U!NeedsReboot(me) THEN "reboot" ELSE "restart"
<1>1. /\ RunTyped(me) /\ me.pc = "install" /\ uNew[f] # "none"
      /\ uDest' = [uDest EXCEPT ![f] = uNew[f]] /\ uNew' = [uNew EXCEPT ![f] = "none"]
      /\ UNCHANGED <<uServing, uLatest>>
  BY DEF UpdateTyped, U!Install, U!None
<1>2. PICK next :
        /\ RunTyped(next) /\ uUp' = [uUp EXCEPT ![u] = next]
        /\ f \in me.left /\ f \in U!File
        /\ next.release = me.release /\ next.plan = me.plan /\ next.rb = me.rb
        /\ next.clean = me.clean /\ next.before = me.before /\ next.strays = me.strays
        /\ \/ next.pc = me.pc /\ next.left = me.left \ {f}
           \/ next.pc = phase /\ next.left = me.plan /\ me.left = {f}
        /\ next.told = IF next.pc = "reboot" THEN "ok" ELSE "none"
        /\ uMishaps' = {} => U!ToSet(next.done) = U!ToSet(me.done) \cup {f}
        /\ uMishaps' \in SUBSET U!Mishaps
  BY InstalledOf
<1>3. phase \in {"restart", "reboot"}
  OBVIOUS
<1> HIDE DEF me, f, phase
<1>4. StoreTyped(uDest', uNew', uServing')
  BY <1>1, <1>2, FileFacts DEF UpdateTyped, StoreTyped
<1>5. UpdateTyped'
  <2>1. U!Become(u, next)
    BY <1>2 DEF U!Become
  <2> QED
    BY <1>1, <1>2, <1>4, <2>1, RunBecomes DEF UpdateTyped
<1>6. uUp'[u] = next
  BY <1>2 DEF UpdateTyped
<1>7. /\ uDest'[f] = uNew[f] /\ \A g \in U!File : g # f => uDest'[g] = uDest[g]
      /\ uNew'[f] = "none" /\ \A g \in U!File : g # f => uNew'[g] = uNew[g]
      /\ me.plan \subseteq U!File /\ me.left \subseteq me.plan
  BY <1>1, <1>2 DEF UpdateTyped, StoreTyped, RunTyped, UpdateRun
<1>8. ASSUME Fits(me, uDest, uNew, uServing), uMishaps' = {}
      PROVE  Fits(next, uDest', uNew', uServing)
  <2>1. uDest'[f] = me.release[f] /\ f \in me.plan
    BY <1>1, <1>2, <1>7, <1>8 DEF Fits, Placed
  <2>2. Planned(next)
    BY <1>1, <1>2, <1>3, <1>7, <1>8, <2>1 DEF Fits, Planned
  <2>3. \A g \in me.plan :
          g \notin me.left \ {f} => uDest'[g] = me.release[g] /\ uNew'[g] = "none"
    BY <1>1, <1>7, <1>8, <2>1 DEF Fits, Placed
  <2>4. \A g \in me.left \ {f} : uNew'[g] = me.release[g]
    BY <1>1, <1>7, <1>8 DEF Fits, Placed
  <2>5. \A g \in U!File : uDest'[g] \in {me.before[g], me.release[g]}
    BY <1>7, <1>8, <2>1 DEF Fits, Placed
  <2>6. me.clean => \A g \in U!File \ U!ToSet(next.done) : uDest'[g] = me.before[g]
    BY <1>1, <1>2, <1>7, <1>8 DEF Fits, Placed
  <2>7. me.left = {f} => \A g \in U!File : uDest'[g] = me.release[g]
    BY <1>7, <1>8, <2>3, <2>5 DEF Fits, Planned
  <2>8. me.left = {f} => \A g \in me.plan : uNew'[g] = "none"
    BY <2>3
  <2>9. next.pc \in {"install", "restart", "reboot"}
    BY <1>1, <1>2, <1>3
  <2>10. next.pc # "install" => me.left = {f}
    BY <1>2, <1>1
  <2>11. next.pc = "install" => next.left = me.left \ {f}
    BY <1>2, <1>3
  <2>12. Placed(next, uDest', uNew')
    BY <1>2, <2>3, <2>4, <2>5, <2>6, <2>7, <2>8, <2>9, <2>10, <2>11 DEF Placed
  <2>13. Reported(next, uDest', uNew', uServing)
    BY <1>2, <2>7, <2>9, <2>10 DEF Reported
  <2> QED
    BY <2>2, <2>12, <2>13 DEF Fits
<1> QED
  BY <1>1, <1>5, <1>6, <1>8 DEF me

\* A run that could not move one turns back and fits.
LEMMA InstallFailsFits ==
  ASSUME UpdateTyped, NEW u \in Update, U!InstallFails(u)
  PROVE  /\ UpdateTyped'
         /\ Fits(uUp[u], uDest, uNew, uServing) => Fits(uUp'[u], uDest', uNew', uServing')
<1> DEFINE me == uUp[u]
           next == [me EXCEPT !.pc = "rollback"]
<1>1. /\ RunTyped(me) /\ me.pc = "install" /\ U!Become(u, next)
      /\ uNew' = U!WithoutNewCopies(u) /\ UNCHANGED <<uDest, uServing, uLatest, uMishaps>>
  BY DEF UpdateTyped, U!InstallFails
<1>2. StoreTyped(uDest', uNew', uServing')
  BY <1>1, Cleared
<1>3. \A f \in U!File : uNew'[f] = IF f \in me.plan THEN "none" ELSE uNew[f]
  BY <1>1, NewCopiesGone
<1> HIDE DEF me
<1>4. /\ RunTyped(next) /\ next.pc = "rollback" /\ next.rb = me.rb
      /\ next.release = me.release /\ next.plan = me.plan /\ next.left = me.left
      /\ next.before = me.before /\ next.strays = me.strays /\ next.done = me.done
      /\ next.clean = me.clean /\ next.restarted = me.restarted /\ next.told = me.told
  BY <1>1, MovedRun
<1> HIDE DEF next
<1>5. UpdateTyped'
  BY <1>1, <1>2, <1>4, RunBecomes DEF UpdateTyped
<1>6. uUp'[u] = next
  BY <1>1 DEF U!Become, UpdateTyped
<1>7. me.plan \subseteq U!File
  BY <1>1 DEF RunTyped, UpdateRun
<1>8. Fits(me, uDest, uNew, uServing) => Fits(next, uDest, uNew', uServing)
  BY <1>1, <1>3, <1>4, <1>7 DEF Fits, Planned, Placed, Reported
<1> QED
  BY <1>1, <1>5, <1>6, <1>8 DEF me

\* A run that has restarted the web interface fits.
LEMMA RestartFits ==
  ASSUME UpdateTyped, NEW u \in Update, U!Restart(u)
  PROVE  /\ UpdateTyped'
         /\ Fits(uUp[u], uDest, uNew, uServing) => Fits(uUp'[u], uDest', uNew', uServing')
<1> DEFINE me == uUp[u]
           next == [me EXCEPT !.pc = "health"]
<1>1. /\ RunTyped(me) /\ me.pc = "restart" /\ U!Become(u, next)
      /\ uServing' \in {uDest[U!Webui], "none"} /\ UNCHANGED <<uDest, uNew, uLatest, uMishaps>>
  BY DEF UpdateTyped, U!Restart, U!StartServices, U!None
<1>2. StoreTyped(uDest', uNew', uServing')
  BY <1>1, StoreServed
<1> HIDE DEF me
<1>3. /\ RunTyped(next) /\ next.pc = "health" /\ next.rb = me.rb
      /\ next.release = me.release /\ next.plan = me.plan /\ next.left = me.left
      /\ next.before = me.before /\ next.strays = me.strays /\ next.done = me.done
      /\ next.clean = me.clean /\ next.restarted = me.restarted /\ next.told = me.told
  BY <1>1, MovedRun
<1> HIDE DEF next
<1>4. UpdateTyped'
  BY <1>1, <1>2, <1>3, RunBecomes DEF UpdateTyped
<1>5. uUp'[u] = next
  BY <1>1 DEF U!Become, UpdateTyped
<1>6. ASSUME Fits(me, uDest, uNew, uServing) PROVE Fits(next, uDest, uNew, uServing')
  <2>1. Planned(next) /\ Placed(next, uDest, uNew)
    BY <1>1, <1>3, <1>6 DEF Fits, Planned, Placed
  <2>2. uDest[U!Webui] = me.release[U!Webui]
    BY <1>1, <1>6, FileFacts DEF Fits, Placed
  <2>3. Reported(next, uDest, uNew, uServing')
    BY <1>1, <1>3, <1>6, <2>2 DEF Fits, Planned, Reported
  <2> QED
    BY <2>1, <2>3 DEF Fits
<1> QED
  BY <1>1, <1>4, <1>5, <1>6 DEF me

\* A run that has its health check fits, whichever way it went.
LEMMA HealthFits ==
  ASSUME UpdateTyped, NEW u \in Update, U!Health(u)
  PROVE  /\ UpdateTyped'
         /\ Fits(uUp[u], uDest, uNew, uServing) => Fits(uUp'[u], uDest', uNew', uServing')
<1> DEFINE me == uUp[u]
           over == [me EXCEPT !.pc = "done", !.told = "ok"]
           back == [me EXCEPT !.pc = "rollback", !.restarted = TRUE]
<1>1. /\ RunTyped(me) /\ me.pc = "health"
      /\ (uServing # "none" /\ U!Become(u, over)) \/ (uServing = "none" /\ U!Become(u, back))
      /\ UNCHANGED <<uDest, uNew, uServing, uLatest, uMishaps>>
  BY DEF UpdateTyped, U!Health, U!Tell, U!None
<1>2. "ok" \in U!Results
  BY DEF U!Results
<1>3. StoreTyped(uDest', uNew', uServing')
  BY <1>1 DEF UpdateTyped
<1> HIDE DEF me
<1>4. /\ RunTyped(over) /\ over.pc = "done" /\ over.told = "ok"
      /\ over.release = me.release /\ over.plan = me.plan /\ over.before = me.before
      /\ over.strays = me.strays
  BY <1>1, <1>2, ToldRun
<1>5. /\ RunTyped(back) /\ back.pc = "rollback" /\ back.rb = me.rb
      /\ back.release = me.release /\ back.plan = me.plan
      /\ back.before = me.before /\ back.strays = me.strays /\ back.done = me.done
      /\ back.clean = me.clean /\ back.told = me.told
  BY <1>1, RestartedRun
<1> HIDE DEF over, back
<1>6. UpdateTyped'
  BY <1>1, <1>3, <1>4, <1>5, RunBecomes DEF UpdateTyped
<1>7. \/ uServing # "none" /\ uUp'[u] = over
      \/ uServing = "none" /\ uUp'[u] = back
  BY <1>1 DEF U!Become, UpdateTyped
<1>8. uServing # "none" /\ Fits(me, uDest, uNew, uServing) => Fits(over, uDest, uNew, uServing)
  BY <1>1, <1>4 DEF Fits, Planned, Placed, Reported
<1>9. Fits(me, uDest, uNew, uServing) => Fits(back, uDest, uNew, uServing)
  BY <1>1, <1>5 DEF Fits, Planned, Placed, Reported
<1> QED
  BY <1>1, <1>6, <1>7, <1>8, <1>9 DEF me

\* A run that has put one file back, or failed to, fits.
LEMMA RollbackFits ==
  ASSUME UpdateTyped, NEW u \in Update, U!Rollback(u)
  PROVE  /\ UpdateTyped'
         /\ Fits(uUp[u], uDest, uNew, uServing) => Fits(uUp'[u], uDest', uNew', uServing')
<1> DEFINE me == uUp[u]
           f == U!Last(me.done)
           front == U!Front(me.done)
           back == [me EXCEPT !.done = front]
           dirty == [me EXCEPT !.done = front, !.clean = FALSE]
           text == U!Restored(u, f)
<1>1. /\ RunTyped(me) /\ me.pc = "rollback" /\ me.done # <<>>
      /\ \/ U!Become(u, back) /\ uDest' = [uDest EXCEPT ![f] = text]
         \/ U!Become(u, dirty) /\ uDest' = uDest
      /\ UNCHANGED <<uNew, uServing, uLatest, uMishaps>>
  BY DEF UpdateTyped, U!Rollback
<1>2. text = IF me.rb[f] = "none" THEN uDest[f] ELSE me.rb[f]
  BY DEF U!Restored, U!None
<1> HIDE DEF me, f, front, text
<1>3. me.done \in Seq(U!File) /\ me.plan \subseteq U!File
  BY <1>1 DEF RunTyped, UpdateRun
<1>4. /\ f \in U!File /\ f \in U!ToSet(me.done) /\ front \in Seq(U!File)
      /\ \A g \in U!ToSet(me.done) : g \in U!ToSet(front) \/ g = f
      /\ U!ToSet(front) \subseteq U!ToSet(me.done)
  BY <1>1, <1>3, LastOne DEF f, front
<1>5. text \in InstalledAt(f) /\ text \in Text
  BY <1>1, <1>2, <1>4, FileFacts DEF UpdateTyped, StoreTyped, RunTyped
<1>6. StoreTyped(uDest', uNew', uServing')
  BY <1>1, <1>4, <1>5 DEF UpdateTyped, StoreTyped
<1>7. /\ RunTyped(back) /\ back.pc = me.pc /\ back.rb = me.rb /\ back.left = me.left
      /\ back.release = me.release /\ back.plan = me.plan /\ back.done = front
      /\ back.before = me.before /\ back.strays = me.strays
      /\ back.clean = me.clean /\ back.told = me.told /\ back.restarted = me.restarted
  BY <1>1, <1>4, ListedRun
<1>8. /\ RunTyped(dirty) /\ dirty.pc = me.pc /\ dirty.rb = me.rb /\ dirty.left = me.left
      /\ dirty.release = me.release /\ dirty.plan = me.plan /\ dirty.done = front
      /\ dirty.before = me.before /\ dirty.strays = me.strays
      /\ ~dirty.clean /\ dirty.told = me.told
  BY <1>1, <1>4, DirtyRun
<1> HIDE DEF back, dirty
<1>9. UpdateTyped'
  BY <1>1, <1>6, <1>7, <1>8, RunBecomes DEF UpdateTyped
<1>10. \/ uUp'[u] = back /\ uDest'[f] = text /\ \A g \in U!File : g # f => uDest'[g] = uDest[g]
       \/ uUp'[u] = dirty /\ uDest' = uDest
  BY <1>1, <1>4 DEF U!Become, UpdateTyped, StoreTyped
<1>11. ASSUME Fits(me, uDest, uNew, uServing), uUp'[u] = back, uDest'[f] = text,
              \A g \in U!File : g # f => uDest'[g] = uDest[g]
       PROVE  Fits(back, uDest', uNew, uServing)
  <2>1. text = me.before[f]
    <3>1. f \in me.plan /\ me.rb[f] = me.before[f]
      BY <1>1, <1>4, <1>11 DEF Fits, Planned
    <3>2. uDest[f] # "none" /\ me.before[f] # "none"
      <4>1. me.before[f] \in Text
        BY <1>1, <1>4 DEF RunTyped, UpdateRun
      <4>2. "none" \notin Text
        BY FileFacts DEF Text
      <4>3. uDest[f] \in Text
        BY <1>4 DEF UpdateTyped, StoreTyped
      <4> QED
        BY <4>1, <4>2, <4>3
    <3> QED
      BY <1>2, <3>1, <3>2
  <2>2. Planned(back)
    BY <1>1, <1>4, <1>7, <1>11 DEF Fits, Planned
  <2>3. Placed(back, uDest', uNew)
    BY <1>1, <1>4, <1>7, <1>11, <2>1 DEF Fits, Placed
  <2>4. Reported(back, uDest', uNew, uServing)
    BY <1>1, <1>7, <1>11 DEF Fits, Planned, Reported
  <2> QED
    BY <2>2, <2>3, <2>4 DEF Fits
<1>12. Fits(me, uDest, uNew, uServing) => Fits(dirty, uDest, uNew, uServing)
  BY <1>1, <1>4, <1>8 DEF Fits, Planned, Placed, Reported
<1> QED
  BY <1>1, <1>9, <1>10, <1>11, <1>12 DEF me

\* A run that has put back all it could fits, and says so only if that was all.
LEMMA RolledBackFits ==
  ASSUME UpdateTyped, NEW u \in Update, U!RolledBack(u)
  PROVE  /\ UpdateTyped'
         /\ Fits(uUp[u], uDest, uNew, uServing) => Fits(uUp'[u], uDest', uNew', uServing')
<1> DEFINE me == uUp[u]
           word == IF me.clean THEN "rolledBack" ELSE "notRolledBack"
           next == [me EXCEPT !.pc = "done", !.told = word]
<1>1. /\ RunTyped(me) /\ me.pc = "rollback" /\ me.done = <<>> /\ U!Become(u, next)
      /\ uServing' = uServing \/ uServing' \in {uDest[U!Webui], "none"}
      /\ UNCHANGED <<uDest, uNew, uLatest, uMishaps>>
  BY DEF UpdateTyped, U!RolledBack, U!Tell, U!StartServices, U!None
<1>2. word \in U!Results /\ word \in {"rolledBack", "notRolledBack"} /\ (word = "rolledBack" => me.clean)
  BY DEF U!Results
<1>3. StoreTyped(uDest', uNew', uServing')
  BY <1>1, StoreServed DEF UpdateTyped
<1> HIDE DEF me, word
<1>4. /\ RunTyped(next) /\ next.pc = "done" /\ next.told = word
      /\ next.release = me.release /\ next.plan = me.plan /\ next.before = me.before
      /\ next.strays = me.strays
  BY <1>1, <1>2, ToldRun
<1> HIDE DEF next
<1>5. UpdateTyped'
  BY <1>1, <1>3, <1>4, RunBecomes DEF UpdateTyped
<1>6. uUp'[u] = next
  BY <1>1 DEF U!Become, UpdateTyped
<1>7. ASSUME Fits(me, uDest, uNew, uServing) PROVE Fits(next, uDest, uNew, uServing')
  <2>1. me.clean => \A f \in U!File : uDest[f] = me.before[f]
    <3>1. U!ToSet(<<>>) = {}
      BY DEF U!ToSet
    <3> QED
      BY <1>1, <1>7, <3>1 DEF Fits, Placed
  <2>2. \A f \in me.plan : uNew[f] = "none"
    BY <1>1, <1>7 DEF Fits, Placed
  <2>3. Planned(next) /\ Placed(next, uDest, uNew)
    BY <1>1, <1>4, <1>7 DEF Fits, Planned, Placed
  <2>4. Reported(next, uDest, uNew, uServing')
    BY <1>2, <1>4, <2>1, <2>2 DEF Reported
  <2> QED
    BY <2>3, <2>4 DEF Fits
<1> QED
  BY <1>1, <1>5, <1>6, <1>7 DEF me

\* What a boot makes of a run: its reboot is over, or it is lost.
LEMMA BootedRun ==
  ASSUME NEW me, RunTyped(me)
  PROVE  LET next == IF me.pc = "reboot" THEN [me EXCEPT !.pc = "rebooted"]
                     ELSE IF me.pc \notin {"idle", "done", "rebooted"}
                       THEN [me EXCEPT !.pc = "done", !.told = "lost"] ELSE me
         IN /\ RunTyped(next) /\ next.pc \in {"idle", "done", "rebooted"}
            /\ next.release = me.release /\ next.plan = me.plan /\ next.before = me.before
            /\ next.strays = me.strays
            /\ \/ next.pc = "rebooted" /\ me.pc = "reboot" /\ next.told = me.told
               \/ next.pc = "done" /\ next.told = "lost" /\ me.pc # "idle"
               \/ next = me
<1> DEFINE again == [me EXCEPT !.pc = "rebooted"]
           lost == [me EXCEPT !.pc = "done", !.told = "lost"]
<1>1. CASE me.pc = "reboot"
  <2>1. /\ RunTyped(again) /\ again.pc = "rebooted"
        /\ again.release = me.release /\ again.plan = me.plan /\ again.before = me.before
        /\ again.strays = me.strays /\ again.told = me.told
    BY <1>1, MovedRun
  <2> HIDE DEF again
  <2> QED
    BY <1>1, <2>1 DEF again
<1>2. CASE me.pc \notin {"idle", "done", "rebooted", "reboot"}
  <2>1. "lost" \in U!Results
    BY DEF U!Results
  <2>2. /\ RunTyped(lost) /\ lost.pc = "done" /\ lost.told = "lost"
        /\ lost.release = me.release /\ lost.plan = me.plan /\ lost.before = me.before
        /\ lost.strays = me.strays
    BY <1>2, <2>1, ToldRun
  <2> HIDE DEF lost
  <2> QED
    BY <1>2, <2>2 DEF lost
<1>3. CASE me.pc \in {"idle", "done", "rebooted"}
  BY <1>3
<1> QED
  BY <1>1, <1>2, <1>3

\* A boot leaves no run going and the others fitting.
LEMMA BootsFits ==
  ASSUME UpdateTyped, U!Boots
  PROVE  /\ UpdateTyped' /\ \A w \in Update : ~U!Active(w)'
         /\ \A u \in Update :
              Fits(uUp[u], uDest, uNew, uServing) => Fits(uUp'[u], uDest', uNew', uServing')
<1> DEFINE Booted(me) == IF me.pc = "reboot" THEN [me EXCEPT !.pc = "rebooted"]
                         ELSE IF me.pc \notin {"idle", "done", "rebooted"}
                           THEN [me EXCEPT !.pc = "done", !.told = "lost"] ELSE me
<1>1. /\ DOMAIN uUp' = Update /\ \A u \in Update : uUp'[u] = Booted(uUp[u])
      /\ uServing' \in {uServing, uDest[U!Webui], "none"}
      /\ uServing = uDest[U!Webui] => uServing' = uServing
      /\ UNCHANGED <<uDest, uNew, uLatest, uMishaps>>
  BY DEF U!Boots, U!Active, U!None
<1>2. \A me : RunTyped(me) =>
        LET next == Booted(me)
        IN /\ RunTyped(next) /\ next.pc \in {"idle", "done", "rebooted"}
           /\ next.release = me.release /\ next.plan = me.plan /\ next.before = me.before
           /\ next.strays = me.strays
           /\ \/ next.pc = "rebooted" /\ me.pc = "reboot" /\ next.told = me.told
              \/ next.pc = "done" /\ next.told = "lost" /\ me.pc # "idle"
              \/ next = me
  BY BootedRun
<1> HIDE DEF Booted
<1>3. \A u \in Update : RunTyped(uUp[u]) /\ RunTyped(uUp'[u]) /\ uUp'[u].pc \in {"idle", "done", "rebooted"}
  BY <1>1, <1>2 DEF UpdateTyped
<1>4. StoreTyped(uDest', uNew', uServing')
  BY <1>1, StoreServed DEF UpdateTyped
<1>5. UpdateTyped'
  BY <1>1, <1>3, <1>4 DEF UpdateTyped
<1>6. \A w \in Update : ~U!Active(w)'
  BY <1>3 DEF U!Active
<1>7. ASSUME NEW u \in Update, Fits(uUp[u], uDest, uNew, uServing)
      PROVE  Fits(uUp'[u], uDest, uNew, uServing')
  <2> DEFINE me == uUp[u]
             next == uUp'[u]
  <2>1. /\ next.release = me.release /\ next.plan = me.plan /\ next.before = me.before
        /\ next.strays = me.strays
        /\ next.pc \in {"idle", "done", "rebooted"}
        /\ \/ next.pc = "rebooted" /\ me.pc = "reboot" /\ next.told = me.told
           \/ next.pc = "done" /\ next.told = "lost" /\ me.pc # "idle"
           \/ next = me
    BY <1>1, <1>2, <1>3
  <2>2. me.told = "ok" /\ me.pc = "done" => uServing' = uServing
    <3>1. U!Webui \in U!File
      BY FileFacts
    <3> QED
      BY <1>1, <1>7, <3>1 DEF Fits, Reported
  <2> HIDE DEF me, next
  <2>3. Fits(me, uDest, uNew, uServing)
    BY <1>7 DEF me
  <2>4. Fits(next, uDest, uNew, uServing')
    <3>1. CASE next.pc = "rebooted" /\ me.pc = "reboot" /\ next.told = me.told
      BY <2>1, <2>3, <3>1 DEF Fits, Planned, Placed, Reported
    <3>2. CASE next.pc = "done" /\ next.told = "lost" /\ me.pc # "idle"
      BY <2>1, <2>3, <3>2 DEF Fits, Planned, Placed, Reported
    <3>3. CASE next = me
      BY <2>1, <2>2, <2>3, <3>3 DEF Fits, Planned, Placed, Reported
    <3> QED
      BY <2>1, <3>1, <3>2, <3>3
  <2> QED
    BY <2>4 DEF next
<1> QED
  BY <1>1, <1>5, <1>6, <1>7

\* Without such a mishap the update that began last fits the store and no other is
\* going.
UpdateSafe ==
  uLatest # "none" /\ uMishaps = {} =>
    /\ Fits(uUp[uLatest], uDest, uNew, uServing)
    /\ \A w \in Update \ {uLatest} : ~U!Active(w)

\* Every step keeps that.
LEMMA UpdateSafeNext ==
  ASSUME UpdateTyped, UpdateSafe, [U!Next]_uVars
  PROVE  UpdateTyped' /\ UpdateSafe'
<1>1. CASE UNCHANGED uVars
  BY <1>1 DEF uVars, UpdateTyped, UpdateSafe, Fits, Planned, Placed, Reported, U!Active
<1>2. CASE \E u \in Update : U!Begin(u)
  <2> PICK u \in Update : U!Begin(u)
    BY <1>2
  <2>1. UpdateTyped' /\ Fits(uUp'[u], uDest', uNew', uServing') /\ uLatest' = u
    BY BeginFits DEF U!Begin
  <2>2. uMishaps' = {} => \A w \in Update : ~U!Active(w)
    BY DEF U!Begin
  <2>3. \A w \in Update \ {u} : uUp'[w] = uUp[w]
    BY DEF U!Begin, U!Become, UpdateTyped
  <2>4. uMishaps' = {} => \A w \in Update \ {u} : ~U!Active(w)'
    BY <2>2, <2>3 DEF U!Active
  <2> QED
    BY <2>1, <2>4 DEF UpdateSafe
<1>3. CASE U!Boots
  <2>1. uLatest' = uLatest /\ uMishaps' = uMishaps
    BY <1>3 DEF U!Boots
  <2> QED
    BY <1>3, <2>1, BootsFits DEF UpdateSafe, UpdateTyped
<1>4. ASSUME NEW u \in Update, U!UpdateStep(u), ~U!Begin(u), ~U!Boots
      PROVE  UpdateTyped' /\ UpdateSafe'
  <2>1. \/ U!Refuse(u) \/ U!BackUp(u) \/ U!Write(u) \/ U!WriteFails(u)
        \/ U!Install(u) \/ U!InstallFails(u) \/ U!Restart(u) \/ U!Health(u)
        \/ U!Rollback(u) \/ U!RolledBack(u)
    BY <1>4 DEF U!UpdateStep, U!Reboot
  <2>2. /\ UpdateTyped'
        /\ Fits(uUp[u], uDest, uNew, uServing) /\ uMishaps' = {}
             => Fits(uUp'[u], uDest', uNew', uServing')
    BY <2>1, RefuseFits, BackUpFits, WriteFits, WriteFailsFits, InstallFits, InstallFailsFits,
       RestartFits, HealthFits, RollbackFits, RolledBackFits
  <2>3. /\ U!Active(u) /\ uLatest' = uLatest /\ (uMishaps' = {} => uMishaps = {})
        /\ \A w \in Update \ {u} : uUp'[w] = uUp[w]
    BY <2>1 DEF U!Refuse, U!BackUp, U!Write, U!WriteFails, U!Install, U!InstallFails, U!Restart,
       U!Health, U!Rollback, U!RolledBack, U!Active, U!Tell, U!Become, U!Missing, UpdateTyped
  <2>4. \A w \in Update \ {u} : U!Active(w)' = U!Active(w)
    BY <2>3 DEF U!Active
  <2>5. ASSUME uLatest' # "none", uMishaps' = {}
        PROVE  /\ Fits(uUp'[uLatest'], uDest', uNew', uServing')
               /\ \A w \in Update \ {uLatest'} : ~U!Active(w)'
    <3>1. /\ Fits(uUp[uLatest], uDest, uNew, uServing)
          /\ \A w \in Update \ {uLatest} : ~U!Active(w)
      BY <2>3, <2>5 DEF UpdateSafe
    <3>2. uLatest = u
      BY <2>3, <3>1
    <3> QED
      BY <2>2, <2>3, <2>4, <2>5, <3>1, <3>2
  <2> QED
    BY <2>2, <2>5 DEF UpdateSafe
<1> QED
  BY <1>1, <1>2, <1>3, <1>4 DEF U!Next, U!UpdateStep, U!Reboot, U!PowerCut

\* A step of the whole is a step of the update or leaves it alone.
LEMMA UpdateSteps == [Next]_vars => [U!Next]_uVars
BY DEF Next, vars, DeviceStep, ReloadStep, BatchStep, RadioStep, GuardStep, PairingStep,
   ControlStep, UpdateStep

\* Unless two updates overlapped, or the failure of a rollback copy or of a line for
\* the rollback went unseen: an update that says ok or current has left every file as
\* in its release, and serves the new one if it needed no reboot; one that says that
\* nothing changed or that it went back has left every file as it was and no new copy
\* behind; and whatever it says or was cut off at, each file is one or the other
\* (apply of hub_update.sh and the answers it ends in).
THEOREM UpdatesStayTrue == Spec => []ResultIsTrue
<1>1. Init => UpdateTyped /\ UpdateSafe
  BY UpdateInit DEF Init, U!Init, UpdateSafe, U!None
<1>2. UpdateTyped /\ UpdateSafe /\ [Next]_vars => UpdateTyped' /\ UpdateSafe'
  BY UpdateSafeNext, UpdateSteps
<1>3. UpdateTyped /\ UpdateSafe => ResultIsTrue
  <2> SUFFICES ASSUME UpdateTyped, UpdateSafe, uLatest # "none", uMishaps = {}
               PROVE  U!ResultIsTrue
    BY DEF ResultIsTrue, U!ResultIsTrue, U!None
  <2> DEFINE me == uUp[uLatest]
  <2>1. RunTyped(me) /\ Fits(me, uDest, uNew, uServing)
    BY DEF UpdateTyped, UpdateSafe
  <2>2. /\ uDest \in [U!File -> Text] /\ me.before \in [U!File -> Text]
        /\ me.release \in [U!File -> Text]
    BY <2>1, FileFacts DEF UpdateTyped, StoreTyped, RunTyped, UpdateRun
  <2> HIDE DEF me
  <2>3. (\A f \in U!File : uDest[f] = me.before[f]) => uDest = me.before
    BY <2>2
  <2>4. (\A f \in U!File : uDest[f] = me.release[f]) => uDest = me.release
    BY <2>2
  <2>5. /\ me.told \in {"nothing", "rolledBack"} =>
             uDest = me.before /\ \A f \in me.plan : uNew[f] \in {"none", me.strays[f]}
        /\ me.told \in {"ok", "current"} => uDest = me.release
        /\ me.told = "ok" /\ me.pc = "done" => uServing = me.release[U!Webui]
        /\ \A f \in U!File : uDest[f] \in {me.before[f], me.release[f]}
    BY <2>1, <2>3, <2>4 DEF Fits, Placed, Reported
  <2> QED
    BY <2>5 DEF U!ResultIsTrue, U!None, me
<1> QED
  BY <1>1, <1>2, <1>3, PTL DEF Spec

-----------------------------------------------------------------------------
(* The types of all the parts. *)

\* The children that have edited the configuration.
Edited == {c \in Child : rCh[c].pc # "idle"}

\* The versions are bounded by the edits.
ReloadBound ==
  /\ rVersion <= Cardinality(Edited)
  /\ rEngine <= rVersion /\ rRemote \in Nat /\ rRemote <= rVersion
  /\ rBusy \in BOOLEAN

\* They are at the start.
LEMMA ReloadBoundInit == R!Init => ReloadBound
<1> SUFFICES ASSUME R!Init PROVE ReloadBound
  OBVIOUS
<1>1. Edited = {}
  BY DEF R!Init, R!Idle, Edited
<1>2. Cardinality(Edited) = 0
  BY <1>1, FS_EmptySet
<1> QED
  BY <1>2 DEF R!Init, ReloadBound

\* There are at most as many edits as children.
LEMMA EditedGrow ==
  ASSUME ReloadTyped
  PROVE  /\ IsFiniteSet(Edited) /\ Cardinality(Edited) \in Nat
         /\ Cardinality(Edited) <= Cardinality(Child) /\ Cardinality(Child) \in Nat
<1>1. Edited \in SUBSET Child
  BY DEF Edited
<1> QED
  BY <1>1, ChildAssumption, FS_Subset, FS_CardinalityType

\* Every step of the reload keeps the bound: an edit is counted once.
LEMMA ReloadBoundNext ==
  ASSUME ReloadTyped, ReloadBound, [R!Next]_rVars
  PROVE  ReloadBound'
<1> DEFINE n == Cardinality(Edited)
<1>1. IsFiniteSet(Edited) /\ n \in Nat
  BY EditedGrow
<1>2. rVersion \in Nat /\ rEngine \in Nat /\ rVersion <= n
  BY DEF ReloadTyped, ReloadBound
<1>3. ASSUME NEW c \in Child, R!Edit(c) PROVE ReloadBound'
  <2>1. PICK k \in R!Kinds :
          /\ R!Become(c, [R!Idle EXCEPT !.pc = IF k = "bundle" THEN "rest" ELSE "flag", !.kind = k])
          /\ rVersion' = IF k = "lists" THEN rVersion ELSE rVersion + 1
    BY <1>3 DEF R!Edit
  <2>2. rCh[c].pc = "idle" /\ UNCHANGED <<rEngine, rRemote, rBusy>>
    BY <1>3 DEF R!Edit
  <2>3. rCh'[c].pc # "idle" /\ \A d \in Child : d # c => rCh'[d] = rCh[d]
    BY <2>1 DEF R!Become, R!Idle, ReloadTyped
  <2>4. Edited' = Edited \cup {c} /\ c \notin Edited
    BY <2>2, <2>3 DEF Edited
  <2>5. Cardinality(Edited') = n + 1
    BY <1>1, <2>4, FS_AddElement
  <2>6. rVersion' \in {rVersion, rVersion + 1}
    BY <2>1
  <2> HIDE DEF n
  <2> QED
    BY <1>1, <1>2, <2>2, <2>5, <2>6 DEF ReloadBound
<1>4. ASSUME \A c \in Child : rCh'[c].pc = "idle" <=> rCh[c].pc = "idle", rVersion' = rVersion,
             rEngine' \in {rEngine, rVersion}, rRemote' \in {rRemote, rVersion}, rBusy' \in BOOLEAN
      PROVE  ReloadBound'
  <2>1. Edited' = Edited
    BY <1>4 DEF Edited
  <2> HIDE DEF n
  <2> QED
    BY <1>2, <1>4, <2>1 DEF ReloadBound
<1>5. ASSUME NEW c \in Child, R!ChildStep(c) PROVE ReloadBound'
  <2>1. \A d \in Child : rCh'[d].pc = "idle" <=> rCh[d].pc = "idle"
    <3>1. /\ rCh[c].pc # "idle"
          /\ R!Become(c, [rCh[c] EXCEPT !.pc = "flag"]) \/ R!Become(c, [rCh[c] EXCEPT !.pc = "done"])
             \/ R!Become(c, [rCh[c] EXCEPT !.pc = "sign", !.holds = TRUE])
             \/ R!Become(c, [rCh[c] EXCEPT !.pc = "done", !.holds = FALSE])
      BY <1>5 DEF R!ChildStep, R!ImportRest, R!ImportFails, R!OpenFlag, R!OpenFlagFails,
         R!SignFlag
    <3>2. rCh[c] \in Editor
      BY DEF ReloadTyped
    <3>3. PICK next : next.pc # "idle" /\ R!Become(c, next)
      <4>1. /\ [rCh[c] EXCEPT !.pc = "flag"].pc = "flag"
            /\ [rCh[c] EXCEPT !.pc = "done"].pc = "done"
            /\ [rCh[c] EXCEPT !.pc = "sign", !.holds = TRUE].pc = "sign"
            /\ [rCh[c] EXCEPT !.pc = "done", !.holds = FALSE].pc = "done"
        BY <3>2 DEF Editor
      <4> QED
        BY <3>1, <4>1
    <3>4. rCh'[c].pc # "idle" /\ \A d \in Child : d # c => rCh'[d] = rCh[d]
      BY <3>3 DEF R!Become, ReloadTyped
    <3> QED
      BY <3>1, <3>4
  <2>2. UNCHANGED <<rVersion, rEngine, rRemote, rBusy>>
    BY <1>5 DEF R!ChildStep, R!ImportRest, R!ImportFails, R!OpenFlag, R!OpenFlagFails,
       R!SignFlag
  <2> QED
    BY <1>4, <2>1, <2>2 DEF ReloadBound
<1>6. CASE R!RemoveFlag
  <2>1. \A d \in Child : rCh'[d].pc = rCh[d].pc
    <3>1. \A d \in Child : rCh[d] \in Editor /\ rCh'[d] = [rCh[d] EXCEPT !.holds = FALSE]
      BY <1>6 DEF R!RemoveFlag, ReloadTyped
    <3> QED
      BY <3>1 DEF Editor
  <2>2. UNCHANGED <<rVersion, rEngine, rRemote, rBusy>>
    BY <1>6 DEF R!RemoveFlag
  <2> QED
    BY <1>4, <2>1, <2>2 DEF ReloadBound
<1>7. CASE R!MqttReadsFlag \/ R!WorkerReadsFlag \/ R!Reload \/ R!ReloadIsRefused \/ R!SyncBegins
           \/ R!SyncEnds \/ UNCHANGED rVars
  <2>1. /\ UNCHANGED <<rCh, rVersion>> /\ rEngine' \in {rEngine, rVersion}
        /\ rRemote' \in {rRemote, rVersion} /\ rBusy' \in {rBusy, TRUE, FALSE}
    BY <1>7 DEF R!MqttReadsFlag, R!WorkerReadsFlag, R!FlagIsRead, R!Reload, R!ReloadIsRefused,
                R!SyncBegins, R!SyncEnds, rVars
  <2> QED
    BY <1>4, <2>1 DEF ReloadBound
<1> QED
  BY <1>3, <1>5, <1>6, <1>7 DEF R!Next, R!RuntimeWorks

\* A run of a batch sleeps at most the pause and sends at most the batch.
BatchBound == \A r \in Child : iRun[r].slept <= Pause /\ iRun[r].attempted <= Limit

\* It does at the start.
LEMMA BatchBoundInit == I!Init => BatchBound
<1> SUFFICES ASSUME I!Init PROVE BatchBound
  OBVIOUS
<1>1. I!Resting.slept = 0 /\ I!Resting.attempted = 0
  BY DEF I!Resting
<1> QED
  BY <1>1, BatchAssumption DEF I!Init, BatchBound

\* Every step of a batch keeps the bounds.
LEMMA BatchBoundNext ==
  ASSUME BatchTyped, BatchBound, [I!Next]_iVars
  PROVE  BatchBound'
<1> USE BatchAssumption
<1>1. \A r \in Child : iRun[r] \in Batch /\ iRun[r].slept <= Pause /\ iRun[r].attempted <= Limit
  BY DEF BatchTyped, BatchBound
<1>2. ASSUME NEW r \in Child, NEW next, I!Become(r, next), next.slept <= Pause, next.attempted <= Limit
      PROVE  BatchBound'
  BY <1>1, <1>2 DEF I!Become, BatchBound, BatchTyped
<1>3. ASSUME NEW r \in Child, NEW me \in Batch, NEW verdict, I!Ended(r, me, verdict),
             me.slept <= Pause, me.attempted <= Limit
      PROVE  BatchBound'
  <2> DEFINE next == [me EXCEPT !.pc = "done", !.told = verdict,
                                !.skipped = @ + Len(me.lines) + 1 - me.at]
  <2>1. I!Become(r, next)
    BY <1>3 DEF I!Ended
  <2>2. next.slept = me.slept /\ next.attempted = me.attempted
    BY DEF Batch
  <2> HIDE DEF next
  <2> QED
    BY <1>2, <1>3, <2>1, <2>2
<1>4. ASSUME NEW r \in Child, I!Begin(r) PROVE BatchBound'
  <2>1. PICK b \in Batches[r] : I!Become(r, [I!Resting EXCEPT !.pc = "look", !.id = b.id,
                                              !.dry = b.dry, !.lines = b.lines])
    BY <1>4 DEF I!Begin
  <2> DEFINE next == [I!Resting EXCEPT !.pc = "look", !.id = b.id, !.dry = b.dry, !.lines = b.lines]
  <2>2. next.slept = 0 /\ next.attempted = 0
    BY DEF I!Resting
  <2> HIDE DEF next
  <2>3. I!Become(r, next)
    BY <2>1 DEF next
  <2> QED
    BY <1>2, <2>2, <2>3
<1>5. ASSUME NEW r \in Child, I!Look(r) PROVE BatchBound'
  <2> DEFINE me == iRun[r]
             bad == [me EXCEPT !.skipped = @ + 1, !.at = @ + 1]
             good == [me EXCEPT !.attempted = @ + 1, !.pc = IF me.dry THEN "next" ELSE "send"]
  <2>1. \/ \E verdict : I!Ended(r, me, verdict)
        \/ I!Become(r, bad)
        \/ me.attempted # Limit /\ I!Become(r, good)
    BY <1>5 DEF I!Look
  <2>2. /\ me \in Batch /\ bad.slept = me.slept /\ bad.attempted = me.attempted
        /\ good.slept = me.slept /\ good.attempted = me.attempted + 1
    BY <1>1 DEF Batch
  <2>3. me.slept <= Pause /\ me.attempted <= Limit
    BY <1>1
  <2> HIDE DEF bad, good
  <2>4. me.attempted \in Nat
    BY <2>2 DEF Batch
  <2> HIDE DEF me
  <2>5. me.attempted # Limit => me.attempted + 1 <= Limit
    BY <2>3, <2>4
  <2> QED
    BY <1>2, <1>3, <2>1, <2>2, <2>3, <2>5
<1>6. ASSUME NEW r \in Child, I!Send(r) PROVE BatchBound'
  <2> DEFINE next == [iRun[r] EXCEPT !.pc = "doze", !.slept = 0]
  <2>1. I!Become(r, next)
    BY <1>6 DEF I!Send
  <2>2. next.slept = 0 /\ next.attempted = iRun[r].attempted
    BY <1>1 DEF Batch
  <2> HIDE DEF next
  <2> QED
    BY <1>1, <1>2, <2>1, <2>2
<1>7. ASSUME NEW r \in Child, I!Doze(r) PROVE BatchBound'
  <2> DEFINE me == iRun[r]
             sent == [me EXCEPT !.sent = @ + 1]
             longer == [me EXCEPT !.slept = @ + 1]
             rested == [me EXCEPT !.pc = "next"]
  <2>1. \/ I!Ended(r, sent, "interrupted")
        \/ me.slept < Pause /\ I!Become(r, longer)
        \/ I!Become(r, rested)
    BY <1>7 DEF I!Doze
  <2>2. /\ me \in Batch /\ sent.slept = me.slept /\ sent.attempted = me.attempted
        /\ longer.slept = me.slept + 1 /\ longer.attempted = me.attempted
        /\ rested.slept = me.slept /\ rested.attempted = me.attempted
    BY <1>1 DEF Batch
  <2>3. sent \in Batch
    <3>1. me.sent + 1 \in Nat
      BY <2>2 DEF Batch
    <3> QED
      BY <2>2, <3>1 DEF Batch
  <2>4. me.slept <= Pause /\ me.attempted <= Limit
    BY <1>1
  <2> HIDE DEF sent, longer, rested
  <2>5. me.slept \in Nat
    BY <2>2 DEF Batch
  <2> HIDE DEF me
  <2>6. me.slept < Pause => me.slept + 1 <= Pause
    BY <2>5
  <2> QED
    BY <1>2, <1>3, <2>1, <2>2, <2>3, <2>4, <2>6
<1>8. ASSUME NEW r \in Child, I!NextLine(r) PROVE BatchBound'
  <2> DEFINE next == [iRun[r] EXCEPT !.pc = "look", !.sent = @ + 1, !.at = @ + 1]
  <2>1. I!Become(r, next)
    BY <1>8 DEF I!NextLine
  <2>2. next.slept = iRun[r].slept /\ next.attempted = iRun[r].attempted
    BY <1>1 DEF Batch
  <2> HIDE DEF next
  <2> QED
    BY <1>1, <1>2, <2>1, <2>2
<1>9. ASSUME NEW id \in Id, I!Cancel(id) PROVE BatchBound'
  BY <1>9 DEF I!Cancel, BatchBound
<1>10. CASE UNCHANGED iVars
  BY <1>10 DEF iVars, BatchBound
<1> QED
  BY <1>4, <1>5, <1>6, <1>7, <1>8, <1>9, <1>10 DEF I!Next, I!RunStep

\* The agent of the pairing keeps its clock and its attempts within their limits.
PairingBound ==
  /\ pTime <= Deadline
  /\ pAgent.attempts <= MaxAttempts
  /\ pAgent.now <= pTime /\ pAgent.since <= pTime

\* It does at the start.
LEMMA PairingBoundInit == P!Init => PairingBound
BY PairingAssumption DEF P!Init, PairingBound

\* Handling an event takes no time and no attempt.
LEMMA HandledBound ==
  ASSUME pAgent \in Agent, NEW ev \in Happening, NEW a \in P!Handled(ev)
  PROVE  /\ a \in Agent /\ a.now = pAgent.now /\ a.attempts = pAgent.attempts
         /\ a.since \in {pAgent.since, pAgent.now, 0}
<1>0. a \in Agent
  BY HandledAgent
<1>1. CASE ev.kind \in {"request", "confirm"}
  <2>1. a = [pAgent EXCEPT !.last = ev.peer]
    BY <1>1 DEF P!Handled
  <2> QED
    BY <1>0, <2>1 DEF Agent
<1>2. CASE ev.kind = "key"
  <2>1. PICK keys : a = [pAgent EXCEPT !.last = ev.peer, !.paired = TRUE, !.next = pAgent.now + 1,
                                       !.saved = keys]
    BY <1>2 DEF P!Handled
  <2> QED
    BY <1>0, <2>1 DEF Agent
<1>3. CASE ev.kind = "paired"
  <2>1. a = [pAgent EXCEPT !.paired = TRUE, !.next = pAgent.now + 1]
    BY <1>3 DEF P!Handled
  <2> QED
    BY <1>0, <2>1 DEF Agent
<1>4. CASE ev.kind = "up"
  <2>1. a = [pAgent EXCEPT !.linked = TRUE, !.since = pAgent.now]
    BY <1>4 DEF P!Handled
  <2> QED
    BY <1>0, <2>1 DEF Agent
<1>5. CASE ev.kind \in {"down", "failed"}
  <2>1. PICK after : a = [pAgent EXCEPT !.linked = FALSE, !.since = 0, !.next = after]
    BY <1>5 DEF P!Handled
  <2> QED
    BY <1>0, <2>1 DEF Agent
<1> QED
  BY <1>0, <1>1, <1>2, <1>3, <1>4, <1>5 DEF Happening, LinkKinds, OtherKinds

\* Every step of the agent keeps the limits.
LEMMA PairingBoundNext ==
  ASSUME AgentTyped, PairingBound, [P!Next]_pVars
  PROVE  PairingBound'
<1> USE PairingAssumption
<1>1. /\ pAgent \in Agent /\ pTime \in Nat
      /\ pAgent.now \in Nat /\ pAgent.since \in Nat /\ pAgent.attempts \in Nat
      /\ pTime <= Deadline /\ pAgent.attempts <= MaxAttempts
      /\ pAgent.now <= pTime /\ pAgent.since <= pTime
  BY DEF AgentTyped, Agent, PairingBound
<1>2. ASSUME NEW next, P!Become(next), UNCHANGED pTime, next.attempts <= MaxAttempts,
             next.now \in {pAgent.now, pTime}, next.since \in {pAgent.since, pAgent.now, 0}
      PROVE  PairingBound'
  BY <1>1, <1>2 DEF P!Become, PairingBound
<1>3. CASE P!Start \/ P!Reconnected \/ P!Waited \/ P!Stop
  <2>1. PICK next : /\ P!Become(next) /\ next.attempts = pAgent.attempts /\ next.now = pAgent.now
                    /\ next.since = pAgent.since
    <3> DEFINE loop == [pAgent EXCEPT !.pc = "loop"]
               poll == [pAgent EXCEPT !.pc = "poll", !.next = pAgent.now + Retry]
               stop == [pAgent EXCEPT !.pc = "stopped"]
    <3>1. P!Become(loop) \/ P!Become(poll) \/ P!Become(stop)
      BY <1>3 DEF P!Start, P!Reconnected, P!Waited, P!Stop
    <3>2. /\ loop.attempts = pAgent.attempts /\ loop.now = pAgent.now /\ loop.since = pAgent.since
          /\ poll.attempts = pAgent.attempts /\ poll.now = pAgent.now /\ poll.since = pAgent.since
          /\ stop.attempts = pAgent.attempts /\ stop.now = pAgent.now /\ stop.since = pAgent.since
      BY <1>1 DEF Agent
    <3> HIDE DEF loop, poll, stop
    <3> QED
      BY <3>1, <3>2
  <2>2. UNCHANGED pTime
    BY <1>3 DEF P!Start, P!Reconnected, P!Waited, P!Stop
  <2> QED
    BY <1>1, <1>2, <2>1, <2>2
<1>4. CASE P!Round
  <2> DEFINE pc == IF pTime >= Deadline THEN "timeout" ELSE IF P!IsComplete THEN "complete"
                   ELSE IF P!Reconnects THEN "reconnect" ELSE "poll"
             tries == IF pc = "reconnect" THEN pAgent.attempts + 1 ELSE pAgent.attempts
             next == [pAgent EXCEPT !.pc = pc, !.now = pTime, !.attempts = tries]
  <2>1. P!Become(next) /\ UNCHANGED pTime
    BY <1>4 DEF P!Round
  <2>2. pc = "reconnect" => pAgent.attempts < MaxAttempts
    BY DEF P!Reconnects
  <2> HIDE DEF pc
  <2>3. tries <= MaxAttempts
    BY <1>1, <2>2
  <2> HIDE DEF tries
  <2>4. next.attempts = tries /\ next.now = pTime /\ next.since = pAgent.since
    BY <1>1 DEF Agent
  <2> HIDE DEF next
  <2> QED
    BY <1>2, <2>1, <2>3, <2>4
<1>5. CASE P!Handle
  <2>1. PICK a \in P!Handled(Head(pQueue)) : P!Become([a EXCEPT !.pc = "loop"])
    BY <1>5 DEF P!Handle
  <2>2. pQueue \in Seq(Happening) /\ pQueue # <<>>
    BY <1>5 DEF P!Handle, AgentTyped
  <2>3. Head(pQueue) \in Happening
    BY <2>2, TailLinks
  <2>4. /\ a \in Agent /\ a.now = pAgent.now /\ a.attempts = pAgent.attempts
        /\ a.since \in {pAgent.since, pAgent.now, 0}
    BY <1>1, <2>3, HandledBound
  <2> DEFINE next == [a EXCEPT !.pc = "loop"]
  <2>5. next.attempts = a.attempts /\ next.now = a.now /\ next.since = a.since
    BY <2>4 DEF Agent
  <2>6. P!Become(next) /\ UNCHANGED pTime
    BY <1>5, <2>1 DEF P!Handle
  <2> HIDE DEF next
  <2> QED
    BY <1>1, <1>2, <2>4, <2>5, <2>6
<1>6. CASE P!AdapterStep
  <2>1. UNCHANGED <<pAgent, pTime>>
    BY <1>6 DEF P!AdapterStep, P!LinkComes, P!LinkFails, P!LinkGoes, P!Says, P!Happens
  <2> QED
    BY <2>1 DEF PairingBound
<1>7. CASE P!Tick
  <2>1. UNCHANGED pAgent /\ pTime' = pTime + 1 /\ pTime < Deadline
    BY <1>7 DEF P!Tick
  <2> QED
    BY <1>1, <2>1 DEF PairingBound
<1>8. CASE UNCHANGED pVars
  BY <1>8 DEF pVars, PairingBound
<1> QED
  BY <1>3, <1>4, <1>5, <1>6, <1>7, <1>8 DEF P!Next

\* The channel ids of the control link are those the hub and the peer gave out.
ControlBound ==
  /\ hLocalCid \in HubCid \cup {0} /\ hRemoteCid \in PeerCid \cup {0}
  /\ hMishaps \in SUBSET H!Mishaps

\* Every step of the link keeps that.
LEMMA ControlBoundNext ==
  ASSUME ControlBound, [H!Next]_hVars
  PROVE  ControlBound'
<1>1. ASSUME NEW p \in Peer, H!PeerRequests(p) \/ H!HubRequests(p) \/ H!HubResponds(p) \/ H!PeerResponds(p)
      PROVE  ControlBound'
  <2>1. /\ hLocalCid' = hLocalCid \/ hLocalCid' \in HubCid
        /\ hRemoteCid' = hRemoteCid \/ hRemoteCid' \in PeerCid
        /\ hMishaps' \subseteq hMishaps \cup {"second", "alike"}
    BY <1>1 DEF H!PeerRequests, H!HubRequests, H!HubResponds, H!PeerResponds, H!Requests,
                H!Responds, H!Confused, H!FreeHubCids, H!FreePeerCids
  <2> QED
    BY <2>1 DEF ControlBound, H!Mishaps
<1>2. ASSUME NEW p \in Peer, H!GetReport(p) PROVE ControlBound'
  BY <1>2 DEF H!GetReport, ControlBound
<1>3. ASSUME NEW p \in Peer, H!ChannelCloses(p) \/ H!LinkGoes(p) PROVE ControlBound'
  <2>1. UNCHANGED <<hLocalCid, hRemoteCid>> /\ hMishaps' \subseteq hMishaps \cup {"second"}
    BY <1>3 DEF H!ChannelCloses, H!LinkGoes, H!Left
  <2> QED
    BY <2>1 DEF ControlBound, H!Mishaps
<1>4. CASE H!Restarts
  BY <1>4 DEF H!Restarts, ControlBound, H!None, H!Mishaps
<1>5. CASE UNCHANGED hVars
  BY <1>5 DEF hVars, ControlBound
<1> QED
  BY <1>1, <1>2, <1>3, <1>4, <1>5 DEF H!Next

\* The types of every part, and what bounds its counters.
AllTyped ==
  /\ part \in Parts
  /\ Steadies /\ EditsTyped
  /\ ReloadTyped /\ Heard /\ ReloadBound
  /\ BatchTyped /\ BatchSafe /\ BatchBound
  /\ RadioTyped /\ RadioSafe
  /\ GuardTyped
  /\ AgentTyped /\ Timely /\ OneHostLinked /\ PairingBound
  /\ ControlTyped /\ Followed /\ ControlBound
  /\ UpdateTyped /\ UpdateSafe

\* The types of all the parts hold at the start.
LEMMA AllTypedInit == Init => AllTyped
BY DeviceInit, ReloadInit, ReloadBoundInit, BatchInit, BatchBoundInit, RadioInit, GuardInit,
   AgentInit, PairingBoundInit, ControlInit, UpdateInit
   DEF Init, AllTyped, ControlBound, H!Init, H!None, UpdateSafe, U!Init, U!None

\* Every step of any part keeps all of them.
LEMMA AllTypedNext == AllTyped /\ [Next]_vars => AllTyped'
<1> SUFFICES ASSUME AllTyped, [Next]_vars PROVE AllTyped'
  OBVIOUS
<1>1. (part \in Parts)'
  BY DEF AllTyped, Next, vars, DeviceStep, ReloadStep, BatchStep, RadioStep, GuardStep,
     PairingStep,
         ControlStep, UpdateStep
<1>2. Steadies' /\ EditsTyped'
  BY DeviceSteps, DeviceNextTyped DEF AllTyped
<1>3. ReloadTyped' /\ Heard' /\ ReloadBound'
  BY ReloadSteps, ReloadNext, ReloadBoundNext DEF AllTyped
<1>4. BatchTyped' /\ BatchSafe' /\ BatchBound'
  BY BatchSteps, BatchNext, BatchBoundNext DEF AllTyped
<1>5. RadioTyped' /\ RadioSafe'
  BY RadioSteps, RadioNext DEF AllTyped
<1>6. GuardTyped'
  BY GuardSteps, GuardNextTyped DEF AllTyped
<1>7. AgentTyped' /\ Timely' /\ OneHostLinked' /\ PairingBound'
  BY PairingSteps, AgentNext, PairingBoundNext DEF AllTyped
<1>8. ControlTyped' /\ Followed' /\ ControlBound'
  BY ControlSteps, ControlNext, ControlBoundNext DEF AllTyped
<1>9. UpdateTyped' /\ UpdateSafe'
  BY UpdateSteps, UpdateSafeNext DEF AllTyped
<1> QED
  BY <1>1, <1>2, <1>3, <1>4, <1>5, <1>6, <1>7, <1>8, <1>9 DEF AllTyped

\* Every variable of the eight parts keeps its type.  Among them are the attempts of
\* the pairing agent, the commands of a batch and the steps of its pause, which the
\* code counts in one place and compares in another, and the version the engine runs,
\* which is never ahead of the edits.
THEOREM TypesAreKept == Spec => []PartsTypeOK
<1>1. Init => AllTyped
  BY AllTypedInit
<1>2. AllTyped /\ [Next]_vars => AllTyped'
  BY AllTypedNext
<1>3. AllTyped => PartsTypeOK
  <2> SUFFICES ASSUME AllTyped PROVE PartsTypeOK
    OBVIOUS
  <2>1. D!TypeOK
    <3>1. \A c \in Child : /\ dCh[c].told \in {"none", "ok", "failed", "in use"}
                           /\ dCh[c].on \in {"none", "tmp", "live", "gone"}
                           /\ dCh[c].file \in {"Device", "Protocol"}
      BY DEF AllTyped, Steadies, Steady, EditChild
    <3>2. \A f \in {"Device", "Protocol"} : /\ dLive[f].text \in {"whole", "broken"}
                                            /\ dTmp[f].text \in {"whole", "broken", "none"}
      BY DEF AllTyped, EditsTyped, Content, D!NoFile
    <3>3. dSave.kind \in {"none", "activity", "settings", "reload"}
      BY DEF AllTyped, EditsTyped, SaveRecord
    <3> QED
      BY <3>1, <3>2, <3>3 DEF AllTyped, EditsTyped, D!TypeOK, D!Files
  <2>2. R!TypeOK
    <3>1. \A c \in Child : /\ rCh[c].pc \in {"idle", "rest", "flag", "sign", "done"}
                           /\ rCh[c].kind \in R!Kinds /\ rCh[c].holds \in BOOLEAN
      BY DEF AllTyped, ReloadTyped, Editor
    <3>2. rVersion \in 0 .. Cardinality(Child) /\ {rEngine, rRemote} \subseteq 0 .. rVersion
      <4>1. ReloadTyped /\ ReloadBound
        BY DEF AllTyped
      <4>2. /\ Cardinality(Edited) \in Nat /\ Cardinality(Child) \in Nat
            /\ Cardinality(Edited) <= Cardinality(Child)
        BY <4>1, EditedGrow
      <4>3. /\ rVersion \in Nat /\ rEngine \in Nat /\ rRemote \in Nat
            /\ rVersion <= Cardinality(Edited) /\ rEngine <= rVersion /\ rRemote <= rVersion
        BY <4>1 DEF ReloadTyped, ReloadBound
      <4> QED
        BY <4>2, <4>3
    <3>3. rTask.pc \in {"idle", "read", "removed"}
      BY DEF AllTyped, ReloadTyped
    <3>4. rFlag \in {"none", "empty", "devices", "lists"} /\ rBusy \in BOOLEAN
          /\ rMishaps \subseteq R!Mishaps
      BY DEF AllTyped, ReloadTyped, ReloadBound
    <3>5. R!Cardinality(Child) = Cardinality(Child)
      BY DEF R!Cardinality, Cardinality
    <3> QED
      BY <3>1, <3>2, <3>3, <3>4, <3>5 DEF R!TypeOK
  <2>3. I!TypeOK
    <3>1. \A r \in Child : /\ iRun[r].pc \in {"idle", "look", "send", "doze", "next", "done"}
                           /\ iRun[r].told \in {"none", "sent", "nothing", "canceled", "interrupted"}
                           /\ iRun[r].slept \in Nat /\ iRun[r].attempted \in Nat
      BY DEF AllTyped, BatchTyped, Batch, Running
    <3>2. \A r \in Child : iRun[r].slept \in 0 .. Pause /\ iRun[r].attempted \in 0 .. Limit
      BY <3>1, BatchAssumption DEF AllTyped, BatchBound
    <3> QED
      BY <3>1, <3>2 DEF AllTyped, BatchTyped, I!TypeOK
  <2>4. F!TypeOK
    <3>1. \A c \in Child :
            /\ fKid[c].pc \in {"idle", "before", "window", "after", "done"}
            /\ fKid[c].helper \in {"none", "info", "window"}
            /\ fKid[c].locked \in BOOLEAN /\ fKid[c].open \in BOOLEAN
            /\ fKid[c].told \in {"none", "pairing", "no lock", "failed", "listed", "paired"}
      BY DEF AllTyped, RadioTyped, Kid, Busy
    <3> QED
      BY <3>1 DEF AllTyped, RadioTyped, F!TypeOK
  <2>5. B!TypeOK
    <3>1. \A c \in Child : /\ bCaller[c].pc \in {"idle", "lock", "sleep", "wait", "end", "done"}
                           /\ bCaller[c].guarded \in BOOLEAN
      BY DEF AllTyped, GuardTyped, Tool
    <3>2. bStamp \in 0 .. MaxTime /\ bNow \in 0 .. MaxTime /\ bFreed \in 0 .. (MaxTime + Teardown)
      BY GuardAssumption DEF AllTyped, GuardTyped
    <3> QED
      BY <3>1, <3>2 DEF AllTyped, GuardTyped, B!TypeOK
  <2>6. P!TypeOK
    <3>1. AgentTyped /\ PairingBound
      BY DEF AllTyped
    <3>2. /\ pAgent.pc \in {"start", "loop", "poll", "reconnect", "complete", "timeout", "stopped"}
          /\ pAgent.last \in Host \cup {P!Nobody} /\ pAgent.saved \in SUBSET Host
          /\ pAgent.attempts \in Nat /\ pAgent.now \in Nat /\ pAgent.since \in Nat
      BY <3>1 DEF AgentTyped, Agent
    <3>3. /\ pTime \in 1 .. Deadline /\ pAgent.attempts \in 0 .. MaxAttempts
          /\ pAgent.now \in 0 .. pTime /\ pAgent.since \in 0 .. pTime
      BY <3>1, <3>2, PairingAssumption DEF AgentTyped, PairingBound
    <3>4. pUp \in [Host -> 0 .. Deadline]
      BY <3>1, PairingAssumption DEF AgentTyped, PairingBound
    <3> QED
      BY <3>1, <3>2, <3>3, <3>4 DEF AgentTyped, P!TypeOK
  <2>7. H!TypeOK
    BY DEF AllTyped, ControlTyped, ControlBound, H!TypeOK, H!None
  <2>8. U!TypeOK
    <3>1. UpdateTyped
      BY DEF AllTyped
    <3>2. \A u \in Update :
            /\ uUp[u].pc \in {"idle", "check", "write", "install", "restart", "health", "rollback",
                              "reboot", "rebooted", "done"}
            /\ uUp[u].told \in U!Results
            /\ uUp[u].left \subseteq U!File
      BY <3>1 DEF UpdateTyped, RunTyped, UpdateRun
    <3>3. \A f \in U!File :
            /\ uDest[f] \in {release[f] : release \in Releases \cup {FirstFiles}}
            /\ uNew[f] \in {release[f] : release \in Releases} \cup {"none"}
      BY <3>1 DEF UpdateTyped, StoreTyped, InstalledAt, SentAt, Manifests
    <3>4. uServing \in {release[U!Webui] : release \in Releases \cup {FirstFiles}} \cup {"none"}
      BY <3>1 DEF UpdateTyped, StoreTyped, InstalledAt, Manifests
    <3> QED
      BY <3>1, <3>2, <3>3, <3>4 DEF UpdateTyped, U!TypeOK, U!None
  <2> QED
    BY <2>1, <2>2, <2>3, <2>4, <2>5, <2>6, <2>7, <2>8 DEF AllTyped, PartsTypeOK
<1> QED
  BY <1>1, <1>2, <1>3, PTL DEF Spec
=============================================================================
