--------------------------- MODULE DeviceListsProofs ---------------------------
(***************************************************************************)
(* The two lists stay sound, for any number of children, any names, any    *)
(* lists to import and any limit: no id twice, no command twice in a       *)
(* device, no device past its table, no protocol twice, and a built-in     *)
(* protocol for every command that needs one.  Each edit is shown to keep  *)
(* the list it read sound; the invariant then says of a child that is      *)
(* about to write what it has made sure of.                                *)
(***************************************************************************)
EXTENDS DeviceEditsProofs

\* Some device of the list holds the command.
HasCommand(list, n) == \E j \in 1 .. Len(list) : D!Contains(list[j].cmds, n)

\* The entries of a device list are devices.
LEMMA DevicesOf ==
  ASSUME NEW list \in Seq(Device), NEW j \in 1 .. Len(list)
  PROVE  /\ list[j] \in Device /\ list[j].id \in Nat /\ list[j].label \in Texts
         /\ list[j].cmds \in Seq(Texts)
<1>1. list[j] \in Device
  OBVIOUS
<1>2. \A d \in Device : d.id \in Nat /\ d.label \in Texts /\ d.cmds \in Seq(Texts)
  BY DEF Device
<1> QED
  BY <1>1, <1>2

\* What a tidy device list is, entry by entry.
LEMMA TidyOf ==
  ASSUME NEW list \in Seq(Device)
  PROVE  D!Tidy(list) <=>
           /\ \A i, j \in 1 .. Len(list) : list[i].id = list[j].id => i = j
           /\ \A i \in 1 .. Len(list) : D!Distinct(list[i].cmds) /\ Len(list[i].cmds) <= MaxCommands
<1>1. DOMAIN list = 1 .. Len(list)
  OBVIOUS
<1> QED
  BY <1>1 DEF D!Tidy

\* A device list is served when the commands that need the protocol have it.
LEMMA ServedOf ==
  ASSUME NEW list \in Seq(Device), NEW protocols
  PROVE  D!Served(list, protocols) <=>
           \A n \in Keyed : HasCommand(list, n) => D!HasBuiltin(protocols)
<1>1. DOMAIN list = 1 .. Len(list)
  OBVIOUS
<1> QED
  BY <1>1 DEF D!Served, HasCommand

\* A deletion keeps the list tidy and adds no command.
LEMMA TidyShortened ==
  ASSUME NEW list \in Seq(Device), D!Tidy(list), NEW i \in 1 .. Len(list)
  PROVE  /\ D!Tidy(D!RemoveAt(list, i))
         /\ \A n : HasCommand(D!RemoveAt(list, i), n) => HasCommand(list, n)
<1> DEFINE new == D!RemoveAt(list, i)
           From(j) == IF j < i THEN j ELSE j + 1
<1>1. /\ new \in Seq(Device) /\ Len(new) = Len(list) - 1
      /\ \A j \in 1 .. Len(list) - 1 : new[j] = IF j < i THEN list[j] ELSE list[j + 1]
  BY WithoutOne
<1>2. Len(list) \in Nat /\ i \in Nat
  OBVIOUS
<1>3. \A j \in 1 .. Len(new) : new[j] = list[From(j)] /\ From(j) \in 1 .. Len(list)
  BY <1>1, <1>2
<1>4. \A j, k \in 1 .. Len(new) : From(j) = From(k) => j = k
  BY <1>1, <1>2
<1> HIDE DEF new, From
<1>5. \A j, k \in 1 .. Len(new) : new[j].id = new[k].id => j = k
  BY <1>3, <1>4, TidyOf
<1>6. \A j \in 1 .. Len(new) : D!Distinct(new[j].cmds) /\ Len(new[j].cmds) <= MaxCommands
  BY <1>3, TidyOf
<1>7. D!Tidy(new)
  BY <1>1, <1>5, <1>6, TidyOf
<1>8. \A n : HasCommand(new, n) => HasCommand(list, n)
  BY <1>3 DEF HasCommand
<1> QED
  BY <1>7, <1>8 DEF new

\* An edit of one device that passed its checks keeps the list tidy and adds only
\* the names it was sent with.
LEMMA TidyRewritten ==
  ASSUME NEW r \in EditRequest, NEW list \in Seq(Device), D!Tidy(list), r.id \in D!Ids(list),
         r.kind # "delete", Allowed(r, D!Commands(list, r.id))
  PROVE  /\ D!Tidy(D!Edited(r, list))
         /\ \A n : HasCommand(D!Edited(r, list), n)
                     => HasCommand(list, n) \/ NewIn(r, D!Commands(list, r.id), n)
<1> DEFINE i == D!Position(list, r.id)
           new == D!Edited(r, list)
           cmds == D!Commands(list, r.id)
           newCmds == D!Rewritten(r, cmds)
<1>1. /\ i \in 1 .. Len(list)
      /\ new \in Seq(Device) /\ Len(new) = Len(list)
      /\ \A j \in 1 .. Len(list) :
           new[j] = [id |-> list[j].id,
                     label |-> IF j = i /\ r.kind = "label" THEN r.name ELSE list[j].label,
                     cmds |-> IF j = i THEN D!Rewritten(r, list[j].cmds) ELSE list[j].cmds]
  BY EditedOf
<1>2. cmds = list[i].cmds
  BY DEF D!Commands
<1> HIDE DEF i, new, cmds
<1>3. \A j \in 1 .. Len(list) :
        new[j].id = list[j].id /\ new[j].cmds = IF j = i THEN newCmds ELSE list[j].cmds
  <2> SUFFICES ASSUME NEW j \in 1 .. Len(list)
               PROVE  new[j].id = list[j].id /\ new[j].cmds = IF j = i THEN newCmds ELSE list[j].cmds
    OBVIOUS
  <2> DEFINE label == IF j = i /\ r.kind = "label" THEN r.name ELSE list[j].label
             hers == IF j = i THEN D!Rewritten(r, list[j].cmds) ELSE list[j].cmds
  <2>1. new[j] = [id |-> list[j].id, label |-> label, cmds |-> hers]
    BY <1>1
  <2>2. hers = IF j = i THEN newCmds ELSE list[j].cmds
    BY <1>2
  <2> HIDE DEF label, hers
  <2> QED
    BY <2>1, <2>2, Fields
<1>4. /\ cmds \in Seq(Texts) /\ D!Distinct(cmds) /\ Len(cmds) <= MaxCommands
      /\ Allowed(r, cmds)
  BY <1>1, <1>2, DevicesOf, TidyOf DEF cmds
<1>5. /\ D!Distinct(newCmds) /\ Len(newCmds) <= MaxCommands
      /\ \A n : D!Contains(newCmds, n) => D!Contains(cmds, n) \/ NewIn(r, cmds, n)
  BY <1>4, RewrittenOf
<1> HIDE DEF newCmds
<1>6. \A j, k \in 1 .. Len(new) : new[j].id = new[k].id => j = k
  BY <1>1, <1>3, TidyOf
<1>7. \A j \in 1 .. Len(new) : D!Distinct(new[j].cmds) /\ Len(new[j].cmds) <= MaxCommands
  BY <1>1, <1>3, <1>5, TidyOf
<1>8. D!Tidy(new)
  BY <1>1, <1>6, <1>7, TidyOf
<1>9. \A n : HasCommand(new, n) => HasCommand(list, n) \/ NewIn(r, cmds, n)
  BY <1>1, <1>2, <1>3, <1>5 DEF HasCommand
<1> QED
  BY <1>8, <1>9 DEF new, cmds

\* So does every edit, and it adds a command that needs the protocol only when
\* NeedsProtocol says so.
LEMMA TidyEdited ==
  ASSUME NEW r \in EditRequest, NEW list \in Seq(Device), D!Tidy(list), r.kind \in Changes,
         D!Accepts(r, list)
  PROVE  /\ D!Tidy(D!Edited(r, list))
         /\ \A n \in Keyed : HasCommand(D!Edited(r, list), n)
                               => HasCommand(list, n) \/ D!NeedsProtocol(r, list)
<1>1. r.id \in D!Ids(list)
  BY DEF D!Accepts
<1>2. CASE r.kind = "delete"
  <2>1. D!Edited(r, list) = D!RemoveAt(list, D!Position(list, r.id))
    BY <1>1, <1>2 DEF D!Edited
  <2>2. D!Position(list, r.id) \in 1 .. Len(list)
    BY <1>1, PositionOf
  <2> QED
    BY <2>1, <2>2, TidyShortened
<1>3. CASE r.kind # "delete"
  <2>1. Allowed(r, D!Commands(list, r.id))
    BY DEF D!Accepts, Allowed
  <2>2. \A n \in Keyed : NewIn(r, D!Commands(list, r.id), n) => D!NeedsProtocol(r, list)
    BY DEF NewIn, D!NeedsProtocol
  <2> QED
    BY <1>1, <1>3, <2>1, <2>2, TidyRewritten
<1> QED
  BY <1>2, <1>3

\* A new device with a fresh id keeps the list tidy and brings no command.
LEMMA TidyGrown ==
  ASSUME NEW list \in Seq(Device), D!Tidy(list), NEW id \in Nat, id \notin D!Ids(list)
  PROVE  /\ D!Tidy(Append(list, D!NewDevice(id)))
         /\ \A n : HasCommand(Append(list, D!NewDevice(id)), n) => HasCommand(list, n)
<1> DEFINE d == D!NewDevice(id)
           new == Append(list, d)
<1>1. d \in Device
  BY NewItems
<1>2. d.id = id /\ d.cmds = <<>>
  BY DEF D!NewDevice
<1>3. D!Distinct(<<>>) /\ Len(<<>>) <= MaxCommands /\ \A n : ~D!Contains(<<>>, n)
  BY DevicesAssumption DEF D!Distinct, D!Contains
<1> HIDE DEF d
<1>4. /\ new \in Seq(Device) /\ Len(new) = Len(list) + 1 /\ Len(list) \in Nat
      /\ \A j \in 1 .. Len(list) : new[j] = list[j]
      /\ new[Len(list) + 1] = d
  BY <1>1
<1> HIDE DEF new
<1>5. \A j \in 1 .. Len(list) : list[j].id # id
  BY DEF D!Ids
<1>6. \A j \in 1 .. Len(new) : j \in 1 .. Len(list) \/ j = Len(list) + 1
  BY <1>4
<1>7. \A j, k \in 1 .. Len(new) : new[j].id = new[k].id => j = k
  BY <1>2, <1>4, <1>5, <1>6, TidyOf
<1>8. \A j \in 1 .. Len(new) : D!Distinct(new[j].cmds) /\ Len(new[j].cmds) <= MaxCommands
  BY <1>2, <1>3, <1>4, <1>6, TidyOf
<1>9. D!Tidy(new)
  BY <1>4, <1>7, <1>8, TidyOf
<1>10. \A n : HasCommand(new, n) => HasCommand(list, n)
  BY <1>2, <1>3, <1>4, <1>6 DEF HasCommand
<1> QED
  BY <1>9, <1>10 DEF new, d

\* A label the hub writes changes neither ids nor commands.
LEMMA TidyLabelled ==
  ASSUME NEW list \in Seq(Device), NEW name \in Texts, dSave.id \in Nat
  PROVE  /\ D!Tidy(D!Labelled(list, name)) <=> D!Tidy(list)
         /\ \A n : HasCommand(D!Labelled(list, name), n) <=> HasCommand(list, n)
<1> DEFINE new == D!Labelled(list, name)
           i == D!Position(list, dSave.id)
<1>1. /\ new \in Seq(Device) /\ Len(new) = Len(list)
      /\ \A j \in 1 .. Len(list) :
           new[j] = [id |-> list[j].id,
                     label |-> IF j = i /\ dSave.id \in D!Ids(list) THEN name ELSE list[j].label,
                     cmds |-> list[j].cmds]
  BY LabelledOf
<1> HIDE DEF new
<1>2. \A j \in 1 .. Len(list) : new[j].id = list[j].id /\ new[j].cmds = list[j].cmds
  <2> SUFFICES ASSUME NEW j \in 1 .. Len(list)
               PROVE  new[j].id = list[j].id /\ new[j].cmds = list[j].cmds
    OBVIOUS
  <2> DEFINE label == IF j = i /\ dSave.id \in D!Ids(list) THEN name ELSE list[j].label
  <2>1. new[j] = [id |-> list[j].id, label |-> label, cmds |-> list[j].cmds]
    BY <1>1
  <2> HIDE DEF label
  <2> QED
    BY <2>1, Fields
<1>3. D!Tidy(new) <=> D!Tidy(list)
  BY <1>1, <1>2, TidyOf
<1>4. \A n : HasCommand(new, n) <=> HasCommand(list, n)
  BY <1>1, <1>2 DEF HasCommand
<1> QED
  BY <1>3, <1>4 DEF new

\* The protocol appended is there, once if it was not before.
LEMMA BuiltinAdded ==
  ASSUME NEW list \in Seq(Protocol)
  PROVE  /\ D!HasBuiltin(Append(list, D!Builtin))
         /\ D!Distinct(list) /\ ~D!Contains(list, D!Builtin)
              => D!Distinct(Append(list, D!Builtin))
<1>1. D!Builtin \in Protocol
  BY NewItems
<1>2. D!HasBuiltin(Append(list, D!Builtin))
  <2> DEFINE new == Append(list, D!Builtin)
  <2>1. Len(list) + 1 \in DOMAIN new /\ new[Len(list) + 1] = D!Builtin
    BY <1>1
  <2> HIDE DEF new
  <2>2. new[Len(list) + 1].name = D!Builtin.name
    BY <2>1
  <2>3. D!HasBuiltin(new)
    BY <2>1, <2>2 DEF D!HasBuiltin
  <2> QED
    BY <2>3 DEF new
<1> QED
  BY <1>1, <1>2, Appended

-----------------------------------------------------------------------------
(* The steps. *)

\* A child that was not forked was asked for nothing.
Asked == \A c \in Child : dCh[c].pc = "idle" => dCh[c].req.kind = "none"

\* The child is adding the built-in protocol to its list.
Adds(c) == dCh[c].pc \in Writing /\ dCh[c].file = "Protocol" /\ dCh[c].req.kind # "bundle"

\* It saw that the protocol was not there.
AddsOnce(c) == Adds(c) => ~D!Contains(dCh[c].seen.val, D!Builtin)

\* A child that writes a command that needs the protocol has seen it in the file.
IsServed(c) ==
  dCh[c].pc \in {"reread"} \cup Writing /\ dCh[c].file = "Device" /\ dCh[c].req.kind \in Changes
    /\ D!NeedsProtocol(dCh[c].req, dCh[c].raw.val)
    => D!HasBuiltin(dLive["Protocol"].val)

\* No list was brought from outside.
NothingImported == \A c \in Child : dCh[c].req.kind \notin {"restore", "bundle"}

\* What the two files are exposed to when children overlap.
Races == {"overlap", "flush", "lost", "overtaken"}

\* Both lists are tidy.
TidyLists == D!Tidy(dLive["Device"].val) /\ D!Distinct(dLive["Protocol"].val)

\* Every command that needs the protocol has it.
ServedLists == D!Served(dLive["Device"].val, dLive["Protocol"].val)

\* Free of races both lists are tidy and every child that adds the protocol saw
\* that it was missing; with nothing imported, commands also have their protocol,
\* and a child about to write one has seen to it.
Sound ==
  D!Free(Races) =>
    /\ Asked
    /\ TidyLists
    /\ \A c \in Child : AddsOnce(c)
    /\ NothingImported => ServedLists /\ \A c \in Child : IsServed(c)

\* The lists the hub starts with are sound.
LEMMA SoundInit == D!Init => Sound
<1> SUFFICES ASSUME D!Init PROVE Sound
  OBVIOUS
<1>1. PICK lists \in FirstLists : dLive = [f \in D!Files |-> D!Whole(lists[f])]
  BY DEF D!Init
<1>2. \A list : D!Whole(list).val = list
  BY DEF D!Whole
<1>3. dLive["Device"].val = lists.Device /\ dLive["Protocol"].val = lists.Protocol
  BY <1>1, <1>2, Files
<1>4. TidyLists /\ ServedLists
  BY <1>3, DevicesAssumption DEF TidyLists, ServedLists
<1>5. \A c \in Child : dCh[c] = D!Fresh /\ dCh[c].pc = "idle" /\ dCh[c].req.kind = "none"
  BY FreshSteady DEF D!Init
<1> QED
  BY <1>4, <1>5 DEF Sound, Asked, AddsOnce, Adds, IsServed, Writing

\* What a child has seen to when it comes to the writing of a file.
Came(c) ==
  LET me == dCh[c]
      you == dCh'[c]
  IN
  \/ you.pc \notin {"reread"} \cup Writing
  \/ you.file = "Device" /\ ~D!NeedsProtocol(me.req, you.raw.val)
  \/ you.file = "Device" /\ D!HasBuiltin(dLive["Protocol"].val)
  \/ you.file = "Device" /\ D!Publish(c) /\ me.file = "Protocol"
  \/ you.file = "Device" /\ me.req.kind = "create"
  \/ you.file = "Protocol" /\ ~D!Contains(you.seen.val, D!Builtin)
  \/ you.file = "Protocol" /\ me.req.kind = "bundle"
  \/ /\ me.pc \in {"reread"} \cup Writing /\ you.file = me.file /\ you.raw = me.raw
     /\ me.file = "Protocol" => me.pc \in Writing /\ you.seen = me.seen

\* Every step of a child comes as Came says, unless the protocol was removed
\* behind its back.
LEMMA ChildCame ==
  ASSUME Steadies, EditsTyped, NEW c \in Child, D!ChildStep(c), "overtaken" \notin dMishaps'
  PROVE  Came(c)
<1> DEFINE me == dCh[c]
           you == dCh'[c]
<1>1. DOMAIN dCh = Child /\ me \in EditChild /\ InStep(me) /\ Steady(me)
  BY DEF Steadies, Steady
<1> HIDE DEF me
<1>2. CASE you.pc \notin {"reread"} \cup Writing
  BY <1>2 DEF Came
<1>3. CASE D!Answer(c, "ok") \/ D!Answer(c, "failed") \/ D!Answer(c, "in use")
  <2>1. PICK verdict \in {"ok", "failed", "in use"} : you = D!Ended(c, verdict)
    BY <1>1, <1>3 DEF D!Answer, D!Become
  <2>2. you.pc = "done"
    BY <1>1, <2>1, EndedSteady DEF me
  <2> QED
    BY <1>2, <2>2 DEF Writing
<1>4. CASE D!Scan(c) \/ D!ScanFails(c)
  <2>1. you.pc = "append"
    BY <1>1, <1>4 DEF D!Scan, D!ScanFails, D!Become, EditChild, me
  <2> QED
    BY <1>2, <2>1 DEF Writing
<1>5. CASE D!Check(c) /\ ~D!Answer(c, "in use")
  <2>1. (you = [me EXCEPT !.n = me.n + 1] /\ me.pc = "check") \/ you = [me EXCEPT !.pc = "read"]
    BY <1>1, <1>5 DEF D!Check, D!Become, me
  <2>2. you.pc \in {"check", "read"}
    BY <1>1, <2>1 DEF EditChild
  <2> QED
    BY <1>2, <2>2 DEF Writing
<1>6. CASE D!Read(c) /\ ~D!Answer(c, "failed") /\ ~D!Answer(c, "ok")
  <2> DEFINE first == IF D!NeedsProtocol(me.req, dLive.Device.val) THEN "ensure"
                      ELSE D!AfterProtocol(me.req.kind)
             next == [me EXCEPT !.pc = first, !.raw = dLive.Device, !.seen = dLive.Device,
                                !.out = D!Edited(me.req, dLive.Device.val)]
  <2>1. me.file = "Device" /\ (you = [me EXCEPT !.pc = "look"] \/ you = next)
    BY <1>1, <1>6 DEF D!Read, D!Become, InStep, me
  <2>2. D!NeedsProtocol(me.req, dLive.Device.val) => first = "ensure"
    OBVIOUS
  <2> HIDE DEF first
  <2>3. CASE you = [me EXCEPT !.pc = "look"]
    <3>1. you.pc = "look"
      BY <1>1, <2>3 DEF EditChild
    <3> QED
      BY <1>2, <3>1 DEF Writing
  <2>4. CASE you = next
    <3>1. you.pc = first /\ you.file = "Device" /\ you.raw = dLive.Device
      BY <1>1, <2>1, <2>4 DEF EditChild
    <3>2. CASE first = "ensure"
      BY <1>2, <3>1, <3>2 DEF Writing
    <3>3. CASE first # "ensure"
      BY <2>2, <3>1, <3>3 DEF Came, me
    <3> QED
      BY <3>2, <3>3
  <2> QED
    BY <2>1, <2>3, <2>4
<1>7. CASE D!Look(c) /\ ~D!Answer(c, "ok")
  <2>1. you.pc = "ensure"
    BY <1>1, <1>7 DEF D!Look, D!Become, EditChild, me
  <2> QED
    BY <1>2, <2>1 DEF Writing
<1>8. CASE D!Ensure(c) /\ ~D!Answer(c, "ok")
  <2>1. \/ you = [me EXCEPT !.pc = "append", !.file = "Protocol"]
        \/ /\ D!HasBuiltin(dLive.Protocol.val)
           /\ you = [me EXCEPT !.pc = D!AfterProtocol(me.req.kind)] /\ me.file = "Device"
    BY <1>1, <1>8 DEF D!Ensure, D!Become, D!Answer, InStep, me
  <2>2. CASE you = [me EXCEPT !.pc = "append", !.file = "Protocol"]
    <3>1. you.pc = "append"
      BY <1>1, <2>2 DEF EditChild
    <3> QED
      BY <1>2, <3>1 DEF Writing
  <2>3. CASE /\ D!HasBuiltin(dLive.Protocol.val)
             /\ you = [me EXCEPT !.pc = D!AfterProtocol(me.req.kind)] /\ me.file = "Device"
    <3>1. you.file = "Device"
      BY <1>1, <2>3 DEF EditChild
    <3> QED
      BY <2>3, <3>1 DEF Came
  <2> QED
    BY <2>1, <2>2, <2>3
<1>9. CASE D!AppendItem(c) /\ ~D!Answer(c, "failed")
  <2> DEFINE item == IF me.file = "Protocol" THEN D!Builtin ELSE D!NewDevice(me.id)
             list == dLive[me.file].val
  <2>1. /\ you = [me EXCEPT !.pc = "open", !.seen = dLive[me.file], !.out = Append(list, item)]
        /\ me.pc = "append" /\ ~D!Contains(list, item)
    BY <1>1, <1>9 DEF D!AppendItem, D!Become, me
  <2>2. me.file = "Device" => me.req.kind = "create"
    BY <1>1, <2>1 DEF InStep
  <2>3. me.file = "Protocol" => ~D!Contains(list, D!Builtin)
    BY <2>1
  <2> HIDE DEF item
  <2>4. you.file = me.file /\ you.seen = dLive[me.file] /\ me.file \in {"Device", "Protocol"}
    BY <1>1, <2>1 DEF EditChild
  <2> QED
    BY <2>2, <2>3, <2>4 DEF Came, me
<1>10. CASE D!Reread(c) /\ ~D!Answer(c, "failed")
  <2>1. you = [me EXCEPT !.pc = "open", !.seen = dLive.Device,
                         !.out = D!Edited(me.req, dLive.Device.val)]
        /\ me.pc = "reread" /\ me.file = "Device"
    BY <1>1, <1>10 DEF D!Reread, D!Become, InStep, me
  <2>2. you.file = me.file /\ you.raw = me.raw
    BY <1>1, <2>1 DEF EditChild
  <2> QED
    BY <2>1, <2>2 DEF Came, me
<1>11. CASE D!Open(c) \/ D!Write(c) \/ D!FlushFails(c)
  <2>1. /\ me.pc \in Writing
        /\ you = [me EXCEPT !.pc = "write", !.on = "tmp"] \/ you = [me EXCEPT !.pc = "publish"]
    BY <1>1, <1>11 DEF D!Open, D!Write, D!FlushFails, D!Become, me, Writing
  <2>2. you.file = me.file /\ you.raw = me.raw /\ you.seen = me.seen
    BY <1>1, <2>1 DEF EditChild
  <2> QED
    BY <2>1, <2>2 DEF Came, me
<1>12. CASE D!WriteFails(c)
  <2>1. you = D!Ended(c, "failed")
    BY <1>12 DEF D!WriteFails, D!Moved
  <2>2. you.pc = "done"
    BY <1>1, <2>1, EndedSteady DEF me
  <2> QED
    BY <1>2, <2>2 DEF Writing
<1>13. CASE D!Publish(c)
  <2>1. PICK next : AfterPublish(c, next) /\ dCh' = D!Moved(c, next, "live", TRUE)
    BY <1>13, PublishOf
  <2>2. you = next
    BY <2>1 DEF D!Moved
  <2>3. CASE next = D!Ended(c, "ok")
    <3>1. you.pc = "done"
      BY <1>1, <2>2, <2>3, EndedSteady DEF me
    <3> QED
      BY <1>2, <3>1 DEF Writing
  <2>4. CASE next # D!Ended(c, "ok")
    <3>1. \/ next.pc = "replace"
          \/ me.file = "Protocol" /\ next.file = "Device"
      BY <1>1, <2>1, <2>4 DEF AfterPublish, EditChild, me
    <3> QED
      BY <1>13, <2>2, <3>1 DEF Came, Writing, me
  <2> QED
    BY <2>3, <2>4
<1>14. CASE D!ReplaceList(c)
  <2>1. /\ you.pc \in {"open", "replace", "done"}
        /\ you.pc = "open" => you.file = "Protocol" /\ me.req.kind = "bundle"
    BY <1>14, ReplaceOf DEF me
  <2> QED
    BY <2>1 DEF Came, Writing, me
<1>15. CASE Fails(c)
  <2>1. D!Answer(c, "failed")
    BY <1>15 DEF Fails, D!OpenFails, D!PublishFails, D!ReadFails, D!ReplaceFails
  <2> QED
    BY <1>3, <2>1
<1> QED
  BY <1>3, <1>4, <1>5, <1>6, <1>7, <1>8, <1>9, <1>10, <1>11, <1>12, <1>13, <1>14, <1>15
     DEF D!ChildStep, Fails

\* A child keeps the request it was forked with.
LEMMA AskedChild ==
  ASSUME Steadies, EditsTyped, NEW c \in Child, D!Begin(c) \/ D!ChildStep(c), Asked
  PROVE  /\ Asked'
         /\ NothingImported' => NothingImported
         /\ \A d \in Child : dCh'[d].req = dCh[d].req \/ (d = c /\ D!Begin(c))
<1>1. \A d \in Child \ {c} : dCh'[d].pc = dCh[d].pc /\ dCh'[d].req = dCh[d].req
  BY OthersWait
<1>2. CASE D!Begin(c)
  <2>1. DOMAIN dCh = Child /\ dCh[c] \in EditChild /\ dCh[c].req.kind = "none"
    BY <1>2 DEF Steadies, Steady, Asked, D!Begin
  <2>2. PICK r : dCh' = [dCh EXCEPT ![c] = [dCh[c] EXCEPT !.pc = D!FirstStep(r.kind), !.req = r,
                                             !.out = IF r.kind \in {"restore", "bundle"}
                                                     THEN Imported.Device ELSE <<>>]]
    BY <1>2 DEF D!Begin, D!Become
  <2>3. dCh'[c].pc = D!FirstStep(r.kind)
    BY <2>1, <2>2 DEF EditChild
  <2>4. dCh'[c].pc # "idle"
    BY <2>3 DEF D!FirstStep
  <2> QED
    BY <1>1, <1>2, <2>1, <2>4 DEF Asked, NothingImported
<1>3. CASE D!ChildStep(c)
  <2>1. dCh'[c].req = dCh[c].req /\ dCh'[c].pc # "idle"
    BY <1>3, ChildGoes DEF Goes
  <2> QED
    BY <1>1, <2>1 DEF Asked, NothingImported
<1> QED
  BY <1>2, <1>3

\* What the children have looked at.
LEMMA ChildSound ==
  ASSUME Steadies, EditsTyped, NEW c \in Child, D!Begin(c) \/ D!ChildStep(c),
         "overtaken" \notin dMishaps', Asked, \A d \in Child : AddsOnce(d),
         NothingImported =>
           /\ \A d \in Child : IsServed(d)
           /\ D!HasBuiltin(dLive["Protocol"].val) => D!HasBuiltin(dLive'["Protocol"].val)
           /\ D!Publish(c) /\ dCh[c].file = "Protocol" => D!HasBuiltin(dLive'["Protocol"].val)
  PROVE  /\ \A d \in Child : AddsOnce(d)'
         /\ NothingImported' => \A d \in Child : IsServed(d)'
<1>1. \A d \in Child \ {c} : AddsOnce(d)' /\ (NothingImported' => IsServed(d)')
  <2> SUFFICES ASSUME NEW d \in Child \ {c}
               PROVE  AddsOnce(d)' /\ (NothingImported' => IsServed(d)')
    OBVIOUS
  <2>1. /\ dCh'[d].pc = dCh[d].pc /\ dCh'[d].req = dCh[d].req /\ dCh'[d].file = dCh[d].file
        /\ dCh'[d].raw = dCh[d].raw /\ dCh'[d].seen = dCh[d].seen
    BY OthersWait
  <2>2. AddsOnce(d)'
    BY <2>1 DEF AddsOnce, Adds
  <2>3. NothingImported' => IsServed(d)'
    BY <2>1, AskedChild DEF IsServed
  <2> QED
    BY <2>2, <2>3
<1>2. CASE D!Begin(c)
  <2>1. DOMAIN dCh = Child /\ dCh[c] \in EditChild /\ dCh[c].file = "Device"
    BY <1>2 DEF Steadies, Steady, InStep, D!Begin
  <2>2. PICK r : dCh' = [dCh EXCEPT ![c] = [dCh[c] EXCEPT !.pc = D!FirstStep(r.kind), !.req = r,
                                             !.out = IF r.kind \in {"restore", "bundle"}
                                                     THEN Imported.Device ELSE <<>>]]
    BY <1>2 DEF D!Begin, D!Become
  <2>3. dCh'[c].pc = D!FirstStep(r.kind) /\ dCh'[c].req = r /\ dCh'[c].file = "Device"
    BY <2>1, <2>2 DEF EditChild
  <2>4. dCh'[c].pc \in {"reread"} \cup Writing => r.kind \in {"restore", "bundle"}
    BY <2>3 DEF D!FirstStep, Writing
  <2>5. AddsOnce(c)' /\ IsServed(c)'
    BY <2>3, <2>4 DEF AddsOnce, Adds, IsServed, Changes
  <2> QED
    BY <1>1, <2>5
<1>3. CASE D!ChildStep(c)
  <2>1. Came(c) /\ dCh'[c].req = dCh[c].req
    BY <1>3, ChildCame, ChildGoes DEF Goes
  <2>2. AddsOnce(c)'
    BY <2>1 DEF AddsOnce, Adds, Came, Writing
  <2>3. ASSUME NothingImported' PROVE IsServed(c)'
    <3>1. NothingImported
      BY <2>3, AskedChild
    <3>2. IsServed(c)
      BY <3>1
    <3> SUFFICES ASSUME dCh'[c].pc \in {"reread"} \cup Writing, dCh'[c].file = "Device",
                        dCh[c].req.kind \in Changes, D!NeedsProtocol(dCh[c].req, dCh'[c].raw.val)
                 PROVE  D!HasBuiltin(dLive'["Protocol"].val)
      BY <2>1 DEF IsServed
    <3> QED
      BY <2>1, <3>1, <3>2 DEF Came, IsServed, Changes
  <2> QED
    BY <1>1, <2>2, <2>3
<1> QED
  BY <1>2, <1>3

-----------------------------------------------------------------------------
(* The lists. *)

\* Publishing a list keeps both lists tidy.
LEMMA PublishesTidy ==
  ASSUME Steadies, EditsTyped, NEW c \in Child, D!Publish(c), \A d \in Child : WritesAlone(d),
         "lost" \notin dMishaps', "overtaken" \notin dMishaps', TidyLists, AddsOnce(c)
  PROVE  /\ TidyLists'
         /\ dCh[c].req.kind \notin {"restore", "bundle"} =>
              IF dCh[c].file = "Protocol" THEN D!HasBuiltin(dLive'["Protocol"].val)
              ELSE /\ dLive'["Protocol"] = dLive["Protocol"]
                   /\ IsServed(c) /\ ServedLists => ServedLists'
<1> DEFINE me == dCh[c]
           r == dCh[c].req
           list == dLive["Device"].val
<1>1. /\ Steady(me) /\ me.pc = "publish" /\ me.pc \in Writing /\ me.file \in {"Device", "Protocol"}
      /\ me \in EditChild /\ r \in EditRequest /\ InStep(me) /\ Made(me) /\ Looked(me)
  BY DEF Steadies, Steady, EditChild, D!Publish, Writing
<1>2. /\ r.kind \in {"restore", "bundle"} \/ me.seen = dLive[me.file]
      /\ me.file = "Device" /\ r.kind \in {"create", "add"} => me.raw = dLive["Device"]
  BY PublishOf DEF D!Raced
<1>3. /\ dLive' = [dLive EXCEPT ![me.file] = D!Whole(me.out)]
      /\ DOMAIN dLive = {"Device", "Protocol"}
  BY PublishesAlone DEF EditsTyped
<1>4. D!Whole(me.out).val = me.out
  BY DEF D!Whole
<1>5. list \in Seq(Device) /\ dLive["Protocol"].val \in Seq(Protocol)
  BY Files DEF EditsTyped
<1>6. me.file = "Device" => dLive'["Device"].val = me.out /\ dLive'["Protocol"] = dLive["Protocol"]
  BY <1>3, <1>4
<1>7. me.file = "Protocol" => dLive'["Protocol"].val = me.out /\ dLive'["Device"] = dLive["Device"]
  BY <1>3, <1>4
<1>8. CASE r.kind \in {"restore", "bundle"}
  <2>1. me.out = Imported[me.file]
    BY <1>1, <1>8 DEF Made
  <2>2. D!Tidy(Imported["Device"]) /\ D!Distinct(Imported["Protocol"])
    BY DevicesAssumption
  <2> QED
    BY <1>1, <1>6, <1>7, <1>8, <2>1, <2>2 DEF TidyLists
<1>9. CASE r.kind \notin {"restore", "bundle"} /\ me.file = "Protocol"
  <2>1. r.kind \in Changes \cup {"repair"}
    BY <1>1, <1>9 DEF InStep, Changes
  <2>2. me.out = Append(dLive["Protocol"].val, D!Builtin)
    BY <1>1, <1>2, <1>9, <2>1 DEF Made
  <2>3. ~D!Contains(dLive["Protocol"].val, D!Builtin)
    BY <1>1, <1>2, <1>9 DEF AddsOnce, Adds
  <2>4. D!Distinct(me.out) /\ D!HasBuiltin(me.out)
    BY <1>5, <2>2, <2>3, BuiltinAdded DEF TidyLists
  <2> QED
    BY <1>7, <1>9, <2>4 DEF TidyLists
<1>10. CASE r.kind = "create" /\ me.file = "Device"
  <2>1. me.out = Append(list, D!NewDevice(me.id)) /\ me.id \in D!FreshIds(list)
    BY <1>1, <1>2, <1>10 DEF Made, Looked
  <2>2. me.id \in Nat /\ me.id \notin D!Ids(list)
    BY <1>5, <2>1, FreshIdsOf
  <2>3. D!Tidy(me.out) /\ \A n : HasCommand(me.out, n) => HasCommand(list, n)
    BY <1>5, <2>1, <2>2, TidyGrown DEF TidyLists
  <2>4. TidyLists'
    BY <1>6, <1>10, <2>3 DEF TidyLists
  <2>5. me.out \in Seq(Device)
    BY <1>1, <1>10, Files DEF Steady
  <2>6. ServedLists => ServedLists'
    BY <1>5, <1>6, <1>10, <2>3, <2>5, ServedOf DEF ServedLists
  <2> QED
    BY <1>6, <1>10, <2>4, <2>6
<1>11. CASE r.kind \in Changes /\ me.file = "Device"
  <2>1. me.raw.val = list /\ me.seen.val = list
    BY <1>1, <1>2, <1>11 DEF Looked, Changes
  <2>2. me.out = D!Edited(r, list) /\ D!Accepts(r, list)
    BY <1>1, <1>11, <2>1 DEF Made, Looked
  <2>3. /\ D!Tidy(me.out)
        /\ \A n \in Keyed : HasCommand(me.out, n) => HasCommand(list, n) \/ D!NeedsProtocol(r, list)
    BY <1>1, <1>5, <1>11, <2>2, TidyEdited DEF TidyLists
  <2>4. TidyLists'
    BY <1>6, <1>11, <2>3 DEF TidyLists
  <2>5. me.out \in Seq(Device)
    BY <1>1, <1>11, Files DEF Steady
  <2>6. IsServed(c) => (D!NeedsProtocol(r, list) => D!HasBuiltin(dLive["Protocol"].val))
    BY <1>1, <1>11, <2>1 DEF IsServed
  <2>7. IsServed(c) /\ ServedLists => ServedLists'
    BY <1>5, <1>6, <1>11, <2>3, <2>5, <2>6, ServedOf DEF ServedLists
  <2> QED
    BY <1>6, <1>11, <2>4, <2>7
<1>12. me.file = "Device" => r.kind \in Changes \cup {"create", "restore", "bundle"}
  BY <1>1 DEF InStep
<1> QED
  BY <1>1, <1>8, <1>9, <1>10, <1>11, <1>12

\* The hub writing back the list it read keeps both lists sound.
LEMMA PutsBackTidy ==
  ASSUME EditsTyped, D!SettingsSaved \/ D!SettingsUndone, "lost" \notin dMishaps', TidyLists
  PROVE  TidyLists' /\ (ServedLists => ServedLists')
<1> DEFINE old == dSave.list.val
           label == old[D!Position(old, dSave.id)].label
           set == D!Labelled(old, "set")
           list == dLive["Device"].val
           new == dLive'["Device"].val
<1>1. old \in Seq(Device) /\ dSave.id \in Nat /\ list \in Seq(Device) /\ "set" \in Texts
  BY Files, DevicesAssumption DEF EditsTyped, SaveRecord
<1>2. set \in Seq(Device)
  BY <1>1, Unlabelled
<1>3. (D!Tidy(set) <=> D!Tidy(old)) /\ \A n : HasCommand(set, n) <=> HasCommand(old, n)
  BY <1>1, TidyLabelled
<1>4. \A text : D!Whole(text).val = text
  BY DEF D!Whole
<1> HIDE DEF set
<1>5. /\ list = old \/ list = set
      /\ new = old \/ new = set
      /\ dLive'["Protocol"] = dLive["Protocol"]
  <2>1. \A text, name : D!PutsBack(text, name) =>
          /\ dLive'["Device"] = D!Whole(text) /\ dLive'["Protocol"] = dLive["Protocol"]
          /\ dSave.kind = "settings" => dSave.list = dLive["Device"]
          /\ dSave.kind # "settings" => D!Whole(set) = dLive["Device"]
    BY DEF D!PutsBack, EditsTyped, set
  <2>2. CASE D!SettingsSaved
    <3>1. dSave.kind = "settings" /\ D!PutsBack(set, "set")
      BY <2>2 DEF D!SettingsSaved, set
    <3> QED
      BY <1>4, <2>1, <3>1
  <2>3. CASE D!SettingsUndone
    <3>1. D!PutsBack(old, label)
      BY <2>3 DEF D!SettingsUndone
    <3> HIDE DEF old, label
    <3>2. dSave.list.val = old
      BY DEF old
    <3> QED
      BY <1>4, <2>1, <3>1, <3>2
  <2> QED
    BY <2>2, <2>3
<1> HIDE DEF old, list, new
<1>6. D!Tidy(new) /\ \A n : HasCommand(new, n) <=> HasCommand(list, n)
  BY <1>3, <1>5 DEF TidyLists, list
<1>7. new \in Seq(Device)
  BY <1>1, <1>2, <1>5
<1>8. TidyLists'
  BY <1>5, <1>6 DEF TidyLists, new
<1>9. ServedLists => ServedLists'
  BY <1>1, <1>5, <1>6, <1>7, ServedOf DEF ServedLists, list, new
<1> QED
  BY <1>8, <1>9

\* Every step keeps the lists sound.
LEMMA SoundNext == Steadies /\ EditsTyped /\ OneWriter /\ Sound /\ [D!Next]_dVars => Sound'
<1> SUFFICES ASSUME Steadies, EditsTyped, OneWriter, Sound, [D!Next]_dVars, D!Free(Races)'
             PROVE  /\ Asked' /\ TidyLists' /\ \A c \in Child : AddsOnce(c)'
                    /\ NothingImported' => ServedLists' /\ \A c \in Child : IsServed(c)'
  BY DEF Sound
<1>1. D!Free(Races) /\ Races \cap dMishaps' = {}
  BY MishapsStay DEF D!Free, dVars
<1>2. \A c \in Child : WritesAlone(c)
  BY <1>1 DEF OneWriter, D!Free, Races
<1>3. /\ Asked /\ TidyLists /\ \A c \in Child : AddsOnce(c)
      /\ NothingImported => ServedLists /\ \A c \in Child : IsServed(c)
  BY <1>1 DEF Sound
<1>4. "overtaken" \notin dMishaps' /\ "lost" \notin dMishaps' /\ {"overlap", "flush"} \cap dMishaps' = {}
  BY <1>1 DEF Races
<1>5. CASE UNCHANGED dVars
  BY <1>3, <1>5 DEF dVars, Asked, TidyLists, AddsOnce, Adds, NothingImported, ServedLists,
     IsServed
<1>6. ASSUME NEW c \in Child, D!Begin(c) \/ D!ChildStep(c),
             TidyLists',
             NothingImported =>
               /\ ServedLists'
               /\ D!HasBuiltin(dLive["Protocol"].val) => D!HasBuiltin(dLive'["Protocol"].val)
               /\ D!Publish(c) /\ dCh[c].file = "Protocol" => D!HasBuiltin(dLive'["Protocol"].val)
      PROVE  /\ Asked' /\ TidyLists' /\ \A d \in Child : AddsOnce(d)'
             /\ NothingImported' => ServedLists' /\ \A d \in Child : IsServed(d)'
  <2>1. Asked' /\ (NothingImported' => NothingImported)
    BY <1>3, <1>6, AskedChild
  <2>2. /\ \A d \in Child : AddsOnce(d)'
        /\ NothingImported' => \A d \in Child : IsServed(d)'
    BY <1>3, <1>4, <1>6, ChildSound
  <2> QED
    BY <1>6, <2>1, <2>2
<1>7. ASSUME NEW c \in Child, Reads(c) \/ D!Open(c) \/ D!Write(c) \/ D!WriteFails(c) \/ D!PublishFails(c)
      PROVE  /\ Asked' /\ TidyLists' /\ \A d \in Child : AddsOnce(d)'
             /\ NothingImported' => ServedLists' /\ \A d \in Child : IsServed(d)'
  <2>1. dLive' = dLive
    BY <1>2, <1>4, <1>7, ReadsAlone, OpensAlone, WritesOnlyOwn, FailsAlone
  <2>2. TidyLists' /\ (NothingImported => ServedLists')
    BY <1>3, <2>1 DEF TidyLists, ServedLists
  <2>3. D!Begin(c) \/ D!ChildStep(c)
    BY <1>7 DEF Reads, D!ChildStep
  <2>4. D!Publish(c) => FALSE
    <3>1. D!Publish(c) => /\ dTmp[dCh[c].file] # D!NoFile /\ dCh[c].pc = "publish"
      BY PublishOf
    <3>2. ~D!Publish(c) \/ ~D!PublishFails(c)
      BY <3>1 DEF D!PublishFails
    <3> QED
      BY <1>7, <3>1, <3>2 DEF Reads, D!Begin, D!Scan, D!Check, D!Read, D!Look, D!Ensure,
         D!AppendItem,
         D!Reread, D!OpenFails, D!Open, D!Write, D!WriteFails, D!ScanFails, D!ReadFails,
         D!ReplaceList, D!ReplaceFails
  <2> QED
    BY <1>6, <2>1, <2>2, <2>3, <2>4
<1>8. ASSUME NEW c \in Child, D!Publish(c)
      PROVE  /\ Asked' /\ TidyLists' /\ \A d \in Child : AddsOnce(d)'
             /\ NothingImported' => ServedLists' /\ \A d \in Child : IsServed(d)'
  <2>1. /\ TidyLists'
        /\ dCh[c].req.kind \notin {"restore", "bundle"} =>
             IF dCh[c].file = "Protocol" THEN D!HasBuiltin(dLive'["Protocol"].val)
             ELSE /\ dLive'["Protocol"] = dLive["Protocol"]
                  /\ IsServed(c) /\ ServedLists => ServedLists'
    BY <1>2, <1>3, <1>4, <1>8, PublishesTidy
  <2>2. D!ChildStep(c)
    BY <1>8 DEF D!ChildStep
  <2>3. D!HasBuiltin(dLive'["Protocol"].val) => ServedLists'
    BY DEF ServedLists, D!Served
  <2>4. dCh[c].file \in {"Device", "Protocol"}
    BY DEF Steadies, Steady, EditChild
  <2>5. NothingImported =>
          /\ ServedLists'
          /\ D!HasBuiltin(dLive["Protocol"].val) => D!HasBuiltin(dLive'["Protocol"].val)
          /\ D!Publish(c) /\ dCh[c].file = "Protocol" => D!HasBuiltin(dLive'["Protocol"].val)
    BY <1>3, <2>1, <2>3, <2>4 DEF NothingImported
  <2> QED
    BY <1>6, <2>1, <2>2, <2>5
<1>9. CASE D!SettingsSaved \/ D!SettingsUndone
  <2>1. PICK text, name : D!PutsBack(text, name)
    BY <1>9 DEF D!SettingsSaved, D!SettingsUndone
  <2>2. \A d \in Child : dCh'[d] = dCh[d]
    BY <1>2, <2>1, PutsBackAlone
  <2>3. TidyLists' /\ (ServedLists => ServedLists')
    BY <1>3, <1>4, <1>9, PutsBackTidy
  <2>4. dLive'["Protocol"] = dLive["Protocol"]
    BY <2>1 DEF D!PutsBack, EditsTyped
  <2> QED
    BY <1>3, <2>2, <2>3, <2>4 DEF Asked, AddsOnce, Adds, NothingImported, IsServed
<1>10. CASE Saves
  <2>1. dCh' = dCh /\ dLive' = dLive
    BY <1>10, SavesLeave
  <2> QED
    BY <1>3, <2>1 DEF Asked, TidyLists, AddsOnce, Adds, NothingImported, ServedLists, IsServed
<1>11. ASSUME NEW c \in Child PROVE ~D!FlushFails(c)
  BY <1>4 DEF D!FlushFails
<1> QED
  BY <1>5, <1>7, <1>8, <1>9, <1>10, <1>11 DEF D!Next, D!ChildStep, Reads, Saves

\* Free of races, no edit leaves two devices of one id, two commands of one name
\* in a device, more commands than the table takes or a protocol twice; and with
\* nothing imported every command that needs the built-in protocol has it
\* (add_ir_command, update_ir_command, bulk_import_irdb_commands and
\* ensure_protocol_object).
THEOREM ListsStaySound == Spec => []ListsAreSound
<1>1. Init => Steadies /\ EditsTyped /\ OneWriter /\ Sound
  BY DeviceInit, OneWriterInit, SoundInit DEF Init
<1>2. Steadies /\ EditsTyped /\ OneWriter /\ Sound /\ [Next]_vars
        => (Steadies /\ EditsTyped /\ OneWriter /\ Sound)'
  BY DeviceSteps, DeviceNextTyped, OneWriterNext, SoundNext
<1>3. OneWriter /\ Sound => ListsAreSound
  <2>1. D!Free({"overlap", "flush"}) /\ D!Free({"lost", "overtaken"}) => D!Free(Races)
    BY DEF D!Free, Races
  <2> QED
    BY <2>1, Files DEF OneWriter, Sound, TidyLists, ServedLists, NothingImported, ListsAreSound,
                       D!ListsAreSound
<1> QED
  BY <1>1, <1>2, <1>3, PTL DEF Spec
=============================================================================
