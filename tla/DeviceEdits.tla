----------------------------- MODULE DeviceEdits -----------------------------
(***************************************************************************)
(* The edits of DeviceList and ProtocolList by the children of codex_webui *)
(* (create, relabel and delete a device, add, change, remove, clear and    *)
(* import commands, repair protocols, import a list or a bundle), among    *)
(* each other and against the saves of codexactivity.  An import also      *)
(* replaces the lists that name devices: those of the activities, of their *)
(* button maps and of the function maps.  What they ask the engine to load *)
(* again afterwards is in ReloadFlag.                                      *)
(*                                                                         *)
(* Nothing locks these files.  A child reads a list, computes the whole new*)
(* list, writes it to <list>.new and renames that; every child uses the    *)
(* same name, so a child may truncate or publish what another one writes.  *)
(*                                                                         *)
(* A list is a sequence of what the handlers look at: a device is its id,  *)
(* its label and the names of its commands, a protocol has a name.  A file *)
(* is whole or broken; an open descriptor stays with its file when the     *)
(* name moves on.  A list of references is the set of the devices that it  *)
(* names, and is replaced in one step.                                     *)
(***************************************************************************)
EXTENDS Naturals, SequencesExt

CONSTANTS
  Child,        \* children of the web server, each with one request
  Requests,     \* what browsers ask of each child: sets of [kind, id, old, name]
  Names,        \* command names
  Keyed,        \* those whose code needs the built-in protocol
  FirstLists,   \* the lists at the start: choices of [Device, Protocol]
  Restored,     \* the lists that an import brings: [Device, Protocol]
  NamedIds,     \* the sets of device ids that an activity list may name
  Floor,        \* the lowest id of a local device
  Spread,       \* how many ids the time of day can choose from
  MaxCommands,  \* MAX_IR_STORED_COMMANDS
  MaxEvents     \* bound on saves of the writer and failing writes

VARIABLES
  ch,       \* the children, one record each
  live,     \* the content of each list
  tmp,      \* the content of <list>.new, or NoFile
  refs,     \* the device ids that each activity list names
  save,     \* the save that codexactivity is in
  used,     \* how many saves and faults there have been
  want,     \* history: the lists with every published edit applied in turn
  deleted,  \* history: ids whose deletion was published, and that have not come back
  mishaps   \* history: what raced or failed so far

vars == <<ch, live, tmp, refs, save, used, want, deleted, mishaps>>

Files == {"Device", "Protocol"}
NoFile == [text |-> "none", val |-> <<>>]
Lists == {"ActivityList", "MapList", "FunctionList"}
Builtin == [name |-> "Toshiba 32 Bit"]

Mishaps == {"overlap", "flush", "lost", "overtaken", "reference", "import"}

EditKinds ==
  {"create", "label", "add", "change", "remove", "clear", "import", "repair", "delete", "restore",
   "bundle"} \cup Lists

Fresh == [pc |-> "idle", req |-> [kind |-> "none", id |-> 0, old |-> "none", name |-> "none"],
          id |-> 0, n |-> 1, file |-> "Device", raw |-> NoFile, seen |-> NoFile,
          out |-> <<>>, on |-> "none", told |-> "none"]
NoSave == [kind |-> "none", id |-> 0, list |-> NoFile, ids |-> {}, n |-> 1,
           was |-> [l \in Lists |-> {}]]

-----------------------------------------------------------------------------
(* What the handlers compute from a list. *)

Whole(list) == [text |-> "whole", val |-> list]
Broken == [text |-> "broken", val |-> <<>>]
Readable(content) == content.text = "whole"

Ids(list) == {list[i].id : i \in DOMAIN list}
Position(list, id) == SelectInSeq(list, LAMBDA d : d.id = id)
Commands(list, id) == list[Position(list, id)].cmds
Largest(list) == CHOOSE m \in {0} \cup Ids(list) : \A i \in Ids(list) : i <= m

FreshIds(list) ==
  IF Largest(list) + 1 >= Floor THEN {Largest(list) + 1} ELSE Floor..(Floor + Spread - 1)

\* protocol_list_has_id looks for the digits: an id that starts with them will do.
HasBuiltin(list) == \E i \in DOMAIN list : list[i].name \in {Builtin.name, "lookalike"}

\* The rows an import keeps: new names, as many as there is room for.
Staged(cmds) ==
  LET rows == SetToSeq(Names \ ToSet(cmds))
      room == MaxCommands - Len(cmds)
  IN SubSeq(rows, 1, IF Len(rows) < room THEN Len(rows) ELSE room)

\* The first command of that name gets another.
Renamed(cmds, old, name) ==
  IF Contains(cmds, old) THEN [cmds EXCEPT ![SelectInSeq(cmds, LAMBDA n : n = old)] = name] ELSE cmds

\* The commands of the device after the edit.
Rewritten(r, cmds) ==
  CASE r.kind = "add"    -> Append(cmds, r.name)
    [] r.kind = "change" -> Renamed(cmds, r.old, r.name)
    [] r.kind = "remove" -> RemoveFirst(cmds, r.name)
    [] r.kind = "clear"  -> <<>>
    [] r.kind = "import" -> cmds \o Staged(cmds)
    [] OTHER -> cmds

\* The device list after the edit.
Edited(r, list) ==
  IF r.id \notin Ids(list) THEN list
  ELSE LET i == Position(list, r.id) IN
       IF r.kind = "delete" THEN RemoveAt(list, i)
       ELSE [list EXCEPT ![i].cmds = Rewritten(r, @),
                         ![i].label = IF r.kind = "label" THEN r.name ELSE @]

NewDevice(id) == [id |-> id, label |-> "new", cmds |-> <<>>]

\* Bug: a command is added without looking for its name.
AcceptsBlindly(r, list) == r.id \in Ids(list)
\* Whether the handler goes on after it has read the device list.
Accepts(r, list) ==
  /\ r.id \in Ids(list)
  /\ LET cmds == Commands(list, r.id) IN
       CASE r.kind = "add"    -> Len(cmds) < MaxCommands /\ ~Contains(cmds, r.name)
         [] r.kind = "change" -> Contains(cmds, r.old) /\ (r.name # r.old => ~Contains(cmds, r.name))
         [] r.kind = "remove" -> Contains(cmds, r.name)
         [] r.kind = "import" -> Staged(cmds) # <<>>
         [] OTHER -> TRUE

\* Whether the edit stores a command whose code needs the built-in protocol.
NeedsProtocol(r, list) ==
  CASE r.kind \in {"add", "change"} -> r.name \in Keyed
    [] r.kind = "import" -> \E n \in Keyed : Contains(Staged(Commands(list, r.id)), n)
    [] r.kind = "repair" -> \E d \in ToSet(list) : \E n \in Keyed : Contains(d.cmds, n)
    [] OTHER -> FALSE

\* Bug: the function maps are not looked at.
ReferencingButMaps == <<"ActivityList", "MapList">>
Referencing == <<"ActivityList", "MapList", "FunctionList">>

\* The lists of references that a bundle brings: the first one goes between the other two lists.
Bundled == <<"FunctionList", "ActivityList", "MapList">>

FirstStep(kind) ==
  CASE kind = "create" -> "scan"
    [] kind = "delete" -> "check"
    [] kind \in {"restore", "bundle"} -> "open"
    [] kind \in Lists -> "replace"
    [] OTHER -> "read"

AfterProtocol(kind) == IF kind = "add" THEN "reread" ELSE "open"

Init ==
  /\ ch = [c \in Child |-> Fresh]
  /\ \E lists \in FirstLists :
       /\ live = [f \in Files |-> Whole(lists[f])]
       /\ want = lists
  /\ tmp = [f \in Files |-> NoFile]
  /\ refs = [l \in Lists |-> {}]
  /\ save = NoSave
  /\ used = 0
  /\ deleted = {}
  /\ mishaps = {}

-----------------------------------------------------------------------------
(* The children. *)

Become(c, next) == ch' = [ch EXCEPT ![c] = next]
Ended(c, verdict) == [Fresh EXCEPT !.pc = "done", !.req = ch[c].req, !.told = verdict]
Answer(c, verdict) == Become(c, Ended(c, verdict))
OnlyThinks == UNCHANGED <<live, tmp, refs, save, used, want, deleted, mishaps>>

\* The others, once the temporary file has been renamed or unlinked.
Moved(c, next, place, gone) ==
  [d \in Child |->
     IF d = c THEN next
     ELSE IF ch[d].file # ch[c].file \/ ch[d].on = "none" THEN ch[d]
     ELSE IF ch[d].on = "tmp" THEN [ch[d] EXCEPT !.on = place]
     ELSE IF gone THEN [ch[d] EXCEPT !.on = "gone"] ELSE ch[d]]

\* A list that is written over brings ids back.
Deletes(ids) == deleted' = (deleted \cup ids) \ Ids(live'.Device.val)

Event == used < MaxEvents /\ used' = used + 1

\* Whether delete_ir_device of child c will not see a reference to the device in list l any more.
HasPassed(c, id, l) ==
  /\ ch[c].req.kind = "delete" /\ ch[c].req.id = id
  /\ \/ ch[c].pc \in {"read", "open", "write", "publish"}
     \/ ch[c].pc = "check" /\ \E i \in 1..(ch[c].n - 1) : Referencing[i] = l

\* Whether a list that is written now names a device that is gone, or is about to go.
NamesGone(ids, l) ==
  \E id \in ids : id \in deleted \/ \E c \in Child : HasPassed(c, id, l)

Begin(c) ==
  /\ ch[c].pc = "idle"
  /\ \E r \in Requests[c] :
       Become(c, [ch[c] EXCEPT !.pc = FirstStep(r.kind), !.req = r,
                               !.out = IF r.kind \in {"restore", "bundle"}
                                       THEN Restored.Device ELSE <<>>])
  /\ OnlyThinks

\* create_ir_device_ex: a list that cannot be read counts as empty.
Scan(c) ==
  /\ ch[c].pc = "scan"
  /\ \E id \in FreshIds(live.Device.val) :
       Become(c, [ch[c] EXCEPT !.pc = "append", !.id = id, !.raw = live.Device])
  /\ OnlyThinks

\* scan_ir_resource_stats then finds nothing, and nobody notices.
ScanFails(c) ==
  /\ ch[c].pc = "scan"
  /\ Event
  /\ \E id \in FreshIds(<<>>) :
       Become(c, [ch[c] EXCEPT !.pc = "append", !.id = id, !.raw = NoFile])
  /\ UNCHANGED <<live, tmp, refs, save, want, deleted, mishaps>>

\* read_file_alloc cannot read the list that the handler looks at next.
ReadFails(c) ==
  /\ ch[c].pc \in {"check", "read", "look", "ensure", "append", "reread"}
  /\ Event
  /\ Answer(c, "failed")
  /\ UNCHANGED <<live, tmp, refs, save, want, deleted, mishaps>>

\* delete_ir_device: one list of references after another.
Check(c) ==
  LET me == ch[c] IN
  /\ me.pc = "check"
  /\ IF me.req.id \in refs[Referencing[me.n]] THEN Answer(c, "in use")
     ELSE IF me.n < Len(Referencing) THEN Become(c, [me EXCEPT !.n = @ + 1])
     ELSE Become(c, [me EXCEPT !.pc = "read"])
  /\ OnlyThinks

Read(c) ==
  LET me == ch[c]
      r == me.req
      list == live.Device.val
      first == IF NeedsProtocol(r, list) THEN "ensure" ELSE AfterProtocol(r.kind)
  IN
  /\ me.pc = "read"
  /\ IF ~Readable(live.Device) THEN Answer(c, "failed")
     ELSE IF r.kind = "repair"
     THEN IF NeedsProtocol(r, list) THEN Become(c, [me EXCEPT !.pc = "look"]) ELSE Answer(c, "ok")
     ELSE IF Accepts(r, list)
     THEN Become(c, [me EXCEPT !.pc = first, !.raw = live.Device, !.seen = live.Device,
                               !.out = Edited(r, list)])
     ELSE Answer(c, "failed")
  /\ OnlyThinks

\* repair_known_protocols: nothing is missing, so nothing is asked for.
Look(c) ==
  /\ ch[c].pc = "look"
  /\ IF HasBuiltin(live.Protocol.val) THEN Answer(c, "ok")
     ELSE Become(c, [ch[c] EXCEPT !.pc = "ensure"])
  /\ OnlyThinks

Ensure(c) ==
  LET me == ch[c] IN
  /\ me.pc = "ensure"
  /\ Become(c, IF ~HasBuiltin(live.Protocol.val)
               THEN [me EXCEPT !.pc = "append", !.file = "Protocol"]
               ELSE IF me.req.kind = "repair" THEN Ended(c, "ok")
               ELSE [me EXCEPT !.pc = AfterProtocol(me.req.kind)])
  /\ OnlyThinks

\* append_top_array_item
AppendItem(c) ==
  LET me == ch[c]
      list == live[me.file].val
      item == IF me.file = "Protocol" THEN Builtin ELSE NewDevice(me.id)
  IN
  /\ me.pc = "append"
  /\ IF Readable(live[me.file])
     THEN Become(c, [me EXCEPT !.pc = "open", !.seen = live[me.file], !.out = Append(list, item)])
     ELSE Answer(c, "failed")
  /\ mishaps' = mishaps \cup IF Contains(list, item) THEN {"overtaken"} ELSE {}
  /\ UNCHANGED <<live, tmp, refs, save, used, want, deleted>>

\* Bug: the command goes into the list that was checked, not into the one on disk now.
RereadNothing(c) ==
  LET me == ch[c] IN
  /\ me.pc = "reread"
  /\ IF Readable(live.Device) /\ me.req.id \in Ids(live.Device.val)
     THEN Become(c, [me EXCEPT !.pc = "open", !.seen = live.Device])
     ELSE Answer(c, "failed")
  /\ OnlyThinks
\* append_command_to_device
Reread(c) ==
  LET me == ch[c] IN
  /\ me.pc = "reread"
  /\ IF Readable(live.Device) /\ me.req.id \in Ids(live.Device.val)
     THEN Become(c, [me EXCEPT !.pc = "open", !.seen = live.Device,
                               !.out = Edited(me.req, live.Device.val)])
     ELSE Answer(c, "failed")
  /\ OnlyThinks

\* fopen(tmp, "wb") empties the file of a child that has one open.
Open(c) ==
  LET me == ch[c]
      shared == \E d \in Child \ {c} : ch[d].on = "tmp" /\ ch[d].file = me.file
  IN
  /\ me.pc = "open"
  /\ tmp' = [tmp EXCEPT ![me.file] = Broken]
  /\ Become(c, [me EXCEPT !.pc = "write", !.on = "tmp"])
  /\ mishaps' = mishaps \cup IF shared THEN {"overlap"} ELSE {}
  /\ UNCHANGED <<live, refs, save, used, want, deleted>>

OpenFails(c) ==
  /\ ch[c].pc = "open"
  /\ Event
  /\ Answer(c, "failed")
  /\ UNCHANGED <<live, tmp, refs, save, want, deleted, mishaps>>

\* What the open file holds then: over another child's text, any mixture.
Into(c, text) ==
  LET me == ch[c]
      f == me.file
      Laid(old) == {text} \cup IF Readable(old) THEN {Broken} ELSE {}
  IN
  CASE me.on = "tmp"  -> \E new \in Laid(tmp[f]) : tmp' = [tmp EXCEPT ![f] = new] /\ UNCHANGED live
    [] me.on = "live" -> \E new \in Laid(live[f]) : live' = [live EXCEPT ![f] = new] /\ UNCHANGED tmp
    [] OTHER -> UNCHANGED <<live, tmp>>

Write(c) ==
  /\ ch[c].pc = "write"
  /\ Into(c, Whole(ch[c].out))
  /\ Become(c, [ch[c] EXCEPT !.pc = "publish"])
  /\ Deletes({})
  /\ UNCHANGED <<refs, save, used, want, mishaps>>

\* fputc and fclose write the rest of the buffer, and nobody looks at what they return.
FlushFails(c) ==
  /\ ch[c].pc = "write"
  /\ Event
  /\ Into(c, Broken)
  /\ Become(c, [ch[c] EXCEPT !.pc = "publish"])
  /\ mishaps' = mishaps \cup {"flush"}
  /\ UNCHANGED <<refs, save, want, deleted>>

\* Bug: the list is unlinked, not the temporary file.
WriteFailsAtPath(c) ==
  LET f == ch[c].file IN
  /\ ch[c].pc = "write"
  /\ Event
  /\ live' = [live EXCEPT ![f] = NoFile]
  /\ Answer(c, "failed")
  /\ UNCHANGED <<tmp, refs, save, want, deleted, mishaps>>
\* unlink(tmp) removes whatever has the name.
WriteFails(c) ==
  LET f == ch[c].file IN
  /\ ch[c].pc = "write"
  /\ Event
  /\ tmp' = [tmp EXCEPT ![f] = NoFile]
  /\ live' = IF ch[c].on = "live" THEN [live EXCEPT ![f] = Broken] ELSE live
  /\ ch' = Moved(c, Ended(c, "failed"), "gone", FALSE)
  /\ UNCHANGED <<refs, save, want, deleted, mishaps>>

\* The list as it should be after this edit.
Intended(c) ==
  LET me == ch[c]
      list == want[me.file]
  IN IF me.req.kind \in {"restore", "bundle"} THEN me.out
     ELSE IF me.file = "Protocol" THEN Append(list, Builtin)
     ELSE IF me.req.kind = "create" THEN Append(list, NewDevice(me.id))
     ELSE Edited(me.req, list)

\* What the rename overwrites or has not looked at.
Raced(c) ==
  LET me == ch[c] IN
    {m \in {"lost"} : me.req.kind \notin {"restore", "bundle"} /\ me.seen # live[me.file]}
    \cup {m \in {"overtaken"} : me.file = "Device" /\ me.req.kind \in {"create", "add"}
                                /\ me.raw # live.Device}

Publish(c) ==
  LET me == ch[c]
      kind == me.req.kind
      again == [me EXCEPT !.file = "Device", !.on = "none", !.seen = me.raw]
      next == IF kind = "bundle"
              THEN [me EXCEPT !.pc = "replace", !.on = "none",
                              !.n = IF me.file = "Device" THEN 1 ELSE 2]
              ELSE IF me.file = "Protocol" /\ kind # "repair"
              THEN [again EXCEPT !.pc = AfterProtocol(kind),
                                 !.out = Edited(me.req, me.raw.val)]
              ELSE Ended(c, "ok")
  IN
  /\ me.pc = "publish"
  /\ tmp[me.file] # NoFile
  /\ live' = [live EXCEPT ![me.file] = tmp[me.file]]
  /\ tmp' = [tmp EXCEPT ![me.file] = NoFile]
  /\ ch' = Moved(c, next, "live", TRUE)
  /\ want' = [want EXCEPT ![me.file] = Intended(c)]
  /\ Deletes(IF kind = "delete" THEN {me.req.id} ELSE {})
  /\ mishaps' = mishaps \cup Raced(c)
  /\ UNCHANGED <<refs, save, used>>

\* Another child has renamed or removed the file of that name.
PublishFails(c) ==
  /\ ch[c].pc = "publish"
  /\ tmp[ch[c].file] = NoFile
  /\ Answer(c, "failed")
  /\ UNCHANGED <<live, tmp, refs, save, used, want, deleted, mishaps>>

\* An import puts a list of references in place, and nothing compares it with the devices. An
\* older bundle has neither activities nor button maps.
ReplaceList(c) ==
  LET me == ch[c]
      bundle == me.req.kind = "bundle"
      l == IF bundle THEN Bundled[me.n] ELSE me.req.kind
      next == IF ~bundle \/ me.n = Len(Bundled) THEN Ended(c, "ok")
              ELSE IF me.n = 1
              THEN [me EXCEPT !.pc = "open", !.file = "Protocol", !.out = Restored.Protocol]
              ELSE [me EXCEPT !.n = @ + 1]
  IN
  /\ me.pc = "replace"
  /\ Become(c, next)
  /\ \/ \E ids \in NamedIds :
          /\ refs' = [refs EXCEPT ![l] = ids]
          /\ mishaps' = mishaps \cup {m \in {"import"} : NamesGone(ids, l)}
     \/ bundle /\ me.n > 1 /\ UNCHANGED <<refs, mishaps>>
  /\ UNCHANGED <<live, tmp, save, used, want, deleted>>

ReplaceFails(c) ==
  /\ ch[c].pc = "replace"
  /\ Event
  /\ Answer(c, "failed")
  /\ UNCHANGED <<live, tmp, refs, save, want, deleted, mishaps>>

ChildStep(c) ==
  \/ Scan(c) \/ ScanFails(c) \/ ReadFails(c) \/ Check(c) \/ Read(c) \/ Look(c) \/ Ensure(c)
  \/ AppendItem(c) \/ Reread(c)
  \/ Open(c) \/ OpenFails(c) \/ Write(c) \/ FlushFails(c) \/ WriteFails(c)
  \/ Publish(c) \/ PublishFails(c) \/ ReplaceList(c) \/ ReplaceFails(c)

-----------------------------------------------------------------------------
(* codexactivity saves, one at a time, with the children's steps in between. *)

\* commitActivityResources finds the devices that its three lists name, and saves these later.
SaveBegins ==
  /\ save = NoSave
  /\ Event
  /\ save' = [NoSave EXCEPT !.kind = "activity", !.ids = Ids(live.Device.val), !.was = refs]
  /\ UNCHANGED <<ch, live, tmp, refs, want, deleted, mishaps>>

\* Writing a reference to a device that is gone, or whose deletion has looked there.
Late(ids, l) == {m \in {"reference"} : NamesGone(ids, l)}

Saved == <<"ActivityList", "MapList", "FunctionList">>
SaveWrites ==
  LET l == Saved[save.n] IN
  /\ save.kind = "activity" /\ save.n <= Len(Saved)
  /\ \E ids \in NamedIds :
       /\ ids \subseteq save.ids
       /\ refs' = [refs EXCEPT ![l] = ids]
       /\ mishaps' = mishaps \cup Late(ids, l)
  /\ save' = [save EXCEPT !.n = @ + 1]
  /\ UNCHANGED <<ch, live, tmp, used, want, deleted>>

SaveEnds ==
  /\ save.kind = "activity" /\ save.n > Len(Saved)
  /\ save' = NoSave
  /\ UNCHANGED <<ch, live, tmp, refs, used, want, deleted, mishaps>>

\* A list cannot be saved, or the engine rejects them: restoreSnapshots puts back what it can.
SaveUndone ==
  /\ save.kind = "activity"
  /\ \E back \in SUBSET Lists :
       /\ refs' = [l \in Lists |-> IF l \in back THEN save.was[l] ELSE refs[l]]
       /\ mishaps' = mishaps \cup UNION {Late(save.was[l], l) : l \in back}
  /\ save' = NoSave
  /\ UNCHANGED <<ch, live, tmp, used, want, deleted>>

\* commitDeviceSettings works on the list that it has read here.
SettingsBegin ==
  /\ save = NoSave
  /\ Event
  /\ \E id \in Ids(live.Device.val) :
       save' = [NoSave EXCEPT !.kind = "settings", !.id = id, !.list = live.Device]
  /\ UNCHANGED <<ch, live, tmp, refs, want, deleted, mishaps>>

Labelled(list, name) == Edited([kind |-> "label", id |-> save.id, old |-> "none", name |-> name], list)

\* saveDeviceListText: the list goes into the file, whatever was there.
PutsBack(list, name) ==
  LET mine == IF save.kind = "settings" THEN save.list ELSE Whole(Labelled(save.list.val, "set")) IN
  /\ live' = [live EXCEPT !.Device = Whole(list)]
  /\ want' = [want EXCEPT !.Device = Labelled(@, name)]
  /\ ch' = [c \in Child |-> IF ch[c].file = "Device" /\ ch[c].on = "live"
                            THEN [ch[c] EXCEPT !.on = "gone"] ELSE ch[c]]
  /\ mishaps' = mishaps \cup IF mine # live.Device THEN {"lost"} ELSE {}
  /\ Deletes({})
  /\ UNCHANGED <<tmp, refs, used>>

SettingsSaved ==
  /\ save.kind = "settings"
  /\ PutsBack(Labelled(save.list.val, "set"), "set")
  /\ save' = [save EXCEPT !.kind = "reload"]

SettingsEnd ==
  /\ save.kind = "reload"
  /\ save' = NoSave
  /\ UNCHANGED <<ch, live, tmp, refs, used, want, deleted, mishaps>>

\* The save or the engine's reload fails: the file gets its old text again.
SettingsUndone ==
  LET old == save.list.val IN
  /\ save.kind \in {"settings", "reload"}
  /\ PutsBack(old, old[Position(old, save.id)].label)
  /\ save' = NoSave

Next ==
  \/ \E c \in Child : Begin(c) \/ ChildStep(c)
  \/ SaveBegins \/ SaveWrites \/ SaveEnds \/ SaveUndone
  \/ SettingsBegin \/ SettingsSaved \/ SettingsEnd \/ SettingsUndone

Spec == Init /\ [][Next]_vars

-----------------------------------------------------------------------------
TypeOK ==
  /\ \A c \in Child : ch[c].told \in {"none", "ok", "failed", "in use"}
                      /\ ch[c].on \in {"none", "tmp", "live", "gone"}
                      /\ ch[c].file \in Files
  /\ \A f \in Files : live[f].text \in {"whole", "broken"}
                      /\ tmp[f].text \in {"whole", "broken", "none"}
  /\ refs \in [Lists -> SUBSET Nat]
  /\ save.kind \in {"none", "activity", "settings", "reload"}
  /\ deleted \subseteq Nat
  /\ mishaps \subseteq Mishaps

Free(names) == mishaps \cap names = {}

\* Every edit that was published is in the list, in the order of the renames, unless somebody
\* renamed over a list that he had not read, or shared the temporary file: a command added while
\* another child publishes is not lost, since append_command_to_device reads again.
NoEditLost ==
  Free({"overlap", "flush", "lost"}) => \A f \in Files : live[f].val = want[f]

Distinct(seq) == \A i, j \in DOMAIN seq : seq[i] = seq[j] => i = j

\* Two devices never have one id, two commands of a device one name, a device too many commands.
Tidy(list) ==
  /\ \A i, j \in DOMAIN list : list[i].id = list[j].id => i = j
  /\ \A i \in DOMAIN list : Distinct(list[i].cmds) /\ Len(list[i].cmds) <= MaxCommands

\* No stored command lacks its protocol.
Served(list, protocols) ==
  \A i \in DOMAIN list : \A n \in Keyed : Contains(list[i].cmds, n) => HasBuiltin(protocols)

\* A list on disk is whole, whatever is read, written or fails in whatever order, unless two
\* children had the one temporary file open together or an unchecked flush failed. A whole list
\* is tidy, and no protocol is there twice, unless a child published after another one had
\* changed what it had looked at, or could not read the list for the ids in it; and no stored command lacks its protocol, unless a list was
\* imported, as nothing compares it with the other.
ListsAreSound ==
  Free({"overlap", "flush"}) =>
    /\ \A f \in Files : Readable(live[f])
    /\ Free({"lost", "overtaken"}) =>
         /\ Tidy(live.Device.val)
         /\ Distinct(live.Protocol.val)
         /\ (\A c \in Child : ch[c].req.kind \notin {"restore", "bundle"})
              => Served(live.Device.val, live.Protocol.val)

\* No activity list names a device that was deleted and has not come back, as every later
\* activity save would be refused. What delete_ir_device looks at is enough for that, whatever
\* is edited, imported, saved, put back or fails meanwhile, unless somebody who does not look at
\* the devices writes such a reference when it has already looked: a save that had found the
\* device before, or an import, which nothing compares with the devices.
DeletedIsUnreferenced ==
  Free({"reference", "import"}) => \A id \in deleted, l \in Lists : id \notin refs[l]
=============================================================================
