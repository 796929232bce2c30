----------------------------- MODULE MCHubHelpers -----------------------------
(* One child asks for anything, the other for what is not just like another request: a device    *)
(* has one command at first, and a second device has one that needs the protocol, which is       *)
(* looked for in vain or found by mistake.  The batches are a long one, a dry one, one without an *)
(* id and one with nothing to send.  Of the files one is new in both releases, one only the       *)
(* second changes, and one is the server.                                                         *)
EXTENDS HubHelpers

MCTexts ==
  Names \cup {"", "none", "new", "set", "lookalike", "other", D!Builtin.name}

Request(kind, id, from, name) == [kind |-> kind, id |-> id, old |-> from, name |-> name]
SomeRequests ==
  {Request("create", 0, "", ""), Request("delete", 1, "", ""), Request("add", 1, "", "n2"),
   Request("restore", 0, "", "")}
AllRequests ==
  SomeRequests \cup
  {Request("label", 1, "", "new"), Request("change", 1, "n1", "n2"),
   Request("remove", 1, "", "n1"), Request("import", 1, "", ""), Request("repair", 0, "", ""),
   Request("bundle", 0, "", ""), Request("MapList", 0, "", "")}
MCRequests == [c1 |-> AllRequests, c2 |-> SomeRequests]

Known(id, cmds) == [id |-> id, label |-> "", cmds |-> cmds]
OneDevice == [Device |-> <<Known(1, <<"n1">>)>>, Protocol |-> <<>>]
TwoDevices ==
  [Device |-> <<Known(1, <<"n1">>), Known(5, <<"n2">>)>>,
   Protocol |-> <<[name |-> "lookalike"]>>]
MCFirstLists == {OneDevice, TwoDevices}
MCRestored == [Device |-> <<Known(1, <<>>)>>, Protocol |-> <<[name |-> "other"]>>]

Batch(id, dry, lines) == [id |-> id, dry |-> dry, lines |-> lines]
IrBatches ==
  {Batch("a", FALSE, <<"good", "bad", "good", "good">>), Batch("a", TRUE, <<"good", "good">>),
   Batch("none", FALSE, <<"good", "bad", "good">>), Batch("b", FALSE, <<"bad", "bad">>)}
MCBatches == [r \in Child |-> IrBatches]

\* The first host has its HID control channel alone, the second one others too.
MCOpens == [h1 |-> {"hid"}, h2 |-> {"hid", "other"}]

Software(hbus, init, webui) == [hbus |-> hbus, init |-> init, webui |-> webui]
MCOrder == <<"hbus", "init", "webui">>
MCReleases == {Software("a", "a", "b"), Software("a", "b", "c")}
MCFirstFiles == Software("absent", "a", "a")
=============================================================================
