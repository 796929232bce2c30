------------------------------ MODULE HidControl ------------------------------
(***************************************************************************)
(* The HID control shim of codex_bt_pair_agent.  Stock hal does not answer *)
(* GET_REPORT on the HID control channel, so the agent watches the raw ACL *)
(* packets of the adapter and answers itself.  For that it has to know the *)
(* channel ids of both ends: it picks them out of the L2CAP requests and   *)
(* responses it sees, and keeps one pair of them for all links.  A request *)
(* has to be for the HID control channel; a response is followed whatever  *)
(* channel it opens, on whatever link, when it names an id that the agent  *)
(* remembers.                                                              *)
(*                                                                         *)
(* The links and their channels are external; the agent sees each packet   *)
(* in the order in which it passed.  Each end of a link gives its channels *)
(* ids of its own; two links may use the same ones.                        *)
(***************************************************************************)
EXTENDS Naturals

CONSTANTS
  Peer,     \* Bluetooth hosts
  HubCid,   \* channel ids that the hub gives out
  PeerCid,  \* channel ids that a host gives out
  Opens     \* the channels that are opened on each host's link: HID control, others, or both

VARIABLES
  chans,      \* the open channels of each host: pairs of channel ids, HID control or other
  asks,       \* the requests for one that have no response yet
  localCid,   \* local_control_cid
  remoteCid,  \* remote_control_cid
  reply,      \* history: where the reply to the last GET_REPORT went, while there is no mishap
  mishaps     \* history: what the agent cannot follow, until no HID channel is left

vars == <<chans, asks, localCid, remoteCid, reply, mishaps>>

None == 0
Psm == {"hid", "other"}
Mishaps == {"second", "unseen", "alike"}
Channel == [local : HubCid, remote : PeerCid, psm : Psm]
Ask == [by : {"hub"}, cid : HubCid, psm : Psm] \cup [by : {"peer"}, cid : PeerCid, psm : Psm]

Init ==
  /\ chans = [p \in Peer |-> {}]
  /\ asks = [p \in Peer |-> {}]
  /\ localCid = None
  /\ remoteCid = None
  /\ reply = "none"
  /\ mishaps = {}

Asked(p, by) == {a \in asks[p] : a.by = by}
FreeHubCids(p) ==
  {l \in HubCid : (\A c \in chans[p] : c.local # l) /\ (\A a \in Asked(p, "hub") : a.cid # l)}
FreePeerCids(p) ==
  {r \in PeerCid : (\A c \in chans[p] : c.remote # r) /\ (\A a \in Asked(p, "peer") : a.cid # r)}

\* The HID control channels, or the requests for one.
Hid(set) == {x \in set : x.psm = "hid"}
Engaged(p) == Hid(chans[p]) # {} \/ Hid(asks[p]) # {}

\* Another exchange while a channel is open, or while another host's is under way.
Second(p) == \E d \in Peer : Hid(chans[d]) # {} \/ (d # p /\ Hid(asks[d]) # {})

\* An L2CAP connection request, from either side.
Requests(p, ask) ==
  /\ \A a \in Asked(p, ask.by) : a.psm # ask.psm
  /\ asks' = [asks EXCEPT ![p] = @ \cup {ask}]
  /\ mishaps' = mishaps \cup {m \in {"second"} : ask.psm = "hid" /\ Second(p)}
  /\ UNCHANGED <<chans, reply>>

PeerRequests(p) ==
  \E r \in FreePeerCids(p), psm \in Opens[p] :
    /\ Requests(p, [by |-> "peer", cid |-> r, psm |-> psm])
    /\ remoteCid' = IF psm = "hid" THEN r ELSE remoteCid
    /\ UNCHANGED localCid

HubRequests(p) ==
  \E l \in FreeHubCids(p), psm \in Opens[p] :
    /\ Requests(p, [by |-> "hub", cid |-> l, psm |-> psm])
    /\ localCid' = IF psm = "hid" THEN l ELSE localCid
    /\ UNCHANGED remoteCid

\* What makes the agent lose an HID channel when a channel opens: there is one already, or the
\* response to another request has the id that the agent remembers.
Confused(p, ask, remembered) ==
  {m \in {"second"} : ask.psm = "hid" /\ Hid(chans[p]) # {}}
  \cup {m \in {"alike"} : ask.psm # "hid" /\ ask.cid = remembered /\ \E d \in Peer : Engaged(d)}

\* The response: the channel opens, unless it is refused.
Responds(p, ask, opened, remembered) ==
  /\ asks' = [asks EXCEPT ![p] = @ \ {ask}]
  /\ chans' = [chans EXCEPT ![p] = @ \cup opened]
  /\ mishaps' = mishaps \cup IF opened # {} THEN Confused(p, ask, remembered) ELSE {}
  /\ UNCHANGED reply

\* Bug: a refusal is taken for a response with a channel id.
HubRespondsAnyway(p) ==
  \E ask \in Asked(p, "peer"), l \in FreeHubCids(p), ok \in BOOLEAN :
    /\ Responds(p, ask, IF ok THEN {[local |-> l, remote |-> ask.cid, psm |-> ask.psm]} ELSE {},
                remoteCid)
    /\ localCid' = IF ask.cid = remoteCid THEN (IF ok THEN l ELSE None) ELSE localCid
    /\ UNCHANGED remoteCid
HubResponds(p) ==
  \E ask \in Asked(p, "peer"), l \in FreeHubCids(p), ok \in BOOLEAN :
    /\ Responds(p, ask, IF ok THEN {[local |-> l, remote |-> ask.cid, psm |-> ask.psm]} ELSE {},
                remoteCid)
    /\ localCid' = IF ok /\ ask.cid = remoteCid THEN l ELSE localCid
    /\ UNCHANGED remoteCid

PeerResponds(p) ==
  \E ask \in Asked(p, "hub"), r \in FreePeerCids(p), ok \in BOOLEAN :
    /\ Responds(p, ask, IF ok THEN {[local |-> ask.cid, remote |-> r, psm |-> ask.psm]} ELSE {},
                localCid)
    /\ remoteCid' = IF ok /\ ask.cid = localCid THEN r ELSE remoteCid
    /\ UNCHANGED localCid

\* The agent answers on the link that the request came from, to the channel id it remembers.
Reply(c) ==
  IF c.local # localCid \/ remoteCid = None THEN "missed"
  ELSE IF c.remote = remoteCid THEN "right" ELSE "wrong"

GetReport(p) ==
  \E c \in Hid(chans[p]) :
    /\ reply' = IF mishaps = {} THEN Reply(c) ELSE reply
    /\ UNCHANGED <<chans, asks, localCid, remoteCid, mishaps>>

\* Once no HID channel is open or asked for, what the agent remembers no longer matters. One that
\* goes before the other exchange is over leaves its ids in the agent's memory.
Left(cs, as) ==
  /\ chans' = cs /\ asks' = as
  /\ LET over == \A p \in Peer : Hid(cs[p]) = {} /\ Hid(as[p]) = {}
         early == \E p \in Peer : Hid(chans[p]) # Hid(cs[p]) /\ Hid(as[p]) # {}
     IN /\ mishaps' = IF over THEN {} ELSE mishaps \cup IF early THEN {"second"} ELSE {}
        /\ reply' = IF over THEN "none" ELSE reply
  /\ UNCHANGED <<localCid, remoteCid>>

ChannelCloses(p) == \E c \in chans[p] : Left([chans EXCEPT ![p] = @ \ {c}], asks)

LinkGoes(p) ==
  /\ chans[p] # {} \/ asks[p] # {}
  /\ Left([chans EXCEPT ![p] = {}], [asks EXCEPT ![p] = {}])

\* ensure_bt_hid_control_runtime starts another daemon: it has seen nothing yet.
Restarts ==
  /\ localCid' = None
  /\ remoteCid' = None
  /\ mishaps' = mishaps \cup {m \in {"unseen"} : \E p \in Peer : Engaged(p)}
  /\ UNCHANGED <<chans, asks, reply>>

Next ==
  \/ \E p \in Peer : \/ PeerRequests(p) \/ HubRequests(p) \/ HubResponds(p) \/ PeerResponds(p)
                     \/ GetReport(p) \/ ChannelCloses(p) \/ LinkGoes(p)
  \/ Restarts

Spec == Init /\ [][Next]_vars

-----------------------------------------------------------------------------
TypeOK ==
  /\ chans \in [Peer -> SUBSET Channel]
  /\ \A p \in Peer : asks[p] \subseteq Ask
  /\ localCid \in HubCid \cup {None} /\ remoteCid \in PeerCid \cup {None}
  /\ reply \in {"none", "right", "wrong", "missed"}
  /\ mishaps \subseteq Mishaps

\* No GET_REPORT on an open control channel is missed, and its reply goes to the channel of the
\* host that asked, also when both sides open one at the same time and one of them is refused,
\* after any earlier link, and whatever other channels open and close, on the same link or on
\* others: unless a second control channel was asked for beside an open one, the first of two
\* closed before the second was settled, the daemon did not see how it opened, or the response
\* to a request for some other channel, which is not looked at, named the id that is remembered
\* (another link may give out the same one, and one from an earlier link may come again).
ReplyReachesAsker == mishaps = {} => reply \in {"none", "right"}
=============================================================================
