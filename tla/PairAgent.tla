------------------------------ MODULE PairAgent -------------------------------
(***************************************************************************)
(* The main loop of codex_bt_pair_agent while a host pairs with the hub.   *)
(* It handles one event of the adapter per round, and is complete once the *)
(* hub is paired and a link has been up for a while.  In the mode          *)
(* direct-only it also connects to the host by itself, which blocks it.    *)
(*                                                                         *)
(* Every round takes the time once, at its head: an event is entered with  *)
(* a time from before the agent waited for it.  The agent is prompt: time  *)
(* passes only while it waits for an event or for hcitool.                 *)
(***************************************************************************)
EXTENDS Naturals, Sequences

CONSTANTS
  Peer,         \* Bluetooth hosts
  Settle,       \* the seconds a link has to be up (10)
  Retry,        \* the seconds between attempts to connect (4)
  MaxAttempts,  \* the attempts to connect (12)
  Block,        \* the seconds that hcitool may take
  Deadline,     \* when the agent gives up
  MaxEvents     \* bound on the events

VARIABLES
  mode,    \* how the agent was started
  agent,   \* its variables
  time,    \* the clock
  spent,   \* the seconds that it has waited in this place
  queue,   \* the adapter's events that it has not read yet
  up,      \* since when each host has a link, 0 for none
  events,  \* how many events there have been
  seen     \* history: the hosts with an event

vars == <<mode, agent, time, spent, queue, up, events, seen>>

Modes == {"local", "direct-only", "observe"}
Nobody == "nobody"
Poll == 1

Init ==
  /\ mode = "local"
  /\ agent = [pc |-> "start", now |-> 0, paired |-> FALSE, linked |-> FALSE, since |-> 0,
              next |-> 0, attempts |-> 0, last |-> Nobody, saved |-> {}]
  /\ time = 1
  /\ spent = 0
  /\ queue = <<>>
  /\ up = [p \in Peer |-> 0]
  /\ events = 0
  /\ seen = {}

Become(next) == agent' = next /\ spent' = 0
Observes == mode = "observe"

Start ==
  /\ agent.pc = "start"
  /\ mode' \in Modes
  /\ Become([agent EXCEPT !.pc = "loop"])
  /\ UNCHANGED <<time, queue, up, events, seen>>

\* Bug: a link that has just come up will do.
IsCompleteAtOnce == ~Observes /\ agent.paired /\ agent.linked /\ agent.since # 0
IsComplete ==
  ~Observes /\ agent.paired /\ agent.linked /\ agent.since # 0 /\ time - agent.since >= Settle

Reconnects ==
  /\ mode = "direct-only" /\ agent.paired /\ ~agent.linked /\ agent.last # Nobody
  /\ time >= agent.next /\ agent.attempts < MaxAttempts

\* The head of a round.
Round ==
  LET pc == IF time >= Deadline THEN "timeout" ELSE IF IsComplete THEN "complete"
            ELSE IF Reconnects THEN "reconnect" ELSE "poll"
  IN
  /\ agent.pc = "loop"
  /\ Become([agent EXCEPT !.pc = pc, !.now = time,
                          !.attempts = IF pc = "reconnect" THEN @ + 1 ELSE @])
  /\ UNCHANGED <<mode, time, queue, up, events, seen>>

\* direct_acl_connect has ended, one way or the other.
Reconnected ==
  /\ agent.pc = "reconnect"
  /\ Become([agent EXCEPT !.pc = "poll", !.next = agent.now + Retry])
  /\ UNCHANGED <<mode, time, queue, up, events, seen>>

Waited ==
  /\ agent.pc = "poll" /\ queue = <<>> /\ spent = Poll
  /\ Become([agent EXCEPT !.pc = "loop"])
  /\ UNCHANGED <<mode, time, queue, up, events, seen>>

\* What an event leaves behind; persist_link_key may fail, and the agent goes on.
Handled(ev) ==
  CASE ev.kind \in {"request", "confirm"} -> {[agent EXCEPT !.last = ev.peer]}
    [] ev.kind = "key" ->
         {[agent EXCEPT !.last = ev.peer, !.paired = TRUE, !.next = agent.now + 1, !.saved = keys] :
            keys \in IF Observes THEN {agent.saved} ELSE {agent.saved, agent.saved \cup {ev.peer}}}
    [] ev.kind = "paired" -> {[agent EXCEPT !.paired = TRUE, !.next = agent.now + 1]}
    [] ev.kind = "up" -> {[agent EXCEPT !.linked = TRUE, !.since = agent.now]}
    [] OTHER -> {[agent EXCEPT !.linked = FALSE, !.since = 0,
                               !.next = IF agent.paired THEN agent.now + 1 ELSE @]}

Handle ==
  /\ agent.pc = "poll" /\ queue # <<>>
  /\ \E a \in Handled(Head(queue)) : Become([a EXCEPT !.pc = "loop"])
  /\ queue' = Tail(queue)
  /\ UNCHANGED <<mode, time, up, events, seen>>

\* SIGTERM or SIGINT.
Stop ==
  /\ agent.pc \in {"loop", "poll"}
  /\ Become([agent EXCEPT !.pc = "stopped"])
  /\ UNCHANGED <<mode, time, queue, up, events, seen>>

-----------------------------------------------------------------------------
(* The adapter. *)

Running == agent.pc \notin {"start", "complete", "timeout", "stopped"}

Happens(kind, p) ==
  /\ Running
  /\ events < MaxEvents
  /\ events' = events + 1
  /\ queue' = Append(queue, [kind |-> kind, peer |-> p])
  /\ seen' = seen \cup {p}
  /\ UNCHANGED <<mode, agent, time, spent>>

LinkComes(p) == up[p] = 0 /\ Happens("up", p) /\ up' = [up EXCEPT ![p] = time]
LinkFails(p) == up[p] = 0 /\ Happens("failed", p) /\ UNCHANGED up
LinkGoes(p) == up[p] # 0 /\ Happens("down", p) /\ up' = [up EXCEPT ![p] = 0]
Says(kind, p) == (kind = "request") = (up[p] = 0) /\ Happens(kind, p) /\ UNCHANGED up

AdapterStep ==
  \E p \in Peer :
    LinkComes(p) \/ LinkFails(p) \/ LinkGoes(p)
    \/ \E kind \in {"request", "confirm", "key", "paired"} : Says(kind, p)

Tick ==
  /\ time < Deadline
  /\ \/ agent.pc = "poll" /\ queue = <<>> /\ spent < Poll
     \/ agent.pc = "reconnect" /\ spent < Block
  /\ time' = time + 1
  /\ spent' = spent + 1
  /\ UNCHANGED <<mode, agent, queue, up, events, seen>>

Next == Start \/ Round \/ Reconnected \/ Waited \/ Handle \/ Stop \/ AdapterStep \/ Tick

Spec == Init /\ [][Next]_vars

-----------------------------------------------------------------------------
TypeOK ==
  /\ mode \in Modes
  /\ agent.pc \in {"start", "loop", "poll", "reconnect", "complete", "timeout", "stopped"}
  /\ agent.last \in Peer \cup {Nobody} /\ agent.saved \subseteq Peer
  /\ agent.attempts \in 0..MaxAttempts /\ {agent.now, agent.since} \subseteq 0..time
  /\ time \in 1..Deadline
  /\ up \in [Peer -> 0..Deadline]
  /\ seen \subseteq Peer

\* When the agent reports that pairing is complete, the host has a link, unless it has gone with
\* an event that is still unread, and the link has been up for Settle seconds, but for the time
\* that the agent waited with a stale clock: one poll, and what hcitool takes in the mode that
\* connects by itself. One flag stands for all hosts, so this is about a hub with one host.
CompletedIsLinked ==
  agent.pc = "complete" /\ queue = <<>> =>
    \A p \in Peer : seen = {p} =>
      /\ up[p] # 0
      /\ time - up[p] >= Settle - Poll - IF mode = "direct-only" THEN Block ELSE 0
=============================================================================
