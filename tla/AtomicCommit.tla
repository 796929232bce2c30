---------------------------- MODULE AtomicCommit ----------------------------
(***************************************************************************)
(* "Saves are transactions" (README.md): seen from outside the writer, a   *)
(* save replaces the hub's configuration in one step by what it asks for,  *)
(* or leaves it as it was, or is reported to have done neither.            *)
(* CommitTransaction is shown to implement this.                           *)
(***************************************************************************)
CONSTANTS Txn,            \* the requested saves
          Config,         \* the configurations the hub can have
          Results(_, _)   \* what a save may make of a configuration

VARIABLES content,  \* the hub's configuration
          settled   \* the saves that were answered, and how

acVars == <<content, settled>>

Init == /\ content \in Config
        /\ settled = [t \in Txn |-> "open"]

Settle(t, how) == /\ settled[t] = "open"
                  /\ settled' = [settled EXCEPT ![t] = how]

Save(t) == /\ Settle(t, "saved")
           /\ content' \in Results(t, content)

Decline(t) == /\ Settle(t, "not_saved")
              /\ UNCHANGED content

\* The rollback failed as well, or the runtime died: nobody was told anything else.
Break(t) == /\ Settle(t, "broken")
            /\ content' \in Config

Next == \E t \in Txn : Save(t) \/ Decline(t) \/ Break(t)

Spec == Init /\ [][Next]_acVars
=============================================================================
