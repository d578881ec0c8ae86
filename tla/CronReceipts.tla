---------------------------- MODULE CronReceipts ----------------------------
(***************************************************************************)
(* What the receipts of cron runs promise (src/src/bus/cron-outcome.ts): a *)
(* run goes through its states in the order assertTransition allows, and a *)
(* receipt that was accepted once is accepted again without an effect.     *)
(*                                                                         *)
(* "failed" stands for timed_out and needs_human too, which have the same  *)
(* predecessors and are as final.                                          *)
(***************************************************************************)
EXTENDS Naturals

CONSTANTS
  Runs,
  Attempts

VARIABLES
  latest,       \* the last receipt of each run
  accepted      \* the receipts that were accepted, the idempotency keys

receiptVars == <<latest, accepted>>

States == {"scheduled", "started", "dispatched", "succeeded", "failed", "skipped"}
Receipt == [run : Runs, state : States, attempt : Attempts]
Nothing == [state |-> "none", attempt |-> 0]
Newest == [state : States \cup {"none"}, attempt : Attempts \cup {0}]

\* What may come after a state.
After ==
  [none |-> {"scheduled"},
   scheduled |-> {"started", "failed", "skipped"},
   started |-> {"started", "dispatched", "failed"},
   dispatched |-> {"succeeded", "failed"},
   succeeded |-> {}, failed |-> {}, skipped |-> {}]

\* assertTransition: attempts do not go back.
Follows(row, last) == row.state \in After[last.state] /\ row.attempt >= last.attempt

\* The last receipts once a row has been added.
Put(row, last) == [last EXCEPT ![row.run] = [state |-> row.state, attempt |-> row.attempt]]

Append(row) ==
  /\ row \notin accepted /\ Follows(row, latest[row.run])
  /\ latest' = Put(row, latest)
  /\ accepted' = accepted \cup {row}

Init == latest = [r \in Runs |-> Nothing] /\ accepted = {}
Next == \E row \in Receipt : Append(row)
Spec == Init /\ [][Next]_receiptVars
=============================================================================
