--------------------------- MODULE ReceiptJournal ---------------------------
(***************************************************************************)
(* How the receipts of CronReceipts are stored (src/src/bus/               *)
(* cron-outcome.ts): a log that is appended to, an index that is replaced, *)
(* and a journal that names the receipt on its way into both.  Every call  *)
(* holds the domain's lock, so one is under way at a time; it may end      *)
(* before any of its writes, because the write fails or the process dies.  *)
(* The next call completes what the journal names.                         *)
(*                                                                         *)
(* The bounds of the log (2000 lines) and of the index (20000 keys) are    *)
(* not reached here.                                                       *)
(***************************************************************************)
EXTENDS Naturals, FiniteSets

CONSTANTS
  Jobs,         \* the runs whose receipts are stored
  Tries         \* their attempts

ASSUME JournalAssumption == Tries \subseteq Nat \ {0} /\ Jobs # {} /\ Tries # {}

VARIABLES
  index,        \* the index file: the last receipt of each run ...
  known,        \* ... and the idempotency keys
  journal,      \* the journal file: no or one receipt
  copies,       \* how often each receipt is in the log
  op            \* the call that holds the lock

journalVars == <<index, known, journal, copies, op>>

\* The last receipts with the one that is on its way.
OnItsWay == journal \ known
R0 == INSTANCE CronReceipts WITH Runs <- Jobs, Attempts <- Tries, latest <- index, accepted <- known

Completed ==
  [r \in Jobs |->
     IF \E row \in OnItsWay : row.run = r
     THEN LET row == CHOOSE row \in OnItsWay : row.run = r
          IN [state |-> row.state, attempt |-> row.attempt]
     ELSE index[r]]

Receipts ==
  INSTANCE CronReceipts
    WITH Runs <- Jobs, Attempts <- Tries, latest <- Completed, accepted <- known \cup journal

Rows == R0!Receipt
\* relog, reindex, reclean: recoverJournalLocked; log, index, clean:
\* applyReceiptLocked.  row: the receipt to append, none in a call that reads.
Op == [stage : {"idle", "recover", "relog", "reindex", "reclean", "decide", "log", "index", "clean", "end"},
       call : {"append", "read", "reconcile"}, row : SUBSET Rows]
Idle == [stage |-> "idle", call |-> "read", row |-> {}]

JournalTypeOK ==
  /\ index \in [Jobs -> R0!Newest] /\ known \subseteq Rows
  /\ journal \subseteq Rows /\ Cardinality(journal) <= 1
  /\ copies \in [Rows -> Nat]
  /\ op \in Op /\ Cardinality(op.row) <= 1

JournalInit ==
  /\ index = [r \in Jobs |-> R0!Nothing] /\ known = {}
  /\ journal = {} /\ copies = [row \in Rows |-> 0]
  /\ op = Idle

-----------------------------------------------------------------------------
Reaches(stage) == op' = [op EXCEPT !.stage = stage]
Logged(row) == copies[row] > 0

\* appendCronOutcome, getActiveCronOutcome and reconcileCronOutcomes take the
\* lock and read the index.
JournalCall ==
  /\ op.stage = "idle"
  /\ \/ \E row \in Rows : op' = [stage |-> "recover", call |-> "append", row |-> {row}]
     \/ \E call \in {"read", "reconcile"} : op' = [stage |-> "recover", call |-> call, row |-> {}]
  /\ UNCHANGED <<index, known, journal, copies>>

\* Mutant: a receipt that did not come into the log is dropped.
JournalDropped ==
  /\ op.stage = "recover"
  /\ Reaches(CASE journal = {} -> "decide"
               [] OnItsWay # {} /\ (\E row \in journal : Logged(row)) -> "reindex"
               [] OTHER -> "reclean")
  /\ UNCHANGED <<index, known, journal, copies>>

\* Mutant: the log is not searched for the journal's receipt.
FindsJournalAnyway ==
  /\ op.stage = "recover"
  /\ Reaches(CASE journal = {} -> "decide"
               [] journal # {} /\ OnItsWay = {} -> "reclean"
               [] OTHER -> "relog")
  /\ UNCHANGED <<index, known, journal, copies>>

\* recoverJournalLocked reads the journal and looks for its receipt.
FindsJournal ==
  /\ op.stage = "recover"
  /\ Reaches(CASE journal = {} -> "decide"
               [] journal # {} /\ OnItsWay = {} -> "reclean"
               [] OnItsWay # {} /\ (\E row \in journal : Logged(row)) -> "reindex"
               [] OTHER -> "relog")
  /\ UNCHANGED <<index, known, journal, copies>>

AppendsLog ==
  /\ op.stage \in {"relog", "log"}
  /\ copies' = [row \in Rows |-> IF row \in journal THEN copies[row] + 1 ELSE copies[row]]
  /\ Reaches(IF op.stage = "log" THEN "index" ELSE "reindex")
  /\ UNCHANGED <<index, known, journal>>

WritesIndex ==
  /\ op.stage \in {"reindex", "index"}
  /\ index' = Completed /\ known' = known \cup journal
  /\ Reaches(IF op.stage = "index" THEN "clean" ELSE "reclean")
  /\ UNCHANGED <<journal, copies>>

\* The journal is removed, if that works.
RemovesJournal ==
  /\ op.stage \in {"reclean", "clean"}
  /\ journal' \in {journal, {}}
  /\ Reaches(IF op.stage = "clean" THEN "end" ELSE "decide")
  /\ UNCHANGED <<index, known, copies>>

\* Neither known nor refused by assertTransition.
Acceptable(row) == row \notin known /\ R0!Follows(row, index[row.run])

\* applyReceiptLocked: a known receipt is returned, one that may not follow is
\* refused, any other is written to the journal.
Applies(row) ==
  /\ op.stage = "decide" /\ op.row = {row}
  /\ IF Acceptable(row)
     THEN journal' = {row} /\ Reaches("log")
     ELSE op' = Idle /\ UNCHANGED journal
  /\ UNCHANGED <<index, known, copies>>

\* reconcileCronOutcomes goes over the runs that are not through and have been
\* silent too long.
TimesOut(r) ==
  /\ op.call = "reconcile" /\ op.stage \in {"decide", "end"}
  /\ index[r].state \in {"scheduled", "started", "dispatched"}
  /\ LET row == [run |-> r, state |-> "failed", attempt |-> index[r].attempt]
     IN /\ journal' = {row}
        /\ op' = [op EXCEPT !.stage = "log", !.row = {row}]
  /\ UNCHANGED <<index, known, copies>>

\* The call returns, or ends where it is: the write throws or the process dies.
JournalCallEnds ==
  /\ op.stage # "idle"
  /\ op' = Idle
  /\ UNCHANGED <<index, known, journal, copies>>

JournalNext ==
  \/ JournalCall \/ FindsJournal \/ AppendsLog \/ WritesIndex \/ RemovesJournal
  \/ (\E row \in Rows : Applies(row)) \/ (\E r \in Jobs : TimesOut(r)) \/ JournalCallEnds

JournalSpec == JournalInit /\ [][JournalNext]_journalVars

-----------------------------------------------------------------------------
(* Properties *)

\* The log has every receipt that the index knows exactly once, one that is on
\* its way at most once, and no other: not even a crash between two writes and
\* any number of failed recoveries lose or double a line.
LogAgrees ==
  \A row \in Rows :
    copies[row] \in (CASE row \in known -> {1} [] row \in OnItsWay -> {0, 1} [] OTHER -> {0})

\* Journal, log and index together are the receipts of CronReceipts: one is
\* accepted in a single step, when the journal is written, and never taken back.
\* The log that is left for a reader agrees with it all the time.
JournalRefines == Receipts!Spec /\ []LogAgrees
=============================================================================
