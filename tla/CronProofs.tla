----------------------------- MODULE CronProofs -----------------------------
(***************************************************************************)
(* The receipts of cron runs: log, index and journal together are the      *)
(* receipts of CronReceipts, wherever a call ends.  The scheduler: a mark  *)
(* of firing is taken away again, and a run is delivered under one         *)
(* dispatch key, unless a fire went on with an object that was replaced.   *)
(***************************************************************************)
EXTENDS ReceiptJournal, CronScheduler, FiniteSetTheorems, FunctionTheorems, WellFoundedInduction, TLAPS

-----------------------------------------------------------------------------
(* The journal *)

\* The part of the type invariant that does not count.
JournalTyped ==
  /\ index \in [Jobs -> R0!Newest] /\ known \subseteq Rows
  /\ copies \in [Rows -> Nat] /\ op \in Op
  /\ journal = {} \/ \E row \in Rows : journal = {row}
  /\ op.row = {} \/ \E row \in Rows : op.row = {row}

\* A run has an attempt once it has a receipt, and is through once one has failed.
IndexAgrees ==
  /\ \A r \in Jobs : index[r].state # "none" => index[r].attempt \in Tries
  /\ \A row \in known : row.state = "failed" => index[row.run].state = "failed"

\* A receipt on its way could follow when it was written to the journal, and
\* still can: nothing overtakes it.
OnItsWayFollows == \A row \in OnItsWay : R0!Follows(row, index[row.run])

\* How far the call under way has come with the receipt in the journal.
StageAgrees ==
  /\ op.stage \in {"relog", "log"} => OnItsWay # {} /\ \A row \in journal : copies[row] = 0
  /\ op.stage \in {"reindex", "index"} => OnItsWay # {} /\ \A row \in journal : copies[row] = 1
  /\ op.stage \in {"reclean", "decide", "clean", "end"} => OnItsWay = {}

JournalInv == JournalTyped /\ IndexAgrees /\ OnItsWayFollows /\ StageAgrees /\ LogAgrees

Stages == {"idle", "recover", "relog", "reindex", "reclean", "decide", "log", "index", "clean", "end"}

LEMMA RowIs ==
  /\ \A row \in Rows : /\ row.run \in Jobs /\ row.state \in R0!States /\ row.attempt \in Tries
                       /\ [state |-> row.state, attempt |-> row.attempt] \in R0!Newest
  /\ R0!Nothing \in R0!Newest /\ R0!Nothing.state = "none"
BY DEF Rows, R0!Receipt, R0!Newest, R0!Nothing, R0!States

\* What the index will hold once the receipt on its way has come to it.
LEMMA CompletedIs ==
  ASSUME JournalTyped
  PROVE  /\ OnItsWay = {} => Completed = index
         /\ \A row : OnItsWay = {row} => Completed = R0!Put(row, index)
         /\ OnItsWay = {} \/ \E row \in Rows : OnItsWay = {row} /\ journal = {row} /\ row \notin known
<1>1. OnItsWay = {} \/ \E row \in Rows : OnItsWay = {row} /\ journal = {row} /\ row \notin known
  BY DEF JournalTyped, OnItsWay
<1>2. index = [r \in Jobs |-> index[r]]
  BY DEF JournalTyped
<1>3. ASSUME OnItsWay = {} PROVE Completed = index
  BY <1>2, <1>3 DEF Completed
<1>4. ASSUME NEW row, OnItsWay = {row} PROVE Completed = R0!Put(row, index)
  <2> DEFINE new == [state |-> row.state, attempt |-> row.attempt]
  <2>1. \A r \in Jobs : Completed[r] = IF row.run = r THEN new ELSE index[r]
    BY <1>4 DEF Completed
  <2>2. Completed = [r \in Jobs |-> Completed[r]]
    BY DEF Completed
  <2>3. \A r \in Jobs : R0!Put(row, index)[r] = IF row.run = r THEN new ELSE index[r]
    BY <1>2 DEF R0!Put
  <2>4. R0!Put(row, index) = [r \in Jobs |-> R0!Put(row, index)[r]]
    BY <1>2 DEF R0!Put
  <2> QED BY <2>1, <2>2, <2>3, <2>4
<1> QED BY <1>1, <1>3, <1>4

LEMMA ReachesIs ==
  ASSUME op \in Op, NEW stage \in Stages, Reaches(stage)
  PROVE  /\ op' \in Op /\ op'.stage = stage /\ op'.row = op.row /\ op'.call = op.call
BY DEF Reaches, Op, Stages

LEMMA IdleIs == Idle \in Op /\ Idle.stage = "idle" /\ Idle.row = {}
BY DEF Idle, Op

LEMMA JournalInvInit == JournalInit => JournalInv
<1> SUFFICES ASSUME JournalInit PROVE JournalInv
  OBVIOUS
<1>1. OnItsWay = {}
  BY DEF JournalInit, OnItsWay
<1>2. JournalTyped
  BY IdleIs, RowIs DEF JournalInit, JournalTyped
<1>3. IndexAgrees /\ OnItsWayFollows /\ StageAgrees
  BY <1>1, IdleIs, RowIs DEF JournalInit, IndexAgrees, OnItsWayFollows, StageAgrees
<1>4. LogAgrees
  BY <1>1 DEF JournalInit, LogAgrees
<1> QED BY <1>2, <1>3, <1>4 DEF JournalInv

\* A step that changes no file.
LEMMA CallStepsKeep ==
  ASSUME JournalInv, UNCHANGED <<index, known, journal, copies>>, op' \in Op,
         op'.row = {} \/ \E row \in Rows : op'.row = {row},
         StageAgrees'
  PROVE  JournalInv' /\ Completed' = Completed
<1>1. OnItsWay' = OnItsWay
  BY DEF OnItsWay
<1>2. JournalTyped' /\ IndexAgrees' /\ OnItsWayFollows'
  BY <1>1 DEF JournalInv, JournalTyped, IndexAgrees, OnItsWayFollows
<1>3. LogAgrees'
  BY <1>1 DEF JournalInv, LogAgrees
<1>4. Completed' = Completed
  BY <1>1 DEF Completed
<1> QED BY <1>2, <1>3, <1>4 DEF JournalInv

LEMMA CallsKeep ==
  ASSUME JournalInv, JournalCall \/ FindsJournal \/ JournalCallEnds
  PROVE  JournalInv' /\ Completed' = Completed
<1>1. UNCHANGED <<index, known, journal, copies>> /\ OnItsWay' = OnItsWay
  BY DEF JournalCall, FindsJournal, JournalCallEnds, OnItsWay
<1>2. CASE JournalCall
  <2>1. op' \in Op /\ op'.stage = "recover" /\ (op'.row = {} \/ \E row \in Rows : op'.row = {row})
    <3>1. ASSUME NEW row \in Rows, op' = [stage |-> "recover", call |-> "append", row |-> {row}]
          PROVE  op' \in Op /\ op'.stage = "recover" /\ op'.row = {row}
      BY <3>1 DEF Op
    <3>2. ASSUME NEW k \in {"read", "reconcile"}, op' = [stage |-> "recover", call |-> k, row |-> {}]
          PROVE  op' \in Op /\ op'.stage = "recover" /\ op'.row = {}
      BY <3>2 DEF Op
    <3> QED BY <1>2, <3>1, <3>2 DEF JournalCall
  <2>2. StageAgrees'
    BY <2>1 DEF StageAgrees
  <2> QED BY <1>1, <2>1, <2>2, CallStepsKeep
<1>3. CASE FindsJournal
  <2> DEFINE stage == CASE journal = {} -> "decide"
                        [] journal # {} /\ OnItsWay = {} -> "reclean"
                        [] OnItsWay # {} /\ (\E row \in journal : Logged(row)) -> "reindex"
                        [] OTHER -> "relog"
  <2>1. OnItsWay \subseteq journal
    BY DEF OnItsWay
  <2>2. \/ stage = "decide" /\ OnItsWay = {}
        \/ stage = "reclean" /\ OnItsWay = {}
        \/ stage = "reindex" /\ OnItsWay # {} /\ \E row \in journal : Logged(row)
        \/ stage = "relog" /\ OnItsWay # {} /\ ~(\E row \in journal : Logged(row))
    BY <2>1
  <2>3. Reaches(stage)
    BY <1>3 DEF FindsJournal
  <2> HIDE DEF stage
  <2>4. stage \in Stages /\ op \in Op
    BY <2>2 DEF Stages, JournalInv, JournalTyped
  <2>5. op' \in Op /\ op'.stage = stage /\ op'.row = op.row
    BY <2>3, <2>4, ReachesIs
  <2>6. ASSUME OnItsWay # {}, NEW row \in journal
        PROVE  row \in Rows /\ copies[row] \in {0, 1} /\ \A other \in journal : other = row
    <3>1. PICK r \in Rows : OnItsWay = {r} /\ journal = {r} /\ r \notin known
      BY <2>6, CompletedIs DEF JournalInv
    <3> QED BY <2>6, <3>1 DEF JournalInv, LogAgrees
  <2>7. StageAgrees'
    BY <1>1, <2>2, <2>5, <2>6 DEF StageAgrees, Logged
  <2> QED BY <1>1, <2>5, <2>7, CallStepsKeep DEF JournalInv, JournalTyped
<1>4. CASE JournalCallEnds
  <2>1. op' = Idle
    BY <1>4 DEF JournalCallEnds
  <2>2. StageAgrees'
    BY <2>1, IdleIs DEF StageAgrees
  <2> QED BY <1>1, <2>1, <2>2, IdleIs, CallStepsKeep
<1> QED BY <1>2, <1>3, <1>4

\* The log, read clause by clause.
LEMMA LogAgreesIs ==
  ASSUME NEW row \in Rows, LogAgrees
  PROVE  /\ row \in known => copies[row] = 1
         /\ row \in OnItsWay => copies[row] \in {0, 1}
         /\ row \notin known \cup OnItsWay => copies[row] = 0
<1>1. ~(row \in known /\ row \in OnItsWay)
  BY DEF OnItsWay
<1> QED BY <1>1 DEF LogAgrees

LEMMA AppendsLogKeeps ==
  ASSUME JournalInv, AppendsLog
  PROVE  JournalInv' /\ Completed' = Completed /\ UNCHANGED <<known, journal>>
<1>1. /\ op.stage \in {"relog", "log"} /\ UNCHANGED <<index, known, journal>>
      /\ copies' = [row \in Rows |-> IF row \in journal THEN copies[row] + 1 ELSE copies[row]]
      /\ OnItsWay' = OnItsWay
  BY DEF AppendsLog, OnItsWay
<1>2. PICK new \in Rows : OnItsWay = {new} /\ journal = {new} /\ new \notin known
  BY <1>1, CompletedIs DEF JournalInv, StageAgrees
<1>3. copies[new] = 0
  BY <1>1, <1>2 DEF JournalInv, StageAgrees
<1>4. copies' \in [Rows -> Nat] /\ copies'[new] = 1 /\ \A row \in Rows : row # new => copies'[row] = copies[row]
  BY <1>1, <1>2, <1>3 DEF JournalInv, JournalTyped
<1>5. op' \in Op /\ op'.stage \in {"index", "reindex"} /\ op'.row = op.row
  <2>1. ASSUME NEW stage \in {"index", "reindex"}, Reaches(stage)
        PROVE  op' \in Op /\ op'.stage = stage /\ op'.row = op.row
    BY <2>1, ReachesIs DEF JournalInv, JournalTyped, Stages
  <2> QED BY <2>1 DEF AppendsLog
<1>6. JournalTyped'
  BY <1>1, <1>4, <1>5 DEF JournalInv, JournalTyped
<1>7. IndexAgrees' /\ OnItsWayFollows'
  BY <1>1 DEF JournalInv, IndexAgrees, OnItsWayFollows
<1>8. StageAgrees'
  BY <1>1, <1>2, <1>4, <1>5 DEF StageAgrees
<1>9. LogAgrees'
  <2> SUFFICES ASSUME NEW row \in Rows
               PROVE  copies'[row] \in (CASE row \in known -> {1} [] row \in OnItsWay -> {0, 1} [] OTHER -> {0})
    BY <1>1 DEF LogAgrees
  <2>1. CASE row = new
    BY <1>2, <1>4, <2>1
  <2>2. CASE row # new
    BY <1>4, <2>2 DEF JournalInv, LogAgrees
  <2> QED BY <2>1, <2>2
<1>10. Completed' = Completed
  BY <1>1 DEF Completed
<1> QED BY <1>1, <1>6, <1>7, <1>8, <1>9, <1>10 DEF JournalInv

\* When nothing is on its way the index is complete, in the next state as well.
LEMMA NothingOnItsWay ==
  ASSUME index' \in [Jobs -> R0!Newest], OnItsWay' = {}
  PROVE  Completed' = index'
<1>1. Completed' = [r \in Jobs |-> index'[r]]
  BY DEF Completed
<1> QED BY <1>1

LEMMA PutIs ==
  ASSUME NEW old \in [Jobs -> R0!Newest], NEW row \in Rows
  PROVE  /\ R0!Put(row, old) \in [Jobs -> R0!Newest]
         /\ R0!Put(row, old)[row.run] = [state |-> row.state, attempt |-> row.attempt]
         /\ \A r \in Jobs : r # row.run => R0!Put(row, old)[r] = old[r]
BY RowIs DEF R0!Put

LEMMA WritesIndexKeeps ==
  ASSUME JournalInv, WritesIndex
  PROVE  JournalInv' /\ Completed' = Completed /\ known' \cup journal' = known \cup journal
<1>1. /\ op.stage \in {"reindex", "index"} /\ UNCHANGED <<journal, copies>>
      /\ index' = Completed /\ known' = known \cup journal
  BY DEF WritesIndex
<1>2. PICK new \in Rows : OnItsWay = {new} /\ journal = {new} /\ new \notin known
  BY <1>1, CompletedIs DEF JournalInv, StageAgrees
<1>3. copies[new] = 1 /\ R0!Follows(new, index[new.run])
  BY <1>1, <1>2 DEF JournalInv, StageAgrees, OnItsWayFollows
<1>4. OnItsWay' = {}
  BY <1>1 DEF OnItsWay
<1>5. /\ index' \in [Jobs -> R0!Newest]
      /\ index'[new.run] = [state |-> new.state, attempt |-> new.attempt]
      /\ \A r \in Jobs : r # new.run => index'[r] = index[r]
  <2>1. index' = R0!Put(new, index)
    BY <1>1, <1>2, CompletedIs DEF JournalInv
  <2> QED BY <2>1, PutIs DEF JournalInv, JournalTyped
<1>6. op' \in Op /\ op'.stage \in {"clean", "reclean"} /\ op'.row = op.row
  <2>1. ASSUME NEW stage \in {"clean", "reclean"}, Reaches(stage)
        PROVE  op' \in Op /\ op'.stage = stage /\ op'.row = op.row
    BY <2>1, ReachesIs DEF JournalInv, JournalTyped, Stages
  <2> QED BY <2>1 DEF WritesIndex
<1>7. JournalTyped'
  BY <1>1, <1>2, <1>5, <1>6 DEF JournalInv, JournalTyped
<1>8. IndexAgrees'
  <2>1. index[new.run].state # "failed"
    BY <1>2, <1>3 DEF R0!Follows, R0!After
  <2>2. \A row \in known : row.state = "failed" => row.run # new.run /\ row.run \in Jobs
    BY <2>1, RowIs DEF JournalInv, JournalTyped, IndexAgrees
  <2>3. \A row \in known' : row \in known \/ row = new
    BY <1>1, <1>2
  <2>4. \A row \in known' : row.state = "failed" => index'[row.run].state = "failed"
    BY <1>5, <2>2, <2>3 DEF JournalInv, IndexAgrees
  <2>5. \A r \in Jobs : index'[r].state # "none" => index'[r].attempt \in Tries
    BY <1>5, RowIs DEF JournalInv, IndexAgrees
  <2> QED BY <2>4, <2>5 DEF IndexAgrees
<1>9. OnItsWayFollows' /\ StageAgrees'
  BY <1>4, <1>6 DEF OnItsWayFollows, StageAgrees
<1>10. LogAgrees'
  <2> SUFFICES ASSUME NEW row \in Rows
               PROVE  copies[row] \in (CASE row \in known' -> {1} [] OTHER -> {0})
    BY <1>1, <1>4 DEF LogAgrees
  <2>1. CASE row = new
    BY <1>1, <1>2, <1>3, <2>1
  <2>2. CASE row # new
    BY <1>1, <1>2, <2>2, LogAgreesIs DEF JournalInv
  <2> QED BY <2>1, <2>2
<1>11. Completed' = Completed
  BY <1>1, <1>4, <1>5, NothingOnItsWay
<1> QED BY <1>1, <1>7, <1>8, <1>9, <1>10, <1>11 DEF JournalInv

LEMMA RemovesJournalKeeps ==
  ASSUME JournalInv, RemovesJournal
  PROVE  JournalInv' /\ Completed' = Completed /\ known' \cup journal' = known \cup journal
<1>1. /\ op.stage \in {"reclean", "clean"} /\ UNCHANGED <<index, known, copies>>
      /\ journal' \in {journal, {}}
  BY DEF RemovesJournal
<1>2. OnItsWay = {} /\ journal \subseteq known
  BY <1>1 DEF JournalInv, StageAgrees, OnItsWay
<1>3. OnItsWay' = OnItsWay /\ known' \cup journal' = known \cup journal
  BY <1>1, <1>2 DEF OnItsWay
<1>4. op' \in Op /\ op'.stage \in {"end", "decide"} /\ op'.row = op.row
  <2>1. ASSUME NEW stage \in {"end", "decide"}, Reaches(stage)
        PROVE  op' \in Op /\ op'.stage = stage /\ op'.row = op.row
    BY <2>1, ReachesIs DEF JournalInv, JournalTyped, Stages
  <2> QED BY <2>1 DEF RemovesJournal
<1>5. JournalTyped' /\ IndexAgrees'
  BY <1>1, <1>4 DEF JournalInv, JournalTyped, IndexAgrees
<1>6. OnItsWayFollows' /\ StageAgrees'
  BY <1>2, <1>3, <1>4 DEF OnItsWayFollows, StageAgrees
<1>7. LogAgrees'
  BY <1>1, <1>3 DEF JournalInv, LogAgrees
<1>8. Completed' = Completed
  BY <1>1, <1>3 DEF Completed
<1> QED BY <1>3, <1>5, <1>6, <1>7, <1>8 DEF JournalInv

\* A receipt is written to the journal: from here on it is accepted.
LEMMA Written ==
  ASSUME JournalInv, OnItsWay = {}, NEW row \in Rows, Acceptable(row),
         journal' = {row}, UNCHANGED <<index, known, copies>>,
         op' \in Op, op'.stage = "log", op'.row = {row}
  PROVE  JournalInv' /\ Receipts!Append(row)
<1>1. row \notin known /\ R0!Follows(row, index[row.run]) /\ journal \subseteq known
  BY DEF Acceptable, OnItsWay
<1>2. OnItsWay' = {row}
  BY <1>1 DEF OnItsWay
<1>3. copies[row] = 0
  BY <1>1, LogAgreesIs DEF JournalInv
<1>4. JournalTyped' /\ IndexAgrees'
  BY DEF JournalInv, JournalTyped, IndexAgrees
<1>5. OnItsWayFollows' /\ StageAgrees'
  BY <1>1, <1>2, <1>3 DEF OnItsWayFollows, StageAgrees
<1>6. LogAgrees'
  <2> SUFFICES ASSUME NEW other \in Rows
               PROVE  copies[other] \in (CASE other \in known -> {1} [] other \in {row} -> {0, 1} [] OTHER -> {0})
    BY <1>2 DEF LogAgrees
  <2>1. CASE other = row
    BY <1>1, <1>3, <2>1
  <2>2. CASE other # row
    BY <2>2, LogAgreesIs DEF JournalInv
  <2> QED BY <2>1, <2>2
<1>7. Completed = index /\ Completed' = R0!Put(row, index)
  <2>1. Completed = index
    BY CompletedIs DEF JournalInv
  <2>2. index = [r \in Jobs |-> index[r]]
    BY DEF JournalInv, JournalTyped
  <2> DEFINE new == [state |-> row.state, attempt |-> row.attempt]
  <2>3. Completed' = [r \in Jobs |-> IF row.run = r THEN new ELSE index[r]]
    BY <1>2 DEF Completed
  <2>4. R0!Put(row, index) = [r \in Jobs |-> IF row.run = r THEN new ELSE index[r]]
    <3>1. R0!Put(row, index) = [index EXCEPT ![row.run] = new]
      BY DEF R0!Put
    <3> HIDE DEF new
    <3> QED BY <2>2, <3>1
  <2> QED BY <2>1, <2>3, <2>4
<1>8. R0!Follows(row, Completed[row.run]) /\ Completed' = R0!Put(row, Completed)
  BY <1>1, <1>7
<1>9. row \notin known \cup journal /\ known' \cup journal' = (known \cup journal) \cup {row}
  BY <1>1
<1>10. Receipts!Append(row)
  BY <1>8, <1>9 DEF Receipts!Append, Receipts!Follows, Receipts!After, Receipts!Put,
                    R0!Follows, R0!After, R0!Put
<1> QED BY <1>4, <1>5, <1>6, <1>10 DEF JournalInv

LEMMA AppliesKeeps ==
  ASSUME JournalInv, NEW row \in Rows, Applies(row)
  PROVE  JournalInv' /\ ((Completed' = Completed /\ UNCHANGED <<known, journal>>) \/ Receipts!Append(row))
<1>1. op.stage = "decide" /\ op.row = {row} /\ OnItsWay = {} /\ UNCHANGED <<index, known, copies>>
  BY DEF Applies, JournalInv, StageAgrees
<1>2. CASE Acceptable(row)
  <2>1. journal' = {row} /\ Reaches("log")
    BY <1>2 DEF Applies
  <2>2. op' \in Op /\ op'.stage = "log" /\ op'.row = {row}
    BY <1>1, <2>1, ReachesIs DEF JournalInv, JournalTyped, Stages
  <2> QED BY <1>1, <1>2, <2>1, <2>2, Written
<1>3. CASE ~Acceptable(row)
  <2>1. op' = Idle /\ UNCHANGED journal
    BY <1>3 DEF Applies
  <2>2. StageAgrees'
    BY <2>1, IdleIs DEF StageAgrees
  <2> QED BY <1>1, <2>1, <2>2, IdleIs, CallStepsKeep
<1> QED BY <1>2, <1>3

\* A receipt of its own for a run that has been silent too long is one that may
\* follow, and a new one.
LEMMA TimesOutKeeps ==
  ASSUME JournalInv, NEW r \in Jobs, TimesOut(r)
  PROVE  JournalInv' /\ \E row \in Rows : Receipts!Append(row)
<1> DEFINE row == [run |-> r, state |-> "failed", attempt |-> index[r].attempt]
<1>1. /\ op.call = "reconcile" /\ op.stage \in {"decide", "end"} /\ UNCHANGED <<index, known, copies>>
      /\ index[r].state \in {"scheduled", "started", "dispatched"}
      /\ journal' = {row} /\ op' = [op EXCEPT !.stage = "log", !.row = {row}]
  BY DEF TimesOut
<1>2. OnItsWay = {}
  BY <1>1 DEF JournalInv, StageAgrees
<1>3. index[r].attempt \in Tries /\ index[r].attempt >= index[r].attempt
  BY <1>1, JournalAssumption DEF JournalInv, IndexAgrees
<1>4. row \in Rows /\ row.run = r /\ row.state = "failed" /\ row.attempt = index[r].attempt
  BY <1>3 DEF Rows, R0!Receipt, R0!States
<1>5. op' \in Op /\ op'.stage = "log" /\ op'.row = {row}
  BY <1>1, <1>4 DEF JournalInv, JournalTyped, Op
<1> HIDE DEF row
<1>6. row \notin known
  BY <1>1, <1>4 DEF JournalInv, IndexAgrees
<1>7. R0!Follows(row, index[row.run])
  BY <1>1, <1>3, <1>4 DEF R0!Follows, R0!After
<1> QED BY <1>1, <1>2, <1>4, <1>5, <1>6, <1>7, Written DEF Acceptable

\* Every step keeps the invariant, and is a step of the receipts or of none.
LEMMA JournalInvNext ==
  ASSUME JournalInv, [JournalNext]_journalVars
  PROVE  JournalInv' /\ [Receipts!Next]_(Receipts!receiptVars)
<1> DEFINE Nothing0 == Completed' = Completed /\ known' \cup journal' = known \cup journal
<1>1. JournalInv' /\ (Nothing0 \/ \E row \in Rows : Receipts!Append(row))
  <2>1. CASE JournalCall \/ FindsJournal \/ JournalCallEnds
    <3>1. UNCHANGED <<known, journal>>
      BY <2>1 DEF JournalCall, FindsJournal, JournalCallEnds
    <3> QED BY <2>1, <3>1, CallsKeep
  <2>2. CASE AppendsLog
    BY <2>2, AppendsLogKeeps
  <2>3. CASE WritesIndex
    BY <2>3, WritesIndexKeeps
  <2>4. CASE RemovesJournal
    BY <2>4, RemovesJournalKeeps
  <2>5. CASE \E row \in Rows : Applies(row)
    BY <2>5, AppliesKeeps
  <2>6. CASE \E r \in Jobs : TimesOut(r)
    BY <2>6, TimesOutKeeps
  <2>7. CASE UNCHANGED journalVars
    <3>1. op' = op /\ UNCHANGED <<index, known, journal, copies>>
      BY <2>7 DEF journalVars
    <3>2. StageAgrees'
      <4>1. OnItsWay' = OnItsWay
        BY <3>1 DEF OnItsWay
      <4> QED BY <3>1, <4>1 DEF JournalInv, StageAgrees
    <3> QED BY <3>1, <3>2, CallStepsKeep DEF JournalInv, JournalTyped
  <2> QED BY <2>1, <2>2, <2>3, <2>4, <2>5, <2>6, <2>7 DEF JournalNext
<1>2. ASSUME Nothing0 PROVE UNCHANGED Receipts!receiptVars
  BY <1>2 DEF Receipts!receiptVars
<1>3. ASSUME \E row \in Rows : Receipts!Append(row) PROVE Receipts!Next
  BY <1>3 DEF Receipts!Next, Receipts!Receipt, Receipts!States, Rows, R0!Receipt, R0!States
<1> QED BY <1>1, <1>2, <1>3

LEMMA JournalInvAlways == JournalSpec => []JournalInv
<1>1. JournalInv /\ [JournalNext]_journalVars => JournalInv'
  BY JournalInvNext
<1> QED BY <1>1, JournalInvInit, PTL DEF JournalSpec

LEMMA JournalInvTyped == JournalInv => JournalTypeOK
<1> SUFFICES ASSUME JournalInv PROVE JournalTypeOK
  OBVIOUS
<1>1. \A s : (s = {} \/ \E row \in Rows : s = {row}) => s \subseteq Rows /\ Cardinality(s) <= 1
  <2>1. Cardinality({}) = 0 /\ \A row \in Rows : Cardinality({row}) = 1
    BY FS_EmptySet, FS_Singleton
  <2> QED BY <2>1
<1> QED BY <1>1 DEF JournalInv, JournalTyped, JournalTypeOK

\* The files of the receipts keep their types: the journal never names two
\* receipts, whichever write of a call fails (cron-outcome.ts).
THEOREM JournalIsTyped == JournalSpec => []JournalTypeOK
BY JournalInvTyped, JournalInvAlways, PTL

\* Log, index and journal together are the receipts of CronReceipts, and the
\* log agrees with them: a receipt is accepted in the single step that writes
\* the journal, a failed write or a crash anywhere behind it neither loses nor
\* doubles it, and a time-out of reconcileCronOutcomes is a receipt like any other.
THEOREM JournalImplementsReceipts == JournalSpec => JournalRefines
<1>1. JournalInit => Receipts!Init
  <2> SUFFICES ASSUME JournalInit PROVE Receipts!Init
    OBVIOUS
  <2>1. OnItsWay = {} /\ known \cup journal = {} /\ index = [r \in Jobs |-> R0!Nothing]
    BY DEF JournalInit, OnItsWay
  <2>2. Completed = index
    BY <2>1, CompletedIs, JournalInvInit DEF JournalInv
  <2> QED BY <2>1, <2>2 DEF Receipts!Init, Receipts!Nothing, R0!Nothing
<1>2. JournalInv /\ [JournalNext]_journalVars => [Receipts!Next]_(Receipts!receiptVars)
  BY JournalInvNext
<1>3. JournalInv => LogAgrees
  BY DEF JournalInv
<1> QED BY <1>1, <1>2, <1>3, JournalInvAlways, PTL DEF JournalSpec, JournalRefines, Receipts!Spec

-----------------------------------------------------------------------------
(* The scheduler *)

LEMMA LeastIs ==
  ASSUME NEW S, S \subseteq Nat, S # {}
  PROVE  Least(S) \in S /\ \A y \in S : Least(S) <= y
<1> DEFINE Below == {p \in Nat \X Nat : p[1] < p[2]}
<1>1. IsWellFoundedOn(Below, Nat)
  BY NatLessThanWellFounded DEF OpToRel
<1>2. PICK x \in S : \A y \in S : <<y, x>> \notin Below
  <2> HIDE DEF Below
  <2> QED BY <1>1, WFMin
<1>3. ASSUME NEW y \in S PROVE x <= y
  <2>1. y \in Nat /\ x \in Nat /\ (y < x => <<y, x>> \in Below)
    OBVIOUS
  <2>2. ~(y < x)
    BY <1>2, <2>1
  <2> QED BY <2>1, <2>2
<1> QED BY <1>3 DEF Least

\* There is a copy for the Map whatever the ticks walk.
LEMMA FreshIs ==
  ASSUME view \in [Ticks -> [Crons -> Copies \cup {0}]], NEW c \in Crons
  PROVE  Fresh(c) \in Copies /\ \A t \in Ticks : view[t][c] # Fresh(c)
<1> DEFINE held == {view[t][c] : t \in Ticks}
           f == [t \in Ticks |-> view[t][c]]
<1>1. IsFiniteSet(Ticks) /\ Cardinality(Ticks) \in Nat
  BY CronAssumption, FS_CardinalityType
<1>2. IsFiniteSet(held) /\ Cardinality(held) <= Cardinality(Ticks)
  <2>1. f \in [Ticks -> held] /\ \A x \in held : \E t \in Ticks : f[t] = x
    OBVIOUS
  <2>2. f \in Surjection(Ticks, held)
    <3> HIDE DEF f, held
    <3> QED BY <2>1, Fun_IsSurj
  <2> HIDE DEF f, held
  <2> QED BY <1>1, <2>2, FS_Surjection
<1>3. IsFiniteSet(Copies) /\ Cardinality(Copies) = Cardinality(Ticks) + 1
  <2>1. PICK n : n = Cardinality(Ticks) + 1
    OBVIOUS
  <2>2. n \in Nat /\ 1 \in Nat /\ Copies = 1..n
    BY <1>1, <2>1 DEF Copies
  <2>3. IsFiniteSet(1..n) /\ Cardinality(1..n) = IF 1 > n THEN 0 ELSE n - 1 + 1
    BY <2>2, FS_Interval
  <2> QED BY <1>1, <2>1, <2>2, <2>3
<1>4. Copies \ held # {}
  <2>1. SUFFICES ASSUME Copies \subseteq held PROVE FALSE
    OBVIOUS
  <2> HIDE DEF held
  <2>2. Cardinality(Copies) <= Cardinality(held) /\ Cardinality(held) \in Nat
    BY <1>2, <2>1, FS_Subset, FS_CardinalityType
  <2> QED BY <1>1, <1>2, <1>3, <2>2
<1>5. Copies \ held \subseteq Nat
  BY <1>1 DEF Copies
<1>6. Fresh(c) \in Copies \ held
  <2> HIDE DEF held
  <2>1. Fresh(c) = Least(Copies \ held)
    BY DEF Fresh, held
  <2> QED BY <1>4, <1>5, <2>1, LeastIs
<1> QED BY <1>6

\* What the receipts say of the run of slot s of cron c.
Tried(b, c, s) == b.latest[<<c, s>>].attempt
Known(b, c, s) == b.latest[<<c, s>>].state # "none"
Begun(b, c, s) == b.latest[<<c, s>>].state \notin {"none", "scheduled"}

\* An attempt is counted from 1 once a run is known, and what was accepted is
\* not ahead of the last receipt.
BookFits(b) ==
  /\ b.latest \in [CronRuns -> R!Newest] /\ b.accepted \subseteq R!Receipt
  /\ \A c \in Crons, s \in Slots :
       /\ ~Known(b, c, s) => Tried(b, c, s) = 0
       /\ Known(b, c, s) => Tried(b, c, s) \in 1..MaxTries
       /\ ~Begun(b, c, s) => Tried(b, c, s) <= 1
  /\ \A c \in Crons, s \in Slots, state \in R!States, a \in 1..MaxTries :
       Row(c, s, state, a) \in b.accepted
         => /\ Known(b, c, s) /\ a <= Tried(b, c, s)
            /\ state # "scheduled" => Begun(b, c, s)

\* No receipt takes anything back.
Grows(b, n) ==
  \A c \in Crons, s \in Slots :
    /\ Tried(b, c, s) <= Tried(n, c, s)
    /\ Known(b, c, s) => Known(n, c, s)
    /\ Begun(b, c, s) => Begun(n, c, s)

LEMMA ReceiptsAre ==
  /\ R!States = {"scheduled", "started", "dispatched", "succeeded", "failed", "skipped"}
  /\ R!Receipt = [run : CronRuns, state : R!States, attempt : 1..MaxTries]
  /\ R!Newest = [state : R!States \cup {"none"}, attempt : 0..MaxTries]
  /\ MaxTries \in Nat /\ MaxTries >= 1
  /\ \A c \in Crons, s \in Slots : <<c, s>> \in CronRuns
<1>1. MaxTries \in Nat /\ MaxTries >= 1
  BY CronAssumption
<1>2. (1..MaxTries) \cup {0} = 0..MaxTries
  BY <1>1
<1>3. R!Newest = [state : R!States \cup {"none"}, attempt : 0..MaxTries]
  BY <1>2 DEF R!Newest
<1> QED BY <1>1, <1>3 DEF R!States, R!Receipt, CronRuns

LEMMA FollowsIs ==
  ASSUME NEW row, NEW last \in R!Newest, R!Follows(row, last)
  PROVE  /\ row.attempt >= last.attempt
         /\ row.state = "scheduled" <=> last.state = "none"
         /\ row.state # "none"
<1>1. last.state \in {"none", "scheduled", "started", "dispatched", "succeeded", "failed", "skipped"}
  BY DEF R!Newest, R!States
<1>2. row.state \in R!After[last.state] /\ row.attempt >= last.attempt
  BY DEF R!Follows
<1>3. CASE last.state = "none"
  BY <1>2, <1>3 DEF R!After
<1>4. CASE last.state \in {"scheduled", "started", "dispatched"}
  BY <1>2, <1>4 DEF R!After
<1>5. CASE last.state \in {"succeeded", "failed", "skipped"}
  BY <1>2, <1>5 DEF R!After
<1> QED BY <1>1, <1>2, <1>3, <1>4, <1>5

\* What a receipt that is granted changes.
LEMMA WithIs ==
  ASSUME NEW b, BookFits(b), NEW c \in Crons, NEW s \in Slots, NEW state \in R!States,
         NEW a \in 1..MaxTries, state = "scheduled" => a = 1,
         Grants(b, Row(c, s, state, a)),
         NEW n, n = With(b, Row(c, s, state, a))
  PROVE  /\ BookFits(n) /\ Grows(b, n)
         /\ \A d \in Crons, x \in Slots : <<d, x>> # <<c, s>> => n.latest[<<d, x>>] = b.latest[<<d, x>>]
         /\ Known(n, c, s) /\ (state # "scheduled" => Known(b, c, s) /\ Begun(n, c, s))
         /\ Tried(n, c, s) = IF a >= Tried(b, c, s) THEN a ELSE Tried(b, c, s)
<1> DEFINE row == Row(c, s, state, a)
<1>1. row \in R!Receipt /\ row.run = <<c, s>> /\ row.state = state /\ row.attempt = a /\ <<c, s>> \in CronRuns
  BY ReceiptsAre DEF Row
<1>2. /\ b.latest \in [CronRuns -> R!Newest] /\ b.accepted \subseteq R!Receipt
      /\ Tried(b, c, s) \in 0..MaxTries /\ b.latest[<<c, s>>] \in R!Newest
  BY <1>1, ReceiptsAre DEF BookFits, Tried
<1>3. CASE row \in b.accepted
  <2>1. n = b
    BY <1>3 DEF With
  <2>2. Known(b, c, s) /\ a <= Tried(b, c, s) /\ (state # "scheduled" => Begun(b, c, s))
    BY <1>3 DEF BookFits
  <2>3. Grows(b, n)
    <3>1. \A d \in Crons, x \in Slots : Tried(b, d, x) \in 0..MaxTries
      BY ReceiptsAre DEF BookFits, Tried
    <3> QED BY <2>1, <3>1, ReceiptsAre DEF Grows
  <2> QED BY <1>2, <2>1, <2>2, <2>3, ReceiptsAre
<1>4. CASE row \notin b.accepted
  <2> DEFINE new == [state |-> state, attempt |-> a]
  <2>1. R!Follows(row, b.latest[<<c, s>>])
    BY <1>1, <1>4 DEF Grants
  <2>2. /\ a >= Tried(b, c, s) /\ (state = "scheduled" <=> ~Known(b, c, s)) /\ state # "none"
    BY <1>1, <1>2, <2>1, FollowsIs DEF Tried, Known
  <2>3. new \in R!Newest /\ new.state = state /\ new.attempt = a
    BY ReceiptsAre
  <2>4. /\ n.latest = [b.latest EXCEPT ![<<c, s>>] = new] /\ n.accepted = b.accepted \cup {row}
    BY <1>1, <1>4 DEF With, R!Put
  <2> HIDE DEF new
  <2>5. /\ n.latest[<<c, s>>] = new
        /\ \A d \in Crons, x \in Slots : <<d, x>> # <<c, s>> => n.latest[<<d, x>>] = b.latest[<<d, x>>]
        /\ n.latest \in [CronRuns -> R!Newest]
    BY <1>1, <1>2, <2>3, <2>4, ReceiptsAre
  <2>6. Tried(n, c, s) = a /\ Known(n, c, s) /\ (Begun(n, c, s) <=> state # "scheduled")
    BY <2>2, <2>3, <2>5 DEF Tried, Known, Begun
  <2>7. \A d \in Crons, x \in Slots : <<d, x>> # <<c, s>>
          => /\ Tried(n, d, x) = Tried(b, d, x)
             /\ Known(n, d, x) = Known(b, d, x) /\ Begun(n, d, x) = Begun(b, d, x)
    BY <2>5 DEF Tried, Known, Begun
  <2>8. \A d \in Crons, x \in Slots : Tried(b, d, x) \in 0..MaxTries
    BY <1>2, ReceiptsAre DEF Tried
  <2>9. Grows(b, n)
    <3> SUFFICES ASSUME NEW d \in Crons, NEW x \in Slots
                 PROVE  /\ Tried(b, d, x) <= Tried(n, d, x) /\ (Known(b, d, x) => Known(n, d, x))
                        /\ (Begun(b, d, x) => Begun(n, d, x))
      BY DEF Grows
    <3>1. CASE <<d, x>> = <<c, s>>
      <4>1. d = c /\ x = s
        BY <3>1
      <4>2. Begun(b, c, s) => Known(b, c, s)
        BY DEF Begun, Known
      <4> QED BY <2>2, <2>6, <2>8, <4>1, <4>2, ReceiptsAre
    <3>2. CASE <<d, x>> # <<c, s>>
      BY <2>7, <2>8, <3>2, ReceiptsAre
    <3> QED BY <3>1, <3>2
  <2>10. BookFits(n)
    <3>1. n.accepted \subseteq R!Receipt
      BY <1>1, <1>2, <2>4
    <3>2. ASSUME NEW d \in Crons, NEW x \in Slots
          PROVE  /\ ~Known(n, d, x) => Tried(n, d, x) = 0
                 /\ Known(n, d, x) => Tried(n, d, x) \in 1..MaxTries
                 /\ ~Begun(n, d, x) => Tried(n, d, x) <= 1
      <4>1. CASE <<d, x>> = <<c, s>>
        <5>1. d = c /\ x = s
          BY <4>1
        <5> QED BY <2>6, <5>1, ReceiptsAre
      <4>2. CASE <<d, x>> # <<c, s>>
        BY <2>7, <4>2 DEF BookFits
      <4> QED BY <4>1, <4>2
    <3>3. ASSUME NEW d \in Crons, NEW x \in Slots, NEW st \in R!States, NEW k \in 1..MaxTries,
                 Row(d, x, st, k) \in n.accepted
          PROVE  /\ Known(n, d, x) /\ k <= Tried(n, d, x) /\ (st # "scheduled" => Begun(n, d, x))
      <4>1. CASE Row(d, x, st, k) \in b.accepted
        <5>1. Known(b, d, x) /\ k <= Tried(b, d, x) /\ (st # "scheduled" => Begun(b, d, x))
          BY <4>1 DEF BookFits
        <5>2. Tried(n, d, x) \in 0..MaxTries
          BY <2>5, ReceiptsAre DEF Tried
        <5> QED BY <2>8, <2>9, <5>1, <5>2, ReceiptsAre DEF Grows
      <4>2. CASE Row(d, x, st, k) = row
        <5>1. d = c /\ x = s /\ st = state /\ k = a
          BY <4>2 DEF Row
        <5> QED BY <2>6, <5>1, ReceiptsAre
      <4> QED BY <2>4, <3>3, <4>1, <4>2
    <3> QED BY <2>5, <3>1, <3>2, <3>3 DEF BookFits
  <2>11. state # "scheduled" => Known(b, c, s) /\ Begun(n, c, s)
    BY <2>2, <2>6
  <2> QED BY <2>2, <2>5, <2>6, <2>9, <2>10, <2>11, <1>2, ReceiptsAre
<1> QED BY <1>3, <1>4

LEMMA HealedIs ==
  ASSUME BookFits(book), NEW crons \in SUBSET Crons, NEW n, n = HealedBook(crons)
  PROVE  /\ BookFits(n) /\ Grows(book, n)
         /\ \A c \in Crons, s \in Slots :
              Tried(n, c, s) = Tried(book, c, s) /\ Known(n, c, s) = Known(book, c, s)
<1> DEFINE rows == UNION {{HealedRow(c, s) : s \in Healed(c)} : c \in crons}
           Into(r) == IF \E row \in rows : row.run = r
                      THEN LET row == CHOOSE row \in rows : row.run = r
                           IN [state |-> row.state, attempt |-> row.attempt]
                      ELSE book.latest[r]
<1>1. ASSUME NEW row \in rows
      PROVE  \E c \in Crons, s \in Slots :
               /\ row = HealedRow(c, s) /\ row.run = <<c, s>> /\ row.state \in {"dispatched", "failed"}
               /\ row.attempt = Tried(book, c, s) /\ Known(book, c, s)
  <2>0. PICK c \in crons : row \in {HealedRow(c, s) : s \in Healed(c)}
    OBVIOUS
  <2>1. PICK s \in Healed(c) : row = HealedRow(c, s)
    BY <2>0
  <2>2. s \in Slots /\ Known(book, c, s)
    BY DEF Healed, Pending, Known
  <2>3. row.run = <<c, s>> /\ row.state \in {"dispatched", "failed"} /\ row.attempt = Tried(book, c, s)
    BY <2>1 DEF HealedRow, Row, Tried
  <2> QED BY <2>1, <2>2, <2>3
<1> HIDE DEF rows
<1>2. n = [latest |-> [r \in CronRuns |-> Into(r)], accepted |-> book.accepted \cup rows]
  BY DEF HealedBook, rows
<1>3. n.latest = [r \in CronRuns |-> Into(r)] /\ n.accepted = book.accepted \cup rows
  BY <1>2
<1>4. ASSUME NEW c \in Crons, NEW s \in Slots
      PROVE  \/ n.latest[<<c, s>>] = book.latest[<<c, s>>] /\ ~\E row \in rows : row.run = <<c, s>>
             \/ /\ n.latest[<<c, s>>] \in R!Newest
                /\ n.latest[<<c, s>>].state \in {"dispatched", "failed"}
                /\ n.latest[<<c, s>>].attempt = Tried(book, c, s)
                /\ Known(book, c, s)
  <2>1. n.latest[<<c, s>>] = Into(<<c, s>>)
    BY <1>3, ReceiptsAre
  <2>2. CASE \E row \in rows : row.run = <<c, s>>
    <3>1. PICK row : row = CHOOSE other \in rows : other.run = <<c, s>>
      OBVIOUS
    <3>2. row \in rows /\ row.run = <<c, s>>
      BY <2>2, <3>1
    <3>3. n.latest[<<c, s>>] = [state |-> row.state, attempt |-> row.attempt]
      BY <2>1, <2>2, <3>1
    <3>4. PICK d \in Crons, x \in Slots :
             /\ row.run = <<d, x>> /\ row.state \in {"dispatched", "failed"}
             /\ row.attempt = Tried(book, d, x) /\ Known(book, d, x)
      BY <1>1, <3>2
    <3>5. d = c /\ x = s
      BY <3>2, <3>4
    <3>6. Tried(book, c, s) \in 0..MaxTries
      BY ReceiptsAre DEF BookFits, Tried
    <3> QED BY <3>3, <3>4, <3>5, <3>6, ReceiptsAre
  <2>3. CASE ~\E row \in rows : row.run = <<c, s>>
    BY <2>1, <2>3
  <2> QED BY <2>2, <2>3
<1> HIDE DEF Into
<1>5. ASSUME NEW c \in Crons, NEW s \in Slots
      PROVE  /\ Tried(n, c, s) = Tried(book, c, s) /\ Known(n, c, s) = Known(book, c, s)
             /\ (Begun(book, c, s) => Begun(n, c, s))
             /\ (Begun(n, c, s) => Known(book, c, s))
             /\ (n.latest[<<c, s>>] = book.latest[<<c, s>>] \/ Begun(n, c, s))
             /\ Tried(book, c, s) \in 0..MaxTries /\ Tried(book, c, s) <= Tried(book, c, s)
  <2>1. Tried(book, c, s) \in 0..MaxTries
    BY ReceiptsAre DEF BookFits, Tried
  <2> QED BY <1>4, <2>1, ReceiptsAre DEF Tried, Known, Begun
<1>6. Grows(book, n)
  BY <1>5 DEF Grows
<1>7. n.latest \in [CronRuns -> R!Newest]
  <2> SUFFICES ASSUME NEW r \in CronRuns PROVE n.latest[r] \in R!Newest
    BY <1>3
  <2>1. PICK c \in Crons, s \in Slots : r = <<c, s>>
    BY DEF CronRuns
  <2>2. book.latest[r] \in R!Newest
    BY DEF BookFits
  <2> QED BY <1>4, <2>1, <2>2
<1>8. n.accepted \subseteq R!Receipt
  <2>1. ASSUME NEW row \in rows PROVE row \in R!Receipt
    <3>1. PICK c \in Crons, s \in Slots :
             row = HealedRow(c, s) /\ row.state \in {"dispatched", "failed"}
             /\ row.attempt = Tried(book, c, s) /\ Known(book, c, s)
      BY <1>1, <2>1
    <3>2. Tried(book, c, s) \in 1..MaxTries
      BY <3>1 DEF BookFits
    <3>3. PICK state, a : row = [run |-> <<c, s>>, state |-> state, attempt |-> a]
      BY <3>1 DEF HealedRow, Row
    <3>4. state \in R!States /\ a \in 1..MaxTries
      BY <3>1, <3>2, <3>3, ReceiptsAre
    <3> QED BY <3>3, <3>4, ReceiptsAre
  <2> QED BY <1>3, <2>1 DEF BookFits
<1>9. ASSUME NEW c \in Crons, NEW s \in Slots, NEW state \in R!States, NEW a \in 1..MaxTries,
             Row(c, s, state, a) \in n.accepted
      PROVE  /\ Known(n, c, s) /\ a <= Tried(n, c, s) /\ (state # "scheduled" => Begun(n, c, s))
  <2>1. CASE Row(c, s, state, a) \in book.accepted
    BY <1>5, <2>1 DEF BookFits
  <2>2. CASE Row(c, s, state, a) \in rows
    <3>1. PICK row : row = Row(c, s, state, a)
      OBVIOUS
    <3>2. row \in rows /\ row.run = <<c, s>> /\ row.attempt = a
      BY <2>2, <3>1 DEF Row
    <3>3. PICK d \in Crons, x \in Slots :
             row.run = <<d, x>> /\ row.attempt = Tried(book, d, x) /\ Known(book, d, x)
      BY <1>1, <3>2
    <3>4. d = c /\ x = s /\ a = Tried(book, c, s) /\ Known(book, c, s)
      BY <3>2, <3>3
    <3>5. n.latest[<<c, s>>].state \in {"dispatched", "failed"}
      BY <1>4, <3>2
    <3> QED BY <1>5, <3>4, <3>5 DEF Begun
  <2> QED BY <1>3, <1>9, <2>1, <2>2
<1>10. \A c \in Crons, s \in Slots :
          /\ ~Known(n, c, s) => Tried(n, c, s) = 0
          /\ Known(n, c, s) => Tried(n, c, s) \in 1..MaxTries
          /\ ~Begun(n, c, s) => Tried(n, c, s) <= 1
  BY <1>5 DEF BookFits, Begun
<1> QED BY <1>5, <1>6, <1>7, <1>8, <1>9, <1>10 DEF BookFits

\* A run that an object has in hand is pending, or was when it was taken up.
RunFits(b, c, run) ==
  /\ run \in [slot : Slots \cup {0}, state : {"none", "scheduled", "started"}, attempt : 0..MaxTries]
  /\ \/ run = NoRun
     \/ /\ run.slot \in Slots /\ run.attempt \in 1..MaxTries /\ run.state # "none"
        /\ run.state = "scheduled" => run.attempt = 1
        /\ Known(b, c, run.slot) /\ run.attempt <= Tried(b, c, run.slot)

LEMMA NoRunFits ==
  /\ NoRun.slot = 0 /\ NoRun.state = "none" /\ NoRun.attempt = 0
  /\ \A b, c : RunFits(b, c, NoRun)
BY ReceiptsAre DEF RunFits, NoRun

LEMMA ActiveIs ==
  ASSUME NEW b, BookFits(b), NEW c \in Crons, NEW run, run = Active(b, c)
  PROVE  /\ RunFits(b, c, run)
         /\ run # NoRun => /\ run.attempt = Tried(b, c, run.slot)
                           /\ run.state = "scheduled" <=> ~Begun(b, c, run.slot)
<1>1. CASE Pending(b, c) = {}
  BY <1>1, NoRunFits DEF Active
<1>2. CASE Pending(b, c) # {}
  <2>1. PICK s : s = Least(Pending(b, c))
    OBVIOUS
  <2>2. s \in Pending(b, c)
    <3>1. Pending(b, c) \subseteq Nat
      BY CronAssumption DEF Pending, Slots
    <3> QED BY <1>2, <2>1, <3>1, LeastIs
  <2>3. s \in Slots /\ b.latest[<<c, s>>].state \in {"scheduled", "started"}
    BY <2>2 DEF Pending
  <2>4. run = [slot |-> s, state |-> b.latest[<<c, s>>].state, attempt |-> b.latest[<<c, s>>].attempt]
    BY <1>2, <2>1 DEF Active
  <2>5. run.slot = s /\ run.state = b.latest[<<c, s>>].state /\ run.attempt = Tried(b, c, s)
    BY <2>4 DEF Tried
  <2>6. Known(b, c, s) /\ (Begun(b, c, s) <=> run.state = "started")
    BY <2>3, <2>5 DEF Known, Begun
  <2>7. Tried(b, c, s) \in 1..MaxTries /\ (run.state = "scheduled" => Tried(b, c, s) = 1)
    <3>1. Tried(b, c, s) \in 1..MaxTries
      BY <2>3, <2>6 DEF BookFits
    <3>2. ~Begun(b, c, s) => Tried(b, c, s) <= 1
      BY <2>3 DEF BookFits
    <3>3. run.state = "scheduled" => ~Begun(b, c, s)
      BY <2>6
    <3> QED BY <3>1, <3>2, <3>3
  <2>8. RunFits(b, c, run)
    <3>0. PICK state, a : run = [slot |-> s, state |-> state, attempt |-> a]
      BY <2>4
    <3>1. run \in [slot : Slots \cup {0}, state : {"none", "scheduled", "started"}, attempt : 0..MaxTries]
      <4>1. state \in {"scheduled", "started"} /\ a \in 0..MaxTries
        BY <2>3, <2>5, <2>7, <3>0, ReceiptsAre
      <4> QED BY <2>3, <3>0, <4>1
    <3> QED BY <2>3, <2>5, <2>6, <2>7, <3>1, ReceiptsAre DEF RunFits
  <2> QED BY <2>3, <2>5, <2>6, <2>8
<1> QED BY <1>1, <1>2

LEMMA RunGrows ==
  ASSUME NEW b, BookFits(b), NEW n, BookFits(n), Grows(b, n), NEW c \in Crons, NEW run, RunFits(b, c, run)
  PROVE  RunFits(n, c, run)
<1>1. CASE run = NoRun
  BY <1>1, NoRunFits
<1>2. CASE run # NoRun
  <2>1. run.slot \in Slots /\ run.attempt \in 1..MaxTries /\ Known(b, c, run.slot)
        /\ run.attempt <= Tried(b, c, run.slot)
    BY <1>2 DEF RunFits
  <2>2. /\ Tried(b, c, run.slot) <= Tried(n, c, run.slot) /\ Known(n, c, run.slot)
        /\ Tried(b, c, run.slot) \in 1..MaxTries /\ Tried(n, c, run.slot) \in 1..MaxTries
    BY <2>1 DEF Grows, BookFits
  <2>3. run.attempt <= Tried(n, c, run.slot)
    BY <2>1, <2>2, ReceiptsAre
  <2> QED BY <1>2, <2>1, <2>2, <2>3 DEF RunFits
<1> QED BY <1>1, <1>2

ObjectFits(b, n, c, o) ==
  /\ o \in Object /\ o.slot <= n /\ RunFits(b, c, o.run)
  /\ o.due /\ ~o.firing => o.slot # 0 \/ o.run # NoRun

Works(k) == k.at \notin {"idle", "visit"}

\* k: a tick that walks the objects v, while the Map is m.
TickFits(k, v, m, b) ==
  /\ \A c \in k.due : v[c] # 0
  /\ k.aborted => \A c \in Crons : m[c] = 0 \/ v[c] # m[c]
  /\ Works(k) => /\ k.cron \in Crons /\ k.slot \in Slots /\ k.attempt \in 1..MaxTries
                 /\ v[k.cron] # 0 /\ Known(b, k.cron, k.slot)
                 /\ k.aborted => k.attempt <= Tried(b, k.cron, k.slot)
  /\ k.at \in {"dispatch", "backoff"}
       => k.attempt <= Tried(b, k.cron, k.slot) /\ Begun(b, k.cron, k.slot)
  /\ k.at = "backoff" => k.attempt < k.last

Counted(b, n) == \A c \in Crons, s \in Slots : Known(b, c, s) => s <= n[c]

ObjectsFit == \A c \in Crons, x \in Copies : ObjectFits(book, slots[c], c, obj[c][x])

MarksAreWorked ==
  \A c \in Crons, x \in Copies :
    obj[c][x].firing => \E t \in Ticks : Works(tick[t]) /\ tick[t].cron = c /\ view[t][c] = x

TicksFit == \A t \in Ticks : TickFits(tick[t], view[t], map, book)

ScheduleInv ==
  /\ CronTypeOK /\ BookFits(book) /\ Counted(book, slots)
  /\ ObjectsFit /\ MarksAreWorked /\ TicksFit

LEMMA NumbersAre ==
  /\ MaxSlots \in Nat /\ MaxTries \in Nat /\ MaxTries >= 1 /\ MaxEdits \in Nat /\ MaxMishaps \in Nat
  /\ Slots \subseteq Nat /\ 0 \notin Slots /\ \A s : s \in Slots <=> s \in Nat /\ 1 <= s /\ s <= MaxSlots
  /\ Copies \subseteq Nat /\ 0 \notin Copies
  /\ Crons \subseteq Nat /\ 0 \notin Crons
<1>1. IsFiniteSet(Ticks) /\ Cardinality(Ticks) \in Nat
  BY CronAssumption, FS_CardinalityType
<1>2. Copies \subseteq Nat /\ 0 \notin Copies
  BY <1>1 DEF Copies
<1> QED BY <1>2, CronAssumption DEF Slots

LEMMA ObjectGrows ==
  ASSUME NEW b, BookFits(b), NEW b2, BookFits(b2), Grows(b, b2), NEW c \in Crons,
         NEW n \in Nat, NEW n2 \in Nat, n <= n2, NEW o, ObjectFits(b, n, c, o)
  PROVE  ObjectFits(b2, n2, c, o)
<1>1. RunFits(b2, c, o.run)
  BY RunGrows DEF ObjectFits
<1>2. o \in Object /\ o.slot \in Nat /\ o.slot <= n
  BY NumbersAre DEF ObjectFits, Object
<1>3. o.slot <= n2
  BY <1>2
<1> QED BY <1>1, <1>2, <1>3 DEF ObjectFits

LEMMA TickGrows ==
  ASSUME NEW b, BookFits(b), NEW b2, BookFits(b2), Grows(b, b2), NEW k \in Tick,
         NEW v, NEW m, NEW m2, \A c \in Crons : m2[c] = 0 \/ m2[c] = m[c] \/ m2[c] # v[c],
         TickFits(k, v, m, b)
  PROVE  TickFits(k, v, m2, b2)
<1>1. k.aborted => \A c \in Crons : m2[c] = 0 \/ v[c] # m2[c]
  BY DEF TickFits
<1>2. k.at \in {"dispatch", "backoff"} => Works(k)
  BY DEF Works
<1>3. ASSUME Works(k)
      PROVE  /\ k.cron \in Crons /\ k.slot \in Slots /\ k.attempt \in 1..MaxTries
             /\ v[k.cron] # 0 /\ Known(b2, k.cron, k.slot)
             /\ k.attempt <= Tried(b, k.cron, k.slot) => k.attempt <= Tried(b2, k.cron, k.slot)
             /\ Begun(b, k.cron, k.slot) => Begun(b2, k.cron, k.slot)
  <2>1. k.cron \in Crons /\ k.slot \in Slots /\ k.attempt \in 1..MaxTries
        /\ v[k.cron] # 0 /\ Known(b, k.cron, k.slot)
    BY <1>3 DEF TickFits
  <2>2. /\ Tried(b, k.cron, k.slot) <= Tried(b2, k.cron, k.slot) /\ Known(b2, k.cron, k.slot)
        /\ (Begun(b, k.cron, k.slot) => Begun(b2, k.cron, k.slot))
    BY <2>1 DEF Grows
  <2>3. Tried(b, k.cron, k.slot) \in 1..MaxTries /\ Tried(b2, k.cron, k.slot) \in 1..MaxTries
    BY <2>1, <2>2 DEF BookFits
  <2>4. k.attempt <= Tried(b, k.cron, k.slot) => k.attempt <= Tried(b2, k.cron, k.slot)
    BY <2>1, <2>2, <2>3, NumbersAre
  <2> QED BY <2>1, <2>2, <2>4
<1> QED BY <1>1, <1>2, <1>3 DEF TickFits

LEMMA GrowsRefl ==
  ASSUME NEW b, BookFits(b) PROVE Grows(b, b)
<1>1. \A c \in Crons, s \in Slots : Tried(b, c, s) \in 0..MaxTries
  BY ReceiptsAre DEF BookFits, Tried
<1> QED BY <1>1, ReceiptsAre DEF Grows

\* A cron's next slot.
LEMMA NextSlotIs ==
  ASSUME NEW c \in Crons, slots[c] \in 0..MaxSlots,
         NEW n, n = IF slots[c] < MaxSlots THEN slots[c] + 1 ELSE slots[c]
  PROVE  /\ NextSlot(c) \in Slots \cup {0} /\ n \in 0..MaxSlots /\ slots[c] <= n /\ NextSlot(c) <= n
         /\ NextSlot(c) # 0 => NextSlot(c) \in Slots /\ NextSlot(c) > slots[c]
<1>1. CASE slots[c] < MaxSlots
  <2>1. NextSlot(c) = slots[c] + 1 /\ n = slots[c] + 1
    BY <1>1 DEF NextSlot
  <2> QED BY <1>1, <2>1, NumbersAre
<1>2. CASE ~(slots[c] < MaxSlots)
  <2>1. NextSlot(c) = 0 /\ n = slots[c]
    BY <1>2 DEF NextSlot
  <2> QED BY <1>2, <2>1, NumbersAre
<1> QED BY <1>1, <1>2

LEMMA NoObjectIs ==
  /\ NoObject \in Object /\ ~NoObject.firing /\ ~NoObject.due /\ NoObject.slot = 0 /\ NoObject.run = NoRun
  /\ \A b, c : \A n \in Nat : ObjectFits(b, n, c, NoObject)
<1>1. NoObject \in Object
  BY NumbersAre DEF NoObject, NoRun, Object
<1>2. ~NoObject.firing /\ ~NoObject.due /\ NoObject.slot = 0 /\ NoObject.run = NoRun
  BY DEF NoObject
<1> QED BY <1>1, <1>2, NoRunFits DEF ObjectFits

LEMMA NoTickIs ==
  /\ NoTick \in Tick /\ ~Works(NoTick) /\ NoTick.at = "idle" /\ NoTick.due = {} /\ ~NoTick.aborted
  /\ \A v, m, b : TickFits(NoTick, v, m, b)
<1>1. NoTick \in Tick
  BY NumbersAre DEF NoTick, Tick
<1>2. NoTick.at = "idle" /\ NoTick.due = {} /\ ~NoTick.aborted
  BY DEF NoTick
<1> QED BY <1>1, <1>2 DEF TickFits, Works

LEMMA ScheduleInvInit == CronInit => ScheduleInv
<1> SUFFICES ASSUME CronInit PROVE ScheduleInv
  OBVIOUS
<1>1. \A c \in Crons, x \in Copies : obj[c][x] = NoObject
  BY DEF CronInit
<1>2. \A c \in Crons, s \in Slots : book.latest[<<c, s>>] = R!Nothing
  BY ReceiptsAre DEF CronInit
<1>3. R!Nothing.state = "none" /\ R!Nothing.attempt = 0 /\ R!Nothing \in R!Newest
  <2>1. R!Nothing = [state |-> "none", attempt |-> 0]
    BY DEF R!Nothing
  <2> QED BY <2>1, ReceiptsAre
<1>4. BookFits(book)
  <2>1. book.latest \in [CronRuns -> R!Newest] /\ book.accepted = {}
    BY <1>3 DEF CronInit
  <2>2. \A c \in Crons, s \in Slots :
          ~Known(book, c, s) /\ ~Begun(book, c, s) /\ Tried(book, c, s) = 0
    BY <1>2, <1>3 DEF Known, Begun, Tried
  <2> QED BY <2>1, <2>2 DEF BookFits
<1>5. Counted(book, slots)
  BY <1>2, <1>3 DEF Counted, Known
<1>6. \A t \in Ticks : tick[t] = NoTick
  BY DEF CronInit
<1>7. CronTypeOK
  <2>1. file \in [Crons -> 0..(MaxEdits + 1)]
    BY NumbersAre DEF CronInit
  <2>2. obj \in [Crons -> [Copies -> Object]]
    BY NoObjectIs DEF CronInit
  <2>3. /\ fired \in [Crons -> Slots \cup {0}] /\ map \in [Crons -> Copies \cup {0}]
        /\ slots \in [Crons -> 0..MaxSlots] /\ view \in [Ticks -> [Crons -> Copies \cup {0}]]
    BY NumbersAre DEF CronInit, Off
  <2>4. tick \in [Ticks -> Tick]
    BY NoTickIs DEF CronInit
  <2>5. bounds \in [edits : 0..MaxEdits, mishaps : 0..MaxMishaps]
    BY NumbersAre DEF CronInit
  <2> QED BY <1>4, <2>1, <2>2, <2>3, <2>4, <2>5 DEF CronInit, CronTypeOK, BookFits
<1>8. ObjectsFit
  <2>1. \A c \in Crons : slots[c] \in Nat
    BY <1>7, NumbersAre DEF CronTypeOK
  <2> QED BY <1>1, <2>1, NoObjectIs DEF ObjectsFit
<1>9. MarksAreWorked /\ TicksFit
  BY <1>1, <1>6, NoObjectIs, NoTickIs DEF MarksAreWorked, TicksFit
<1> QED BY <1>4, <1>5, <1>7, <1>8, <1>9 DEF ScheduleInv

\* The types, clause by clause.
LEMMA TypesAre ==
  ASSUME ScheduleInv
  PROVE  /\ file \in [Crons -> 0..(MaxEdits + 1)] /\ fired \in [Crons -> Slots \cup {0}]
         /\ changed \in BOOLEAN /\ up \in BOOLEAN /\ stray \in BOOLEAN
         /\ map \in [Crons -> Copies \cup {0}] /\ obj \in [Crons -> [Copies -> Object]]
         /\ slots \in [Crons -> 0..MaxSlots]
         /\ tick \in [Ticks -> Tick] /\ view \in [Ticks -> [Crons -> Copies \cup {0}]]
         /\ delivered \subseteq Crons \X Slots \X (1..MaxTries)
         /\ bounds \in [edits : 0..MaxEdits, mishaps : 0..MaxMishaps]
         /\ \A c \in Crons : slots[c] \in Nat
BY NumbersAre DEF ScheduleInv, CronTypeOK

LEMMA MishapIs ==
  ASSUME ScheduleInv, UNCHANGED bounds \/ Mishap
  PROVE  bounds' \in [edits : 0..MaxEdits, mishaps : 0..MaxMishaps]
<1>1. CASE UNCHANGED bounds
  BY <1>1, TypesAre
<1>2. CASE Mishap
  <2>1. bounds \in [edits : 0..MaxEdits, mishaps : 0..MaxMishaps] /\ bounds.mishaps < MaxMishaps
        /\ bounds' = [bounds EXCEPT !.mishaps = bounds.mishaps + 1]
    BY <1>2, TypesAre DEF Mishap
  <2>2. bounds.mishaps + 1 \in 0..MaxMishaps
    BY <2>1, NumbersAre
  <2> QED BY <2>1, <2>2
<1> QED BY <1>1, <1>2

\* A mark was there before or is that of tick t, which has come to k.
Marks(t, k) ==
  \A c \in Crons, x \in Copies :
    obj'[c][x].firing => obj[c][x].firing \/ (Works(k) /\ k.cron = c /\ view[t][c] = x)

\* A step of one tick that leaves Map and slots alone.
LEMMA TickMoves ==
  ASSUME ScheduleInv, NEW t \in Ticks, NEW k \in Tick, tick' = [tick EXCEPT ![t] = k],
         UNCHANGED <<file, fired, up, map, slots, view, delivered>>,
         changed' \in BOOLEAN, stray' \in BOOLEAN, UNCHANGED bounds \/ Mishap,
         BookFits(book'), Grows(book, book'), Counted(book', slots),
         obj' \in [Crons -> [Copies -> Object]], ObjectsFit', Marks(t, k),
         Works(tick[t]) => Works(k) /\ k.cron = tick[t].cron,
         TickFits(k, view[t], map, book')
  PROVE  ScheduleInv'
<1>1. tick' \in [Ticks -> Tick] /\ tick'[t] = k /\ \A u \in Ticks : u # t => tick'[u] = tick[u]
  BY TypesAre
<1>2. CronTypeOK'
  <2>1. bounds' \in [edits : 0..MaxEdits, mishaps : 0..MaxMishaps]
    BY MishapIs
  <2> QED BY <1>1, <2>1, TypesAre DEF CronTypeOK, BookFits
<1>3. BookFits(book)' /\ Counted(book, slots)'
  OBVIOUS
<1>4. MarksAreWorked'
  <2> SUFFICES ASSUME NEW c \in Crons, NEW x \in Copies, obj'[c][x].firing
               PROVE  \E u \in Ticks : Works(tick'[u]) /\ tick'[u].cron = c /\ view[u][c] = x
    BY DEF MarksAreWorked
  <2>1. CASE obj[c][x].firing
    <3>1. PICK u \in Ticks : Works(tick[u]) /\ tick[u].cron = c /\ view[u][c] = x
      BY <2>1 DEF ScheduleInv, MarksAreWorked
    <3> QED BY <1>1, <3>1
  <2>2. CASE Works(k) /\ k.cron = c /\ view[t][c] = x
    BY <1>1, <2>2
  <2> QED BY <2>1, <2>2 DEF Marks
<1>5. TicksFit'
  <2> SUFFICES ASSUME NEW u \in Ticks PROVE TickFits(tick'[u], view[u], map, book')
    BY DEF TicksFit
  <2>1. CASE u = t
    BY <1>1, <2>1
  <2>2. CASE u # t
    <3>1. TickFits(tick[u], view[u], map, book) /\ tick[u] \in Tick /\ BookFits(book)
      BY TypesAre DEF ScheduleInv, TicksFit
    <3>2. TickFits(tick[u], view[u], map, book')
      BY <3>1, TickGrows
    <3> QED BY <1>1, <2>2, <3>2
  <2> QED BY <2>1, <2>2
<1> QED BY <1>2, <1>3, <1>4, <1>5 DEF ScheduleInv

\* ... and the objects and the receipts too.
LEMMA TickTurns ==
  ASSUME ScheduleInv, NEW t \in Ticks, NEW k \in Tick, tick' = [tick EXCEPT ![t] = k],
         UNCHANGED <<file, fired, changed, up, map, obj, slots, view, book, delivered, stray>>,
         UNCHANGED bounds \/ Mishap,
         Works(tick[t]) => Works(k) /\ k.cron = tick[t].cron,
         TickFits(k, view[t], map, book)
  PROVE  ScheduleInv'
<1>1. Grows(book, book) /\ BookFits(book) /\ Counted(book, slots)
  BY GrowsRefl DEF ScheduleInv
<1>2. ObjectsFit' /\ Marks(t, k)
  BY DEF ScheduleInv, ObjectsFit, Marks
<1> QED BY <1>1, <1>2, TypesAre, TickMoves

\* The tick's place in its loop.
LEMMA PlaceIs ==
  ASSUME ScheduleInv, NEW t \in Ticks
  PROVE  /\ tick[t] \in Tick /\ TickFits(tick[t], view[t], map, book)
         /\ view[t] \in [Crons -> Copies \cup {0}] /\ map \in [Crons -> Copies \cup {0}]
         /\ Works(tick[t]) => /\ tick[t].cron \in Crons /\ tick[t].slot \in Slots
                              /\ tick[t].attempt \in 1..MaxTries /\ view[t][tick[t].cron] \in Copies
BY TypesAre DEF ScheduleInv, TicksFit, TickFits

LEMMA NotScheduledKeeps ==
  ASSUME ScheduleInv, NEW t \in Ticks, NotScheduled(t)
  PROVE  ScheduleInv'
<1>1. PICK due : due = {c \in tick[t].due : c > Least(Ready(t))}
  OBVIOUS
<1>2. PICK k : k = [tick[t] EXCEPT !.due = due]
  OBVIOUS
<1>3. tick[t] \in Tick /\ due \subseteq tick[t].due /\ tick[t].at = "visit"
  BY <1>1, PlaceIs DEF NotScheduled
<1>4. k \in Tick /\ k.at = "visit" /\ k.due = due /\ k.aborted = tick[t].aborted
  BY <1>2, <1>3 DEF Tick
<1>5. TickFits(k, view[t], map, book) /\ ~Works(tick[t])
  BY <1>3, <1>4, PlaceIs DEF TickFits, Works
<1>6. tick' = [tick EXCEPT ![t] = k]
  BY <1>1, <1>2, TypesAre DEF NotScheduled
<1> QED BY <1>4, <1>5, <1>6, TickTurns DEF NotScheduled

\* The tick goes on to another stage with what it is at.
LEMMA StageKeeps ==
  ASSUME ScheduleInv, NEW t \in Ticks, Works(tick[t]), NEW stage \in {"intent", "backoff", "giveUp"},
         TickGoes(t, stage), UNCHANGED bounds \/ Mishap,
         stage = "backoff" => tick[t].at = "dispatch" /\ tick[t].attempt < tick[t].last,
         UNCHANGED <<file, fired, changed, up, map, obj, slots, view, book, delivered, stray>>
  PROVE  ScheduleInv'
<1>1. PICK k : k = [tick[t] EXCEPT !.at = stage]
  OBVIOUS
<1>2. /\ tick[t] \in Tick /\ k \in Tick /\ k.at = stage /\ k.due = tick[t].due /\ k.cron = tick[t].cron
      /\ k.slot = tick[t].slot /\ k.attempt = tick[t].attempt /\ k.last = tick[t].last
      /\ k.aborted = tick[t].aborted
  BY <1>1, PlaceIs DEF Tick
<1>3. Works(k)
  BY <1>2 DEF Works
<1>4. TickFits(k, view[t], map, book)
  <2>1. TickFits(tick[t], view[t], map, book)
    BY PlaceIs
  <2> QED BY <1>2, <1>3, <2>1 DEF TickFits
<1>5. tick' = [tick EXCEPT ![t] = k]
  BY <1>1, TypesAre DEF TickGoes
<1> QED BY <1>2, <1>3, <1>4, <1>5, TickTurns

LEMMA IntendsNotKeeps ==
  ASSUME ScheduleInv, NEW t \in Ticks, IntendsNot(t)
  PROVE  ScheduleInv'
<1>1. Works(tick[t]) /\ TickGoes(t, "giveUp") /\ (UNCHANGED bounds \/ Mishap)
  BY DEF IntendsNot, Works
<1> QED BY <1>1, StageKeeps DEF IntendsNot

LEMMA DispatchFailsKeeps ==
  ASSUME ScheduleInv, NEW t \in Ticks, DispatchFails(t)
  PROVE  ScheduleInv'
<1>1. PICK stage : stage = IF tick[t].attempt < tick[t].last THEN "backoff" ELSE "giveUp"
  OBVIOUS
<1>2. Works(tick[t]) /\ TickGoes(t, stage) /\ (UNCHANGED bounds \/ Mishap) /\ tick[t].at = "dispatch"
  BY <1>1 DEF DispatchFails, Works
<1>3. stage \in {"intent", "backoff", "giveUp"} /\ (stage = "backoff" => tick[t].attempt < tick[t].last)
  BY <1>1
<1> QED BY <1>2, <1>3, StageKeeps DEF DispatchFails

LEMMA WakesKeeps ==
  ASSUME ScheduleInv, NEW t \in Ticks, Wakes(t)
  PROVE  ScheduleInv'
<1>1. Works(tick[t]) /\ tick[t].at = "backoff" /\ UNCHANGED bounds
      /\ UNCHANGED <<file, fired, changed, up, map, obj, slots, view, book, delivered, stray>>
  BY DEF Wakes, Works
<1>2. CASE tick[t].aborted
  <2>1. TickGoes(t, "giveUp")
    BY <1>2 DEF Wakes, TickGoes
  <2> QED BY <1>1, <2>1, StageKeeps
<1>3. CASE ~tick[t].aborted
  <2>0. PICK next : next = tick[t].attempt + 1
    OBVIOUS
  <2>1. PICK k : k = [tick[t] EXCEPT !.at = "intent", !.attempt = next]
    OBVIOUS
  <2>2. tick[t] \in Tick /\ TickFits(tick[t], view[t], map, book)
    BY PlaceIs
  <2>3. tick[t].attempt \in 1..MaxTries /\ tick[t].last \in 0..MaxTries /\ tick[t].attempt < tick[t].last
    BY <1>1, <2>2 DEF TickFits, Tick
  <2>4. next \in 1..MaxTries /\ next \in 0..MaxTries
    BY <2>0, <2>3, NumbersAre
  <2>5. /\ k \in Tick /\ k.at = "intent" /\ k.due = tick[t].due /\ k.cron = tick[t].cron
        /\ k.slot = tick[t].slot /\ k.attempt = next /\ k.aborted = tick[t].aborted
    BY <2>1, <2>2, <2>4 DEF Tick
  <2>6. Works(k) /\ TickFits(k, view[t], map, book)
    BY <1>1, <1>3, <2>2, <2>4, <2>5 DEF TickFits, Works
  <2>7. tick' = [tick EXCEPT ![t] = k]
    BY <1>3, <2>0, <2>1, TypesAre DEF Wakes
  <2> QED BY <1>1, <2>5, <2>6, <2>7, TickTurns
<1> QED BY <1>2, <1>3

\* A receipt granted for a run whose slot was computed.
LEMMA ReceiptKeeps ==
  ASSUME ScheduleInv, NEW c \in Crons, NEW s \in Slots, NEW state \in R!States, NEW a \in 1..MaxTries,
         state = "scheduled" => a = 1 /\ s <= slots[c],
         Grants(book, Row(c, s, state, a)),
         NEW n, n = With(book, Row(c, s, state, a))
  PROVE  /\ BookFits(n) /\ Grows(book, n) /\ Counted(n, slots)
         /\ \A d \in Crons, x \in Copies : ObjectFits(n, slots[d], d, obj[d][x])
<1>1. BookFits(book) /\ Counted(book, slots)
  BY DEF ScheduleInv
<1>2. /\ BookFits(n) /\ Grows(book, n)
      /\ \A d \in Crons, x \in Slots : <<d, x>> # <<c, s>> => n.latest[<<d, x>>] = book.latest[<<d, x>>]
      /\ (state # "scheduled" => Known(book, c, s))
  BY <1>1, WithIs
<1>3. Counted(n, slots)
  <2> SUFFICES ASSUME NEW d \in Crons, NEW x \in Slots, Known(n, d, x) PROVE x <= slots[d]
    BY DEF Counted
  <2>1. CASE <<d, x>> = <<c, s>>
    <3>1. d = c /\ x = s
      BY <2>1
    <3> QED BY <1>1, <1>2, <3>1 DEF Counted
  <2>2. CASE <<d, x>> # <<c, s>>
    <3>1. Known(book, d, x)
      BY <1>2, <2>2 DEF Known
    <3> QED BY <1>1, <3>1 DEF Counted
  <2> QED BY <2>1, <2>2
<1>4. ASSUME NEW d \in Crons, NEW x \in Copies PROVE ObjectFits(n, slots[d], d, obj[d][x])
  <2>1. ObjectFits(book, slots[d], d, obj[d][x]) /\ slots[d] \in Nat /\ slots[d] <= slots[d]
    BY TypesAre DEF ScheduleInv, ObjectsFit
  <2> QED BY <1>1, <1>2, <2>1, ObjectGrows
<1> QED BY <1>2, <1>3, <1>4

LEMMA IntendsKeeps ==
  ASSUME ScheduleInv, NEW t \in Ticks, Intends(t)
  PROVE  ScheduleInv'
<1>1. PICK k : k = [tick[t] EXCEPT !.at = "dispatch"]
  OBVIOUS
<1>2. /\ tick[t] \in Tick /\ TickFits(tick[t], view[t], map, book) /\ Works(tick[t])
      /\ tick[t].cron \in Crons /\ tick[t].slot \in Slots /\ tick[t].attempt \in 1..MaxTries
  BY PlaceIs DEF Intends, Works
<1>3. /\ k \in Tick /\ k.at = "dispatch" /\ k.due = tick[t].due /\ k.cron = tick[t].cron
      /\ k.slot = tick[t].slot /\ k.attempt = tick[t].attempt /\ k.aborted = tick[t].aborted
  BY <1>1, <1>2 DEF Tick
<1>4. /\ Grants(book, Row(k.cron, k.slot, "started", k.attempt))
      /\ book' = With(book, Row(k.cron, k.slot, "started", k.attempt))
  BY <1>3 DEF Intends, Started
<1>5. "started" \in R!States /\ BookFits(book)
  BY ReceiptsAre DEF ScheduleInv
<1>6. /\ BookFits(book') /\ Grows(book, book') /\ Counted(book', slots)
      /\ \A d \in Crons, x \in Copies : ObjectFits(book', slots[d], d, obj[d][x])
  BY <1>2, <1>3, <1>4, <1>5, ReceiptKeeps
<1>7. /\ Known(book', k.cron, k.slot) /\ Begun(book', k.cron, k.slot)
      /\ Tried(book', k.cron, k.slot) = IF k.attempt >= Tried(book, k.cron, k.slot) THEN k.attempt
                                        ELSE Tried(book, k.cron, k.slot)
  BY <1>2, <1>3, <1>4, <1>5, WithIs
<1>8. k.attempt <= Tried(book', k.cron, k.slot)
  <2>1. Tried(book, k.cron, k.slot) \in 0..MaxTries
    BY <1>2, <1>3, <1>5, ReceiptsAre DEF BookFits, Tried
  <2> QED BY <1>2, <1>3, <1>7, <2>1, NumbersAre
<1>9. Works(k) /\ TickFits(k, view[t], map, book')
  BY <1>2, <1>3, <1>7, <1>8 DEF TickFits, Works
<1>10. tick' = [tick EXCEPT ![t] = k]
  BY <1>1, TypesAre DEF Intends, TickGoes
<1>11. UNCHANGED <<file, fired, changed, up, map, obj, slots, view, delivered, stray, bounds>>
  BY DEF Intends
<1>12. ObjectsFit' /\ Marks(t, k)
  BY <1>6, <1>11 DEF ObjectsFit, Marks
<1> QED BY <1>3, <1>6, <1>9, <1>10, <1>11, <1>12, TypesAre, TickMoves

\* What fits has its fields in range, and a run that fits.
LEMMA FitIs ==
  ASSUME NEW b, NEW n, NEW c, NEW o, ObjectFits(b, n, c, o)
  PROVE  /\ o \in Object /\ o.slot <= n /\ RunFits(b, c, o.run)
         /\ o.due /\ ~o.firing => o.slot # 0 \/ o.run # NoRun
         /\ o.slot \in Slots \cup {0} /\ o.run.attempt \in 0..MaxTries
         /\ o.run # NoRun => /\ o.run.slot \in Slots /\ Known(b, c, o.run.slot)
                             /\ o.run.attempt \in 1..MaxTries
                             /\ o.run.attempt <= Tried(b, c, o.run.slot)
<1>1. /\ o \in Object /\ o.slot <= n /\ RunFits(b, c, o.run)
      /\ o.due /\ ~o.firing => o.slot # 0 \/ o.run # NoRun
  BY DEF ObjectFits
<1>2. o.slot \in Slots \cup {0}
  BY <1>1 DEF Object
<1>3. o.run.attempt \in 0..MaxTries
  BY <1>1 DEF RunFits
<1>4. ASSUME o.run # NoRun
      PROVE  /\ o.run.slot \in Slots /\ Known(b, c, o.run.slot)
             /\ o.run.attempt \in 1..MaxTries
             /\ o.run.attempt <= Tried(b, c, o.run.slot)
  BY <1>1, <1>4 DEF RunFits
<1> QED BY <1>1, <1>2, <1>3, <1>4

\* The cron the loop comes to, its object and its run.
LEMMA ReadyIs ==
  ASSUME ScheduleInv, NEW t \in Ticks, Ready(t) # {}, NEW c, c = Least(Ready(t)),
         NEW o, o = Walked(t, c),
         NEW s, s = IF o.run = NoRun THEN o.slot ELSE o.run.slot
  PROVE  /\ c \in Crons /\ c \in tick[t].due /\ view[t][c] \in Copies /\ o = obj[c][view[t][c]]
         /\ o \in Object /\ ObjectFits(book, slots[c], c, o) /\ ~o.firing
         /\ s \in Slots /\ s <= slots[c]
<1>1. /\ tick[t] \in Tick /\ TickFits(tick[t], view[t], map, book)
      /\ view[t] \in [Crons -> Copies \cup {0}]
  BY PlaceIs
<1>2. Ready(t) \subseteq Nat /\ Ready(t) \subseteq tick[t].due /\ tick[t].due \subseteq Crons
  BY <1>1, NumbersAre DEF Ready, Tick
<1>3. c \in Ready(t)
  BY <1>2, LeastIs
<1>4. c \in Crons /\ c \in tick[t].due /\ o.due /\ ~o.firing
  BY <1>2, <1>3 DEF Ready
<1>5. view[t][c] \in Copies /\ o = obj[c][view[t][c]]
  BY <1>1, <1>4 DEF TickFits, Walked
<1>6. ObjectFits(book, slots[c], c, o)
  BY <1>4, <1>5 DEF ScheduleInv, ObjectsFit
<1>7. CASE o.run = NoRun
  <2>1. o.slot # 0 /\ o.slot \in Slots \cup {0} /\ o.slot <= slots[c] /\ o \in Object
    BY <1>4, <1>6, <1>7, FitIs
  <2>2. s \in Slots /\ s <= slots[c]
    BY <1>7, <2>1
  <2> QED BY <1>4, <1>5, <1>6, <2>1, <2>2
<1>8. CASE o.run # NoRun
  <2>1. o.run.slot \in Slots /\ Known(book, c, o.run.slot) /\ o \in Object
    BY <1>6, <1>8, FitIs
  <2>2. o.run.slot <= slots[c]
    BY <1>4, <2>1 DEF ScheduleInv, Counted
  <2>3. s \in Slots /\ s <= slots[c]
    BY <1>8, <2>1, <2>2
  <2> QED BY <1>4, <1>5, <1>6, <2>1, <2>3
<1> QED BY <1>7, <1>8

\* What the tick that takes up a cron is at, and what becomes of the object.
LEMMA TakenUpIs ==
  ASSUME ScheduleInv, NEW t \in Ticks, Schedules(t), NEW c, c = Least(Ready(t)),
         NEW o, o = Walked(t, c),
         NEW s, s = IF o.run = NoRun THEN o.slot ELSE o.run.slot
  PROVE  /\ c \in Crons /\ s \in Slots
         /\ \E k \in Tick :
              /\ tick' = [tick EXCEPT ![t] = k] /\ k.at = "intent" /\ k.due \subseteq tick[t].due
              /\ k.cron = c /\ k.slot = s /\ k.aborted = tick[t].aborted
              /\ k.attempt = IF o.run.state = "started" THEN o.run.attempt ELSE 1
              /\ k.last = IF o.run.state = "started" THEN o.run.attempt ELSE MaxTries
         /\ \E p \in Object :
              /\ obj' = [obj EXCEPT ![c][view[t][c]] = p]
              /\ p.firing /\ p.slot = o.slot /\ p.run = NoRun
         /\ Grants(book, Row(c, s, "scheduled", 1)) /\ book' = With(book, Row(c, s, "scheduled", 1))
         /\ tick[t].at = "visit"
         /\ stray' = (stray \/ (~tick[t].aborted /\ map[c] # view[t][c]))
         /\ changed' \in BOOLEAN
         /\ UNCHANGED <<file, fired, up, map, slots, view, delivered, bounds>>
<1>1. tick[t].at = "visit" /\ Ready(t) # {}
  BY DEF Schedules
<1>2. /\ c \in Crons /\ c \in tick[t].due /\ s \in Slots /\ o \in Object /\ ObjectFits(book, slots[c], c, o)
  BY <1>1, ReadyIs
<1>3. PICK due : due = {d \in tick[t].due : d > c}
  OBVIOUS
<1>4. PICK resumes : resumes = (o.run.state = "started")
  OBVIOUS
<1>5. PICK attempt : attempt = IF resumes THEN o.run.attempt ELSE 1
  OBVIOUS
<1>6. PICK last : last = IF resumes THEN o.run.attempt ELSE MaxTries
  OBVIOUS
<1>7. PICK resumed : resumed = (o.run # NoRun)
  OBVIOUS
<1>8. o.run.attempt \in 0..MaxTries /\ attempt \in 0..MaxTries /\ last \in 0..MaxTries
  <2>1. o.run.attempt \in 0..MaxTries
    BY <1>2, FitIs
  <2>2. 1 \in 0..MaxTries /\ MaxTries \in 0..MaxTries
    BY NumbersAre
  <2> QED BY <1>5, <1>6, <2>1, <2>2
<1>9. PICK k : k = [tick[t] EXCEPT !.at = "intent", !.due = due, !.cron = c, !.slot = s,
                      !.resumed = resumed, !.attempt = attempt, !.last = last]
  OBVIOUS
<1>10. tick[t] \in Tick /\ due \subseteq tick[t].due /\ resumed \in BOOLEAN
  BY <1>3, <1>7, PlaceIs
<1>11. /\ k \in Tick /\ k.at = "intent" /\ k.due = due /\ k.cron = c /\ k.slot = s
       /\ k.aborted = tick[t].aborted /\ k.attempt = attempt /\ k.last = last
  BY <1>2, <1>8, <1>9, <1>10 DEF Tick
<1>12. tick' = [tick EXCEPT ![t] = k]
  <2>1. tick' = [tick EXCEPT ![t] =
                   [tick[t] EXCEPT !.at = "intent", !.due = due, !.cron = c, !.slot = s,
                      !.resumed = resumed, !.attempt = attempt, !.last = last]]
    BY <1>3, <1>4, <1>5, <1>6, <1>7 DEF Schedules
  <2> QED BY <1>9, <2>1
<1>13. PICK p : p = [o EXCEPT !.firing = TRUE, !.run = NoRun]
  OBVIOUS
<1>14. p \in Object /\ p.firing /\ p.slot = o.slot /\ p.run = NoRun
  <2>1. NoRun \in [slot : Slots \cup {0}, state : {"none", "scheduled", "started"}, attempt : 0..MaxTries]
    BY NoRunFits DEF RunFits
  <2> HIDE DEF NoRun
  <2> QED BY <1>2, <1>13, <2>1 DEF Object
<1>15. obj' = [obj EXCEPT ![c][view[t][c]] = p]
  BY <1>13 DEF Schedules
<1>16. /\ Grants(book, Row(c, s, "scheduled", 1)) /\ book' = With(book, Row(c, s, "scheduled", 1))
       /\ stray' = (stray \/ (~tick[t].aborted /\ map[c] # view[t][c]))
       /\ changed' \in {changed, changed \/ file[c] # 0}
       /\ UNCHANGED <<file, fired, up, map, slots, view, delivered, bounds>>
  BY DEF Schedules
<1>17. changed' \in BOOLEAN
  BY <1>16, TypesAre
<1>18. /\ k.attempt = IF o.run.state = "started" THEN o.run.attempt ELSE 1
       /\ k.last = IF o.run.state = "started" THEN o.run.attempt ELSE MaxTries
  BY <1>4, <1>5, <1>6, <1>11
<1> QED BY <1>1, <1>2, <1>10, <1>11, <1>12, <1>14, <1>15, <1>16, <1>17, <1>18

LEMMA SchedulesKeeps ==
  ASSUME ScheduleInv, NEW t \in Ticks, Schedules(t)
  PROVE  ScheduleInv'
<1>1. PICK c : c = Least(Ready(t))
  OBVIOUS
<1>2. PICK o : o = Walked(t, c)
  OBVIOUS
<1>3. PICK s : s = IF o.run = NoRun THEN o.slot ELSE o.run.slot
  OBVIOUS
<1>4. PICK v : v = view[t][c]
  OBVIOUS
<1>5. /\ c \in Crons /\ c \in tick[t].due /\ v \in Copies /\ o = obj[c][v]
      /\ o \in Object /\ ObjectFits(book, slots[c], c, o) /\ s \in Slots /\ s <= slots[c]
  BY <1>1, <1>2, <1>3, <1>4, ReadyIs DEF Schedules
<1>6. /\ tick[t].at = "visit" /\ changed' \in BOOLEAN /\ stray' \in BOOLEAN
      /\ Grants(book, Row(c, s, "scheduled", 1)) /\ book' = With(book, Row(c, s, "scheduled", 1))
      /\ UNCHANGED <<file, fired, up, map, slots, view, delivered, bounds>>
  <2>1. /\ tick[t].at = "visit" /\ changed' \in BOOLEAN
        /\ stray' = (stray \/ (~tick[t].aborted /\ map[c] # view[t][c]))
        /\ Grants(book, Row(c, s, "scheduled", 1)) /\ book' = With(book, Row(c, s, "scheduled", 1))
        /\ UNCHANGED <<file, fired, up, map, slots, view, delivered, bounds>>
    BY <1>1, <1>2, <1>3, TakenUpIs
  <2>2. stray' \in BOOLEAN
    BY <2>1, TypesAre
  <2> QED BY <2>1, <2>2
<1>7. PICK k \in Tick :
        /\ tick' = [tick EXCEPT ![t] = k] /\ k.at = "intent" /\ k.due \subseteq tick[t].due
        /\ k.cron = c /\ k.slot = s /\ k.aborted = tick[t].aborted
        /\ k.attempt = IF o.run.state = "started" THEN o.run.attempt ELSE 1
  BY <1>1, <1>2, <1>3, TakenUpIs
<1>8. PICK p \in Object : /\ obj' = [obj EXCEPT ![c][v] = p]
                          /\ p.firing /\ p.slot = o.slot /\ p.run = NoRun
  BY <1>1, <1>2, <1>3, <1>4, TakenUpIs
<1>9. "scheduled" \in R!States /\ 1 \in 1..MaxTries /\ BookFits(book)
  BY ReceiptsAre DEF ScheduleInv
<1>10. /\ BookFits(book') /\ Grows(book, book') /\ Counted(book', slots)
       /\ \A d \in Crons, x \in Copies : ObjectFits(book', slots[d], d, obj[d][x])
  BY <1>5, <1>6, <1>9, ReceiptKeeps
<1>11. /\ Known(book', c, s)
       /\ Tried(book', c, s) = IF 1 >= Tried(book, c, s) THEN 1 ELSE Tried(book, c, s)
  BY <1>5, <1>6, <1>9, WithIs
<1>12. k.attempt \in 1..MaxTries /\ k.attempt <= Tried(book', c, s)
  <2>1. Tried(book, c, s) \in 0..MaxTries /\ Tried(book', c, s) \in 0..MaxTries
    BY <1>5, <1>9, <1>10, ReceiptsAre DEF BookFits, Tried
  <2>2. CASE o.run.state = "started"
    <3>1. o.run # NoRun
      BY <2>2, NoRunFits
    <3>2. s = o.run.slot /\ o.run.attempt \in 1..MaxTries /\ o.run.attempt <= Tried(book, c, s)
      BY <1>3, <1>5, <3>1, FitIs
    <3> QED BY <1>7, <1>11, <2>1, <2>2, <3>2, NumbersAre
  <2>3. CASE o.run.state # "started"
    BY <1>7, <1>9, <1>11, <2>1, <2>3, NumbersAre
  <2> QED BY <2>2, <2>3
<1>13. TickFits(k, view[t], map, book') /\ Works(k) /\ ~Works(tick[t])
  <2>1. TickFits(tick[t], view[t], map, book) /\ v # 0
    BY <1>5, PlaceIs, NumbersAre
  <2>2. /\ k.at = "intent" /\ k.due \subseteq tick[t].due /\ k.cron = c /\ k.slot = s
        /\ k.aborted = tick[t].aborted /\ k.attempt \in 1..MaxTries /\ k.attempt <= Tried(book', c, s)
        /\ c \in Crons /\ s \in Slots /\ v = view[t][c] /\ Known(book', c, s) /\ tick[t].at = "visit"
    BY <1>4, <1>5, <1>6, <1>7, <1>11, <1>12
  <2> HIDE <1>4, <1>5, <1>6, <1>7, <1>11, <1>12
  <2> QED BY <2>1, <2>2 DEF TickFits, Works
<1>14. /\ obj' \in [Crons -> [Copies -> Object]] /\ obj'[c][v] = p
       /\ \A d \in Crons, x \in Copies : d # c \/ x # v => obj'[d][x] = obj[d][x]
  BY <1>5, <1>8, TypesAre
<1>15. ASSUME NEW d \in Crons, NEW x \in Copies PROVE ObjectFits(book', slots[d], d, obj'[d][x])
  <2>1. CASE d = c /\ x = v
    <3>1. ObjectFits(book', slots[c], c, p)
      BY <1>5, <1>8, NoRunFits DEF ObjectFits
    <3> QED BY <1>14, <2>1, <3>1
  <2>2. CASE d # c \/ x # v
    BY <1>10, <1>14, <2>2
  <2> QED BY <2>1, <2>2
<1>16. \A d \in Crons, x \in Copies :
         obj'[d][x].firing => obj[d][x].firing \/ (Works(k) /\ k.cron = d /\ view[t][d] = x)
  BY <1>4, <1>7, <1>13, <1>14
<1>17. k \in Tick /\ tick' = [tick EXCEPT ![t] = k]
  BY <1>7
<1>18. UNCHANGED <<file, fired, up, map, slots, view, delivered>>
  BY <1>6
<1>19. changed' \in BOOLEAN /\ stray' \in BOOLEAN /\ (UNCHANGED bounds \/ Mishap)
  BY <1>6
<1>20. BookFits(book') /\ Grows(book, book') /\ Counted(book', slots)
  BY <1>10
<1>21. obj' \in [Crons -> [Copies -> Object]]
  BY <1>14
<1>22. Works(tick[t]) => Works(k) /\ k.cron = tick[t].cron
  BY <1>13
<1>23. TickFits(k, view[t], map, book')
  BY <1>13
<1>24. ObjectsFit' /\ Marks(t, k)
  BY <1>15, <1>16, <1>18 DEF ObjectsFit, Marks
<1> QED BY <1>17, <1>18, <1>19, <1>20, <1>21, <1>22, <1>23, <1>24, TickMoves

LEMMA ReachableIs ==
  ASSUME NEW o \in [Crons -> [Copies -> Object]], NEW m, NEW v, NEW n, n = Reachable(o, m, v)
  PROVE  /\ n \in [Crons -> [Copies -> Object]]
         /\ \A c \in Crons, x \in Copies :
              /\ n[c][x] = o[c][x] \/ n[c][x] = NoObject
              /\ x = m[c] \/ (\E t \in Ticks : v[t][c] = x) => n[c][x] = o[c][x]
              /\ n[c][x].firing => n[c][x] = o[c][x]
<1>1. \A c \in Crons, x \in Copies :
        n[c][x] = IF x = m[c] \/ \E t \in Ticks : v[t][c] = x THEN o[c][x] ELSE NoObject
  BY DEF Reachable
<1>2. n \in [Crons -> [Copies -> Object]]
  BY NoObjectIs DEF Reachable
<1>3. \A c \in Crons, x \in Copies : n[c][x] = o[c][x] \/ n[c][x] = NoObject
  BY <1>1
<1>4. \A c \in Crons, x \in Copies :
        x = m[c] \/ (\E t \in Ticks : v[t][c] = x) => n[c][x] = o[c][x]
  BY <1>1
<1> QED BY <1>2, <1>3, <1>4, NoObjectIs

\* The objects that are left after a step that drops some.
LEMMA LeftFit ==
  ASSUME ScheduleInv, NEW n,
         \A c \in Crons, x \in Copies : n[c][x] = obj[c][x] \/ n[c][x] = NoObject
  PROVE  \A c \in Crons, x \in Copies : ObjectFits(book, slots[c], c, n[c][x])
<1> SUFFICES ASSUME NEW c \in Crons, NEW x \in Copies PROVE ObjectFits(book, slots[c], c, n[c][x])
  OBVIOUS
<1>1. CASE n[c][x] = obj[c][x]
  BY <1>1 DEF ScheduleInv, ObjectsFit
<1>2. CASE n[c][x] = NoObject
  <2>1. slots[c] \in Nat
    BY TypesAre
  <2> QED BY <1>2, <2>1, NoObjectIs
<1> QED BY <1>1, <1>2

LEMMA OffIs == Off \in [Crons -> Copies \cup {0}] /\ \A c \in Crons : Off[c] = 0
BY DEF Off

LEMMA TickEndsKeeps ==
  ASSUME ScheduleInv, NEW t \in Ticks, TickEnds(t)
  PROVE  ScheduleInv'
<1>1. /\ tick[t].at = "visit" /\ tick' = [tick EXCEPT ![t] = NoTick] /\ view' = [view EXCEPT ![t] = Off]
      /\ obj' = Reachable(obj, map, view')
      /\ UNCHANGED <<file, fired, changed, up, map, slots, book, delivered, stray, bounds>>
  BY DEF TickEnds
<1>2. /\ tick' \in [Ticks -> Tick] /\ view' \in [Ticks -> [Crons -> Copies \cup {0}]]
      /\ tick'[t] = NoTick
      /\ \A u \in Ticks : u # t => tick'[u] = tick[u] /\ view'[u] = view[u]
  BY <1>1, TypesAre, NoTickIs, OffIs
<1>3. /\ obj' \in [Crons -> [Copies -> Object]]
      /\ \A c \in Crons, x \in Copies : /\ obj'[c][x] = obj[c][x] \/ obj'[c][x] = NoObject
                                        /\ obj'[c][x].firing => obj'[c][x] = obj[c][x]
  BY <1>1, TypesAre, ReachableIs
<1>4. CronTypeOK'
  BY <1>1, <1>2, <1>3, TypesAre DEF ScheduleInv, CronTypeOK
<1>5. ObjectsFit'
  BY <1>1, <1>3, LeftFit DEF ObjectsFit
<1>6. MarksAreWorked'
  <2> SUFFICES ASSUME NEW c \in Crons, NEW x \in Copies, obj'[c][x].firing
               PROVE  \E u \in Ticks : Works(tick'[u]) /\ tick'[u].cron = c /\ view'[u][c] = x
    BY DEF MarksAreWorked
  <2>1. PICK u \in Ticks : Works(tick[u]) /\ tick[u].cron = c /\ view[u][c] = x
    BY <1>3 DEF ScheduleInv, MarksAreWorked
  <2>2. u # t
    BY <1>1, <2>1 DEF Works
  <2> QED BY <1>2, <2>1, <2>2
<1>7. TicksFit'
  BY <1>1, <1>2, NoTickIs DEF ScheduleInv, TicksFit
<1> QED BY <1>1, <1>4, <1>5, <1>6, <1>7 DEF ScheduleInv

LEMMA ReconcilesKeeps ==
  ASSUME ScheduleInv, NEW c \in Crons, NEW s \in Slots, Reconciles(c, s)
  PROVE  /\ ScheduleInv' /\ Grows(book, book')
         /\ \A d \in Crons, x \in Slots : Tried(book', d, x) = Tried(book, d, x)
<1>1. PICK a : a = Tried(book, c, s)
  OBVIOUS
<1>2. /\ book.latest[<<c, s>>].state \in {"scheduled", "started", "dispatched"}
      /\ book' = With(book, Row(c, s, "failed", a))
      /\ UNCHANGED <<file, fired, changed, up, map, obj, slots, tick, view, delivered, stray, bounds>>
  BY <1>1 DEF Reconciles, Tried
<1>3. a \in 1..MaxTries /\ BookFits(book)
  BY <1>1, <1>2 DEF ScheduleInv, BookFits, Known
<1>4. Grants(book, Row(c, s, "failed", a))
  <2>1. PICK row : row = Row(c, s, "failed", a)
    OBVIOUS
  <2>2. row.run = <<c, s>> /\ row.state = "failed" /\ row.attempt = a
    BY <2>1 DEF Row
  <2>3. R!Follows(row, book.latest[<<c, s>>])
    BY <1>1, <1>2, <1>3, <2>2, NumbersAre DEF R!Follows, R!After, Tried
  <2> QED BY <2>1, <2>2, <2>3 DEF Grants
<1>5. "failed" \in R!States /\ "failed" # "scheduled"
  BY ReceiptsAre
<1>6. /\ BookFits(book') /\ Grows(book, book') /\ Counted(book', slots)
      /\ \A d \in Crons, x \in Copies : ObjectFits(book', slots[d], d, obj[d][x])
  BY <1>2, <1>3, <1>4, <1>5, ReceiptKeeps
<1>7. \A d \in Crons, x \in Slots : Tried(book', d, x) = Tried(book, d, x)
  <2>1. /\ \A d \in Crons, x \in Slots : <<d, x>> # <<c, s>> => book'.latest[<<d, x>>] = book.latest[<<d, x>>]
        /\ Tried(book', c, s) = IF a >= Tried(book, c, s) THEN a ELSE Tried(book, c, s)
    BY <1>2, <1>3, <1>4, <1>5, WithIs
  <2>2. Tried(book', c, s) = Tried(book, c, s)
    BY <1>1, <2>1
  <2> QED BY <2>1, <2>2 DEF Tried
<1>8. CronTypeOK' /\ ObjectsFit' /\ MarksAreWorked'
  BY <1>2, <1>6, TypesAre DEF ScheduleInv, CronTypeOK, BookFits, ObjectsFit, MarksAreWorked
<1>9. TicksFit'
  <2> SUFFICES ASSUME NEW u \in Ticks PROVE TickFits(tick[u], view[u], map, book')
    BY <1>2 DEF TicksFit
  <2>1. TickFits(tick[u], view[u], map, book) /\ tick[u] \in Tick
    BY PlaceIs
  <2> QED BY <1>3, <1>6, <2>1, TickGrows
<1> QED BY <1>2, <1>6, <1>7, <1>8, <1>9 DEF ScheduleInv

LEMMA EditsKeeps ==
  ASSUME ScheduleInv, NEW c \in Crons, Edits(c)
  PROVE  ScheduleInv'
<1>1. /\ UNCHANGED <<fired, up, map, obj, slots, tick, view, book, delivered, stray>> /\ changed' = TRUE
  BY DEF Edits
<1>2. bounds \in [edits : 0..MaxEdits, mishaps : 0..MaxMishaps] /\ bounds.edits \in 0..MaxEdits
      /\ bounds.edits < MaxEdits
  BY TypesAre DEF Edits
<1>3. PICK n : n = bounds.edits + 1
  OBVIOUS
<1>4. n \in 0..MaxEdits /\ bounds.edits + 2 \in 0..(MaxEdits + 1) /\ 0 \in 0..(MaxEdits + 1)
  BY <1>2, <1>3, NumbersAre
<1>5. bounds' \in [edits : 0..MaxEdits, mishaps : 0..MaxMishaps]
  <2>1. bounds' = [bounds EXCEPT !.edits = n]
    BY <1>3 DEF Edits
  <2> QED BY <1>2, <1>4, <2>1
<1>6. file' \in [Crons -> 0..(MaxEdits + 1)]
  <2>1. PICK version \in {0, bounds.edits + 2} \ {file[c]} : file' = [file EXCEPT ![c] = version]
    BY DEF Edits
  <2>2. version \in 0..(MaxEdits + 1)
    BY <1>4
  <2> QED BY <2>1, <2>2, TypesAre
<1>7. CronTypeOK'
  BY <1>1, <1>5, <1>6, TypesAre DEF ScheduleInv, CronTypeOK
<1> QED BY <1>1, <1>7 DEF ScheduleInv, ObjectsFit, MarksAreWorked, TicksFit

LEMMA TimePassesKeeps ==
  ASSUME ScheduleInv, NEW c \in Crons, TimePasses(c)
  PROVE  /\ ScheduleInv'
         /\ \A d \in Crons, x \in Copies : /\ obj'[d][x].firing = obj[d][x].firing
                                           /\ obj'[d][x].slot = obj[d][x].slot
                                           /\ obj'[d][x].run = obj[d][x].run
<1>1. /\ UNCHANGED <<file, fired, changed, up, map, slots, tick, view, book, delivered, stray, bounds>>
      /\ map[c] # 0 /\ Held(c).slot # 0
  BY DEF TimePasses
<1>2. PICK v : v = map[c]
  OBVIOUS
<1>3. v \in Copies /\ obj[c][v] \in Object /\ obj[c][v].slot # 0
  BY <1>1, <1>2, TypesAre DEF Held
<1>4. PICK p : p = [obj[c][v] EXCEPT !.due = TRUE]
  OBVIOUS
<1>5. p \in Object /\ p.firing = obj[c][v].firing /\ p.slot = obj[c][v].slot /\ p.run = obj[c][v].run
  BY <1>3, <1>4 DEF Object
<1>6. obj' = [obj EXCEPT ![c][v] = p]
  BY <1>2, <1>3, <1>4, TypesAre DEF TimePasses
<1>7. /\ obj' \in [Crons -> [Copies -> Object]] /\ obj'[c][v] = p
      /\ \A d \in Crons, x \in Copies : d # c \/ x # v => obj'[d][x] = obj[d][x]
  BY <1>3, <1>5, <1>6, TypesAre
<1>8. \A d \in Crons, x \in Copies : /\ obj'[d][x].firing = obj[d][x].firing
                                     /\ obj'[d][x].slot = obj[d][x].slot
                                     /\ obj'[d][x].run = obj[d][x].run
  BY <1>5, <1>7
<1>9. CronTypeOK'
  BY <1>1, <1>7, TypesAre DEF ScheduleInv, CronTypeOK
<1>10. ObjectsFit'
  <2> SUFFICES ASSUME NEW d \in Crons, NEW x \in Copies PROVE ObjectFits(book, slots[d], d, obj'[d][x])
    BY <1>1 DEF ObjectsFit
  <2>1. ObjectFits(book, slots[d], d, obj[d][x])
    BY DEF ScheduleInv, ObjectsFit
  <2>2. CASE d = c /\ x = v
    BY <1>3, <1>5, <1>7, <2>1, <2>2 DEF ObjectFits
  <2>3. CASE d # c \/ x # v
    BY <1>7, <2>1, <2>3
  <2> QED BY <2>2, <2>3
<1>11. MarksAreWorked' /\ TicksFit'
  BY <1>1, <1>8 DEF ScheduleInv, MarksAreWorked, TicksFit
<1> QED BY <1>1, <1>8, <1>9, <1>10, <1>11 DEF ScheduleInv

\* What stop() leaves of a tick.
LEMMA StoppedIs ==
  ASSUME ScheduleInv, Stops, NEW t \in Ticks
  PROVE  /\ tick'[t] \in Tick /\ tick'[t].at = tick[t].at /\ tick'[t].due \subseteq tick[t].due
         /\ tick'[t].cron = tick[t].cron /\ tick'[t].slot = tick[t].slot
         /\ tick'[t].attempt = tick[t].attempt /\ tick'[t].last = tick[t].last
         /\ tick[t].at \in {"idle", "dispatch", "backoff"}
         /\ tick[t].at # "idle" => tick'[t].aborted
<1>1. tick[t] \in Tick /\ tick[t].at \in {"idle", "dispatch", "backoff"}
  BY PlaceIs DEF Stops, Quiet
<1>2. CASE tick[t].at = "idle"
  BY <1>1, <1>2 DEF Stops
<1>3. CASE tick[t].at # "idle"
  <2>1. PICK due : due = IF tick[t].newest THEN {} ELSE tick[t].due
    OBVIOUS
  <2>2. tick'[t] = [tick[t] EXCEPT !.aborted = TRUE, !.due = due]
    BY <1>3, <2>1 DEF Stops
  <2> QED BY <1>1, <1>3, <2>1, <2>2 DEF Tick
<1> QED BY <1>2, <1>3

LEMMA StopsKeeps ==
  ASSUME ScheduleInv, Stops
  PROVE  ScheduleInv'
<1>1. /\ UNCHANGED <<file, fired, changed, slots, view, book, delivered, stray>>
      /\ up' = FALSE /\ map' = Off /\ Mishap /\ obj' = Reachable(obj, map', view)
  BY DEF Stops
<1>2. /\ obj' \in [Crons -> [Copies -> Object]]
      /\ \A c \in Crons, x \in Copies : /\ obj'[c][x] = obj[c][x] \/ obj'[c][x] = NoObject
                                        /\ obj'[c][x].firing => obj'[c][x] = obj[c][x]
  BY <1>1, TypesAre, ReachableIs
<1>3. tick' \in [Ticks -> Tick]
  <2>1. tick' = [t \in Ticks |-> tick'[t]]
    BY DEF Stops
  <2> QED BY <2>1, StoppedIs
<1>4. CronTypeOK'
  BY <1>1, <1>2, <1>3, TypesAre, MishapIs, OffIs DEF ScheduleInv, CronTypeOK
<1>5. ObjectsFit'
  BY <1>1, <1>2, LeftFit DEF ObjectsFit
<1>6. MarksAreWorked'
  BY <1>1, <1>2, StoppedIs DEF ScheduleInv, MarksAreWorked, Works
<1>7. TicksFit'
  <2> SUFFICES ASSUME NEW t \in Ticks PROVE TickFits(tick'[t], view[t], map', book)
    BY <1>1 DEF TicksFit
  <2>1. TickFits(tick[t], view[t], map, book)
    BY PlaceIs
  <2>2. \A c \in Crons : map'[c] = 0
    BY <1>1, OffIs
  <2>3. Works(tick[t]) => tick[t].at \in {"dispatch", "backoff"}
    BY StoppedIs DEF Works
  <2>4. PICK k : k = tick'[t]
    OBVIOUS
  <2>5. /\ k.at = tick[t].at /\ k.due \subseteq tick[t].due /\ k.cron = tick[t].cron
        /\ k.slot = tick[t].slot /\ k.attempt = tick[t].attempt /\ k.last = tick[t].last
    BY <2>4, StoppedIs
  <2>6. TickFits(k, view[t], map', book)
    BY <2>1, <2>2, <2>3, <2>5 DEF TickFits, Works
  <2> QED BY <2>4, <2>6
<1> QED BY <1>1, <1>4, <1>5, <1>6, <1>7 DEF ScheduleInv

LEMMA DaemonDiesKeeps ==
  ASSUME ScheduleInv, DaemonDies
  PROVE  ScheduleInv' /\ \A t \in Ticks : tick'[t] = NoTick
<1>1. /\ UNCHANGED <<file, fired, changed, slots, book, delivered, stray>>
      /\ up' = FALSE /\ map' = Off /\ Mishap /\ obj' = Reachable(obj, map', view')
      /\ tick' = [t \in Ticks |-> NoTick] /\ view' = [t \in Ticks |-> Off]
  BY DEF DaemonDies
<1>2. /\ tick' \in [Ticks -> Tick] /\ view' \in [Ticks -> [Crons -> Copies \cup {0}]]
      /\ \A t \in Ticks : tick'[t] = NoTick
  BY <1>1, NoTickIs, OffIs
<1>3. /\ obj' \in [Crons -> [Copies -> Object]]
      /\ \A c \in Crons, x \in Copies : obj'[c][x] = obj[c][x] \/ obj'[c][x] = NoObject
  <2>1. obj' = Reachable(obj, map', view') /\ obj \in [Crons -> [Copies -> Object]]
    BY <1>1, TypesAre
  <2> QED BY <2>1, ReachableIs
<1>4. \A c \in Crons, x \in Copies : obj'[c][x] = NoObject
  <2>1. \A c \in Crons, x \in Copies : x # map'[c] /\ ~\E t \in Ticks : view'[t][c] = x
    BY <1>1, OffIs, NumbersAre
  <2> QED BY <1>1, <2>1 DEF Reachable
<1>5. CronTypeOK'
  BY <1>1, <1>2, <1>3, TypesAre, MishapIs, OffIs DEF ScheduleInv, CronTypeOK
<1>6. ObjectsFit'
  BY <1>1, <1>3, LeftFit DEF ObjectsFit
<1>7. MarksAreWorked' /\ TicksFit'
  BY <1>2, <1>4, NoObjectIs, NoTickIs DEF MarksAreWorked, TicksFit
<1> QED BY <1>1, <1>2, <1>5, <1>6, <1>7 DEF ScheduleInv

\* What t's object, the counter and the ticks are when t is through with cron c,
\* whose object it calls v.
Advanced(t, b, c, v) ==
  /\ book' = b /\ c \in Crons /\ v \in Copies
  /\ obj' \in [Crons -> [Copies -> Object]]
  /\ \A d \in Crons, x \in Copies : d # c \/ x # v => obj'[d][x] = obj[d][x]
  /\ ~obj'[c][v].firing /\ obj'[c][v].slot = NextSlot(c)
  /\ obj'[c][v].run = NoRun \/ obj'[c][v].run = Active(b, c)
  /\ obj'[c][v].due => obj'[c][v].run # NoRun
  /\ slots' = [slots EXCEPT ![c] = IF slots[c] < MaxSlots THEN slots[c] + 1 ELSE slots[c]]
  /\ tick' \in [Ticks -> Tick]
  /\ tick'[t].at = "visit" /\ tick'[t].due = tick[t].due /\ tick'[t].aborted = tick[t].aborted
  /\ \A u \in Ticks : u # t =>
       /\ tick'[u].at = tick[u].at /\ tick'[u].due \subseteq tick[u].due
       /\ tick'[u].cron = tick[u].cron /\ tick'[u].slot = tick[u].slot
       /\ tick'[u].attempt = tick[u].attempt /\ tick'[u].last = tick[u].last
       /\ tick'[u].aborted = tick[u].aborted

\* A tick that is through with its cron.
LEMMA AdvancesIs ==
  ASSUME ScheduleInv, NEW t \in Ticks, Works(tick[t]), NEW b, BookFits(b), NEW goesOn \in BOOLEAN,
         Advances(t, b, goesOn), NEW c, c = tick[t].cron, NEW v, v = view[t][c]
  PROVE  Advanced(t, b, c, v)
<1>1. c \in Crons /\ v \in Copies /\ tick[t] \in Tick /\ slots[c] \in 0..MaxSlots /\ obj[c][v] \in Object
  BY PlaceIs, TypesAre
<1>2. PICK run : run = IF goesOn THEN Active(b, c) ELSE NoRun
  OBVIOUS
<1>3. RunFits(b, c, run)
  BY <1>1, <1>2, ActiveIs, NoRunFits
<1>4. PICK due, key, next : due = (run # NoRun) /\ key = obj[c][v].key /\ next = NextSlot(c)
  OBVIOUS
<1>5. PICK p : p = [slot |-> next, due |-> due, firing |-> FALSE, run |-> run, key |-> key]
  OBVIOUS
<1>6. p \in Object /\ ~p.firing /\ p.slot = NextSlot(c) /\ p.run = run /\ p.due = due
  <2>1. next \in Slots \cup {0}
    BY <1>1, <1>4, NextSlotIs
  <2>2. run \in [slot : Slots \cup {0}, state : {"none", "scheduled", "started"}, attempt : 0..MaxTries]
    <3> HIDE <1>1, <1>2, <1>4, <1>5
    <3> QED BY <1>3 DEF RunFits
  <2>3. key \in 0..(MaxEdits + 1) /\ due \in BOOLEAN
    BY <1>1, <1>4 DEF Object
  <2> QED BY <1>4, <1>5, <2>1, <2>2, <2>3 DEF Object
<1>7. obj' = [obj EXCEPT ![c][v] = p]
  <2>1. obj' = [obj EXCEPT ![c][v] =
                  [slot |-> NextSlot(c), due |-> run # NoRun, firing |-> FALSE, run |-> run, key |-> obj[c][v].key]]
    BY <1>1, <1>2, TypesAre DEF Advances
  <2> QED BY <1>4, <1>5, <2>1
<1>8. slots' = [slots EXCEPT ![c] = IF slots[c] < MaxSlots THEN slots[c] + 1 ELSE slots[c]]
  BY DEF Advances
<1>9. tick' = [u \in Ticks |->
                 CASE u = t -> [NoTick EXCEPT !.at = "visit", !.due = tick[t].due,
                                  !.newest = tick[t].newest, !.aborted = tick[t].aborted]
                   [] u # t /\ view[u][c] = v -> [tick[u] EXCEPT !.due = @ \ {c}]
                   [] OTHER -> tick[u]]
  BY DEF Advances
<1>10. /\ tick'[t] \in Tick /\ tick'[t].at = "visit" /\ tick'[t].due = tick[t].due
       /\ tick'[t].aborted = tick[t].aborted
  <2>1. tick'[t] = [NoTick EXCEPT !.at = "visit", !.due = tick[t].due,
                      !.newest = tick[t].newest, !.aborted = tick[t].aborted]
    BY <1>9
  <2> QED BY <1>1, <2>1, NoTickIs DEF Tick
<1>11. ASSUME NEW u \in Ticks, u # t
       PROVE  /\ tick'[u] \in Tick /\ tick'[u].at = tick[u].at /\ tick'[u].due \subseteq tick[u].due
              /\ tick'[u].cron = tick[u].cron /\ tick'[u].slot = tick[u].slot
              /\ tick'[u].attempt = tick[u].attempt /\ tick'[u].last = tick[u].last
              /\ tick'[u].aborted = tick[u].aborted
  <2>1. tick[u] \in Tick
    BY PlaceIs
  <2>2. CASE view[u][c] = v
    <3>1. PICK rest : rest = tick[u].due \ {c}
      OBVIOUS
    <3>2. tick'[u] = [tick[u] EXCEPT !.due = rest]
      BY <1>9, <1>11, <2>2, <3>1
    <3> QED BY <2>1, <3>1, <3>2 DEF Tick
  <2>3. CASE view[u][c] # v
    BY <1>9, <1>11, <2>1, <2>3
  <2> QED BY <2>2, <2>3
<1>12. tick' \in [Ticks -> Tick]
  BY <1>9, <1>10, <1>11
<1>13. p.due => p.run # NoRun
  BY <1>4, <1>6
<1>14. p.run = NoRun \/ p.run = Active(b, c)
  BY <1>2, <1>6
<1>15. book' = b
  BY DEF Advances
<1>16. /\ obj' \in [Crons -> [Copies -> Object]] /\ obj'[c][v] = p
       /\ \A d \in Crons, x \in Copies : d # c \/ x # v => obj'[d][x] = obj[d][x]
  BY <1>1, <1>6, <1>7, TypesAre
<1>17. /\ ~obj'[c][v].firing /\ obj'[c][v].slot = NextSlot(c)
       /\ obj'[c][v].run = NoRun \/ obj'[c][v].run = Active(b, c)
       /\ obj'[c][v].due => obj'[c][v].run # NoRun
  BY <1>6, <1>13, <1>14, <1>16
<1> QED BY <1>1, <1>16, <1>17, <1>8, <1>10, <1>11, <1>12, <1>15 DEF Advanced

LEMMA AdvancesKeeps ==
  ASSUME ScheduleInv, NEW t \in Ticks, Works(tick[t]), NEW b, BookFits(b), Grows(book, b),
         Counted(b, slots), NEW goesOn \in BOOLEAN, Advances(t, b, goesOn),
         UNCHANGED <<file, up, map, view, stray>>, UNCHANGED bounds \/ Mishap,
         fired' \in [Crons -> Slots \cup {0}], changed' \in BOOLEAN,
         delivered' \subseteq Crons \X Slots \X (1..MaxTries)
  PROVE  ScheduleInv'
<1>1. PICK c : c = tick[t].cron
  OBVIOUS
<1>2. PICK v : v = view[t][c]
  OBVIOUS
<1>a. Advanced(t, b, c, v)
  BY <1>1, <1>2, AdvancesIs
<1>3. /\ book' = b /\ c \in Crons /\ v \in Copies
      /\ slots' = [slots EXCEPT ![c] = IF slots[c] < MaxSlots THEN slots[c] + 1 ELSE slots[c]]
      /\ tick' \in [Ticks -> Tick]
      /\ tick'[t].at = "visit" /\ tick'[t].due = tick[t].due /\ tick'[t].aborted = tick[t].aborted
  BY <1>a DEF Advanced
<1>4. PICK p : p = obj'[c][v]
  OBVIOUS
<1>5. ASSUME NEW u \in Ticks, u # t
      PROVE  /\ tick'[u].at = tick[u].at /\ tick'[u].due \subseteq tick[u].due
             /\ tick'[u].cron = tick[u].cron /\ tick'[u].slot = tick[u].slot
             /\ tick'[u].attempt = tick[u].attempt /\ tick'[u].last = tick[u].last
             /\ tick'[u].aborted = tick[u].aborted
  BY <1>5, <1>a DEF Advanced
<1>6. PICK n : n = IF slots[c] < MaxSlots THEN slots[c] + 1 ELSE slots[c]
  OBVIOUS
<1>7. n \in 0..MaxSlots /\ n \in Nat /\ slots[c] <= n /\ NextSlot(c) <= n
  <2>1. slots[c] \in 0..MaxSlots
    BY <1>3, TypesAre
  <2> QED BY <1>3, <1>6, <2>1, NextSlotIs, NumbersAre
<1>8. /\ slots' \in [Crons -> 0..MaxSlots] /\ slots'[c] = n
      /\ \A d \in Crons : d # c => slots'[d] = slots[d]
      /\ \A d \in Crons : slots[d] \in Nat /\ slots'[d] \in Nat /\ slots[d] <= slots'[d]
  BY <1>3, <1>6, <1>7, TypesAre, NumbersAre
<1>9. /\ obj' \in [Crons -> [Copies -> Object]] /\ obj'[c][v] = p
      /\ \A d \in Crons, x \in Copies : d # c \/ x # v => obj'[d][x] = obj[d][x]
      /\ p \in Object /\ ~p.firing /\ p.slot = NextSlot(c)
      /\ p.run = NoRun \/ p.run = Active(b, c)
      /\ p.due => p.run # NoRun
  <2>1. /\ obj' \in [Crons -> [Copies -> Object]]
        /\ \A d \in Crons, x \in Copies : d # c \/ x # v => obj'[d][x] = obj[d][x]
    BY <1>a DEF Advanced
  <2>2. /\ ~obj'[c][v].firing /\ obj'[c][v].slot = NextSlot(c)
        /\ obj'[c][v].run = NoRun \/ obj'[c][v].run = Active(b, c)
        /\ obj'[c][v].due => obj'[c][v].run # NoRun
    BY <1>a DEF Advanced
  <2>3. p \in Object
    <3>1. obj'[c] \in [Copies -> Object] /\ v \in Copies
      BY <1>3, <2>1
    <3> QED BY <1>4, <3>1
  <2> QED BY <1>4, <2>1, <2>2, <2>3
<1>10. CronTypeOK'
  <2>1. bounds' \in [edits : 0..MaxEdits, mishaps : 0..MaxMishaps]
    BY MishapIs
  <2> QED BY <1>3, <1>8, <1>9, <2>1, TypesAre DEF CronTypeOK, BookFits
<1>11. BookFits(book') /\ Grows(book, book') /\ Counted(book', slots')
  <2>1. Counted(book', slots')
    <3> SUFFICES ASSUME NEW d \in Crons, NEW x \in Slots, Known(book', d, x) PROVE x <= slots'[d]
      BY DEF Counted
    <3>1. x <= slots[d]
      BY <1>3 DEF Counted
    <3> QED BY <1>8, <3>1, NumbersAre
  <2> QED BY <1>3, <2>1
<1>12. ObjectsFit'
  <2> SUFFICES ASSUME NEW d \in Crons, NEW x \in Copies PROVE ObjectFits(book', slots'[d], d, obj'[d][x])
    BY DEF ObjectsFit
  <2>1. CASE d = c /\ x = v
    <3>1. RunFits(book', c, p.run)
      BY <1>3, <1>9, ActiveIs, NoRunFits
    <3>2. ObjectFits(book', n, c, p)
      BY <1>7, <1>9, <3>1 DEF ObjectFits
    <3> QED BY <1>8, <1>9, <2>1, <3>2
  <2>2. CASE d # c \/ x # v
    <3>1. ObjectFits(book, slots[d], d, obj[d][x]) /\ BookFits(book)
      BY DEF ScheduleInv, ObjectsFit
    <3>2. ObjectFits(book', slots'[d], d, obj[d][x])
      BY <1>8, <1>11, <3>1, ObjectGrows
    <3> QED BY <1>9, <2>2, <3>2
  <2> QED BY <2>1, <2>2
<1>13. MarksAreWorked'
  <2> SUFFICES ASSUME NEW d \in Crons, NEW x \in Copies, obj'[d][x].firing
               PROVE  \E u \in Ticks : Works(tick'[u]) /\ tick'[u].cron = d /\ view[u][d] = x
    BY DEF MarksAreWorked
  <2>1. d # c \/ x # v
    BY <1>9
  <2>2. PICK u \in Ticks : Works(tick[u]) /\ tick[u].cron = d /\ view[u][d] = x
    BY <1>9, <2>1 DEF ScheduleInv, MarksAreWorked
  <2>3. u # t
    BY <1>1, <1>2, <2>1, <2>2
  <2> QED BY <1>5, <2>2, <2>3 DEF Works
<1>14. TicksFit'
  <2> SUFFICES ASSUME NEW u \in Ticks PROVE TickFits(tick'[u], view[u], map, book')
    BY DEF TicksFit
  <2>1. PICK k : k = tick'[u]
    OBVIOUS
  <2>2. TickFits(tick[u], view[u], map, book) /\ tick[u] \in Tick /\ BookFits(book)
    BY PlaceIs DEF ScheduleInv
  <2>3. TickFits(tick[u], view[u], map, book')
    BY <1>11, <2>2, TickGrows
  <2>4. CASE u = t
    <3>1. k.at = "visit" /\ k.due = tick[t].due /\ k.aborted = tick[t].aborted
      BY <1>3, <2>1, <2>4
    <3>2. TickFits(k, view[t], map, book')
      BY <2>3, <2>4, <3>1 DEF TickFits, Works
    <3> QED BY <2>1, <2>4, <3>2
  <2>5. CASE u # t
    <3>1. /\ k.at = tick[u].at /\ k.due \subseteq tick[u].due /\ k.cron = tick[u].cron
          /\ k.slot = tick[u].slot /\ k.attempt = tick[u].attempt /\ k.last = tick[u].last
          /\ k.aborted = tick[u].aborted
      BY <1>5, <2>1, <2>5
    <3>2. TickFits(k, view[u], map, book')
      BY <2>3, <3>1 DEF TickFits, Works
    <3> QED BY <2>1, <3>2
  <2> QED BY <2>4, <2>5
<1> QED BY <1>10, <1>11, <1>12, <1>13, <1>14 DEF ScheduleInv

\* The receipts with which a fire ends.
LEMMA ClosesIs ==
  ASSUME ScheduleInv, NEW t \in Ticks, Works(tick[t]), NEW state \in {"dispatched", "failed"},
         NEW row, row = Row(tick[t].cron, tick[t].slot, state, tick[t].attempt),
         NEW b, b = book \/ (Grants(book, row) /\ b = With(book, row))
  PROVE  BookFits(b) /\ Grows(book, b) /\ Counted(b, slots)
<1>1. /\ tick[t].cron \in Crons /\ tick[t].slot \in Slots /\ tick[t].attempt \in 1..MaxTries
      /\ state \in R!States /\ state # "scheduled"
  BY PlaceIs, ReceiptsAre
<1>2. CASE b = book
  BY <1>2, GrowsRefl DEF ScheduleInv
<1>3. CASE Grants(book, row) /\ b = With(book, row)
  BY <1>1, <1>3, ReceiptKeeps
<1> QED BY <1>2, <1>3

LEMMA DeliversKeeps ==
  ASSUME ScheduleInv, NEW t \in Ticks, Delivers(t)
  PROVE  ScheduleInv'
<1>1. Works(tick[t]) /\ tick[t] \in Tick
  BY PlaceIs DEF Delivers, Works
<1>2. PICK row : row = Row(tick[t].cron, tick[t].slot, "dispatched", tick[t].attempt)
  OBVIOUS
<1>3. PICK b, goesOn :
        /\ goesOn \in BOOLEAN
        /\ b = book \/ (Grants(book, row) /\ b = With(book, row))
        /\ UNCHANGED bounds \/ Mishap
        /\ Advances(t, b, goesOn)
  <2>1. tick[t].resumed \in BOOLEAN
    BY <1>1 DEF Tick
  <2>2. \/ Grants(book, row) /\ UNCHANGED bounds /\ Advances(t, With(book, row), tick[t].resumed)
        \/ ~Grants(book, row) /\ UNCHANGED bounds /\ Advances(t, book, FALSE)
        \/ Grants(book, row) /\ Mishap /\ Advances(t, book, FALSE)
    BY <1>2 DEF Delivers
  <2>3. PICK later : later = With(book, row)
    OBVIOUS
  <2>4. CASE Grants(book, row) /\ UNCHANGED bounds /\ Advances(t, later, tick[t].resumed)
    BY <2>1, <2>3, <2>4
  <2>5. CASE (UNCHANGED bounds \/ Mishap) /\ Advances(t, book, FALSE)
    BY <2>5
  <2> QED BY <2>2, <2>3, <2>4, <2>5
<1>4. BookFits(b) /\ Grows(book, b) /\ Counted(b, slots)
  BY <1>1, <1>2, <1>3, ClosesIs
<1>5. delivered' \subseteq Crons \X Slots \X (1..MaxTries)
  <2>1. Key(t) \in Crons \X Slots \X (1..MaxTries)
    BY <1>1, PlaceIs DEF Key
  <2> QED BY <2>1, TypesAre DEF Delivers
<1>6. changed' \in BOOLEAN /\ fired' \in [Crons -> Slots \cup {0}]
  <2>1. CASE UNCHANGED <<changed, fired>>
    BY <2>1, TypesAre
  <2>2. CASE ~UNCHANGED <<changed, fired>>
    <3>1. PICK c : c = tick[t].cron
      OBVIOUS
    <3>2. PICK reached : reached = Walked(t, c).slot
      OBVIOUS
    <3>3. c \in Crons /\ reached \in Slots \cup {0}
      <4>1. c \in Crons /\ view[t][c] \in Copies
        BY <1>1, <3>1, PlaceIs
      <4>2. obj[c][view[t][c]] \in Object
        BY <4>1, TypesAre
      <4> QED BY <3>2, <4>1, <4>2 DEF Walked, Object
    <3>4. changed' = TRUE /\ fired' = [fired EXCEPT ![c] = IF reached = 0 THEN MaxSlots ELSE reached]
      BY <2>2, <3>1, <3>2 DEF Delivers
    <3>5. (IF reached = 0 THEN MaxSlots ELSE reached) \in Slots \cup {0}
      BY <3>3, NumbersAre
    <3> QED BY <3>3, <3>4, <3>5, TypesAre
  <2> QED BY <2>1, <2>2
<1>7. UNCHANGED <<file, up, map, view, stray>>
  BY DEF Delivers
<1> QED BY <1>1, <1>3, <1>4, <1>5, <1>6, <1>7, AdvancesKeeps

LEMMA GivesUpFireKeeps ==
  ASSUME ScheduleInv, NEW t \in Ticks, GivesUpFire(t)
  PROVE  ScheduleInv'
<1>1. Works(tick[t]) /\ tick[t] \in Tick
  BY PlaceIs DEF GivesUpFire, Works
<1>2. PICK row : row = Row(tick[t].cron, tick[t].slot, "failed", tick[t].attempt)
  OBVIOUS
<1>3. PICK b, goesOn :
        /\ goesOn \in BOOLEAN
        /\ b = book \/ (Grants(book, row) /\ b = With(book, row))
        /\ UNCHANGED bounds \/ Mishap
        /\ Advances(t, b, goesOn)
  <2>1. tick[t].resumed \in BOOLEAN
    BY <1>1 DEF Tick
  <2>2. \/ Grants(book, row) /\ UNCHANGED bounds /\ Advances(t, With(book, row), tick[t].resumed)
        \/ ~Grants(book, row) /\ UNCHANGED bounds /\ Advances(t, book, FALSE)
        \/ Grants(book, row) /\ Mishap /\ Advances(t, book, FALSE)
    BY <1>2 DEF GivesUpFire
  <2>3. PICK later : later = With(book, row)
    OBVIOUS
  <2>4. CASE Grants(book, row) /\ UNCHANGED bounds /\ Advances(t, later, tick[t].resumed)
    BY <2>1, <2>3, <2>4
  <2>5. CASE (UNCHANGED bounds \/ Mishap) /\ Advances(t, book, FALSE)
    BY <2>5
  <2> QED BY <2>2, <2>3, <2>4, <2>5
<1>4. BookFits(b) /\ Grows(book, b) /\ Counted(b, slots)
  BY <1>1, <1>2, <1>3, ClosesIs
<1>5. UNCHANGED <<file, fired, changed, up, map, view, delivered, stray>>
  BY DEF GivesUpFire
<1> QED BY <1>1, <1>3, <1>4, <1>5, TypesAre, AdvancesKeeps

\* An object that loadCrons makes anew.
LEMMA MadeIs ==
  ASSUME ScheduleInv, NEW b, BookFits(b), NEW c \in Crons,
         NEW missed, missed[c] \in BOOLEAN, NEW run, run = NoRun \/ run = Active(b, c),
         NEW o, o = Made(c, missed, run),
         NEW n, n = IF slots[c] < MaxSlots THEN slots[c] + 1 ELSE slots[c]
  PROVE  ObjectFits(b, n, c, o) /\ ~o.firing /\ o.slot = NextSlot(c) /\ o.run = run
<1>1. RunFits(b, c, run)
  BY ActiveIs, NoRunFits
<1>2. slots[c] \in 0..MaxSlots /\ file[c] \in 0..(MaxEdits + 1)
  BY TypesAre
<1>3. PICK next : next = NextSlot(c)
  OBVIOUS
<1>4. next \in Slots \cup {0} /\ next <= n
  BY <1>2, <1>3, NextSlotIs
<1>5. PICK due : due = (run # NoRun \/ (missed[c] /\ next # 0))
  OBVIOUS
<1>6. PICK key : key = file[c]
  OBVIOUS
<1>7. o = [key |-> key, slot |-> next, firing |-> FALSE, run |-> run, due |-> due]
  BY <1>3, <1>5, <1>6 DEF Made
<1>8. o.slot = next /\ ~o.firing /\ o.run = run /\ o.due = due
  BY <1>7
<1>9. o \in Object
  <2>1. run \in [slot : Slots \cup {0}, state : {"none", "scheduled", "started"}, attempt : 0..MaxTries]
    BY <1>1 DEF RunFits
  <2>2. key \in 0..(MaxEdits + 1) /\ due \in BOOLEAN
    BY <1>2, <1>5, <1>6
  <2> QED BY <1>4, <1>7, <2>1, <2>2 DEF Object
<1>10. o.due => o.slot # 0 \/ o.run # NoRun
  BY <1>5, <1>8
<1> QED BY <1>1, <1>3, <1>4, <1>8, <1>9, <1>10 DEF ObjectFits

\* What a load does to the schedule: no cron gets an object that some tick walks
\* and that was not its own; its object is the old one, or was made anew.
Loaded ==
  /\ map' \in [Crons -> Copies \cup {0}]
  /\ obj' \in [Crons -> [Copies -> Object]] /\ slots' \in [Crons -> 0..MaxSlots]
  /\ BookFits(book') /\ Grows(book, book') /\ Counted(book', slots')
  /\ \A c \in Crons, s \in Slots : /\ Tried(book', c, s) = Tried(book, c, s)
                                   /\ Known(book', c, s) = Known(book, c, s)
  /\ \A c \in Crons :
       /\ map'[c] = 0 \/ map'[c] = map[c] \/ (\A t \in Ticks : view[t][c] # map'[c])
       /\ map'[c] # 0 =>
            \/ map[c] # 0 /\ obj'[c][map'[c]] = obj[c][map[c]]
               /\ (map'[c] = map[c] \/ ~obj[c][map[c]].firing)
            \/ /\ ~obj'[c][map'[c]].firing /\ obj'[c][map'[c]].slot = NextSlot(c)
               /\ obj'[c][map'[c]].run = NoRun \/ obj'[c][map'[c]].run = Active(book', c)
  /\ \A c \in Crons, x \in Copies :
       /\ ObjectFits(book', slots'[c], c, obj'[c][x])
       /\ obj'[c][x].firing => obj[c][x].firing
       /\ (\E t \in Ticks : view[t][c] = x) => obj'[c][x] = obj[c][x]

\* A fire goes on with an object that the load replaces.
Strays == \E t \in Ticks : /\ Works(tick[t]) /\ ~tick[t].aborted
                           /\ view[t][tick[t].cron] = map[tick[t].cron]
                           /\ map'[tick[t].cron] # map[tick[t].cron]

\* keeps, copied: as in Loads.
LEMMA LoadsIs ==
  ASSUME ScheduleInv, NEW keeps, NEW copied, \A c \in keeps : c \in Crons /\ map[c] # 0,
         \A c \in copied : c \in Crons /\ map[c] # 0 /\ ~Held(c).firing, Loads(keeps, copied)
  PROVE  Loaded /\ changed' = FALSE /\ stray' = (stray \/ Strays)
<1> DEFINE listed == {c \in Crons : file[c] # 0}
           made == listed \ (keeps \cup copied)
<1>1. listed \subseteq Crons
  OBVIOUS
<1>2. made = listed \ (keeps \cup copied)
  OBVIOUS
<1>3. PICK missed \in [made -> BOOLEAN], healed \in {book, HealedBook(made)} :
       /\ map' = [c \in Crons |->
                    CASE c \notin listed -> 0
                      [] c \in listed \cap keeps -> map[c]
                      [] OTHER -> Fresh(c)]
       /\ obj' = Reachable(
                   [c \in Crons |->
                      CASE c \in made ->
                             [obj[c] EXCEPT ![Fresh(c)] =
                                Made(c, missed, IF healed = HealedBook(made) THEN Active(healed, c) ELSE NoRun)]
                        [] c \in (listed \cap copied) \ keeps -> [obj[c] EXCEPT ![Fresh(c)] = Held(c)]
                        [] OTHER -> obj[c]],
                   map', view)
       /\ book' = healed
       /\ slots' = [c \in Crons |-> IF c \in made /\ slots[c] < MaxSlots THEN slots[c] + 1 ELSE slots[c]]
       /\ changed' = FALSE
       /\ stray' = (stray \/ \E t \in Ticks :
                      LET c == tick[t].cron
                      IN Working(t) /\ ~tick[t].aborted /\ view[t][c] = map[c] /\ map'[c] # map[c])
  BY DEF Loads
<1> HIDE DEF listed, made
<1>4. made \subseteq Crons /\ listed \subseteq Crons
  BY <1>1, <1>2
<1>5. /\ BookFits(book) /\ BookFits(book') /\ Grows(book, book')
      /\ \A c \in Crons, s \in Slots : /\ Tried(book', c, s) = Tried(book, c, s)
                                       /\ Known(book', c, s) = Known(book, c, s)
  <2>1. BookFits(book) /\ Grows(book, book)
    BY GrowsRefl DEF ScheduleInv
  <2>2. CASE book' = book
    BY <2>1, <2>2
  <2>3. CASE book' = HealedBook(made)
    BY <1>4, <2>1, <2>3, HealedIs
  <2> QED BY <1>3, <2>2, <2>3
<1>6. \A c \in Crons : Fresh(c) \in Copies /\ \A t \in Ticks : view[t][c] # Fresh(c)
  BY TypesAre, FreshIs
<1>7. ASSUME NEW c \in Crons
      PROVE  /\ map'[c] \in Copies \cup {0}
             /\ \/ map'[c] = 0 /\ c \notin listed
                \/ map'[c] = map[c] /\ c \in listed \cap keeps
                \/ map'[c] = Fresh(c) /\ c \in listed \ keeps
  <2>1. map'[c] = CASE c \notin listed -> 0
                    [] c \in listed \cap keeps -> map[c]
                    [] OTHER -> Fresh(c)
    BY <1>3
  <2>2. CASE c \notin listed
    BY <2>1, <2>2
  <2>3. CASE c \in listed \cap keeps
    BY <2>1, <2>3, TypesAre
  <2>4. CASE c \in listed \ keeps
    BY <1>6, <2>1, <2>4
  <2> QED BY <2>2, <2>3, <2>4
<1>8. map' \in [Crons -> Copies \cup {0}]
  BY <1>3, <1>7
<1>9. ASSUME NEW c \in Crons
      PROVE  /\ slots'[c] \in 0..MaxSlots /\ slots[c] \in Nat /\ slots'[c] \in Nat /\ slots[c] <= slots'[c]
             /\ c \in made => slots'[c] = IF slots[c] < MaxSlots THEN slots[c] + 1 ELSE slots[c]
  <2>1. slots[c] \in 0..MaxSlots
    BY TypesAre
  <2>2. slots'[c] = IF c \in made /\ slots[c] < MaxSlots THEN slots[c] + 1 ELSE slots[c]
    BY <1>3
  <2> QED BY <2>1, <2>2, NumbersAre
<1>10. slots' \in [Crons -> 0..MaxSlots]
  BY <1>3, <1>9
<1>11. Counted(book', slots')
  <2> SUFFICES ASSUME NEW c \in Crons, NEW s \in Slots, Known(book', c, s) PROVE s <= slots'[c]
    BY DEF Counted
  <2>1. s <= slots[c]
    BY <1>5 DEF ScheduleInv, Counted
  <2> QED BY <1>9, <2>1, NumbersAre
<1>12. PICK o : o = [c \in Crons |->
                      CASE c \in made ->
                             [obj[c] EXCEPT ![Fresh(c)] =
                                Made(c, missed, IF healed = HealedBook(made) THEN Active(healed, c) ELSE NoRun)]
                        [] c \in (listed \cap copied) \ keeps -> [obj[c] EXCEPT ![Fresh(c)] = Held(c)]
                        [] OTHER -> obj[c]]
  OBVIOUS
<1>13. ASSUME NEW c \in Crons
       PROVE  /\ o[c] \in [Copies -> Object]
              /\ \A x \in Copies : /\ ObjectFits(book', slots'[c], c, o[c][x])
                                   /\ x # Fresh(c) => o[c][x] = obj[c][x]
                                   /\ o[c][x].firing => obj[c][x].firing
              /\ c \in made => /\ ~o[c][Fresh(c)].firing /\ o[c][Fresh(c)].slot = NextSlot(c)
                               /\ o[c][Fresh(c)].run = NoRun \/ o[c][Fresh(c)].run = Active(book', c)
              /\ c \in (listed \cap copied) \ keeps => o[c][Fresh(c)] = obj[c][map[c]]
              /\ c \in keeps \ copied \/ c \notin listed \/ c \in keeps => o[c] = obj[c]
  <2>1. /\ obj[c] \in [Copies -> Object] /\ Fresh(c) \in Copies
        /\ \A x \in Copies : ObjectFits(book', slots'[c], c, obj[c][x])
    <3>1. \A x \in Copies : ObjectFits(book, slots[c], c, obj[c][x])
      BY DEF ScheduleInv, ObjectsFit
    <3>2. ASSUME NEW x \in Copies PROVE ObjectFits(book', slots'[c], c, obj[c][x])
      BY <1>5, <1>9, <3>1, ObjectGrows
    <3> QED BY <1>6, <3>2, TypesAre
  <2>2. CASE c \in made
    <3>1. PICK run : run = IF healed = HealedBook(made) THEN Active(healed, c) ELSE NoRun
      OBVIOUS
    <3>2. PICK p : p = Made(c, missed, run)
      OBVIOUS
    <3>3. run = NoRun \/ run = Active(book', c)
      BY <1>3, <3>1
    <3>4. ObjectFits(book', slots'[c], c, p) /\ ~p.firing /\ p.slot = NextSlot(c) /\ p.run = run
      <4>1. missed[c] \in BOOLEAN
        BY <2>2
      <4>2. PICK b, n : b = book' /\ n = slots'[c]
        OBVIOUS
      <4>3. BookFits(b) /\ (run = NoRun \/ run = Active(b, c))
            /\ n = IF slots[c] < MaxSlots THEN slots[c] + 1 ELSE slots[c]
        BY <1>5, <1>9, <2>2, <3>3, <4>2
      <4>4. ObjectFits(b, n, c, p) /\ ~p.firing /\ p.slot = NextSlot(c) /\ p.run = run
        BY <3>2, <4>1, <4>3, MadeIs
      <4> QED BY <4>2, <4>4
    <3>5. o[c] = [obj[c] EXCEPT ![Fresh(c)] = p]
      <4>1. o[c] = [obj[c] EXCEPT ![Fresh(c)] =
                      Made(c, missed, IF healed = HealedBook(made) THEN Active(healed, c) ELSE NoRun)]
        BY <1>2, <1>12, <2>2
      <4> QED BY <3>1, <3>2, <4>1
    <3>6. p \in Object
      BY <3>4 DEF ObjectFits
    <3>7. o[c] \in [Copies -> Object] /\ o[c][Fresh(c)] = p /\ \A x \in Copies : x # Fresh(c) => o[c][x] = obj[c][x]
      BY <2>1, <3>5, <3>6
    <3> QED BY <1>2, <2>1, <2>2, <3>3, <3>4, <3>7
  <2>3. CASE c \in (listed \cap copied) \ keeps
    <3>1. PICK p : p = obj[c][map[c]]
      OBVIOUS
    <3>2. map[c] \in Copies /\ ~p.firing /\ p \in Object /\ ObjectFits(book', slots'[c], c, p)
      <4>1. map[c] \in Copies
        BY <2>3, TypesAre
      <4> QED BY <2>1, <2>3, <3>1, <4>1 DEF Held
    <3>3. o[c] = [obj[c] EXCEPT ![Fresh(c)] = p]
      <4>1. c \notin made
        BY <1>2, <2>3
      <4> QED BY <1>12, <2>3, <3>1, <4>1 DEF Held
    <3>4. o[c] \in [Copies -> Object] /\ o[c][Fresh(c)] = p /\ \A x \in Copies : x # Fresh(c) => o[c][x] = obj[c][x]
      BY <2>1, <3>2, <3>3
    <3> QED BY <1>2, <2>1, <2>3, <3>1, <3>2, <3>4
  <2>4. CASE c \notin made /\ c \notin (listed \cap copied) \ keeps
    <3>1. o[c] = obj[c]
      BY <1>12, <2>4
    <3> QED BY <2>1, <2>4, <3>1
  <2> QED BY <2>2, <2>3, <2>4
<1>14. o \in [Crons -> [Copies -> Object]]
  <2>1. o = [c \in Crons |-> o[c]]
    BY <1>12
  <2> QED BY <1>13, <2>1
<1>15. /\ obj' \in [Crons -> [Copies -> Object]]
       /\ \A c \in Crons, x \in Copies :
            /\ obj'[c][x] = o[c][x] \/ obj'[c][x] = NoObject
            /\ x = map'[c] \/ (\E t \in Ticks : view[t][c] = x) => obj'[c][x] = o[c][x]
            /\ obj'[c][x].firing => obj'[c][x] = o[c][x]
  <2>1. obj' = Reachable(o, map', view)
    BY <1>3, <1>12
  <2> QED BY <1>14, <2>1, ReachableIs
<1>16. ASSUME NEW c \in Crons
       PROVE  map'[c] = 0 \/ map'[c] = map[c] \/ (\A t \in Ticks : view[t][c] # map'[c])
  BY <1>6, <1>7
<1>17. ASSUME NEW c \in Crons, map'[c] # 0
       PROVE  \/ map[c] # 0 /\ obj'[c][map'[c]] = obj[c][map[c]]
                 /\ (map'[c] = map[c] \/ ~obj[c][map[c]].firing)
              \/ /\ ~obj'[c][map'[c]].firing /\ obj'[c][map'[c]].slot = NextSlot(c)
                 /\ obj'[c][map'[c]].run = NoRun \/ obj'[c][map'[c]].run = Active(book', c)
  <2>1. map'[c] \in Copies /\ obj'[c][map'[c]] = o[c][map'[c]]
    BY <1>7, <1>15, <1>17
  <2>2. CASE map'[c] = map[c] /\ c \in listed \cap keeps
    <3>1. o[c] = obj[c]
      BY <1>13, <2>2
    <3> QED BY <1>17, <2>1, <2>2, <3>1
  <2>3. CASE map'[c] = Fresh(c) /\ c \in listed \ keeps
    <3>1. CASE c \in made
      BY <1>13, <2>1, <2>3, <3>1
    <3>2. CASE c \in (listed \cap copied) \ keeps
      <4>1. map[c] # 0 /\ ~obj[c][map[c]].firing
        BY <3>2 DEF Held
      <4>2. obj'[c][map'[c]] = obj[c][map[c]]
        BY <1>13, <2>1, <2>3, <3>2
      <4> QED BY <4>1, <4>2
    <3> QED BY <1>2, <2>3, <3>1, <3>2
  <2> QED BY <1>7, <1>17, <2>2, <2>3
<1>18. ASSUME NEW c \in Crons, NEW x \in Copies
       PROVE  /\ ObjectFits(book', slots'[c], c, obj'[c][x])
              /\ obj'[c][x].firing => obj[c][x].firing
              /\ (\E t \in Ticks : view[t][c] = x) => obj'[c][x] = obj[c][x]
  <2>1. ObjectFits(book', slots'[c], c, obj'[c][x])
    BY <1>9, <1>13, <1>15, NoObjectIs
  <2>2. obj'[c][x].firing => obj[c][x].firing
    BY <1>13, <1>15
  <2>3. ASSUME NEW t \in Ticks, view[t][c] = x PROVE obj'[c][x] = obj[c][x]
    BY <1>6, <1>13, <1>15, <2>3
  <2> QED BY <2>1, <2>2, <2>3
<1>19. stray' = (stray \/ Strays)
  BY <1>3 DEF Working, Works, Strays
<1>20. changed' = FALSE
  BY <1>3
<1>21. Loaded
  BY <1>5, <1>8, <1>10, <1>11, <1>15, <1>16, <1>17, <1>18 DEF Loaded
<1> QED BY <1>19, <1>20, <1>21

LEMMA LoadedStays ==
  ASSUME ScheduleInv, UNCHANGED <<map, obj, slots, book>>
  PROVE  Loaded
<1>1. BookFits(book) /\ Grows(book, book) /\ Counted(book, slots)
  BY GrowsRefl DEF ScheduleInv
<1>2. \A c \in Crons, x \in Copies : ObjectFits(book, slots[c], c, obj[c][x])
  BY DEF ScheduleInv, ObjectsFit
<1> QED BY <1>1, <1>2, TypesAre DEF Loaded

LEMMA LoadedKeeps ==
  ASSUME ScheduleInv, Loaded, UNCHANGED <<file, fired, delivered, bounds>>,
         changed' \in BOOLEAN, stray' \in BOOLEAN, up' \in BOOLEAN,
         tick' \in [Ticks -> Tick], view' \in [Ticks -> [Crons -> Copies \cup {0}]],
         \A t \in Ticks :
           \/ /\ tick'[t].at = tick[t].at /\ tick'[t].due = tick[t].due
              /\ tick'[t].cron = tick[t].cron /\ tick'[t].slot = tick[t].slot
              /\ tick'[t].attempt = tick[t].attempt /\ tick'[t].last = tick[t].last
              /\ tick'[t].aborted = tick[t].aborted /\ view'[t] = view[t]
           \/ /\ tick[t].at = "idle" /\ tick'[t].at = "visit" /\ ~tick'[t].aborted
              /\ view'[t] = map' /\ \A c \in tick'[t].due : map'[c] # 0
  PROVE  ScheduleInv'
<1>1. CronTypeOK'
  BY TypesAre DEF CronTypeOK, Loaded, BookFits
<1>2. BookFits(book') /\ Counted(book', slots') /\ ObjectsFit'
  BY DEF Loaded, ObjectsFit
<1>3. MarksAreWorked'
  <2> SUFFICES ASSUME NEW c \in Crons, NEW x \in Copies, obj'[c][x].firing
               PROVE  \E t \in Ticks : Works(tick'[t]) /\ tick'[t].cron = c /\ view'[t][c] = x
    BY DEF MarksAreWorked
  <2>1. obj[c][x].firing
    BY DEF Loaded
  <2>2. PICK t \in Ticks : Works(tick[t]) /\ tick[t].cron = c /\ view[t][c] = x
    BY <2>1 DEF ScheduleInv, MarksAreWorked
  <2>3. tick[t].at # "idle"
    BY <2>2 DEF Works
  <2>4. tick'[t].at = tick[t].at /\ tick'[t].cron = tick[t].cron /\ view'[t] = view[t]
    BY <2>3
  <2> QED BY <2>2, <2>4 DEF Works
<1>4. TicksFit'
  <2> SUFFICES ASSUME NEW t \in Ticks PROVE TickFits(tick'[t], view'[t], map', book')
    BY DEF TicksFit
  <2>1. PICK k : k = tick'[t]
    OBVIOUS
  <2>2. TickFits(tick[t], view[t], map, book) /\ tick[t] \in Tick /\ BookFits(book)
    BY PlaceIs DEF ScheduleInv
  <2>3. BookFits(book') /\ Grows(book, book')
        /\ \A c \in Crons : map'[c] = 0 \/ map'[c] = map[c] \/ map'[c] # view[t][c]
    BY DEF Loaded
  <2>4. TickFits(tick[t], view[t], map', book')
    BY <2>2, <2>3, TickGrows
  <2>5. CASE /\ k.at = tick[t].at /\ k.due = tick[t].due /\ k.cron = tick[t].cron
             /\ k.slot = tick[t].slot /\ k.attempt = tick[t].attempt /\ k.last = tick[t].last
             /\ k.aborted = tick[t].aborted /\ view'[t] = view[t]
    <3>1. TickFits(k, view[t], map', book')
      BY <2>4, <2>5 DEF TickFits, Works
    <3> QED BY <2>1, <2>5, <3>1
  <2>6. CASE k.at = "visit" /\ ~k.aborted /\ view'[t] = map' /\ \A c \in k.due : map'[c] # 0
    <3>1. TickFits(k, map', map', book')
      BY <2>6 DEF TickFits, Works
    <3> QED BY <2>1, <2>6, <3>1
  <2> QED BY <2>1, <2>5, <2>6
<1> QED BY <1>1, <1>2, <1>3, <1>4 DEF ScheduleInv

LEMMA ReloadsIs ==
  ASSUME ScheduleInv, Reloads
  PROVE  Loaded /\ changed' = FALSE /\ stray' = (stray \/ Strays)
<1> DEFINE keeps == {c \in Crons : Kept(c)}
           copied == {c \in Crons : Copied(c)}
<1>1. Loads(keeps, copied)
  BY DEF Reloads
<1>2. \A c \in keeps : c \in Crons /\ map[c] # 0
  BY DEF Kept
<1>3. \A c \in copied : c \in Crons /\ map[c] # 0 /\ ~Held(c).firing
  BY DEF Copied
<1> HIDE DEF keeps, copied
<1> QED BY <1>1, <1>2, <1>3, LoadsIs

LEMMA StartsKeeps ==
  ASSUME ScheduleInv, Starts
  PROVE  ScheduleInv' /\ Loaded /\ stray' = (stray \/ Strays)
<1>1. Loaded /\ changed' = FALSE /\ stray' = (stray \/ Strays)
  BY LoadsIs DEF Starts
<1>2. UNCHANGED <<file, fired, tick, view, delivered, bounds>> /\ up' = TRUE
  BY DEF Starts
<1>3. stray' \in BOOLEAN
  BY <1>1, TypesAre
<1> QED BY <1>1, <1>2, <1>3, TypesAre, LoadedKeeps

LEMMA ReloadAskedKeeps ==
  ASSUME ScheduleInv, ReloadAsked
  PROVE  /\ ScheduleInv' /\ Loaded /\ stray' = (stray \/ Strays) /\ UNCHANGED <<view, delivered>>
         /\ \A t \in Ticks : /\ tick'[t].at = tick[t].at /\ tick'[t].cron = tick[t].cron
                             /\ tick'[t].slot = tick[t].slot /\ tick'[t].attempt = tick[t].attempt
                             /\ tick'[t].last = tick[t].last /\ tick'[t].aborted = tick[t].aborted
<1>1. Loaded /\ changed' = FALSE /\ stray' = (stray \/ Strays)
  BY ReloadsIs DEF ReloadAsked
<1>2. /\ UNCHANGED <<file, fired, up, view, delivered, bounds>>
      /\ tick' = [t \in Ticks |-> [tick[t] EXCEPT !.newest = FALSE]]
  BY DEF ReloadAsked
<1>3. stray' \in BOOLEAN
  BY <1>1, TypesAre
<1>4. ASSUME NEW t \in Ticks
      PROVE  /\ tick'[t] \in Tick /\ tick'[t].at = tick[t].at /\ tick'[t].due = tick[t].due
             /\ tick'[t].cron = tick[t].cron /\ tick'[t].slot = tick[t].slot
             /\ tick'[t].attempt = tick[t].attempt /\ tick'[t].last = tick[t].last
             /\ tick'[t].aborted = tick[t].aborted
  <2>1. tick'[t] = [tick[t] EXCEPT !.newest = FALSE]
    BY <1>2
  <2> QED BY <2>1, PlaceIs DEF Tick
<1>5. tick' \in [Ticks -> Tick]
  BY <1>2, <1>4
<1>6. ScheduleInv'
  BY <1>1, <1>2, <1>3, <1>4, <1>5, TypesAre, LoadedKeeps
<1> QED BY <1>1, <1>2, <1>4, <1>6

LEMMA TickBeginsKeeps ==
  ASSUME ScheduleInv, NEW t \in Ticks, TickBegins(t)
  PROVE  /\ ScheduleInv' /\ Loaded /\ UNCHANGED delivered
         /\ stray' = (stray \/ Strays) \/ UNCHANGED <<stray, map>>
         /\ tick'[t].at = "visit" /\ tick[t].at = "idle"
         /\ \A u \in Ticks : u # t =>
              /\ tick'[u].at = tick[u].at /\ tick'[u].cron = tick[u].cron
              /\ tick'[u].slot = tick[u].slot /\ tick'[u].attempt = tick[u].attempt
              /\ tick'[u].last = tick[u].last /\ tick'[u].aborted = tick[u].aborted
              /\ view'[u] = view[u]
<1>1. /\ Loaded /\ changed' \in BOOLEAN /\ stray' \in BOOLEAN
      /\ stray' = (stray \/ Strays) \/ UNCHANGED <<stray, map>>
  <2>1. CASE Reloads
    <3>1. Loaded /\ changed' = FALSE /\ stray' = (stray \/ Strays)
      BY <2>1, ReloadsIs
    <3> QED BY <3>1, TypesAre
  <2>2. CASE UNCHANGED <<map, obj, book, slots, changed, stray>>
    BY <2>2, LoadedStays, TypesAre
  <2> QED BY <2>1, <2>2 DEF TickBegins
<1>2. /\ UNCHANGED <<file, fired, up, delivered, bounds>> /\ view' = [view EXCEPT ![t] = map']
      /\ tick[t].at = "idle"
  BY DEF TickBegins
<1>3. /\ view' \in [Ticks -> [Crons -> Copies \cup {0}]] /\ view'[t] = map'
      /\ \A u \in Ticks : u # t => view'[u] = view[u]
  BY <1>1, <1>2, TypesAre DEF Loaded
<1>4. PICK due : due = {c \in Crons : map'[c] # 0 /\ obj'[c][map'[c]].due}
  OBVIOUS
<1>5. /\ tick'[t] \in Tick /\ tick'[t].at = "visit" /\ ~tick'[t].aborted
      /\ \A c \in tick'[t].due : map'[c] # 0
  <2>1. tick'[t] = [NoTick EXCEPT !.at = "visit", !.newest = TRUE, !.due = due]
    BY <1>4 DEF TickBegins
  <2>2. due \in SUBSET Crons /\ \A c \in due : map'[c] # 0
    BY <1>4
  <2>3. PICK k : k = [NoTick EXCEPT !.at = "visit", !.newest = TRUE, !.due = due]
    OBVIOUS
  <2>4. k \in Tick /\ k.at = "visit" /\ k.aborted = NoTick.aborted /\ k.due = due
    BY <2>2, <2>3, NoTickIs DEF Tick
  <2> QED BY <2>1, <2>2, <2>3, <2>4, NoTickIs
<1>6. ASSUME NEW u \in Ticks, u # t
      PROVE  /\ tick'[u] \in Tick /\ tick'[u].at = tick[u].at /\ tick'[u].due = tick[u].due
             /\ tick'[u].cron = tick[u].cron /\ tick'[u].slot = tick[u].slot
             /\ tick'[u].attempt = tick[u].attempt /\ tick'[u].last = tick[u].last
             /\ tick'[u].aborted = tick[u].aborted
  <2>1. PICK newest : newest = (tick[u].newest /\ ~changed)
    OBVIOUS
  <2>2. tick'[u] = [tick[u] EXCEPT !.newest = newest]
    BY <1>6, <2>1 DEF TickBegins
  <2>3. tick[u] \in Tick
    BY PlaceIs
  <2>4. newest \in BOOLEAN
    BY <2>1
  <2> QED BY <2>2, <2>3, <2>4 DEF Tick
<1>7. tick' \in [Ticks -> Tick]
  <2>1. tick' = [u \in Ticks |-> tick'[u]]
    BY DEF TickBegins
  <2> QED BY <1>5, <1>6, <2>1
<1>8. ScheduleInv'
  <2>1. \A u \in Ticks :
           \/ /\ tick'[u].at = tick[u].at /\ tick'[u].due = tick[u].due
              /\ tick'[u].cron = tick[u].cron /\ tick'[u].slot = tick[u].slot
              /\ tick'[u].attempt = tick[u].attempt /\ tick'[u].last = tick[u].last
              /\ tick'[u].aborted = tick[u].aborted /\ view'[u] = view[u]
           \/ /\ tick[u].at = "idle" /\ tick'[u].at = "visit" /\ ~tick'[u].aborted
              /\ view'[u] = map' /\ \A c \in tick'[u].due : map'[c] # 0
    BY <1>2, <1>3, <1>5, <1>6
  <2>2. up' \in BOOLEAN
    BY <1>2, TypesAre
  <2> QED BY <1>1, <1>2, <1>3, <1>7, <2>1, <2>2, LoadedKeeps
<1> QED BY <1>1, <1>2, <1>3, <1>5, <1>6, <1>8

\* What follows holds as long as no fire goes on with an object that a reload has
\* replaced.  A fire that may still lead to a dispatch is a worker's.
Worker(t) == Works(tick[t]) /\ ~tick[t].aborted

\* The dispatch keys that were delivered, or may be by a tick whose scheduler was
\* stopped while it was dispatching.
Shots == delivered \cup {Key(t) : t \in {u \in Ticks : tick[u].aborted /\ tick[u].at = "dispatch"}}

\* A worker's object is the one in the Map, and marked.
Attached ==
  \A t \in Ticks : Worker(t) => /\ view[t][tick[t].cron] = map[tick[t].cron]
                                /\ obj[tick[t].cron][view[t][tick[t].cron]].firing

OneWorks == \A t, u \in Ticks : Worker(t) /\ Worker(u) /\ tick[t].cron = tick[u].cron => t = u

\* Nothing is ahead of a worker, and what may have been dispatched is its only attempt.
OnTheAttempt ==
  \A t \in Ticks : Worker(t) =>
    /\ Tried(book, tick[t].cron, tick[t].slot) <= tick[t].attempt
    /\ \A a \in 1..MaxTries :
         <<tick[t].cron, tick[t].slot, a>> \in Shots => a = tick[t].attempt /\ a = tick[t].last

\* No attempt is begun behind one that may have been dispatched.
ShotAsTried ==
  \A c \in Crons, s \in Slots, a \in 1..MaxTries :
    <<c, s, a>> \in Shots => Begun(book, c, s) /\ Tried(book, c, s) = a

\* An object waits for a slot that was not dispatched, or for a run that goes on
\* with its last attempt.
Untried(b, shots, c, o) ==
  /\ o.run = NoRun /\ o.slot # 0 =>
       Tried(b, c, o.slot) <= 1 /\ \A a \in 1..MaxTries : <<c, o.slot, a>> \notin shots
  /\ o.run # NoRun => Tried(b, c, o.run.slot) = o.run.attempt
  /\ o.run.state = "scheduled" => \A a \in 1..MaxTries : <<c, o.run.slot, a>> \notin shots

WaitingIsUntried ==
  \A c \in Crons :
    map[c] # 0 /\ ~obj[c][map[c]].firing => Untried(book, Shots, c, obj[c][map[c]])

StrictInv == Attached /\ OneWorks /\ OnTheAttempt /\ ShotAsTried /\ WaitingIsUntried

LEMMA ShotIs ==
  ASSUME NEW c, NEW s, NEW a
  PROVE  /\ <<c, s, a>> \in Shots <=>
              \/ <<c, s, a>> \in delivered
              \/ \E t \in Ticks : /\ tick[t].aborted /\ tick[t].at = "dispatch"
                                  /\ tick[t].cron = c /\ tick[t].slot = s /\ tick[t].attempt = a
<1>1. ASSUME NEW t \in Ticks
      PROVE  Key(t) = <<c, s, a>> <=> tick[t].cron = c /\ tick[t].slot = s /\ tick[t].attempt = a
  BY DEF Key
<1> QED BY <1>1 DEF Shots

\* Shots after a step in which no stopped tick comes to dispatching.
LEMMA ShotsShrink ==
  ASSUME delivered' = delivered,
         \A t \in Ticks : tick'[t].aborted /\ tick'[t].at = "dispatch"
            => /\ tick[t].aborted /\ tick[t].at = "dispatch" /\ tick'[t].cron = tick[t].cron
               /\ tick'[t].slot = tick[t].slot /\ tick'[t].attempt = tick[t].attempt
  PROVE  Shots' \subseteq Shots
<1> SUFFICES ASSUME NEW shot \in Shots' PROVE shot \in Shots
  OBVIOUS
<1>1. CASE shot \in delivered'
  BY <1>1 DEF Shots
<1>2. CASE shot \notin delivered'
  <2>1. PICK t \in Ticks : tick'[t].aborted /\ tick'[t].at = "dispatch" /\ shot = Key(t)'
    BY <1>2 DEF Shots
  <2>2. Key(t)' = Key(t)
    BY <2>1 DEF Key
  <2> QED BY <2>1, <2>2 DEF Shots
<1> QED BY <1>1, <1>2

LEMMA BegunIsKnown == \A b, c, s : Begun(b, c, s) => Known(b, c, s)
BY DEF Begun, Known

LEMMA RunIsKnown ==
  ASSUME ScheduleInv, NEW c \in Crons, NEW x \in Copies
  PROVE  /\ obj[c][x].slot \in Slots \cup {0}
         /\ obj[c][x].run # NoRun => /\ obj[c][x].run.slot \in Slots /\ Known(book, c, obj[c][x].run.slot)
                                     /\ obj[c][x].run.state \in {"scheduled", "started"}
                                     /\ obj[c][x].run.state = "scheduled" => obj[c][x].run.attempt = 1
         /\ obj[c][x].run = NoRun => obj[c][x].run.state = "none"
<1>1. ObjectFits(book, slots[c], c, obj[c][x])
  BY DEF ScheduleInv, ObjectsFit
<1> QED BY <1>1, NoRunFits DEF ObjectFits, RunFits, Object

\* A worker goes on with the attempt it is at and with its object in the Map.
WorkersStay ==
  \A t \in Ticks : Worker(t)' =>
    /\ Worker(t) /\ tick'[t].cron = tick[t].cron /\ tick'[t].slot = tick[t].slot
    /\ tick'[t].attempt = tick[t].attempt /\ tick'[t].last = tick[t].last
    /\ view'[t] = view[t] /\ map'[tick[t].cron] = map[tick[t].cron]
    /\ obj'[tick[t].cron][view[t][tick[t].cron]].firing

\* No attempt is counted but the first of a run that had no receipt.
TriesStay ==
  \A c \in Crons, s \in Slots :
    /\ Begun(book, c, s) => Begun(book', c, s)
    /\ \/ Tried(book', c, s) = Tried(book, c, s)
       \/ ~Known(book, c, s) /\ Tried(book', c, s) <= 1

\* What an object in the Map waits for it waited for before, or it is untried.
WaitingStays ==
  \A c \in Crons : map'[c] # 0 /\ ~obj'[c][map'[c]].firing =>
    \/ /\ map[c] # 0 /\ ~obj[c][map[c]].firing
       /\ obj'[c][map'[c]].slot = obj[c][map[c]].slot /\ obj'[c][map'[c]].run = obj[c][map[c]].run
    \/ Untried(book', Shots', c, obj'[c][map'[c]])

\* A step that starts nothing and takes up nothing.
LEMMA StrictKept ==
  ASSUME ScheduleInv, ScheduleInv', StrictInv,
         WorkersStay, Shots' \subseteq Shots, TriesStay, WaitingStays
  PROVE  StrictInv'
<1>1. Attached' /\ OneWorks'
  <2>1. Attached'
    <3>1. \A t \in Ticks : Worker(t) => view[t][tick[t].cron] = map[tick[t].cron]
      BY DEF StrictInv, Attached
    <3> QED BY <3>1 DEF Attached, WorkersStay
  <2>2. OneWorks'
    <3>1. \A t, u \in Ticks : Worker(t) /\ Worker(u) /\ tick[t].cron = tick[u].cron => t = u
      BY DEF StrictInv, OneWorks
    <3> QED BY <3>1 DEF OneWorks, WorkersStay
  <2> QED BY <2>1, <2>2
<1>2. OnTheAttempt'
  <2> SUFFICES ASSUME NEW t \in Ticks, Worker(t)'
               PROVE  /\ Tried(book', tick'[t].cron, tick'[t].slot) <= tick'[t].attempt
                      /\ \A a \in 1..MaxTries : <<tick'[t].cron, tick'[t].slot, a>> \in Shots'
                           => a = tick'[t].attempt /\ a = tick'[t].last
    BY DEF OnTheAttempt
  <2>1. /\ Worker(t) /\ tick'[t].cron = tick[t].cron /\ tick'[t].slot = tick[t].slot
        /\ tick'[t].attempt = tick[t].attempt /\ tick'[t].last = tick[t].last
    BY DEF WorkersStay
  <2>2. tick[t].cron \in Crons /\ tick[t].slot \in Slots /\ Known(book, tick[t].cron, tick[t].slot)
    BY <2>1, PlaceIs DEF Worker, TickFits
  <2>3. Tried(book', tick[t].cron, tick[t].slot) = Tried(book, tick[t].cron, tick[t].slot)
    BY <2>2 DEF TriesStay
  <2> QED BY <2>1, <2>3 DEF StrictInv, OnTheAttempt
<1>3. ShotAsTried'
  <2> SUFFICES ASSUME NEW c \in Crons, NEW s \in Slots, NEW a \in 1..MaxTries, <<c, s, a>> \in Shots'
               PROVE  Begun(book', c, s) /\ Tried(book', c, s) = a
    BY DEF ShotAsTried
  <2>1. Begun(book, c, s) /\ Tried(book, c, s) = a
    <3>1. <<c, s, a>> \in Shots /\ ShotAsTried
      BY DEF StrictInv
    <3> QED BY <3>1 DEF ShotAsTried
  <2> QED BY <2>1, BegunIsKnown DEF TriesStay
<1>4. WaitingIsUntried'
  <2> SUFFICES ASSUME NEW c \in Crons, map'[c] # 0, ~obj'[c][map'[c]].firing,
                      NEW o, o = obj'[c][map'[c]], NEW p, p = obj[c][map[c]],
                      map[c] # 0, ~p.firing, o.slot = p.slot, o.run = p.run
               PROVE  Untried(book', Shots', c, o)
    BY DEF WaitingIsUntried, WaitingStays
  <2>1. Untried(book, Shots, c, p)
    <3>1. WaitingIsUntried
      BY DEF StrictInv
    <3> QED BY <3>1 DEF WaitingIsUntried
  <2>2. map[c] \in Copies
    BY TypesAre
  <2>3. /\ p.slot \in Slots \cup {0}
        /\ p.run # NoRun => p.run.slot \in Slots /\ Known(book, c, p.run.slot)
        /\ p.run = NoRun => p.run.state = "none"
    BY <2>2, RunIsKnown
  <2>4. ASSUME o.run = NoRun, o.slot # 0
        PROVE  Tried(book', c, o.slot) <= 1 /\ \A a \in 1..MaxTries : <<c, o.slot, a>> \notin Shots'
    BY <2>1, <2>3, <2>4 DEF Untried, TriesStay
  <2>5. ASSUME o.run # NoRun PROVE Tried(book', c, o.run.slot) = o.run.attempt
    BY <2>1, <2>3, <2>5 DEF Untried, TriesStay
  <2>6. ASSUME o.run.state = "scheduled", NEW a \in 1..MaxTries PROVE <<c, o.run.slot, a>> \notin Shots'
    BY <2>1, <2>6 DEF Untried
  <2> QED BY <2>4, <2>5, <2>6 DEF Untried
<1> QED BY <1>1, <1>2, <1>3, <1>4 DEF StrictInv

\* A step of a worker, or of a tick that becomes one, with the run of slot s of cron c.
LEMMA WorkerMoves ==
  ASSUME ScheduleInv, ScheduleInv', StrictInv, NEW t \in Ticks, NEW c \in Crons, NEW s \in Slots,
         UNCHANGED <<map, view>>,
         \A u \in Ticks : u # t /\ Worker(u)' =>
           /\ Worker(u) /\ tick[u].cron # c
           /\ tick'[u].cron = tick[u].cron /\ tick'[u].slot = tick[u].slot
           /\ tick'[u].attempt = tick[u].attempt /\ tick'[u].last = tick[u].last,
         Worker(t)' =>
           /\ tick'[t].cron = c /\ tick'[t].slot = s /\ view[t][c] = map[c] /\ obj'[c][map[c]].firing
           /\ Tried(book', c, s) <= tick'[t].attempt
           /\ \A a \in 1..MaxTries : <<c, s, a>> \in Shots' => a = tick'[t].attempt /\ a = tick'[t].last,
         \A d \in Crons, x \in Slots : <<d, x>> # <<c, s>> => book'.latest[<<d, x>>] = book.latest[<<d, x>>],
         \A d \in Crons, x \in Slots, a \in 1..MaxTries :
           <<d, x, a>> \in Shots' => <<d, x, a>> \in Shots \/ (d = c /\ x = s),
         \A a \in 1..MaxTries : <<c, s, a>> \in Shots' => Begun(book', c, s) /\ Tried(book', c, s) = a,
         \A d \in Crons : d # c => obj'[d] = obj[d],
         map[c] # 0 /\ ~obj'[c][map[c]].firing => Untried(book', Shots', c, obj'[c][map[c]])
  PROVE  StrictInv'
<1>1. \A d \in Crons, x \in Slots : <<d, x>> # <<c, s>> =>
        Tried(book', d, x) = Tried(book, d, x) /\ (Begun(book, d, x) => Begun(book', d, x))
  BY DEF Tried, Begun
<1>2. \A u \in Ticks : u # t /\ Worker(u)' => tick[u].cron \in Crons /\ tick[u].slot \in Slots
  BY PlaceIs DEF Worker
<1>3. Attached'
  <2> SUFFICES ASSUME NEW u \in Ticks, Worker(u)'
               PROVE  /\ view[u][tick'[u].cron] = map[tick'[u].cron]
                      /\ obj'[tick'[u].cron][view[u][tick'[u].cron]].firing
    BY DEF Attached
  <2>1. CASE u = t
    BY <2>1
  <2>2. CASE u # t
    <3>1. Worker(u) /\ tick[u].cron # c /\ tick'[u].cron = tick[u].cron /\ tick[u].cron \in Crons
      BY <1>2, <2>2
    <3>2. /\ view[u][tick[u].cron] = map[tick[u].cron]
          /\ obj[tick[u].cron][view[u][tick[u].cron]].firing
      BY <3>1 DEF StrictInv, Attached
    <3> QED BY <3>1, <3>2
  <2> QED BY <2>1, <2>2
<1>4. OneWorks'
  BY DEF StrictInv, OneWorks
<1>5. OnTheAttempt'
  <2> SUFFICES ASSUME NEW u \in Ticks, Worker(u)'
               PROVE  /\ Tried(book', tick'[u].cron, tick'[u].slot) <= tick'[u].attempt
                      /\ \A a \in 1..MaxTries : <<tick'[u].cron, tick'[u].slot, a>> \in Shots'
                           => a = tick'[u].attempt /\ a = tick'[u].last
    BY DEF OnTheAttempt
  <2>1. CASE u = t
    BY <2>1
  <2>2. CASE u # t
    <3>1. PICK d, x : d = tick[u].cron /\ x = tick[u].slot
      OBVIOUS
    <3>2. /\ Worker(u) /\ d # c /\ tick'[u].cron = d /\ tick'[u].slot = x /\ d \in Crons /\ x \in Slots
          /\ tick'[u].attempt = tick[u].attempt /\ tick'[u].last = tick[u].last
      BY <1>2, <2>2, <3>1
    <3>3. Tried(book', d, x) = Tried(book, d, x)
      BY <1>1, <3>2
    <3>4. \A a \in 1..MaxTries : <<d, x, a>> \in Shots' => <<d, x, a>> \in Shots
      BY <3>2
    <3>5. /\ Tried(book, d, x) <= tick[u].attempt
          /\ \A a \in 1..MaxTries : <<d, x, a>> \in Shots => a = tick[u].attempt /\ a = tick[u].last
      BY <3>1, <3>2 DEF StrictInv, OnTheAttempt
    <3> QED BY <3>2, <3>3, <3>4, <3>5
  <2> QED BY <2>1, <2>2
<1>6. ShotAsTried'
  <2> SUFFICES ASSUME NEW d \in Crons, NEW x \in Slots, NEW a \in 1..MaxTries, <<d, x, a>> \in Shots'
               PROVE  Begun(book', d, x) /\ Tried(book', d, x) = a
    BY DEF ShotAsTried
  <2>1. CASE d = c /\ x = s
    BY <2>1
  <2>2. CASE d # c \/ x # s
    <3>1. <<d, x, a>> \in Shots /\ <<d, x>> # <<c, s>>
      BY <2>2
    <3>2. Begun(book, d, x) /\ Tried(book, d, x) = a
      BY <3>1 DEF StrictInv, ShotAsTried
    <3> QED BY <1>1, <3>1, <3>2
  <2> QED BY <2>1, <2>2
<1>7. WaitingIsUntried'
  <2> SUFFICES ASSUME NEW d \in Crons, map[d] # 0, ~obj'[d][map[d]].firing
               PROVE  Untried(book', Shots', d, obj'[d][map[d]])
    BY DEF WaitingIsUntried
  <2>1. CASE d = c
    BY <2>1
  <2>2. CASE d # c
    <3>1. PICK o : o = obj[d][map[d]]
      OBVIOUS
    <3>2. obj'[d][map[d]] = o /\ ~o.firing /\ map[d] \in Copies
      BY <2>2, <3>1, TypesAre
    <3>3. Untried(book, Shots, d, o)
      <4>1. WaitingIsUntried
        BY DEF StrictInv
      <4> QED BY <3>1, <3>2, <4>1 DEF WaitingIsUntried
    <3>4. /\ o.slot \in Slots \cup {0} /\ (o.run # NoRun => o.run.slot \in Slots)
          /\ (o.run = NoRun => o.run.state = "none")
      BY <3>1, <3>2, RunIsKnown
    <3>5. \A x \in Slots : /\ Tried(book', d, x) = Tried(book, d, x)
                           /\ \A a \in 1..MaxTries : <<d, x, a>> \in Shots' => <<d, x, a>> \in Shots
      BY <1>1, <2>2
    <3>6. Untried(book', Shots', d, o)
      BY <3>3, <3>4, <3>5 DEF Untried
    <3> QED BY <3>2, <3>6
  <2> QED BY <2>1, <2>2
<1> QED BY <1>3, <1>4, <1>5, <1>6, <1>7 DEF StrictInv

\* An object with a slot that was not yet computed, or with a run that is pending.
LEMMA FreshIsUntried ==
  ASSUME NEW b, BookFits(b), NEW shots, NEW c \in Crons, slots[c] \in 0..MaxSlots, Counted(b, slots),
         \A s \in Slots, a \in 1..MaxTries : <<c, s, a>> \in shots => Begun(b, c, s),
         NEW o, o.slot = NextSlot(c), o.run = NoRun \/ o.run = Active(b, c)
  PROVE  Untried(b, shots, c, o)
<1>1. o.slot \in Slots \cup {0} /\ (o.slot # 0 => o.slot \in Slots /\ o.slot > slots[c])
  BY NextSlotIs
<1>2. ASSUME o.run = NoRun, o.slot # 0
      PROVE  Tried(b, c, o.slot) <= 1 /\ \A a \in 1..MaxTries : <<c, o.slot, a>> \notin shots
  <2>1. o.slot \in Slots /\ ~(o.slot <= slots[c])
    BY <1>1, <1>2, NumbersAre
  <2>2. ~Known(b, c, o.slot)
    BY <2>1 DEF Counted
  <2>3. Tried(b, c, o.slot) = 0 /\ ~Begun(b, c, o.slot)
    BY <2>1, <2>2, BegunIsKnown DEF BookFits
  <2> QED BY <2>1, <2>3
<1>3. PICK run : run = o.run
  OBVIOUS
<1>4. ASSUME run # NoRun
      PROVE  /\ Tried(b, c, run.slot) = run.attempt /\ run.slot \in Slots
             /\ run.state = "scheduled" => ~Begun(b, c, run.slot)
  <2>1. run = Active(b, c)
    BY <1>3, <1>4
  <2>2. RunFits(b, c, run) /\ run.attempt = Tried(b, c, run.slot)
        /\ (run.state = "scheduled" <=> ~Begun(b, c, run.slot))
    BY <1>4, <2>1, ActiveIs
  <2> QED BY <1>4, <2>2 DEF RunFits
<1>5. ASSUME run.state = "scheduled", NEW a \in 1..MaxTries PROVE <<c, run.slot, a>> \notin shots
  <2>1. run # NoRun
    BY <1>5, NoRunFits
  <2> QED BY <1>4, <1>5, <2>1
<1> QED BY <1>2, <1>3, <1>4, <1>5 DEF Untried

\* A tick moves and nothing else does; it does not come to dispatching.
LEMMA StrictTurns ==
  ASSUME ScheduleInv, ScheduleInv', StrictInv, NEW t \in Ticks,
         UNCHANGED <<map, obj, view, book, delivered>>,
         \A u \in Ticks : u # t => tick'[u] = tick[u],
         tick'[t].aborted = tick[t].aborted, tick'[t].at # "dispatch",
         Worker(t)' => /\ Works(tick[t]) /\ tick'[t].cron = tick[t].cron /\ tick'[t].slot = tick[t].slot
                       /\ tick'[t].attempt = tick[t].attempt /\ tick'[t].last = tick[t].last
  PROVE  StrictInv'
<1>1. ASSUME NEW u \in Ticks, Worker(u)'
      PROVE  /\ Worker(u) /\ tick'[u].cron = tick[u].cron /\ tick'[u].slot = tick[u].slot
             /\ tick'[u].attempt = tick[u].attempt /\ tick'[u].last = tick[u].last
             /\ view'[u] = view[u] /\ map'[tick[u].cron] = map[tick[u].cron]
             /\ obj'[tick[u].cron][view[u][tick[u].cron]].firing
  <2>1. /\ Worker(u) /\ tick'[u].cron = tick[u].cron /\ tick'[u].slot = tick[u].slot
        /\ tick'[u].attempt = tick[u].attempt /\ tick'[u].last = tick[u].last
    <3>1. CASE u = t
      BY <1>1, <3>1 DEF Worker
    <3>2. CASE u # t
      BY <1>1, <3>2 DEF Worker
    <3> QED BY <3>1, <3>2
  <2> QED BY <2>1 DEF StrictInv, Attached
<1>2. Shots' \subseteq Shots
  BY ShotsShrink
<1>3. WorkersStay
  BY <1>1 DEF WorkersStay
<1>4. TriesStay
  BY DEF TriesStay
<1>5. WaitingStays
  BY DEF WaitingStays
<1> QED BY <1>2, <1>3, <1>4, <1>5, StrictKept

LEMMA TickBooksStrict ==
  ASSUME ScheduleInv, ScheduleInv', StrictInv, NEW t \in Ticks,
         NotScheduled(t) \/ IntendsNot(t) \/ DispatchFails(t) \/ (Wakes(t) /\ tick[t].aborted)
  PROVE  StrictInv'
<1>1. UNCHANGED <<map, obj, view, book, delivered>>
  BY DEF NotScheduled, IntendsNot, DispatchFails, Wakes
<1>2. tick[t] \in Tick /\ tick \in [Ticks -> Tick]
  BY PlaceIs, TypesAre
<1>3. CASE NotScheduled(t)
  <2>1. PICK due : due = {c \in tick[t].due : c > Least(Ready(t))}
    OBVIOUS
  <2>2. PICK k : k = [tick[t] EXCEPT !.due = due]
    OBVIOUS
  <2>3. k.at = "visit" /\ k.aborted = tick[t].aborted
    BY <1>2, <1>3, <2>2 DEF NotScheduled, Tick
  <2>4. tick' = [tick EXCEPT ![t] = k]
    BY <1>2, <1>3, <2>1, <2>2 DEF NotScheduled
  <2>5. tick'[t] = k /\ \A u \in Ticks : u # t => tick'[u] = tick[u]
    BY <1>2, <2>4
  <2>6. ~Worker(t)'
    BY <2>3, <2>5 DEF Worker, Works
  <2> QED BY <1>1, <2>3, <2>5, <2>6, StrictTurns
<1>4. ASSUME NEW stage \in {"backoff", "giveUp"}, TickGoes(t, stage), Works(tick[t])
      PROVE  StrictInv'
  <2>1. PICK k : k = [tick[t] EXCEPT !.at = stage]
    OBVIOUS
  <2>2. /\ k.at = stage /\ k.cron = tick[t].cron /\ k.slot = tick[t].slot /\ k.attempt = tick[t].attempt
        /\ k.last = tick[t].last /\ k.aborted = tick[t].aborted
    BY <1>2, <2>1 DEF Tick
  <2>3. tick' = [tick EXCEPT ![t] = k]
    BY <1>2, <1>4, <2>1 DEF TickGoes
  <2>4. tick'[t] = k /\ \A u \in Ticks : u # t => tick'[u] = tick[u]
    BY <1>2, <2>3
  <2> QED BY <1>1, <1>4, <2>2, <2>4, StrictTurns
<1>5. CASE IntendsNot(t)
  <2>1. TickGoes(t, "giveUp") /\ Works(tick[t])
    BY <1>5 DEF IntendsNot, Works
  <2> QED BY <1>4, <2>1
<1>6. CASE DispatchFails(t)
  <2>1. PICK stage : stage = IF tick[t].attempt < tick[t].last THEN "backoff" ELSE "giveUp"
    OBVIOUS
  <2>2. TickGoes(t, stage) /\ Works(tick[t])
    BY <1>6, <2>1 DEF DispatchFails, Works
  <2> QED BY <1>4, <2>1, <2>2
<1>7. CASE Wakes(t) /\ tick[t].aborted
  <2>1. TickGoes(t, "giveUp") /\ Works(tick[t])
    BY <1>7 DEF Wakes, Works, TickGoes
  <2> QED BY <1>4, <2>1
<1> QED BY <1>3, <1>5, <1>6, <1>7

LEMMA TickEndsStrict ==
  ASSUME ScheduleInv, ScheduleInv', StrictInv, NEW t \in Ticks, TickEnds(t)
  PROVE  StrictInv'
<1>1. /\ tick[t].at = "visit" /\ tick' = [tick EXCEPT ![t] = NoTick] /\ view' = [view EXCEPT ![t] = Off]
      /\ obj' = Reachable(obj, map, view') /\ UNCHANGED <<map, book, delivered>>
  BY DEF TickEnds
<1>2. /\ tick'[t] = NoTick /\ \A u \in Ticks : u # t => tick'[u] = tick[u] /\ view'[u] = view[u]
  BY <1>1, TypesAre
<1>3. ~Worker(t)' /\ tick'[t].at # "dispatch"
  BY <1>2, NoTickIs DEF Worker
<1>4. \A c \in Crons : map[c] # 0 => obj'[c][map[c]] = obj[c][map[c]]
  <2>1. \A c \in Crons : map[c] # 0 => map[c] \in Copies
    BY TypesAre
  <2> QED BY <1>1, <2>1, TypesAre, ReachableIs
<1>5. ASSUME NEW u \in Ticks, Worker(u)'
      PROVE  /\ Worker(u) /\ tick'[u] = tick[u] /\ view'[u] = view[u]
             /\ obj'[tick[u].cron][view[u][tick[u].cron]].firing
  <2>1. Worker(u) /\ tick'[u] = tick[u] /\ view'[u] = view[u]
    BY <1>2, <1>3, <1>5 DEF Worker
  <2>2. /\ view[u][tick[u].cron] = map[tick[u].cron]
        /\ obj[tick[u].cron][view[u][tick[u].cron]].firing
    BY <2>1 DEF StrictInv, Attached
  <2>3. tick[u].cron \in Crons /\ view[u][tick[u].cron] # 0
    BY <2>1, PlaceIs, NumbersAre DEF Worker
  <2> QED BY <1>4, <2>1, <2>2, <2>3
<1>6. Shots' \subseteq Shots
  BY <1>1, <1>2, <1>3, ShotsShrink
<1>7. \A c \in Crons, s \in Slots : /\ Begun(book, c, s) => Begun(book', c, s)
                                    /\ Tried(book', c, s) = Tried(book, c, s)
  BY <1>1
<1>8. WorkersStay
  BY <1>1, <1>5 DEF WorkersStay
<1>9. TriesStay
  BY <1>7 DEF TriesStay
<1>10. WaitingStays
  BY <1>1, <1>4 DEF WaitingStays
<1> QED BY <1>6, <1>8, <1>9, <1>10, StrictKept

\* No tick and no receipt of an attempt changes, and no object for more than its time.
LEMMA StillStrict ==
  ASSUME ScheduleInv, ScheduleInv', StrictInv, UNCHANGED <<map, tick, view, delivered>>,
         \A c \in Crons, s \in Slots : /\ Begun(book, c, s) => Begun(book', c, s)
                                       /\ Tried(book', c, s) = Tried(book, c, s),
         \A d \in Crons, x \in Copies : /\ obj'[d][x].firing = obj[d][x].firing
                                        /\ obj'[d][x].slot = obj[d][x].slot
                                        /\ obj'[d][x].run = obj[d][x].run
  PROVE  StrictInv'
<1>1. ASSUME NEW u \in Ticks, Worker(u)'
      PROVE  Worker(u) /\ obj'[tick[u].cron][view[u][tick[u].cron]].firing
  <2>1. Worker(u) /\ tick'[u] = tick[u]
    BY <1>1 DEF Worker
  <2>2. tick[u].cron \in Crons /\ view[u][tick[u].cron] \in Copies
    BY <2>1, PlaceIs DEF Worker
  <2>3. obj[tick[u].cron][view[u][tick[u].cron]].firing
    BY <2>1 DEF StrictInv, Attached
  <2> QED BY <2>1, <2>2, <2>3
<1>2. Shots' \subseteq Shots
  BY ShotsShrink
<1>3. \A c \in Crons : map[c] # 0 => map[c] \in Copies
  BY TypesAre
<1>4. WorkersStay
  BY <1>1 DEF WorkersStay
<1>5. TriesStay
  BY DEF TriesStay
<1>6. WaitingStays
  BY <1>3 DEF WaitingStays
<1> QED BY <1>2, <1>4, <1>5, <1>6, StrictKept

LEMMA OutsideStrict ==
  ASSUME ScheduleInv, StrictInv, NEW c \in Crons,
         TimePasses(c) \/ Edits(c) \/ \E s \in Slots : Reconciles(c, s)
  PROVE  StrictInv' /\ ScheduleInv'
<1>1. CASE TimePasses(c)
  <2>1. UNCHANGED <<map, tick, view, delivered, book>>
    BY <1>1 DEF TimePasses
  <2>2. /\ ScheduleInv'
        /\ \A d \in Crons, x \in Copies : /\ obj'[d][x].firing = obj[d][x].firing
                                          /\ obj'[d][x].slot = obj[d][x].slot
                                          /\ obj'[d][x].run = obj[d][x].run
    BY <1>1, TimePassesKeeps
  <2> QED BY <2>1, <2>2, StillStrict
<1>2. CASE Edits(c)
  <2>1. UNCHANGED <<map, tick, view, delivered, book, obj>> /\ ScheduleInv'
    BY <1>2, EditsKeeps DEF Edits
  <2> QED BY <2>1, StillStrict
<1>3. ASSUME NEW s \in Slots, Reconciles(c, s) PROVE StrictInv' /\ ScheduleInv'
  <2>1. UNCHANGED <<map, tick, view, delivered, obj>>
    BY <1>3 DEF Reconciles
  <2>2. /\ ScheduleInv' /\ Grows(book, book')
        /\ \A d \in Crons, x \in Slots : Tried(book', d, x) = Tried(book, d, x)
    BY <1>3, ReconcilesKeeps
  <2>3. \A d \in Crons, x \in Slots : Begun(book, d, x) => Begun(book', d, x)
    BY <2>2 DEF Grows
  <2> QED BY <2>1, <2>2, <2>3, StillStrict
<1> QED BY <1>1, <1>2, <1>3

\* What loadCrons leaves a worker and puts into the Map.
LEMMA LoadedStrict ==
  ASSUME ScheduleInv, ScheduleInv', StrictInv, Loaded, UNCHANGED delivered,
         ~Strays \/ UNCHANGED map,
         \A t \in Ticks :
           \/ /\ tick'[t].at = tick[t].at /\ tick'[t].cron = tick[t].cron
              /\ tick'[t].slot = tick[t].slot /\ tick'[t].attempt = tick[t].attempt
              /\ tick'[t].last = tick[t].last /\ tick'[t].aborted = tick[t].aborted /\ view'[t] = view[t]
           \/ tick'[t].at = "visit"
  PROVE  StrictInv'
<1>1. ASSUME NEW u \in Ticks, Worker(u)'
      PROVE  /\ Worker(u) /\ tick'[u].cron = tick[u].cron /\ tick'[u].slot = tick[u].slot
             /\ tick'[u].attempt = tick[u].attempt /\ tick'[u].last = tick[u].last
             /\ view'[u] = view[u] /\ map'[tick[u].cron] = map[tick[u].cron]
             /\ obj'[tick[u].cron][view[u][tick[u].cron]].firing
  <2>1. tick'[u].at # "visit"
    BY <1>1 DEF Worker, Works
  <2>2. /\ tick'[u].at = tick[u].at /\ tick'[u].cron = tick[u].cron
        /\ tick'[u].slot = tick[u].slot /\ tick'[u].attempt = tick[u].attempt
        /\ tick'[u].last = tick[u].last /\ tick'[u].aborted = tick[u].aborted /\ view'[u] = view[u]
    BY <2>1
  <2>3. Worker(u)
    BY <1>1, <2>2 DEF Worker, Works
  <2>4. PICK c, x : c = tick[u].cron /\ x = view[u][c]
    OBVIOUS
  <2>5. c \in Crons /\ x \in Copies
    BY <2>3, <2>4, PlaceIs DEF Worker
  <2>6. x = map[c] /\ obj[c][x].firing
    BY <2>3, <2>4 DEF StrictInv, Attached
  <2>7. obj'[c][x] = obj[c][x]
    <3>1. \E t \in Ticks : view[t][c] = x
      BY <2>4
    <3>2. ASSUME \A d \in Crons, y \in Copies : (\E t \in Ticks : view[t][d] = y) => obj'[d][y] = obj[d][y]
          PROVE  obj'[c][x] = obj[c][x]
      BY <2>5, <3>1, <3>2
    <3> QED BY <3>2 DEF Loaded
  <2>8. map'[c] = map[c]
    BY <2>3, <2>4, <2>6 DEF Strays, Worker
  <2> QED BY <2>2, <2>3, <2>4, <2>6, <2>7, <2>8
<1>2. Shots' \subseteq Shots
  <2>1. ASSUME NEW t \in Ticks, tick'[t].aborted, tick'[t].at = "dispatch"
        PROVE  /\ tick[t].aborted /\ tick[t].at = "dispatch" /\ tick'[t].cron = tick[t].cron
               /\ tick'[t].slot = tick[t].slot /\ tick'[t].attempt = tick[t].attempt
    BY <2>1
  <2> QED BY <2>1, ShotsShrink
<1>3. \A c \in Crons, s \in Slots : /\ Begun(book, c, s) => Begun(book', c, s)
                                    /\ Tried(book', c, s) = Tried(book, c, s)
                                    /\ Known(book', c, s) = Known(book, c, s)
  BY DEF Loaded, Grows
<1>4. ASSUME NEW c \in Crons, map'[c] # 0, ~obj'[c][map'[c]].firing
      PROVE  \/ /\ map[c] # 0 /\ ~obj[c][map[c]].firing
                /\ obj'[c][map'[c]].slot = obj[c][map[c]].slot /\ obj'[c][map'[c]].run = obj[c][map[c]].run
             \/ Untried(book', Shots', c, obj'[c][map'[c]])
  <2>1. CASE map[c] # 0 /\ obj'[c][map'[c]] = obj[c][map[c]]
    BY <1>4, <2>1
  <2>2. CASE /\ obj'[c][map'[c]].slot = NextSlot(c)
             /\ obj'[c][map'[c]].run = NoRun \/ obj'[c][map'[c]].run = Active(book', c)
    <3>1. PICK b, shots, o : b = book' /\ shots = Shots' /\ o = obj'[c][map'[c]]
      OBVIOUS
    <3>2. BookFits(b) /\ o.slot = NextSlot(c) /\ (o.run = NoRun \/ o.run = Active(b, c))
      BY <2>2, <3>1 DEF Loaded
    <3>3. Counted(b, slots) /\ slots[c] \in 0..MaxSlots
      <4>1. Counted(book, slots)
        BY DEF ScheduleInv
      <4> QED BY <1>3, <3>1, <4>1, TypesAre DEF Counted
    <3>4. \A s \in Slots, a \in 1..MaxTries : <<c, s, a>> \in shots => Begun(b, c, s)
      BY <1>2, <1>3, <3>1 DEF StrictInv, ShotAsTried
    <3>5. Untried(b, shots, c, o)
      BY <3>2, <3>3, <3>4, FreshIsUntried
    <3> QED BY <3>1, <3>5
  <2> QED BY <1>4, <2>1, <2>2 DEF Loaded
<1>5. WorkersStay
  BY <1>1 DEF WorkersStay
<1>6. TriesStay
  BY <1>3 DEF TriesStay
<1>7. WaitingStays
  BY <1>4 DEF WaitingStays
<1> QED BY <1>2, <1>5, <1>6, <1>7, StrictKept

LEMMA LoadsStrict ==
  ASSUME ScheduleInv, StrictInv, ~stray',
         Starts \/ ReloadAsked \/ \E t \in Ticks : TickBegins(t)
  PROVE  StrictInv'
<1>1. CASE Starts
  <2>1. ScheduleInv' /\ Loaded /\ ~Strays /\ UNCHANGED <<tick, view, delivered>>
    BY <1>1, StartsKeeps DEF Starts
  <2> QED BY <2>1, LoadedStrict
<1>2. CASE ReloadAsked
  <2>1. /\ ScheduleInv' /\ Loaded /\ ~Strays /\ UNCHANGED <<view, delivered>>
        /\ \A t \in Ticks : /\ tick'[t].at = tick[t].at /\ tick'[t].cron = tick[t].cron
                            /\ tick'[t].slot = tick[t].slot /\ tick'[t].attempt = tick[t].attempt
                            /\ tick'[t].last = tick[t].last /\ tick'[t].aborted = tick[t].aborted
    BY <1>2, ReloadAskedKeeps
  <2> QED BY <2>1, LoadedStrict
<1>3. ASSUME NEW t \in Ticks, TickBegins(t) PROVE StrictInv'
  <2>1. /\ ScheduleInv' /\ Loaded /\ UNCHANGED delivered
        /\ ~Strays \/ UNCHANGED map
        /\ tick'[t].at = "visit"
        /\ \A u \in Ticks : u # t =>
             /\ tick'[u].at = tick[u].at /\ tick'[u].cron = tick[u].cron
             /\ tick'[u].slot = tick[u].slot /\ tick'[u].attempt = tick[u].attempt
             /\ tick'[u].last = tick[u].last /\ tick'[u].aborted = tick[u].aborted
             /\ view'[u] = view[u]
    BY <1>3, TickBeginsKeeps
  <2>2. \A u \in Ticks :
           \/ /\ tick'[u].at = tick[u].at /\ tick'[u].cron = tick[u].cron
              /\ tick'[u].slot = tick[u].slot /\ tick'[u].attempt = tick[u].attempt
              /\ tick'[u].last = tick[u].last /\ tick'[u].aborted = tick[u].aborted /\ view'[u] = view[u]
           \/ tick'[u].at = "visit"
    BY <2>1
  <2> QED BY <2>1, <2>2, LoadedStrict
<1> QED BY <1>1, <1>2, <1>3

LEMMA DaemonDiesStrict ==
  ASSUME ScheduleInv, StrictInv, DaemonDies
  PROVE  StrictInv'
<1>1. ScheduleInv' /\ (\A t \in Ticks : tick'[t] = NoTick)
      /\ UNCHANGED <<book, delivered>> /\ map' = Off
  BY DaemonDiesKeeps DEF DaemonDies
<1>2. \A t \in Ticks : ~Worker(t)' /\ ~tick'[t].aborted
  BY <1>1, NoTickIs DEF Worker
<1>3. Shots' \subseteq Shots
  BY <1>1, <1>2, ShotsShrink
<1>4. \A c \in Crons : map'[c] = 0
  BY <1>1, OffIs
<1>5. WorkersStay
  BY <1>2 DEF WorkersStay
<1>6. TriesStay
  BY <1>1 DEF TriesStay
<1>7. WaitingStays
  BY <1>4 DEF WaitingStays
<1> QED BY <1>1, <1>3, <1>5, <1>6, <1>7, StrictKept

\* A stop in the middle of a dispatch: the key may be delivered or not.
LEMMA StopsStrict ==
  ASSUME ScheduleInv, StrictInv, Stops
  PROVE  StrictInv'
<1>1. UNCHANGED <<book, delivered>> /\ map' = Off
  BY DEF Stops
<1>2. \A t \in Ticks : ~Worker(t)'
  <2> SUFFICES ASSUME NEW t \in Ticks PROVE ~(Works(tick'[t]) /\ ~tick'[t].aborted)
    BY DEF Worker
  <2> QED BY StoppedIs DEF Works
<1>3. ShotAsTried'
  <2> SUFFICES ASSUME NEW c \in Crons, NEW s \in Slots, NEW a \in 1..MaxTries, <<c, s, a>> \in Shots'
               PROVE  Begun(book', c, s) /\ Tried(book', c, s) = a
    BY DEF ShotAsTried
  <2>1. CASE <<c, s, a>> \in Shots
    BY <1>1, <2>1 DEF StrictInv, ShotAsTried
  <2>2. CASE <<c, s, a>> \notin Shots
    <3>1. <<c, s, a>> \notin delivered'
      BY <1>1, <2>2 DEF Shots
    <3>2. PICK t \in Ticks : tick'[t].at = "dispatch" /\ <<c, s, a>> = Key(t)'
      BY <3>1 DEF Shots
    <3>3. /\ tick[t].at = "dispatch" /\ tick'[t].cron = tick[t].cron /\ tick'[t].slot = tick[t].slot
          /\ tick'[t].attempt = tick[t].attempt
      BY <3>2, StoppedIs
    <3>4. tick[t].cron = c /\ tick[t].slot = s /\ tick[t].attempt = a
      BY <3>2, <3>3 DEF Key
    <3>5. ~tick[t].aborted
      BY <2>2, <3>3, <3>4, ShotIs
    <3>6. Worker(t)
      BY <3>3, <3>5 DEF Worker, Works
    <3>7. a <= Tried(book, c, s) /\ Begun(book, c, s)
      <4>1. TickFits(tick[t], view[t], map, book)
        BY PlaceIs
      <4> QED BY <3>3, <3>4, <4>1 DEF TickFits
    <3>8. Tried(book, c, s) <= a
      BY <3>4, <3>6 DEF StrictInv, OnTheAttempt
    <3>9. Tried(book, c, s) \in 0..MaxTries
      BY ReceiptsAre DEF ScheduleInv, BookFits, Tried
    <3> QED BY <1>1, <3>7, <3>8, <3>9, NumbersAre
  <2> QED BY <2>1, <2>2
<1>4. \A c \in Crons : map'[c] = 0
  BY <1>1, OffIs
<1>5. Attached' /\ OneWorks' /\ OnTheAttempt' /\ WaitingIsUntried'
  BY <1>2, <1>4 DEF Attached, OneWorks, OnTheAttempt, WaitingIsUntried
<1> QED BY <1>3, <1>5 DEF StrictInv

\* A worker is alone with its cron and behind nobody; the tick of a stopped
\* scheduler has no object in the Map.
LEMMA AloneIs ==
  ASSUME ScheduleInv, StrictInv, NEW t \in Ticks, Works(tick[t]), NEW c, c = tick[t].cron
  PROVE  /\ c \in Crons /\ tick[t].slot \in Slots /\ tick[t].attempt \in 1..MaxTries
         /\ Known(book, c, tick[t].slot)
         /\ ~tick[t].aborted =>
              /\ view[t][c] = map[c] /\ map[c] \in Copies /\ obj[c][map[c]].firing
              /\ Tried(book, c, tick[t].slot) <= tick[t].attempt
              /\ \A a \in 1..MaxTries :
                   <<c, tick[t].slot, a>> \in Shots => a = tick[t].attempt /\ a = tick[t].last
              /\ \A u \in Ticks : u # t /\ Worker(u) => tick[u].cron # c
         /\ tick[t].aborted => /\ tick[t].attempt <= Tried(book, c, tick[t].slot)
                               /\ map[c] = 0 \/ view[t][c] # map[c]
<1>1. /\ c \in Crons /\ tick[t].slot \in Slots /\ tick[t].attempt \in 1..MaxTries
      /\ view[t][c] \in Copies /\ TickFits(tick[t], view[t], map, book)
  BY PlaceIs
<1>2. Known(book, c, tick[t].slot)
  BY <1>1 DEF TickFits
<1>3. ASSUME ~tick[t].aborted
      PROVE  /\ view[t][c] = map[c] /\ obj[c][map[c]].firing
             /\ Tried(book, c, tick[t].slot) <= tick[t].attempt
             /\ \A a \in 1..MaxTries :
                  <<c, tick[t].slot, a>> \in Shots => a = tick[t].attempt /\ a = tick[t].last
             /\ \A u \in Ticks : u # t /\ Worker(u) => tick[u].cron # c
  <2>1. Worker(t)
    BY <1>3 DEF Worker
  <2>2. view[t][c] = map[c] /\ obj[c][map[c]].firing
    BY <2>1 DEF StrictInv, Attached
  <2>3. /\ Tried(book, c, tick[t].slot) <= tick[t].attempt
        /\ \A a \in 1..MaxTries :
             <<c, tick[t].slot, a>> \in Shots => a = tick[t].attempt /\ a = tick[t].last
    BY <2>1 DEF StrictInv, OnTheAttempt
  <2>4. \A u \in Ticks : u # t /\ Worker(u) => tick[u].cron # c
    BY <2>1 DEF StrictInv, OneWorks
  <2> QED BY <2>2, <2>3, <2>4
<1>4. tick[t].aborted => /\ tick[t].attempt <= Tried(book, c, tick[t].slot)
                         /\ map[c] = 0 \/ view[t][c] # map[c]
  BY <1>1 DEF TickFits
<1> QED BY <1>1, <1>2, <1>3, <1>4

LEMMA IntendsStrict ==
  ASSUME ScheduleInv, StrictInv, NEW t \in Ticks, Intends(t)
  PROVE  StrictInv'
<1>1. PICK c, s, a : c = tick[t].cron /\ s = tick[t].slot /\ a = tick[t].attempt
  OBVIOUS
<1>2. /\ tick[t].at = "intent" /\ ~tick[t].aborted /\ Works(tick[t])
      /\ Grants(book, Row(c, s, "started", a)) /\ book' = With(book, Row(c, s, "started", a))
      /\ TickGoes(t, "dispatch")
      /\ UNCHANGED <<map, obj, view, delivered>>
  BY <1>1 DEF Intends, Started, Works
<1>3. PICK k : k = [tick[t] EXCEPT !.at = "dispatch"]
  OBVIOUS
<1>4. /\ k.at = "dispatch" /\ k.cron = c /\ k.slot = s /\ k.attempt = a /\ k.last = tick[t].last
      /\ k.aborted = tick[t].aborted
  BY <1>1, <1>3, PlaceIs DEF Tick
<1>5. tick'[t] = k /\ \A u \in Ticks : u # t => tick'[u] = tick[u]
  <2>1. tick' = [tick EXCEPT ![t] = k]
    BY <1>2, <1>3, TypesAre DEF TickGoes
  <2> QED BY <2>1, TypesAre
<1>6. /\ c \in Crons /\ s \in Slots /\ a \in 1..MaxTries
      /\ view[t][c] = map[c] /\ map[c] \in Copies /\ obj[c][map[c]].firing
      /\ Tried(book, c, s) <= a
      /\ \A b \in 1..MaxTries : <<c, s, b>> \in Shots => b = a /\ b = tick[t].last
      /\ \A u \in Ticks : u # t /\ Worker(u) => tick[u].cron # c
  BY <1>1, <1>2, AloneIs
<1>7. /\ \A d \in Crons, x \in Slots : <<d, x>> # <<c, s>> => book'.latest[<<d, x>>] = book.latest[<<d, x>>]
      /\ Begun(book', c, s) /\ Tried(book', c, s) = a
  <2>1. BookFits(book) /\ "started" \in R!States
    BY ReceiptsAre DEF ScheduleInv
  <2>2. PICK n : n = With(book, Row(c, s, "started", a))
    OBVIOUS
  <2>3. /\ \A d \in Crons, x \in Slots : <<d, x>> # <<c, s>> => n.latest[<<d, x>>] = book.latest[<<d, x>>]
        /\ Begun(n, c, s)
        /\ Tried(n, c, s) = IF a >= Tried(book, c, s) THEN a ELSE Tried(book, c, s)
    BY <1>2, <1>6, <2>1, <2>2, WithIs
  <2>4. Tried(book, c, s) \in 0..MaxTries
    BY <1>6, ReceiptsAre DEF ScheduleInv, BookFits, Tried
  <2>5. a >= Tried(book, c, s)
    BY <1>6, <2>4, NumbersAre
  <2> QED BY <1>2, <2>2, <2>3, <2>5
<1>8. Shots' \subseteq Shots
  BY <1>2, <1>4, <1>5, ShotsShrink
<1>9. ScheduleInv'
  BY IntendsKeeps
<1>10. \A u \in Ticks : u # t /\ Worker(u)' =>
         /\ Worker(u) /\ tick[u].cron # c
         /\ tick'[u].cron = tick[u].cron /\ tick'[u].slot = tick[u].slot
         /\ tick'[u].attempt = tick[u].attempt /\ tick'[u].last = tick[u].last
  BY <1>5, <1>6 DEF Worker
<1>11. MaxTries \in Nat /\ a <= a
  BY <1>6, NumbersAre
<1> QED BY <1>2, <1>4, <1>5, <1>6, <1>7, <1>8, <1>9, <1>10, <1>11, WorkerMoves

LEMMA WakesStrict ==
  ASSUME ScheduleInv, StrictInv, NEW t \in Ticks, Wakes(t), ~tick[t].aborted
  PROVE  StrictInv'
<1>1. PICK c, s, a, next : c = tick[t].cron /\ s = tick[t].slot /\ a = tick[t].attempt /\ next = tick[t].attempt + 1
  OBVIOUS
<1>2. /\ tick[t].at = "backoff" /\ Works(tick[t])
      /\ tick' = [tick EXCEPT ![t].at = "intent", ![t].attempt = next]
      /\ UNCHANGED <<map, obj, view, book, delivered>>
  BY <1>1 DEF Wakes, Works
<1>3. PICK k : k = [tick[t] EXCEPT !.at = "intent", !.attempt = next]
  OBVIOUS
<1>4. /\ k.at = "intent" /\ k.cron = c /\ k.slot = s /\ k.attempt = next /\ k.last = tick[t].last
      /\ k.aborted = tick[t].aborted
  BY <1>1, <1>3, PlaceIs DEF Tick
<1>5. tick'[t] = k /\ \A u \in Ticks : u # t => tick'[u] = tick[u]
  <2>1. tick' = [tick EXCEPT ![t] = k]
    BY <1>2, <1>3, TypesAre
  <2> QED BY <2>1, TypesAre
<1>6. /\ c \in Crons /\ s \in Slots /\ a \in 1..MaxTries
      /\ view[t][c] = map[c] /\ map[c] \in Copies /\ obj[c][map[c]].firing
      /\ Tried(book, c, s) <= a
      /\ \A b \in 1..MaxTries : <<c, s, b>> \in Shots => b = a /\ b = tick[t].last
      /\ \A u \in Ticks : u # t /\ Worker(u) => tick[u].cron # c
  BY <1>1, <1>2, AloneIs
<1>7. a < tick[t].last
  <2>1. TickFits(tick[t], view[t], map, book)
    BY PlaceIs
  <2> QED BY <1>1, <1>2, <2>1 DEF TickFits
<1>8. \A b \in 1..MaxTries : <<c, s, b>> \notin Shots
  <2>1. tick[t].last \in 0..MaxTries
    BY PlaceIs DEF Tick
  <2> QED BY <1>6, <1>7, <2>1, NumbersAre
<1>9. Tried(book, c, s) <= next
  <2>1. Tried(book, c, s) \in 0..MaxTries
    BY <1>6, ReceiptsAre DEF ScheduleInv, BookFits, Tried
  <2> QED BY <1>1, <1>6, <2>1, NumbersAre
<1>10. Shots' \subseteq Shots
  BY <1>2, <1>4, <1>5, ShotsShrink
<1>11. ScheduleInv'
  BY WakesKeeps
<1>12. \A u \in Ticks : u # t /\ Worker(u)' =>
         /\ Worker(u) /\ tick[u].cron # c
         /\ tick'[u].cron = tick[u].cron /\ tick'[u].slot = tick[u].slot
         /\ tick'[u].attempt = tick[u].attempt /\ tick'[u].last = tick[u].last
  BY <1>5, <1>6 DEF Worker
<1> QED BY <1>2, <1>4, <1>5, <1>6, <1>8, <1>9, <1>10, <1>11, <1>12, WorkerMoves

\* The receipt of a slot that is taken up counts no attempt but the first.
LEMMA ScheduledIs ==
  ASSUME ScheduleInv, NEW c \in Crons, NEW s \in Slots, Grants(book, Row(c, s, "scheduled", 1)),
         NEW n, n = With(book, Row(c, s, "scheduled", 1))
  PROVE  /\ Grows(book, n)
         /\ \A d \in Crons, x \in Slots : <<d, x>> # <<c, s>> => n.latest[<<d, x>>] = book.latest[<<d, x>>]
         /\ Known(book, c, s) => Tried(n, c, s) = Tried(book, c, s) /\ Tried(book, c, s) \in 1..MaxTries
         /\ Tried(book, c, s) <= 1 => Tried(n, c, s) = 1
         /\ ~Known(book, c, s) => Tried(n, c, s) = 1
<1>1. BookFits(book) /\ "scheduled" \in R!States /\ 1 \in 1..MaxTries
  BY ReceiptsAre DEF ScheduleInv
<1>2. /\ Grows(book, n)
      /\ \A d \in Crons, x \in Slots : <<d, x>> # <<c, s>> => n.latest[<<d, x>>] = book.latest[<<d, x>>]
      /\ Tried(n, c, s) = IF 1 >= Tried(book, c, s) THEN 1 ELSE Tried(book, c, s)
  BY <1>1, WithIs
<1>3. /\ ~Known(book, c, s) => Tried(book, c, s) = 0
      /\ Known(book, c, s) => Tried(book, c, s) \in 1..MaxTries
  BY <1>1 DEF BookFits
<1>4. Tried(book, c, s) \in 0..MaxTries
  BY <1>3, NumbersAre
<1> QED BY <1>2, <1>3, <1>4, NumbersAre

LEMMA SchedulesStrict ==
  ASSUME ScheduleInv, StrictInv, NEW t \in Ticks, Schedules(t), ~stray'
  PROVE  StrictInv'
<1>1. PICK c : c = Least(Ready(t))
  OBVIOUS
<1>2. PICK o : o = Walked(t, c)
  OBVIOUS
<1>3. PICK s : s = IF o.run = NoRun THEN o.slot ELSE o.run.slot
  OBVIOUS
<1>4. /\ c \in Crons /\ s \in Slots
      /\ Grants(book, Row(c, s, "scheduled", 1)) /\ book' = With(book, Row(c, s, "scheduled", 1))
      /\ tick[t].at = "visit" /\ (tick[t].aborted \/ map[c] = view[t][c])
      /\ UNCHANGED <<map, view, delivered>>
  <2>1. /\ c \in Crons /\ s \in Slots
        /\ Grants(book, Row(c, s, "scheduled", 1)) /\ book' = With(book, Row(c, s, "scheduled", 1))
        /\ tick[t].at = "visit" /\ stray' = (stray \/ (~tick[t].aborted /\ map[c] # view[t][c]))
        /\ UNCHANGED <<file, fired, up, map, slots, view, delivered, bounds>>
    BY <1>1, <1>2, <1>3, TakenUpIs
  <2> QED BY <2>1
<1>5. PICK k \in Tick :
        /\ tick' = [tick EXCEPT ![t] = k] /\ k.at = "intent"
        /\ k.cron = c /\ k.slot = s /\ k.aborted = tick[t].aborted
        /\ k.attempt = IF o.run.state = "started" THEN o.run.attempt ELSE 1
        /\ k.last = IF o.run.state = "started" THEN o.run.attempt ELSE MaxTries
  BY <1>1, <1>2, <1>3, TakenUpIs
<1>6. PICK v : v = view[t][c]
  OBVIOUS
<1>7. PICK p \in Object : obj' = [obj EXCEPT ![c][v] = p] /\ p.firing
  BY <1>1, <1>2, <1>3, <1>6, TakenUpIs
<1>8. v \in Copies /\ o = obj[c][v] /\ ~o.firing
  <2>1. Ready(t) # {}
    BY DEF Schedules
  <2> QED BY <1>1, <1>2, <1>3, <1>6, <2>1, ReadyIs
<1>9. /\ obj'[c][v] = p /\ (\A d \in Crons : d # c => obj'[d] = obj[d])
      /\ \A d \in Crons, x \in Copies : d # c \/ x # v => obj'[d][x] = obj[d][x]
  BY <1>4, <1>7, <1>8, TypesAre
<1>10. tick'[t] = k /\ \A u \in Ticks : u # t => tick'[u] = tick[u]
  BY <1>5, TypesAre
<1>11. Shots' \subseteq Shots
  BY <1>4, <1>5, <1>10, ShotsShrink
<1>12. ScheduleInv'
  BY SchedulesKeeps
<1>13. /\ Grows(book, book')
       /\ \A d \in Crons, x \in Slots : <<d, x>> # <<c, s>> => book'.latest[<<d, x>>] = book.latest[<<d, x>>]
       /\ Known(book, c, s) => Tried(book', c, s) = Tried(book, c, s) /\ Tried(book, c, s) \in 1..MaxTries
       /\ Tried(book, c, s) <= 1 => Tried(book', c, s) = 1
       /\ ~Known(book, c, s) => Tried(book', c, s) = 1
  BY <1>4, ScheduledIs
<1>14. CASE tick[t].aborted
  <2>1. map[c] = 0 \/ v # map[c]
    BY <1>4, <1>6, <1>14, PlaceIs DEF TickFits
  <2>2. ASSUME NEW u \in Ticks, Worker(u)'
        PROVE  Worker(u) /\ tick'[u] = tick[u] /\ obj'[tick[u].cron][view[u][tick[u].cron]].firing
    <3>1. u # t
      BY <1>5, <1>10, <1>14, <2>2 DEF Worker
    <3>2. Worker(u) /\ tick'[u] = tick[u]
      BY <1>10, <2>2, <3>1 DEF Worker
    <3>3. obj[tick[u].cron][view[u][tick[u].cron]].firing
      BY <3>2 DEF StrictInv, Attached
    <3>4. tick[u].cron \in Crons /\ view[u][tick[u].cron] \in Copies
      BY <3>2, PlaceIs DEF Worker
    <3> QED BY <1>7, <1>9, <3>2, <3>3, <3>4
  <2>3. \A d \in Crons, x \in Slots :
          /\ Begun(book, d, x) => Begun(book', d, x)
          /\ \/ Tried(book', d, x) = Tried(book, d, x)
             \/ ~Known(book, d, x) /\ Tried(book', d, x) <= 1
    <3> SUFFICES ASSUME NEW d \in Crons, NEW x \in Slots
                 PROVE  \/ Tried(book', d, x) = Tried(book, d, x)
                        \/ ~Known(book, d, x) /\ Tried(book', d, x) <= 1
      BY <1>13 DEF Grows
    <3>1. CASE d = c /\ x = s
      BY <1>13, <3>1
    <3>2. CASE <<d, x>> # <<c, s>>
      BY <1>13, <3>2 DEF Tried
    <3> QED BY <3>1, <3>2
  <2>4. \A d \in Crons : map[d] # 0 => obj'[d][map[d]] = obj[d][map[d]]
    <3>1. \A d \in Crons : map[d] # 0 => map[d] \in Copies
      BY TypesAre
    <3> QED BY <1>9, <2>1, <3>1
  <2>5. WorkersStay
    BY <1>4, <2>2 DEF WorkersStay
  <2>6. TriesStay
    BY <2>3 DEF TriesStay
  <2>7. WaitingStays
    BY <1>4, <2>4 DEF WaitingStays
  <2> QED BY <1>11, <1>12, <2>5, <2>6, <2>7, StrictKept
<1>15. CASE ~tick[t].aborted
  <2>1. v = map[c] /\ map[c] # 0
    BY <1>4, <1>6, <1>8, <1>15, NumbersAre
  <2>2. Untried(book, Shots, c, o)
    BY <1>4, <1>8, <2>1 DEF StrictInv, WaitingIsUntried
  <2>3. /\ o.run # NoRun => /\ Known(book, c, o.run.slot) /\ o.run.state \in {"scheduled", "started"}
                            /\ o.run.state = "scheduled" => o.run.attempt = 1
        /\ o.run = NoRun => o.run.state = "none"
    BY <1>4, <1>8, RunIsKnown
  <2>4. /\ Tried(book', c, s) <= k.attempt
        /\ \A a \in 1..MaxTries : <<c, s, a>> \in Shots => a = k.attempt /\ a = k.last
    <3>1. CASE o.run = NoRun
      <4>1. s = o.slot /\ s # 0
        BY <1>3, <1>4, <3>1, NumbersAre
      <4>2. Tried(book, c, s) <= 1 /\ \A a \in 1..MaxTries : <<c, s, a>> \notin Shots
        BY <2>2, <3>1, <4>1 DEF Untried
      <4>3. k.attempt = 1
        BY <1>5, <2>3, <3>1
      <4> QED BY <1>13, <4>2, <4>3
    <3>2. CASE o.run # NoRun /\ o.run.state = "scheduled"
      <4>1. s = o.run.slot /\ o.run.attempt = 1
        BY <1>3, <2>3, <3>2
      <4>2. Tried(book, c, s) = 1 /\ \A a \in 1..MaxTries : <<c, s, a>> \notin Shots
        BY <2>2, <3>2, <4>1 DEF Untried
      <4>3. k.attempt = 1
        BY <1>5, <3>2
      <4> QED BY <1>13, <4>2, <4>3
    <3>3. CASE o.run # NoRun /\ o.run.state = "started"
      <4>1. s = o.run.slot /\ Known(book, c, s)
        BY <1>3, <2>3, <3>3
      <4>2. Tried(book, c, s) = o.run.attempt
        BY <2>2, <3>3, <4>1 DEF Untried
      <4>3. k.attempt = o.run.attempt /\ k.last = o.run.attempt
        BY <1>5, <3>3
      <4>4. \A a \in 1..MaxTries : <<c, s, a>> \in Shots => Tried(book, c, s) = a
        BY <1>4 DEF StrictInv, ShotAsTried
      <4>5. Tried(book', c, s) = Tried(book, c, s) /\ Tried(book, c, s) \in 1..MaxTries
        BY <1>13, <4>1
      <4>6. Tried(book', c, s) <= k.attempt
        BY <4>2, <4>3, <4>5, NumbersAre
      <4> QED BY <4>2, <4>3, <4>4, <4>6
    <3> QED BY <2>3, <3>1, <3>2, <3>3
  <2>5. \A a \in 1..MaxTries : <<c, s, a>> \in Shots => Begun(book', c, s) /\ Tried(book', c, s) = a
    <3>1. \A a \in 1..MaxTries : <<c, s, a>> \in Shots => Begun(book, c, s) /\ Tried(book, c, s) = a
      BY <1>4 DEF StrictInv, ShotAsTried
    <3>2. Begun(book, c, s) => Begun(book', c, s) /\ Known(book, c, s)
      BY <1>4, <1>13, BegunIsKnown DEF Grows
    <3> QED BY <1>13, <3>1, <3>2
  <2>6. ASSUME NEW u \in Ticks, u # t, Worker(u)'
        PROVE  /\ Worker(u) /\ tick[u].cron # c
               /\ tick'[u].cron = tick[u].cron /\ tick'[u].slot = tick[u].slot
               /\ tick'[u].attempt = tick[u].attempt /\ tick'[u].last = tick[u].last
    <3>1. Worker(u) /\ tick'[u] = tick[u]
      BY <1>10, <2>6 DEF Worker
    <3>2. view[u][tick[u].cron] = map[tick[u].cron] /\ obj[tick[u].cron][view[u][tick[u].cron]].firing
      BY <3>1 DEF StrictInv, Attached
    <3>3. tick[u].cron # c
      BY <1>8, <2>1, <3>2
    <3> QED BY <3>1, <3>3
  <2>7. Worker(t)' =>
          /\ tick'[t].cron = c /\ tick'[t].slot = s /\ view[t][c] = map[c] /\ obj'[c][map[c]].firing
          /\ Tried(book', c, s) <= tick'[t].attempt
          /\ \A a \in 1..MaxTries : <<c, s, a>> \in Shots' => a = tick'[t].attempt /\ a = tick'[t].last
    BY <1>5, <1>6, <1>7, <1>9, <1>10, <1>11, <2>1, <2>4
  <2>8. obj'[c][map[c]].firing
    BY <1>7, <1>9, <2>1
  <2>9. \A d \in Crons, x \in Slots, a \in 1..MaxTries :
          <<d, x, a>> \in Shots' => <<d, x, a>> \in Shots \/ (d = c /\ x = s)
    BY <1>11
  <2>10. \A a \in 1..MaxTries : <<c, s, a>> \in Shots' => Begun(book', c, s) /\ Tried(book', c, s) = a
    BY <1>11, <2>5
  <2>11. \A d \in Crons, x \in Slots :
           <<d, x>> # <<c, s>> => book'.latest[<<d, x>>] = book.latest[<<d, x>>]
    BY <1>13
  <2>12. UNCHANGED <<map, view>> /\ c \in Crons /\ s \in Slots
    BY <1>4
  <2>13. \A d \in Crons : d # c => obj'[d] = obj[d]
    BY <1>9
  <2> QED BY <1>12, <2>6, <2>7, <2>8, <2>9, <2>10, <2>11, <2>12, <2>13, WorkerMoves
<1> QED BY <1>14, <1>15

\* The fire of a worker is over, with the receipt of it or without.
LEMMA AdvancesStrict ==
  ASSUME ScheduleInv, ScheduleInv', StrictInv, NEW t \in Ticks, Works(tick[t]),
         NEW state \in {"dispatched", "failed"},
         NEW c, c = tick[t].cron, NEW s, s = tick[t].slot, NEW a, a = tick[t].attempt,
         NEW row, row = Row(c, s, state, a),
         NEW b, b = book \/ (Grants(book, row) /\ b = With(book, row)),
         NEW goesOn \in BOOLEAN, Advances(t, b, goesOn), UNCHANGED <<map, view>>,
         \/ delivered' = delivered
         \/ tick[t].at = "dispatch" /\ delivered' = delivered \cup {<<c, s, a>>}
  PROVE  StrictInv'
<1>1. BookFits(b) /\ Grows(book, b) /\ Counted(b, slots) /\ BookFits(book)
  BY ClosesIs DEF ScheduleInv
<1>2. PICK v : v = view[t][c]
  OBVIOUS
<1>a. Advanced(t, b, c, v)
  BY <1>1, <1>2, AdvancesIs
<1>3. /\ book' = b /\ c \in Crons /\ v \in Copies
      /\ obj' \in [Crons -> [Copies -> Object]]
      /\ \A d \in Crons, x \in Copies : d # c \/ x # v => obj'[d][x] = obj[d][x]
      /\ ~obj'[c][v].firing /\ obj'[c][v].slot = NextSlot(c)
      /\ obj'[c][v].run = NoRun \/ obj'[c][v].run = Active(b, c)
      /\ tick'[t].at = "visit"
      /\ \A u \in Ticks : u # t =>
           /\ tick'[u].at = tick[u].at /\ tick'[u].cron = tick[u].cron /\ tick'[u].slot = tick[u].slot
           /\ tick'[u].attempt = tick[u].attempt /\ tick'[u].last = tick[u].last
           /\ tick'[u].aborted = tick[u].aborted
  <2>1. /\ book' = b /\ c \in Crons /\ v \in Copies /\ tick'[t].at = "visit"
        /\ obj' \in [Crons -> [Copies -> Object]]
        /\ \A d \in Crons, x \in Copies : d # c \/ x # v => obj'[d][x] = obj[d][x]
    BY <1>a DEF Advanced
  <2>2. /\ ~obj'[c][v].firing /\ obj'[c][v].slot = NextSlot(c)
        /\ obj'[c][v].run = NoRun \/ obj'[c][v].run = Active(b, c)
    BY <1>a DEF Advanced
  <2>3. \A u \in Ticks : u # t =>
           /\ tick'[u].at = tick[u].at /\ tick'[u].cron = tick[u].cron /\ tick'[u].slot = tick[u].slot
           /\ tick'[u].attempt = tick[u].attempt /\ tick'[u].last = tick[u].last
           /\ tick'[u].aborted = tick[u].aborted
    BY <1>a DEF Advanced
  <2> QED BY <2>1, <2>2, <2>3
<1>4. /\ s \in Slots /\ a \in 1..MaxTries
      /\ ~tick[t].aborted =>
           /\ v = map[c] /\ Tried(book, c, s) <= a
           /\ \A x \in 1..MaxTries : <<c, s, x>> \in Shots => x = a
           /\ \A u \in Ticks : u # t /\ Worker(u) => tick[u].cron # c
      /\ tick[t].aborted => a <= Tried(book, c, s) /\ (map[c] = 0 \/ v # map[c])
  BY <1>2, AloneIs
<1>5. /\ \A d \in Crons, x \in Slots : <<d, x>> # <<c, s>> => b.latest[<<d, x>>] = book.latest[<<d, x>>]
      /\ Tried(b, c, s) = Tried(book, c, s) \/ (Tried(b, c, s) = a /\ a >= Tried(book, c, s))
  <2>1. state \in R!States /\ state # "scheduled"
    BY ReceiptsAre
  <2>2. CASE Grants(book, row) /\ b = With(book, row)
    <3>1. /\ BookFits(book) /\ c \in Crons /\ s \in Slots /\ a \in 1..MaxTries
          /\ Grants(book, Row(c, s, state, a)) /\ b = With(book, Row(c, s, state, a))
      BY <1>1, <1>3, <1>4, <2>2
    <3>2. \A d \in Crons, x \in Slots : <<d, x>> # <<c, s>> => b.latest[<<d, x>>] = book.latest[<<d, x>>]
      BY <2>1, <3>1, WithIs
    <3>3. Tried(b, c, s) = IF a >= Tried(book, c, s) THEN a ELSE Tried(book, c, s)
      BY <2>1, <3>1, WithIs
    <3> QED BY <3>2, <3>3
  <2> QED BY <2>2
<1>6. Tried(book, c, s) \in 0..MaxTries
  BY <1>1, <1>3, <1>4, ReceiptsAre DEF BookFits, Tried
<1>7. ASSUME NEW shot \in Shots' PROVE shot \in Shots \/ (shot = <<c, s, a>> /\ tick[t].at = "dispatch")
  <2>1. CASE shot \in delivered'
    BY <2>1 DEF Shots
  <2>2. CASE shot \notin delivered'
    <3>1. PICK u \in Ticks : tick'[u].aborted /\ tick'[u].at = "dispatch" /\ shot = Key(u)'
      BY <1>7, <2>2 DEF Shots
    <3>2. u # t
      BY <1>3, <3>1
    <3>3. tick[u].aborted /\ tick[u].at = "dispatch" /\ Key(u)' = Key(u)
      BY <1>3, <3>1, <3>2 DEF Key
    <3> QED BY <3>1, <3>3 DEF Shots
  <2> QED BY <2>1, <2>2
<1>8. ASSUME tick[t].aborted PROVE Shots' \subseteq Shots
  <2>1. tick[t].at = "dispatch" => <<c, s, a>> \in Shots
    BY <1>8, ShotIs
  <2> QED BY <1>7, <2>1
<1>9. ASSUME NEW x \in 1..MaxTries, <<c, s, x>> \in Shots'
      PROVE  Begun(b, c, s) /\ Tried(b, c, s) = x
  <2>1. CASE <<c, s, x>> \in Shots
    <3>1. Begun(book, c, s) /\ Tried(book, c, s) = x
      BY <1>3, <1>4, <2>1 DEF StrictInv, ShotAsTried
    <3>2. Begun(b, c, s)
      BY <1>1, <1>3, <1>4, <3>1 DEF Grows
    <3>3. ~tick[t].aborted => x = a
      BY <1>4, <2>1
    <3>4. tick[t].aborted => a <= x
      BY <1>4, <3>1
    <3> QED BY <1>4, <1>5, <3>1, <3>2, <3>3, <3>4, NumbersAre
  <2>2. CASE <<c, s, x>> \notin Shots
    <3>1. x = a /\ tick[t].at = "dispatch" /\ ~tick[t].aborted
      <4>1. <<c, s, x>> = <<c, s, a>> /\ tick[t].at = "dispatch"
        BY <1>7, <1>9, <2>2
      <4> QED BY <1>8, <1>9, <2>2, <4>1
    <3>2. a <= Tried(book, c, s) /\ Begun(book, c, s)
      <4>1. TickFits(tick[t], view[t], map, book)
        BY PlaceIs
      <4> QED BY <3>1, <4>1 DEF TickFits
    <3>3. Tried(book, c, s) <= a
      BY <1>4, <3>1
    <3>4. Begun(b, c, s)
      BY <1>1, <1>3, <1>4, <3>2 DEF Grows
    <3> QED BY <1>4, <1>5, <1>6, <3>1, <3>2, <3>3, <3>4, NumbersAre
  <2> QED BY <2>1, <2>2
<1>10. CASE tick[t].aborted
  <2>1. ASSUME NEW u \in Ticks, Worker(u)'
        PROVE  /\ Worker(u) /\ tick'[u].cron = tick[u].cron /\ tick'[u].slot = tick[u].slot
               /\ tick'[u].attempt = tick[u].attempt /\ tick'[u].last = tick[u].last
               /\ obj'[tick[u].cron][view[u][tick[u].cron]].firing
    <3>1. u # t
      BY <1>3, <2>1 DEF Worker, Works
    <3>2. /\ Worker(u) /\ tick'[u].cron = tick[u].cron /\ tick'[u].slot = tick[u].slot
          /\ tick'[u].attempt = tick[u].attempt /\ tick'[u].last = tick[u].last
      BY <1>3, <2>1, <3>1 DEF Worker, Works
    <3>3. PICK d, x : d = tick[u].cron /\ x = view[u][d]
      OBVIOUS
    <3>4. d \in Crons /\ x \in Copies /\ x # 0
      BY <3>2, <3>3, PlaceIs, NumbersAre DEF Worker
    <3>5. x = map[d] /\ obj[d][x].firing
      BY <3>2, <3>3 DEF StrictInv, Attached
    <3>6. d # c \/ x # v
      BY <1>4, <1>10, <3>4, <3>5
    <3>7. obj'[d][x].firing
      BY <1>3, <3>4, <3>5, <3>6
    <3> QED BY <3>2, <3>3, <3>7
  <2>2. ASSUME NEW d \in Crons, NEW x \in Slots
        PROVE  /\ Begun(book, d, x) => Begun(book', d, x)
               /\ Tried(book', d, x) = Tried(book, d, x)
    <3>1. Begun(book, d, x) => Begun(book', d, x)
      BY <1>1, <1>3 DEF Grows
    <3>2. CASE d = c /\ x = s
      <4>1. a <= Tried(book, c, s)
        BY <1>4, <1>10
      <4>2. Tried(b, c, s) = Tried(book, c, s)
        BY <1>4, <1>5, <1>6, <4>1, NumbersAre
      <4> QED BY <1>3, <3>1, <3>2, <4>2
    <3>3. CASE <<d, x>> # <<c, s>>
      BY <1>3, <1>5, <3>1, <3>3 DEF Tried
    <3> QED BY <3>2, <3>3
  <2>3. \A d \in Crons : map[d] # 0 => obj'[d][map[d]] = obj[d][map[d]]
    <3>1. \A d \in Crons : map[d] # 0 => map[d] \in Copies
      BY TypesAre
    <3>2. map[c] = 0 \/ v # map[c]
      BY <1>4, <1>10
    <3> QED BY <1>3, <3>1, <3>2
  <2>4. Shots' \subseteq Shots
    BY <1>8, <1>10
  <2>5. WorkersStay
    BY <2>1 DEF WorkersStay
  <2>6. TriesStay
    BY <2>2 DEF TriesStay
  <2>7. WaitingStays
    BY <2>3 DEF WaitingStays
  <2> QED BY <2>4, <2>5, <2>6, <2>7, StrictKept
<1>11. CASE ~tick[t].aborted
  <2>1. ASSUME NEW u \in Ticks, u # t, Worker(u)'
        PROVE  /\ Worker(u) /\ tick[u].cron # c
               /\ tick'[u].cron = tick[u].cron /\ tick'[u].slot = tick[u].slot
               /\ tick'[u].attempt = tick[u].attempt /\ tick'[u].last = tick[u].last
    <3>1. Worker(u)
      BY <1>3, <2>1 DEF Worker, Works
    <3> QED BY <1>3, <1>4, <1>11, <2>1, <3>1
  <2>2. ~Worker(t)'
    BY <1>3 DEF Worker, Works
  <2>3. \A d \in Crons, x \in Slots :
          <<d, x>> # <<c, s>> => book'.latest[<<d, x>>] = book.latest[<<d, x>>]
    BY <1>3, <1>5
  <2>4. ASSUME NEW d \in Crons, NEW x \in Slots, NEW n \in 1..MaxTries, <<d, x, n>> \in Shots'
        PROVE  <<d, x, n>> \in Shots \/ (d = c /\ x = s)
    BY <1>7, <2>4
  <2>5. \A x \in 1..MaxTries : <<c, s, x>> \in Shots' => Begun(book', c, s) /\ Tried(book', c, s) = x
    BY <1>3, <1>9
  <2>6. ASSUME NEW d \in Crons, d # c PROVE obj'[d] = obj[d]
    <3>1. \A x \in Copies : obj'[d][x] = obj[d][x]
      BY <1>3, <2>6
    <3>2. obj'[d] \in [Copies -> Object] /\ obj[d] \in [Copies -> Object]
      BY <1>3, TypesAre
    <3> QED BY <3>1, <3>2
  <2>7. Untried(book', Shots', c, obj'[c][map[c]])
    <3>1. PICK shots, o : shots = Shots' /\ o = obj'[c][map[c]]
      OBVIOUS
    <3>2. o.slot = NextSlot(c) /\ (o.run = NoRun \/ o.run = Active(b, c))
      BY <1>3, <1>4, <1>11, <3>1
    <3>3. ASSUME NEW x \in Slots, NEW n \in 1..MaxTries, <<c, x, n>> \in shots PROVE Begun(b, c, x)
      <4>1. CASE x = s
        BY <1>9, <3>1, <3>3, <4>1
      <4>2. CASE x # s
        <5>1. <<c, x, n>> \in Shots
          BY <1>3, <2>4, <3>1, <3>3, <4>2
        <5>2. Begun(book, c, x)
          BY <1>3, <5>1 DEF StrictInv, ShotAsTried
        <5> QED BY <1>1, <1>3, <5>2 DEF Grows
      <4> QED BY <4>1, <4>2
    <3>4. slots[c] \in 0..MaxSlots
      BY <1>3, TypesAre
    <3>5. Untried(b, shots, c, o)
      BY <1>1, <1>3, <3>2, <3>3, <3>4, FreshIsUntried
    <3> QED BY <1>3, <3>1, <3>5
  <2>8. c \in Crons /\ s \in Slots
    BY <1>3, <1>4
  <2> QED BY <2>1, <2>2, <2>3, <2>4, <2>5, <2>6, <2>7, <2>8, WorkerMoves
<1> QED BY <1>10, <1>11

LEMMA DeliversStrict ==
  ASSUME ScheduleInv, StrictInv, NEW t \in Ticks, Delivers(t)
  PROVE  StrictInv'
<1>1. PICK c, s, a : c = tick[t].cron /\ s = tick[t].slot /\ a = tick[t].attempt
  OBVIOUS
<1>2. PICK row : row = Row(c, s, "dispatched", a)
  OBVIOUS
<1>3. /\ Works(tick[t]) /\ tick[t].resumed \in BOOLEAN /\ tick[t].at = "dispatch"
      /\ delivered' = delivered \cup {<<c, s, a>>} /\ UNCHANGED <<map, view>>
  BY <1>1, PlaceIs DEF Delivers, Works, Tick, Key
<1>4. PICK b, goesOn :
        /\ goesOn \in BOOLEAN
        /\ b = book \/ (Grants(book, row) /\ b = With(book, row))
        /\ Advances(t, b, goesOn)
  <2>1. PICK later : later = With(book, row)
    OBVIOUS
  <2>2. \/ Grants(book, row) /\ Advances(t, later, tick[t].resumed)
        \/ Advances(t, book, FALSE)
    BY <1>1, <1>2, <2>1 DEF Delivers
  <2>3. CASE Grants(book, row) /\ Advances(t, later, tick[t].resumed)
    BY <1>3, <2>1, <2>3
  <2>4. CASE Advances(t, book, FALSE)
    BY <2>4
  <2> QED BY <2>2, <2>3, <2>4
<1>5. ScheduleInv'
  BY DeliversKeeps
<1> QED BY <1>1, <1>2, <1>3, <1>4, <1>5, AdvancesStrict

LEMMA GivesUpFireStrict ==
  ASSUME ScheduleInv, StrictInv, NEW t \in Ticks, GivesUpFire(t)
  PROVE  StrictInv'
<1>1. PICK c, s, a : c = tick[t].cron /\ s = tick[t].slot /\ a = tick[t].attempt
  OBVIOUS
<1>2. PICK row : row = Row(c, s, "failed", a)
  OBVIOUS
<1>3. Works(tick[t]) /\ tick[t].resumed \in BOOLEAN /\ delivered' = delivered /\ UNCHANGED <<map, view>>
  BY PlaceIs DEF GivesUpFire, Works, Tick
<1>4. PICK b, goesOn :
        /\ goesOn \in BOOLEAN
        /\ b = book \/ (Grants(book, row) /\ b = With(book, row))
        /\ Advances(t, b, goesOn)
  <2>1. PICK later : later = With(book, row)
    OBVIOUS
  <2>2. \/ Grants(book, row) /\ Advances(t, later, tick[t].resumed)
        \/ Advances(t, book, FALSE)
    BY <1>1, <1>2, <2>1 DEF GivesUpFire
  <2>3. CASE Grants(book, row) /\ Advances(t, later, tick[t].resumed)
    BY <1>3, <2>1, <2>3
  <2>4. CASE Advances(t, book, FALSE)
    BY <2>4
  <2> QED BY <2>2, <2>3, <2>4
<1>5. ScheduleInv'
  BY GivesUpFireKeeps
<1> QED BY <1>1, <1>2, <1>3, <1>4, <1>5, AdvancesStrict

\* The inductive invariant of FiresAreSound.
FiresInv == ScheduleInv /\ (stray \/ StrictInv)

LEMMA StrictInit == CronInit => StrictInv
<1> SUFFICES ASSUME CronInit PROVE StrictInv
  OBVIOUS
<1>1. /\ \A t \in Ticks : tick[t] = NoTick
      /\ \A c \in Crons : map[c] = 0
      /\ delivered = {}
  BY OffIs DEF CronInit
<1>2. \A t \in Ticks : ~Worker(t) /\ ~tick[t].aborted
  BY <1>1, NoTickIs DEF Worker
<1>3. Shots = {}
  BY <1>1, <1>2 DEF Shots
<1> QED BY <1>1, <1>2, <1>3 DEF StrictInv, Attached, OneWorks, OnTheAttempt, ShotAsTried, WaitingIsUntried

\* What a step of a tick leaves to the schedule.
LEMMA TickStepKeeps ==
  ASSUME ScheduleInv, NEW t \in Ticks, TickStep(t)
  PROVE  /\ ScheduleInv' /\ (stray => stray')
         /\ StrictInv /\ ~stray' => StrictInv'
<1>1. CASE NotScheduled(t) \/ IntendsNot(t) \/ DispatchFails(t)
  <2>1. ScheduleInv'
    BY <1>1, NotScheduledKeeps, IntendsNotKeeps, DispatchFailsKeeps
  <2>2. stray' = stray
    BY <1>1 DEF NotScheduled, IntendsNot, DispatchFails
  <2> QED BY <1>1, <2>1, <2>2, TickBooksStrict
<1>2. CASE Wakes(t)
  <2>1. ScheduleInv' /\ stray' = stray
    BY <1>2, WakesKeeps DEF Wakes
  <2> QED BY <1>2, <2>1, TickBooksStrict, WakesStrict
<1>3. CASE TickEnds(t)
  <2>1. ScheduleInv' /\ stray' = stray
    BY <1>3, TickEndsKeeps DEF TickEnds
  <2> QED BY <1>3, <2>1, TickEndsStrict
<1>4. CASE Schedules(t)
  <2>1. ScheduleInv' /\ (stray => stray')
    BY <1>4, SchedulesKeeps DEF Schedules
  <2> QED BY <1>4, <2>1, SchedulesStrict
<1>5. CASE Intends(t)
  <2>1. ScheduleInv' /\ stray' = stray
    BY <1>5, IntendsKeeps DEF Intends
  <2> QED BY <1>5, <2>1, IntendsStrict
<1>6. CASE Delivers(t)
  <2>1. ScheduleInv' /\ stray' = stray
    BY <1>6, DeliversKeeps DEF Delivers
  <2> QED BY <1>6, <2>1, DeliversStrict
<1>7. CASE GivesUpFire(t)
  <2>1. ScheduleInv' /\ stray' = stray
    BY <1>7, GivesUpFireKeeps DEF GivesUpFire
  <2> QED BY <1>7, <2>1, GivesUpFireStrict
<1> QED BY <1>1, <1>2, <1>3, <1>4, <1>5, <1>6, <1>7 DEF TickStep

LEMMA FiresInvStep ==
  ASSUME FiresInv, [CronNext]_cronVars
  PROVE  FiresInv'
<1>1. SUFFICES /\ ScheduleInv' /\ (stray => stray')
               /\ StrictInv /\ ~stray' => StrictInv'
  BY DEF FiresInv
<1>2. ScheduleInv
  BY DEF FiresInv
<1>3. CASE Starts \/ ReloadAsked \/ \E t \in Ticks : TickBegins(t)
  <2>1. ScheduleInv' /\ (stray => stray')
    BY <1>2, <1>3, StartsKeeps, ReloadAskedKeeps, TickBeginsKeeps
  <2> QED BY <1>2, <1>3, <2>1, LoadsStrict
<1>4. CASE Stops
  <2>1. ScheduleInv' /\ stray' = stray
    BY <1>2, <1>4, StopsKeeps DEF Stops
  <2> QED BY <1>2, <1>4, <2>1, StopsStrict
<1>5. CASE DaemonDies
  <2>1. ScheduleInv' /\ stray' = stray
    BY <1>2, <1>5, DaemonDiesKeeps DEF DaemonDies
  <2> QED BY <1>2, <1>5, <2>1, DaemonDiesStrict
<1>6. ASSUME NEW t \in Ticks, TickStep(t)
      PROVE  ScheduleInv' /\ (stray => stray') /\ (StrictInv /\ ~stray' => StrictInv')
  BY <1>2, <1>6, TickStepKeeps
<1>7. ASSUME NEW c \in Crons, TimePasses(c) \/ Edits(c) \/ \E s \in Slots : Reconciles(c, s)
      PROVE  ScheduleInv' /\ (stray => stray') /\ (StrictInv /\ ~stray' => StrictInv')
  <2>1. stray' = stray
    BY <1>7 DEF TimePasses, Edits, Reconciles
  <2>2. ScheduleInv'
    BY <1>2, <1>7, TimePassesKeeps, EditsKeeps, ReconcilesKeeps
  <2>3. StrictInv => StrictInv'
    BY <1>2, <1>7, OutsideStrict
  <2> QED BY <2>1, <2>2, <2>3
<1>8. CASE UNCHANGED cronVars
  <2>1. ScheduleInv'
    <3>1. UNCHANGED <<file, fired, changed, up, map, obj, slots, tick, view, book, delivered, stray, bounds>>
      BY <1>8 DEF cronVars
    <3>2. CronTypeOK'
      BY <1>2, <3>1 DEF ScheduleInv, CronTypeOK
    <3>3. BookFits(book') /\ Counted(book', slots')
      BY <1>2, <3>1 DEF ScheduleInv
    <3>4. ObjectsFit'
      BY <1>2, <3>1 DEF ScheduleInv, ObjectsFit
    <3>5. MarksAreWorked'
      BY <1>2, <3>1 DEF ScheduleInv, MarksAreWorked
    <3>6. TicksFit'
      BY <1>2, <3>1 DEF ScheduleInv, TicksFit
    <3> QED BY <3>2, <3>3, <3>4, <3>5, <3>6 DEF ScheduleInv
  <2>2. UNCHANGED <<map, tick, view, delivered, book, obj, stray>>
    BY <1>8 DEF cronVars
  <2> QED BY <1>2, <2>1, <2>2, StillStrict
<1> QED BY <1>3, <1>4, <1>5, <1>6, <1>7, <1>8 DEF CronNext

LEMMA FiresInvIsSound ==
  ASSUME FiresInv
  PROVE  FiresAreSound
<1>1. FiringIsWorked
  <2> SUFFICES ASSUME NEW c \in Crons, map[c] # 0, Held(c).firing
               PROVE  \E t \in Ticks : Working(t) /\ tick[t].cron = c /\ view[t][c] = map[c]
    BY DEF FiringIsWorked
  <2>1. map[c] \in Copies
    BY TypesAre DEF FiresInv
  <2>2. PICK t \in Ticks : Works(tick[t]) /\ tick[t].cron = c /\ view[t][c] = map[c]
    BY <2>1 DEF FiresInv, ScheduleInv, MarksAreWorked, Held
  <2> QED BY <2>2 DEF Works, Working
<1>2. ASSUME ~stray PROVE OnceDelivered
  <2> SUFFICES ASSUME NEW k \in delivered, NEW l \in delivered, k[1] = l[1], k[2] = l[2]
               PROVE  k = l
    BY DEF OnceDelivered
  <2>1. delivered \subseteq Crons \X Slots \X (1..MaxTries)
    BY TypesAre DEF FiresInv
  <2>2. PICK c \in Crons, s \in Slots, a \in 1..MaxTries : k = <<c, s, a>>
    BY <2>1
  <2>3. PICK d \in Crons, x \in Slots, b \in 1..MaxTries : l = <<d, x, b>>
    BY <2>1
  <2>4. d = c /\ x = s
    BY <2>2, <2>3
  <2>5. <<c, s, a>> \in Shots /\ <<c, s, b>> \in Shots
    BY <2>2, <2>3, <2>4 DEF Shots
  <2>6. Tried(book, c, s) = a /\ Tried(book, c, s) = b
    BY <1>2, <2>5 DEF FiresInv, StrictInv, ShotAsTried
  <2> QED BY <2>2, <2>3, <2>4, <2>6
<1> QED BY <1>1, <1>2 DEF FiresAreSound

\* Whatever reloads, ticks, stops, crashes and failed writes do, what is marked
\* is worked at, and what was dispatched is the attempt the receipts name.
THEOREM FiresInvAlways == CronSpec => []FiresInv
<1>1. CronInit => FiresInv
  BY ScheduleInvInit, StrictInit DEF FiresInv
<1>2. FiresInv /\ [CronNext]_cronVars => FiresInv'
  BY FiresInvStep
<1> QED BY <1>1, <1>2, PTL DEF CronSpec

\* The type invariant of the scheduler.
THEOREM ScheduleIsTyped == CronSpec => []CronTypeOK
<1>1. FiresInv => CronTypeOK
  BY DEF FiresInv, ScheduleInv
<1> QED BY <1>1, FiresInvAlways, PTL

\* No reload leaves a mark of firing that nobody takes away, and no run of a cron
\* is delivered under two keys, for any number of crons, ticks, attempts and
\* edits; for the latter unless a fire went on with an object that was replaced.
THEOREM FiresAreSoundAlways == CronSpec => []FiresAreSound
<1>1. FiresInv => FiresAreSound
  BY FiresInvIsSound
<1> QED BY <1>1, FiresInvAlways, PTL
=============================================================================
