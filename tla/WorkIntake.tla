----------------------------- MODULE WorkIntake -----------------------------
(***************************************************************************)
(* How work reaches a supervised agent: the work ledger of the durable     *)
(* snapshot (src/src/daemon/lifecycle/work-ledger.ts, acceptBatch,         *)
(* beginDispatch and handleWorkObservation of supervisor.ts), the two      *)
(* clients that accept and dispatch work (FastChecker's supervised poll    *)
(* cycle, dispatchCronFire) and the injection of AgentProcess.             *)
(*                                                                         *)
(* An item is a source key with the text to inject; the digest stands for  *)
(* the text.  A workId is a UUID: the key and how often it was accepted.   *)
(* The code between two awaits, or between two durable effects, is one     *)
(* action, so that the daemon may die between any two of them.             *)
(***************************************************************************)
EXTENDS Naturals, FiniteSets, Sequences, Functions

CONSTANTS
  Messages,        \* chat messages: items of the Telegram queue, redeliveries too
  Letters,         \* bus messages: items of the agent's inbox
  Fires,           \* cron fires: one item for each dispatch key
  Kinds,           \* work observations the runtime may report
  MaxRetained,     \* MAX_RETAINED_TERMINAL_WORK_RECORDS
  CommitOutcomes,  \* possible outcomes of a store commit
  SaveOutcomes,    \* possible outcomes of savePendingTelegram
  MaxQueue,        \* bound: messages waiting at a time
  MaxAccepted,     \* bound: acceptances of one key
  MaxCrashes,      \* bound: daemon crashes
  MaxStops         \* bound: stops of the runtime

Items == Messages \cup Letters \cup Fires
Key == {i.key : i \in Items}
Text == {i.text : i \in Items}

ASSUME ItemsAssumption ==
  /\ \A i \in Items : i = [key |-> i.key, text |-> i.text]
  /\ \A i, j \in Letters \cup Fires : i.key = j.key => i = j
  /\ \A i \in Messages, j \in Letters \cup Fires : i.key # j.key
  /\ Letters \cap Fires = {}  \* a fire's key is cron/<agent>/..., a letter's its id
ASSUME BoundsAssumption ==
  /\ MaxRetained \in Nat \ {0} /\ MaxAccepted \in Nat \ {0}
  /\ MaxQueue \in Nat /\ MaxCrashes \in Nat /\ MaxStops \in Nat
ASSUME OutcomesAssumption ==
  /\ TRUE \in CommitOutcomes /\ CommitOutcomes \subseteq BOOLEAN
  /\ SaveOutcomes \in SUBSET BOOLEAN \ {{}}
  /\ Kinds \subseteq {"runtime-accepted", "completed", "failed", "cancelled", "needs-review"}

VARIABLES
  ledger,     \* outstandingWork of the durable snapshot
  accepted,   \* how often each key was accepted (history: names workIds)
  queue,      \* telegramMessages, oldest first
  saved,      \* the queue's copy on disk
  inbox,      \* letters waiting in inbox/
  inflight,   \* letters moved to inflight/, not yet acknowledged
  poll,       \* the supervised poll cycle in progress
  fire,       \* how far the dispatch of each cron fire is
  recorded,   \* fires whose durable receipt says there is nothing to replay
  running,    \* the runtime has a PTY and its status is 'running'
  seen,       \* MessageDedup of this AgentProcess
  timers,     \* workIds with a review scheduled (scheduleNoCompletionSeamReview)
  arrived,    \* items that ever arrived (history)
  delivered,  \* items ever written to the PTY (history)
  submitted,  \* how often each workId was submitted for a fire (history)
  crashes, stops

vars == <<ledger, accepted, queue, saved, inbox, inflight, poll, fire, recorded,
          running, seen, timers, arrived, delivered, submitted, crashes, stops>>
transport == <<queue, saved, inbox, inflight>>
cron == <<fire, recorded>>
runtime == <<running, seen, timers>>
history == <<arrived, delivered, submitted>>
bounds == <<crashes, stops>>

Terminal == {"completed", "failed", "cancelled"}
Resolved == Terminal \cup {"needs-review"}
Unresolved == {"accepted", "dispatched", "runtime-accepted", "executing"}
Record ==
  [key : Key, times : 1..MaxAccepted, text : Text, phase : Unresolved \cup Resolved]
WorkId(r) == <<r.key, r.times>>
IdlePoll == [at |-> "idle", prefix |-> 0, letters |-> {}]

Stage == {"due", "accepted", "intended", "written", "refused", "over", "failed"}

TypeOK ==
  /\ ledger \subseteq Record
  /\ accepted \in [Key -> 0..MaxAccepted]
  /\ queue \in Seq(Messages) /\ saved \in Seq(Messages)
  /\ inbox \subseteq Letters /\ inflight \subseteq Letters
  /\ poll \in [at : {"idle", "accepted", "written", "drained"},
               prefix : 0..MaxQueue, letters : SUBSET Letters]
  /\ poll.prefix <= Len(queue) /\ poll.letters \subseteq inflight
  /\ fire \in [Fires -> Stage]
  /\ recorded \subseteq Fires
  /\ running \in BOOLEAN
  /\ seen \subseteq Seq(Text) \X SUBSET Letters
  /\ timers \subseteq Key \X (1..MaxAccepted)
  /\ arrived \subseteq Items /\ delivered \subseteq arrived
  /\ submitted \in [Key \X (1..MaxAccepted) -> 0..2]
  /\ crashes \in 0..MaxCrashes /\ stops \in 0..MaxStops

-----------------------------------------------------------------------------
(* The ledger *)

\* Mutant: a duplicate is looked for by source key and digest.
KnownByDigest(i) == {r \in ledger : r.key = i.key /\ r.text = i.text}

\* The records of an item's source key.
Known(i) == {r \in ledger : r.key = i.key}

\* Two items, or an item and a record, disagree on what one source key says.
Conflict(items) ==
  \/ \E i \in items : \E r \in Known(i) : r.text # i.text
  \/ \E i, j \in items : i.key = j.key /\ i.text # j.text

NewRecord(i) ==
  [key |-> i.key, times |-> accepted[i.key] + 1, text |-> i.text, phase |-> "accepted"]

Excess(finished) ==
  IF Cardinality(finished) > MaxRetained THEN Cardinality(finished) - MaxRetained ELSE 0

\* Mutant: archival takes work in need of review for finished work.
ArchivedReviewed(records, newest) ==
  LET finished == {r \in records : r.phase \in Resolved}
  IN {records \ gone : gone \in {g \in SUBSET (finished \ newest) :
                                   Cardinality(g) = Excess(finished)}}

\* archiveTerminal keeps the newest MaxRetained terminal records, what is moving
\* in this commit among them; the order of the older ones is left open.
Archived(records, newest) ==
  LET finished == {r \in records : r.phase \in Terminal}
  IN {records \ gone : gone \in {g \in SUBSET (finished \ newest) :
                                   Cardinality(g) = Excess(finished)}}

\* acceptBatch: all of the items or none.  A second delivery of an item finds the
\* record of the first.
AcceptBatch(items) ==
  LET new == {i \in items : Known(i) = {}}
  IN /\ ~Conflict(items)
     /\ \A i \in new : accepted[i.key] < MaxAccepted
     /\ ledger' \in Archived(ledger \cup {NewRecord(i) : i \in new}, {})
     /\ accepted' = [k \in Key |-> IF \E i \in new : i.key = k THEN accepted[k] + 1
                                   ELSE accepted[k]]

\* A conflict, or a commit that failed, leaves the ledger as it is.
RefuseBatch(items) ==
  /\ Conflict(items) \/ FALSE \in CommitOutcomes
  /\ UNCHANGED <<ledger, accepted>>

\* Mutant: an observation is applied whatever the record's phase is.
AppliedUnchecked(phase, kind) ==
  IF kind = "runtime-accepted" THEN "executing" ELSE kind

\* applyWorkCorrelation: a start or a completion walks the record through the
\* phases before execution; an illegal transition is skipped.
Applied(phase, kind) ==
  CASE phase \in Resolved \/ (kind = "failed" /\ phase = "accepted") -> phase
    [] phase \notin Resolved /\ kind = "runtime-accepted" -> "executing"
    [] OTHER -> kind

\* handleWorkObservation of one workId, if its commit succeeds.
Observe(id, kind) ==
  \/ LET of == {r \in ledger : WorkId(r) = id}
         moved == {[r EXCEPT !.phase = Applied(@, kind)] : r \in of}
     IN ledger' \in Archived((ledger \ of) \cup moved, moved) /\ UNCHANGED accepted
  \/ FALSE \in CommitOutcomes /\ UNCHANGED <<ledger, accepted>>

-----------------------------------------------------------------------------
(* FastChecker: arrivals and the supervised poll cycle *)

Save(q) == \E ok \in SaveOutcomes : saved' = IF ok THEN q ELSE saved

\* queueTelegramMessage, for a text that isDuplicate has not seen.
QueueMessage(m) ==
  /\ m \notin arrived /\ Len(queue) < MaxQueue
  /\ queue' = Append(queue, m) /\ Save(Append(queue, m))
  /\ arrived' = arrived \cup {m}
  /\ UNCHANGED <<ledger, accepted, inbox, inflight, poll, cron, runtime, delivered, submitted, bounds>>

\* Another process puts a message into the agent's inbox.
SendLetter(l) ==
  /\ l \notin arrived
  /\ inbox' = inbox \cup {l}
  /\ arrived' = arrived \cup {l}
  /\ UNCHANGED <<ledger, accepted, queue, saved, inflight, poll, cron, runtime, delivered, submitted, bounds>>

Prefix == SubSeq(queue, 1, poll.prefix)
Block(messages, letters) == <<[n \in DOMAIN messages |-> messages[n].text], letters>>

\* Mutant: a letter is read and removed, not moved.
MovedUnkept == inflight

\* checkInbox renames what it reads into inflight/.
Moved == inflight \cup inbox

\* The queue is peeked, the inbox is moved to inflight (what sat there for long
\* comes along again), and all of it is offered to acceptBatch.
PollAccepts ==
  /\ poll.at = "idle"
  /\ \E stale \in SUBSET inflight :
       LET letters == inbox \cup stale
           items == Range(queue) \cup letters
       IN /\ items # {}
          /\ \/ /\ AcceptBatch(items)
                /\ poll' = [at |-> "accepted", prefix |-> Len(queue), letters |-> letters]
             \/ RefuseBatch(items) /\ UNCHANGED poll
  /\ inbox' = {} /\ inflight' = Moved
  /\ UNCHANGED <<queue, saved, cron, runtime, history, bounds>>

\* Mutant: the text counts as seen even when the agent is down.
InjectMarksFirst(block, items, sent) ==
  /\ sent = (running /\ block \notin seen)
  /\ seen' = seen \cup {block}
  /\ delivered' = IF sent THEN delivered \cup items ELSE delivered

\* injectMessage: the runtime must run and MessageDedup let the text pass.
Inject(block, items, sent) ==
  /\ sent = (running /\ block \notin seen)
  /\ seen' = IF running THEN seen \cup {block} ELSE seen
  /\ delivered' = IF sent THEN delivered \cup items ELSE delivered

\* dispatchViaSupervisor: false counts as NOT_RUNNING and leaves the transports.
PollInjects ==
  /\ poll.at = "accepted"
  /\ \E sent \in BOOLEAN :
       /\ Inject(Block(Prefix, poll.letters), Range(Prefix) \cup poll.letters, sent)
       /\ poll' = IF sent THEN [poll EXCEPT !.at = "written"] ELSE IdlePoll
  /\ UNCHANGED <<ledger, accepted, transport, cron, running, timers, arrived, submitted, bounds>>

\* Mutant: the whole queue is drained, later arrivals included.
RemainingNone == <<>>

\* What arrived while the prefix was being dispatched.
Remaining == SubSeq(queue, poll.prefix + 1, Len(queue))

PollDrains ==
  /\ poll.at = "written"
  /\ queue' = Remaining /\ Save(Remaining)
  /\ poll' = [poll EXCEPT !.at = "drained", !.prefix = 0]
  /\ UNCHANGED <<ledger, accepted, inbox, inflight, cron, runtime, history, bounds>>

\* ackInbox, letter by letter; the inbox lock may be refused on the way.
PollAcknowledges ==
  /\ poll.at = "drained"
  /\ \E done \in SUBSET poll.letters : inflight' = inflight \ done
  /\ poll' = IdlePoll
  /\ UNCHANGED <<ledger, accepted, queue, saved, inbox, cron, runtime, history, bounds>>

Poll == PollAccepts \/ PollInjects \/ PollDrains \/ PollAcknowledges

-----------------------------------------------------------------------------
(* Cron fires: dispatchCronFire, injectMessageDetailed *)

IdOf(f) == <<f.key, accepted[f.key]>>

FireAccepts(f) ==
  /\ fire[f] = "due"
  /\ arrived' = arrived \cup {f}
  /\ \/ AcceptBatch({f}) /\ fire' = [fire EXCEPT ![f] = "accepted"]
     \/ RefuseBatch({f}) /\ fire' = [fire EXCEPT ![f] = "refused"]
  /\ UNCHANGED <<transport, poll, recorded, runtime, delivered, submitted, bounds>>

\* dispatchedWorkIds
Dispatched(id) == \E r \in ledger : WorkId(r) = id /\ r.phase # "accepted"

BeginDispatch(id, ok) ==
  /\ ok \in CommitOutcomes
  /\ ledger' = IF ok
       THEN {IF WorkId(r) = id /\ r.phase = "accepted"
             THEN [r EXCEPT !.phase = "dispatched"] ELSE r : r \in ledger}
       ELSE ledger

\* Mutant: no review is scheduled.
ScheduledNever(id) == timers

\* scheduleNoCompletionSeamReview
Scheduled(id) == timers \cup {id}

\* Mutant: work whose intent an earlier daemon persisted is taken for written.
AfterIntentOnce(id, ok) ==
  IF ~ok THEN "refused" ELSE IF Dispatched(id) THEN "written" ELSE "intended"

\* The PTY is touched only if the intent could be persisted.
AfterIntent(id, ok) == IF ok THEN "intended" ELSE "refused"

\* injectMessageDetailed up to the commit of the intent.  The effect is minted in
\* the same step and is always live.  The ledger is asked only when MessageDedup
\* has seen the text, which then counts as seen whatever becomes of the commit.
FireIntends(f) ==
  LET block == Block(<<f>>, {})
      id == IdOf(f)
  IN /\ fire[f] = "accepted"
     /\ \/ /\ ~running \/ (block \in seen /\ Dispatched(id))
           /\ fire' = [fire EXCEPT ![f] = "refused"]
           /\ UNCHANGED <<ledger, seen>>
        \/ /\ running /\ (block \in seen => ~Dispatched(id))
           /\ seen' = seen \cup {block}
           /\ \E ok \in BOOLEAN :
                BeginDispatch(id, ok) /\ fire' = [fire EXCEPT ![f] = AfterIntent(id, ok)]
     /\ UNCHANGED <<accepted, transport, poll, recorded, running, timers, history, bounds>>

\* The rest of it: the write to the PTY, and the review.
FireWrites(f) ==
  LET id == IdOf(f)
  IN /\ fire[f] = "intended"
     /\ fire' = [fire EXCEPT ![f] = "written"]
     /\ delivered' = delivered \cup {f}
     /\ submitted' = [submitted EXCEPT ![id] = IF @ < 2 THEN @ + 1 ELSE @]
     /\ timers' = Scheduled(id)
     /\ UNCHANGED <<ledger, accepted, transport, poll, recorded, running, seen, arrived, bounds>>

\* Between the two nothing else of the daemon runs.
Dispatching == \E f \in Fires : fire[f] = "intended"

\* The scheduler is told: a fire that was written is delivered, every other outcome
\* of dispatchCronFire is thrown and left to the next attempt, which has a key of its
\* own.  The receipt that rules out a replay may not be written.
FireSettles(f) ==
  /\ \/ fire[f] = "written" /\ fire' = [fire EXCEPT ![f] = "over"]
     \/ fire[f] = "refused" /\ fire' = [fire EXCEPT ![f] = "failed"]
  /\ recorded' \in {recorded, recorded \cup {f}}
  /\ UNCHANGED <<ledger, accepted, transport, poll, runtime, history, bounds>>

-----------------------------------------------------------------------------
(* Runtime and daemon *)

\* The review of dispatched work is due (forwardWorkCorrelation).
ReviewFires(id) ==
  /\ id \in timers
  /\ timers' = timers \ {id}
  /\ Observe(id, "needs-review")
  /\ UNCHANGED <<transport, poll, cron, running, seen, history, bounds>>

\* The runtime reports on work it was given.
RuntimeReports ==
  \E r \in ledger, kind \in Kinds :
    /\ \E i \in delivered : i.key = r.key
    /\ Observe(WorkId(r), kind)
    /\ UNCHANGED <<transport, poll, cron, runtime, history, bounds>>

RuntimeStops ==
  /\ running /\ stops < MaxStops
  /\ running' = FALSE /\ stops' = stops + 1
  /\ UNCHANGED <<ledger, accepted, transport, poll, cron, seen, timers, history, crashes>>

RuntimeStarts ==
  /\ ~running
  /\ running' = TRUE
  /\ UNCHANGED <<ledger, accepted, transport, poll, cron, seen, timers, history, bounds>>

\* The daemon dies and comes back: the queue is reloaded (loadPendingTelegram),
\* fires without a receipt are due again, what was only in memory is gone.
DaemonCrashes ==
  /\ crashes < MaxCrashes
  /\ crashes' = crashes + 1
  /\ queue' = saved
  /\ poll' = IdlePoll
  /\ fire' = [f \in Fires |-> IF f \in recorded THEN fire[f] ELSE "due"]
  /\ running' = FALSE /\ seen' = {} /\ timers' = {}
  /\ UNCHANGED <<ledger, accepted, saved, inbox, inflight, recorded, history, stops>>

Init ==
  /\ ledger = {} /\ accepted = [k \in Key |-> 0]
  /\ queue = <<>> /\ saved = <<>> /\ inbox = {} /\ inflight = {}
  /\ poll = IdlePoll
  /\ fire = [f \in Fires |-> "due"] /\ recorded = {}
  /\ running = FALSE /\ seen = {} /\ timers = {}
  /\ arrived = {} /\ delivered = {}
  /\ submitted = [id \in Key \X (1..MaxAccepted) |-> 0]
  /\ crashes = 0 /\ stops = 0

\* One turn of the daemon's event loop, or of the runtime.
Turn ==
  \/ \E m \in Messages : QueueMessage(m)
  \/ Poll
  \/ \E f \in Fires : FireAccepts(f) \/ FireIntends(f) \/ FireSettles(f)
  \/ \E id \in timers : ReviewFires(id)
  \/ RuntimeReports
  \/ RuntimeStops \/ RuntimeStarts

Next ==
  \/ ~Dispatching /\ Turn
  \/ \E f \in Fires : FireWrites(f)
  \/ \E l \in Letters : SendLetter(l)
  \/ DaemonCrashes

Spec == Init /\ [][Next]_vars

\* The poll loop and the timers run on, a write that was intended is made unless the
\* daemon dies, and a stopped agent is started again.
FairSpec ==
  /\ Spec
  /\ WF_vars(Poll) /\ WF_vars(RuntimeStarts)
  /\ \A id \in Key \X (1..MaxAccepted) : WF_vars(ReviewFires(id))
  /\ \A f \in Fires : WF_vars(FireWrites(f))

-----------------------------------------------------------------------------
(* Properties *)

\* A source key never has two records, whatever is redelivered, replayed or
\* accepted again after a crash (accept's lookup by sourceKey).
OneRecordPerSource == \A r, s \in ledger : r.key = s.key => r = s

\* A message or letter leaves its transport only after it was written to the
\* runtime: neither a crash between any two steps of the poll cycle nor an
\* arrival during one loses it (peek, drain, acknowledge).
NothingIsLost ==
  \A i \in arrived \cap (Messages \cup Letters) :
    i \in delivered \cup Range(queue) \cup inbox \cup inflight

\* The dispatch intent is durable before the write, and is never taken for the
\* write, whatever a crash cuts off: work whose record still says accepted was not
\* submitted for a cron fire, and a fire that counts as delivered, and is not
\* replayed, was written (injectMessageDetailed, steps 4 and 5).
IntentBeforeWrite ==
  /\ \A r \in ledger : submitted[WorkId(r)] > 0 => r.phase # "accepted"
  /\ \A f \in Fires : fire[f] \in {"written", "over"} => submitted[IdOf(f)] > 0

\* A record changes phase only forward: its outcome is never revised, and it is
\* dropped only with an outcome that needs no review (LEGAL_TRANSITIONS,
\* archiveTerminal).
OutcomesAreFinal ==
  [][\A r \in ledger :
       IF r.phase \in Terminal
       THEN \A s \in ledger' : WorkId(s) = WorkId(r) => s = r
       ELSE \E s \in ledger' : /\ WorkId(s) = WorkId(r)
                               /\ r.phase = "needs-review" => s = r
                               /\ s.phase = "accepted" => r.phase = "accepted"]_vars

\* A message that is queued while the agent is down is written once it is back.
QueuedIsWritten == \A m \in Messages : m \in Range(queue) ~> m \in delivered

\* Dispatched work does not stay in doubt: its review is due at some point.
DispatchedIsReviewed ==
  \A f \in Fires : Dispatched(IdOf(f)) ~> \E r \in Known(f) : r.phase \in Resolved

\* A workId is submitted to the runtime at most once, replayed or not.
SubmittedOnce == \A id \in DOMAIN submitted : submitted[id] <= 1
=============================================================================
