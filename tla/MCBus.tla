------------------------------- MODULE MCBus --------------------------------
(* The files agents and daemons share for TLC, one of them in each behaviour: *)
(* an inbox, a task, the receipts of cron runs, those of a provider's events, *)
(* the schedule of an agent, or the lock of a lifecycle store.  No two share  *)
(* a file; what some share is the lock, of which each has its own.            *)
EXTENDS Mailbox, TaskClaim, ReceiptJournal, CronScheduler, EventIngress, StoreLock

CONSTANTS a1, a2, d1, d2, good, forged, org1, org2, run1, run2, t1, t2
TwoActors == {a1, a2}
TwoDaemons == {d1, d2}
TwoLetters == {good, forged}
OneForged == {forged}
TwoOrgs == {org1, org2}
TwoRuns == {run1, run2}
OneCron == {1}
TwoTicks == {t1, t2}

VARIABLE part
bus == <<lockVars, mailVars, taskVars, journalVars, cronVars, eventVars, vars, part>>

BusInit ==
  /\ part \in {"inbox", "task", "receipts", "schedule", "events", "store"}
  /\ MailInit /\ TaskInit /\ JournalInit /\ CronInit /\ EventInit /\ Init
  /\ part # "events" => mode = "shadow"
  /\ home \in (IF part = "task" THEN [Actors -> Orgs] ELSE {[a \in Actors |-> org1]})
  /\ home[a1] = org1 /\ owner = a1

BusNext ==
  /\ UNCHANGED part
  /\ \/ part = "inbox" /\ MailNext /\ UNCHANGED <<taskVars, journalVars, cronVars, eventVars, vars>>
     \/ part = "task" /\ TaskNext /\ UNCHANGED <<mailVars, journalVars, cronVars, eventVars, vars>>
     \/ part = "receipts" /\ JournalNext /\ UNCHANGED <<lockVars, mailVars, taskVars, cronVars, eventVars, vars>>
     \/ part = "schedule" /\ CronNext /\ UNCHANGED <<lockVars, mailVars, taskVars, journalVars, eventVars, vars>>
     \/ part = "events" /\ EventNext /\ UNCHANGED <<lockVars, mailVars, taskVars, journalVars, cronVars, vars>>
     \/ part = "store" /\ Next /\ UNCHANGED <<lockVars, mailVars, taskVars, journalVars, cronVars, eventVars>>

\* MailFairness, CronFairness and EventFairness, each for the part that is alive.
BusFairness ==
  /\ \A m \in Letters : WF_<<lockVars, mailVars>>(part = "inbox" /\ Ages(m))
  /\ \A a \in Actors : WF_<<lockVars, mailVars>>(part = "inbox" /\ MailGoesOn(a))
  /\ WF_<<lockVars, mailVars>>(part = "inbox" /\ CheckBegins(Daemon))
  /\ WF_cronVars(part = "schedule" /\ Starts)
  /\ WF_cronVars(part = "schedule" /\ \E t \in Ticks : TickBegins(t))
  /\ \A t \in Ticks : WF_cronVars(part = "schedule" /\ TickStep(t))
  /\ WF_eventVars(part = "events" /\ GoesOn)
  /\ \A e \in Events : WF_eventVars(part = "events" /\ e \notin answered /\ Arrives(e))

BusSpec == BusInit /\ [][BusNext]_bus /\ BusFairness

BusTypeOK == MailTypeOK /\ TaskTypeOK /\ JournalTypeOK /\ CronTypeOK /\ EventTypeOK /\ TypeOK
=============================================================================
