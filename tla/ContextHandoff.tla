--------------------------- MODULE ContextHandoff ---------------------------
(***************************************************************************)
(* When an agent's context runs full its monitor asks it to hand over to a *)
(* fresh session: checkContextStatus and forceContextRestart of            *)
(* src/src/daemon/fast-checker.ts, with the leases of src/src/daemon/      *)
(* context-handoff-lease.ts that keep the whole fleet from doing so at     *)
(* once.  Both run to their end without an await, so a poll is one step.   *)
(*                                                                         *)
(* Time goes by in ticks of five minutes and a little more; every running  *)
(* agent is polled at least once in each.  An age counts the ticks since a *)
(* moment.  Sessions are told apart as far as ids are compared: the one    *)
(* that runs, the one before, one before that.                             *)
(***************************************************************************)
EXTENDS Naturals, Sequences, FiniteSets

CONSTANTS
  Agents,
  MaxConcurrent,  \* leases at a time
  GraceTicks,     \* a young session is spared (handoffGraceMs)
  DeadlineTicks,  \* for the agent to follow its prompt
  LeaseTicks,     \* LEASE_TTL_MS
  QueueTicks,     \* QUEUE_TTL_MS
  WindowTicks,    \* what the circuit breaker counts
  PauseTicks,     \* and how long it stays broken
  MaxReports,     \* bound: reports of a runtime
  MaxSessions     \* bound: starts of an agent, or of a session on its own

ASSUME HandoffAssumption ==
  /\ MaxConcurrent \in Nat \ {0} /\ GraceTicks \in Nat \ {0}
  /\ {DeadlineTicks, LeaseTicks, QueueTicks, WindowTicks, PauseTicks} \subseteq Nat
  /\ 0 < DeadlineTicks /\ DeadlineTicks < LeaseTicks /\ LeaseTicks < QueueTicks
  /\ 0 < WindowTicks /\ WindowTicks < PauseTicks /\ PauseTicks < 99 /\ QueueTicks < 99
  /\ MaxReports \in Nat /\ MaxSessions \in Nat

VARIABLES
  up,       \* the agents that run, with a monitor each
  status,   \* context_status.json of each agent
  monitor,  \* the fields ctx... of each monitor
  circuit,  \* .ctx-circuit.json, which every change is saved to
  file,     \* context-handoff-leases.json
  polled,   \* who has been polled in this tick
  owed,     \* the session refreshes on their way
  past,     \* history: handoff prompts and forced restarts in the window; whether
            \* the session of the last prompt had an id by then
  spent     \* reports and sessions so far

handoffVars == <<up, status, monitor, circuit, file, polled, owed, past, spent>>

Never == 99                 \* no such moment
Age(t) == 0..t \cup {Never}

\* A reading is a share of the window: below the handoff threshold (0), above it
\* (1), and above it by as much as counts as work done since (2).  "none": the
\* file is missing, too old or has no number; "full": the codex adapter saw its
\* thread fail for want of room.
Status == [kind : {"none", "share", "full"}, share : 0..2, id : {"null", "old", "cur"}]
\* What the monitor writes into the file when it acts.
Emptied == [kind |-> "share", share |-> 0, id |-> "null"]

Monitor == [seen : {"none", "older", "old", "cur"}, anchor : Age(GraceTicks), lease : BOOLEAN,
            fired : BOOLEAN, deadline : Age(DeadlineTicks), baseline : 0..2 \cup {Never}]
FreshMonitor == [seen |-> "none", anchor |-> Never, lease |-> FALSE,
                 fired |-> FALSE, deadline |-> Never, baseline |-> Never]

Ages == Seq(0..(WindowTicks - 1))
Whole == [restarts |-> <<>>, fires |-> <<>>, broken |-> Never]

HandoffTypeOK ==
  /\ up \in SUBSET Agents /\ polled \in SUBSET Agents /\ owed \in SUBSET Agents
  /\ status \in [Agents -> Status] /\ monitor \in [Agents -> Monitor]
  /\ \A a \in Agents :
       /\ circuit[a].restarts \in Ages /\ circuit[a].fires \in Ages
       /\ circuit[a].broken \in Age(PauseTicks)
       /\ past[a].prompts \in Ages /\ past[a].forced \in Ages /\ past[a].named \in BOOLEAN
  /\ file.active \subseteq [agent : Agents, age : 0..(LeaseTicks - 1)]
  /\ file.queue \in Seq([agent : Agents, age : 0..(QueueTicks - 1)])
  /\ spent \in [Agents -> [reports : 0..MaxReports, sessions : 0..MaxSessions]]

-----------------------------------------------------------------------------
(* The lease file *)

\* Array.filter: the entries of q that are in K, in their order.
Only(q, K) ==
  LET first[n \in 0..Len(q)] ==
        IF n = 0 THEN <<>>
        ELSE IF q[n] \in K THEN Append(first[n - 1], q[n]) ELSE first[n - 1]
  IN first[Len(q)]

Without(f, a) == [active |-> {e \in f.active : e.agent # a},
                  queue |-> Only(f.queue, [agent : Agents \ {a}, age : Nat])]

Leased(f, a) == \E e \in f.active : e.agent = a
Queued(f, a) == \E i \in DOMAIN f.queue : f.queue[i].agent = a

\* requestContextHandoffLease grants the lease: the agent has one, or there is
\* room and nobody waits, or it is the first to wait and its stagger is over.
Granted(f, a) ==
  \/ Leased(f, a)
  \/ /\ Cardinality(f.active) < MaxConcurrent
     /\ f.queue # <<>> => Head(f.queue).agent = a

\* The stagger is shorter than a tick.
Staggered(f, a) == ~Leased(f, a) /\ f.queue # <<>> /\ Head(f.queue).age = 0

WithLease(f, a) ==
  IF Leased(f, a) THEN f
  ELSE [active |-> f.active \cup {[agent |-> a, age |-> 0]},
        queue |-> IF f.queue = <<>> THEN <<>> ELSE Tail(f.queue)]

Waiting(f, a) ==
  IF Queued(f, a) THEN f ELSE [f EXCEPT !.queue = Append(@, [agent |-> a, age |-> 0])]

-----------------------------------------------------------------------------
(* checkContextStatus *)

Share(a) == status[a].share
Paused(a) == circuit[a].broken < PauseTicks
Circuit(a) == IF circuit[a].broken = PauseTicks THEN Whole ELSE circuit[a]

\* Another session than the one seen last reports.
NewSession(a) == status[a].id \notin {"null", monitor[a].seen}

\* The monitor and the file after the look at the session id.
Noticed(a) ==
  IF ~NewSession(a) THEN monitor[a]
  ELSE LET m == [monitor[a] EXCEPT !.seen = status[a].id, !.lease = FALSE, !.anchor = 0]
       IN IF monitor[a].seen = "none" THEN m ELSE [m EXCEPT !.fired = FALSE, !.deadline = Never]

NoticedFile(a) == IF NewSession(a) THEN Without(file, a) ELSE file

Grace(m) == m.anchor < GraceTicks

\* evaluateContextBaseline: the first reading after the grace of a session.
Based(a, m) ==
  IF m.baseline = Never /\ m.anchor # Never /\ ~Grace(m)
  THEN [m EXCEPT !.baseline = Share(a)] ELSE m

\* Mutant: the monitor's own lease is released, too.
UnleakedAnyway(a, m, f) == IF Share(a) = 0 THEN Without(f, a) ELSE f

\* A lease that the monitor does not know of, of an agent that needs none.
Unleaked(a, m, f) == IF Share(a) = 0 /\ ~m.lease THEN Without(f, a) ELSE f

Reads(a) == Based(a, Noticed(a))
ReadsFile(a) == Unleaked(a, Noticed(a), NoticedFile(a))

\* A session born above the threshold is not helped by a handoff.
Futile(a, m) == m.baseline \in {1, 2} /\ Share(a) <= m.baseline

Wants(a, m) == Share(a) >= 1 /\ ~m.fired /\ ~Grace(m) /\ ~Futile(a, m)

Overdue(m) == m.deadline = DeadlineTicks

Readable(a) == ~Paused(a) /\ status[a].kind = "share"

Keeps(a, m, c, f) ==
  /\ monitor' = [monitor EXCEPT ![a] = m]
  /\ circuit' = [circuit EXCEPT ![a] = c]
  /\ file' = f

\* forceContextRestart.  The refresh it asks for takes its time.
ForceRestart(a, m, f) ==
  LET c == Circuit(a)
  IN \/ /\ Len(c.restarts) >= 3
        /\ Keeps(a, m, [c EXCEPT !.broken = 0], f)
        /\ UNCHANGED <<status, owed, past>>
     \/ /\ Len(c.restarts) < 3
        /\ Keeps(a, [m EXCEPT !.fired = FALSE, !.deadline = Never, !.baseline = Never, !.lease = FALSE],
                 [c EXCEPT !.restarts = Append(@, 0)], Without(f, a))
        /\ status' = [status EXCEPT ![a] = Emptied]
        /\ owed' = owed \cup {a}
        /\ past' = [past EXCEPT ![a].forced = Append(@, 0)]

\* The breaker is open, or there is nothing to act on.
Rests(a) ==
  /\ Paused(a) \/ status[a].kind = "none"
  /\ circuit' = [circuit EXCEPT ![a] = Circuit(a)]
  /\ UNCHANGED <<status, monitor, file, owed, past>>

\* A codex thread has no room left.
RunsOutOfRoom(a) ==
  /\ ~Paused(a) /\ status[a].kind = "full"
  /\ ForceRestart(a, monitor[a], file)

\* The terminal shows that the window overflowed, and the reading agrees.
Overflows(a) ==
  /\ Readable(a) /\ Share(a) >= 1
  /\ ForceRestart(a, Noticed(a), NoticedFile(a))

\* The prompt was not followed.
GivesUpOn(a) ==
  /\ Readable(a) /\ Overdue(Reads(a))
  /\ ForceRestart(a, [Reads(a) EXCEPT !.deadline = Never], ReadsFile(a))

Watches(a) ==
  /\ Readable(a) /\ ~Overdue(Reads(a)) /\ ~Wants(a, Reads(a))
  /\ Keeps(a, Reads(a), Circuit(a), ReadsFile(a))
  /\ UNCHANGED <<status, owed, past>>

Waits(a) ==
  /\ Readable(a) /\ ~Overdue(Reads(a)) /\ Wants(a, Reads(a))
  /\ ~Granted(ReadsFile(a), a) \/ Staggered(ReadsFile(a), a)
  /\ Keeps(a, Reads(a), Circuit(a), Waiting(ReadsFile(a), a))
  /\ UNCHANGED <<status, owed, past>>

\* The prompt is injected, unless this is the third within the window.
HandsOff(a) ==
  LET c == [Circuit(a) EXCEPT !.fires = Append(@, 0)]
      f == WithLease(ReadsFile(a), a)
  IN /\ Readable(a) /\ ~Overdue(Reads(a)) /\ Wants(a, Reads(a))
     /\ Granted(ReadsFile(a), a)
     /\ \/ /\ Len(c.fires) >= 3
           /\ Keeps(a, [Reads(a) EXCEPT !.lease = FALSE], [c EXCEPT !.broken = 0], Without(f, a))
           /\ UNCHANGED <<status, past>>
        \/ /\ Len(c.fires) < 3
           /\ Keeps(a, [Reads(a) EXCEPT !.lease = TRUE, !.fired = TRUE, !.deadline = 0], c, f)
           /\ status' = [status EXCEPT ![a] = Emptied]
           /\ past' = [past EXCEPT ![a].prompts = Append(@, 0), ![a].named = Reads(a).seen # "none"]
     /\ UNCHANGED owed

Checks(a) ==
  /\ a \in up
  /\ Rests(a) \/ RunsOutOfRoom(a) \/ Overflows(a) \/ GivesUpOn(a) \/ Watches(a) \/ Waits(a) \/ HandsOff(a)
  /\ polled' = polled \cup {a}
  /\ UNCHANGED <<up, spent>>

-----------------------------------------------------------------------------
(* Sessions and time *)

\* The runtime writes what it measures, with or without its session's id.
Reports(a) ==
  /\ a \in up
  /\ \E s \in Status :
       /\ s.id # "old" /\ (s.kind # "share" => s.share = 0 /\ s.id = "null")
       /\ s # status[a] /\ status' = [status EXCEPT ![a] = s]
  /\ spent[a].reports < MaxReports /\ spent' = [spent EXCEPT ![a].reports = @ + 1]
  /\ UNCHANGED <<up, monitor, circuit, file, polled, owed, past>>

SeenBefore(a) ==
  CASE monitor[a].seen = "cur" -> "old"
    [] monitor[a].seen = "old" /\ status[a].id = "cur" -> "older"
    [] OTHER -> monitor[a].seen

Elapsed(s) == IF s.id = "cur" THEN [s EXCEPT !.id = "old"] ELSE s

Budgeted(a) == spent[a].sessions < MaxSessions /\ spent' = [spent EXCEPT ![a].sessions = @ + 1]

\* A session follows another in the same process: a refresh, or a restart after
\* an exit.  The monitor stays; its baseline is of the old generation.
SessionStarts(a) ==
  /\ a \in up
  /\ \/ a \in owed /\ UNCHANGED spent
     \/ Budgeted(a)
  /\ owed' = owed \ {a}
  /\ monitor' = [monitor EXCEPT ![a].seen = SeenBefore(a), ![a].baseline = Never]
  /\ status' = [status EXCEPT ![a] = Elapsed(@)]
  /\ UNCHANGED <<up, circuit, file, polled, past>>

\* stopAgent ends the monitor with the agent.
AgentStops(a) ==
  /\ a \in up
  /\ up' = up \ {a} /\ owed' = owed \ {a}
  /\ UNCHANGED <<status, monitor, circuit, file, polled, past, spent>>

\* Mutant: the new monitor does not load the circuit.
AgentStartsAfresh(a) ==
  /\ a \notin up /\ Budgeted(a)
  /\ up' = up \cup {a}
  /\ monitor' = [monitor EXCEPT ![a] = FreshMonitor]
  /\ circuit' = [circuit EXCEPT ![a] = Whole]
  /\ status' = [status EXCEPT ![a] = Elapsed(@)]
  /\ UNCHANGED <<file, polled, owed, past>>

\* startAgent makes a monitor that has nothing but the circuit (loadCtxCircuit).
AgentStarts(a) ==
  /\ a \notin up /\ Budgeted(a)
  /\ up' = up \cup {a}
  /\ monitor' = [monitor EXCEPT ![a] = FreshMonitor]
  /\ status' = [status EXCEPT ![a] = Elapsed(@)]
  /\ UNCHANGED <<circuit, file, polled, owed, past>>

Older(t, most) == IF t < most THEN t + 1 ELSE t
\* The oldest come first, so that those that leave the window are a prefix.
Recent(ages) ==
  LET over == Cardinality({i \in DOMAIN ages : ages[i] + 1 >= WindowTicks})
  IN [i \in 1..(Len(ages) - over) |-> ages[i + over] + 1]

\* Mutant: who waits waits for ever.
KeptQueue(f) ==
  [active |-> {e \in {[x EXCEPT !.age = @ + 1] : x \in f.active} : e.age < LeaseTicks},
   queue |-> [i \in DOMAIN f.queue |-> [f.queue[i] EXCEPT !.age = Older(@, QueueTicks - 1)]]]

\* readLeaseState leaves out what is over.
Kept(f) ==
  [active |-> {e \in {[x EXCEPT !.age = @ + 1] : x \in f.active} : e.age < LeaseTicks},
   queue |-> Only([i \in DOMAIN f.queue |-> [f.queue[i] EXCEPT !.age = @ + 1]],
                  [agent : Agents, age : 0..(QueueTicks - 1)])]

Tick ==
  /\ up \subseteq polled
  /\ polled' = {}
  /\ file' = Kept(file)
  /\ monitor' = [a \in Agents |->
       [monitor[a] EXCEPT !.anchor = Older(@, GraceTicks), !.deadline = Older(@, DeadlineTicks)]]
  /\ circuit' = [a \in Agents |->
       [restarts |-> Recent(circuit[a].restarts), fires |-> Recent(circuit[a].fires),
        broken |-> Older(circuit[a].broken, PauseTicks)]]
  /\ past' = [a \in Agents |-> [past[a] EXCEPT !.prompts = Recent(@), !.forced = Recent(@)]]
  /\ UNCHANGED <<up, status, owed, spent>>

\* The daemon comes up; the lease file is as its predecessor left it.
Leftovers ==
  [active : {{}} \cup {{[agent |-> a, age |-> 0]} : a \in Agents},
   queue : {<<>>} \cup {<<[agent |-> a, age |-> 0]>> : a \in Agents}]

HandoffInit ==
  /\ up \in SUBSET Agents /\ polled = {} /\ owed = {}
  /\ status = [a \in Agents |-> [Emptied EXCEPT !.kind = "none"]]
  /\ monitor = [a \in Agents |-> FreshMonitor]
  /\ circuit = [a \in Agents |-> Whole]
  /\ file \in {f \in Leftovers : \A a \in Agents : ~(Leased(f, a) /\ Queued(f, a))}
  /\ past = [a \in Agents |-> [prompts |-> <<>>, forced |-> <<>>, named |-> TRUE]]
  /\ spent \in [Agents -> [reports : 0..MaxReports, sessions : 0..MaxSessions]]

HandoffNext ==
  \/ \E a \in Agents : Checks(a) \/ Reports(a) \/ SessionStarts(a) \/ AgentStops(a) \/ AgentStarts(a)
  \/ Tick

HandoffFairness == WF_handoffVars(Tick) /\ \A a \in Agents : WF_handoffVars(Checks(a))

HandoffSpec == HandoffInit /\ [][HandoffNext]_handoffVars /\ HandoffFairness

-----------------------------------------------------------------------------
(* Properties *)

\* Whatever an agent's runtime reports and however often its sessions, its
\* process and its monitor are replaced: within fifteen minutes it gets at most
\* two handoff prompts and is restarted by force at most three times.
LoopsAreBroken ==
  \A a \in Agents : Len(past[a].prompts) <= 2 /\ Len(past[a].forced) <= 3

\* An agent that was told to hand over, and has not run out of time, still holds
\* its lease: no path of any monitor gives it away, so that never more agents
\* than allowed hand over at once.  A session that reports its id only after its
\* prompt is left out: it passes for a new one and loses the lease.
Prompted(a) == a \in up /\ monitor[a].deadline < DeadlineTicks /\ past[a].named
HandoffsAreLeased ==
  /\ \A a \in Agents : Prompted(a) => Leased(file, a)
  /\ Cardinality({a \in Agents : Prompted(a)}) <= MaxConcurrent

\* What the circuit breaker and the leases are for, over any number of sessions.
HandoffsAreBounded == LoopsAreBroken /\ HandoffsAreLeased

\* An agent above its threshold gets its turn, or something else ends its need:
\* leases that leaked and places in the queue that were abandoned do not keep it
\* waiting for ever.
InNeed(a) == a \in up /\ Readable(a) /\ Wants(a, monitor[a]) /\ ~NewSession(a)
HandoffsAreServed == \A a \in Agents : InNeed(a) ~> ~InNeed(a)
=============================================================================
