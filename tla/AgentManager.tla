---------------------------- MODULE AgentManager ----------------------------
(***************************************************************************)
(* The registry of AgentManager (src/src/daemon/agent-manager.ts) for one  *)
(* agent name without a lifecycle owner: startAgent, stopAgent and         *)
(* restartAgent, which the IPC server calls without waiting, interleaved   *)
(* at every await with one another and with the AgentProcess of every      *)
(* entry ever registered under the name.                                   *)
(*                                                                         *)
(* Entries are numbered in the order of registration.  A request is a call *)
(* and says at which await it stands; a stop that honours a queued restart *)
(* goes on as the start it calls.  Promise continuations run as actions of *)
(* their own, so every order of the code's microtasks is included.         *)
(***************************************************************************)
EXTENDS AgentProcess, FiniteSets

CONSTANTS
  Requests,     \* bound: the calls that are ever made
  MaxMishaps,   \* bound: crashes, failed spawns, refreshes, poll conflicts
  Kinds         \* what a call may be: "start", "restart", "stop" (from
                \* stopAll) and "userStop"

ASSUME RequestsAssumption ==
  IsFiniteSet(Requests) /\ MaxMishaps \in Nat /\ Kinds \subseteq {"start", "restart", "stop", "userStop"}

VARIABLES
  proc,         \* the AgentProcess of each entry
  entry,        \* the rest of each entry: teardown mark, checker, poller;
                \* late, history: the poller was set going during the teardown
  made,         \* how many entries were made
  mapped,       \* agents.get(name), 0: none
  scheduler,    \* cronSchedulers.get(name), 0: none
  ticking,      \* schedulers whose interval timer runs
  pending,      \* the name is in pendingRestarts
  evicting,     \* the name is in evictingAgents
  claimed,      \* the name is in stoppingAgents
  justCrashed,  \* daemonJustCrashed
  call,         \* where each call stands
  mishaps

vars == <<proc, entry, made, mapped, scheduler, ticking, pending, evicting,
          claimed, justCrashed, call, mishaps>>
marks == <<pending, evicting, claimed, justCrashed>>

\* A call makes at most one entry, and holds at most one scheduler.
Entries == 1..(Cardinality(Requests) + 1)
Schedulers == 1..(Cardinality(Requests) + 1)
NewEntry == [torn |-> FALSE, checker |-> FALSE, poller |-> "off", late |-> FALSE]
NewCall(k) == [kind |-> k, at |-> "due", of |-> 0, held |-> 0]

TypeOK ==
  /\ proc \in [Entries -> Process]
  /\ entry \in [Entries -> [torn : BOOLEAN, checker : BOOLEAN,
                            poller : {"off", "polling", "waiting"}, late : BOOLEAN]]
  /\ made \in Entries \cup {0} /\ mapped \in 0..made
  /\ scheduler \in Schedulers \cup {0} /\ ticking \subseteq Schedulers
  /\ pending \in BOOLEAN /\ evicting \in BOOLEAN
  /\ claimed \in BOOLEAN /\ justCrashed \in BOOLEAN
  /\ mishaps \in 0..MaxMishaps
  /\ call \in [Requests ->
       [kind : Kinds,
        at : {"due", "starting", "evicting", "stopping", "stopped", "done"},
        of : Entries \cup {0}, held : Schedulers \cup {0}]]

\* The registry is empty, or discoverAndStart has put a running agent in it.
Empty ==
  /\ proc = [i \in Entries |-> NewProcess]
  /\ entry = [i \in Entries |-> NewEntry]
  /\ made = 0 /\ mapped = 0 /\ scheduler = 0 /\ ticking = {}

Booted ==
  /\ proc = [[i \in Entries |-> NewProcess] EXCEPT ![1] = Spawned(Forked(Spawning(@)))]
  /\ entry = [[i \in Entries |-> NewEntry] EXCEPT ![1].checker = TRUE, ![1].poller = "polling"]
  /\ made = 1 /\ mapped = 1 /\ scheduler = 1 /\ ticking = {1}

Init ==
  /\ Empty \/ Booted
  /\ pending = FALSE /\ evicting = FALSE /\ claimed = FALSE
  /\ justCrashed \in (IF mapped = 0 THEN {FALSE} ELSE BOOLEAN)
  /\ mishaps = 0
  /\ call \in [Requests -> {NewCall(k) : k \in Kinds}]

-----------------------------------------------------------------------------
(* Helpers *)

\* isAgentActuallyAlive: a start in flight counts as alive.
Alive(i) == proc[i].status = "starting" \/ (proc[i].status = "running" /\ HasPid(proc[i]))

\* A scheduler that nobody holds.
FreeScheduler ==
  CHOOSE s \in Schedulers :
    s \notin ticking \cup {scheduler} /\ \A c \in Requests : call[c].held # s

Moves(c, at, of, held) ==
  /\ call' = [call EXCEPT ![c] = [@ EXCEPT !.at = at, !.of = of, !.held = held]]
  /\ UNCHANGED mishaps
Returns(c) == Moves(c, "done", 0, 0)

\* What a teardown does before its first await.  A poller that waits between
\* two attempts does not notice.
TearsDown(i) ==
  entry' = [entry EXCEPT ![i] =
              [@ EXCEPT !.torn = TRUE, !.checker = FALSE,
                        !.poller = IF entry[i].poller = "waiting" THEN "waiting" ELSE "off"]]

\* Mutant: the name is not looked at.
SetPollingAnyway(e, i) == [e EXCEPT !.poller = "polling", !.late = @ \/ (mapped = i /\ e.torn)]

\* An entry's poller is to be set going: not if the name is another's by now.
SetPolling(e, i) ==
  IF mapped = i THEN [e EXCEPT !.poller = "polling", !.late = @ \/ e.torn]
  ELSE e

\* Mutant: a scheduler that was wired during the await goes unnoticed.
LateSchedulerMissed(i, held) ==
  CASE held # 0 /\ scheduler = held /\ mapped \notin {0, i} ->
         /\ scheduler' = FreeScheduler
         /\ ticking' = (ticking \ {held}) \cup {FreeScheduler}
    [] held # 0 /\ scheduler = held /\ mapped \in {0, i} ->
         /\ scheduler' = 0
         /\ ticking' = ticking \ {held}
    [] held # 0 /\ scheduler # held ->
         /\ ticking' = ticking \ {held}
         /\ UNCHANGED scheduler
    [] held = 0 ->
         /\ UNCHANGED ticking
         /\ scheduler' = IF mapped = i THEN 0 ELSE scheduler

\* Mutant: what is under the name after the await is taken for the entry's own.
TornDownByName(i, held) ==
  /\ scheduler' = 0
  /\ ticking' = ticking \ {scheduler, held}

\* After the await: the scheduler that was captured is stopped, and a newcomer
\* that was refused one because of it gets its own.  If there was none to
\* capture, one that was wired since then is stopped.
SchedulerTornDown(i, held) ==
  CASE held # 0 /\ scheduler = held /\ mapped \notin {0, i} ->
         /\ scheduler' = FreeScheduler
         /\ ticking' = (ticking \ {held}) \cup {FreeScheduler}
    [] held # 0 /\ scheduler = held /\ mapped \in {0, i} ->
         /\ scheduler' = 0
         /\ ticking' = ticking \ {held}
    [] held # 0 /\ scheduler # held ->
         /\ ticking' = ticking \ {held}
         /\ UNCHANGED scheduler
    [] held = 0 /\ mapped = i ->
         /\ scheduler' = 0
         /\ ticking' = ticking \ {scheduler}
    [] held = 0 /\ mapped # i -> UNCHANGED <<scheduler, ticking>>

\* startAgent for a name that is free: a new entry, and its process is started.
Registers(c) ==
  /\ made' = made + 1
  /\ mapped' = made + 1
  /\ proc' = [proc EXCEPT ![made + 1] = Started(@)]
  /\ Moves(c, "starting", made + 1, 0)

-----------------------------------------------------------------------------
(* startAgent *)

\* A start of a living agent: queued behind a stop, or after a daemon crash;
\* else there is nothing to do.
StartOfLiving(c) ==
  /\ mapped # 0 /\ Alive(mapped)
  /\ pending' = (pending \/ justCrashed \/ claimed)
  /\ Returns(c)
  /\ UNCHANGED <<proc, entry, made, mapped, scheduler, ticking, evicting, claimed, justCrashed>>

\* A dead entry whose eviction is in progress is left to it.
StartDuringEviction(c) ==
  /\ mapped # 0 /\ ~Alive(mapped) /\ evicting
  /\ Returns(c)
  /\ UNCHANGED <<proc, entry, made, mapped, scheduler, ticking, marks>>

\* A dead entry is torn down first.
StartEvicts(c) ==
  /\ mapped # 0 /\ ~Alive(mapped) /\ ~evicting
  /\ evicting' = TRUE
  /\ TearsDown(mapped)
  /\ proc' = [proc EXCEPT ![mapped] = Stopping(@)]
  /\ Moves(c, "evicting", mapped, scheduler)
  /\ UNCHANGED <<made, mapped, scheduler, ticking, pending, claimed, justCrashed>>

StartOfUnknown(c) ==
  /\ mapped = 0
  /\ Registers(c)
  /\ UNCHANGED <<entry, scheduler, ticking, marks>>

StartAgent(c) ==
  StartOfLiving(c) \/ StartDuringEviction(c) \/ StartEvicts(c) \/ StartOfUnknown(c)

\* Behind `await stale.process.stop()`: another instance may have the name.
EvictionEnds(c) ==
  LET stale == call[c].of
  IN /\ call[c].at = "evicting" /\ proc[stale].stopping = 0
     /\ SchedulerTornDown(stale, call[c].held)
     /\ evicting' = FALSE
     /\ IF mapped \notin {0, stale}
        THEN Returns(c) /\ UNCHANGED <<proc, made, mapped, pending>>
        ELSE Registers(c) /\ pending' = FALSE
     /\ UNCHANGED <<entry, claimed, justCrashed>>

\* Mutant: the checker is started without a look at the teardown mark.
StartEndsAnyway(c) ==
  LET own == call[c].of
  IN /\ call[c].at = "starting" /\ proc[own].start = "none"
     /\ IF mapped = own /\ scheduler = 0
        THEN scheduler' = FreeScheduler /\ ticking' = ticking \cup {FreeScheduler}
        ELSE UNCHANGED <<scheduler, ticking>>
     /\ entry' = [entry EXCEPT ![own] = [SetPolling(@, own) EXCEPT !.checker = TRUE]]
     /\ Returns(c)
     /\ UNCHANGED <<proc, made, mapped, marks>>

\* Behind `await agentProcess.start()`.
StartEnds(c) ==
  LET own == call[c].of
  IN /\ call[c].at = "starting" /\ proc[own].start = "none"
     /\ IF mapped = own /\ scheduler = 0
        THEN scheduler' = FreeScheduler /\ ticking' = ticking \cup {FreeScheduler}
        ELSE UNCHANGED <<scheduler, ticking>>
     /\ entry' = [entry EXCEPT ![own] = [SetPolling(@, own) EXCEPT !.checker = ~entry[own].torn]]
     /\ Returns(c)
     /\ UNCHANGED <<proc, made, mapped, marks>>

-----------------------------------------------------------------------------
(* stopAgent and restartAgent *)

StopOfUnknown(c) ==
  /\ mapped = 0
  /\ Returns(c)
  /\ UNCHANGED <<proc, entry, made, mapped, scheduler, ticking, marks>>

StopBegins(c) ==
  /\ mapped # 0
  /\ claimed' = TRUE
  /\ TearsDown(mapped)
  /\ proc' = [proc EXCEPT ![mapped] = Stopping(@)]
  /\ Moves(c, "stopping", mapped, scheduler)
  /\ UNCHANGED <<made, mapped, scheduler, ticking, pending, evicting, justCrashed>>

\* Behind `await entry.process.stop()`.  A name that was bound anew is left
\* alone; else it is freed, and a restart that was queued is dropped by the
\* user's stop and honoured by any other.
StopEnds(c) ==
  LET own == call[c].of
      superseded == mapped \notin {0, own}
      honours == ~superseded /\ pending /\ call[c].kind # "userStop"
  IN /\ call[c].at = "stopping" /\ proc[own].stopping = 0
     /\ SchedulerTornDown(own, call[c].held)
     /\ claimed' = FALSE
     /\ pending' = (pending /\ superseded)
     /\ IF honours THEN Registers(c)
        ELSE /\ mapped' = IF superseded THEN mapped ELSE 0
             /\ IF call[c].kind = "restart" THEN Moves(c, "stopped", own, 0) ELSE Returns(c)
             /\ UNCHANGED <<proc, made>>
     /\ UNCHANGED <<entry, evicting, justCrashed>>

\* restartAgent behind its stopAgent: it starts unless somebody else did.
RestartGoesOn(c) ==
  /\ call[c].at = "stopped"
  /\ IF mapped \notin {0, call[c].of}
     THEN Returns(c) /\ UNCHANGED <<proc, entry, made, mapped, scheduler, ticking, marks>>
     ELSE StartAgent(c)

\* The IPC server makes the call.
Begin(c) ==
  /\ call[c].at = "due"
  /\ IF call[c].kind = "start" THEN StartAgent(c) ELSE StopOfUnknown(c) \/ StopBegins(c)

-----------------------------------------------------------------------------
(* The rest of the daemon *)

others == <<entry, made, mapped, scheduler, ticking, marks, call>>

Mishap == mishaps < MaxMishaps /\ mishaps' = mishaps + 1

\* reloadCrons over IPC: a registered agent without a scheduler gets one.
ReloadCrons ==
  /\ mapped # 0 /\ scheduler = 0
  /\ scheduler' = FreeScheduler /\ ticking' = ticking \cup {FreeScheduler}
  /\ UNCHANGED <<proc, entry, made, mapped, marks, call, mishaps>>

\* discoverAndStart is through: clearDaemonCrashMarkers.
BootEnds ==
  /\ justCrashed /\ justCrashed' = FALSE
  /\ UNCHANGED <<proc, entry, made, mapped, scheduler, ticking, pending, evicting,
                 claimed, call, mishaps>>

\* The loop around the poller: it gives up its place on a conflict, and
\* later takes it again if the entry still has the name.
PollerConflicts(i) ==
  /\ entry[i].poller = "polling" /\ Mishap
  /\ entry' = [entry EXCEPT ![i].poller = "waiting"]
  /\ UNCHANGED <<proc, made, mapped, scheduler, ticking, marks, call>>

PollerRetries(i) ==
  /\ entry[i].poller = "waiting"
  /\ entry' = [entry EXCEPT ![i] = SetPolling([@ EXCEPT !.poller = "off"], i)]
  /\ UNCHANGED <<proc, made, mapped, scheduler, ticking, marks, call, mishaps>>

Becomes(i, p) == proc' = [proc EXCEPT ![i] = p] /\ UNCHANGED others
GoesOn(i, p) == Becomes(i, p) /\ UNCHANGED mishaps

DelayOver(i) == proc[i].start = "delay" /\ GoesOn(i, Spawning(proc[i]))

Unforked(p) == p.start = "spawning" /\ p.child[p.gen] = "none"
Fork(i) == Unforked(proc[i]) /\ GoesOn(i, Forked(proc[i]))
SpawnFails(i) == Unforked(proc[i]) /\ Mishap /\ Becomes(i, SpawnFailed(proc[i]))

SpawnReturns(i) ==
  /\ proc[i].start = "spawning" /\ ~Unforked(proc[i])
  /\ GoesOn(i, Spawned(proc[i]))

Dies(p, g) == [p EXCEPT !.child[g] = "dead"]
ChildKilled(i) ==
  /\ proc[i].stopping # 0 /\ ~proc[i].blind /\ proc[i].child[proc[i].stopping] = "live"
  /\ GoesOn(i, Dies(proc[i], proc[i].stopping))
ChildExits(i) ==
  \E g \in Live(proc[i]) : Mishap /\ Becomes(i, Dies(proc[i], g))

ExitEvent(i, g, v) ==
  /\ proc[i].child[g] = "dead"
  /\ GoesOn(i, Handled(proc[i], g, v))

StopFinishes(i) == StopMayEnd(proc[i]) /\ GoesOn(i, Stopped(proc[i]))
RestartTimer(i) == proc[i].timers > 0 /\ GoesOn(i, Restarted(proc[i]))
SessionTimer(i) == proc[i].session /\ Mishap /\ Becomes(i, Refreshing(proc[i]))
RefreshGoesOn(i) ==
  /\ proc[i].refresh /\ proc[i].stopping = 0
  /\ GoesOn(i, Refreshed(proc[i]))

ProcessStep(i) ==
  \/ DelayOver(i) \/ Fork(i) \/ SpawnFails(i) \/ SpawnReturns(i)
  \/ ChildKilled(i) \/ ChildExits(i) \/ \E g \in Gens, v \in Verdicts : ExitEvent(i, g, v)
  \/ StopFinishes(i) \/ RestartTimer(i) \/ SessionTimer(i) \/ RefreshGoesOn(i)

Next ==
  \/ \E c \in Requests :
       Begin(c) \/ EvictionEnds(c) \/ StartEnds(c) \/ StopEnds(c) \/ RestartGoesOn(c)
  \/ \E i \in Entries : PollerConflicts(i) \/ PollerRetries(i) \/ ProcessStep(i)
  \/ ReloadCrons \/ BootEnds

\* Promises settle and timers fire; a process that is being killed dies.
Fairness ==
  /\ \A c \in Requests :
       WF_vars(EvictionEnds(c) \/ StartEnds(c) \/ StopEnds(c) \/ RestartGoesOn(c))
  /\ \A i \in Entries :
       /\ WF_vars(DelayOver(i)) /\ WF_vars(Fork(i) \/ SpawnFails(i) \/ SpawnReturns(i))
       /\ WF_vars(StopFinishes(i)) /\ WF_vars(RefreshGoesOn(i))
       /\ WF_vars(ChildKilled(i))

Spec == Init /\ [][Next]_vars /\ Fairness

-----------------------------------------------------------------------------
(* Properties *)

\* Every process of the name that runs, is not being torn down, and was not
\* in the middle of a start or refresh when a stop came, belongs to the
\* registered entry and is that entry's current generation: no start, stop,
\* restart or eviction loses sight of a process or runs two at a time.
LiveIsRegistered ==
  \A i \in Entries :
    \A g \in Live(proc[i]) \ {proc[i].stopping} :
      proc[i].overtaken \/ (i = mapped /\ g = proc[i].gen)

\* Once a teardown has begun, its entry injects nothing: a start that was
\* parked in agentProcess.start() does not switch the checker on again.  And a
\* poller outlives its entry only if it was set going between the beginning
\* of the teardown and the freeing of the name: no other order of conflicts,
\* retries, starts and teardowns leaves one that fetches the bot's updates
\* beside its successor's.
TornDownStaysQuiet ==
  \A i \in 1..made : entry[i].torn =>
    /\ ~entry[i].checker
    /\ i # mapped /\ entry[i].poller = "polling" => entry[i].late

\* No interval timer is leaked: every scheduler that ticks is the one under the
\* name, or is held by a teardown that will stop it; and the one under the
\* name does tick.  When no call is in flight, a registered agent has its
\* crons: no entry is refused a scheduler for good because of its predecessor's.
SchedulersAccounted ==
  /\ ticking \subseteq {scheduler} \cup {call[c].held : c \in Requests}
  /\ scheduler # 0 => scheduler \in ticking
  /\ mapped # 0 /\ (\A c \in Requests : call[c].at \in {"due", "done"}) => scheduler # 0

\* An agent that was halted by its crash limit is not started by a timer, a
\* refresh or a late exit of an earlier generation.
HaltIsFinal ==
  [][\A i \in Entries : proc[i].status = "halted" => proc'[i].status \in {"halted", "stopped"}]_vars

\* A call that was begun returns: stops that join one another, starts that are
\* coalesced and evictions never wait for each other in a circle.
CallsReturn ==
  \A c \in Requests : call[c].at \notin {"due", "done"} ~> call[c].at = "done"
=============================================================================
