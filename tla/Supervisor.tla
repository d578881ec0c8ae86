----------------------------- MODULE Supervisor -----------------------------
(***************************************************************************)
(* AgentLifecycleSupervisor (src/src/daemon/lifecycle/supervisor.ts): the  *)
(* single owner of one agent's lifecycle.                                  *)
(*                                                                         *)
(* The owner decides a window of requests in one synchronous step: it      *)
(* commits the decision to the durable snapshot and only then launches     *)
(* detached asynchronous chains (runStart, runRestart, runRetire) that     *)
(* call the runtime.  A chain is a task here; each await of the chain is a *)
(* point where any other action may run, and the code between two awaits   *)
(* is one action.                                                          *)
(*                                                                         *)
(* The runtime is the RuntimeAdapter contract: a start reports ok or not,  *)
(* a retirement reports everything gone or names what it could not verify. *)
(* An OwnedResource is represented by the generation that owns it, since   *)
(* the code groups and filters resources by owner and by ids derived from  *)
(* it.                                                                     *)
(***************************************************************************)
EXTENDS Naturals, FiniteSets, Sequences

CONSTANTS
  Requests,        \* the lifecycle requests clients may submit
  MaxWindow,       \* requests decided together in one window
  MaxGeneration,   \* bound: generations allocated
  MaxRevision,     \* bound: intent revisions committed
  MaxCrashes,      \* bound: daemon crashes
  CommitOutcomes   \* possible outcomes of a store commit

NoGeneration == 0
Generation == 1..MaxGeneration
Kind == {"start", "stop", "restart", "refresh", "halt", "resume"}

\* CAUSE_SEVERITY, from the least to the most severe.
CausesBySeverity ==
  << {"daemon-shutdown"}, {"boot-self-heal", "reaper"},
     {"wedge-alert", "clean-exit", "opencode-continuation"},
     {"session-age", "context-soft-handoff"}, {"startup-failure"},
     {"context-hard-full", "image-poison"}, {"crash"},
     {"cron", "bus-self-restart", "bus-hard-restart"},
     {"manual-cli", "manual-ipc", "dashboard"} >>
Cause == UNION {CausesBySeverity[i] : i \in DOMAIN CausesBySeverity}
Severity(c) == CHOOSE i \in DOMAIN CausesBySeverity : c \in CausesBySeverity[i]

\* fresh: mode is 'fresh'.  observed: observedGeneration, 0 for null.
Request == [kind : Kind, cause : Cause, fresh : BOOLEAN, observed : Nat]

ASSUME RequestsAssumption == Requests \subseteq Request
ASSUME BoundsAssumption ==
  /\ MaxWindow \in Nat \ {0} /\ MaxGeneration \in Nat
  /\ MaxRevision \in Nat /\ MaxCrashes \in Nat
ASSUME CommitAssumption == TRUE \in CommitOutcomes /\ CommitOutcomes \subseteq BOOLEAN

VARIABLES
  snap,     \* the durable LifecycleSnapshot
  tasks,    \* asynchronous chains waiting for a runtime call
  live,     \* generations that have a process nobody has seen gone
  crashes,  \* daemon crashes so far
  spawned,  \* every startGeneration call so far, in order (history)
  asked,    \* a start was accepted under the current intent (history)
  gaps      \* the known gaps that the owner has run into (history)

vars == <<snap, tasks, live, crashes, spawned, asked, gaps>>

\* Where the owner may lose track, noted where the code takes the step.
Gap == {"beside",     \* a generation allocated while another may still run
        "dropped",    \* resources overwritten in the snapshot, and nobody retires them
        "unsaved",    \* the commit that names an unverified teardown's rest failed
        "lost",       \* a crash during the retirement of what the snapshot does not name
        "redundant",  \* a start accepted as running while nothing pursues it
        "behind",     \* the commit that ends a wanted start failed
        "unsettled"}  \* the commit that ends a stop's retirement failed, or a crash

Snapshot ==
  [desiredState : {"running", "stopped", "halted", "quarantined"},
   intentRevision : 0..MaxRevision,
   currentGeneration : Generation \cup {NoGeneration},
   nextGeneration : 1..(MaxGeneration + 1),
   phase : {"absent", "starting", "ready", "retiring", "blocked"},
   resources : SUBSET Generation,
   retiringResources : SUBSET Generation,
   freshPending : BOOLEAN]   \* pendingRequests holds a fresh request

StartTask ==
  [op : {"start"}, generation : Generation, intentRevision : 0..MaxRevision,
   fresh : BOOLEAN, reserved : BOOLEAN]
RestartTask ==
  [op : {"restart"}, generation : Generation, intentRevision : 0..MaxRevision,
   fresh : BOOLEAN, old : Generation, oldResources : SUBSET Generation]
RetireTask ==
  [op : {"retire"}, generation : Generation, intentRevision : 0..MaxRevision]
Task == StartTask \cup RestartTask \cup RetireTask

TypeOK ==
  /\ snap \in Snapshot
  /\ tasks \subseteq Task
  /\ live \subseteq Generation
  /\ crashes \in 0..MaxCrashes
  /\ spawned \in Seq(Generation)
  /\ asked \in BOOLEAN
  /\ gaps \subseteq Gap

-----------------------------------------------------------------------------
(* Windows of requests *)

Window == UNION {[1..n -> Requests] : n \in 1..MaxWindow}

\* The request that arrived first among the positions S of a window.
Earliest(S) == CHOOSE i \in S : \A j \in S : i <= j

OfKind(w, kinds) == {i \in DOMAIN w : w[i].kind \in kinds}

\* Highest severity wins, the earliest of them on a tie.
Winner(w, S) ==
  Earliest({i \in S : \A j \in S : Severity(w[j].cause) <= Severity(w[i].cause)})

-----------------------------------------------------------------------------
(* Commits and effects *)

InitialSnapshotZero(desired) ==
  [desiredState |-> desired, intentRevision |-> 0,
   currentGeneration |-> NoGeneration, nextGeneration |-> 0, phase |-> "absent",
   resources |-> {}, retiringResources |-> {}, freshPending |-> FALSE]

InitialSnapshot(desired) ==
  [desiredState |-> desired, intentRevision |-> 0,
   currentGeneration |-> NoGeneration, nextGeneration |-> 1, phase |-> "absent",
   resources |-> {}, retiringResources |-> {}, freshPending |-> FALSE]

\* A failed commit leaves the durable snapshot as it was.
Committed(ok, before, after) == IF ok THEN after ELSE before

\* Mutant: the staleness test forgets the revision fence.
StaleByGeneration(s, t) == t.generation # s.currentGeneration

Stale(s, t) ==
  \/ t.intentRevision # s.intentRevision
  \/ t.generation # s.currentGeneration

\* A chain that would start a generation, and is still allowed to.
Pending(t) == t.op \in {"start", "restart"} /\ ~Stale(snap, t)

\* What the snapshot names, what is being retired and what is being spawned.
Bundle == snap.resources \cup snap.retiringResources
BeingRetired == {t.generation : t \in {u \in tasks : u.op = "retire"}}
BeingSpawned == {t.generation : t \in {u \in tasks : u.op = "start" /\ u.reserved}}

\* The history notes the gap if the step that is taken runs into it.
Noting(met, gap) == IF met THEN {gap} ELSE {}

\* startGeneration: the adapter first commits the reservation of the new
\* generation's resources, then spawns; without the reservation it does not.
Reserved(s, t, reserved) ==
  Committed(reserved, s, [s EXCEPT !.resources = @ \cup {t.generation}])

StartOf(t, reserved) ==
  [op |-> "start", generation |-> t.generation,
   intentRevision |-> t.intentRevision, fresh |-> t.fresh, reserved |-> reserved]

\* runRestart after its retirement, and runStart up to its await.
BeginStart(s, t, others) ==
  \/ Stale(s, t) /\ snap' = s /\ tasks' = others /\ UNCHANGED spawned
  \/ /\ ~Stale(s, t)
     /\ spawned' = Append(spawned, t.generation)
     /\ \E reserved \in CommitOutcomes :
          snap' = Reserved(s, t, reserved) /\ tasks' = others \cup {StartOf(t, reserved)}

RetireOf(g, rev) == [op |-> "retire", generation |-> g, intentRevision |-> rev]

-----------------------------------------------------------------------------
(* Deciding a window *)

StopTarget(r) ==
  CASE r.kind = "stop" -> "stopped"
    [] r.kind = "halt" /\ r.cause = "image-poison" -> "quarantined"
    [] OTHER -> "halted"

\* Mutant: the stop forgets to advance intentRevision.
StoppedUnfenced(s, r) ==
  [s EXCEPT !.desiredState = StopTarget(r), !.freshPending = FALSE,
            !.phase = IF s.resources \cup s.retiringResources = {} THEN "absent" ELSE "retiring"]

Stopped(s, r) ==
  [s EXCEPT !.desiredState = StopTarget(r), !.intentRevision = @ + 1,
            !.freshPending = FALSE,
            !.phase = IF s.resources \cup s.retiringResources = {} THEN "absent" ELSE "retiring"]

\* Stop and halt win outright; each owner generation in the pool gets its own
\* retirement.
HandleStopHalt(w) ==
  /\ OfKind(w, {"stop", "halt"}) # {}
  /\ snap.intentRevision < MaxRevision
  /\ \E ok \in CommitOutcomes :
       LET r == w[Earliest(OfKind(w, {"stop", "halt"}))]
           pool == snap.resources \cup snap.retiringResources
       IN /\ snap' = Committed(ok, snap, Stopped(snap, r))
          /\ tasks' = Committed(ok, tasks,
               tasks \cup {RetireOf(g, snap.intentRevision + 1) : g \in pool})
          /\ asked' = (asked /\ ~ok)
  /\ UNCHANGED <<live, crashes, spawned, gaps>>

Resumed(s) == [s EXCEPT !.desiredState = "running", !.intentRevision = @ + 1]

\* While halted or quarantined only a resume is accepted, and it starts nothing.
HandleHaltedGate(w) ==
  /\ OfKind(w, {"stop", "halt"}) = {}
  /\ snap.desiredState \in {"halted", "quarantined"}
  /\ OfKind(w, {"resume"}) # {} => snap.intentRevision < MaxRevision
  /\ \E ok \in CommitOutcomes :
       snap' = Committed(ok /\ OfKind(w, {"resume"}) # {}, snap, Resumed(snap))
  /\ UNCHANGED <<tasks, live, crashes, spawned, asked, gaps>>

\* The requests of a window that take part in the arbitration.
Pool(w) ==
  {i \in OfKind(w, {"start", "restart", "refresh"}) :
     ~ /\ w[i].kind = "refresh"
       /\ w[i].observed # NoGeneration
       /\ w[i].observed # snap.currentGeneration}

\* A blocked owner, or a start of an agent that already runs, allocates nothing.
NothingToDo(kind) ==
  \/ snap.phase = "blocked"
  \/ kind = "start" /\ snap.desiredState = "running" /\ snap.phase # "absent"

\* The window's winner leads to a new generation, if the commit succeeds.
Allocates(w) ==
  IF Pool(w) = {} THEN FALSE ELSE ~NothingToDo(w[Winner(w, Pool(w))].kind)

\* Requests are answered as accepted without a new generation; a blocked owner
\* accepts even when its commit failed.
AcceptedAsIs(w, ok) ==
  Pool(w) # {} /\ ~Allocates(w) /\ (ok \/ snap.phase = "blocked")

\* Mutant: only the winner's mode counts, the carried intent is forgotten.
WantsFreshWinner(w) == w[Winner(w, Pool(w))].fresh

\* A fresh request of the window or carried from before floors the mode.
WantsFresh(w) == snap.freshPending \/ \E i \in Pool(w) : w[i].fresh

\* The winner replaces a generation: retire it, then start.
RetiresFirst(w) ==
  w[Winner(w, Pool(w))].kind # "start" /\ snap.currentGeneration # NoGeneration

\* Something may be running, or is being spawned, that the new generation's chain
\* does not retire first.
Beside(isRestart) ==
  \/ BeingSpawned # {}
  \/ (Bundle \cup BeingRetired)
       \ (IF isRestart THEN snap.resources \cup {snap.currentGeneration} ELSE {}) # {}

\* A start is accepted because the agent runs or starts already, and it does not.
Redundant(w, ok) ==
  /\ AcceptedAsIs(w, ok)
  /\ snap.phase \notin {"ready", "blocked"}
  /\ \A t \in tasks : ~Pending(t)

Allocated(s, isRestart, fresh) ==
  [s EXCEPT !.currentGeneration = s.nextGeneration, !.nextGeneration = @ + 1,
            !.desiredState = "running", !.phase = "starting",
            !.retiringResources = IF isRestart THEN @ \cup s.resources ELSE @,
            !.resources = IF isRestart THEN {} ELSE @,
            !.freshPending = fresh]

\* Arbitration: the winner allocates a generation; a restart or refresh retires
\* the current generation first, a start spawns at once.
HandleAutonomous(w) ==
  /\ OfKind(w, {"stop", "halt"}) = {}
  /\ snap.desiredState \notin {"halted", "quarantined"}
  /\ UNCHANGED <<live, crashes>>
  /\ \/ \* nothing to arbitrate, a failed commit, or a commit of budgets only
        /\ \E ok \in CommitOutcomes :
             /\ ~ok \/ ~Allocates(w)
             /\ asked' = (asked \/ AcceptedAsIs(w, ok))
             /\ gaps' = gaps \cup Noting(Redundant(w, ok), "redundant")
        /\ UNCHANGED <<snap, tasks, spawned>>
     \/ \* a generation is allocated
        /\ Allocates(w)
        /\ snap.nextGeneration <= MaxGeneration
        /\ asked' = TRUE
        /\ gaps' = gaps \cup Noting(Beside(RetiresFirst(w)), "beside")
        /\ LET isRestart == RetiresFirst(w)
               new == [op |-> "restart", generation |-> snap.nextGeneration,
                       intentRevision |-> snap.intentRevision, fresh |-> WantsFresh(w),
                       old |-> snap.currentGeneration, oldResources |-> snap.resources]
               after == Allocated(snap, isRestart, WantsFresh(w))
           IN \/ isRestart /\ snap' = after /\ tasks' = tasks \cup {new} /\ UNCHANGED spawned
              \/ ~isRestart /\ BeginStart(after, new, tasks)

\* processWindow: the requests of one microtask are decided together.
ProcessWindow(w) == HandleStopHalt(w) \/ HandleHaltedGate(w) \/ HandleAutonomous(w)

-----------------------------------------------------------------------------
(* Completion of the runtime calls *)

StartFailed(s) == [s EXCEPT !.phase = "blocked"]

StartSucceeded(s, t) ==
  [s EXCEPT !.resources = {t.generation}, !.phase = "ready", !.freshPending = FALSE]

\* Mutant: a spawn is promoted whatever happened during the await.
StartCompletesUnfenced(t, up, ok) ==
  /\ t.op = "start"
  /\ up => t.reserved
  /\ live' = IF up THEN live \cup {t.generation} ELSE live
  /\ snap' = Committed(ok, snap, IF up THEN StartSucceeded(snap, t) ELSE StartFailed(snap))
  /\ tasks' = tasks \ {t}
  /\ UNCHANGED <<crashes, spawned, asked, gaps>>

\* Mutant: the stale spawn is discarded, nobody retires it.
StaleSpawnDiscarded(t, up) == {}

\* An issued spawn that became stale is retired, never forgotten.
StaleSpawnCleanup(t, up) ==
  IF up THEN {RetireOf(t.generation, t.intentRevision)} ELSE {}

\* Resources that a commit overwrites although nobody retires them.
Forsaken(gens) == gens \ BeingRetired # {}

\* runStart after its await.
StartCompletes(t, up, ok) ==
  /\ t.op = "start"
  /\ up => t.reserved
  /\ live' = IF up THEN live \cup {t.generation} ELSE live
  /\ IF Stale(snap, t)
     THEN /\ snap' = Committed(ok /\ up, snap,
                        [snap EXCEPT !.retiringResources = @ \cup {t.generation}])
          /\ tasks' = (tasks \ {t}) \cup StaleSpawnCleanup(t, up)
          /\ UNCHANGED gaps
     ELSE /\ snap' = Committed(ok, snap,
                        IF up THEN StartSucceeded(snap, t) ELSE StartFailed(snap))
          /\ tasks' = tasks \ {t}
          /\ gaps' = gaps \cup Noting(~ok, "behind") \cup
               Noting(ok /\ up /\ Forsaken(snap.resources
                                          \ (snap.retiringResources \cup {t.generation})),
                      "dropped")
  /\ UNCHANGED <<crashes, spawned, asked>>

\* What a retirement of the generations gens cannot verify stays as it is, the
\* rest is gone.
TornDown(gens, unresolved) ==
  /\ unresolved \subseteq gens
  /\ live' = live \ (gens \ unresolved)

\* Mutant: the blocked restart is not reported as a phase.
RestartBlockedSilently(s, unresolved) == [s EXCEPT !.retiringResources = unresolved]

RestartBlocked(s, unresolved) ==
  [s EXCEPT !.phase = "blocked", !.retiringResources = unresolved]

\* Mutant: a teardown that could not be verified does not hold the start back.
GoesOnAnyway(unresolved) == TRUE

\* Everything the restart replaces is confirmed gone.
GoesOn(unresolved) == unresolved = {}

\* runRestart after its await; the start half is fenced like any other start.
RestartRetireCompletes(t, unresolved, ok) ==
  /\ t.op = "restart"
  /\ TornDown(t.oldResources \cup {t.old}, unresolved)
  /\ IF ~GoesOn(unresolved)
     THEN /\ snap' = Committed(ok, snap, RestartBlocked(snap, unresolved))
          /\ tasks' = tasks \ {t}
          /\ gaps' = gaps \cup Noting(~ok /\ ~Stale(snap, t), "behind") \cup
               Noting(ok /\ Forsaken(snap.retiringResources
                                    \ (snap.resources \cup t.oldResources \cup {t.old})),
                      "dropped")
          /\ UNCHANGED spawned
     ELSE /\ BeginStart(Committed(ok, snap, [snap EXCEPT !.retiringResources = @ \ {t.old}]),
                        t, tasks \ {t})
          /\ UNCHANGED gaps
  /\ UNCHANGED <<crashes, asked>>

\* Mutant: the last confirmed retirement forgets to settle the phase.
RetiredUnsettled(s, g) ==
  [s EXCEPT !.resources = @ \ {g}, !.retiringResources = @ \ {g}]

Retired(s, g) ==
  [s EXCEPT !.resources = @ \ {g}, !.retiringResources = @ \ {g},
            !.phase = IF @ = "retiring" /\ (s.resources \cup s.retiringResources) \ {g} = {}
                      THEN "absent" ELSE @]

\* runRetire after its await: cleanup is never fenced.
RetireCompletes(t, unresolved, ok) ==
  /\ t.op = "retire"
  /\ TornDown({t.generation}, unresolved)
  /\ snap' = Committed(ok, snap,
       IF unresolved = {} THEN Retired(snap, t.generation)
       ELSE [snap EXCEPT !.phase = "blocked", !.retiringResources = @ \cup unresolved])
  /\ tasks' = tasks \ {t}
  /\ gaps' = gaps \cup Noting(~ok /\ snap.phase = "retiring", "unsettled")
                  \cup Noting(~ok /\ unresolved \ Bundle # {}, "unsaved")
  /\ UNCHANGED <<crashes, spawned, asked>>

\* An in-flight runtime call returns, in any way the contract allows.
Completes(t) ==
  \E ok \in CommitOutcomes :
    \/ \E up \in BOOLEAN : StartCompletes(t, up, ok)
    \/ \E unresolved \in SUBSET Generation :
         \/ RestartRetireCompletes(t, unresolved, ok)
         \/ RetireCompletes(t, unresolved, ok)

\* The daemon dies and is restarted on the same store: the chains are lost,
\* the processes (a spawn in progress included) may survive.
DaemonCrashes(survivors) ==
  /\ crashes < MaxCrashes
  /\ crashes' = crashes + 1
  /\ survivors \subseteq live \cup BeingSpawned
  /\ live' = survivors
  /\ tasks' = {}
  /\ asked' = FALSE
  /\ gaps' = gaps \cup Noting(snap.phase = "retiring", "unsettled")
                  \cup Noting((BeingRetired \cup BeingSpawned) \ Bundle # {}, "lost")
  /\ UNCHANGED <<snap, spawned>>

Init ==
  /\ snap \in {InitialSnapshot("running"), InitialSnapshot("stopped")}
  /\ tasks = {} /\ live = {} /\ crashes = 0 /\ spawned = <<>> /\ asked = FALSE
  /\ gaps = {}

Next ==
  \/ \E w \in Window : ProcessWindow(w)
  \/ \E t \in tasks : Completes(t)
  \/ \E survivors \in SUBSET Generation : DaemonCrashes(survivors)

Spec == Init /\ [][Next]_vars

\* Every runtime call returns: spawns and teardowns are bounded by timeouts.
Fairness ==
  \A g \in Generation : WF_vars(\E t \in tasks : t.generation = g /\ Completes(t))

FairSpec == Spec /\ Fairness

-----------------------------------------------------------------------------
(* Properties *)

\* A start that is still allowed to happen is one the owner still wants: every
\* committed stop, halt or newer generation revokes it (Step 6, isEffectStale).
PendingStartIsWanted ==
  \A t \in tasks :
    Pending(t) => snap.desiredState = "running" /\ snap.phase \in {"starting", "blocked"}

\* A ready agent is wanted, owns exactly the resources of its newest generation,
\* and no chain is about to tear that generation down or to replace it.
ReadyOwnsCurrent ==
  snap.phase = "ready" =>
    /\ snap.desiredState = "running"
    /\ snap.resources = {snap.currentGeneration}
    /\ \A t \in tasks : /\ ~Pending(t)
                        /\ t.op = "retire" => t.generation # snap.currentGeneration

\* A fresh intent that the owner carries is dropped only by a stop or halt, or by
\* the success of a start that really ran fresh.
FreshIntentIsSticky ==
  [][snap.freshPending /\ ~snap'.freshPending =>
       \/ snap'.intentRevision # snap.intentRevision
       \/ \E t \in tasks \ tasks' : t.op = "start" /\ t.fresh /\ snap'.phase = "ready"]_vars

\* The generation a restart in flight may still spawn.
PermittedSpawn ==
  IF \E t \in tasks : t.op = "restart" /\ Pending(t)
  THEN snap.currentGeneration ELSE NoGeneration

\* Spawning follows the permissions of the abstract owner, whatever the
\* interleaving, the failed commits and the crashes.
Authority ==
  INSTANCE SpawnAuthority WITH
    wanted <- snap.desiredState = "running",
    last <- snap.nextGeneration - 1,
    granted <- PermittedSpawn
ImplementsSpawnAuthority == Authority!ASpec

\* No two generations have a process, or are being given one, at the same time.
OneGenerationAtATime ==
  LET up == live \cup BeingSpawned IN \A g, h \in up : g = h

\* ... whatever overlaps, fails or crashes, as long as the owner has decided no
\* generation beside what may run, and lost no process out of sight.
OneGenerationUnlessBeside ==
  gaps \cap {"beside", "dropped", "unsaved", "lost"} = {} => OneGenerationAtATime

\* The owner knows of every running process: the durable bundle names it, or a
\* chain that will put it there or tear it down is in flight.  Only an overwritten
\* bundle, a failed commit of a teardown's rest, or a crash during the retirement
\* of a process that the bundle does not name loses one.
NoProcessIsForgotten ==
  gaps \cap {"dropped", "unsaved", "lost"} = {} =>
    live \subseteq Bundle \cup {t.generation : t \in {u \in tasks : u.op # "restart"}}

\* Once everything has settled, an accepted start, restart or refresh has led to a
\* ready generation or to a blocked owner that says why it did not.
AcceptedStartIsPursued ==
  asked /\ tasks = {} => snap.phase \in {"ready", "blocked"}

\* ... whatever overlaps or crashes, unless it was accepted as running already, or
\* the store refused the outcome.
StartsArePursued ==
  gaps \cap {"redundant", "behind"} = {} => AcceptedStartIsPursued

\* A stop or halt settles: the teardown ends, or the owner reports it blocked;
\* unless the store refused the outcome or the daemon died during the teardown.
RetiringSettles ==
  snap.phase = "retiring" ~> snap.phase # "retiring" \/ "unsettled" \in gaps
=============================================================================
