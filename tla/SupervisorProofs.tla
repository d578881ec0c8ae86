-------------------------- MODULE SupervisorProofs --------------------------
(***************************************************************************)
(* Proofs about the lifecycle owner of Supervisor.tla, for any set of      *)
(* requests, any bounds, any outcome of the commits and any interleaving.  *)
(***************************************************************************)
EXTENDS Supervisor, TLAPS

-----------------------------------------------------------------------------
(* Type correctness *)

LEMMA StopTargetType ==
  ASSUME NEW r PROVE StopTarget(r) \in {"stopped", "halted", "quarantined"}
  BY DEF StopTarget

LEMMA RetireOfType ==
  ASSUME NEW g \in Generation, NEW rev \in 0..MaxRevision
  PROVE  RetireOf(g, rev) \in Task
  BY DEF RetireOf, Task, RetireTask

LEMMA CommittedType ==
  ASSUME NEW S, NEW before \in S, NEW after \in S, NEW ok
  PROVE  Committed(ok, before, after) \in S
  BY DEF Committed

\* The synchronous first half of runStart keeps the types, whatever its chain is.
LEMMA BeginStartType ==
  ASSUME NEW s \in Snapshot, NEW t,
         t.generation \in Generation, t.intentRevision \in 0..MaxRevision,
         t.fresh \in BOOLEAN,
         NEW others \in SUBSET Task, spawned \in Seq(Generation),
         BeginStart(s, t, others)
  PROVE  snap' \in Snapshot /\ tasks' \subseteq Task /\ spawned' \in Seq(Generation)
<1>1. CASE Stale(s, t) /\ snap' = s /\ tasks' = others /\ UNCHANGED spawned
  BY <1>1
<1>2. CASE ~Stale(s, t) /\ spawned' = Append(spawned, t.generation)
           /\ \E reserved \in CommitOutcomes :
                snap' = Reserved(s, t, reserved)
                /\ tasks' = others \cup {StartOf(t, reserved)}
  <2>1. PICK reserved \in CommitOutcomes :
          snap' = Reserved(s, t, reserved)
          /\ tasks' = others \cup {StartOf(t, reserved)}
    BY <1>2
  <2>2. reserved \in BOOLEAN
    BY CommitAssumption
  <2>3. StartOf(t, reserved) \in Task
    BY <2>2 DEF StartOf, Task, StartTask
  <2>4. [s EXCEPT !.resources = @ \cup {t.generation}] \in Snapshot
    BY DEF Snapshot
  <2>5. snap' \in Snapshot
    BY <2>1, <2>4 DEF Reserved, Committed
  <2>6. spawned' \in Seq(Generation)
    BY <1>2
  <2> QED BY <2>1, <2>3, <2>5, <2>6
<1> QED BY <1>1, <1>2 DEF BeginStart

\* What a step notes is a gap.
LEMMA NotingType == \A met : \A gap \in Gap : Noting(met, gap) \subseteq Gap
BY DEF Noting

LEMMA TypeInit == Init => TypeOK
<1> SUFFICES ASSUME Init PROVE TypeOK
  OBVIOUS
<1>1. snap \in Snapshot
  <2>1. PICK d \in {"running", "stopped"} : snap = InitialSnapshot(d)
    BY DEF Init
  <2>2. 0 \in 0..MaxRevision /\ 1 \in 1..(MaxGeneration + 1)
    BY BoundsAssumption
  <2> QED BY <2>1, <2>2 DEF InitialSnapshot, Snapshot
<1>2. crashes \in 0..MaxCrashes
  BY BoundsAssumption DEF Init
<1>3. spawned \in Seq(Generation)
  <2>1. <<>> \in Seq(Generation)
    OBVIOUS
  <2> QED BY <2>1 DEF Init
<1>4. tasks \subseteq Task /\ live \subseteq Generation /\ asked \in BOOLEAN /\ gaps \subseteq Gap
  BY DEF Init
<1> QED BY <1>1, <1>2, <1>3, <1>4 DEF TypeOK

LEMMA StopType ==
  ASSUME TypeOK, NEW w, HandleStopHalt(w) PROVE TypeOK'
<1> USE DEF TypeOK
<1>1. PICK ok \in CommitOutcomes :
        LET r == w[Earliest(OfKind(w, {"stop", "halt"}))]
            pool == snap.resources \cup snap.retiringResources
        IN /\ snap' = Committed(ok, snap, Stopped(snap, r))
           /\ tasks' = Committed(ok, tasks,
                tasks \cup {RetireOf(g, snap.intentRevision + 1) : g \in pool})
           /\ asked' = (asked /\ ~ok)
  BY DEF HandleStopHalt
<1> DEFINE r == w[Earliest(OfKind(w, {"stop", "halt"}))]
           pool == snap.resources \cup snap.retiringResources
           retirements == {RetireOf(g, snap.intentRevision + 1) : g \in pool}
<1>2. snap.intentRevision + 1 \in 0..MaxRevision
  BY BoundsAssumption DEF HandleStopHalt, Snapshot
<1>3. Stopped(snap, r) \in Snapshot
  <2>1. StopTarget(r) \in {"stopped", "halted", "quarantined"}
    BY StopTargetType
  <2> HIDE DEF r
  <2> QED BY <1>2, <2>1 DEF Stopped, Snapshot
<1>4. retirements \subseteq Task
  BY <1>2, RetireOfType DEF Snapshot
<1>5. snap' \in Snapshot
  BY <1>1, <1>3, CommittedType
<1>6. tasks' \subseteq Task
  BY <1>1, <1>4 DEF Committed
<1>7. asked' \in BOOLEAN
  BY <1>1
<1> QED BY <1>5, <1>6, <1>7 DEF HandleStopHalt

LEMMA HaltedGateType ==
  ASSUME TypeOK, NEW w, HandleHaltedGate(w) PROVE TypeOK'
<1> USE DEF TypeOK
<1>1. PICK ok \in CommitOutcomes :
        snap' = Committed(ok /\ OfKind(w, {"resume"}) # {}, snap, Resumed(snap))
  BY DEF HandleHaltedGate
<1>2. snap' \in Snapshot
  <2>1. CASE ok /\ OfKind(w, {"resume"}) # {}
    <3>1. snap.intentRevision + 1 \in 0..MaxRevision
      BY <2>1, BoundsAssumption DEF HandleHaltedGate, Snapshot
    <3>2. Resumed(snap) \in Snapshot
      BY <3>1 DEF Resumed, Snapshot
    <3> QED BY <1>1, <2>1, <3>2 DEF Committed
  <2>2. CASE ~(ok /\ OfKind(w, {"resume"}) # {})
    BY <1>1, <2>2 DEF Committed
  <2> QED BY <2>1, <2>2
<1> QED BY <1>2 DEF HandleHaltedGate

LEMMA WantsFreshType ==
  ASSUME TypeOK, NEW w PROVE WantsFresh(w) \in BOOLEAN
  BY DEF TypeOK, Snapshot, WantsFresh

\* What an allocation needs to be a step of the types: the generation it takes.
LEMMA AllocatedType ==
  ASSUME NEW s \in Snapshot, s.nextGeneration <= MaxGeneration,
         NEW isRestart, NEW fresh \in BOOLEAN
  PROVE  /\ s.nextGeneration \in Generation
         /\ Allocated(s, isRestart, fresh) \in Snapshot
<1>1. s.nextGeneration \in Generation
  BY BoundsAssumption DEF Snapshot, Generation
<1>2. s.nextGeneration + 1 \in 1..(MaxGeneration + 1)
  BY BoundsAssumption DEF Snapshot
<1> DEFINE retiring == IF isRestart THEN s.retiringResources \cup s.resources
                       ELSE s.retiringResources
           owned == IF isRestart THEN {} ELSE s.resources
<1>3. retiring \in SUBSET Generation /\ owned \in SUBSET Generation
  BY DEF Snapshot
<1> HIDE DEF retiring, owned
<1>4. [s EXCEPT !.currentGeneration = s.nextGeneration,
               !.nextGeneration = s.nextGeneration + 1,
               !.desiredState = "running", !.phase = "starting",
               !.retiringResources = retiring, !.resources = owned,
               !.freshPending = fresh] \in Snapshot
  BY <1>1, <1>2, <1>3 DEF Snapshot
<1> QED BY <1>1, <1>4 DEF Allocated, retiring, owned

LEMMA AutonomousType ==
  ASSUME TypeOK, NEW w, HandleAutonomous(w) PROVE TypeOK'
<1> USE DEF TypeOK
<1>0. gaps' \subseteq Gap
  BY NotingType DEF HandleAutonomous, Gap
<1>1. CASE /\ \E ok \in CommitOutcomes :
                /\ ~ok \/ ~Allocates(w)
                /\ asked' = (asked \/ AcceptedAsIs(w, ok))
           /\ UNCHANGED <<snap, tasks, spawned>>
  <2>1. asked' \in BOOLEAN
    BY <1>1
  <2> QED BY <1>0, <1>1, <2>1 DEF HandleAutonomous
<1> DEFINE isRestart == RetiresFirst(w)
           new == [op |-> "restart", generation |-> snap.nextGeneration,
                   intentRevision |-> snap.intentRevision, fresh |-> WantsFresh(w),
                   old |-> snap.currentGeneration, oldResources |-> snap.resources]
           after == Allocated(snap, isRestart, WantsFresh(w))
<1>2. CASE /\ snap.nextGeneration <= MaxGeneration
           /\ asked' = TRUE
           /\ \/ isRestart /\ snap' = after /\ tasks' = tasks \cup {new}
                 /\ UNCHANGED spawned
              \/ ~isRestart /\ BeginStart(after, new, tasks)
  <2>1. snap.nextGeneration \in Generation /\ after \in Snapshot
    BY <1>2, WantsFreshType, AllocatedType
  <2>2. snap.intentRevision \in 0..MaxRevision
    BY DEF Snapshot
  <2>3. CASE isRestart /\ snap' = after /\ tasks' = tasks \cup {new}
             /\ UNCHANGED spawned
    <3>1. snap.currentGeneration \in Generation /\ snap.resources \subseteq Generation
      BY <2>3 DEF RetiresFirst, Snapshot
    <3>2. new \in Task
      BY <2>1, <2>2, <3>1, WantsFreshType DEF Task, RestartTask
    <3> QED BY <1>0, <1>2, <2>1, <2>3, <3>2 DEF HandleAutonomous
  <2>4. CASE ~isRestart /\ BeginStart(after, new, tasks)
    <3>1. /\ new.generation \in Generation
          /\ new.intentRevision \in 0..MaxRevision
          /\ new.fresh \in BOOLEAN
      BY <2>1, <2>2, WantsFreshType
    <3> HIDE DEF after, new
    <3>2. snap' \in Snapshot /\ tasks' \subseteq Task /\ spawned' \in Seq(Generation)
      BY <2>1, <2>4, <3>1, BeginStartType
    <3> QED BY <1>0, <1>2, <3>2 DEF HandleAutonomous
  <2> QED BY <1>2, <2>3, <2>4
<1> QED BY <1>1, <1>2 DEF HandleAutonomous

LEMMA StartCompletesType ==
  ASSUME TypeOK, NEW t \in tasks, NEW up \in BOOLEAN, NEW ok \in CommitOutcomes,
         StartCompletes(t, up, ok)
  PROVE  TypeOK'
<1> USE DEF TypeOK
<1>1. t \in StartTask
  BY DEF StartCompletes, Task, RestartTask, RetireTask
<1>2. t.generation \in Generation /\ t.intentRevision \in 0..MaxRevision
  BY <1>1 DEF StartTask
<1>3. RetireOf(t.generation, t.intentRevision) \in Task
  BY <1>2, RetireOfType
<1>4. [snap EXCEPT !.retiringResources = @ \cup {t.generation}] \in Snapshot
  BY <1>2 DEF Snapshot
<1>5. StartSucceeded(snap, t) \in Snapshot /\ StartFailed(snap) \in Snapshot
  BY <1>2 DEF StartSucceeded, StartFailed, Snapshot
<1>6. snap' \in Snapshot
  BY <1>4, <1>5 DEF StartCompletes, Committed
<1>7. tasks' \subseteq Task
  BY <1>3 DEF StartCompletes, StaleSpawnCleanup
<1>8. live' \subseteq Generation
  BY <1>2 DEF StartCompletes
<1>9. gaps' \subseteq Gap
  BY NotingType DEF StartCompletes, Gap
<1> QED BY <1>6, <1>7, <1>8, <1>9 DEF StartCompletes

LEMMA RestartRetireCompletesType ==
  ASSUME TypeOK, NEW t \in tasks, NEW unresolved \in SUBSET Generation,
         NEW ok \in CommitOutcomes, RestartRetireCompletes(t, unresolved, ok)
  PROVE  TypeOK'
<1> USE DEF TypeOK
<1>1. t \in RestartTask
  BY DEF RestartRetireCompletes, Task, StartTask, RetireTask
<1>2. /\ t.generation \in Generation
      /\ t.intentRevision \in 0..MaxRevision
      /\ t.fresh \in BOOLEAN
  BY <1>1 DEF RestartTask
<1>3. live' \subseteq Generation
  BY DEF RestartRetireCompletes, TornDown
<1>4. snap' \in Snapshot /\ tasks' \subseteq Task /\ spawned' \in Seq(Generation)
  <2>1. CASE unresolved # {}
    <3>1. RestartBlocked(snap, unresolved) \in Snapshot
      BY DEF RestartBlocked, Snapshot
    <3> QED BY <2>1, <3>1, CommittedType DEF RestartRetireCompletes, GoesOn
  <2>2. CASE unresolved = {}
    <3> DEFINE s == Committed(ok, snap, [snap EXCEPT !.retiringResources = @ \ {t.old}])
    <3>1. s \in Snapshot
      <4>1. [snap EXCEPT !.retiringResources = @ \ {t.old}] \in Snapshot
        BY DEF Snapshot
      <4> QED BY <4>1 DEF Committed
    <3>2. BeginStart(s, t, tasks \ {t})
      BY <2>2 DEF RestartRetireCompletes, GoesOn
    <3> HIDE DEF s
    <3> QED BY <1>2, <3>1, <3>2, BeginStartType
  <2> QED BY <2>1, <2>2
<1>5. gaps' \subseteq Gap
  BY NotingType DEF RestartRetireCompletes, Gap
<1> QED BY <1>3, <1>4, <1>5 DEF RestartRetireCompletes

LEMMA RetireCompletesType ==
  ASSUME TypeOK, NEW t \in tasks, NEW unresolved \in SUBSET Generation,
         NEW ok \in CommitOutcomes, RetireCompletes(t, unresolved, ok)
  PROVE  TypeOK'
<1> USE DEF TypeOK
<1>1. Retired(snap, t.generation) \in Snapshot
  BY DEF Retired, Snapshot
<1>2. [snap EXCEPT !.phase = "blocked", !.retiringResources = @ \cup unresolved]
        \in Snapshot
  BY DEF Snapshot
<1>3. snap' \in Snapshot
  BY <1>1, <1>2 DEF RetireCompletes, Committed
<1>4. gaps' \subseteq Gap
  BY NotingType DEF RetireCompletes, Gap
<1> QED BY <1>3, <1>4 DEF RetireCompletes, TornDown

LEMMA CrashType ==
  ASSUME TypeOK, NEW survivors \in SUBSET Generation, DaemonCrashes(survivors)
  PROVE  TypeOK'
<1>1. crashes' \in 0..MaxCrashes
  BY BoundsAssumption DEF TypeOK, DaemonCrashes
<1>2. gaps' \subseteq Gap
  BY NotingType DEF TypeOK, DaemonCrashes, Gap
<1> QED BY <1>1, <1>2 DEF TypeOK, DaemonCrashes

LEMMA TypeNext == TypeOK /\ [Next]_vars => TypeOK'
<1> SUFFICES ASSUME TypeOK, [Next]_vars PROVE TypeOK'
  OBVIOUS
<1>1. CASE \E w \in Window : ProcessWindow(w)
  BY <1>1, StopType, HaltedGateType, AutonomousType DEF ProcessWindow
<1>2. CASE \E t \in tasks : Completes(t)
  BY <1>2, StartCompletesType, RestartRetireCompletesType, RetireCompletesType
  DEF Completes
<1>3. CASE \E survivors \in SUBSET Generation : DaemonCrashes(survivors)
  BY <1>3, CrashType
<1>4. CASE UNCHANGED vars
  BY <1>4 DEF vars, TypeOK
<1> QED BY <1>1, <1>2, <1>3, <1>4 DEF Next

\* Every value the owner ever commits is a well-formed snapshot, and every chain
\* it launches refers to a generation that it allocated.
THEOREM TypeCorrect == Spec => []TypeOK
<1>1. Init => TypeOK
  BY TypeInit
<1>2. TypeOK /\ [Next]_vars => TypeOK'
  BY TypeNext
<1> QED BY <1>1, <1>2, PTL DEF Spec

-----------------------------------------------------------------------------
(* The inductive invariant *)

Starter(t) == t.op \in {"start", "restart"}

\* Generations and revisions are only ever handed out, never anticipated.
Issued ==
  /\ snap.currentGeneration < snap.nextGeneration
  /\ \A g \in snap.resources \cup snap.retiringResources : g < snap.nextGeneration
  /\ \A t \in tasks : /\ t.generation < snap.nextGeneration
                      /\ t.intentRevision <= snap.intentRevision
                      /\ t.op = "restart" =>
                           \A g \in t.oldResources \cup {t.old} : g < snap.nextGeneration

\* A generation is pursued by one chain only.
OneChainPerGeneration ==
  \A t, u \in tasks :
    Starter(t) /\ Starter(u) /\ t.generation = u.generation => t = u

\* A generation that is being retired will not be started any more.
NoStartOfRetired ==
  \A t, u \in tasks :
    t.op = "retire" /\ t.generation = snap.currentGeneration => ~Pending(u)

\* Nothing in flight concerns the generation that is ready.
ReadyIsQuiet ==
  snap.phase = "ready" => \A t \in tasks : t.generation # snap.currentGeneration

IInv ==
  /\ TypeOK
  /\ Issued
  /\ OneChainPerGeneration
  /\ NoStartOfRetired
  /\ PendingStartIsWanted
  /\ ReadyOwnsCurrent
  /\ ReadyIsQuiet

\* A step that leaves no start pending and is not ready keeps the wanted parts.
LEMMA NothingPending ==
  ASSUME \A t \in tasks' : ~Pending(t)', snap'.phase # "ready"
  PROVE  NoStartOfRetired' /\ PendingStartIsWanted' /\ ReadyOwnsCurrent' /\ ReadyIsQuiet'
  BY DEF NoStartOfRetired, PendingStartIsWanted, ReadyOwnsCurrent, ReadyIsQuiet

LEMMA InvInit == Init => IInv
<1> SUFFICES ASSUME Init PROVE IInv
  OBVIOUS
<1>1. TypeOK
  BY TypeInit
<1>2. /\ snap.currentGeneration = 0 /\ snap.nextGeneration = 1
      /\ snap.resources = {} /\ snap.retiringResources = {}
      /\ snap.phase = "absent" /\ tasks = {}
  <2>1. PICK d \in {"running", "stopped"} : snap = InitialSnapshot(d)
    BY DEF Init
  <2> QED BY <2>1 DEF Init, InitialSnapshot, NoGeneration
<1> QED BY <1>1, <1>2 DEF IInv, Issued, OneChainPerGeneration, NoStartOfRetired,
      PendingStartIsWanted, ReadyOwnsCurrent, ReadyIsQuiet

LEMMA StopInv ==
  ASSUME IInv, NEW w, HandleStopHalt(w) PROVE IInv'
<1> USE DEF IInv
<1>1. PICK ok \in CommitOutcomes :
        LET r == w[Earliest(OfKind(w, {"stop", "halt"}))]
            pool == snap.resources \cup snap.retiringResources
        IN /\ snap' = Committed(ok, snap, Stopped(snap, r))
           /\ tasks' = Committed(ok, tasks,
                tasks \cup {RetireOf(g, snap.intentRevision + 1) : g \in pool})
  BY DEF HandleStopHalt
<1> DEFINE r == w[Earliest(OfKind(w, {"stop", "halt"}))]
           pool == snap.resources \cup snap.retiringResources
<1>2. TypeOK'
  BY StopType
<1>3. CASE ~ok
  <2>1. snap' = snap /\ tasks' = tasks
    BY <1>1, <1>3 DEF Committed
  <2> QED BY <1>2, <2>1 DEF Issued, OneChainPerGeneration, NoStartOfRetired,
        PendingStartIsWanted, ReadyOwnsCurrent, ReadyIsQuiet, Pending, Stale
<1>4. CASE ok
  <2>1. snap' = Stopped(snap, r)
    BY <1>1, <1>4 DEF Committed
  <2>2. tasks' = tasks \cup {RetireOf(g, snap.intentRevision + 1) : g \in pool}
    BY <1>1, <1>4 DEF Committed
  <2>3. /\ snap'.intentRevision = snap.intentRevision + 1
        /\ snap'.currentGeneration = snap.currentGeneration
        /\ snap'.nextGeneration = snap.nextGeneration
        /\ snap'.resources = snap.resources
        /\ snap'.retiringResources = snap.retiringResources
        /\ snap'.phase \in {"absent", "retiring"}
    <3> HIDE DEF r
    <3> QED BY <2>1 DEF Stopped, TypeOK, Snapshot
  <2> HIDE DEF r
  <2>4. \A t \in tasks' :
          \/ t \in tasks
          \/ t.op = "retire" /\ t.generation \in pool
             /\ t.intentRevision = snap.intentRevision + 1
    BY <2>2 DEF RetireOf
  <2>5. snap.intentRevision \in Nat /\ \A t \in tasks : t.intentRevision \in Nat
    BY BoundsAssumption DEF TypeOK, Snapshot, Task, StartTask, RestartTask, RetireTask
  <2>6. Issued'
    BY <2>3, <2>4, <2>5 DEF Issued
  <2>7. OneChainPerGeneration'
    BY <2>4 DEF OneChainPerGeneration, Starter
  <2>8. \A t \in tasks' : ~Pending(t)'
    BY <2>3, <2>4, <2>5 DEF Issued, Pending, Stale
  <2> QED BY <1>2, <2>3, <2>6, <2>7, <2>8, NothingPending
<1> QED BY <1>3, <1>4

LEMMA HaltedGateInv ==
  ASSUME IInv, NEW w, HandleHaltedGate(w) PROVE IInv'
<1> USE DEF IInv
<1>1. TypeOK'
  BY HaltedGateType
<1>2. tasks' = tasks /\ snap.desiredState # "running"
  BY DEF HandleHaltedGate
<1>3. PICK resumed : snap' = Committed(resumed, snap, Resumed(snap))
  BY DEF HandleHaltedGate
<1>4. CASE ~resumed
  <2>1. snap' = snap
    BY <1>3, <1>4 DEF Committed
  <2> QED BY <1>1, <1>2, <2>1 DEF Issued, OneChainPerGeneration, NoStartOfRetired,
        PendingStartIsWanted, ReadyOwnsCurrent, ReadyIsQuiet, Pending, Stale
<1>5. CASE resumed
  <2>1. snap' = Resumed(snap)
    BY <1>3, <1>5 DEF Committed
  <2>2. /\ snap'.intentRevision = snap.intentRevision + 1
        /\ snap'.currentGeneration = snap.currentGeneration
        /\ snap'.nextGeneration = snap.nextGeneration
        /\ snap'.resources = snap.resources
        /\ snap'.retiringResources = snap.retiringResources
        /\ snap'.phase = snap.phase
    BY <2>1 DEF Resumed, TypeOK, Snapshot
  <2>3. snap.intentRevision \in Nat /\ \A t \in tasks : t.intentRevision \in Nat
    BY BoundsAssumption DEF TypeOK, Snapshot, Task, StartTask, RestartTask, RetireTask
  <2>4. Issued'
    BY <1>2, <2>2, <2>3 DEF Issued
  <2>5. OneChainPerGeneration'
    BY <1>2 DEF OneChainPerGeneration, Starter
  <2>6. \A t \in tasks' : ~Pending(t)'
    BY <1>2, <2>2, <2>3 DEF Issued, Pending, Stale
  <2>7. snap'.phase # "ready"
    BY <1>2, <2>2 DEF ReadyOwnsCurrent
  <2> QED BY <1>1, <2>4, <2>5, <2>6, <2>7, NothingPending
<1> QED BY <1>4, <1>5

\* The numbers of a well-typed state are natural numbers.
LEMMA Numbers ==
  ASSUME TypeOK
  PROVE  /\ snap.intentRevision \in Nat
         /\ snap.currentGeneration \in Nat
         /\ snap.nextGeneration \in Nat
         /\ snap.resources \subseteq Nat /\ snap.retiringResources \subseteq Nat
         /\ \A t \in tasks : t.intentRevision \in Nat /\ t.generation \in Nat
<1>1. Generation \subseteq Nat /\ NoGeneration \in Nat
  BY BoundsAssumption DEF Generation, NoGeneration
<1>2. 0..MaxRevision \subseteq Nat /\ 1..(MaxGeneration + 1) \subseteq Nat
  BY BoundsAssumption
<1> QED BY <1>1, <1>2
    DEF TypeOK, Snapshot, Task, StartTask, RestartTask, RetireTask

\* A new generation whose chain is x: every older chain becomes stale.
LEMMA NewChain ==
  ASSUME IInv, TypeOK', NEW x, tasks' = tasks \cup {x}, Starter(x),
         x.generation = snap.nextGeneration, x.intentRevision = snap.intentRevision,
         x.op = "restart" =>
           \A g \in x.oldResources \cup {x.old} : g < snap.nextGeneration,
         snap'.currentGeneration = snap.nextGeneration,
         snap'.nextGeneration = snap.nextGeneration + 1,
         snap'.intentRevision = snap.intentRevision,
         snap'.desiredState = "running", snap'.phase = "starting",
         snap'.resources \cup snap'.retiringResources \subseteq
           snap.resources \cup snap.retiringResources \cup {snap.nextGeneration}
  PROVE  IInv'
<1> USE DEF IInv
<1>1. /\ snap.nextGeneration \in Nat /\ snap.currentGeneration \in Nat
      /\ \A t \in tasks : t.generation < snap.nextGeneration /\ t.generation \in Nat
      /\ \A t \in tasks : t.intentRevision <= snap.intentRevision
      /\ snap.intentRevision \in Nat
      /\ snap.resources \subseteq Nat /\ snap.retiringResources \subseteq Nat
  BY Numbers DEF Issued
<1>2. \A g : g < snap.nextGeneration /\ g \in Nat => g < snap.nextGeneration + 1
  BY <1>1
<1>3. Issued'
  <2>1. snap'.currentGeneration < snap'.nextGeneration
    BY <1>1
  <2>2. \A g \in (snap.resources \cup snap.retiringResources)' : g < snap'.nextGeneration
    BY <1>1, <1>2 DEF Issued
  <2>3. ASSUME NEW t \in tasks'
        PROVE  /\ t.generation < snap'.nextGeneration
               /\ t.intentRevision <= snap'.intentRevision
    BY <1>1
  <2>4. ASSUME NEW t \in tasks', t.op = "restart",
               NEW g \in t.oldResources \cup {t.old}
        PROVE  g < snap'.nextGeneration
    <3>1. g < snap.nextGeneration
      BY <2>4 DEF Issued
    <3>2. t \in RestartTask
      BY <2>4 DEF TypeOK, Task, StartTask, RetireTask
    <3>3. g \in Nat
      BY <3>2, BoundsAssumption DEF RestartTask, Generation
    <3> QED BY <1>2, <3>1, <3>3
  <2> QED BY <2>1, <2>2, <2>3, <2>4 DEF Issued
<1>4. OneChainPerGeneration'
  BY <1>1 DEF OneChainPerGeneration, Starter
<1>5. \A t \in tasks : t.generation # snap'.currentGeneration
  BY <1>1
<1>6. NoStartOfRetired'
  BY <1>5 DEF NoStartOfRetired, Starter
<1>7. PendingStartIsWanted'
  BY DEF PendingStartIsWanted
<1>8. ReadyOwnsCurrent' /\ ReadyIsQuiet'
  BY DEF ReadyOwnsCurrent, ReadyIsQuiet
<1> QED BY <1>3, <1>4, <1>6, <1>7, <1>8

\* What BeginStart does for a chain that is not stale.
LEMMA BeginStartEffect ==
  ASSUME NEW s \in Snapshot, NEW t, NEW others, BeginStart(s, t, others), ~Stale(s, t)
  PROVE  /\ spawned' = Append(spawned, t.generation)
         /\ \E reserved \in BOOLEAN : tasks' = others \cup {StartOf(t, reserved)}
         /\ s.resources \subseteq snap'.resources
         /\ snap'.resources \subseteq s.resources \cup {t.generation}
         /\ snap'.retiringResources = s.retiringResources
         /\ snap'.currentGeneration = s.currentGeneration
         /\ snap'.nextGeneration = s.nextGeneration
         /\ snap'.intentRevision = s.intentRevision
         /\ snap'.desiredState = s.desiredState
         /\ snap'.phase = s.phase
<1>1. PICK reserved \in CommitOutcomes :
        snap' = Reserved(s, t, reserved) /\ tasks' = others \cup {StartOf(t, reserved)}
  BY DEF BeginStart
<1>2. reserved \in BOOLEAN
  BY CommitAssumption
<1>3. snap' = s \/ snap' = [s EXCEPT !.resources = @ \cup {t.generation}]
  BY <1>1 DEF Reserved, Committed
<1>4. spawned' = Append(spawned, t.generation)
  BY DEF BeginStart
<1> QED BY <1>1, <1>2, <1>3, <1>4 DEF Snapshot

LEMMA AllocatedFields ==
  ASSUME NEW s \in Snapshot, NEW isRestart, NEW fresh
  PROVE  LET a == Allocated(s, isRestart, fresh)
         IN /\ a.currentGeneration = s.nextGeneration
            /\ a.nextGeneration = s.nextGeneration + 1
            /\ a.intentRevision = s.intentRevision
            /\ a.desiredState = "running" /\ a.phase = "starting"
            /\ a.resources \cup a.retiringResources
                 = s.resources \cup s.retiringResources
  BY DEF Allocated, Snapshot

LEMMA AutonomousInv ==
  ASSUME IInv, NEW w, HandleAutonomous(w) PROVE IInv'
<1> USE DEF IInv
<1>1. TypeOK'
  BY AutonomousType
<1>2. CASE UNCHANGED <<snap, tasks, spawned>>
  BY <1>1, <1>2 DEF Issued, OneChainPerGeneration, NoStartOfRetired,
    PendingStartIsWanted, ReadyOwnsCurrent, ReadyIsQuiet, Pending, Stale
<1> DEFINE isRestart == RetiresFirst(w)
           new == [op |-> "restart", generation |-> snap.nextGeneration,
                   intentRevision |-> snap.intentRevision, fresh |-> WantsFresh(w),
                   old |-> snap.currentGeneration, oldResources |-> snap.resources]
           after == Allocated(snap, isRestart, WantsFresh(w))
<1>3. CASE /\ snap.nextGeneration <= MaxGeneration
           /\ \/ isRestart /\ snap' = after /\ tasks' = tasks \cup {new}
                 /\ UNCHANGED spawned
              \/ ~isRestart /\ BeginStart(after, new, tasks)
  <2>1. after \in Snapshot
    BY <1>3, WantsFreshType, AllocatedType DEF TypeOK
  <2>2. /\ after.currentGeneration = snap.nextGeneration
        /\ after.nextGeneration = snap.nextGeneration + 1
        /\ after.intentRevision = snap.intentRevision
        /\ after.desiredState = "running" /\ after.phase = "starting"
        /\ after.resources \cup after.retiringResources
             = snap.resources \cup snap.retiringResources
    BY AllocatedFields DEF TypeOK
  <2>3. CASE isRestart /\ snap' = after /\ tasks' = tasks \cup {new}
    <3>1. Starter(new) /\ new.generation = snap.nextGeneration
            /\ new.intentRevision = snap.intentRevision
      BY DEF Starter
    <3>2. \A g \in new.oldResources \cup {new.old} : g < snap.nextGeneration
      BY DEF Issued
    <3>3. snap'.resources \cup snap'.retiringResources \subseteq
           snap.resources \cup snap.retiringResources \cup {snap.nextGeneration}
      BY <2>2, <2>3
    <3> HIDE DEF new, after
    <3> QED BY <1>1, <2>2, <2>3, <3>1, <3>2, <3>3, NewChain
  <2>4. CASE ~isRestart /\ BeginStart(after, new, tasks)
    <3>1. ~Stale(after, new)
      BY <2>2 DEF Stale
    <3>2. new.generation = snap.nextGeneration
          /\ new.intentRevision = snap.intentRevision
      OBVIOUS
    <3> HIDE DEF new, after
    <3>3. PICK reserved \in BOOLEAN : tasks' = tasks \cup {StartOf(new, reserved)}
      BY <2>1, <2>4, <3>1, BeginStartEffect
    <3> DEFINE x == StartOf(new, reserved)
    <3>4. /\ Starter(x) /\ x.op = "start"
          /\ x.generation = snap.nextGeneration
          /\ x.intentRevision = snap.intentRevision
      BY <3>2 DEF StartOf, Starter
    <3>5. /\ snap'.currentGeneration = after.currentGeneration
          /\ snap'.nextGeneration = after.nextGeneration
          /\ snap'.intentRevision = after.intentRevision
          /\ snap'.desiredState = after.desiredState
          /\ snap'.phase = after.phase
          /\ snap'.resources \cup snap'.retiringResources \subseteq
               after.resources \cup after.retiringResources \cup {new.generation}
      BY <2>1, <2>4, <3>1, BeginStartEffect
    <3>6. snap'.resources \cup snap'.retiringResources \subseteq
            snap.resources \cup snap.retiringResources \cup {snap.nextGeneration}
      BY <2>2, <3>2, <3>5
    <3>7. tasks' = tasks \cup {x}
      BY <3>3
    <3> HIDE DEF x
    <3>8. x.op = "restart" =>
            \A g \in x.oldResources \cup {x.old} : g < snap.nextGeneration
      BY <3>4
    <3> QED BY <1>1, <2>2, <3>4, <3>5, <3>6, <3>7, <3>8, NewChain
  <2> QED BY <1>3, <2>3, <2>4
<1> QED BY <1>2, <1>3 DEF HandleAutonomous

LEMMA StartCompletesInv ==
  ASSUME IInv, NEW t \in tasks, NEW up \in BOOLEAN, NEW ok \in CommitOutcomes,
         StartCompletes(t, up, ok)
  PROVE  IInv'
<1> USE DEF IInv
<1>1. TypeOK'
  BY StartCompletesType
<1>2. /\ t.op = "start" /\ t.generation < snap.nextGeneration
      /\ t.intentRevision <= snap.intentRevision
  BY DEF StartCompletes, Issued
<1>3. CASE Stale(snap, t)
  <2>1. snap' \in {snap, [snap EXCEPT !.retiringResources = @ \cup {t.generation}]}
    BY <1>3 DEF StartCompletes, Committed
  <2>2. /\ snap'.currentGeneration = snap.currentGeneration
        /\ snap'.nextGeneration = snap.nextGeneration
        /\ snap'.intentRevision = snap.intentRevision
        /\ snap'.desiredState = snap.desiredState
        /\ snap'.phase = snap.phase
        /\ snap'.resources = snap.resources
        /\ snap'.retiringResources \subseteq snap.retiringResources \cup {t.generation}
    BY <2>1 DEF TypeOK, Snapshot
  <2>3. \A u \in tasks' :
          \/ u \in tasks /\ u # t
          \/ u.op = "retire" /\ u.generation = t.generation
             /\ u.intentRevision = t.intentRevision
    BY <1>3 DEF StartCompletes, StaleSpawnCleanup, RetireOf
  <2>4. Issued'
    BY <1>2, <2>2, <2>3 DEF Issued
  <2>5. OneChainPerGeneration'
    BY <2>3 DEF OneChainPerGeneration, Starter
  <2>6. \A u \in tasks' : Pending(u)' => u \in tasks /\ u # t /\ Pending(u)
    BY <2>2, <2>3 DEF Pending, Stale
  <2>7. PendingStartIsWanted'
    BY <2>2, <2>6 DEF PendingStartIsWanted
  <2>8. \A u \in tasks' : Pending(u)' => t.generation # snap.currentGeneration
    BY <1>2, <2>6 DEF OneChainPerGeneration, Starter, Pending, Stale
  <2>9. NoStartOfRetired'
    BY <2>2, <2>3, <2>6, <2>8 DEF NoStartOfRetired
  <2>10. snap'.phase = "ready" => \A u \in tasks' : u.generation # snap'.currentGeneration
    BY <2>2, <2>3 DEF ReadyIsQuiet
  <2>11. ReadyOwnsCurrent' /\ ReadyIsQuiet'
    <3>1. ASSUME NEW u \in tasks', snap'.phase = "ready"
          PROVE  ~Pending(u)'
      BY <3>1, <2>2, <2>6 DEF ReadyOwnsCurrent
    <3> QED BY <2>2, <2>10, <3>1 DEF ReadyOwnsCurrent, ReadyIsQuiet
  <2> QED BY <1>1, <2>4, <2>5, <2>7, <2>9, <2>11
<1>4. CASE ~Stale(snap, t)
  <2>1. /\ t.generation = snap.currentGeneration
        /\ t.intentRevision = snap.intentRevision
        /\ Pending(t)
    BY <1>2, <1>4 DEF Stale, Pending
  <2>2. /\ snap.desiredState = "running" /\ snap.phase \in {"starting", "blocked"}
    BY <2>1 DEF PendingStartIsWanted
  <2>3. tasks' = tasks \ {t}
    BY <1>4 DEF StartCompletes
  <2>4. snap' \in {snap, StartSucceeded(snap, t), StartFailed(snap)}
    BY <1>4 DEF StartCompletes, Committed
  <2>5. /\ snap'.currentGeneration = snap.currentGeneration
        /\ snap'.nextGeneration = snap.nextGeneration
        /\ snap'.intentRevision = snap.intentRevision
        /\ snap'.desiredState = "running"
        /\ snap'.resources \subseteq snap.resources \cup {t.generation}
        /\ snap'.retiringResources = snap.retiringResources
        /\ snap'.phase = "ready" => snap'.resources = {snap.currentGeneration}
    BY <2>1, <2>2, <2>4 DEF StartSucceeded, StartFailed, TypeOK, Snapshot
  <2>6. Issued'
    BY <1>2, <2>3, <2>5 DEF Issued
  <2>7. OneChainPerGeneration'
    BY <2>3 DEF OneChainPerGeneration, Starter
  <2>8. \A u \in tasks' : Starter(u) => u.generation # snap.currentGeneration
    BY <1>2, <2>1, <2>3 DEF OneChainPerGeneration, Starter
  <2>9. \A u \in tasks' : u.op = "retire" => u.generation # snap.currentGeneration
    BY <2>1, <2>3 DEF NoStartOfRetired
  <2>10. \A u \in tasks' : ~Pending(u)'
    BY <2>5, <2>8 DEF Pending, Stale, Starter
  <2>11. NoStartOfRetired' /\ PendingStartIsWanted'
    BY <2>10 DEF NoStartOfRetired, PendingStartIsWanted
  <2>12. \A u \in tasks' : Starter(u) \/ u.op = "retire"
    BY <2>3 DEF TypeOK, Task, StartTask, RestartTask, RetireTask, Starter
  <2>13. ReadyOwnsCurrent' /\ ReadyIsQuiet'
    BY <2>5, <2>8, <2>9, <2>10, <2>12 DEF ReadyOwnsCurrent, ReadyIsQuiet
  <2> QED BY <1>1, <2>6, <2>7, <2>11, <2>13
<1> QED BY <1>3, <1>4

LEMMA RestartRetireCompletesInv ==
  ASSUME IInv, NEW t \in tasks, NEW unresolved \in SUBSET Generation,
         NEW ok \in CommitOutcomes, RestartRetireCompletes(t, unresolved, ok)
  PROVE  IInv'
<1> USE DEF IInv
<1>1. TypeOK'
  BY RestartRetireCompletesType
<1>2. /\ t.op = "restart" /\ t.generation < snap.nextGeneration
      /\ t.intentRevision <= snap.intentRevision
      /\ \A g \in unresolved : g < snap.nextGeneration
  BY DEF RestartRetireCompletes, TornDown, Issued
<1> DEFINE s == IF unresolved # {} THEN Committed(ok, snap, RestartBlocked(snap, unresolved))
                ELSE Committed(ok, snap, [snap EXCEPT !.retiringResources = @ \ {t.old}])
<1>3. s \in Snapshot
  BY DEF Committed, RestartBlocked, TypeOK, Snapshot
<1>4. /\ s.currentGeneration = snap.currentGeneration
      /\ s.nextGeneration = snap.nextGeneration
      /\ s.intentRevision = snap.intentRevision
      /\ s.desiredState = snap.desiredState
      /\ s.phase = snap.phase \/ s.phase = "blocked"
      /\ s.resources = snap.resources
      /\ s.retiringResources \subseteq snap.retiringResources \cup unresolved
  BY DEF Committed, RestartBlocked, TypeOK, Snapshot
<1>5. \/ snap' = s /\ tasks' = tasks \ {t}
      \/ BeginStart(s, t, tasks \ {t})
  BY DEF RestartRetireCompletes, GoesOn
<1> HIDE DEF s
<1>6. CASE snap' = s /\ tasks' = tasks \ {t}
  <2>1. \A u \in tasks' : Pending(u)' => Pending(u)
    BY <1>4, <1>6 DEF Pending, Stale
  <2>2. Issued'
    BY <1>2, <1>4, <1>6 DEF Issued
  <2>3. OneChainPerGeneration'
    BY <1>6 DEF OneChainPerGeneration, Starter
  <2>4. NoStartOfRetired'
    BY <1>4, <1>6, <2>1 DEF NoStartOfRetired
  <2>5. PendingStartIsWanted'
    BY <1>4, <1>6, <2>1 DEF PendingStartIsWanted
  <2>6. ReadyOwnsCurrent' /\ ReadyIsQuiet'
    BY <1>4, <1>6, <2>1 DEF ReadyOwnsCurrent, ReadyIsQuiet
  <2> QED BY <1>1, <2>2, <2>3, <2>4, <2>5, <2>6
<1>7. CASE BeginStart(s, t, tasks \ {t}) /\ Stale(s, t)
  BY <1>6, <1>7 DEF BeginStart
<1>8. CASE BeginStart(s, t, tasks \ {t}) /\ ~Stale(s, t)
  <2>1. /\ t.generation = snap.currentGeneration
        /\ t.intentRevision = snap.intentRevision
        /\ Pending(t)
    BY <1>2, <1>4, <1>8 DEF Stale, Pending
  <2>2. snap.desiredState = "running" /\ snap.phase \in {"starting", "blocked"}
    BY <2>1 DEF PendingStartIsWanted
  <2>3. PICK reserved \in BOOLEAN : tasks' = (tasks \ {t}) \cup {StartOf(t, reserved)}
    BY <1>3, <1>8, BeginStartEffect
  <2> DEFINE x == StartOf(t, reserved)
  <2>4. /\ x.op = "start" /\ x.generation = t.generation
        /\ x.intentRevision = t.intentRevision
    BY DEF StartOf
  <2>5. /\ snap'.currentGeneration = snap.currentGeneration
        /\ snap'.nextGeneration = snap.nextGeneration
        /\ snap'.intentRevision = snap.intentRevision
        /\ snap'.desiredState = "running"
        /\ snap'.phase \in {"starting", "blocked"}
        /\ snap'.resources \subseteq snap.resources \cup {t.generation}
        /\ snap'.retiringResources \subseteq snap.retiringResources \cup unresolved
    BY <1>3, <1>4, <1>8, <2>2, BeginStartEffect
  <2> HIDE DEF x
  <2>6. \A u \in tasks' : u = x \/ (u \in tasks /\ u # t)
    BY <2>3 DEF x
  <2>7. Issued'
    BY <1>2, <2>4, <2>5, <2>6 DEF Issued
  <2>8. \A u \in tasks : u # t /\ Starter(u) => u.generation # t.generation
    BY <1>2 DEF OneChainPerGeneration, Starter
  <2>9. OneChainPerGeneration'
    BY <2>4, <2>6, <2>8 DEF OneChainPerGeneration, Starter
  <2>10. \A u \in tasks : u.op = "retire" => u.generation # snap.currentGeneration
    BY <2>1 DEF NoStartOfRetired
  <2>11. NoStartOfRetired'
    BY <2>4, <2>5, <2>6, <2>10 DEF NoStartOfRetired
  <2>12. PendingStartIsWanted' /\ ReadyOwnsCurrent' /\ ReadyIsQuiet'
    BY <2>5 DEF PendingStartIsWanted, ReadyOwnsCurrent, ReadyIsQuiet
  <2> QED BY <1>1, <2>7, <2>9, <2>11, <2>12
<1> QED BY <1>5, <1>6, <1>7, <1>8

LEMMA RetireCompletesInv ==
  ASSUME IInv, NEW t \in tasks, NEW unresolved \in SUBSET Generation,
         NEW ok \in CommitOutcomes, RetireCompletes(t, unresolved, ok)
  PROVE  IInv'
<1> USE DEF IInv
<1>1. TypeOK'
  BY RetireCompletesType
<1>2. /\ t.op = "retire" /\ t.generation < snap.nextGeneration
      /\ \A g \in unresolved : g = t.generation
      /\ tasks' = tasks \ {t}
  BY DEF RetireCompletes, TornDown, Issued
<1>3. snap' \in {snap, Retired(snap, t.generation),
                 [snap EXCEPT !.phase = "blocked", !.retiringResources = @ \cup unresolved]}
  BY DEF RetireCompletes, Committed
<1>4. /\ snap'.currentGeneration = snap.currentGeneration
      /\ snap'.nextGeneration = snap.nextGeneration
      /\ snap'.intentRevision = snap.intentRevision
      /\ snap'.desiredState = snap.desiredState
      /\ \/ snap'.phase = snap.phase
         \/ snap'.phase = "blocked"
         \/ snap.phase = "retiring" /\ snap'.phase = "absent"
      /\ snap'.resources \subseteq snap.resources
      /\ snap'.resources \in {snap.resources, snap.resources \ {t.generation}}
      /\ snap'.retiringResources \subseteq snap.retiringResources \cup unresolved
  <2>1. snap \in Snapshot
    BY DEF TypeOK
  <2>2. CASE snap' = snap
    BY <2>1, <2>2
  <2>3. CASE snap' = Retired(snap, t.generation)
    BY <2>1, <2>3 DEF Retired, Snapshot
  <2>4. CASE snap' = [snap EXCEPT !.phase = "blocked", !.retiringResources = @ \cup unresolved]
    BY <2>1, <2>4 DEF Snapshot
  <2> QED BY <1>3, <2>2, <2>3, <2>4
<1>5. \A u \in tasks' : Pending(u)' => Pending(u)
  BY <1>2, <1>4 DEF Pending, Stale
<1>6. Issued'
  BY <1>2, <1>4 DEF Issued
<1>7. OneChainPerGeneration'
  BY <1>2 DEF OneChainPerGeneration, Starter
<1>8. NoStartOfRetired'
  BY <1>2, <1>4, <1>5 DEF NoStartOfRetired
<1>9. PendingStartIsWanted'
  BY <1>2, <1>4, <1>5 DEF PendingStartIsWanted
<1>10. ReadyOwnsCurrent' /\ ReadyIsQuiet'
  BY <1>2, <1>4, <1>5 DEF ReadyOwnsCurrent, ReadyIsQuiet
<1> QED BY <1>1, <1>6, <1>7, <1>8, <1>9, <1>10

LEMMA CrashInv ==
  ASSUME IInv, NEW survivors \in SUBSET Generation, DaemonCrashes(survivors)
  PROVE  IInv'
<1>1. TypeOK'
  BY CrashType DEF IInv
<1>2. tasks' = {} /\ snap' = snap
  BY DEF DaemonCrashes
<1> QED BY <1>1, <1>2 DEF IInv, Issued, OneChainPerGeneration, NoStartOfRetired,
      PendingStartIsWanted, ReadyOwnsCurrent, ReadyIsQuiet

LEMMA InvNext == IInv /\ [Next]_vars => IInv'
<1> SUFFICES ASSUME IInv, [Next]_vars PROVE IInv'
  OBVIOUS
<1>1. CASE \E w \in Window : ProcessWindow(w)
  BY <1>1, StopInv, HaltedGateInv, AutonomousInv DEF ProcessWindow
<1>2. CASE \E t \in tasks : Completes(t)
  BY <1>2, StartCompletesInv, RestartRetireCompletesInv, RetireCompletesInv
  DEF Completes
<1>3. CASE \E survivors \in SUBSET Generation : DaemonCrashes(survivors)
  BY <1>3, CrashInv
<1>4. CASE UNCHANGED vars
  <2>1. TypeOK'
    BY <1>4, TypeNext DEF IInv
  <2> QED BY <1>4, <2>1 DEF vars, IInv, Issued, OneChainPerGeneration, NoStartOfRetired,
        PendingStartIsWanted, ReadyOwnsCurrent, ReadyIsQuiet, Pending, Stale
<1> QED BY <1>1, <1>2, <1>3, <1>4 DEF Next

LEMMA InvAlways == Spec => []IInv
<1>1. Init => IInv
  BY InvInit
<1>2. IInv /\ [Next]_vars => IInv'
  BY InvNext
<1> QED BY <1>1, <1>2, PTL DEF Spec

\* Whatever requests, completions, failed commits and crashes interleave, a start
\* that may still happen is one the owner still wants (isEffectStale).
THEOREM PendingStartIsWantedAlways == Spec => []PendingStartIsWanted
<1>1. IInv => PendingStartIsWanted
  BY DEF IInv
<1> QED BY <1>1, InvAlways, PTL

\* A ready agent is wanted, owns exactly its newest generation, and nothing in
\* flight will replace it or tear it down.
THEOREM ReadyOwnsCurrentAlways == Spec => []ReadyOwnsCurrent
<1>1. IInv => ReadyOwnsCurrent
  BY DEF IInv
<1> QED BY <1>1, InvAlways, PTL

-----------------------------------------------------------------------------
(* The carried fresh intent *)

\* The chain that may still start the generation runs fresh while the owner
\* carries a fresh intent.
FreshCarried == \A t \in tasks : Pending(t) /\ snap.freshPending => t.fresh

\* The action of FreshIntentIsSticky.
FreshStep ==
  snap.freshPending /\ ~snap'.freshPending =>
    \/ snap'.intentRevision # snap.intentRevision
    \/ \E t \in tasks \ tasks' : t.op = "start" /\ t.fresh /\ snap'.phase = "ready"

\* A step under the same fence that adds no chain but retirements.
LEMMA FreshKept ==
  ASSUME FreshCarried,
         snap'.currentGeneration = snap.currentGeneration,
         snap'.intentRevision = snap.intentRevision,
         snap'.freshPending => snap.freshPending,
         \A u \in tasks' : u \in tasks \/ u.op = "retire"
  PROVE  FreshCarried'
  BY DEF FreshCarried, Pending, Stale

LEMMA StopFresh ==
  ASSUME IInv, FreshCarried, NEW w, HandleStopHalt(w)
  PROVE  FreshCarried' /\ FreshStep
<1>1. PICK ok \in CommitOutcomes :
        LET r == w[Earliest(OfKind(w, {"stop", "halt"}))]
            pool == snap.resources \cup snap.retiringResources
        IN /\ snap' = Committed(ok, snap, Stopped(snap, r))
           /\ tasks' = Committed(ok, tasks,
                tasks \cup {RetireOf(g, snap.intentRevision + 1) : g \in pool})
  BY DEF HandleStopHalt
<1>2. CASE ~ok
  <2>1. snap' = snap /\ tasks' = tasks
    BY <1>1, <1>2 DEF Committed
  <2> QED BY <2>1, FreshKept DEF FreshStep
<1>3. CASE ok
  <2> DEFINE r == w[Earliest(OfKind(w, {"stop", "halt"}))]
  <2>1. snap' = Stopped(snap, r)
    BY <1>1, <1>3 DEF Committed
  <2> HIDE DEF r
  <2>2. /\ snap'.intentRevision = snap.intentRevision + 1
        /\ snap'.freshPending = FALSE
    BY <2>1 DEF Stopped, IInv, TypeOK, Snapshot
  <2>3. snap'.intentRevision # snap.intentRevision
    BY <2>2, Numbers DEF IInv
  <2> QED BY <2>2, <2>3 DEF FreshCarried, FreshStep
<1> QED BY <1>2, <1>3

LEMMA HaltedGateFresh ==
  ASSUME IInv, FreshCarried, NEW w, HandleHaltedGate(w)
  PROVE  FreshCarried' /\ FreshStep
<1>1. tasks' = tasks /\ snap.desiredState # "running"
  BY DEF HandleHaltedGate
<1>2. \A t \in tasks : ~Pending(t)
  BY <1>1 DEF IInv, PendingStartIsWanted
<1>3. PICK resumed : snap' = Committed(resumed, snap, Resumed(snap))
  BY DEF HandleHaltedGate
<1>4. /\ snap'.currentGeneration = snap.currentGeneration
      /\ snap'.freshPending = snap.freshPending
      /\ snap'.intentRevision \in {snap.intentRevision, snap.intentRevision + 1}
  BY <1>3 DEF Committed, Resumed, IInv, TypeOK, Snapshot
<1>5. \A t \in tasks : t.intentRevision # snap.intentRevision + 1
  BY Numbers DEF IInv, Issued
<1>6. \A t \in tasks' : ~Pending(t)'
  BY <1>1, <1>2, <1>4, <1>5 DEF Pending, Stale
<1> QED BY <1>4, <1>6 DEF FreshCarried, FreshStep

\* The chain x of a new generation carries the intent that is committed with it.
LEMMA NewChainFresh ==
  ASSUME IInv, NEW x, tasks' = tasks \cup {x},
         snap'.currentGeneration = snap.nextGeneration,
         snap.freshPending => snap'.freshPending,
         snap'.freshPending => x.fresh
  PROVE  FreshCarried' /\ FreshStep
<1>1. \A t \in tasks : t.generation # snap.nextGeneration
  BY Numbers DEF IInv, Issued
<1>2. \A t \in tasks : ~Pending(t)'
  BY <1>1 DEF Pending, Stale
<1> QED BY <1>2 DEF FreshCarried, FreshStep

\* startGeneration and its reservation leave the carried intent alone.
LEMMA BeginStartFresh ==
  ASSUME NEW s \in Snapshot, NEW t, NEW others, BeginStart(s, t, others)
  PROVE  /\ snap'.freshPending = s.freshPending
         /\ snap'.currentGeneration = s.currentGeneration
         /\ snap'.intentRevision = s.intentRevision
         /\ \/ Stale(s, t) /\ tasks' = others
            \/ /\ ~Stale(s, t)
               /\ \E x : /\ tasks' = others \cup {x}
                         /\ x.fresh = t.fresh /\ x.generation = t.generation
                         /\ x.intentRevision = t.intentRevision
<1>1. CASE Stale(s, t) /\ snap' = s /\ tasks' = others
  BY <1>1
<1>2. CASE ~Stale(s, t) /\ \E reserved \in CommitOutcomes :
               snap' = Reserved(s, t, reserved)
               /\ tasks' = others \cup {StartOf(t, reserved)}
  <2>1. PICK reserved \in CommitOutcomes :
          snap' = Reserved(s, t, reserved)
          /\ tasks' = others \cup {StartOf(t, reserved)}
    BY <1>2
  <2>2. snap' = s \/ snap' = [s EXCEPT !.resources = @ \cup {t.generation}]
    BY <2>1 DEF Reserved, Committed
  <2>3. /\ StartOf(t, reserved).fresh = t.fresh
        /\ StartOf(t, reserved).generation = t.generation
        /\ StartOf(t, reserved).intentRevision = t.intentRevision
    BY DEF StartOf
  <2> QED BY <1>2, <2>1, <2>2, <2>3 DEF Snapshot
<1> QED BY <1>1, <1>2 DEF BeginStart

LEMMA AutonomousFresh ==
  ASSUME IInv, FreshCarried, NEW w, HandleAutonomous(w)
  PROVE  FreshCarried' /\ FreshStep
<1> USE DEF IInv
<1>1. CASE UNCHANGED <<snap, tasks, spawned>>
  BY <1>1, FreshKept DEF FreshStep
<1> DEFINE isRestart == RetiresFirst(w)
           new == [op |-> "restart", generation |-> snap.nextGeneration,
                   intentRevision |-> snap.intentRevision, fresh |-> WantsFresh(w),
                   old |-> snap.currentGeneration, oldResources |-> snap.resources]
           after == Allocated(snap, isRestart, WantsFresh(w))
<1>2. CASE /\ snap.nextGeneration <= MaxGeneration
           /\ \/ isRestart /\ snap' = after /\ tasks' = tasks \cup {new}
                 /\ UNCHANGED spawned
              \/ ~isRestart /\ BeginStart(after, new, tasks)
  <2>1. after \in Snapshot
    BY <1>2, WantsFreshType, AllocatedType DEF TypeOK
  <2>2. /\ after.currentGeneration = snap.nextGeneration
        /\ after.intentRevision = snap.intentRevision
    BY AllocatedFields DEF TypeOK
  <2>3. after.freshPending = WantsFresh(w)
    BY DEF Allocated, TypeOK, Snapshot
  <2>4. snap.freshPending => WantsFresh(w)
    BY DEF WantsFresh
  <2>5. /\ new.generation = snap.nextGeneration
        /\ new.intentRevision = snap.intentRevision
        /\ new.fresh = WantsFresh(w)
    OBVIOUS
  <2> HIDE DEF new, after
  <2>6. CASE isRestart /\ snap' = after /\ tasks' = tasks \cup {new}
    <3>1. snap'.freshPending = WantsFresh(w) /\ snap'.currentGeneration = snap.nextGeneration
      BY <2>2, <2>3, <2>6
    <3> QED BY <2>4, <2>5, <2>6, <3>1, NewChainFresh
  <2>7. CASE ~isRestart /\ BeginStart(after, new, tasks)
    <3>1. ~Stale(after, new)
      BY <2>2, <2>5 DEF Stale
    <3>2. PICK x : tasks' = tasks \cup {x} /\ x.fresh = new.fresh
      BY <2>1, <2>7, <3>1, BeginStartFresh
    <3>3. /\ snap'.freshPending = WantsFresh(w)
          /\ snap'.currentGeneration = snap.nextGeneration
      BY <2>1, <2>2, <2>3, <2>7, BeginStartFresh
    <3> QED BY <2>4, <2>5, <3>2, <3>3, NewChainFresh
  <2> QED BY <1>2, <2>6, <2>7
<1> QED BY <1>1, <1>2 DEF HandleAutonomous

LEMMA StartCompletesFresh ==
  ASSUME IInv, FreshCarried, NEW t \in tasks, NEW up \in BOOLEAN,
         NEW ok \in CommitOutcomes, StartCompletes(t, up, ok)
  PROVE  FreshCarried' /\ FreshStep
<1>1. t.op = "start"
  BY DEF StartCompletes
<1>2. \A u \in tasks' : u \in tasks \/ u.op = "retire"
  BY DEF StartCompletes, StaleSpawnCleanup, RetireOf
<1>3. snap' \in {snap, [snap EXCEPT !.retiringResources = @ \cup {t.generation}],
                 StartSucceeded(snap, t), StartFailed(snap)}
  BY DEF StartCompletes, Committed
<1>4. /\ snap'.currentGeneration = snap.currentGeneration
      /\ snap'.intentRevision = snap.intentRevision
      /\ snap'.freshPending => snap.freshPending
      /\ snap' = StartSucceeded(snap, t) => snap'.phase = "ready"
      /\ snap' # StartSucceeded(snap, t) => snap'.freshPending = snap.freshPending
  BY <1>3 DEF StartSucceeded, StartFailed, IInv, TypeOK, Snapshot
<1>5. FreshCarried'
  BY <1>2, <1>4, FreshKept
<1>6. ASSUME snap.freshPending, ~snap'.freshPending
      PROVE  t \in tasks \ tasks' /\ t.fresh /\ snap'.phase = "ready"
  <2>1. ~Stale(snap, t)
    <3> SUFFICES ASSUME Stale(snap, t) PROVE FALSE
      OBVIOUS
    <3>1. snap' \in {snap, [snap EXCEPT !.retiringResources = @ \cup {t.generation}]}
      BY DEF StartCompletes, Committed
    <3>2. snap'.freshPending = snap.freshPending
      BY <3>1 DEF IInv, TypeOK, Snapshot
    <3> QED BY <1>6, <3>2
  <2>2. t.fresh
    BY <1>1, <1>6, <2>1 DEF FreshCarried, Pending
  <2>3. tasks' = tasks \ {t}
    BY <2>1 DEF StartCompletes
  <2> QED BY <1>4, <1>6, <2>2, <2>3
<1>7. FreshStep
  BY <1>1, <1>6 DEF FreshStep
<1> QED BY <1>5, <1>7

LEMMA RestartRetireCompletesFresh ==
  ASSUME IInv, FreshCarried, NEW t \in tasks, NEW unresolved \in SUBSET Generation,
         NEW ok \in CommitOutcomes, RestartRetireCompletes(t, unresolved, ok)
  PROVE  FreshCarried' /\ FreshStep
<1>1. t.op = "restart"
  BY DEF RestartRetireCompletes
<1> DEFINE s == IF unresolved # {} THEN Committed(ok, snap, RestartBlocked(snap, unresolved))
                ELSE Committed(ok, snap, [snap EXCEPT !.retiringResources = @ \ {t.old}])
<1>2. s \in Snapshot
  BY DEF Committed, RestartBlocked, IInv, TypeOK, Snapshot
<1>3. /\ s.currentGeneration = snap.currentGeneration
      /\ s.intentRevision = snap.intentRevision
      /\ s.freshPending = snap.freshPending
  BY DEF Committed, RestartBlocked, IInv, TypeOK, Snapshot
<1>4. \/ snap' = s /\ tasks' = tasks \ {t}
      \/ BeginStart(s, t, tasks \ {t})
  BY DEF RestartRetireCompletes, GoesOn
<1> HIDE DEF s
<1>5. /\ snap'.currentGeneration = snap.currentGeneration
      /\ snap'.intentRevision = snap.intentRevision
      /\ snap'.freshPending = snap.freshPending
  BY <1>2, <1>3, <1>4, BeginStartFresh
<1>6. FreshStep
  BY <1>5 DEF FreshStep
<1>7. CASE tasks' = tasks \ {t}
  BY <1>5, <1>6, <1>7, FreshKept
<1>8. CASE BeginStart(s, t, tasks \ {t}) /\ ~Stale(s, t)
  <2>1. PICK x : /\ tasks' = (tasks \ {t}) \cup {x}
                 /\ x.fresh = t.fresh /\ x.generation = t.generation
                 /\ x.intentRevision = t.intentRevision
    BY <1>2, <1>8, BeginStartFresh
  <2>2. Pending(t)
    BY <1>1, <1>3, <1>8 DEF Pending, Stale
  <2>3. snap'.freshPending => x.fresh
    BY <1>5, <2>1, <2>2 DEF FreshCarried
  <2>4. FreshCarried'
    BY <1>5, <2>1, <2>3 DEF FreshCarried, Pending, Stale
  <2> QED BY <1>6, <2>4
<1>9. CASE BeginStart(s, t, tasks \ {t}) /\ Stale(s, t)
  BY <1>2, <1>7, <1>9, BeginStartFresh
<1> QED BY <1>4, <1>7, <1>8, <1>9

LEMMA RetireCompletesFresh ==
  ASSUME IInv, FreshCarried, NEW t \in tasks, NEW unresolved \in SUBSET Generation,
         NEW ok \in CommitOutcomes, RetireCompletes(t, unresolved, ok)
  PROVE  FreshCarried' /\ FreshStep
<1>1. snap' \in {snap, Retired(snap, t.generation),
                 [snap EXCEPT !.phase = "blocked", !.retiringResources = @ \cup unresolved]}
  BY DEF RetireCompletes, Committed
<1>2. /\ snap'.currentGeneration = snap.currentGeneration
      /\ snap'.intentRevision = snap.intentRevision
      /\ snap'.freshPending = snap.freshPending
  BY <1>1 DEF Retired, IInv, TypeOK, Snapshot
<1>3. tasks' = tasks \ {t}
  BY DEF RetireCompletes
<1> QED BY <1>2, <1>3, FreshKept DEF FreshStep

\* A fresh intent that the owner carries ends only with a stop or halt, or with a
\* start that really ran fresh, however windows and completions interleave.
THEOREM FreshIntentIsStickyAlways == Spec => FreshIntentIsSticky
<1>1. Init => FreshCarried
  BY DEF Init, FreshCarried
<1>2. IInv /\ FreshCarried /\ [Next]_vars => FreshCarried' /\ [FreshStep]_vars
  <2> SUFFICES ASSUME IInv, FreshCarried, [Next]_vars
               PROVE  FreshCarried' /\ [FreshStep]_vars
    OBVIOUS
  <2>1. CASE \E w \in Window : ProcessWindow(w)
    BY <2>1, StopFresh, HaltedGateFresh, AutonomousFresh DEF ProcessWindow
  <2>2. CASE \E t \in tasks : Completes(t)
    BY <2>2, StartCompletesFresh, RestartRetireCompletesFresh, RetireCompletesFresh
    DEF Completes
  <2>3. CASE \E survivors \in SUBSET Generation : DaemonCrashes(survivors)
    BY <2>3 DEF DaemonCrashes, FreshCarried, FreshStep
  <2>4. CASE UNCHANGED vars
    BY <2>4, FreshKept DEF vars
  <2> QED BY <2>1, <2>2, <2>3, <2>4 DEF Next
<1> QED BY <1>1, <1>2, InvAlways, PTL DEF Spec, FreshIntentIsSticky, FreshStep

-----------------------------------------------------------------------------
(* The owner implements SpawnAuthority *)

\* The permission only depends on the pending restart chains.
LEMMA PermittedUnchanged ==
  ASSUME snap'.currentGeneration = snap.currentGeneration,
         snap'.intentRevision = snap.intentRevision,
         \A t : t.op = "restart" => (t \in tasks' <=> t \in tasks)
  PROVE  PermittedSpawn' = PermittedSpawn
<1>1. ASSUME NEW t PROVE Pending(t)' <=> Pending(t)
  BY DEF Pending, Stale
<1>2. (\E t \in tasks' : t.op = "restart" /\ Pending(t)')
        <=> (\E t \in tasks : t.op = "restart" /\ Pending(t))
  BY <1>1
<1> QED BY <1>2 DEF PermittedSpawn

LEMMA NothingPermitted ==
  ASSUME \A t \in tasks' : t.op = "restart" => ~Pending(t)'
  PROVE  PermittedSpawn' = 0
  BY DEF PermittedSpawn, NoGeneration

LEMMA StopAuthority ==
  ASSUME IInv, NEW w, HandleStopHalt(w)
  PROVE  Authority!Revoke \/ UNCHANGED Authority!avars
<1>1. PICK ok \in CommitOutcomes :
        LET r == w[Earliest(OfKind(w, {"stop", "halt"}))]
            pool == snap.resources \cup snap.retiringResources
        IN /\ snap' = Committed(ok, snap, Stopped(snap, r))
           /\ tasks' = Committed(ok, tasks,
                tasks \cup {RetireOf(g, snap.intentRevision + 1) : g \in pool})
  BY DEF HandleStopHalt
<1>2. UNCHANGED spawned
  BY DEF HandleStopHalt
<1>3. CASE ~ok
  <2>1. snap' = snap /\ tasks' = tasks
    BY <1>1, <1>3 DEF Committed
  <2>2. PermittedSpawn' = PermittedSpawn
    BY <2>1, PermittedUnchanged
  <2> QED BY <1>2, <2>1, <2>2 DEF Authority!avars
<1>4. CASE ok
  <2> DEFINE r == w[Earliest(OfKind(w, {"stop", "halt"}))]
             pool == snap.resources \cup snap.retiringResources
  <2>1. snap' = Stopped(snap, r)
    BY <1>1, <1>4 DEF Committed
  <2>2. tasks' = tasks \cup {RetireOf(g, snap.intentRevision + 1) : g \in pool}
    BY <1>1, <1>4 DEF Committed
  <2> HIDE DEF r
  <2>3. /\ snap'.intentRevision = snap.intentRevision + 1
        /\ snap'.nextGeneration = snap.nextGeneration
    BY <2>1 DEF Stopped, IInv, TypeOK, Snapshot
  <2>4. \A t \in tasks' : t.op = "restart" => t \in tasks
    BY <2>2 DEF RetireOf
  <2>5. \A t \in tasks : t.intentRevision # snap.intentRevision + 1
    BY Numbers DEF IInv, Issued
  <2>6. \A t \in tasks' : t.op = "restart" => ~Pending(t)'
    BY <2>3, <2>4, <2>5 DEF Pending, Stale
  <2>7. PermittedSpawn' = 0
    BY <2>6, NothingPermitted
  <2> QED BY <1>2, <2>3, <2>7 DEF Authority!Revoke
<1> QED BY <1>3, <1>4

LEMMA HaltedGateAuthority ==
  ASSUME IInv, NEW w, HandleHaltedGate(w)
  PROVE  Authority!Revoke \/ UNCHANGED Authority!avars
<1>1. tasks' = tasks /\ UNCHANGED spawned /\ snap.desiredState # "running"
  BY DEF HandleHaltedGate
<1>2. \A t \in tasks : ~Pending(t)
  BY <1>1 DEF IInv, PendingStartIsWanted
<1>3. PICK resumed : snap' = Committed(resumed, snap, Resumed(snap))
  BY DEF HandleHaltedGate
<1>4. /\ snap'.nextGeneration = snap.nextGeneration
      /\ snap'.currentGeneration = snap.currentGeneration
      /\ snap'.intentRevision \in {snap.intentRevision, snap.intentRevision + 1}
  BY <1>3 DEF Committed, Resumed, IInv, TypeOK, Snapshot
<1>5. \A t \in tasks : t.intentRevision # snap.intentRevision + 1
  BY Numbers DEF IInv, Issued
<1>6. \A t \in tasks' : t.op = "restart" => ~Pending(t)'
  BY <1>1, <1>2, <1>4, <1>5 DEF Pending, Stale
<1>7. PermittedSpawn' = 0
  BY <1>6, NothingPermitted
<1> QED BY <1>1, <1>4, <1>7 DEF Authority!Revoke

LEMMA AutonomousAuthority ==
  ASSUME IInv, NEW w, HandleAutonomous(w)
  PROVE  Authority!Grant \/ Authority!GrantAndSpawn \/ UNCHANGED Authority!avars
<1> USE DEF IInv
<1>1. CASE UNCHANGED <<snap, tasks, spawned>>
  <2>1. PermittedSpawn' = PermittedSpawn
    BY <1>1, PermittedUnchanged
  <2> QED BY <1>1, <2>1 DEF Authority!avars
<1> DEFINE isRestart == RetiresFirst(w)
           new == [op |-> "restart", generation |-> snap.nextGeneration,
                   intentRevision |-> snap.intentRevision, fresh |-> WantsFresh(w),
                   old |-> snap.currentGeneration, oldResources |-> snap.resources]
           after == Allocated(snap, isRestart, WantsFresh(w))
<1>2. CASE /\ snap.nextGeneration <= MaxGeneration
           /\ \/ isRestart /\ snap' = after /\ tasks' = tasks \cup {new}
                 /\ UNCHANGED spawned
              \/ ~isRestart /\ BeginStart(after, new, tasks)
  <2>1. after \in Snapshot
    BY <1>2, WantsFreshType, AllocatedType DEF TypeOK
  <2>2. /\ after.currentGeneration = snap.nextGeneration
        /\ after.nextGeneration = snap.nextGeneration + 1
        /\ after.intentRevision = snap.intentRevision
        /\ after.desiredState = "running"
    BY AllocatedFields DEF TypeOK
  <2>3. /\ new.op = "restart" /\ new.generation = snap.nextGeneration
        /\ new.intentRevision = snap.intentRevision
    OBVIOUS
  <2>4. /\ snap.nextGeneration \in Nat
        /\ (snap.nextGeneration + 1) - 1 = (snap.nextGeneration - 1) + 1
        /\ (snap.nextGeneration - 1) + 1 = snap.nextGeneration
    BY Numbers
  <2> HIDE DEF new, after
  <2>5. CASE isRestart /\ snap' = after /\ tasks' = tasks \cup {new} /\ UNCHANGED spawned
    <3>1. \E t \in tasks' : t.op = "restart" /\ Pending(t)'
      <4>1. PICK t : t = new
        OBVIOUS
      <4>2. /\ t \in tasks' /\ t.op = "restart"
            /\ t.intentRevision = snap'.intentRevision
            /\ t.generation = snap'.currentGeneration
        BY <2>2, <2>3, <2>5, <4>1
      <4>3. Pending(t)'
        BY <4>2 DEF Pending, Stale
      <4> QED BY <4>2, <4>3
    <3>2. PermittedSpawn' = snap.nextGeneration
      BY <2>2, <2>3, <2>5, <3>1 DEF PermittedSpawn
    <3> QED BY <2>2, <2>4, <2>5, <3>2 DEF Authority!Grant
  <2>6. CASE ~isRestart /\ BeginStart(after, new, tasks)
    <3>1. ~Stale(after, new)
      BY <2>2, <2>3 DEF Stale
    <3>2. /\ spawned' = Append(spawned, snap.nextGeneration)
          /\ snap'.currentGeneration = snap.nextGeneration
          /\ snap'.nextGeneration = snap.nextGeneration + 1
          /\ snap'.desiredState = "running"
      BY <2>1, <2>2, <2>3, <2>6, <3>1, BeginStartEffect
    <3>3. \A t \in tasks' : t.op = "restart" => t \in tasks
      BY <2>1, <2>6, <3>1, BeginStartEffect DEF StartOf
    <3>4. \A t \in tasks : t.generation # snap.nextGeneration
      BY Numbers DEF Issued
    <3>5. \A t \in tasks' : t.op = "restart" => ~Pending(t)'
      BY <3>2, <3>3, <3>4 DEF Pending, Stale
    <3>6. PermittedSpawn' = 0
      BY <3>5, NothingPermitted
    <3> QED BY <2>4, <3>2, <3>6 DEF Authority!GrantAndSpawn
  <2> QED BY <1>2, <2>5, <2>6
<1> QED BY <1>1, <1>2 DEF HandleAutonomous

LEMMA StartCompletesAuthority ==
  ASSUME IInv, NEW t \in tasks, NEW up \in BOOLEAN, NEW ok \in CommitOutcomes,
         StartCompletes(t, up, ok)
  PROVE  Authority!Revoke \/ UNCHANGED Authority!avars
<1>1. snap' \in {snap, [snap EXCEPT !.retiringResources = @ \cup {t.generation}],
                 StartSucceeded(snap, t), StartFailed(snap)}
  BY DEF StartCompletes, Committed
<1>2. /\ snap'.currentGeneration = snap.currentGeneration
      /\ snap'.nextGeneration = snap.nextGeneration
      /\ snap'.intentRevision = snap.intentRevision
      /\ snap'.desiredState = snap.desiredState
  BY <1>1 DEF StartSucceeded, StartFailed, IInv, TypeOK, Snapshot
<1>3. \A u : u.op = "restart" => (u \in tasks' <=> u \in tasks)
  BY DEF StartCompletes, StaleSpawnCleanup, RetireOf
<1>4. PermittedSpawn' = PermittedSpawn
  BY <1>2, <1>3, PermittedUnchanged
<1>5. UNCHANGED spawned
  BY DEF StartCompletes
<1> QED BY <1>2, <1>4, <1>5 DEF Authority!avars

LEMMA RestartRetireCompletesAuthority ==
  ASSUME IInv, NEW t \in tasks, NEW unresolved \in SUBSET Generation,
         NEW ok \in CommitOutcomes, RestartRetireCompletes(t, unresolved, ok)
  PROVE  Authority!Spawn \/ Authority!Revoke \/ UNCHANGED Authority!avars
<1> USE DEF IInv
<1>1. t.op = "restart"
  BY DEF RestartRetireCompletes
<1> DEFINE s == IF unresolved # {} THEN Committed(ok, snap, RestartBlocked(snap, unresolved))
                ELSE Committed(ok, snap, [snap EXCEPT !.retiringResources = @ \ {t.old}])
<1>2. s \in Snapshot
  BY DEF Committed, RestartBlocked, TypeOK, Snapshot
<1>3. /\ s.currentGeneration = snap.currentGeneration
      /\ s.nextGeneration = snap.nextGeneration
      /\ s.intentRevision = snap.intentRevision
      /\ s.desiredState = snap.desiredState
  BY DEF Committed, RestartBlocked, TypeOK, Snapshot
<1>4. \/ snap' = s /\ tasks' = tasks \ {t} /\ UNCHANGED spawned
      \/ BeginStart(s, t, tasks \ {t})
  BY DEF RestartRetireCompletes, GoesOn
<1>5. Stale(s, t) <=> Stale(snap, t)
  BY <1>3 DEF Stale
<1>6. \A u \in tasks : Pending(u) /\ Pending(t) => u = t
  BY DEF OneChainPerGeneration, Starter, Pending, Stale
<1>7. Pending(t) <=> ~Stale(snap, t)
  BY <1>1 DEF Pending
<1> HIDE DEF s
<1>8. CASE snap' = s /\ tasks' = tasks \ {t} /\ UNCHANGED spawned
  <2>1. \A u : Pending(u)' <=> Pending(u)
    BY <1>3, <1>8 DEF Pending, Stale
  <2>2. PermittedSpawn' \in {0, PermittedSpawn}
    <3>1. CASE Pending(t)
      <4>1. \A u \in tasks' : u.op = "restart" => ~Pending(u)'
        BY <1>6, <1>8, <2>1, <3>1
      <4> QED BY <4>1, NothingPermitted
    <3>2. CASE ~Pending(t)
      <4>1. (\E u \in tasks' : u.op = "restart" /\ Pending(u)')
              <=> (\E u \in tasks : u.op = "restart" /\ Pending(u))
        BY <1>8, <2>1, <3>2
      <4> QED BY <1>3, <1>8, <4>1 DEF PermittedSpawn
    <3> QED BY <3>1, <3>2
  <2> QED BY <1>3, <1>8, <2>2 DEF Authority!Revoke, Authority!avars
<1>9. CASE BeginStart(s, t, tasks \ {t}) /\ Stale(s, t)
  BY <1>8, <1>9 DEF BeginStart
<1>10. CASE BeginStart(s, t, tasks \ {t}) /\ ~Stale(s, t)
  <2>1. Pending(t) /\ t.generation = snap.currentGeneration
    BY <1>5, <1>7, <1>10 DEF Stale
  <2>2. snap.desiredState = "running"
    BY <2>1 DEF PendingStartIsWanted
  <2>3. PermittedSpawn = t.generation
    BY <1>1, <2>1 DEF PermittedSpawn
  <2>4. t.generation # 0
    <3>1. t \in RestartTask
      BY <1>1 DEF TypeOK, Task, StartTask, RetireTask
    <3> QED BY <3>1, BoundsAssumption DEF RestartTask, Generation
  <2>5. /\ spawned' = Append(spawned, t.generation)
        /\ snap'.currentGeneration = snap.currentGeneration
        /\ snap'.nextGeneration = snap.nextGeneration
        /\ snap'.intentRevision = snap.intentRevision
        /\ snap'.desiredState = snap.desiredState
    BY <1>2, <1>3, <1>10, BeginStartEffect
  <2>6. \A u \in tasks' : u.op = "restart" => u \in tasks /\ u # t
    BY <1>2, <1>10, BeginStartEffect DEF StartOf
  <2>7. \A u \in tasks' : u.op = "restart" => ~Pending(u)'
    BY <1>6, <2>1, <2>5, <2>6 DEF Pending, Stale
  <2>8. PermittedSpawn' = 0
    BY <2>7, NothingPermitted
  <2> QED BY <2>2, <2>3, <2>4, <2>5, <2>8 DEF Authority!Spawn
<1> QED BY <1>4, <1>8, <1>9, <1>10

LEMMA RetireCompletesAuthority ==
  ASSUME IInv, NEW t \in tasks, NEW unresolved \in SUBSET Generation,
         NEW ok \in CommitOutcomes, RetireCompletes(t, unresolved, ok)
  PROVE  UNCHANGED Authority!avars
<1>1. snap' \in {snap, Retired(snap, t.generation),
                 [snap EXCEPT !.phase = "blocked", !.retiringResources = @ \cup unresolved]}
  BY DEF RetireCompletes, Committed
<1>2. /\ snap'.currentGeneration = snap.currentGeneration
      /\ snap'.nextGeneration = snap.nextGeneration
      /\ snap'.intentRevision = snap.intentRevision
      /\ snap'.desiredState = snap.desiredState
  BY <1>1 DEF Retired, IInv, TypeOK, Snapshot
<1>3. \A u : u.op = "restart" => (u \in tasks' <=> u \in tasks)
  BY DEF RetireCompletes
<1>4. PermittedSpawn' = PermittedSpawn
  BY <1>2, <1>3, PermittedUnchanged
<1> QED BY <1>2, <1>4 DEF RetireCompletes, Authority!avars

LEMMA CrashAuthority ==
  ASSUME NEW survivors, DaemonCrashes(survivors) PROVE Authority!Revoke
<1>1. tasks' = {} /\ snap' = snap /\ UNCHANGED spawned
  BY DEF DaemonCrashes
<1>2. PermittedSpawn' = 0
  BY <1>1, NothingPermitted
<1> QED BY <1>1, <1>2 DEF Authority!Revoke

\* The owner spawns a generation only under a permission of SpawnAuthority: while
\* the agent is wanted, for the newest generation, once, and never after a stop,
\* a halt or a newer allocation was committed.
THEOREM SpawnAuthorityImplemented == Spec => ImplementsSpawnAuthority
<1>1. Init => Authority!AInit
  <2> SUFFICES ASSUME Init PROVE Authority!AInit
    OBVIOUS
  <2>1. PICK d \in {"running", "stopped"} : snap = InitialSnapshot(d)
    BY DEF Init
  <2>2. snap.nextGeneration - 1 = 0
    BY <2>1 DEF InitialSnapshot
  <2>3. PermittedSpawn = 0
    BY DEF Init, PermittedSpawn, NoGeneration
  <2> QED BY <2>2, <2>3 DEF Init, Authority!AInit
<1>2. IInv /\ [Next]_vars => [Authority!ANext]_Authority!avars
  <2> SUFFICES ASSUME IInv, [Next]_vars PROVE [Authority!ANext]_Authority!avars
    OBVIOUS
  <2> USE DEF Authority!ANext
  <2>1. CASE \E w \in Window : ProcessWindow(w)
    BY <2>1, StopAuthority, HaltedGateAuthority, AutonomousAuthority DEF ProcessWindow
  <2>2. CASE \E t \in tasks : Completes(t)
    BY <2>2, StartCompletesAuthority, RestartRetireCompletesAuthority,
       RetireCompletesAuthority
    DEF Completes
  <2>3. CASE \E survivors \in SUBSET Generation : DaemonCrashes(survivors)
    BY <2>3, CrashAuthority
  <2>4. CASE UNCHANGED vars
    <3>1. PermittedSpawn' = PermittedSpawn
      BY <2>4, PermittedUnchanged DEF vars
    <3> QED BY <2>4, <3>1 DEF vars, Authority!avars
  <2> QED BY <2>1, <2>2, <2>3, <2>4 DEF Next
<1> QED BY <1>1, <1>2, InvAlways, PTL DEF Spec, ImplementsSpawnAuthority, Authority!ASpec

AuthorityProofs ==
  INSTANCE SpawnAuthorityProofs WITH
    wanted <- snap.desiredState = "running",
    last <- snap.nextGeneration - 1,
    granted <- PermittedSpawn

\* No generation of an agent is ever spawned twice, nor after a newer one, in the
\* whole life of its durable store.
THEOREM GenerationsSpawnedInOrder == Spec => []Authority!SpawnedInOrder
<1>1. AuthorityProofs!ASpec => []AuthorityProofs!SpawnedInOrder
  BY AuthorityProofs!SpawnedInOrderAlways
<1>2. Authority!AInit => AuthorityProofs!AInit
  BY DEF Authority!AInit, AuthorityProofs!AInit
<1>3. [Authority!ANext]_Authority!avars => [AuthorityProofs!ANext]_AuthorityProofs!avars
  BY DEF Authority!ANext, Authority!Grant, Authority!GrantAndSpawn, Authority!Spawn,
    Authority!Revoke, Authority!avars, AuthorityProofs!ANext, AuthorityProofs!Grant,
    AuthorityProofs!GrantAndSpawn, AuthorityProofs!Spawn, AuthorityProofs!Revoke,
    AuthorityProofs!avars
<1>4. AuthorityProofs!SpawnedInOrder => Authority!SpawnedInOrder
  BY DEF AuthorityProofs!SpawnedInOrder, Authority!SpawnedInOrder
<1> QED BY <1>1, <1>2, <1>3, <1>4, SpawnAuthorityImplemented, PTL
    DEF ImplementsSpawnAuthority, Authority!ASpec, AuthorityProofs!ASpec

-----------------------------------------------------------------------------
(* The gaps: what the steps do to the bundle, the chains and the processes *)

LEMMA NotNoted == \A met, gap : gap \notin Noting(met, gap) => ~met
BY DEF Noting

\* Nothing that was noted is forgotten.
LEMMA GapsGrow == [Next]_vars => gaps \subseteq gaps'
<1> SUFFICES ASSUME [Next]_vars PROVE gaps \subseteq gaps'
  OBVIOUS
<1>1. ASSUME NEW w \in Window, ProcessWindow(w) PROVE gaps \subseteq gaps'
  BY <1>1 DEF ProcessWindow, HandleStopHalt, HandleHaltedGate, HandleAutonomous
<1>2. ASSUME NEW t \in tasks, Completes(t) PROVE gaps \subseteq gaps'
  BY <1>2 DEF Completes, StartCompletes, RestartRetireCompletes, RetireCompletes
<1>3. ASSUME NEW survivors \in SUBSET Generation, DaemonCrashes(survivors)
      PROVE  gaps \subseteq gaps'
  BY <1>3 DEF DaemonCrashes
<1> QED BY <1>1, <1>2, <1>3 DEF Next, vars

\* Staleness is decided by the revision and the newest generation alone.
LEMMA PendingSame ==
  ASSUME snap'.intentRevision = snap.intentRevision,
         snap'.currentGeneration = snap.currentGeneration
  PROVE  \A u : Pending(u)' <=> Pending(u)
BY DEF Pending, Stale

LEMMA StopEffect ==
  ASSUME IInv, NEW w, HandleStopHalt(w)
  PROVE  /\ live' = live /\ gaps' = gaps /\ Bundle' = Bundle
         /\ BeingRetired \subseteq BeingRetired' /\ BeingSpawned' = BeingSpawned
         /\ \/ snap' = snap /\ tasks' = tasks /\ asked' = asked
            \/ asked' = FALSE /\ \A t \in tasks' : ~Pending(t)'
<1>1. PICK ok \in CommitOutcomes :
        LET r == w[Earliest(OfKind(w, {"stop", "halt"}))]
            pool == snap.resources \cup snap.retiringResources
        IN /\ snap' = Committed(ok, snap, Stopped(snap, r))
           /\ tasks' = Committed(ok, tasks,
                tasks \cup {RetireOf(g, snap.intentRevision + 1) : g \in pool})
           /\ asked' = (asked /\ ~ok)
  BY DEF HandleStopHalt
<1>2. live' = live /\ gaps' = gaps
  BY DEF HandleStopHalt
<1> DEFINE r == w[Earliest(OfKind(w, {"stop", "halt"}))]
           retirements == {RetireOf(g, snap.intentRevision + 1) : g \in Bundle}
<1>3. CASE ~ok
  <2>1. snap' = snap /\ tasks' = tasks /\ asked' = asked
    BY <1>1, <1>3 DEF Committed, IInv, TypeOK
  <2> QED BY <1>2, <2>1 DEF Bundle, BeingRetired, BeingSpawned
<1>4. CASE ok
  <2>1. snap' = Stopped(snap, r) /\ tasks' = tasks \cup retirements /\ asked' = FALSE
    BY <1>1, <1>4 DEF Committed, Bundle
  <2>2. \A t \in retirements : t.op = "retire"
    BY DEF RetireOf
  <2> HIDE DEF r, retirements
  <2>3. /\ snap'.intentRevision = snap.intentRevision + 1
        /\ snap'.resources = snap.resources /\ snap'.retiringResources = snap.retiringResources
    BY <2>1 DEF Stopped, IInv, TypeOK, Snapshot
  <2>4. /\ Bundle' = Bundle /\ BeingRetired \subseteq BeingRetired'
        /\ BeingSpawned' = BeingSpawned
    BY <2>1, <2>2, <2>3 DEF Bundle, BeingRetired, BeingSpawned
  <2>5. \A t \in tasks' : ~Pending(t)'
    <3>1. snap.intentRevision \in Nat /\ \A t \in tasks : t.intentRevision \in Nat
      BY Numbers DEF IInv
    <3>2. \A t \in tasks : t.intentRevision # snap'.intentRevision
      BY <2>3, <3>1 DEF IInv, Issued
    <3> QED BY <2>1, <2>2, <3>2 DEF Pending, Stale
  <2> QED BY <1>2, <2>1, <2>4, <2>5
<1>5. ok \in BOOLEAN
  BY CommitAssumption
<1> QED BY <1>3, <1>4, <1>5

LEMMA HaltedGateEffect ==
  ASSUME IInv, NEW w, HandleHaltedGate(w)
  PROVE  /\ live' = live /\ gaps' = gaps /\ tasks' = tasks /\ asked' = asked
         /\ Bundle' = Bundle
         /\ snap.desiredState \in {"halted", "quarantined"}
         /\ \A t \in tasks : ~Pending(t) /\ ~Pending(t)'
<1>1. /\ live' = live /\ gaps' = gaps /\ tasks' = tasks /\ asked' = asked
      /\ snap.desiredState \in {"halted", "quarantined"}
  BY DEF HandleHaltedGate
<1>2. PICK resumed : snap' = Committed(resumed, snap, Resumed(snap))
  BY DEF HandleHaltedGate
<1>3. \A t \in tasks : ~Pending(t)
  BY <1>1 DEF IInv, PendingStartIsWanted
<1>4. /\ snap'.intentRevision \in {snap.intentRevision, snap.intentRevision + 1}
      /\ snap'.currentGeneration = snap.currentGeneration
      /\ snap'.resources = snap.resources /\ snap'.retiringResources = snap.retiringResources
  BY <1>2 DEF Committed, Resumed, IInv, TypeOK, Snapshot
<1>5. \A t \in tasks : ~Pending(t)'
  <2>1. snap.intentRevision \in Nat /\ \A t \in tasks : t.intentRevision \in Nat
    BY Numbers DEF IInv
  <2>2. ASSUME NEW t \in tasks, t.intentRevision = snap'.intentRevision
        PROVE  t.intentRevision = snap.intentRevision
    BY <1>4, <2>1, <2>2 DEF IInv, Issued
  <2> QED BY <1>3, <1>4, <2>2 DEF Pending, Stale
<1>6. Bundle' = Bundle
  BY <1>4 DEF Bundle
<1> QED BY <1>1, <1>3, <1>5, <1>6

\* The decision of HandleAutonomous that allocates: its chain x is the only one
\* that is not stale, and it retires first or spawns at once.
AllocationStep(w, x) ==
  /\ live' = live /\ tasks' = tasks \cup {x} /\ asked' = TRUE
  /\ gaps' = gaps \cup Noting(Beside(RetiresFirst(w)), "beside")
  /\ Bundle \subseteq Bundle' /\ BeingRetired' = BeingRetired
  /\ Pending(x)' /\ \A t \in tasks : ~Pending(t)'
  /\ snap'.desiredState = "running"
  /\ \/ /\ RetiresFirst(w) /\ x.op = "restart"
        /\ x.old = snap.currentGeneration /\ x.oldResources = snap.resources
     \/ /\ ~RetiresFirst(w) /\ x.op = "start"
        /\ x.reserved => x.generation \in snap'.resources

LEMMA AutonomousEffect ==
  ASSUME IInv, NEW w, HandleAutonomous(w)
  PROVE  \/ /\ UNCHANGED <<snap, tasks, live>>
            /\ snap.desiredState \notin {"halted", "quarantined"}
            /\ \E ok : /\ asked' = (asked \/ AcceptedAsIs(w, ok))
                       /\ gaps' = gaps \cup Noting(Redundant(w, ok), "redundant")
         \/ \E x : AllocationStep(w, x)
<1> DEFINE isRestart == RetiresFirst(w)
           new == [op |-> "restart", generation |-> snap.nextGeneration,
                   intentRevision |-> snap.intentRevision, fresh |-> WantsFresh(w),
                   old |-> snap.currentGeneration, oldResources |-> snap.resources]
           after == Allocated(snap, isRestart, WantsFresh(w))
<1>1. CASE /\ UNCHANGED <<snap, tasks, spawned>>
           /\ \E ok \in CommitOutcomes :
                /\ asked' = (asked \/ AcceptedAsIs(w, ok))
                /\ gaps' = gaps \cup Noting(Redundant(w, ok), "redundant")
  BY <1>1 DEF HandleAutonomous
<1>2. CASE /\ snap.nextGeneration <= MaxGeneration /\ asked' = TRUE
           /\ gaps' = gaps \cup Noting(Beside(isRestart), "beside")
           /\ \/ isRestart /\ snap' = after /\ tasks' = tasks \cup {new} /\ UNCHANGED spawned
              \/ ~isRestart /\ BeginStart(after, new, tasks)
  <2>1. after \in Snapshot
    BY <1>2, WantsFreshType, AllocatedType DEF IInv, TypeOK
  <2>2. /\ after.currentGeneration = snap.nextGeneration
        /\ after.intentRevision = snap.intentRevision /\ after.desiredState = "running"
        /\ after.resources \cup after.retiringResources = Bundle
    BY AllocatedFields DEF IInv, TypeOK, Bundle
  <2>3. \A t \in tasks : t.generation # snap.nextGeneration
    <3>1. snap.nextGeneration \in Nat /\ \A t \in tasks : t.generation \in Nat
      BY Numbers DEF IInv
    <3> QED BY <3>1 DEF IInv, Issued
  <2>4. live' = live
    BY DEF HandleAutonomous
  <2>5. CASE isRestart /\ snap' = after /\ tasks' = tasks \cup {new}
    <3>1. PICK x : x = new
      OBVIOUS
    <3>2. /\ x.op = "restart" /\ x.old = snap.currentGeneration
          /\ x.oldResources = snap.resources
          /\ x.generation = snap.nextGeneration /\ x.intentRevision = snap.intentRevision
      BY <3>1
    <3>3. tasks' = tasks \cup {x} /\ snap' = after
      BY <2>5, <3>1
    <3> HIDE DEF new, after
    <3>4. Pending(x)' /\ \A t \in tasks : ~Pending(t)'
      BY <2>2, <2>3, <3>2, <3>3 DEF Pending, Stale
    <3>5. Bundle' = Bundle /\ BeingRetired' = BeingRetired
      BY <2>2, <3>2, <3>3 DEF Bundle, BeingRetired
    <3>6. snap'.desiredState = "running"
      BY <2>2, <3>3
    <3>7. AllocationStep(w, x)
      BY <1>2, <2>4, <2>5, <3>2, <3>3, <3>4, <3>5, <3>6 DEF AllocationStep
    <3> QED BY <3>7
  <2>6. CASE ~isRestart /\ BeginStart(after, new, tasks)
    <3>1. new.generation = snap.nextGeneration /\ new.intentRevision = snap.intentRevision
      OBVIOUS
    <3> HIDE DEF new, after
    <3>2. ~Stale(after, new)
      BY <2>2, <3>1 DEF Stale
    <3>3. PICK reserved \in CommitOutcomes :
            snap' = Reserved(after, new, reserved) /\ tasks' = tasks \cup {StartOf(new, reserved)}
      BY <2>6, <3>2 DEF BeginStart
    <3>4. PICK x : x = StartOf(new, reserved)
      OBVIOUS
    <3>5. /\ x.op = "start" /\ x.generation = snap.nextGeneration
          /\ x.intentRevision = snap.intentRevision /\ x.reserved = reserved
      BY <3>1, <3>4 DEF StartOf
    <3>6. /\ snap'.currentGeneration = snap.nextGeneration
          /\ snap'.intentRevision = snap.intentRevision /\ snap'.desiredState = "running"
          /\ after.resources \subseteq snap'.resources
          /\ snap'.retiringResources = after.retiringResources
          /\ reserved => snap.nextGeneration \in snap'.resources
      <4>1. CASE reserved
        <5>1. snap' = [after EXCEPT !.resources = @ \cup {snap.nextGeneration}]
          BY <3>1, <3>3, <4>1 DEF Reserved, Committed
        <5> QED BY <2>1, <2>2, <5>1 DEF Snapshot
      <4>2. CASE ~reserved
        BY <2>2, <3>3, <4>2 DEF Reserved, Committed
      <4> QED BY <4>1, <4>2
    <3>7. Pending(x)' /\ \A t \in tasks : ~Pending(t)'
      BY <2>3, <3>5, <3>6 DEF Pending, Stale
    <3>8. tasks' = tasks \cup {x}
      BY <3>3, <3>4
    <3>9. Bundle \subseteq Bundle' /\ BeingRetired' = BeingRetired
      BY <2>2, <3>5, <3>6, <3>8 DEF Bundle, BeingRetired
    <3>10. AllocationStep(w, x)
      BY <1>2, <2>4, <2>6, <3>5, <3>6, <3>7, <3>8, <3>9 DEF AllocationStep
    <3> QED BY <3>10
  <2> QED BY <1>2, <2>5, <2>6
<1> QED BY <1>1, <1>2 DEF HandleAutonomous

\* A spawn returns: a stale one that came up is handed to its cleanup, any other
\* outcome leaves the chains' own accounts as they are.
StartStep(t, up, ok) ==
  /\ t.op = "start" /\ (up => t.reserved)
  /\ live' = IF up THEN live \cup {t.generation} ELSE live
  /\ asked' = asked
  /\ \A u : Pending(u)' <=> Pending(u)
  /\ snap'.desiredState = snap.desiredState
  /\ \/ /\ Stale(snap, t) /\ Bundle \subseteq Bundle' /\ snap.resources \subseteq snap'.resources
        /\ snap'.phase = snap.phase /\ gaps' = gaps
        /\ IF up THEN \E c : /\ tasks' = (tasks \ {t}) \cup {c}
                             /\ c.op = "retire" /\ c.generation = t.generation
                 ELSE tasks' = tasks \ {t}
     \/ /\ ~Stale(snap, t) /\ ~ok /\ snap' = snap /\ tasks' = tasks \ {t}
        /\ gaps' = gaps \cup Noting(TRUE, "behind")
     \/ /\ ~Stale(snap, t) /\ ok /\ ~up /\ snap'.phase = "blocked"
        /\ snap'.resources = snap.resources
        /\ snap'.retiringResources = snap.retiringResources
        /\ tasks' = tasks \ {t} /\ gaps' = gaps
     \/ /\ ~Stale(snap, t) /\ ok /\ up /\ snap'.phase = "ready"
        /\ snap'.resources = {t.generation}
        /\ snap'.retiringResources = snap.retiringResources /\ tasks' = tasks \ {t}
        /\ gaps' = gaps \cup
             Noting(Forsaken(snap.resources \ (snap.retiringResources \cup {t.generation})),
                    "dropped")

LEMMA StartEffect ==
  ASSUME IInv, NEW t \in tasks, NEW up \in BOOLEAN, NEW ok \in CommitOutcomes,
         StartCompletes(t, up, ok)
  PROVE  StartStep(t, up, ok)
<1>1. /\ t.op = "start" /\ (up => t.reserved) /\ asked' = asked
      /\ live' = IF up THEN live \cup {t.generation} ELSE live
  BY DEF StartCompletes
<1>2. snap \in Snapshot /\ ok \in BOOLEAN
  BY CommitAssumption DEF IInv, TypeOK
<1>3. CASE Stale(snap, t)
  <2>1. /\ snap' = Committed(ok /\ up, snap, [snap EXCEPT !.retiringResources = @ \cup {t.generation}])
        /\ tasks' = (tasks \ {t}) \cup StaleSpawnCleanup(t, up) /\ gaps' = gaps
    BY <1>3 DEF StartCompletes
  <2>2. /\ snap'.intentRevision = snap.intentRevision
        /\ snap'.currentGeneration = snap.currentGeneration
        /\ snap'.desiredState = snap.desiredState /\ snap'.phase = snap.phase
        /\ snap'.resources = snap.resources
        /\ snap.retiringResources \subseteq snap'.retiringResources
    BY <1>2, <2>1 DEF Committed, Snapshot
  <2>3. Bundle \subseteq Bundle'
    BY <2>2 DEF Bundle
  <2>4. IF up THEN \E c : /\ tasks' = (tasks \ {t}) \cup {c}
                          /\ c.op = "retire" /\ c.generation = t.generation
              ELSE tasks' = tasks \ {t}
    <3>1. CASE up
      <4>1. PICK c : c = RetireOf(t.generation, t.intentRevision)
        OBVIOUS
      <4>2. c.op = "retire" /\ c.generation = t.generation
        BY <4>1 DEF RetireOf
      <4>3. tasks' = (tasks \ {t}) \cup {c}
        BY <2>1, <3>1, <4>1 DEF StaleSpawnCleanup
      <4> QED BY <3>1, <4>2, <4>3
    <3>2. CASE ~up
      BY <2>1, <3>2 DEF StaleSpawnCleanup
    <3> QED BY <3>1, <3>2
  <2>5. \A u : Pending(u)' <=> Pending(u)
    BY <2>2, PendingSame
  <2> QED BY <1>1, <1>3, <2>1, <2>2, <2>3, <2>4, <2>5 DEF StartStep
<1>4. CASE ~Stale(snap, t)
  <2>1. /\ snap' = Committed(ok, snap, IF up THEN StartSucceeded(snap, t) ELSE StartFailed(snap))
        /\ tasks' = tasks \ {t}
        /\ gaps' = gaps \cup Noting(~ok, "behind") \cup
             Noting(ok /\ up /\ Forsaken(snap.resources
                                        \ (snap.retiringResources \cup {t.generation})),
                    "dropped")
    BY <1>4 DEF StartCompletes
  <2>2. /\ snap'.intentRevision = snap.intentRevision
        /\ snap'.currentGeneration = snap.currentGeneration
        /\ snap'.desiredState = snap.desiredState
    BY <1>2, <2>1 DEF Committed, StartSucceeded, StartFailed, Snapshot
  <2>3. \A u : Pending(u)' <=> Pending(u)
    BY <2>2, PendingSame
  <2>4. CASE ~ok
    <3>1. snap' = snap /\ gaps' = gaps \cup Noting(TRUE, "behind")
      BY <2>1, <2>4 DEF Committed, Noting
    <3> QED BY <1>1, <1>4, <2>1, <2>2, <2>3, <2>4, <3>1 DEF StartStep
  <2>5. CASE ok /\ ~up
    <3>1. snap' = StartFailed(snap) /\ gaps' = gaps
      BY <2>1, <2>5 DEF Committed, Noting
    <3>2. /\ snap'.phase = "blocked" /\ snap'.resources = snap.resources
          /\ snap'.retiringResources = snap.retiringResources
      BY <1>2, <3>1 DEF StartFailed, Snapshot
    <3> QED BY <1>1, <1>4, <2>1, <2>2, <2>3, <2>5, <3>1, <3>2 DEF StartStep
  <2>6. CASE ok /\ up
    <3>1. /\ snap' = StartSucceeded(snap, t)
          /\ gaps' = gaps \cup
               Noting(Forsaken(snap.resources \ (snap.retiringResources \cup {t.generation})),
                      "dropped")
      BY <2>1, <2>6 DEF Committed, Noting
    <3>2. /\ snap'.phase = "ready" /\ snap'.resources = {t.generation}
          /\ snap'.retiringResources = snap.retiringResources
      BY <1>2, <3>1 DEF StartSucceeded, Snapshot
    <3> QED BY <1>1, <1>4, <2>1, <2>2, <2>3, <2>6, <3>1, <3>2 DEF StartStep
  <2> QED BY <1>2, <2>4, <2>5, <2>6
<1> QED BY <1>3, <1>4

\* A restart's teardown returns: it blocks, or its start goes on if not stale.
RestartStep(t, unresolved, ok) ==
  /\ t.op = "restart" /\ asked' = asked
  /\ unresolved \subseteq t.oldResources \cup {t.old}
  /\ live' = live \ ((t.oldResources \cup {t.old}) \ unresolved)
  /\ \A u : Pending(u)' <=> Pending(u)
  /\ snap'.desiredState = snap.desiredState
  /\ snap.resources \subseteq snap'.resources
  /\ \/ /\ unresolved # {} /\ ok /\ tasks' = tasks \ {t} /\ snap'.phase = "blocked"
        /\ snap'.retiringResources = unresolved
        /\ gaps' = gaps \cup
             Noting(Forsaken(snap.retiringResources
                             \ (snap.resources \cup t.oldResources \cup {t.old})), "dropped")
     \/ /\ unresolved # {} /\ ~ok /\ tasks' = tasks \ {t} /\ snap' = snap
        /\ gaps' = gaps \cup Noting(~Stale(snap, t), "behind")
     \/ /\ unresolved = {} /\ snap'.phase = snap.phase /\ gaps' = gaps
        /\ snap.retiringResources \ {t.old} \subseteq snap'.retiringResources
        /\ \/ Stale(snap, t) /\ tasks' = tasks \ {t}
           \/ \E x : /\ ~Stale(snap, t) /\ tasks' = (tasks \ {t}) \cup {x}
                     /\ x.op = "start" /\ x.generation = t.generation /\ Pending(x)
                     /\ x.reserved => x.generation \in snap'.resources

LEMMA RestartEffect ==
  ASSUME IInv, NEW t \in tasks, NEW unresolved \in SUBSET Generation,
         NEW ok \in CommitOutcomes, RestartRetireCompletes(t, unresolved, ok)
  PROVE  RestartStep(t, unresolved, ok)
<1>1. /\ t.op = "restart" /\ asked' = asked
      /\ unresolved \subseteq t.oldResources \cup {t.old}
      /\ live' = live \ ((t.oldResources \cup {t.old}) \ unresolved)
  BY DEF RestartRetireCompletes, TornDown
<1>2. snap \in Snapshot /\ ok \in BOOLEAN
  BY CommitAssumption DEF IInv, TypeOK
<1>3. CASE unresolved # {}
  <2>1. /\ snap' = Committed(ok, snap, RestartBlocked(snap, unresolved)) /\ tasks' = tasks \ {t}
        /\ gaps' = gaps \cup Noting(~ok /\ ~Stale(snap, t), "behind") \cup
             Noting(ok /\ Forsaken(snap.retiringResources
                                  \ (snap.resources \cup t.oldResources \cup {t.old})),
                    "dropped")
    BY <1>3 DEF RestartRetireCompletes, GoesOn
  <2>2. /\ snap'.intentRevision = snap.intentRevision
        /\ snap'.currentGeneration = snap.currentGeneration
        /\ snap'.desiredState = snap.desiredState /\ snap'.resources = snap.resources
    BY <1>2, <2>1 DEF Committed, RestartBlocked, Snapshot
  <2>3. \A u : Pending(u)' <=> Pending(u)
    BY <2>2, PendingSame
  <2>4. CASE ok
    <3>1. /\ snap'.phase = "blocked" /\ snap'.retiringResources = unresolved
      BY <1>2, <2>1, <2>4 DEF Committed, RestartBlocked, Snapshot
    <3>2. gaps' = gaps \cup
            Noting(Forsaken(snap.retiringResources
                            \ (snap.resources \cup t.oldResources \cup {t.old})), "dropped")
      BY <2>1, <2>4 DEF Noting
    <3> QED BY <1>1, <1>3, <2>1, <2>2, <2>3, <2>4, <3>1, <3>2 DEF RestartStep
  <2>5. CASE ~ok
    <3>1. snap' = snap /\ gaps' = gaps \cup Noting(~Stale(snap, t), "behind")
      BY <2>1, <2>5 DEF Committed, Noting
    <3> QED BY <1>1, <1>3, <2>1, <2>2, <2>3, <2>5, <3>1 DEF RestartStep
  <2> QED BY <1>2, <2>4, <2>5
<1>4. CASE unresolved = {}
  <2>1. PICK s : s = Committed(ok, snap, [snap EXCEPT !.retiringResources = @ \ {t.old}])
    OBVIOUS
  <2>2. BeginStart(s, t, tasks \ {t}) /\ gaps' = gaps
    BY <1>4, <2>1 DEF RestartRetireCompletes, GoesOn
  <2>3. /\ s \in Snapshot /\ s.intentRevision = snap.intentRevision
        /\ s.currentGeneration = snap.currentGeneration
        /\ s.desiredState = snap.desiredState /\ s.phase = snap.phase
        /\ s.resources = snap.resources
        /\ snap.retiringResources \ {t.old} \subseteq s.retiringResources
    BY <1>2, <2>1 DEF Committed, Snapshot
  <2>4. Stale(s, t) <=> Stale(snap, t)
    BY <2>3 DEF Stale
  <2>5. CASE Stale(snap, t)
    <3>1. snap' = s /\ tasks' = tasks \ {t}
      BY <2>2, <2>4, <2>5 DEF BeginStart
    <3>2. \A u : Pending(u)' <=> Pending(u)
      BY <2>3, <3>1, PendingSame
    <3> QED BY <1>1, <1>4, <2>2, <2>3, <2>5, <3>1, <3>2 DEF RestartStep
  <2>6. CASE ~Stale(snap, t)
    <3>1. PICK reserved \in CommitOutcomes :
            snap' = Reserved(s, t, reserved)
            /\ tasks' = (tasks \ {t}) \cup {StartOf(t, reserved)}
      BY <2>2, <2>4, <2>6 DEF BeginStart
    <3>2. PICK x : x = StartOf(t, reserved)
      OBVIOUS
    <3>3. /\ x.op = "start" /\ x.generation = t.generation /\ x.reserved = reserved
          /\ x.intentRevision = t.intentRevision
      BY <3>2 DEF StartOf
    <3>4. Pending(x)
      BY <2>6, <3>3 DEF Pending, Stale
    <3>5. /\ snap'.intentRevision = snap.intentRevision
          /\ snap'.currentGeneration = snap.currentGeneration
          /\ snap'.desiredState = snap.desiredState /\ snap'.phase = snap.phase
          /\ snap.resources \subseteq snap'.resources
          /\ snap'.retiringResources = s.retiringResources
          /\ reserved => t.generation \in snap'.resources
      <4>1. CASE reserved
        <5>1. snap' = [s EXCEPT !.resources = @ \cup {t.generation}]
          BY <3>1, <4>1 DEF Reserved, Committed
        <5> QED BY <2>3, <5>1 DEF Snapshot
      <4>2. CASE ~reserved
        BY <2>3, <3>1, <4>2 DEF Reserved, Committed
      <4> QED BY <4>1, <4>2
    <3>6. \A u : Pending(u)' <=> Pending(u)
      BY <3>5, PendingSame
    <3>7. tasks' = (tasks \ {t}) \cup {x}
      BY <3>1, <3>2
    <3> QED BY <1>1, <1>4, <2>2, <2>3, <2>6, <3>3, <3>4, <3>5, <3>6, <3>7 DEF RestartStep
  <2> QED BY <2>5, <2>6
<1> QED BY <1>3, <1>4

\* A retirement returns.
RetireStep(t, unresolved, ok) ==
  /\ t.op = "retire" /\ asked' = asked /\ tasks' = tasks \ {t}
  /\ unresolved \subseteq {t.generation} /\ live' = live \ ({t.generation} \ unresolved)
  /\ \A u : Pending(u)' <=> Pending(u)
  /\ snap'.desiredState = snap.desiredState
  /\ snap'.phase \in {snap.phase, "blocked"} \/ snap.phase = "retiring"
  /\ snap.resources \ {t.generation} \subseteq snap'.resources
  /\ Bundle \ {t.generation} \subseteq Bundle'
  /\ unresolved # {} =>
       /\ snap.resources \subseteq snap'.resources /\ Bundle \subseteq Bundle'
       /\ ok => unresolved \subseteq Bundle'
       /\ ~ok => Noting(unresolved \ Bundle # {}, "unsaved") \subseteq gaps'

LEMMA RetireEffect ==
  ASSUME IInv, NEW t \in tasks, NEW unresolved \in SUBSET Generation,
         NEW ok \in CommitOutcomes, RetireCompletes(t, unresolved, ok)
  PROVE  RetireStep(t, unresolved, ok)
<1>1. /\ t.op = "retire" /\ asked' = asked /\ tasks' = tasks \ {t}
      /\ unresolved \subseteq {t.generation} /\ live' = live \ ({t.generation} \ unresolved)
  BY DEF RetireCompletes, TornDown
<1>2. snap \in Snapshot /\ ok \in BOOLEAN
  BY CommitAssumption DEF IInv, TypeOK
<1>3. snap' = Committed(ok, snap,
        IF unresolved = {} THEN Retired(snap, t.generation)
        ELSE [snap EXCEPT !.phase = "blocked", !.retiringResources = @ \cup unresolved])
  BY DEF RetireCompletes
<1>4. /\ snap'.intentRevision = snap.intentRevision
      /\ snap'.currentGeneration = snap.currentGeneration
      /\ snap'.desiredState = snap.desiredState
      /\ snap'.phase \in {snap.phase, "blocked"} \/ snap.phase = "retiring"
      /\ snap.resources \ {t.generation} \subseteq snap'.resources
      /\ snap.retiringResources \ {t.generation} \subseteq snap'.retiringResources
      /\ unresolved # {} => /\ snap.resources \subseteq snap'.resources
                            /\ snap.retiringResources \subseteq snap'.retiringResources
                            /\ ok => unresolved \subseteq snap'.retiringResources
  <2>1. CASE ~ok
    BY <1>3, <2>1 DEF Committed
  <2>2. CASE ok /\ unresolved = {}
    <3>1. snap' = Retired(snap, t.generation)
      BY <1>3, <2>2 DEF Committed
    <3> QED BY <1>2, <2>2, <3>1 DEF Retired, Snapshot
  <2>3. CASE ok /\ unresolved # {}
    <3>1. snap' = [snap EXCEPT !.phase = "blocked", !.retiringResources = @ \cup unresolved]
      BY <1>3, <2>3 DEF Committed
    <3> QED BY <1>2, <2>3, <3>1 DEF Snapshot
  <2> QED BY <1>2, <2>1, <2>2, <2>3
<1>5. \A u : Pending(u)' <=> Pending(u)
  BY <1>4, PendingSame
<1>6. /\ Bundle \ {t.generation} \subseteq Bundle'
      /\ unresolved # {} => Bundle \subseteq Bundle' /\ (ok => unresolved \subseteq Bundle')
  BY <1>4 DEF Bundle
<1>7. ~ok => Noting(unresolved \ Bundle # {}, "unsaved") \subseteq gaps'
  BY DEF RetireCompletes, Noting
<1> QED BY <1>1, <1>4, <1>5, <1>6, <1>7 DEF RetireStep

LEMMA CrashEffect ==
  ASSUME NEW survivors \in SUBSET Generation, DaemonCrashes(survivors)
  PROVE  /\ tasks' = {} /\ snap' = snap /\ asked' = FALSE
         /\ live' \subseteq live \cup BeingSpawned
         /\ Noting((BeingRetired \cup BeingSpawned) \ Bundle # {}, "lost") \subseteq gaps'
BY DEF DaemonCrashes

-----------------------------------------------------------------------------
(* No process is forgotten *)

\* Unless a process was lost, what runs is in the bundle or being retired; and the
\* bundle names what a start that is still wanted has reserved.
RunningIsKnown ==
  gaps \cap {"dropped", "unsaved", "lost"} = {} => live \subseteq Bundle \cup BeingRetired
ReservedIsNamed ==
  \A t \in tasks : t.op = "start" /\ t.reserved /\ Pending(t) => t.generation \in snap.resources
KnownInv == RunningIsKnown /\ ReservedIsNamed

LEMMA KnownInit == Init => KnownInv
BY DEF Init, KnownInv, RunningIsKnown, ReservedIsNamed

\* A step that lets go of nothing, and starts nothing, keeps it.
LEMMA KnownKept ==
  ASSUME KnownInv, gaps \subseteq gaps', live' \subseteq live, Bundle \subseteq Bundle',
         BeingRetired \subseteq BeingRetired',
         \A t \in tasks' : t.op = "start" /\ t.reserved /\ Pending(t)' =>
           t.generation \in snap'.resources
  PROVE  KnownInv'
BY DEF KnownInv, RunningIsKnown, ReservedIsNamed

LEMMA StartKnown ==
  ASSUME IInv, KnownInv, gaps \subseteq gaps', NEW t \in tasks, NEW up, NEW ok,
         StartStep(t, up, ok)
  PROVE  KnownInv'
<1>1. BeingRetired \subseteq BeingRetired'
  BY DEF StartStep, BeingRetired
<1>2. ReservedIsNamed'
  <2>1. ASSUME NEW u \in tasks', u.op = "start", u.reserved, Pending(u)'
        PROVE  u.generation \in snap'.resources
    <3>1. u \in tasks \ {t} /\ Pending(u)
      BY <2>1 DEF StartStep
    <3>2. u.generation \in snap.resources
      BY <2>1, <3>1 DEF KnownInv, ReservedIsNamed
    <3>3. Stale(snap, t)
      BY <3>1 DEF IInv, OneChainPerGeneration, Starter, StartStep, Pending, Stale
    <3> QED BY <3>2, <3>3 DEF StartStep
  <2> QED BY <2>1 DEF ReservedIsNamed
<1>3. RunningIsKnown'
  <2> SUFFICES ASSUME gaps' \cap {"dropped", "unsaved", "lost"} = {}, NEW g \in live'
               PROVE  g \in Bundle' \cup BeingRetired'
    BY DEF RunningIsKnown
  <2>1. live \subseteq Bundle \cup BeingRetired
    BY DEF KnownInv, RunningIsKnown
  <2>2. g \in live \/ (up /\ g = t.generation)
    BY DEF StartStep
  <2>3. CASE Stale(snap, t)
    <3>1. Bundle \subseteq Bundle'
      BY <2>3 DEF StartStep
    <3>2. up => t.generation \in BeingRetired'
      BY <2>3 DEF StartStep, BeingRetired
    <3> QED BY <1>1, <2>1, <2>2, <3>1, <3>2
  <2>4. CASE ~Stale(snap, t)
    <3>1. up => t.generation \in snap.resources
      BY <2>4 DEF StartStep, KnownInv, ReservedIsNamed, Pending
    <3>2. CASE Bundle \subseteq Bundle'
      BY <1>1, <2>1, <2>2, <3>1, <3>2 DEF Bundle
    <3>3. CASE ~(Bundle \subseteq Bundle')
      <4>1. /\ up /\ snap'.resources = {t.generation}
            /\ snap'.retiringResources = snap.retiringResources
            /\ gaps' = gaps \cup
                 Noting(Forsaken(snap.resources \ (snap.retiringResources \cup {t.generation})),
                        "dropped")
        BY <2>4, <3>3 DEF StartStep, Bundle
      <4>2. snap.resources \ (snap.retiringResources \cup {t.generation}) \subseteq BeingRetired
        BY <4>1, NotNoted DEF Forsaken
      <4> QED BY <1>1, <2>1, <2>2, <4>1, <4>2 DEF Bundle
    <3> QED BY <3>2, <3>3
  <2> QED BY <2>3, <2>4
<1> QED BY <1>2, <1>3 DEF KnownInv

LEMMA RestartKnown ==
  ASSUME IInv, KnownInv, gaps \subseteq gaps', NEW t \in tasks, NEW unresolved, NEW ok,
         RestartStep(t, unresolved, ok)
  PROVE  KnownInv'
<1>1. BeingRetired \subseteq BeingRetired'
  BY DEF RestartStep, BeingRetired
<1>2. ReservedIsNamed'
  <2>1. ASSUME NEW u \in tasks', u.op = "start", u.reserved, Pending(u)'
        PROVE  u.generation \in snap'.resources
    BY <2>1 DEF RestartStep, KnownInv, ReservedIsNamed
  <2> QED BY <2>1 DEF ReservedIsNamed
<1>3. RunningIsKnown'
  <2> SUFFICES ASSUME gaps' \cap {"dropped", "unsaved", "lost"} = {}, NEW g \in live'
               PROVE  g \in Bundle' \cup BeingRetired'
    BY DEF RunningIsKnown
  <2> DEFINE gens == t.oldResources \cup {t.old}
  <2>1. /\ g \in snap.resources \cup snap.retiringResources \cup BeingRetired
        /\ g \notin gens \/ g \in unresolved
    BY DEF KnownInv, RunningIsKnown, RestartStep, Bundle
  <2>2. CASE g \in snap.resources \cup BeingRetired
    BY <1>1, <2>2 DEF RestartStep, Bundle
  <2>3. CASE g \in snap.retiringResources /\ g \notin snap.resources
    <3>1. CASE unresolved # {} /\ ok
      <4>1. /\ snap'.retiringResources = unresolved
            /\ gaps' = gaps \cup Noting(Forsaken(snap.retiringResources
                               \ (snap.resources \cup t.oldResources \cup {t.old})), "dropped")
        BY <3>1 DEF RestartStep
      <4>2. snap.retiringResources \ (snap.resources \cup gens) \subseteq BeingRetired
        BY <4>1, NotNoted DEF Forsaken
      <4> QED BY <1>1, <2>1, <2>3, <4>1, <4>2 DEF Bundle
    <3>2. CASE unresolved # {} /\ ~ok
      <4>1. snap' = snap
        BY <3>2 DEF RestartStep
      <4> QED BY <2>3, <4>1 DEF Bundle
    <3>3. CASE unresolved = {}
      <4>1. snap.retiringResources \ {t.old} \subseteq snap'.retiringResources
        BY <3>3 DEF RestartStep
      <4> QED BY <2>1, <2>3, <3>3, <4>1 DEF Bundle
    <3> QED BY <3>1, <3>2, <3>3 DEF RestartStep
  <2> QED BY <2>1, <2>2, <2>3
<1> QED BY <1>2, <1>3 DEF KnownInv

LEMMA RetireKnown ==
  ASSUME IInv, KnownInv, gaps \subseteq gaps', NEW t \in tasks, NEW unresolved, NEW ok,
         RetireStep(t, unresolved, ok)
  PROVE  KnownInv'
<1>1. BeingRetired \ {t.generation} \subseteq BeingRetired'
  BY DEF RetireStep, BeingRetired
<1>2. ReservedIsNamed'
  <2>1. ASSUME NEW u \in tasks', u.op = "start", u.reserved, Pending(u)'
        PROVE  u.generation \in snap'.resources
    <3>1. u \in tasks /\ Pending(u) /\ u.generation \in snap.resources
      BY <2>1 DEF RetireStep, KnownInv, ReservedIsNamed
    <3>2. t.generation # u.generation
      BY <3>1 DEF IInv, NoStartOfRetired, RetireStep, Pending, Stale
    <3> QED BY <3>1, <3>2 DEF RetireStep
  <2> QED BY <2>1 DEF ReservedIsNamed
<1>3. RunningIsKnown'
  <2> SUFFICES ASSUME gaps' \cap {"dropped", "unsaved", "lost"} = {}, NEW g \in live'
               PROVE  g \in Bundle' \cup BeingRetired'
    BY DEF RunningIsKnown
  <2>1. g \in Bundle \cup BeingRetired /\ (g = t.generation => g \in unresolved)
    BY DEF KnownInv, RunningIsKnown, RetireStep
  <2>2. CASE g # t.generation
    BY <1>1, <2>1, <2>2 DEF RetireStep
  <2>3. CASE g = t.generation
    <3>1. unresolved = {g}
      BY <2>1, <2>3 DEF RetireStep
    <3>2. CASE ok
      BY <3>1, <3>2 DEF RetireStep
    <3>3. CASE ~ok
      <4>1. unresolved \ Bundle = {}
        BY <3>1, <3>3, NotNoted DEF RetireStep, Noting
      <4> QED BY <3>1, <4>1 DEF RetireStep
    <3> QED BY <3>2, <3>3
  <2> QED BY <2>2, <2>3
<1> QED BY <1>2, <1>3 DEF KnownInv

LEMMA WindowKnown ==
  ASSUME IInv, KnownInv, gaps \subseteq gaps', NEW w, ProcessWindow(w)
  PROVE  KnownInv'
<1>1. CASE HandleStopHalt(w)
  <2>1. /\ live' = live /\ Bundle' = Bundle /\ BeingRetired \subseteq BeingRetired'
        /\ \/ snap' = snap /\ tasks' = tasks
           \/ \A t \in tasks' : ~Pending(t)'
    BY <1>1, StopEffect
  <2>2. ReservedIsNamed'
    BY <2>1 DEF KnownInv, ReservedIsNamed, Pending, Stale
  <2> QED BY <2>1, <2>2, KnownKept DEF ReservedIsNamed
<1>2. CASE HandleHaltedGate(w)
  <2>1. /\ live' = live /\ Bundle' = Bundle /\ tasks' = tasks
        /\ \A t \in tasks : ~Pending(t)'
    BY <1>2, HaltedGateEffect
  <2>2. BeingRetired' = BeingRetired
    BY <2>1 DEF BeingRetired
  <2> QED BY <2>1, <2>2, KnownKept
<1>3. CASE HandleAutonomous(w)
  <2>1. CASE UNCHANGED <<snap, tasks, live>>
    BY <2>1 DEF KnownInv, RunningIsKnown, ReservedIsNamed, Bundle, BeingRetired, Pending, Stale
  <2>2. CASE \E x : AllocationStep(w, x)
    <3>1. PICK x : AllocationStep(w, x)
      BY <2>2
    <3>2. \A t \in tasks' : t.op = "start" /\ t.reserved /\ Pending(t)' =>
            t.generation \in snap'.resources
      BY <3>1 DEF AllocationStep
    <3> QED BY <3>1, <3>2, KnownKept DEF AllocationStep
  <2> QED BY <1>3, <2>1, <2>2, AutonomousEffect
<1> QED BY <1>1, <1>2, <1>3 DEF ProcessWindow

LEMMA KnownNext == IInv /\ KnownInv /\ [Next]_vars => KnownInv'
<1> SUFFICES ASSUME IInv, KnownInv, [Next]_vars PROVE KnownInv'
  OBVIOUS
<1>0. gaps \subseteq gaps'
  BY GapsGrow
<1>1. CASE \E w \in Window : ProcessWindow(w)
  BY <1>0, <1>1, WindowKnown
<1>2. ASSUME NEW t \in tasks, Completes(t) PROVE KnownInv'
  <2>1. PICK ok \in CommitOutcomes :
          \/ \E up \in BOOLEAN : StartCompletes(t, up, ok)
          \/ \E unresolved \in SUBSET Generation :
               RestartRetireCompletes(t, unresolved, ok) \/ RetireCompletes(t, unresolved, ok)
    BY <1>2 DEF Completes
  <2>2. CASE \E up \in BOOLEAN : StartCompletes(t, up, ok)
    BY <1>0, <2>2, StartEffect, StartKnown
  <2>3. CASE \E unresolved \in SUBSET Generation : RestartRetireCompletes(t, unresolved, ok)
    BY <1>0, <2>3, RestartEffect, RestartKnown
  <2>4. CASE \E unresolved \in SUBSET Generation : RetireCompletes(t, unresolved, ok)
    BY <1>0, <2>4, RetireEffect, RetireKnown
  <2> QED BY <2>1, <2>2, <2>3, <2>4
<1>3. ASSUME NEW survivors \in SUBSET Generation, DaemonCrashes(survivors) PROVE KnownInv'
  <2>1. /\ tasks' = {} /\ snap' = snap /\ live' \subseteq live \cup BeingSpawned
        /\ Noting((BeingRetired \cup BeingSpawned) \ Bundle # {}, "lost") \subseteq gaps'
    BY <1>3, CrashEffect
  <2>2. "lost" \notin gaps' => BeingRetired \cup BeingSpawned \subseteq Bundle
    BY <2>1, NotNoted
  <2> QED BY <1>0, <2>1, <2>2 DEF KnownInv, RunningIsKnown, ReservedIsNamed, Bundle
<1>4. CASE UNCHANGED vars
  BY <1>4 DEF vars, KnownInv, RunningIsKnown, ReservedIsNamed, Bundle, BeingRetired, Pending, Stale
<1> QED BY <1>1, <1>2, <1>3, <1>4 DEF Next

LEMMA KnownAlways == Spec => []KnownInv
<1>1. Init => KnownInv
  BY KnownInit
<1>2. IInv /\ KnownInv /\ [Next]_vars => KnownInv'
  BY KnownNext
<1> QED BY <1>1, <1>2, InvAlways, PTL DEF Spec

\* Whatever overlaps, fails or crashes, a running process is named by the durable
\* bundle or has a chain, until the owner overwrites the bundle's last word on it,
\* cannot save what a teardown left, or dies while only its memory names it.
THEOREM NoProcessIsForgottenAlways == Spec => []NoProcessIsForgotten
<1>1. KnownInv => NoProcessIsForgotten
  BY DEF KnownInv, RunningIsKnown, NoProcessIsForgotten, BeingRetired
<1> QED BY <1>1, KnownAlways, PTL

-----------------------------------------------------------------------------
(* One generation at a time *)

\* A spawn in flight has the agent to itself, and a restart that may still start
\* something retires all that runs.
SpawnsAlone == BeingSpawned # {} => live = {}
ReplacesAll ==
  \A t \in tasks : t.op = "restart" /\ Pending(t) =>
    BeingSpawned = {} /\ live \subseteq t.oldResources \cup {t.old}
AloneInv ==
  gaps \cap {"beside", "dropped", "unsaved", "lost"} = {} =>
    OneGenerationAtATime /\ SpawnsAlone /\ ReplacesAll

LEMMA AloneInit == Init => AloneInv
BY DEF Init, AloneInv, OneGenerationAtATime, SpawnsAlone, ReplacesAll, BeingSpawned

\* A step that spawns nothing and lets no new restart in keeps it.
LEMMA AloneKept ==
  ASSUME AloneInv, gaps \subseteq gaps', live' \subseteq live, BeingSpawned' \subseteq BeingSpawned,
         \A t \in tasks' : t.op = "restart" /\ Pending(t)' => t \in tasks /\ Pending(t)
  PROVE  AloneInv'
BY DEF AloneInv, OneGenerationAtATime, SpawnsAlone, ReplacesAll

LEMMA AllocationAlone ==
  ASSUME IInv, KnownInv, AloneInv, gaps \subseteq gaps', NEW w, NEW x, AllocationStep(w, x)
  PROVE  AloneInv'
<1> SUFFICES ASSUME gaps' \cap {"beside", "dropped", "unsaved", "lost"} = {}
             PROVE  OneGenerationAtATime' /\ SpawnsAlone' /\ ReplacesAll'
  BY DEF AloneInv
<1>1. OneGenerationAtATime /\ live \subseteq Bundle \cup BeingRetired
  BY DEF AloneInv, KnownInv, RunningIsKnown
<1>2. ~Beside(RetiresFirst(w))
  BY NotNoted DEF AllocationStep
<1>3. BeingSpawned = {} /\ live' = live
  BY <1>2 DEF Beside, AllocationStep
<1>4. CASE RetiresFirst(w)
  <2>1. /\ x.op = "restart" /\ x.old = snap.currentGeneration /\ x.oldResources = snap.resources
        /\ tasks' = tasks \cup {x} /\ \A t \in tasks : ~Pending(t)'
    BY <1>4 DEF AllocationStep
  <2>2. live \subseteq x.oldResources \cup {x.old}
    BY <1>1, <1>2, <1>4, <2>1 DEF Beside
  <2>3. BeingSpawned' = {}
    BY <1>3, <2>1 DEF BeingSpawned
  <2>4. OneGenerationAtATime' /\ SpawnsAlone'
    BY <1>1, <1>3, <2>3 DEF OneGenerationAtATime, SpawnsAlone
  <2>5. ReplacesAll'
    BY <1>3, <2>1, <2>2, <2>3 DEF ReplacesAll
  <2> QED BY <2>4, <2>5
<1>5. CASE ~RetiresFirst(w)
  <2>1. /\ x.op = "start" /\ tasks' = tasks \cup {x} /\ \A t \in tasks : ~Pending(t)'
    BY <1>5 DEF AllocationStep
  <2>2. live = {}
    BY <1>1, <1>2, <1>5 DEF Beside
  <2>3. BeingSpawned' \subseteq {x.generation}
    BY <1>3, <2>1 DEF BeingSpawned
  <2>4. OneGenerationAtATime' /\ SpawnsAlone'
    BY <1>3, <2>2, <2>3 DEF OneGenerationAtATime, SpawnsAlone
  <2>5. ReplacesAll'
    BY <2>1 DEF ReplacesAll
  <2> QED BY <2>4, <2>5
<1> QED BY <1>4, <1>5

LEMMA StartAlone ==
  ASSUME IInv, AloneInv, gaps \subseteq gaps', NEW t \in tasks, NEW up, NEW ok,
         StartStep(t, up, ok)
  PROVE  AloneInv'
<1>1. /\ \A u \in tasks' : u.op # "retire" => u \in tasks \ {t}
      /\ \A u : Pending(u)' <=> Pending(u)
  BY DEF StartStep
<1>2. BeingSpawned' \subseteq BeingSpawned
  BY <1>1 DEF BeingSpawned
<1>3. CASE ~up
  <2>1. live' = live
    BY <1>3 DEF StartStep
  <2> QED BY <1>1, <1>2, <2>1, AloneKept
<1>4. CASE up
  <2> SUFFICES ASSUME gaps' \cap {"beside", "dropped", "unsaved", "lost"} = {}
               PROVE  OneGenerationAtATime' /\ SpawnsAlone' /\ ReplacesAll'
    BY DEF AloneInv
  <2>1. t.generation \in BeingSpawned
    BY <1>4 DEF StartStep, BeingSpawned
  <2>2. /\ live = {} /\ \A g \in BeingSpawned : g = t.generation
        /\ \A u \in tasks : ~(u.op = "restart" /\ Pending(u))
    BY <2>1 DEF AloneInv, OneGenerationAtATime, SpawnsAlone, ReplacesAll
  <2>3. live' = {t.generation}
    BY <1>4, <2>2 DEF StartStep
  <2>4. BeingSpawned' = {}
    <3> SUFFICES ASSUME NEW u \in tasks', u.op = "start", u.reserved PROVE FALSE
      BY DEF BeingSpawned
    <3>1. u \in tasks \ {t}
      BY <1>1
    <3>2. u.generation = t.generation
      BY <2>2, <3>1 DEF BeingSpawned
    <3> QED BY <3>1, <3>2 DEF IInv, OneChainPerGeneration, Starter, StartStep
  <2>5. OneGenerationAtATime' /\ SpawnsAlone'
    BY <2>3, <2>4 DEF OneGenerationAtATime, SpawnsAlone
  <2>6. ReplacesAll'
    BY <1>1, <2>2 DEF ReplacesAll
  <2> QED BY <2>5, <2>6
<1> QED BY <1>3, <1>4

LEMMA RestartAlone ==
  ASSUME IInv, AloneInv, gaps \subseteq gaps', NEW t \in tasks, NEW unresolved, NEW ok,
         RestartStep(t, unresolved, ok)
  PROVE  AloneInv'
<1>1. live' \subseteq live /\ \A u : Pending(u)' <=> Pending(u)
  BY DEF RestartStep
<1>2. CASE tasks' = tasks \ {t}
  <2>1. BeingSpawned' \subseteq BeingSpawned
    BY <1>2 DEF BeingSpawned
  <2> QED BY <1>1, <1>2, <2>1, AloneKept
<1>3. CASE tasks' # tasks \ {t}
  <2>1. PICK x : /\ unresolved = {} /\ ~Stale(snap, t) /\ tasks' = (tasks \ {t}) \cup {x}
                 /\ x.op = "start" /\ x.generation = t.generation
    BY <1>3 DEF RestartStep
  <2> SUFFICES ASSUME gaps' \cap {"beside", "dropped", "unsaved", "lost"} = {}
               PROVE  OneGenerationAtATime' /\ SpawnsAlone' /\ ReplacesAll'
    BY DEF AloneInv
  <2>2. Pending(t) /\ t.op = "restart"
    BY <2>1 DEF RestartStep, Pending
  <2>3. BeingSpawned = {} /\ live \subseteq t.oldResources \cup {t.old}
    BY <2>2 DEF AloneInv, ReplacesAll
  <2>4. live' = {}
    BY <2>1, <2>3 DEF RestartStep
  <2>5. BeingSpawned' \subseteq {t.generation}
    BY <2>1, <2>3 DEF BeingSpawned
  <2>6. OneGenerationAtATime' /\ SpawnsAlone'
    BY <2>4, <2>5 DEF OneGenerationAtATime, SpawnsAlone
  <2>7. ReplacesAll'
    <3>1. ASSUME NEW u \in tasks', u.op = "restart", Pending(u)' PROVE FALSE
      <4>1. u \in tasks \ {t} /\ Pending(u)
        BY <1>1, <2>1, <3>1
      <4>2. u.generation = t.generation
        BY <2>2, <4>1 DEF Pending, Stale
      <4> QED BY <2>2, <3>1, <4>1, <4>2 DEF IInv, OneChainPerGeneration, Starter
    <3> QED BY <3>1 DEF ReplacesAll
  <2> QED BY <2>6, <2>7
<1> QED BY <1>2, <1>3

LEMMA WindowAlone ==
  ASSUME IInv, KnownInv, AloneInv, gaps \subseteq gaps', NEW w, ProcessWindow(w)
  PROVE  AloneInv'
<1>1. CASE HandleStopHalt(w)
  <2>1. /\ live' = live /\ BeingSpawned' = BeingSpawned
        /\ \/ snap' = snap /\ tasks' = tasks
           \/ \A t \in tasks' : ~Pending(t)'
    BY <1>1, StopEffect
  <2>2. \A t \in tasks' : t.op = "restart" /\ Pending(t)' => t \in tasks /\ Pending(t)
    BY <2>1 DEF Pending, Stale
  <2> QED BY <2>1, <2>2, AloneKept
<1>2. CASE HandleHaltedGate(w)
  <2>1. live' = live /\ tasks' = tasks /\ \A t \in tasks : ~Pending(t)'
    BY <1>2, HaltedGateEffect
  <2>2. BeingSpawned' = BeingSpawned
    BY <2>1 DEF BeingSpawned
  <2> QED BY <2>1, <2>2, AloneKept
<1>3. CASE HandleAutonomous(w)
  <2>1. CASE UNCHANGED <<snap, tasks, live>>
    <3>1. BeingSpawned' = BeingSpawned /\ \A u : Pending(u)' <=> Pending(u)
      BY <2>1 DEF BeingSpawned, Pending, Stale
    <3> QED BY <2>1, <3>1, AloneKept
  <2>2. CASE \E x : AllocationStep(w, x)
    BY <2>2, AllocationAlone
  <2> QED BY <1>3, <2>1, <2>2, AutonomousEffect
<1> QED BY <1>1, <1>2, <1>3 DEF ProcessWindow

LEMMA AloneNext == IInv /\ KnownInv /\ AloneInv /\ [Next]_vars => AloneInv'
<1> SUFFICES ASSUME IInv, KnownInv, AloneInv, [Next]_vars PROVE AloneInv'
  OBVIOUS
<1>0. gaps \subseteq gaps'
  BY GapsGrow
<1>1. CASE \E w \in Window : ProcessWindow(w)
  BY <1>0, <1>1, WindowAlone
<1>2. ASSUME NEW t \in tasks, Completes(t) PROVE AloneInv'
  <2>1. PICK ok \in CommitOutcomes :
          \/ \E up \in BOOLEAN : StartCompletes(t, up, ok)
          \/ \E unresolved \in SUBSET Generation :
               RestartRetireCompletes(t, unresolved, ok) \/ RetireCompletes(t, unresolved, ok)
    BY <1>2 DEF Completes
  <2>2. CASE \E up \in BOOLEAN : StartCompletes(t, up, ok)
    BY <1>0, <2>2, StartEffect, StartAlone
  <2>3. CASE \E unresolved \in SUBSET Generation : RestartRetireCompletes(t, unresolved, ok)
    BY <1>0, <2>3, RestartEffect, RestartAlone
  <2>4. ASSUME NEW unresolved \in SUBSET Generation, RetireCompletes(t, unresolved, ok)
        PROVE  AloneInv'
    <3>1. /\ tasks' = tasks \ {t} /\ live' \subseteq live
          /\ \A u : Pending(u)' <=> Pending(u)
      BY <2>4, RetireEffect DEF RetireStep
    <3>2. BeingSpawned' \subseteq BeingSpawned
      BY <3>1 DEF BeingSpawned
    <3> QED BY <1>0, <3>1, <3>2, AloneKept
  <2> QED BY <2>1, <2>2, <2>3, <2>4
<1>3. ASSUME NEW survivors \in SUBSET Generation, DaemonCrashes(survivors) PROVE AloneInv'
  <2>1. tasks' = {} /\ live' \subseteq live \cup BeingSpawned
    BY <1>3, CrashEffect
  <2>2. BeingSpawned' = {}
    BY <2>1 DEF BeingSpawned
  <2> QED BY <1>0, <2>1, <2>2 DEF AloneInv, OneGenerationAtATime, SpawnsAlone, ReplacesAll
<1>4. CASE UNCHANGED vars
  BY <1>4 DEF vars, AloneInv, OneGenerationAtATime, SpawnsAlone, ReplacesAll, BeingSpawned,
              Pending, Stale
<1> QED BY <1>1, <1>2, <1>3, <1>4 DEF Next

\* Whatever overlaps, fails or crashes, two generations of an agent have a process,
\* or are being given one, only after the owner allocated a generation beside what
\* its chain does not retire first, or after a process was lost out of its sight.
THEOREM OneGenerationUnlessBesideAlways == Spec => []OneGenerationUnlessBeside
<1>1. Init => AloneInv
  BY AloneInit
<1>2. IInv /\ KnownInv /\ AloneInv /\ [Next]_vars => AloneInv'
  BY AloneNext
<1>3. AloneInv => OneGenerationUnlessBeside
  BY DEF AloneInv, OneGenerationUnlessBeside
<1> QED BY <1>1, <1>2, <1>3, InvAlways, KnownAlways, PTL DEF Spec

-----------------------------------------------------------------------------
(* An accepted start is pursued *)

\* An accepted start is on its way or has led to something.
AskedIsPursued ==
  asked => /\ snap.desiredState \notin {"halted", "quarantined"}
           /\ snap.phase \in {"ready", "blocked"} \/ \E t \in tasks : Pending(t)
PursuedInv == gaps \cap {"redundant", "behind"} = {} => AskedIsPursued

LEMMA WindowPursued ==
  ASSUME IInv, PursuedInv, gaps \subseteq gaps', NEW w, ProcessWindow(w)
  PROVE  PursuedInv'
<1> SUFFICES ASSUME gaps' \cap {"redundant", "behind"} = {} PROVE AskedIsPursued'
  BY DEF PursuedInv
<1>0. AskedIsPursued
  BY DEF PursuedInv
<1>1. CASE HandleStopHalt(w)
  <2>1. \/ snap' = snap /\ tasks' = tasks /\ asked' = asked
        \/ asked' = FALSE
    BY <1>1, StopEffect
  <2> QED BY <1>0, <2>1 DEF AskedIsPursued, Pending, Stale
<1>2. CASE HandleHaltedGate(w)
  <2>1. asked' = asked /\ snap.desiredState \in {"halted", "quarantined"}
    BY <1>2, HaltedGateEffect
  <2> QED BY <1>0, <2>1 DEF AskedIsPursued
<1>3. CASE HandleAutonomous(w)
  <2>1. ASSUME UNCHANGED <<snap, tasks, live>>,
               snap.desiredState \notin {"halted", "quarantined"},
               NEW ok, asked' = (asked \/ AcceptedAsIs(w, ok)),
               gaps' = gaps \cup Noting(Redundant(w, ok), "redundant")
        PROVE  AskedIsPursued'
    <3>1. ~Redundant(w, ok)
      BY <2>1, NotNoted
    <3>2. \A u : Pending(u)' <=> Pending(u)
      BY <2>1 DEF Pending, Stale
    <3> QED BY <1>0, <2>1, <3>1, <3>2 DEF AskedIsPursued, Redundant
  <2>2. ASSUME NEW x, AllocationStep(w, x) PROVE AskedIsPursued'
    BY <2>2 DEF AllocationStep, AskedIsPursued
  <2> QED BY <1>3, <2>1, <2>2, AutonomousEffect
<1> QED BY <1>1, <1>2, <1>3 DEF ProcessWindow

LEMMA StartPursued ==
  ASSUME PursuedInv, gaps \subseteq gaps', NEW t \in tasks, NEW up, NEW ok, StartStep(t, up, ok)
  PROVE  PursuedInv'
<1> SUFFICES ASSUME gaps' \cap {"redundant", "behind"} = {} PROVE AskedIsPursued'
  BY DEF PursuedInv
<1>0. AskedIsPursued /\ (\A u : Pending(u)' <=> Pending(u))
      /\ asked' = asked /\ snap'.desiredState = snap.desiredState
  BY DEF PursuedInv, StartStep
<1>1. CASE Stale(snap, t)
  <2>1. snap'.phase = snap.phase /\ \A u \in tasks \ {t} : u \in tasks'
    BY <1>1 DEF StartStep
  <2>2. ~Pending(t)
    BY <1>1 DEF Pending
  <2> QED BY <1>0, <2>1, <2>2 DEF AskedIsPursued
<1>2. CASE ~Stale(snap, t)
  <2>1. ok
    BY <1>2, NotNoted DEF StartStep
  <2>2. snap'.phase \in {"ready", "blocked"}
    BY <1>2, <2>1 DEF StartStep
  <2> QED BY <1>0, <2>2 DEF AskedIsPursued
<1> QED BY <1>1, <1>2

LEMMA RestartPursued ==
  ASSUME PursuedInv, gaps \subseteq gaps', NEW t \in tasks, NEW unresolved, NEW ok,
         RestartStep(t, unresolved, ok)
  PROVE  PursuedInv'
<1> SUFFICES ASSUME gaps' \cap {"redundant", "behind"} = {} PROVE AskedIsPursued'
  BY DEF PursuedInv
<1>0. /\ AskedIsPursued /\ \A u : Pending(u)' <=> Pending(u)
      /\ asked' = asked /\ snap'.desiredState = snap.desiredState
      /\ \A u \in tasks \ {t} : u \in tasks'
  BY DEF PursuedInv, RestartStep
<1>1. CASE snap'.phase = "blocked"
  BY <1>0, <1>1 DEF AskedIsPursued
<1>2. CASE snap'.phase # "blocked"
  <2>1. snap'.phase = snap.phase
    BY <1>2 DEF RestartStep
  <2>2. CASE Stale(snap, t)
    <3>1. ~Pending(t)
      BY <2>2 DEF Pending
    <3> QED BY <1>0, <2>1, <3>1 DEF AskedIsPursued
  <2>3. CASE ~Stale(snap, t)
    <3>1. PICK x : x \in tasks' /\ Pending(x)
      BY <1>2, <2>3, NotNoted DEF RestartStep
    <3> QED BY <1>0, <3>1 DEF AskedIsPursued
  <2> QED BY <2>2, <2>3
<1> QED BY <1>1, <1>2

LEMMA RetirePursued ==
  ASSUME PursuedInv, gaps \subseteq gaps', NEW t \in tasks, NEW unresolved, NEW ok,
         RetireStep(t, unresolved, ok)
  PROVE  PursuedInv'
<1>1. /\ \A u : Pending(u)' <=> Pending(u)
      /\ asked' = asked /\ snap'.desiredState = snap.desiredState
      /\ tasks' = tasks \ {t} /\ t.op = "retire"
      /\ snap'.phase \in {snap.phase, "blocked"} \/ snap.phase = "retiring"
  BY DEF RetireStep
<1>2. ~Pending(t)
  BY <1>1 DEF Pending
<1> QED BY <1>1, <1>2 DEF PursuedInv, AskedIsPursued

LEMMA PursuedNext == IInv /\ PursuedInv /\ [Next]_vars => PursuedInv'
<1> SUFFICES ASSUME IInv, PursuedInv, [Next]_vars PROVE PursuedInv'
  OBVIOUS
<1>0. gaps \subseteq gaps'
  BY GapsGrow
<1>1. CASE \E w \in Window : ProcessWindow(w)
  BY <1>0, <1>1, WindowPursued
<1>2. ASSUME NEW t \in tasks, Completes(t) PROVE PursuedInv'
  <2>1. PICK ok \in CommitOutcomes :
          \/ \E up \in BOOLEAN : StartCompletes(t, up, ok)
          \/ \E unresolved \in SUBSET Generation :
               RestartRetireCompletes(t, unresolved, ok) \/ RetireCompletes(t, unresolved, ok)
    BY <1>2 DEF Completes
  <2>2. CASE \E up \in BOOLEAN : StartCompletes(t, up, ok)
    BY <1>0, <2>2, StartEffect, StartPursued
  <2>3. CASE \E unresolved \in SUBSET Generation : RestartRetireCompletes(t, unresolved, ok)
    BY <1>0, <2>3, RestartEffect, RestartPursued
  <2>4. CASE \E unresolved \in SUBSET Generation : RetireCompletes(t, unresolved, ok)
    BY <1>0, <2>4, RetireEffect, RetirePursued
  <2> QED BY <2>1, <2>2, <2>3, <2>4
<1>3. ASSUME NEW survivors \in SUBSET Generation, DaemonCrashes(survivors) PROVE PursuedInv'
  BY <1>3, CrashEffect DEF PursuedInv, AskedIsPursued
<1>4. CASE UNCHANGED vars
  BY <1>4 DEF vars, PursuedInv, AskedIsPursued, Pending, Stale
<1> QED BY <1>1, <1>2, <1>3, <1>4 DEF Next

\* Whatever overlaps, fails or crashes, an accepted start, restart or refresh leads
\* to ready or blocked once nothing is in flight, unless it was accepted because the
\* agent was believed to start already, or the outcome could not be committed.
THEOREM StartsArePursuedAlways == Spec => []StartsArePursued
<1>1. Init => PursuedInv
  BY DEF Init, PursuedInv, AskedIsPursued
<1>2. IInv /\ PursuedInv /\ [Next]_vars => PursuedInv'
  BY PursuedNext
<1>3. PursuedInv => StartsArePursued
  BY DEF PursuedInv, AskedIsPursued, StartsArePursued, AcceptedStartIsPursued
<1> QED BY <1>1, <1>2, <1>3, InvAlways, PTL DEF Spec
=============================================================================
