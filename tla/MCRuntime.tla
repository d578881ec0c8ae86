------------------------------ MODULE MCRuntime ------------------------------
(* What comes to the agents for TLC, one side of it in each behaviour: the  *)
(* intake of an agent's work, the handoffs of the fleet's full contexts, or *)
(* the mirror of the tasks on the board of the people.                      *)
EXTENDS MCWorkIntake, ContextHandoff, MulticaSync, TLC

CONSTANTS a1, a2, s1, s2
TwoAgents == {a1, a2}
TwoSyncs == {s1, s2}

VARIABLE part
runtimes == <<vars, handoffVars, syncVars, part>>

\* What is left of an agent's budget.
Left(reports, sessions) == [reports |-> MaxReports - reports, sessions |-> MaxSessions - sessions]

\* One agent whose context runs full again and again; two that need the lease,
\* which a predecessor of the daemon may have left taken or asked for.
FleetInit ==
  /\ HandoffInit
  /\ \/ /\ up = {a1} /\ spent = (a1 :> Left(3, 1) @@ a2 :> Left(0, 0))
        /\ file = [active |-> {}, queue |-> <<>>]
     \/ up = {a1, a2} /\ spent = (a1 :> Left(1, 0) @@ a2 :> Left(1, 0))

\* What has happened to the board already, so that what is left is a task that is
\* changed once, an issue that is changed twice, one of each, and, with two slips,
\* an issue that is changed once.
Scenes ==
  {[made |-> 0, filed |-> MaxFiled, changes |-> 1, slips |-> 1],
   [made |-> MaxMade, filed |-> 0, changes |-> 0, slips |-> 1],
   [made |-> 0, filed |-> 0, changes |-> MaxChanges, slips |-> 1],
   [made |-> MaxMade, filed |-> 0, changes |-> 1, slips |-> 0]}

\* The scenes spare a change and a slip.
ASSUME SceneAssumption == MaxChanges >= 1 /\ MaxSlips >= 1

RuntimesInit ==
  /\ part \in {"intake", "fleet", "board"} /\ Init /\ FleetInit
  /\ Untouched /\ done \in (IF part = "board" THEN Scenes ELSE {NothingDone})
  /\ part # "fleet" => up = {a1} /\ file.queue = <<>>

\* Bound: the mirror is not followed beyond a known gap.
Mirroring == part = "board" /\ ~astray

RuntimesNext ==
  /\ UNCHANGED part
  /\ \/ part = "intake" /\ Next /\ UNCHANGED <<handoffVars, syncVars>>
     \/ part = "fleet" /\ HandoffNext /\ UNCHANGED <<vars, syncVars>>
     \/ Mirroring /\ SyncNext /\ UNCHANGED <<vars, handoffVars>>

\* The fairness of FairSpec, HandoffFairness and SyncFairness, each for the part
\* that is alive.
RuntimesFairness ==
  /\ WF_vars(part = "intake" /\ Poll) /\ WF_vars(part = "intake" /\ RuntimeStarts)
  /\ \A id \in Key \X (1..MaxAccepted) : WF_vars(part = "intake" /\ ReviewFires(id))
  /\ \A f \in Fires : WF_vars(part = "intake" /\ FireWrites(f))
  /\ WF_handoffVars(part = "fleet" /\ Tick)
  /\ \A a \in Agents : WF_handoffVars(part = "fleet" /\ Checks(a))
  /\ WF_syncVars(Mirroring /\ \E r \in Runs : Starts(r, 0))
  /\ \A r \in Runs : WF_syncVars(Mirroring /\ SyncGoesOn(r))
  /\ WF_syncVars(Mirroring /\ Lands)

RuntimesSpec == RuntimesInit /\ [][RuntimesNext]_runtimes /\ RuntimesFairness

RuntimesTypeOK == TypeOK /\ HandoffTypeOK /\ SyncTypeOK
=============================================================================
