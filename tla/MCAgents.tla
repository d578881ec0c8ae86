------------------------------ MODULE MCAgents ------------------------------
(* The daemon's agents for TLC, one side of them in each behaviour: the      *)
(* registry and the processes of one name, or the turns of one runtime       *)
(* adapter.  A behaviour of the turns leaves the registry empty.             *)
EXTENDS AgentManager, TurnQueue

CONSTANTS r1, r2
TwoCalls == {r1, r2}
Recovered == {"restart", "halt"}
AllKinds == {"start", "restart", "stop", "userStop"}

VARIABLE part
agents == <<vars, turnVars, part>>

AgentsInit ==
  /\ part \in {"registry", "turns"}
  /\ Init /\ TurnInit
  /\ part = "turns" => Empty /\ \A c \in Requests : call[c].kind = "start"

AgentsNext ==
  /\ UNCHANGED part
  /\ \/ part = "registry" /\ Next /\ UNCHANGED turnVars
     \/ part = "turns" /\ TurnNext /\ UNCHANGED vars

\* Fairness and TurnFairness, each for the part that is alive.
AgentsFairness ==
  /\ \A c \in Requests :
       WF_vars(part = "registry" /\ (EvictionEnds(c) \/ StartEnds(c) \/ StopEnds(c) \/ RestartGoesOn(c)))
  /\ \A i \in Entries :
       /\ WF_vars(part = "registry" /\ DelayOver(i))
       /\ WF_vars(part = "registry" /\ (Fork(i) \/ SpawnFails(i) \/ SpawnReturns(i)))
       /\ WF_vars(part = "registry" /\ StopFinishes(i))
       /\ WF_vars(part = "registry" /\ RefreshGoesOn(i))
       /\ WF_vars(part = "registry" /\ ChildKilled(i))
  /\ WF_turnVars(part = "turns" /\ DrainGoesOn)
  /\ WF_turnVars(part = "turns" /\ StartFails)
  /\ WF_turnVars(part = "turns" /\ TurnTimesOut)
  /\ \A m \in Inputs : WF_turnVars(part = "turns" /\ SteerFails(m))

AgentsSpec == AgentsInit /\ [][AgentsNext]_agents /\ AgentsFairness

AgentsTypeOK == TypeOK /\ TurnTypeOK
=============================================================================
