------------------------------- MODULE MCOwner -------------------------------
(* The owner of an agent and the hosts its processes live in, for TLC: one   *)
(* of the two in each behaviour.                                             *)
EXTENDS MCSupervisor, PtyHosts

VARIABLE part
ownership == <<vars, hostVars, part>>

\* Bound: once the owner has run into one of its gaps the chains in flight end as
\* ever, but no more requests come and the daemon does not crash.
OwnerNext ==
  \/ gaps = {} /\ (\E w \in Window : ProcessWindow(w))
  \/ \E t \in tasks : Completes(t)
  \/ gaps = {} /\ (\E survivors \in SUBSET Generation : DaemonCrashes(survivors))

OwnershipInit ==
  /\ part \in {"owner", "hosts"} /\ Init /\ HostInit
  /\ part = "hosts" => snap = InitialSnapshot("running")

OwnershipNext ==
  /\ UNCHANGED part
  /\ \/ part = "owner" /\ OwnerNext /\ UNCHANGED hostVars
     \/ part = "hosts" /\ HostNext /\ UNCHANGED vars

\* Fairness and HostFairness, each for the part that is alive.
OwnershipFairness ==
  /\ \A g \in Generation :
       WF_vars(part = "owner" /\ \E t \in tasks : t.generation = g /\ Completes(t))
  /\ WF_hostVars(part = "hosts" /\ Sweeps)
  /\ \A h \in Hosts :
       /\ WF_hostVars(part = "hosts" /\ ReadyTimesOut(h))
       /\ WF_hostVars(part = "hosts" /\ Escalates(h))
       /\ WF_hostVars(part = "hosts" /\ ExitSeen(h))
       /\ WF_hostVars(part = "hosts" /\ HostDisposes(h))
       /\ WF_hostVars(part = "hosts" /\ HostFallsBack(h))
       /\ WF_hostVars(part = "hosts" /\ StopKills(h))

OwnershipSpec == OwnershipInit /\ [][OwnershipNext]_ownership /\ OwnershipFairness
=============================================================================
