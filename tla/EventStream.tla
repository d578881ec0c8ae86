---------------------------- MODULE EventStream ----------------------------
(***************************************************************************)
(* What the receipts of provider events promise (src/src/bus/              *)
(* event-delivery.ts, src/src/cli/provider-shadow-ingress.ts): an event is *)
(* accepted once, its route proposed once, and the high-water mark moves   *)
(* to it only after that.  Events are numbered in the order in which the   *)
(* provider made them.                                                     *)
(***************************************************************************)
EXTENDS Naturals

CONSTANT
  Events      \* the provider's numbers

VARIABLES
  mode,       \* a shadow lane proposes a route, an active one spawns a worker
  accepted,   \* how often each event was accepted
  proposed,   \* how often its route was proposed
  spawned,    \* how often a worker was spawned for it
  mark        \* the cursor, 0 before the first event

streamVars == <<mode, accepted, proposed, spawned, mark>>

Modes == {"off", "shadow", "active"}

StreamInit ==
  /\ mode \in Modes
  /\ accepted = [e \in Events |-> 0] /\ proposed = [e \in Events |-> 0]
  /\ spawned = [e \in Events |-> 0] /\ mark = 0

Accept(e) ==
  /\ accepted[e] = 0
  /\ accepted' = [accepted EXCEPT ![e] = 1]
  /\ UNCHANGED <<mode, proposed, spawned, mark>>

Propose(e) ==
  /\ mode = "shadow" /\ accepted[e] = 1 /\ proposed[e] = 0
  /\ proposed' = [proposed EXCEPT ![e] = 1]
  /\ UNCHANGED <<mode, accepted, spawned, mark>>

Advance(e) ==
  /\ accepted[e] = 1 /\ mark < e
  /\ mode = "shadow" => proposed[e] = 1
  /\ mark' = e
  /\ UNCHANGED <<mode, accepted, proposed, spawned>>

Spawn(e) ==
  /\ mode = "active" /\ accepted[e] = 1 /\ spawned[e] = 0 /\ mark >= e
  /\ spawned' = [spawned EXCEPT ![e] = 1]
  /\ UNCHANGED <<mode, accepted, proposed, mark>>

StreamNext == \E e \in Events : Accept(e) \/ Propose(e) \/ Advance(e) \/ Spawn(e)

\* An accepted event gets through, or a newer one has.
StreamServed == \A e \in Events : accepted[e] = 1 ~> mark >= e

StreamSpec == StreamInit /\ [][StreamNext]_streamVars /\ StreamServed
=============================================================================
