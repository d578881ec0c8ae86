--------------------------- MODULE SpawnAuthority ---------------------------
(***************************************************************************)
(* What the lifecycle owner of an agent promises about spawning: a         *)
(* generation is spawned only under a permission granted while the agent   *)
(* is wanted, a permission is for the newest generation, is used at most   *)
(* once, and is gone as soon as the intent it was granted under is         *)
(* revised.  Supervisor.tla is shown to implement this specification.      *)
(***************************************************************************)
EXTENDS Naturals, Sequences

VARIABLES
  wanted,   \* the agent is desired to run
  last,     \* the newest generation allocated, 0 before the first
  granted,  \* the generation whose spawn is still permitted, or 0
  spawned   \* the generations spawned so far, in order

avars == <<wanted, last, granted, spawned>>

AInit == wanted \in BOOLEAN /\ last = 0 /\ granted = 0 /\ spawned = <<>>

\* A new generation is allocated; its spawn waits for a teardown.
Grant ==
  /\ wanted' = TRUE
  /\ last' = last + 1
  /\ granted' = last + 1
  /\ UNCHANGED spawned

\* A new generation is allocated and spawned in one step.
GrantAndSpawn ==
  /\ wanted' = TRUE
  /\ last' = last + 1
  /\ granted' = 0
  /\ spawned' = Append(spawned, last + 1)

\* The outstanding permission is used.
Spawn ==
  /\ wanted
  /\ granted # 0
  /\ granted' = 0
  /\ spawned' = Append(spawned, granted)
  /\ UNCHANGED <<wanted, last>>

\* The intent is revised, or the permission is given up.
Revoke ==
  /\ wanted' \in BOOLEAN
  /\ granted' = 0
  /\ UNCHANGED <<last, spawned>>

ANext == Grant \/ GrantAndSpawn \/ Spawn \/ Revoke

ASpec == AInit /\ [][ANext]_avars

\* Every generation is spawned at most once, and never before an older one.
SpawnedInOrder == \A i, j \in DOMAIN spawned : i < j => spawned[i] < spawned[j]
=============================================================================
