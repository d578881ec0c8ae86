------------------------ MODULE SpawnAuthorityProofs ------------------------
(* What the permissions of SpawnAuthority.tla amount to. *)
EXTENDS SpawnAuthority, TLAPS

\* Whatever was spawned is older than a permission that is still outstanding.
AInv ==
  /\ last \in Nat
  /\ granted \in {0, last}
  /\ spawned \in Seq(Nat)
  /\ \A i \in DOMAIN spawned : spawned[i] <= last
  /\ granted # 0 => \A i \in DOMAIN spawned : spawned[i] < granted
  /\ SpawnedInOrder

LEMMA AppendNewest ==
  ASSUME AInv, NEW n \in Nat, \A i \in DOMAIN spawned : spawned[i] < n,
         spawned' = Append(spawned, n), n <= last', last' \in Nat, granted' = 0,
         last <= last'
  PROVE  AInv'
<1> USE DEF AInv
<1>1. /\ spawned' \in Seq(Nat)
      /\ DOMAIN spawned' = 1..(Len(spawned) + 1)
      /\ \A i \in 1..Len(spawned) : spawned'[i] = spawned[i]
      /\ spawned'[Len(spawned) + 1] = n
  OBVIOUS
<1>2. DOMAIN spawned = 1..Len(spawned) /\ Len(spawned) \in Nat
  OBVIOUS
<1>3. \A i \in DOMAIN spawned' : spawned'[i] <= last'
  <2> TAKE i \in DOMAIN spawned'
  <2>1. CASE i = Len(spawned) + 1
    BY <1>1, <2>1
  <2>2. CASE i \in 1..Len(spawned)
    <3>1. spawned[i] \in Nat /\ spawned[i] <= last /\ spawned'[i] = spawned[i]
      BY <1>1, <1>2, <2>2
    <3> QED BY <3>1
  <2> QED BY <1>1, <1>2, <2>1, <2>2
<1>4. SpawnedInOrder'
  <2> SUFFICES ASSUME NEW i \in DOMAIN spawned', NEW j \in DOMAIN spawned', i < j
               PROVE  spawned'[i] < spawned'[j]
    BY DEF SpawnedInOrder
  <2>1. i \in 1..Len(spawned)
    BY <1>1, <1>2
  <2>2. CASE j = Len(spawned) + 1
    BY <1>1, <1>2, <2>1, <2>2
  <2>3. CASE j \in 1..Len(spawned)
    BY <1>1, <1>2, <2>1, <2>3 DEF SpawnedInOrder
  <2> QED BY <1>1, <1>2, <2>2, <2>3
<1> QED BY <1>1, <1>3, <1>4

LEMMA AInvInit == AInit => AInv
<1>1. <<>> \in Seq(Nat) /\ DOMAIN <<>> = {}
  OBVIOUS
<1> QED BY <1>1 DEF AInit, AInv, SpawnedInOrder

LEMMA AInvNext == AInv /\ [ANext]_avars => AInv'
<1> SUFFICES ASSUME AInv, [ANext]_avars PROVE AInv'
  OBVIOUS
<1>1. \A i \in DOMAIN spawned : spawned[i] \in Nat
  BY DEF AInv
<1>2. CASE Grant
  BY <1>1, <1>2 DEF Grant, AInv, SpawnedInOrder
<1>3. CASE GrantAndSpawn
  <2>1. last + 1 \in Nat /\ \A i \in DOMAIN spawned : spawned[i] < last + 1
    BY <1>1 DEF AInv
  <2> QED BY <1>3, <2>1, AppendNewest DEF GrantAndSpawn, AInv
<1>4. CASE Spawn
  <2>1. granted \in Nat /\ granted = last
        /\ \A i \in DOMAIN spawned : spawned[i] < granted
    BY <1>4 DEF Spawn, AInv
  <2> QED BY <1>4, <2>1, AppendNewest DEF Spawn, AInv
<1>5. CASE Revoke
  BY <1>5 DEF Revoke, AInv, SpawnedInOrder
<1>6. CASE UNCHANGED avars
  BY <1>6 DEF avars, AInv, SpawnedInOrder
<1> QED BY <1>2, <1>3, <1>4, <1>5, <1>6 DEF ANext

\* No generation is ever spawned twice or out of order.
THEOREM SpawnedInOrderAlways == ASpec => []SpawnedInOrder
<1>1. AInit => AInv
  BY AInvInit
<1>2. AInv /\ [ANext]_avars => AInv'
  BY AInvNext
<1>3. AInv => SpawnedInOrder
  BY DEF AInv
<1> QED BY <1>1, <1>2, <1>3, PTL DEF ASpec
=============================================================================
