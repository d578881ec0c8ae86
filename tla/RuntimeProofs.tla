---------------------------- MODULE RuntimeProofs ----------------------------
(***************************************************************************)
(* Proofs about what comes to the agents.                                  *)
(*                                                                         *)
(* The work ledger and the transports that feed it, for any messages,      *)
(* letters and cron fires, any number of crashes and any outcome of the    *)
(* commits: a source has one record, an outcome is final, the intent to    *)
(* dispatch is durable before the write, and nothing leaves its transport  *)
(* unwritten.                                                              *)
(*                                                                         *)
(* The handoffs of full contexts, for any fleet, any number of leases and  *)
(* any number of sessions: loops are broken, and who has to hand over has  *)
(* a lease.                                                                *)
(*                                                                         *)
(* With SyncProofs, the types of the specification in which TLC runs all   *)
(* of them.                                                                *)
(***************************************************************************)
EXTENDS MCRuntime, SyncProofs, SequenceTheorems, FiniteSetTheorems, FunctionTheorems,
        WellFoundedInduction, TLAPS

-----------------------------------------------------------------------------
(* Records *)

LEMMA RecordFields ==
  ASSUME NEW r \in Record
  PROVE  r.key \in Key /\ r.times \in 1..MaxAccepted /\ r.phase \in Unresolved \cup Resolved
BY DEF Record

\* A record that changes its phase is the same work.
LEMMA PhaseMoves ==
  ASSUME NEW r \in Record, NEW p \in Unresolved \cup Resolved
  PROVE  /\ [r EXCEPT !.phase = p] \in Record
         /\ [r EXCEPT !.phase = p].key = r.key
         /\ [r EXCEPT !.phase = p].times = r.times
         /\ [r EXCEPT !.phase = p].phase = p
         /\ p = r.phase => [r EXCEPT !.phase = p] = r
BY DEF Record

LEMMA AppliedIsForward ==
  ASSUME NEW p \in Unresolved \cup Resolved,
         NEW kind \in {"runtime-accepted", "completed", "failed", "cancelled", "needs-review"}
  PROVE  /\ Applied(p, kind) \in Unresolved \cup Resolved
         /\ p \in Resolved => Applied(p, kind) = p
         /\ Applied(p, kind) = "accepted" => p = "accepted"
BY DEF Applied, Unresolved, Resolved, Terminal

\* archiveTerminal drops finished records alone, and none of the newest.
LEMMA ArchivedKeeps ==
  ASSUME NEW records, NEW newest, NEW kept \in Archived(records, newest)
  PROVE  /\ kept \subseteq records
         /\ \A r \in records : r \in newest \/ r.phase \notin Terminal => r \in kept
BY DEF Archived

LEMMA SameWork ==
  ASSUME NEW r \in Record, NEW s \in Record
  PROVE  WorkId(r) = WorkId(s) <=> r.key = s.key /\ r.times = s.times
BY DEF WorkId

-----------------------------------------------------------------------------
(* What a step does to the ledger *)

TimesCounted == \A r \in ledger : r.times <= accepted[r.key]

LedgerInv ==
  /\ ledger \subseteq Record /\ accepted \in [Key -> 0..MaxAccepted]
  /\ OneRecordPerSource /\ TimesCounted

\* The body of OutcomesAreFinal.
Forward ==
  \A r \in ledger :
    IF r.phase \in Terminal
    THEN \A s \in ledger' : WorkId(s) = WorkId(r) => s = r
    ELSE \E s \in ledger' : /\ WorkId(s) = WorkId(r)
                            /\ r.phase = "needs-review" => s = r
                            /\ s.phase = "accepted" => r.phase = "accepted"

\* A record that says accepted was there before or is of a new acceptance.
LedgerStep ==
  /\ LedgerInv'
  /\ \A k \in Key : accepted[k] <= accepted'[k]
  /\ Forward
  /\ \A s \in ledger' : s.phase = "accepted" => s \in ledger \/ accepted[s.key] < s.times

LEMMA LedgerStays ==
  ASSUME LedgerInv, UNCHANGED <<ledger, accepted>>
  PROVE  LedgerStep
<1>1. \A r, s \in ledger : WorkId(r) = WorkId(s) => r = s
  BY SameWork DEF LedgerInv, OneRecordPerSource
<1>2. Forward
  BY <1>1 DEF Forward
<1>3. \A k \in Key : accepted[k] <= accepted[k]
  BY BoundsAssumption DEF LedgerInv
<1> QED BY <1>2, <1>3 DEF LedgerStep, LedgerInv, OneRecordPerSource, TimesCounted

LEMMA AcceptBatchStep ==
  ASSUME LedgerInv, NEW items \in SUBSET Items, AcceptBatch(items)
  PROVE  LedgerStep /\ \A i \in items : accepted'[i.key] > 0
<1> DEFINE new == {i \in items : Known(i) = {}}
           made == {NewRecord(i) : i \in new}
<1>1. /\ \A i \in new : accepted[i.key] < MaxAccepted
      /\ ledger' \in Archived(ledger \cup made, {})
      /\ accepted' = [k \in Key |-> IF \E i \in new : i.key = k THEN accepted[k] + 1
                                    ELSE accepted[k]]
      /\ ~Conflict(items)
  BY DEF AcceptBatch
<1>2. \A i \in items : i.key \in Key /\ i.text \in Text
  BY DEF Key, Text
<1>3. \A i, j \in items : i.key = j.key => i.text = j.text
  BY <1>1 DEF Conflict
<1>4. \A k \in Key : accepted[k] \in 0..MaxAccepted
  BY DEF LedgerInv
<1>5. \A k \in Key : accepted'[k] \in 0..MaxAccepted /\ accepted[k] <= accepted'[k]
  <2> SUFFICES ASSUME NEW k \in Key
               PROVE  accepted'[k] \in 0..MaxAccepted /\ accepted[k] <= accepted'[k]
    OBVIOUS
  <2>1. CASE \E i \in new : i.key = k
    <3>1. accepted'[k] = accepted[k] + 1 /\ accepted[k] < MaxAccepted
      BY <1>1, <2>1
    <3> QED BY <1>4, <3>1, BoundsAssumption
  <2>2. CASE ~\E i \in new : i.key = k
    <3>1. accepted'[k] = accepted[k]
      BY <1>1, <2>2
    <3> QED BY <1>4, <3>1, BoundsAssumption
  <2> QED BY <2>1, <2>2
<1>6. accepted' \in [Key -> 0..MaxAccepted]
  BY <1>1, <1>5
<1>7. ASSUME NEW i \in new
      PROVE  /\ NewRecord(i) \in Record /\ NewRecord(i).key = i.key
             /\ NewRecord(i).times = accepted[i.key] + 1
             /\ NewRecord(i).times = accepted'[i.key]
             /\ NewRecord(i).text = i.text /\ NewRecord(i).phase = "accepted"
  <2>1. /\ NewRecord(i).key = i.key /\ NewRecord(i).times = accepted[i.key] + 1
        /\ NewRecord(i).text = i.text /\ NewRecord(i).phase = "accepted"
    BY DEF NewRecord
  <2>2. accepted[i.key] + 1 \in 1..MaxAccepted
    BY <1>1, <1>2, <1>4, BoundsAssumption
  <2>3. NewRecord(i) \in Record
    BY <1>2, <2>2 DEF NewRecord, Record, Unresolved
  <2>4. accepted'[i.key] = accepted[i.key] + 1
    BY <1>1, <1>2
  <2> QED BY <2>1, <2>3, <2>4
<1>8. ledger' \subseteq ledger \cup made
      /\ \A r \in ledger : r.phase \notin Terminal => r \in ledger'
  BY <1>1, ArchivedKeeps
<1>9. \A r \in ledger, i \in new : r.key # i.key
  BY DEF Known
<1>10. ASSUME NEW i \in new, NEW j \in new, i.key = j.key PROVE NewRecord(i) = NewRecord(j)
  BY <1>3, <1>10 DEF NewRecord
<1> HIDE DEF new
<1>11. ASSUME NEW r \in ledger', NEW s \in ledger', r.key = s.key PROVE r = s
  <2>1. CASE r \in ledger /\ s \in ledger
    BY <1>11, <2>1 DEF LedgerInv, OneRecordPerSource
  <2>2. CASE r \in made /\ s \in made
    BY <1>7, <1>10, <1>11, <2>2
  <2>3. CASE (r \in ledger /\ s \in made) \/ (r \in made /\ s \in ledger)
    BY <1>7, <1>9, <1>11, <2>3
  <2> QED BY <1>8, <2>1, <2>2, <2>3
<1>12. OneRecordPerSource'
  BY <1>11 DEF OneRecordPerSource
<1>13. ledger' \subseteq Record
  BY <1>7, <1>8 DEF LedgerInv
<1>14. TimesCounted'
  <2> SUFFICES ASSUME NEW r \in ledger' PROVE r.times <= accepted'[r.key]
    BY DEF TimesCounted
  <2>0. r \in Record
    BY <1>13
  <2>1. CASE r \in ledger
    <3>1. r.times <= accepted[r.key]
      BY <2>1 DEF LedgerInv, TimesCounted
    <3> QED BY <1>4, <1>5, <2>0, <3>1, RecordFields
  <2>2. CASE r \in made
    <3>1. r.times = accepted'[r.key]
      BY <1>7, <2>2
    <3> QED BY <1>5, <2>0, <3>1, RecordFields
  <2> QED BY <1>8, <2>1, <2>2
<1>15. Forward
  <2> SUFFICES ASSUME NEW r \in ledger
               PROVE IF r.phase \in Terminal
                     THEN \A s \in ledger' : WorkId(s) = WorkId(r) => s = r
                     ELSE \E s \in ledger' : /\ WorkId(s) = WorkId(r)
                                             /\ r.phase = "needs-review" => s = r
                                             /\ s.phase = "accepted" => r.phase = "accepted"
    BY DEF Forward
  <2>1. CASE r.phase \notin Terminal
    BY <1>8, <2>1
  <2>2. ASSUME NEW s \in ledger', WorkId(s) = WorkId(r) PROVE s = r
    <3>1. s.key = r.key
      BY <1>13, <2>2, SameWork DEF LedgerInv
    <3>2. s \in ledger
      BY <1>7, <1>8, <1>9, <3>1
    <3> QED BY <3>1, <3>2 DEF LedgerInv, OneRecordPerSource
  <2> QED BY <2>1, <2>2
<1>16. ASSUME NEW s \in ledger', s.phase = "accepted"
       PROVE  s \in ledger \/ accepted[s.key] < s.times
  <2>1. CASE s \in made
    <3>1. s.times = accepted[s.key] + 1
      BY <1>7, <2>1
    <3> QED BY <1>4, <1>13, <3>1, RecordFields
  <2> QED BY <1>8, <2>1
<1>17. ASSUME NEW i \in items PROVE accepted'[i.key] > 0
  <2>1. CASE i \in new
    BY <1>2, <1>4, <1>7, <2>1
  <2>2. CASE i \notin new
    <3>1. PICK r \in ledger : r.key = i.key
      BY <2>2 DEF new, Known
    <3>2. r.times >= 1 /\ r.times <= accepted[r.key]
      BY RecordFields, BoundsAssumption DEF LedgerInv, TimesCounted
    <3> QED BY <1>2, <1>4, <1>5, <3>1, <3>2, RecordFields DEF LedgerInv
  <2> QED BY <2>1, <2>2
<1> QED BY <1>5, <1>6, <1>12, <1>13, <1>14, <1>15, <1>16, <1>17 DEF LedgerStep, LedgerInv

\* A step that moves the phase of the records of one workId, and may archive the
\* finished ones.
LEMMA MovesStep ==
  ASSUME LedgerInv, UNCHANGED accepted, NEW id,
         NEW P \in [Unresolved \cup Resolved -> Unresolved \cup Resolved],
         \A p \in Unresolved \cup Resolved :
           (p \in Resolved => P[p] = p) /\ (P[p] = "accepted" => p = "accepted"),
         \A s \in ledger' :
           \/ s \in ledger /\ WorkId(s) # id
           \/ \E r \in ledger : WorkId(r) = id /\ s = [r EXCEPT !.phase = P[r.phase]],
         \A r \in ledger :
           IF WorkId(r) = id THEN [r EXCEPT !.phase = P[r.phase]] \in ledger'
           ELSE r.phase \notin Terminal => r \in ledger'
  PROVE  LedgerStep
<1> DEFINE to(r) == [r EXCEPT !.phase = P[r.phase]]
<1>1. ASSUME NEW r \in ledger
      PROVE  /\ to(r) \in Record /\ to(r).key = r.key /\ to(r).times = r.times
             /\ WorkId(to(r)) = WorkId(r) /\ to(r).phase = P[r.phase]
             /\ r.phase \in Resolved => to(r) = r
  <2>1. r \in Record /\ r.phase \in Unresolved \cup Resolved
    BY RecordFields DEF LedgerInv
  <2>2. P[r.phase] \in Unresolved \cup Resolved /\ (r.phase \in Resolved => P[r.phase] = r.phase)
    BY <2>1
  <2> QED BY <2>1, <2>2, PhaseMoves DEF WorkId
<1>2. \A s \in ledger' : \/ s \in ledger /\ WorkId(s) # id
                         \/ \E r \in ledger : WorkId(r) = id /\ s = to(r)
  OBVIOUS
<1>3. \A r \in ledger : IF WorkId(r) = id THEN to(r) \in ledger'
                        ELSE r.phase \notin Terminal => r \in ledger'
  OBVIOUS
<1> HIDE DEF to
<1>4. ledger' \subseteq Record
  BY <1>1, <1>2 DEF LedgerInv
<1>5. ASSUME NEW r \in ledger', NEW s \in ledger', r.key = s.key PROVE r = s
  <2>1. PICK q \in ledger : q.key = r.key /\ (\/ r = q /\ WorkId(q) # id
                                              \/ WorkId(q) = id /\ r = to(q))
    BY <1>1, <1>2
  <2>2. PICK t \in ledger : t.key = s.key /\ (\/ s = t /\ WorkId(t) # id
                                              \/ WorkId(t) = id /\ s = to(t))
    BY <1>1, <1>2
  <2>3. q = t
    BY <1>5, <2>1, <2>2 DEF LedgerInv, OneRecordPerSource
  <2> QED BY <2>1, <2>2, <2>3
<1>6. OneRecordPerSource'
  BY <1>5 DEF OneRecordPerSource
<1>7. ASSUME NEW s \in ledger' PROVE s.times <= accepted'[s.key]
  BY <1>1, <1>2 DEF LedgerInv, TimesCounted
<1>8. ASSUME NEW r \in ledger
      PROVE  IF r.phase \in Terminal
             THEN \A s \in ledger' : WorkId(s) = WorkId(r) => s = r
             ELSE \E s \in ledger' : /\ WorkId(s) = WorkId(r)
                                     /\ r.phase = "needs-review" => s = r
                                     /\ s.phase = "accepted" => r.phase = "accepted"
  <2>1. r \in Record
    BY DEF LedgerInv
  <2>2. CASE r.phase \in Terminal
    <3> SUFFICES ASSUME NEW s \in ledger', WorkId(s) = WorkId(r) PROVE s = r
      BY <2>2
    <3>1. s.key = r.key
      BY <1>4, <2>1, SameWork
    <3>2. CASE s \in ledger
      BY <3>1, <3>2 DEF LedgerInv, OneRecordPerSource
    <3>3. ASSUME NEW q \in ledger, s = to(q) PROVE s = r
      <4>1. q = r
        BY <1>1, <3>1, <3>3 DEF LedgerInv, OneRecordPerSource
      <4> QED BY <1>1, <2>2, <3>3, <4>1 DEF Resolved
    <3> QED BY <1>2, <3>2, <3>3
  <2>3. CASE r.phase \notin Terminal /\ WorkId(r) = id
    <3>1. to(r) \in ledger' /\ WorkId(to(r)) = WorkId(r)
      BY <1>1, <1>3, <2>3
    <3>2. r.phase = "needs-review" => to(r) = r
      BY <1>1 DEF Resolved
    <3>3. to(r).phase = "accepted" => r.phase = "accepted"
      BY <1>1, <2>1, RecordFields
    <3> QED BY <2>3, <3>1, <3>2, <3>3
  <2>4. CASE r.phase \notin Terminal /\ WorkId(r) # id
    BY <1>3, <2>4
  <2> QED BY <2>2, <2>3, <2>4
<1>9. ASSUME NEW s \in ledger', s.phase = "accepted" PROVE s \in ledger
  <2>1. CASE s \in ledger
    BY <2>1
  <2>2. ASSUME NEW r \in ledger, s = to(r) PROVE s \in ledger
    <3>1. r \in Record /\ r.phase \in Unresolved \cup Resolved
      BY RecordFields DEF LedgerInv
    <3>2. P[r.phase] = "accepted" /\ r.phase = "accepted"
      BY <1>1, <1>9, <2>2, <3>1
    <3>3. [r EXCEPT !.phase = r.phase] = r
      BY <3>1, PhaseMoves
    <3>4. to(r) = [r EXCEPT !.phase = r.phase]
      BY <3>2 DEF to
    <3> QED BY <2>2, <3>3, <3>4
  <2> QED BY <1>2, <2>1, <2>2
<1>10. \A k \in Key : accepted[k] <= accepted'[k]
  BY BoundsAssumption DEF LedgerInv
<1> QED BY <1>4, <1>6, <1>7, <1>8, <1>9, <1>10 DEF LedgerStep, LedgerInv, TimesCounted, Forward

LEMMA ObserveStep ==
  ASSUME LedgerInv, NEW id, NEW kind \in Kinds \cup {"needs-review"}, Observe(id, kind)
  PROVE  LedgerStep
<1>1. CASE UNCHANGED <<ledger, accepted>>
  BY <1>1, LedgerStays
<1>2. CASE LET of == {r \in ledger : WorkId(r) = id}
               moved == {[r EXCEPT !.phase = Applied(@, kind)] : r \in of}
           IN ledger' \in Archived((ledger \ of) \cup moved, moved) /\ UNCHANGED accepted
  <2> DEFINE P == [p \in Unresolved \cup Resolved |-> Applied(p, kind)]
             of == {r \in ledger : WorkId(r) = id}
             moved == {[r EXCEPT !.phase = P[r.phase]] : r \in of}
  <2>1. kind \in {"runtime-accepted", "completed", "failed", "cancelled", "needs-review"}
    BY OutcomesAssumption
  <2>2. /\ P \in [Unresolved \cup Resolved -> Unresolved \cup Resolved]
        /\ \A p \in Unresolved \cup Resolved :
             (p \in Resolved => P[p] = p) /\ (P[p] = "accepted" => p = "accepted")
    BY <2>1, AppliedIsForward
  <2>3. \A r \in ledger : P[r.phase] = Applied(r.phase, kind)
    BY RecordFields DEF LedgerInv
  <2>4. {[r EXCEPT !.phase = Applied(@, kind)] : r \in of} = moved
    BY <2>3
  <2>5. ledger' \in Archived((ledger \ of) \cup moved, moved) /\ UNCHANGED accepted
    BY <1>2, <2>4
  <2> HIDE DEF P
  <2>6. /\ ledger' \subseteq (ledger \ of) \cup moved
        /\ \A r \in (ledger \ of) \cup moved : r \in moved \/ r.phase \notin Terminal => r \in ledger'
    BY <2>5, ArchivedKeeps
  <2>7. \A s \in ledger' :
          \/ s \in ledger /\ WorkId(s) # id
          \/ \E r \in ledger : WorkId(r) = id /\ s = [r EXCEPT !.phase = P[r.phase]]
    BY <2>6
  <2>8. \A r \in ledger :
          IF WorkId(r) = id THEN [r EXCEPT !.phase = P[r.phase]] \in ledger'
          ELSE r.phase \notin Terminal => r \in ledger'
    BY <2>6
  <2> QED BY <2>2, <2>5, <2>7, <2>8, MovesStep
<1> QED BY <1>1, <1>2 DEF Observe

LEMMA BeginDispatchStep ==
  ASSUME LedgerInv, NEW id, NEW ok \in BOOLEAN, BeginDispatch(id, ok), UNCHANGED accepted
  PROVE  /\ LedgerStep
         /\ ok => \A s \in ledger' : WorkId(s) = id => s.phase # "accepted"
<1> DEFINE P == [p \in Unresolved \cup Resolved |-> IF p = "accepted" THEN "dispatched" ELSE p]
           to(r) == [r EXCEPT !.phase = P[r.phase]]
<1>1. CASE ~ok
  BY <1>1, LedgerStays DEF BeginDispatch
<1>2. CASE ok
  <2>1. /\ P \in [Unresolved \cup Resolved -> Unresolved \cup Resolved]
        /\ \A p \in Unresolved \cup Resolved :
             (p \in Resolved => P[p] = p) /\ (P[p] = "accepted" => p = "accepted")
        /\ \A p \in Unresolved \cup Resolved : P[p] # "accepted"
    BY DEF Unresolved, Resolved, Terminal
  <2>2. ASSUME NEW r \in ledger
        PROVE  /\ r.phase = "accepted" => to(r) = [r EXCEPT !.phase = "dispatched"]
               /\ r.phase # "accepted" => to(r) = r
               /\ WorkId(to(r)) = WorkId(r) /\ to(r).phase # "accepted"
    <3>1. r \in Record /\ r.phase \in Unresolved \cup Resolved
      BY RecordFields DEF LedgerInv
    <3>2. P[r.phase] = IF r.phase = "accepted" THEN "dispatched" ELSE r.phase
      BY <3>1
    <3>3. P[r.phase] \in Unresolved \cup Resolved /\ P[r.phase] # "accepted"
      BY <2>1, <3>1
    <3> QED BY <3>1, <3>2, <3>3, PhaseMoves DEF WorkId
  <2>3. ledger' = {IF WorkId(r) = id /\ r.phase = "accepted"
                   THEN [r EXCEPT !.phase = "dispatched"] ELSE r : r \in ledger}
    BY <1>2 DEF BeginDispatch
  <2> HIDE DEF P, to
  <2>4. ledger' = {IF WorkId(r) = id THEN to(r) ELSE r : r \in ledger}
    BY <2>2, <2>3
  <2>5. \A s \in ledger' : \/ s \in ledger /\ WorkId(s) # id
                           \/ \E r \in ledger : WorkId(r) = id /\ s = to(r)
    BY <2>4
  <2>6. \A r \in ledger : IF WorkId(r) = id THEN to(r) \in ledger'
                          ELSE r.phase \notin Terminal => r \in ledger'
    BY <2>4
  <2>7. LedgerStep
    BY <2>1, <2>5, <2>6, MovesStep DEF to
  <2>8. ASSUME NEW s \in ledger', WorkId(s) = id PROVE s.phase # "accepted"
    BY <2>2, <2>5, <2>8
  <2> QED BY <2>7, <2>8
<1> QED BY <1>1, <1>2

-----------------------------------------------------------------------------
(* Sequences of messages *)

LEMMA RangeOf ==
  ASSUME NEW S, NEW q \in Seq(S)
  PROVE  Range(q) = {q[n] : n \in 1..Len(q)} /\ Range(q) \subseteq S
<1>1. DOMAIN q = 1..Len(q) /\ \A n \in 1..Len(q) : q[n] \in S
  BY LenProperties, ElementOfSeq
<1> QED BY <1>1 DEF Range

LEMMA RangeAppend ==
  ASSUME NEW S, NEW q \in Seq(S), NEW m \in S
  PROVE  Range(Append(q, m)) = Range(q) \cup {m}
<1>1. /\ Append(q, m) \in Seq(S) /\ Len(Append(q, m)) = Len(q) + 1
      /\ \A n \in 1..Len(q) : Append(q, m)[n] = q[n]
      /\ Append(q, m)[Len(q) + 1] = m
  BY AppendProperties
<1>2. Len(q) \in Nat
  BY LenProperties
<1>3. 1..(Len(q) + 1) = 1..Len(q) \cup {Len(q) + 1}
  BY <1>2
<1>4. Range(Append(q, m)) = {Append(q, m)[n] : n \in 1..(Len(q) + 1)}
  BY <1>1, RangeOf
<1>5. Range(q) = {q[n] : n \in 1..Len(q)}
  BY RangeOf
<1> QED BY <1>1, <1>3, <1>4, <1>5

\* What is left when the first n messages are gone.
LEMMA RestOf ==
  ASSUME NEW S, NEW q \in Seq(S), NEW n \in 0..Len(q)
  PROVE  LET rest == SubSeq(q, n + 1, Len(q))
         IN /\ rest \in Seq(S) /\ Len(rest) = Len(q) - n
            /\ \A k \in 1..Len(rest) : rest[k] = q[n + k]
            /\ Range(rest) = {q[k] : k \in (n + 1)..Len(q)}
<1> DEFINE rest == SubSeq(q, n + 1, Len(q))
<1>1. Len(q) \in Nat /\ n \in Nat /\ n <= Len(q)
  BY LenProperties
<1>2. \A k \in (n + 1)..Len(q) : q[k] \in S
  <2> SUFFICES ASSUME NEW k \in (n + 1)..Len(q) PROVE q[k] \in S
    OBVIOUS
  <2>1. k \in 1..Len(q)
    BY <1>1
  <2> QED BY <2>1, ElementOfSeq
<1>3. /\ rest \in Seq(S)
      /\ Len(rest) = IF n + 1 <= Len(q) THEN Len(q) - (n + 1) + 1 ELSE 0
      /\ \A k \in 1..(Len(q) - (n + 1) + 1) : rest[k] = q[(n + 1) + k - 1]
  BY <1>1, <1>2, SubSeqProperties
<1>4. Len(rest) = Len(q) - n
  BY <1>1, <1>3
<1>5. \A k \in 1..Len(rest) : rest[k] = q[n + k]
  BY <1>1, <1>3, <1>4
<1> HIDE DEF rest
<1>6. Range(rest) = {rest[k] : k \in 1..Len(rest)}
  BY <1>3, RangeOf
<1>7. {rest[k] : k \in 1..Len(rest)} = {q[k] : k \in (n + 1)..Len(q)}
  <2>1. ASSUME NEW k \in 1..Len(rest) PROVE rest[k] = q[n + k] /\ n + k \in (n + 1)..Len(q)
    BY <1>1, <1>4, <1>5
  <2>2. ASSUME NEW k \in (n + 1)..Len(q) PROVE k - n \in 1..Len(rest) /\ rest[k - n] = q[k]
    <3>1. k - n \in 1..Len(rest) /\ n + (k - n) = k
      BY <1>1, <1>4
    <3>2. rest[k - n] = q[n + (k - n)]
      BY <1>5, <3>1
    <3> QED BY <3>1, <3>2
  <2>3. {rest[k] : k \in 1..Len(rest)} \subseteq {q[k] : k \in (n + 1)..Len(q)}
    BY <2>1
  <2>4. {q[k] : k \in (n + 1)..Len(q)} \subseteq {rest[k] : k \in 1..Len(rest)}
    BY <2>2
  <2> QED BY <2>3, <2>4
<1> QED BY <1>3, <1>4, <1>5, <1>6, <1>7 DEF rest

LEMMA PrefixOf ==
  ASSUME NEW S, NEW q \in Seq(S), NEW n \in 0..Len(q)
  PROVE  /\ SubSeq(q, 1, n) \in Seq(S)
         /\ Range(SubSeq(q, 1, n)) = {q[k] : k \in 1..n}
<1> DEFINE first == SubSeq(q, 1, n)
<1>1. Len(q) \in Nat /\ n \in Nat /\ n <= Len(q)
  BY LenProperties
<1>2. \A k \in 1..n : q[k] \in S
  <2> SUFFICES ASSUME NEW k \in 1..n PROVE q[k] \in S
    OBVIOUS
  <2>1. k \in 1..Len(q)
    BY <1>1
  <2> QED BY <2>1, ElementOfSeq
<1>3. /\ first \in Seq(S) /\ Len(first) = IF 1 <= n THEN n - 1 + 1 ELSE 0
      /\ \A k \in 1..(n - 1 + 1) : first[k] = q[1 + k - 1]
  BY <1>1, <1>2, SubSeqProperties
<1>4. Len(first) = n /\ \A k \in 1..n : first[k] = q[k]
  BY <1>1, <1>3
<1> HIDE DEF first
<1>5. Range(first) = {first[k] : k \in 1..n}
  BY <1>3, <1>4, RangeOf
<1>6. Range(first) = {q[k] : k \in 1..n}
  BY <1>4, <1>5
<1> QED BY <1>3, <1>6 DEF first

\* The text that is injected has a type.
LEMMA BlockIsTyped ==
  ASSUME NEW q, NEW n \in Nat, q \in [1..n -> Items], NEW letters \in SUBSET Letters
  PROVE  Block(q, letters) \in Seq(Text) \X SUBSET Letters
<1>1. \A k \in 1..n : q[k].text \in Text
  BY DEF Text
<1>2. DOMAIN q = 1..n
  OBVIOUS
<1>3. [k \in DOMAIN q |-> q[k].text] \in [1..n -> Text]
  BY <1>1, <1>2
<1>4. [k \in DOMAIN q |-> q[k].text] \in Seq(Text)
  BY <1>3, SeqDef
<1> QED BY <1>4 DEF Block

-----------------------------------------------------------------------------
(* The inductive invariant *)

PollCycle ==
  [at : {"idle", "accepted", "written", "drained"}, prefix : 0..MaxQueue,
   letters : SUBSET Letters]

TransportInv ==
  /\ queue \in Seq(Messages) /\ saved \in Seq(Messages)
  /\ Len(queue) <= MaxQueue /\ Len(saved) <= MaxQueue
  /\ inbox \subseteq Letters /\ inflight \subseteq Letters
  /\ poll \in PollCycle
  /\ poll.prefix <= Len(queue) /\ poll.letters \subseteq inflight

\* What waits anywhere, or was dispatched, has arrived.
ArrivedInv ==
  /\ arrived \subseteq Items /\ delivered \subseteq arrived
  /\ Range(queue) \cup Range(saved) \cup inbox \cup inflight \subseteq arrived

\* A fire that was taken up has arrived and was accepted.
Taken == {"accepted", "intended", "written", "over"}
CronInv ==
  /\ fire \in [Fires -> Stage]
  /\ recorded \subseteq Fires
  /\ \A f \in Fires : fire[f] \in Taken => f \in arrived /\ accepted[f.key] > 0

RuntimeInv ==
  /\ running \in BOOLEAN
  /\ seen \subseteq Seq(Text) \X SUBSET Letters
  /\ timers \subseteq Key \X (1..MaxAccepted)
  /\ crashes \in 0..MaxCrashes /\ stops \in 0..MaxStops

\* The intent of a fire that is about to be written is in the ledger.
IntendedIsDurable ==
  \A f \in Fires : fire[f] = "intended" =>
    \A r \in ledger : WorkId(r) = IdOf(f) => r.phase # "accepted"

\* Nothing is submitted under a workId that is yet to be given away.
SubmittedInv ==
  /\ submitted \in [Key \X (1..MaxAccepted) -> 0..2]
  /\ \A k \in Key, n \in 1..MaxAccepted : submitted[<<k, n>>] > 0 => n <= accepted[k]
  /\ IntendedIsDurable
  /\ IntentBeforeWrite

IInv == LedgerInv /\ TransportInv /\ ArrivedInv /\ CronInv /\ RuntimeInv /\ SubmittedInv

LEMMA IInvType == IInv => TypeOK
BY DEF IInv, LedgerInv, TransportInv, ArrivedInv, CronInv, RuntimeInv, SubmittedInv, PollCycle,
   TypeOK, Stage

LEMMA ItemTypes ==
  /\ Messages \subseteq Items /\ Letters \subseteq Items /\ Fires \subseteq Items
  /\ \A i \in Items : i.key \in Key /\ i.text \in Text
BY DEF Items, Key, Text

\* A cron fire is no message and no letter.
LEMMA FiresAreNotSent == Fires \cap (Messages \cup Letters) = {}
BY ItemsAssumption

LEMMA IInvInit == Init => IInv
<1> SUFFICES ASSUME Init PROVE IInv
  OBVIOUS
<1>1. LedgerInv
  BY BoundsAssumption DEF Init, LedgerInv, OneRecordPerSource, TimesCounted
<1>2. <<>> \in Seq(Messages) /\ Len(<<>>) = 0
  BY EmptySeq
<1>3. Range(<<>>) = {}
  <2>1. DOMAIN <<>> = {}
    OBVIOUS
  <2> QED BY <2>1 DEF Range
<1>4. TransportInv
  BY <1>2, BoundsAssumption DEF Init, TransportInv, PollCycle, IdlePoll
<1>5. ArrivedInv
  BY <1>3 DEF Init, ArrivedInv
<1>6. CronInv
  BY DEF Init, CronInv, Stage, Taken
<1>7. RuntimeInv
  <2>1. crashes \in 0..MaxCrashes /\ stops \in 0..MaxStops
    BY BoundsAssumption DEF Init
  <2>2. running = FALSE /\ seen = {} /\ timers = {}
    BY DEF Init
  <2> QED BY <2>1, <2>2 DEF RuntimeInv
<1>8. SubmittedInv
  BY DEF Init, SubmittedInv, IntendedIsDurable, IntentBeforeWrite
<1> QED BY <1>1, <1>4, <1>5, <1>6, <1>7, <1>8 DEF IInv

\* The ledger moves by the operations of work-ledger.ts alone.
LEMMA LedgerNext ==
  ASSUME LedgerInv, TransportInv, [Next]_vars
  PROVE  LedgerStep
<1>1. CASE UNCHANGED <<ledger, accepted>>
  BY <1>1, LedgerStays
<1>2. CASE PollAccepts
  <2>1. PICK stale \in SUBSET inflight :
          LET items == Range(queue) \cup inbox \cup stale
          IN AcceptBatch(items) \/ RefuseBatch(items)
    BY <1>2 DEF PollAccepts
  <2> DEFINE items == Range(queue) \cup inbox \cup stale
  <2>2. items \in SUBSET Items
    BY RangeOf, ItemTypes DEF TransportInv
  <2> QED BY <2>1, <2>2, LedgerStays, AcceptBatchStep DEF RefuseBatch
<1>3. ASSUME NEW f \in Fires, FireAccepts(f) PROVE LedgerStep
  <2>1. AcceptBatch({f}) \/ RefuseBatch({f})
    BY <1>3 DEF FireAccepts
  <2> QED BY <2>1, ItemTypes, LedgerStays, AcceptBatchStep DEF RefuseBatch
<1>4. ASSUME NEW f \in Fires, FireIntends(f) PROVE LedgerStep
  <2>1. CASE UNCHANGED ledger
    BY <1>4, <2>1, LedgerStays DEF FireIntends
  <2>2. ASSUME NEW ok \in BOOLEAN, BeginDispatch(IdOf(f), ok) PROVE LedgerStep
    BY <1>4, <2>2, BeginDispatchStep DEF FireIntends
  <2> QED BY <1>4, <2>1, <2>2 DEF FireIntends
<1>5. ASSUME NEW id \in timers, ReviewFires(id) PROVE LedgerStep
  BY <1>5, ObserveStep DEF ReviewFires
<1>6. CASE RuntimeReports
  <2>1. PICK r \in ledger, kind \in Kinds : Observe(WorkId(r), kind)
    BY <1>6 DEF RuntimeReports
  <2> QED BY <2>1, ObserveStep
<1>7. CASE \/ \E m \in Messages : QueueMessage(m)
           \/ \E l \in Letters : SendLetter(l)
           \/ PollInjects \/ PollDrains \/ PollAcknowledges
           \/ \E f \in Fires : FireWrites(f) \/ FireSettles(f)
           \/ RuntimeStops \/ RuntimeStarts \/ DaemonCrashes \/ UNCHANGED vars
  BY <1>1, <1>7 DEF QueueMessage, SendLetter, PollInjects, PollDrains, PollAcknowledges,
     FireWrites, FireSettles, RuntimeStops, RuntimeStarts, DaemonCrashes, vars
<1> QED BY <1>2, <1>3, <1>4, <1>5, <1>6, <1>7 DEF Next, Turn, Poll

LEMMA SaveWrites ==
  ASSUME NEW q, Save(q)
  PROVE  /\ saved' = q \/ saved' = saved
         /\ SaveOutcomes = {TRUE} => saved' = q
<1>1. PICK ok \in SaveOutcomes : saved' = IF ok THEN q ELSE saved
  BY DEF Save
<1>2. ok = TRUE \/ ok = FALSE
  BY OutcomesAssumption
<1>3. CASE ok = TRUE
  BY <1>1, <1>3
<1>4. CASE ok = FALSE
  BY <1>1, <1>4
<1> QED BY <1>2, <1>3, <1>4

\* Steps that leave the transports and the poll cycle alone.
LEMMA TransportFrame ==
  ASSUME [Next]_vars
  PROVE  \/ UNCHANGED <<transport, poll>>
         \/ \E m \in Messages : QueueMessage(m)
         \/ \E l \in Letters : SendLetter(l)
         \/ Poll \/ DaemonCrashes
<1>1. ASSUME NEW f \in Fires,
             FireAccepts(f) \/ FireIntends(f) \/ FireWrites(f) \/ FireSettles(f)
      PROVE  UNCHANGED <<transport, poll>>
  BY <1>1 DEF FireAccepts, FireIntends, FireWrites, FireSettles
<1>2. ASSUME NEW id \in timers, ReviewFires(id) PROVE UNCHANGED <<transport, poll>>
  BY <1>2 DEF ReviewFires
<1>3. ASSUME RuntimeReports \/ RuntimeStops \/ RuntimeStarts \/ UNCHANGED vars
      PROVE  UNCHANGED <<transport, poll>>
  BY <1>3 DEF RuntimeReports, RuntimeStops, RuntimeStarts, vars, transport
<1> QED BY <1>1, <1>2, <1>3 DEF Next, Turn

LEMMA IdlePollIsTyped ==
  /\ IdlePoll \in PollCycle /\ IdlePoll.prefix = 0 /\ IdlePoll.letters = {}
  /\ IdlePoll.at = "idle"
BY BoundsAssumption DEF IdlePoll, PollCycle

LEMMA PollMoves ==
  ASSUME NEW p \in PollCycle, NEW at \in {"idle", "accepted", "written", "drained"}
  PROVE  /\ [p EXCEPT !.at = at] \in PollCycle
         /\ [p EXCEPT !.at = at].at = at /\ [p EXCEPT !.at = at].prefix = p.prefix
         /\ [p EXCEPT !.at = at].letters = p.letters
BY DEF PollCycle

LEMMA PollEmpties ==
  ASSUME NEW p \in PollCycle
  PROVE  LET drained == [p EXCEPT !.at = "drained", !.prefix = 0]
         IN /\ drained \in PollCycle /\ drained.at = "drained" /\ drained.prefix = 0
            /\ drained.letters = p.letters
<1>1. 0 \in 0..MaxQueue
  BY BoundsAssumption
<1> QED BY <1>1 DEF PollCycle

LEMMA PollFields ==
  ASSUME TransportInv
  PROVE  /\ poll.at \in {"idle", "accepted", "written", "drained"}
         /\ poll.prefix \in 0..Len(queue) /\ poll.letters \in SUBSET Letters
         /\ Len(queue) \in 0..MaxQueue
<1>1. Len(queue) \in Nat
  BY LenProperties DEF TransportInv
<1>2. poll.at \in {"idle", "accepted", "written", "drained"} /\ poll.letters \in SUBSET Letters
      /\ poll.prefix \in 0..MaxQueue
  BY DEF TransportInv, PollCycle
<1> QED BY <1>1, <1>2, BoundsAssumption DEF TransportInv

\* One poll cycle takes what it accepted from the front of the queue.
LEMMA PollKeepsTransport ==
  ASSUME TransportInv, Poll
  PROVE  TransportInv'
<1>0. /\ poll.prefix \in 0..Len(queue) /\ Len(queue) \in 0..MaxQueue
      /\ poll.letters \in SUBSET Letters
  BY PollFields
<1>1. CASE PollAccepts
  <2>1. PICK letters \in SUBSET (inbox \cup inflight) :
          \/ poll' = [at |-> "accepted", prefix |-> Len(queue), letters |-> letters]
          \/ poll' = poll
    BY <1>1 DEF PollAccepts
  <2>2. inbox' = {} /\ inflight' = inflight \cup inbox /\ UNCHANGED <<queue, saved>>
    BY <1>1 DEF PollAccepts, Moved
  <2>3. [at |-> "accepted", prefix |-> Len(queue), letters |-> letters] \in PollCycle
    BY <1>0 DEF PollCycle, TransportInv
  <2>4. poll' \in PollCycle /\ poll'.prefix <= Len(queue) /\ poll'.letters \subseteq inflight'
    <3>1. CASE poll' = [at |-> "accepted", prefix |-> Len(queue), letters |-> letters]
      BY <1>0, <2>2, <2>3, <3>1, BoundsAssumption
    <3>2. CASE poll' = poll
      BY <2>2, <3>2 DEF TransportInv
    <3> QED BY <2>1, <3>1, <3>2
  <2> QED BY <2>2, <2>4 DEF TransportInv
<1>2. CASE PollInjects
  <2>1. UNCHANGED transport /\ poll' \in {[poll EXCEPT !.at = "written"], IdlePoll}
    BY <1>2 DEF PollInjects
  <2>2. poll' \in PollCycle /\ poll'.prefix \in {poll.prefix, 0}
        /\ poll'.letters \subseteq poll.letters
    <3>1. CASE poll' = IdlePoll
      BY <3>1, IdlePollIsTyped
    <3>2. CASE poll' = [poll EXCEPT !.at = "written"]
      <4>1. poll \in PollCycle /\ 0 \in 0..MaxQueue
        BY BoundsAssumption DEF TransportInv
      <4> QED BY <3>2, <4>1, PollMoves
    <3> QED BY <2>1, <3>1, <3>2
  <2>3. poll'.prefix <= Len(queue)
    BY <1>0, <2>2, BoundsAssumption
  <2> QED BY <2>1, <2>2, <2>3 DEF TransportInv, transport
<1>3. CASE PollDrains
  <2> DEFINE rest == SubSeq(queue, poll.prefix + 1, Len(queue))
  <2>1. /\ queue' = rest /\ (saved' = rest \/ saved' = saved)
        /\ poll' = [poll EXCEPT !.at = "drained", !.prefix = 0]
        /\ UNCHANGED <<inbox, inflight>>
    BY <1>3, SaveWrites DEF PollDrains, Remaining
  <2>2. rest \in Seq(Messages) /\ Len(rest) = Len(queue) - poll.prefix
    BY <1>0, RestOf DEF TransportInv
  <2> HIDE DEF rest
  <2>3. Len(rest) \in 0..MaxQueue
    BY <1>0, <2>2, BoundsAssumption
  <2>4. poll' \in PollCycle /\ poll'.prefix = 0 /\ poll'.letters = poll.letters
    <3>1. poll \in PollCycle
      BY DEF TransportInv
    <3> DEFINE drained == [poll EXCEPT !.at = "drained", !.prefix = 0]
    <3>2. drained \in PollCycle /\ drained.prefix = 0 /\ drained.letters = poll.letters
      BY <3>1, PollEmpties
    <3>3. poll' = drained
      BY <2>1
    <3> HIDE DEF drained
    <3> QED BY <3>2, <3>3
  <2>5. Len(rest) <= MaxQueue /\ 0 <= Len(rest)
    BY <2>3, BoundsAssumption
  <2>6. queue' \in Seq(Messages) /\ Len(queue') <= MaxQueue /\ poll'.prefix <= Len(queue')
    BY <2>1, <2>2, <2>4, <2>5
  <2>7. saved' \in Seq(Messages) /\ Len(saved') <= MaxQueue
    BY <2>1, <2>2, <2>5 DEF TransportInv
  <2> QED BY <2>1, <2>4, <2>6, <2>7 DEF TransportInv
<1>4. CASE PollAcknowledges
  <2>1. PICK acked \in SUBSET poll.letters : inflight' = inflight \ acked
    BY <1>4 DEF PollAcknowledges
  <2>2. poll' = IdlePoll /\ UNCHANGED <<queue, saved, inbox>>
    BY <1>4 DEF PollAcknowledges
  <2> QED BY <1>0, <2>1, <2>2, IdlePollIsTyped, BoundsAssumption DEF TransportInv
<1> QED BY <1>1, <1>2, <1>3, <1>4 DEF Poll

LEMMA TransportNext ==
  ASSUME TransportInv, [Next]_vars
  PROVE  TransportInv'
<1>0. /\ poll.prefix \in 0..Len(queue) /\ Len(queue) \in 0..MaxQueue
  BY PollFields
<1>1. CASE UNCHANGED <<transport, poll>>
  BY <1>1 DEF TransportInv, transport
<1>2. ASSUME NEW m \in Messages, QueueMessage(m) PROVE TransportInv'
  <2>1. /\ queue' = Append(queue, m) /\ Len(queue) < MaxQueue
        /\ saved' = Append(queue, m) \/ saved' = saved
        /\ UNCHANGED <<inbox, inflight, poll>>
    BY <1>2, SaveWrites DEF QueueMessage
  <2>2. Append(queue, m) \in Seq(Messages) /\ Len(Append(queue, m)) = Len(queue) + 1
    BY AppendProperties DEF TransportInv
  <2>3. Len(Append(queue, m)) <= MaxQueue /\ poll.prefix <= Len(Append(queue, m))
    BY <1>0, <2>1, <2>2, BoundsAssumption
  <2> QED BY <2>1, <2>2, <2>3 DEF TransportInv
<1>3. ASSUME NEW l \in Letters, SendLetter(l) PROVE TransportInv'
  BY <1>3 DEF SendLetter, TransportInv
<1>4. CASE DaemonCrashes
  <2>1. queue' = saved /\ poll' = IdlePoll /\ UNCHANGED <<saved, inbox, inflight>>
    BY <1>4 DEF DaemonCrashes
  <2>2. 0 <= Len(saved)
    BY LenProperties DEF TransportInv
  <2> QED BY <2>1, <2>2, IdlePollIsTyped DEF TransportInv
<1> QED BY <1>1, <1>2, <1>3, <1>4, PollKeepsTransport, TransportFrame

\* Which steps add to what has arrived or was delivered.
LEMMA ArrivedFrame ==
  ASSUME [Next]_vars
  PROVE  \/ UNCHANGED <<arrived, delivered>>
         \/ \E m \in Messages : QueueMessage(m)
         \/ \E l \in Letters : SendLetter(l)
         \/ PollInjects
         \/ \E f \in Fires : FireAccepts(f) \/ FireWrites(f)
<1>1. ASSUME NEW f \in Fires, FireIntends(f) \/ FireSettles(f)
      PROVE  UNCHANGED <<arrived, delivered>>
  BY <1>1 DEF FireIntends, FireSettles, history
<1>2. ASSUME NEW id \in timers, ReviewFires(id) PROVE UNCHANGED <<arrived, delivered>>
  BY <1>2 DEF ReviewFires, history
<1>3. ASSUME PollAccepts \/ PollDrains \/ PollAcknowledges PROVE UNCHANGED <<arrived, delivered>>
  BY <1>3 DEF PollAccepts, PollDrains, PollAcknowledges, history
<1>4. ASSUME RuntimeReports \/ RuntimeStops \/ RuntimeStarts \/ DaemonCrashes \/ UNCHANGED vars
      PROVE  UNCHANGED <<arrived, delivered>>
  BY <1>4 DEF RuntimeReports, RuntimeStops, RuntimeStarts, DaemonCrashes, vars, history
<1> QED BY <1>1, <1>2, <1>3, <1>4 DEF Next, Turn, Poll

\* What waits in a transport after a step waited there before, or has arrived now.
LEMMA TransportFlows ==
  ASSUME TransportInv, [Next]_vars
  PROVE  /\ Range(queue') \subseteq Range(queue) \cup Range(saved) \cup arrived'
         /\ Range(saved') \subseteq Range(queue) \cup Range(saved) \cup arrived'
         /\ inbox' \subseteq inbox \cup arrived' /\ inflight' \subseteq inflight \cup inbox
<1>1. CASE UNCHANGED <<transport, poll>>
  BY <1>1 DEF transport
<1>2. ASSUME NEW m \in Messages, QueueMessage(m)
      PROVE  /\ Range(queue') \subseteq Range(queue) \cup arrived'
             /\ Range(saved') \subseteq Range(queue) \cup Range(saved) \cup arrived'
             /\ UNCHANGED <<inbox, inflight>>
  <2>1. /\ queue' = Append(queue, m) /\ m \in arrived'
        /\ saved' = Append(queue, m) \/ saved' = saved
        /\ UNCHANGED <<inbox, inflight>>
    BY <1>2, SaveWrites DEF QueueMessage
  <2>2. Range(Append(queue, m)) = Range(queue) \cup {m}
    BY RangeAppend DEF TransportInv
  <2> QED BY <2>1, <2>2
<1>3. ASSUME NEW l \in Letters, SendLetter(l)
      PROVE  UNCHANGED <<queue, saved, inflight>> /\ inbox' \subseteq inbox \cup arrived'
  BY <1>3 DEF SendLetter
<1>4. ASSUME PollAccepts \/ PollInjects \/ PollAcknowledges
      PROVE  /\ UNCHANGED <<queue, saved>>
             /\ inbox' \subseteq inbox /\ inflight' \subseteq inflight \cup inbox
  BY <1>4 DEF PollAccepts, PollInjects, PollAcknowledges, Moved, transport
<1>5. ASSUME PollDrains
      PROVE  /\ Range(queue') \subseteq Range(queue)
             /\ Range(saved') \subseteq Range(queue) \cup Range(saved)
             /\ UNCHANGED <<inbox, inflight>>
  <2> DEFINE rest == SubSeq(queue, poll.prefix + 1, Len(queue))
  <2>1. queue' = rest /\ (saved' = rest \/ saved' = saved) /\ UNCHANGED <<inbox, inflight>>
    BY <1>5, SaveWrites DEF PollDrains, Remaining
  <2>2. poll.prefix \in 0..Len(queue) /\ Len(queue) \in Nat
    BY PollFields, BoundsAssumption
  <2>3. Range(rest) = {queue[k] : k \in (poll.prefix + 1)..Len(queue)}
    BY <2>2, RestOf DEF TransportInv
  <2>4. Range(queue) = {queue[k] : k \in 1..Len(queue)}
    BY RangeOf DEF TransportInv
  <2>5. (poll.prefix + 1)..Len(queue) \subseteq 1..Len(queue)
    BY <2>2
  <2> HIDE DEF rest
  <2>6. Range(rest) \subseteq Range(queue)
    BY <2>3, <2>4, <2>5
  <2> QED BY <2>1, <2>6
<1>6. ASSUME DaemonCrashes
      PROVE  queue' = saved /\ UNCHANGED <<saved, inbox, inflight>>
  BY <1>6 DEF DaemonCrashes
<1> QED BY <1>1, <1>2, <1>3, <1>4, <1>5, <1>6, TransportFrame DEF Poll

LEMMA ArrivedNext ==
  ASSUME TransportInv, ArrivedInv, CronInv, [Next]_vars
  PROVE  ArrivedInv'
<1>1. arrived \subseteq arrived' /\ arrived' \subseteq Items
  <2>1. ASSUME NEW m \in Messages, QueueMessage(m) PROVE arrived' = arrived \cup {m}
    BY <2>1 DEF QueueMessage
  <2>2. ASSUME NEW l \in Letters, SendLetter(l) PROVE arrived' = arrived \cup {l}
    BY <2>2 DEF SendLetter
  <2>3. ASSUME NEW f \in Fires, FireAccepts(f) PROVE arrived' = arrived \cup {f}
    BY <2>3 DEF FireAccepts
  <2>4. ASSUME NEW f \in Fires, FireWrites(f) PROVE arrived' = arrived
    BY <2>4 DEF FireWrites
  <2>5. PollInjects => arrived' = arrived
    BY DEF PollInjects
  <2> QED BY <2>1, <2>2, <2>3, <2>4, <2>5, ArrivedFrame, ItemTypes DEF ArrivedInv
<1>2. delivered' \subseteq arrived'
  <2>1. ASSUME (\E m \in Messages : QueueMessage(m)) \/ (\E l \in Letters : SendLetter(l))
               \/ (\E f \in Fires : FireAccepts(f))
        PROVE  delivered' = delivered
    BY <2>1 DEF QueueMessage, SendLetter, FireAccepts
  <2>2. ASSUME NEW f \in Fires, FireWrites(f)
        PROVE  delivered' \subseteq delivered \cup {f} /\ f \in arrived
    BY <2>2 DEF FireWrites, CronInv, Taken
  <2>3. ASSUME PollInjects PROVE delivered' \subseteq delivered \cup Range(queue) \cup inflight
    <3>1. delivered' \subseteq delivered \cup Range(Prefix) \cup poll.letters
      BY <2>3 DEF PollInjects, Inject
    <3>2. poll.prefix \in 0..Len(queue) /\ Len(queue) \in Nat
      BY PollFields, BoundsAssumption
    <3>3. Range(Prefix) = {queue[k] : k \in 1..poll.prefix}
      BY <3>2, PrefixOf DEF TransportInv, Prefix
    <3>4. Range(queue) = {queue[k] : k \in 1..Len(queue)}
      BY RangeOf DEF TransportInv
    <3>5. 1..poll.prefix \subseteq 1..Len(queue)
      BY <3>2
    <3>6. Range(Prefix) \subseteq Range(queue)
      BY <3>3, <3>4, <3>5
    <3> QED BY <3>1, <3>6 DEF TransportInv
  <2> QED BY <1>1, <2>1, <2>2, <2>3, ArrivedFrame DEF ArrivedInv
<1> QED BY <1>1, <1>2, TransportFlows DEF ArrivedInv

LEMMA CronNext ==
  ASSUME LedgerInv, TransportInv, CronInv, LedgerStep, [Next]_vars
  PROVE  CronInv'
<1>0. \A f \in Fires : f.key \in Key
  BY ItemTypes
<1>1. ASSUME UNCHANGED cron, arrived \subseteq arrived' PROVE CronInv'
  <2>1. ASSUME NEW f \in Fires, accepted[f.key] > 0 PROVE accepted'[f.key] > 0
    <3>1. /\ accepted[f.key] \in 0..MaxAccepted /\ accepted'[f.key] \in 0..MaxAccepted
          /\ accepted[f.key] <= accepted'[f.key]
      BY <1>0 DEF LedgerInv, LedgerStep
    <3> QED BY <2>1, <3>1, BoundsAssumption
  <2> QED BY <1>1, <2>1 DEF CronInv, cron
\* A fire that takes another place goes on alone, and the others stay.
<1>2. ASSUME NEW f \in Fires, NEW at \in Stage,
             fire' = [fire EXCEPT ![f] = at], arrived \subseteq arrived',
             recorded' \in {recorded, recorded \cup {f}},
             at \in Taken => f \in arrived' /\ accepted'[f.key] > 0
      PROVE  CronInv'
  <2>1. fire' \in [Fires -> Stage] /\ recorded' \subseteq Fires
    BY <1>2 DEF CronInv
  <2>2. ASSUME NEW g \in Fires, fire'[g] \in Taken
        PROVE  g \in arrived' /\ accepted'[g.key] > 0
    <3>1. CASE g = f
      BY <1>2, <2>2, <3>1 DEF CronInv
    <3>2. CASE g # f
      <4>1. fire[g] \in Taken
        BY <1>2, <2>2, <3>2 DEF CronInv
      <4>2. /\ accepted[g.key] \in 0..MaxAccepted /\ accepted'[g.key] \in 0..MaxAccepted
            /\ accepted[g.key] <= accepted'[g.key]
        BY <1>0 DEF LedgerInv, LedgerStep
      <4> QED BY <1>2, <4>1, <4>2, BoundsAssumption DEF CronInv
    <3> QED BY <3>1, <3>2
  <2> QED BY <2>1, <2>2 DEF CronInv
<1>0a. {"accepted", "intended", "written", "refused", "over", "failed"} \subseteq Stage
  BY DEF Stage
<1>3. ASSUME NEW f \in Fires, FireAccepts(f) PROVE CronInv'
  <2>1. arrived' = arrived \cup {f} /\ recorded' = recorded
    BY <1>3 DEF FireAccepts
  <2>2. CASE AcceptBatch({f}) /\ fire' = [fire EXCEPT ![f] = "accepted"]
    <3>1. accepted'[f.key] > 0
      BY <2>2, ItemTypes, AcceptBatchStep
    <3> QED BY <1>0a, <1>2, <2>1, <2>2, <3>1
  <2>3. CASE fire' = [fire EXCEPT ![f] = "refused"]
    BY <1>0a, <1>2, <2>1, <2>3 DEF Taken
  <2> QED BY <1>3, <2>2, <2>3 DEF FireAccepts
<1>4. ASSUME NEW f \in Fires, FireIntends(f) \/ FireWrites(f) \/ FireSettles(f)
      PROVE  CronInv'
  <2>1. PICK at \in {"refused", "intended", "written", "over", "failed"} :
          /\ fire' = [fire EXCEPT ![f] = at]
          /\ at \in Taken => fire[f] \in Taken
    <3>1. CASE FireIntends(f)
      BY <3>1 DEF FireIntends, AfterIntent, Taken
    <3>2. CASE FireWrites(f)
      BY <3>2 DEF FireWrites, Taken
    <3>3. CASE FireSettles(f)
      BY <3>3 DEF FireSettles, Taken
    <3> QED BY <1>4, <3>1, <3>2, <3>3
  <2>2. accepted' = accepted /\ arrived' = arrived /\ recorded' \in {recorded, recorded \cup {f}}
    BY <1>4 DEF FireIntends, FireWrites, FireSettles, history
  <2>3. at \in Taken => f \in arrived' /\ accepted'[f.key] > 0
    BY <2>1, <2>2 DEF CronInv
  <2> QED BY <1>0a, <1>2, <2>1, <2>2, <2>3
<1>6. CASE DaemonCrashes
  <2>1. /\ fire' = [f \in Fires |-> IF f \in recorded THEN fire[f] ELSE "due"]
        /\ recorded' = recorded /\ accepted' = accepted /\ arrived' = arrived
    BY <1>6 DEF DaemonCrashes, history
  <2>2. fire' \in [Fires -> Stage]
    BY <2>1 DEF CronInv, Stage
  <2>3. \A f \in Fires : fire'[f] \in Taken => fire[f] \in Taken
    BY <2>1 DEF Taken
  <2> QED BY <2>1, <2>2, <2>3 DEF CronInv
<1>7. CASE \/ \E m \in Messages : QueueMessage(m)
           \/ \E l \in Letters : SendLetter(l)
           \/ PollAccepts \/ PollInjects \/ PollDrains \/ PollAcknowledges
           \/ \E id \in timers : ReviewFires(id)
           \/ RuntimeReports \/ RuntimeStops \/ RuntimeStarts \/ UNCHANGED vars
  <2>1. UNCHANGED cron /\ arrived \subseteq arrived'
    BY <1>7 DEF QueueMessage, SendLetter, PollAccepts, PollInjects, PollDrains, PollAcknowledges,
       ReviewFires, RuntimeReports, RuntimeStops, RuntimeStarts, vars, history, cron
  <2> QED BY <1>1, <2>1
<1> QED BY <1>3, <1>4, <1>6, <1>7 DEF Next, Turn, Poll

LEMMA RuntimeNext ==
  ASSUME LedgerInv, TransportInv, CronInv, RuntimeInv, [Next]_vars
  PROVE  RuntimeInv'
<1>1. running' \in BOOLEAN
  <2>1. running' \in {running, TRUE, FALSE}
    BY DEF Next, Turn, Poll, QueueMessage, SendLetter, PollAccepts, PollInjects, PollDrains,
       PollAcknowledges, FireAccepts, FireIntends, FireWrites, FireSettles, ReviewFires, RuntimeReports,
       RuntimeStops, RuntimeStarts, DaemonCrashes, vars, runtime
  <2> QED BY <2>1 DEF RuntimeInv
<1>2. crashes' \in 0..MaxCrashes /\ stops' \in 0..MaxStops
  <2>1. \/ UNCHANGED bounds
        \/ crashes < MaxCrashes /\ crashes' = crashes + 1 /\ stops' = stops
        \/ stops < MaxStops /\ stops' = stops + 1 /\ crashes' = crashes
    BY DEF Next, Turn, Poll, QueueMessage, SendLetter, PollAccepts, PollInjects, PollDrains,
       PollAcknowledges, FireAccepts, FireIntends, FireWrites, FireSettles, ReviewFires, RuntimeReports,
       RuntimeStops, RuntimeStarts, DaemonCrashes, vars, bounds
  <2> QED BY <2>1, BoundsAssumption DEF RuntimeInv, bounds
<1>3. ASSUME NEW f \in Fires, FireIntends(f) \/ FireWrites(f)
      PROVE  /\ seen' \subseteq Seq(Text) \X SUBSET Letters
             /\ timers' \subseteq Key \X (1..MaxAccepted)
  <2>1. Block(<<f>>, {}) \in Seq(Text) \X SUBSET Letters
    <3>1. <<f>> \in [1..1 -> Items]
      BY ItemTypes
    <3> QED BY <3>1, BlockIsTyped
  <2>2. seen' \subseteq seen \cup {Block(<<f>>, {})}
    BY <1>3 DEF FireIntends, FireWrites
  <2>3. accepted[f.key] \in 1..MaxAccepted
    <3>1. accepted[f.key] \in 0..MaxAccepted /\ accepted[f.key] > 0
      BY <1>3, ItemTypes DEF FireIntends, FireWrites, CronInv, Taken, LedgerInv
    <3> QED BY <3>1, BoundsAssumption
  <2>4. timers' \subseteq timers \cup {IdOf(f)}
    BY <1>3 DEF FireIntends, FireWrites, Scheduled
  <2>5. IdOf(f) \in Key \X (1..MaxAccepted)
    BY <2>3, ItemTypes DEF IdOf
  <2> QED BY <2>1, <2>2, <2>4, <2>5 DEF RuntimeInv
<1>4. CASE PollInjects
  <2>1. seen' \subseteq seen \cup {Block(Prefix, poll.letters)} /\ timers' = timers
    BY <1>4 DEF PollInjects, Inject
  <2>2. /\ poll.prefix \in 0..Len(queue) /\ Len(queue) \in Nat
        /\ poll.letters \in SUBSET Letters
    BY PollFields, BoundsAssumption
  <2>3. Prefix \in Seq(Messages)
    BY <2>2, PrefixOf DEF Prefix, TransportInv
  <2>4. Len(Prefix) \in Nat /\ Prefix \in [1..Len(Prefix) -> Messages]
    BY <2>3, LenProperties
  <2>5. Prefix \in [1..Len(Prefix) -> Items]
    BY <2>4, ItemTypes
  <2>6. Block(Prefix, poll.letters) \in Seq(Text) \X SUBSET Letters
    BY <2>2, <2>4, <2>5, BlockIsTyped
  <2> QED BY <1>1, <1>2, <2>1, <2>6 DEF RuntimeInv
<1>5. ASSUME NEW id \in timers, ReviewFires(id) PROVE seen' = seen /\ timers' \subseteq timers
  BY <1>5 DEF ReviewFires
<1>6. CASE \/ \E m \in Messages : QueueMessage(m)
           \/ \E l \in Letters : SendLetter(l)
           \/ PollAccepts \/ PollDrains \/ PollAcknowledges
           \/ \E f \in Fires : FireAccepts(f) \/ FireSettles(f)
           \/ RuntimeReports \/ RuntimeStops \/ RuntimeStarts \/ UNCHANGED vars
  <2>1. seen' = seen /\ timers' = timers
    BY <1>6 DEF QueueMessage, SendLetter, PollAccepts, PollDrains, PollAcknowledges, FireAccepts,
       FireSettles, RuntimeReports, RuntimeStops, RuntimeStarts, vars, runtime
  <2> QED BY <1>1, <1>2, <2>1 DEF RuntimeInv
<1>7. CASE DaemonCrashes
  <2>1. seen' = {} /\ timers' = {}
    BY <1>7 DEF DaemonCrashes
  <2> QED BY <1>1, <1>2, <2>1 DEF RuntimeInv
<1>8. ASSUME NEW f \in Fires, FireIntends(f) \/ FireWrites(f) PROVE RuntimeInv'
  BY <1>1, <1>2, <1>3, <1>8 DEF RuntimeInv
<1>9. ASSUME NEW id \in timers, ReviewFires(id) PROVE RuntimeInv'
  BY <1>1, <1>2, <1>5, <1>9 DEF RuntimeInv
<1> QED BY <1>4, <1>6, <1>7, <1>8, <1>9 DEF Next, Turn, Poll

\* Only its own dispatch, and a crash, move a fire.
LEMMA FireMoves ==
  ASSUME CronInv, [Next]_vars, NEW f \in Fires
  PROVE  \/ fire'[f] = fire[f] \/ fire'[f] = "due"
         \/ FireAccepts(f) \/ FireIntends(f) \/ FireWrites(f) \/ FireSettles(f)
<1>1. ASSUME NEW g \in Fires \ {f}, NEW at, fire' = [fire EXCEPT ![g] = at]
      PROVE  fire'[f] = fire[f]
  BY <1>1 DEF CronInv
<1>2. ASSUME NEW g \in Fires \ {f},
             FireAccepts(g) \/ FireIntends(g) \/ FireWrites(g) \/ FireSettles(g)
      PROVE  fire'[f] = fire[f]
  <2>1. \E at : fire' = [fire EXCEPT ![g] = at]
    BY <1>2 DEF FireAccepts, FireIntends, FireWrites, FireSettles
  <2> QED BY <1>1, <2>1
<1>3. CASE DaemonCrashes
  BY <1>3 DEF DaemonCrashes
<1>4. CASE \/ \E m \in Messages : QueueMessage(m)
           \/ \E l \in Letters : SendLetter(l)
           \/ PollAccepts \/ PollInjects \/ PollDrains \/ PollAcknowledges
           \/ \E id \in timers : ReviewFires(id)
           \/ RuntimeReports \/ RuntimeStops \/ RuntimeStarts \/ UNCHANGED vars
  BY <1>4 DEF QueueMessage, SendLetter, PollAccepts, PollInjects, PollDrains, PollAcknowledges,
     ReviewFires, RuntimeReports, RuntimeStops, RuntimeStarts, vars, cron
<1> QED BY <1>2, <1>3, <1>4 DEF Next, Turn, Poll

\* A fire's key is its own: no other item is accepted under it.
LEMMA FireKeyIsOwn ==
  ASSUME LedgerInv, TransportInv, [Next]_vars, NEW f \in Fires
  PROVE  accepted'[f.key] = accepted[f.key] \/ FireAccepts(f)
<1>0. f.key \in Key
  BY ItemTypes
<1>1. ASSUME NEW items \in SUBSET Items, AcceptBatch(items), \A i \in items : i.key # f.key
      PROVE  accepted'[f.key] = accepted[f.key]
  BY <1>0, <1>1 DEF AcceptBatch
<1>2. CASE PollAccepts
  <2>1. PICK stale \in SUBSET inflight :
          LET items == Range(queue) \cup inbox \cup stale
          IN AcceptBatch(items) \/ RefuseBatch(items)
    BY <1>2 DEF PollAccepts
  <2> DEFINE items == Range(queue) \cup inbox \cup stale
  <2>2. items \subseteq Messages \cup Letters
    BY RangeOf DEF TransportInv
  <2>3. \A i \in items : i.key # f.key
    BY <2>2, FiresAreNotSent, ItemsAssumption
  <2>4. items \in SUBSET Items
    BY <2>2, ItemTypes
  <2> QED BY <1>1, <2>1, <2>3, <2>4 DEF RefuseBatch
<1>3. ASSUME NEW g \in Fires \ {f}, FireAccepts(g) PROVE accepted'[f.key] = accepted[f.key]
  <2>1. g.key # f.key
    BY ItemsAssumption
  <2>2. AcceptBatch({g}) \/ RefuseBatch({g})
    BY <1>3 DEF FireAccepts
  <2> QED BY <1>1, <2>1, <2>2, ItemTypes DEF RefuseBatch
<1>4. ASSUME NEW id, NEW kind, Observe(id, kind) PROVE accepted' = accepted
  BY <1>4 DEF Observe
<1>5. CASE \/ \E m \in Messages : QueueMessage(m)
           \/ \E l \in Letters : SendLetter(l)
           \/ PollInjects \/ PollDrains \/ PollAcknowledges
           \/ \E g \in Fires : FireIntends(g) \/ FireWrites(g) \/ FireSettles(g)
           \/ \E id \in timers : ReviewFires(id)
           \/ RuntimeReports \/ RuntimeStops \/ RuntimeStarts \/ DaemonCrashes \/ UNCHANGED vars
  <2>1. accepted' = accepted
    BY <1>4, <1>5 DEF QueueMessage, SendLetter, PollInjects, PollDrains, PollAcknowledges,
       FireIntends, FireWrites, FireSettles, ReviewFires, RuntimeReports, RuntimeStops,
       RuntimeStarts, DaemonCrashes, vars
  <2> QED BY <2>1
<1> QED BY <1>2, <1>3, <1>5 DEF Next, Turn, Poll

\* An intent stays durable until the write, and a fire that begins to be written
\* has one.
LEMMA IntendedNext ==
  ASSUME LedgerInv, TransportInv, CronInv, SubmittedInv, LedgerStep, [Next]_vars
  PROVE  IntendedIsDurable'
<1> SUFFICES ASSUME NEW f \in Fires, fire'[f] = "intended",
                    NEW s \in ledger', WorkId(s) = <<f.key, accepted'[f.key]>>
             PROVE  s.phase # "accepted"
  BY DEF IntendedIsDurable, IdOf, WorkId
<1>1. CASE FireIntends(f)
  <2>1. accepted' = accepted
    BY <1>1 DEF FireIntends
  <2>2. BeginDispatch(IdOf(f), TRUE)
    <3>1. ASSUME fire' = [fire EXCEPT ![f] = "refused"] PROVE FALSE
      BY <3>1 DEF CronInv
    <3>2. PICK ok \in BOOLEAN :
            BeginDispatch(IdOf(f), ok) /\ fire' = [fire EXCEPT ![f] = AfterIntent(IdOf(f), ok)]
      BY <1>1, <3>1 DEF FireIntends
    <3>3. ok = TRUE
      BY <3>1, <3>2 DEF AfterIntent
    <3> QED BY <3>2, <3>3
  <2>3. \A r \in ledger' : WorkId(r) = IdOf(f) => r.phase # "accepted"
    BY <2>1, <2>2, BeginDispatchStep
  <2> QED BY <2>1, <2>3 DEF IdOf
<1>2. CASE ~FireIntends(f)
  <2>1. fire[f] = "intended" /\ ~FireAccepts(f)
    <3>1. ASSUME NEW at, at # "intended" PROVE fire' # [fire EXCEPT ![f] = at]
      BY <3>1 DEF CronInv
    <3>2. ~FireAccepts(f) /\ ~FireWrites(f) /\ ~FireSettles(f)
      BY <3>1 DEF FireAccepts, FireWrites, FireSettles
    <3> QED BY <1>2, <3>2, FireMoves
  <2>2. accepted'[f.key] = accepted[f.key]
    BY <2>1, FireKeyIsOwn
  <2>3. s.key = f.key /\ s.times = accepted[f.key] /\ WorkId(s) = IdOf(f)
    BY <2>2 DEF WorkId, IdOf
  <2>4. CASE s \in ledger
    BY <2>1, <2>3, <2>4 DEF SubmittedInv, IntendedIsDurable
  <2>5. CASE accepted[s.key] < s.times
    <3>1. accepted[f.key] \in Nat
      BY ItemTypes, BoundsAssumption DEF LedgerInv
    <3> QED BY <2>3, <2>5, <3>1
  <2> QED BY <2>4, <2>5 DEF LedgerStep
<1> QED BY <1>1, <1>2

\* What a step adds to the submissions.
LEMMA SubmittedFrame ==
  ASSUME [Next]_vars
  PROVE  submitted' = submitted \/ \E f \in Fires : FireWrites(f)
<1>1. CASE \/ \E m \in Messages : QueueMessage(m)
           \/ \E l \in Letters : SendLetter(l)
           \/ PollAccepts \/ PollInjects \/ PollDrains \/ PollAcknowledges
           \/ \E f \in Fires : FireAccepts(f) \/ FireIntends(f) \/ FireSettles(f)
           \/ \E id \in timers : ReviewFires(id)
           \/ RuntimeReports \/ RuntimeStops \/ RuntimeStarts \/ DaemonCrashes \/ UNCHANGED vars
  BY <1>1 DEF QueueMessage, SendLetter, PollAccepts, PollInjects, PollDrains, PollAcknowledges,
     FireAccepts, FireIntends, FireSettles, ReviewFires, RuntimeReports, RuntimeStops,
     RuntimeStarts, DaemonCrashes, vars, history
<1> QED BY <1>1 DEF Next, Turn, Poll

LEMMA FireWritesStep ==
  ASSUME LedgerInv, CronInv, SubmittedInv, NEW f \in Fires, FireWrites(f)
  PROVE  /\ accepted' = accepted /\ ledger' = ledger
         /\ IdOf(f) = <<f.key, accepted[f.key]>> /\ IdOf(f) \in Key \X (1..MaxAccepted)
         /\ submitted' \in [Key \X (1..MaxAccepted) -> 0..2]
         /\ submitted'[IdOf(f)] > 0
         /\ \A id \in Key \X (1..MaxAccepted) : id # IdOf(f) => submitted'[id] = submitted[id]
<1>1. accepted' = accepted /\ ledger' = ledger
  BY DEF FireWrites
<1>2. f.key \in Key /\ accepted[f.key] \in 1..MaxAccepted
  <2>1. f.key \in Key /\ accepted[f.key] \in 0..MaxAccepted /\ accepted[f.key] > 0
    BY ItemTypes DEF FireWrites, CronInv, Taken, LedgerInv
  <2> QED BY <2>1, BoundsAssumption
<1>3. IdOf(f) = <<f.key, accepted[f.key]>> /\ IdOf(f) \in Key \X (1..MaxAccepted)
  BY <1>2 DEF IdOf
<1>4. PICK n : n = IF submitted[IdOf(f)] < 2 THEN submitted[IdOf(f)] + 1 ELSE submitted[IdOf(f)]
  OBVIOUS
<1>5. n \in 0..2 /\ n > 0
  <2>1. submitted[IdOf(f)] \in 0..2
    BY <1>3 DEF SubmittedInv
  <2> QED BY <1>4, <2>1
<1>6. submitted' = [submitted EXCEPT ![IdOf(f)] = n]
  BY <1>4 DEF FireWrites
<1> QED BY <1>1, <1>3, <1>5, <1>6 DEF SubmittedInv

\* The write of a cron fire follows its intent: a record that says accepted has
\* none.
LEMMA AcceptedIsUnwritten ==
  ASSUME LedgerInv, TransportInv, CronInv, SubmittedInv, LedgerStep, [Next]_vars,
         NEW s \in ledger', s.phase = "accepted"
  PROVE  ~(submitted'[WorkId(s)] > 0)
<1>0. /\ s.key \in Key /\ s.times \in 1..MaxAccepted /\ accepted[s.key] \in 0..MaxAccepted
      /\ WorkId(s) = <<s.key, s.times>> /\ WorkId(s) \in Key \X (1..MaxAccepted)
  <2>1. s \in Record
    BY DEF LedgerInv, LedgerStep
  <2>2. s.key \in Key /\ s.times \in 1..MaxAccepted
    BY <2>1, RecordFields
  <2> QED BY <2>2 DEF LedgerInv, WorkId
<1>1. ~(submitted[WorkId(s)] > 0)
  <2>1. CASE s \in ledger
    BY <2>1 DEF SubmittedInv, IntentBeforeWrite
  <2>2. CASE accepted[s.key] < s.times
    <3>1. ~(s.times <= accepted[s.key])
      BY <1>0, <2>2, BoundsAssumption
    <3> QED BY <1>0, <3>1 DEF SubmittedInv
  <2> QED BY <2>1, <2>2 DEF LedgerStep
<1>2. ASSUME NEW f \in Fires, FireWrites(f) PROVE WorkId(s) # IdOf(f)
  <2>1. fire[f] = "intended" /\ s \in ledger
    BY <1>2, FireWritesStep DEF FireWrites
  <2> QED BY <2>1 DEF SubmittedInv, IntendedIsDurable
<1>3. ASSUME NEW f \in Fires, FireWrites(f) PROVE submitted'[WorkId(s)] = submitted[WorkId(s)]
  BY <1>0, <1>2, <1>3, FireWritesStep
<1> QED BY <1>1, <1>3, SubmittedFrame

\* A fire that counts as written was.
LEMMA WrittenIsSubmitted ==
  ASSUME LedgerInv, TransportInv, CronInv, SubmittedInv, LedgerStep, [Next]_vars,
         NEW f \in Fires, fire'[f] \in {"written", "over"}
  PROVE  submitted'[<<f.key, accepted'[f.key]>>] > 0
<1>0. \A at : fire' = [fire EXCEPT ![f] = at] => fire'[f] = at
  BY DEF CronInv
<1>1. CASE FireWrites(f)
  BY <1>1, FireWritesStep
<1>2. CASE ~FireWrites(f)
  <2>1. ~FireAccepts(f) /\ ~FireIntends(f)
    <3>1. FireAccepts(f) => fire'[f] \in {"accepted", "refused"}
      BY <1>0 DEF FireAccepts
    <3>2. FireIntends(f) => fire'[f] \in {"intended", "refused"}
      BY <1>0 DEF FireIntends, AfterIntent
    <3> QED BY <3>1, <3>2
  <2>2. fire[f] \in {"written", "over"}
    <3>1. FireSettles(f) => fire[f] = "written"
      BY <1>0 DEF FireSettles
    <3> QED BY <1>2, <2>1, <3>1, FireMoves
  <2>3. accepted'[f.key] = accepted[f.key]
    BY <2>1, FireKeyIsOwn
  <2>4. submitted[<<f.key, accepted[f.key]>>] > 0
    BY <2>2 DEF SubmittedInv, IntentBeforeWrite, IdOf
  <2>5. <<f.key, accepted[f.key]>> \in Key \X (1..MaxAccepted)
    <3>1. f.key \in Key /\ accepted[f.key] \in 0..MaxAccepted /\ accepted[f.key] > 0
      BY <2>2, ItemTypes DEF CronInv, Taken, LedgerInv
    <3>2. accepted[f.key] \in 1..MaxAccepted
      BY <3>1, BoundsAssumption
    <3> QED BY <3>1, <3>2
  <2>6. ASSUME NEW g \in Fires, FireWrites(g) PROVE submitted'[<<f.key, accepted[f.key]>>] > 0
    BY <2>4, <2>5, <2>6, FireWritesStep
  <2> QED BY <2>3, <2>4, <2>6, SubmittedFrame
<1> QED BY <1>1, <1>2

LEMMA SubmittedNext ==
  ASSUME LedgerInv, TransportInv, CronInv, SubmittedInv, LedgerStep, [Next]_vars
  PROVE  SubmittedInv'
<1>1. submitted' \in [Key \X (1..MaxAccepted) -> 0..2]
  BY SubmittedFrame, FireWritesStep DEF SubmittedInv
<1>2. ASSUME NEW k \in Key, NEW n \in 1..MaxAccepted, submitted'[<<k, n>>] > 0
      PROVE  n <= accepted'[k]
  <2>1. /\ accepted[k] \in 0..MaxAccepted /\ accepted'[k] \in 0..MaxAccepted
        /\ accepted[k] <= accepted'[k]
    BY DEF LedgerInv, LedgerStep
  <2>2. n <= accepted[k]
    <3>1. CASE submitted' = submitted
      BY <1>2, <3>1 DEF SubmittedInv
    <3>2. ASSUME NEW f \in Fires, FireWrites(f) PROVE n <= accepted[k]
      <4>1. CASE <<k, n>> = IdOf(f)
        BY <2>1, <3>2, <4>1, FireWritesStep, BoundsAssumption
      <4>2. CASE <<k, n>> # IdOf(f)
        BY <1>2, <3>2, <4>2, FireWritesStep DEF SubmittedInv
      <4> QED BY <4>1, <4>2
    <3> QED BY <3>1, <3>2, SubmittedFrame
  <2> QED BY <2>1, <2>2, BoundsAssumption
<1>3. IntendedIsDurable'
  BY IntendedNext
<1>4. IntentBeforeWrite'
  BY AcceptedIsUnwritten, WrittenIsSubmitted DEF IntentBeforeWrite, IdOf, WorkId
<1> QED BY <1>1, <1>2, <1>3, <1>4 DEF SubmittedInv

LEMMA IInvNext == IInv /\ [Next]_vars => IInv'
<1> SUFFICES ASSUME IInv, [Next]_vars PROVE IInv'
  OBVIOUS
<1>1. LedgerStep
  BY LedgerNext DEF IInv
<1>2. LedgerInv'
  BY <1>1 DEF LedgerStep
<1>3. TransportInv' /\ ArrivedInv' /\ CronInv' /\ RuntimeInv' /\ SubmittedInv'
  BY <1>1, TransportNext, ArrivedNext, CronNext, RuntimeNext, SubmittedNext DEF IInv
<1> QED BY <1>2, <1>3 DEF IInv

LEMMA IInvAlways == Spec => []IInv
BY IInvInit, IInvNext, PTL DEF Spec

-----------------------------------------------------------------------------
(* Theorems *)

\* The ledger, the transports, the poll cycle and the runtime's bookkeeping stay
\* well formed, as work-ledger.ts, fast-checker.ts and agent-process.ts write them.
THEOREM TypeCorrect == Spec => []TypeOK
BY IInvAlways, IInvType, PTL

\* accept's lookup by sourceKey: a source never has two records.
THEOREM OneRecordAlways == Spec => []OneRecordPerSource
<1>1. IInv => OneRecordPerSource
  BY DEF IInv, LedgerInv
<1> QED BY <1>1, IInvAlways, PTL

\* injectMessageDetailed, steps 4 and 5: the intent to dispatch is in the ledger
\* before anything is written for a cron fire, and only the write makes the fire
\* count as delivered, whichever commits fail and wherever the daemon dies, between
\* the two also.
THEOREM IntentIsFirst == Spec => []IntentBeforeWrite
<1>1. IInv => IntentBeforeWrite
  BY DEF IInv, SubmittedInv
<1> QED BY <1>1, IInvAlways, PTL

\* LEGAL_TRANSITIONS and archiveTerminal: no step revises an outcome, takes a
\* record back to accepted or drops one that is not finished.
THEOREM OutcomesAreFinalAlways == Spec => OutcomesAreFinal
<1>1. IInv /\ [Next]_vars => Forward
  BY LedgerNext DEF IInv, LedgerStep
<1>2. IInv /\ [Next]_vars =>
        [\A r \in ledger :
           IF r.phase \in Terminal
           THEN \A s \in ledger' : WorkId(s) = WorkId(r) => s = r
           ELSE \E s \in ledger' : /\ WorkId(s) = WorkId(r)
                                   /\ r.phase = "needs-review" => s = r
                                   /\ s.phase = "accepted" => r.phase = "accepted"]_vars
  BY <1>1 DEF Forward
<1> QED BY <1>2, IInvAlways, PTL DEF Spec, OutcomesAreFinal

-----------------------------------------------------------------------------
(* Nothing leaves its transport unwritten *)

\* What the poll cycle is about to take away was written before; and as long as
\* no save fails, the queue on disk is the queue.
PollWritten ==
  /\ poll.at = "written" => \A n \in 1..poll.prefix : queue[n] \in delivered
  /\ poll.at \in {"written", "drained"} => poll.letters \subseteq delivered
SavedIsQueue == SaveOutcomes = {TRUE} => saved = queue

DeliveryInv == IInv /\ PollWritten /\ SavedIsQueue /\ NothingIsLost

LEMMA DeliveredGrows ==
  ASSUME [Next]_vars
  PROVE  delivered \subseteq delivered'
BY ArrivedFrame DEF QueueMessage, SendLetter, PollInjects, Inject, FireAccepts, FireWrites

LEMMA PollWrittenNext ==
  ASSUME IInv, PollWritten, [Next]_vars
  PROVE  PollWritten'
<1>0. /\ TransportInv /\ delivered \subseteq delivered'
      /\ poll.prefix \in 0..Len(queue) /\ Len(queue) \in Nat
  BY DeliveredGrows, PollFields, BoundsAssumption DEF IInv
<1>1. CASE UNCHANGED <<transport, poll>>
  BY <1>0, <1>1 DEF PollWritten, transport
<1>2. ASSUME NEW m \in Messages, QueueMessage(m) PROVE PollWritten'
  <2>1. queue' = Append(queue, m) /\ poll' = poll
    BY <1>2 DEF QueueMessage
  <2>2. \A n \in 1..Len(queue) : queue'[n] = queue[n]
    BY <1>0, <2>1, AppendProperties DEF TransportInv
  <2>3. \A n \in 1..poll.prefix : queue'[n] = queue[n]
    BY <1>0, <2>2
  <2> QED BY <1>0, <2>1, <2>3 DEF PollWritten
<1>3. ASSUME NEW l \in Letters, SendLetter(l) PROVE PollWritten'
  BY <1>0, <1>3 DEF SendLetter, PollWritten
<1>4. CASE PollAccepts
  <2>1. poll'.at \in {"idle", "accepted"}
    BY <1>4 DEF PollAccepts
  <2> QED BY <2>1 DEF PollWritten
<1>5. CASE PollInjects
  <2>1. CASE poll' = IdlePoll
    BY <2>1, IdlePollIsTyped DEF PollWritten
  <2>2. CASE poll' = [poll EXCEPT !.at = "written"] /\ delivered' = delivered \cup Range(Prefix) \cup poll.letters
    <3>1. poll'.prefix = poll.prefix /\ poll'.letters = poll.letters /\ queue' = queue
      BY <1>0, <1>5, <2>2, PollMoves DEF TransportInv, PollInjects, transport
    <3>2. Range(Prefix) = {queue[k] : k \in 1..poll.prefix}
      BY <1>0, PrefixOf DEF TransportInv, Prefix
    <3> QED BY <2>2, <3>1, <3>2 DEF PollWritten
  <2> QED BY <1>5, <2>1, <2>2 DEF PollInjects, Inject
<1>6. CASE PollDrains
  <2>1. poll.at = "written" /\ poll' = [poll EXCEPT !.at = "drained", !.prefix = 0]
    BY <1>6 DEF PollDrains
  <2>2. poll'.at = "drained" /\ poll'.letters = poll.letters
    BY <1>0, <2>1, PollEmpties DEF TransportInv
  <2> QED BY <1>0, <2>1, <2>2 DEF PollWritten
<1>7. CASE PollAcknowledges \/ DaemonCrashes
  <2>1. poll' = IdlePoll
    BY <1>7 DEF PollAcknowledges, DaemonCrashes
  <2> QED BY <2>1, IdlePollIsTyped DEF PollWritten
<1> QED BY <1>1, <1>2, <1>3, <1>4, <1>5, <1>6, <1>7, TransportFrame DEF Poll

LEMMA SavedNext ==
  ASSUME SavedIsQueue, [Next]_vars
  PROVE  SavedIsQueue'
<1> SUFFICES ASSUME SaveOutcomes = {TRUE} PROVE saved' = queue'
  BY DEF SavedIsQueue
<1>1. saved = queue
  BY DEF SavedIsQueue
<1>2. ASSUME NEW m \in Messages, QueueMessage(m) PROVE saved' = queue'
  <2>1. queue' = Append(queue, m) /\ Save(Append(queue, m))
    BY <1>2 DEF QueueMessage
  <2> QED BY <2>1, SaveWrites
<1>4. ASSUME PollDrains PROVE saved' = queue'
  <2>1. queue' = Remaining /\ Save(Remaining)
    BY <1>4 DEF PollDrains
  <2> QED BY <2>1, SaveWrites
<1>3. ASSUME \/ UNCHANGED <<transport, poll>> \/ \E l \in Letters : SendLetter(l)
             \/ PollAccepts \/ PollInjects \/ PollAcknowledges \/ DaemonCrashes
      PROVE  saved' = queue'
  BY <1>1, <1>3 DEF transport, SendLetter, PollAccepts, PollInjects, PollAcknowledges, DaemonCrashes
<1> QED BY <1>2, <1>3, <1>4, TransportFrame DEF Poll

\* Of what waited, a step takes away only what was written.
LEMMA WaitingStays ==
  ASSUME IInv, PollWritten, SavedIsQueue, [Next]_vars,
         SaveOutcomes = {TRUE} \/ MaxCrashes = 0,
         NEW i \in Range(queue) \cup inbox \cup inflight
  PROVE  i \in delivered' \cup Range(queue') \cup inbox' \cup inflight'
<1>0. /\ TransportInv /\ delivered \subseteq delivered'
      /\ poll.prefix \in 0..Len(queue) /\ Len(queue) \in Nat
  BY DeliveredGrows, PollFields, BoundsAssumption DEF IInv
<1>1. CASE UNCHANGED <<transport, poll>>
  BY <1>1 DEF transport
<1>2. ASSUME NEW m \in Messages, QueueMessage(m)
      PROVE  Range(queue) \subseteq Range(queue') /\ UNCHANGED <<inbox, inflight>>
  BY <1>0, <1>2, RangeAppend DEF QueueMessage, TransportInv
<1>3. ASSUME NEW l \in Letters, SendLetter(l)
      PROVE  queue' = queue /\ inflight' = inflight /\ inbox \subseteq inbox'
  BY <1>3 DEF SendLetter
<1>4. ASSUME PollAccepts
      PROVE  queue' = queue /\ inbox \cup inflight \subseteq inflight'
  BY <1>4 DEF PollAccepts, Moved
<1>5. ASSUME PollInjects PROVE UNCHANGED <<queue, inbox, inflight>>
  BY <1>5 DEF PollInjects, transport
<1>6. ASSUME PollDrains
      PROVE  Range(queue) \subseteq delivered' \cup Range(queue') /\ UNCHANGED <<inbox, inflight>>
  <2> DEFINE rest == SubSeq(queue, poll.prefix + 1, Len(queue))
  <2>1. queue' = rest /\ poll.at = "written" /\ UNCHANGED <<inbox, inflight>>
    BY <1>6 DEF PollDrains, Remaining
  <2>2. Range(rest) = {queue[k] : k \in (poll.prefix + 1)..Len(queue)}
    BY <1>0, RestOf DEF TransportInv
  <2>3. Range(queue) = {queue[k] : k \in 1..Len(queue)}
    BY <1>0, RangeOf DEF TransportInv
  <2>4. 1..Len(queue) = 1..poll.prefix \cup (poll.prefix + 1)..Len(queue)
    BY <1>0
  <2>5. \A k \in 1..poll.prefix : queue[k] \in delivered'
    BY <1>0, <2>1 DEF PollWritten
  <2> HIDE DEF rest
  <2> QED BY <2>1, <2>2, <2>3, <2>4, <2>5
<1>7. ASSUME PollAcknowledges
      PROVE  /\ UNCHANGED <<queue, inbox>>
             /\ inflight \subseteq delivered' \cup inflight'
  <2>1. PICK acked \in SUBSET poll.letters : inflight' = inflight \ acked
    BY <1>7 DEF PollAcknowledges
  <2>2. poll.letters \subseteq delivered' /\ UNCHANGED <<queue, inbox>>
    BY <1>0, <1>7 DEF PollAcknowledges, PollWritten
  <2> QED BY <2>1, <2>2
<1>8. ASSUME DaemonCrashes
      PROVE  UNCHANGED <<queue, inbox, inflight>>
  <2>1. crashes < MaxCrashes /\ queue' = saved /\ UNCHANGED <<inbox, inflight>>
    BY <1>8 DEF DaemonCrashes
  <2>2. MaxCrashes # 0
    BY <2>1, BoundsAssumption DEF IInv, RuntimeInv
  <2> QED BY <2>1, <2>2 DEF SavedIsQueue
<1> QED BY <1>0, <1>1, <1>2, <1>3, <1>4, <1>5, <1>6, <1>7, <1>8, TransportFrame DEF Poll

LEMMA DeliveryInvNext ==
  ASSUME SaveOutcomes = {TRUE} \/ MaxCrashes = 0
  PROVE  DeliveryInv /\ [Next]_vars => DeliveryInv'
<1> SUFFICES ASSUME DeliveryInv, [Next]_vars PROVE DeliveryInv'
  OBVIOUS
<1>1. IInv' /\ PollWritten' /\ SavedIsQueue'
  BY IInvNext, PollWrittenNext, SavedNext DEF DeliveryInv
<1>2. ASSUME NEW i \in arrived' \cap (Messages \cup Letters)
      PROVE  i \in delivered' \cup Range(queue') \cup inbox' \cup inflight'
  <2>1. CASE i \in arrived
    <3>1. i \in delivered \cup Range(queue) \cup inbox \cup inflight
      BY <1>2, <2>1 DEF DeliveryInv, NothingIsLost
    <3> QED BY <3>1, DeliveredGrows, WaitingStays DEF DeliveryInv
  <2>2. CASE i \notin arrived
    <3>1. ASSUME NEW m \in Messages, QueueMessage(m) PROVE i \in Range(queue')
      <4>1. i = m /\ queue' = Append(queue, m)
        BY <1>2, <2>2, <3>1 DEF QueueMessage
      <4> QED BY <4>1, RangeAppend DEF DeliveryInv, IInv, TransportInv
    <3>2. ASSUME NEW l \in Letters, SendLetter(l) PROVE i \in inbox'
      BY <1>2, <2>2, <3>2 DEF SendLetter
    <3>3. ASSUME NEW f \in Fires, FireAccepts(f) \/ FireWrites(f) PROVE FALSE
      <4>1. i = f
        BY <1>2, <2>2, <3>3 DEF FireAccepts, FireWrites
      <4> QED BY <1>2, <4>1, FiresAreNotSent
    <3>4. PollInjects => arrived' = arrived
      BY DEF PollInjects
    <3> QED BY <1>2, <2>2, <3>1, <3>2, <3>3, <3>4, ArrivedFrame
  <2> QED BY <2>1, <2>2
<1> QED BY <1>1, <1>2 DEF DeliveryInv, NothingIsLost

\* Neither a crash between any two steps of the poll cycle nor an arrival during
\* one takes a message or a letter from its transport before it was written to
\* the runtime, provided that savePendingTelegram works or the daemon lives on.
THEOREM NothingIsLostAlways ==
  ASSUME SaveOutcomes = {TRUE} \/ MaxCrashes = 0
  PROVE  Spec => []NothingIsLost
<1>1. Init => DeliveryInv
  <2> SUFFICES ASSUME Init PROVE DeliveryInv
    OBVIOUS
  <2>1. poll = IdlePoll /\ saved = queue /\ arrived = {}
    BY DEF Init
  <2> QED BY <2>1, IInvInit, IdlePollIsTyped
          DEF DeliveryInv, PollWritten, SavedIsQueue, NothingIsLost
<1>2. DeliveryInv /\ [Next]_vars => DeliveryInv'
  BY DeliveryInvNext
<1>3. DeliveryInv => NothingIsLost
  BY DEF DeliveryInv
<1> QED BY <1>1, <1>2, <1>3, PTL DEF Spec

-----------------------------------------------------------------------------
(* Filters *)

\* A set that has 0, and with a number below m the next, has m.
LEMMA Reaches ==
  ASSUME NEW m \in Nat, NEW S, 0 \in S, \A n \in 0..m : n < m /\ n \in S => n + 1 \in S
  PROVE  m \in S
<1> DEFINE below == {p \in Nat \X Nat : p[1] < p[2]}
           unmet == (0..m) \ S
<1>1. SUFFICES ASSUME m \notin S PROVE FALSE
  OBVIOUS
<1>2. IsWellFoundedOn(below, Nat)
  BY NatLessThanWellFounded DEF OpToRel
<1>3. PICK n \in unmet : \A k \in unmet : <<k, n>> \notin below
  <2>1. unmet \subseteq Nat /\ unmet # {}
    BY <1>1
  <2> HIDE DEF below, unmet
  <2> QED BY <1>2, <2>1, WFMin
<1>4. n \in Nat /\ n # 0 /\ n <= m /\ n - 1 \in 0..m /\ n - 1 < m /\ n \notin S
  OBVIOUS
<1>5. <<n - 1, n>> \in below
  BY <1>4
<1>6. n - 1 \in S
  BY <1>3, <1>4, <1>5
<1>7. (n - 1) + 1 \in S
  BY <1>4, <1>6
<1> QED BY <1>4, <1>7

LEMMA WiderSeq ==
  ASSUME NEW S, NEW T, S \subseteq T, NEW q \in Seq(S)
  PROVE  q \in Seq(T)
<1>1. \A i \in 1..Len(q) : q[i] \in T
  OBVIOUS
<1>2. Len(q) \in Nat /\ q = [i \in 1..Len(q) |-> q[i]]
  OBVIOUS
<1> QED BY <1>1, <1>2

LEMMA ListIs ==
  ASSUME NEW T, NEW n \in Nat, NEW q \in [1..n -> T]
  PROVE  q \in Seq(T) /\ Len(q) = n /\ DOMAIN q = 1..n
OBVIOUS

\* What the filter has after n entries, from what it had before.
Filtering(q, K, g, n) ==
  IF n = 0 THEN <<>> ELSE IF q[n] \in K THEN Append(g[n - 1], q[n]) ELSE g[n - 1]

LEMMA FilteringIs ==
  ASSUME NEW T, NEW K, NEW q \in Seq(T), NEW g, NEW n \in Nat, n < Len(q), g[n] \in Seq(T \cap K)
  PROVE  Filtering(q, K, g, n + 1) \in Seq(T \cap K)
<1>1. n + 1 # 0 /\ (n + 1) - 1 = n /\ q[n + 1] \in T
  OBVIOUS
<1>2. Filtering(q, K, g, n + 1) = IF q[n + 1] \in K THEN Append(g[n], q[n + 1]) ELSE g[n]
  BY <1>1 DEF Filtering
<1>3. q[n + 1] \in K => Append(g[n], q[n + 1]) \in Seq(T \cap K)
  BY <1>1
<1> QED BY <1>2, <1>3

\* The filter's results for the first m entries and fewer.
Filters(q, K, T, g, m) ==
  g \in [0..m -> Seq(T \cap K)] /\ \A n \in 0..m : g[n] = Filtering(q, K, g, n)

LEMMA FilterGrows ==
  ASSUME NEW T, NEW K, NEW q \in Seq(T), NEW g, NEW m \in Nat, m < Len(q), Filters(q, K, T, g, m)
  PROVE  \E h : Filters(q, K, T, h, m + 1)
<1>1. PICK v : v = Filtering(q, K, g, m + 1)
  OBVIOUS
<1>2. g[m] \in Seq(T \cap K)
  BY DEF Filters
<1>3. v \in Seq(T \cap K)
  BY <1>1, <1>2, FilteringIs
<1>4. PICK h : h = [k \in 0..(m + 1) |-> IF k = m + 1 THEN v ELSE g[k]]
  OBVIOUS
<1>5. h \in [0..(m + 1) -> Seq(T \cap K)]
  BY <1>3, <1>4 DEF Filters
<1>6. h[m + 1] = v /\ \A k \in 0..m : h[k] = g[k]
  BY <1>4
<1>7. h[m + 1] = Filtering(q, K, h, m + 1)
  <2>1. h[m] = g[m]
    BY <1>6
  <2>2. (m + 1) - 1 = m /\ m + 1 # 0
    OBVIOUS
  <2> QED BY <1>1, <1>6, <2>1, <2>2 DEF Filtering
<1>8. ASSUME NEW k \in 0..m PROVE h[k] = Filtering(q, K, h, k)
  <2>1. h[k] = Filtering(q, K, g, k)
    BY <1>6 DEF Filters
  <2>2. CASE k = 0
    BY <2>1, <2>2 DEF Filtering
  <2>3. CASE k # 0
    <3>1. k - 1 \in 0..m
      BY <2>3
    <3>2. h[k - 1] = g[k - 1]
      BY <1>6, <3>1
    <3> QED BY <2>1, <2>3, <3>2 DEF Filtering
  <2> QED BY <2>2, <2>3
<1>9. \A k \in 0..(m + 1) : k \in 0..m \/ k = m + 1
  OBVIOUS
<1> QED BY <1>5, <1>7, <1>8, <1>9 DEF Filters

\* What is chosen are entries of the list, and wanted.
LEMMA OnlyIs ==
  ASSUME NEW T, NEW K, NEW q \in Seq(T)
  PROVE  Only(q, K) \in Seq(T \cap K)
<1>1. PICK L \in Nat : L = Len(q)
  OBVIOUS
<1>2. \E g : Filters(q, K, T, g, L)
  <2>1. PICK S : S = {m \in Nat : m <= L => \E g : Filters(q, K, T, g, m)}
    OBVIOUS
  <2>2. 0 \in S
    <3>1. PICK g : g = [n \in 0..0 |-> <<>>]
      OBVIOUS
    <3>2. g \in [0..0 -> Seq(T \cap K)] /\ \A n \in 0..0 : g[n] = Filtering(q, K, g, n)
      BY <3>1 DEF Filtering
    <3>3. Filters(q, K, T, g, 0)
      BY <3>2 DEF Filters
    <3> QED BY <2>1, <3>3
  <2>3. ASSUME NEW n \in 0..L, n < L, n \in S PROVE n + 1 \in S
    <3>1. \E g : Filters(q, K, T, g, n + 1)
      BY <1>1, <2>1, <2>3, FilterGrows
    <3> QED BY <2>1, <3>1
  <2>4. \A n \in 0..L : n < L /\ n \in S => n + 1 \in S
    BY <2>3
  <2>5. L \in S
    BY <2>2, <2>4, Reaches
  <2> QED BY <2>1, <2>5
<1>3. PICK g : g = [n \in 0..L |-> Filtering(q, K, g, n)]
  BY <1>2 DEF Filters
<1> DEFINE first == CHOOSE f : f = [n \in 0..L |-> Filtering(q, K, f, n)]
<1>4. first = [n \in 0..L |-> Filtering(q, K, first, n)]
  BY <1>3
<1>5. Only(q, K) = first[L]
  BY <1>1 DEF Only, Filtering
<1> HIDE DEF first
<1>6. first[0] = <<>>
  <2>1. first[0] = Filtering(q, K, first, 0)
    BY <1>4
  <2> QED BY <2>1 DEF Filtering
<1>7. PICK S : S = {n \in Nat : n <= L => first[n] \in Seq(T \cap K)}
  OBVIOUS
<1>8. 0 \in S
  <2>1. <<>> \in Seq(T \cap K)
    OBVIOUS
  <2> QED BY <1>6, <1>7, <2>1
<1>9. ASSUME NEW n \in 0..L, n < L, n \in S PROVE n + 1 \in S
  <2>1. n + 1 \in 0..L /\ first[n] \in Seq(T \cap K)
    BY <1>7, <1>9
  <2>2. first[n + 1] = Filtering(q, K, first, n + 1)
    BY <1>4, <2>1
  <2>3. Filtering(q, K, first, n + 1) \in Seq(T \cap K)
    BY <1>1, <1>9, <2>1, FilteringIs
  <2> QED BY <1>7, <2>2, <2>3
<1>10. \A n \in 0..L : n < L /\ n \in S => n + 1 \in S
  BY <1>9
<1>11. L \in S
  BY <1>8, <1>10, Reaches
<1> QED BY <1>5, <1>7, <1>11

-----------------------------------------------------------------------------
(* Handoffs of full contexts *)

\* A set onto which a finite set can be mapped is not larger.
LEMMA Covers ==
  ASSUME NEW S, IsFiniteSet(S), NEW T, NEW f \in [S -> T], \A t \in T : \E s \in S : f[s] = t
  PROVE  IsFiniteSet(T) /\ Cardinality(T) <= Cardinality(S)
<1>1. f \in Surjection(S, T)
  BY Fun_IsSurj
<1> QED BY <1>1, FS_Surjection

Lease == [agent : Agents, age : 0..(LeaseTicks - 1)]
Place == [agent : Agents, age : 0..(QueueTicks - 1)]
LeaseFile(f) ==
  /\ f = [active |-> f.active, queue |-> f.queue]
  /\ f.active \subseteq Lease /\ f.queue \in Seq(Place)
  /\ IsFiniteSet(f.active) /\ Cardinality(f.active) <= MaxConcurrent

\* What is counted is within the window, and the oldest comes first.
Times == {s \in Ages : \A i, j \in DOMAIN s : i <= j => s[i] >= s[j]}
Circuits == [restarts : Times, fires : Times, broken : Age(PauseTicks)]
Histories == [prompts : Times, forced : Times, named : BOOLEAN]

Shapes ==
  /\ up \subseteq Agents
  /\ status \in [Agents -> Status] /\ monitor \in [Agents -> Monitor]
  /\ circuit \in [Agents -> Circuits] /\ past \in [Agents -> Histories]
  /\ LeaseFile(file)

\* What the breaker counts is what happened, as long as it is whole; once broken it
\* stays so until all that had happened before is out of the window.
Counted(c, h) ==
  /\ Len(h.prompts) <= 2 /\ Len(h.forced) <= 3
  /\ c.broken = Never => h.prompts = c.fires /\ h.forced = c.restarts
  /\ c.broken # Never =>
       /\ \A i \in DOMAIN h.prompts : h.prompts[i] >= c.broken
       /\ \A i \in DOMAIN h.forced : h.forced[i] >= c.broken
       /\ c.broken >= WindowTicks => h.prompts = <<>> /\ h.forced = <<>>

\* What a monitor knows of its agent's lease: an agent with a deadline to keep has
\* a lease that is not older than the prompt, and one that was not prompted, and
\* whose session the monitor knows, has none.
MonitorSettled(m, f, a, named) ==
  /\ m.deadline < DeadlineTicks /\ named =>
       /\ m.seen # "none" /\ m.lease /\ m.fired
       /\ \E e \in f.active : e.agent = a /\ e.age <= m.deadline
  /\ ~m.fired => m.deadline = Never
  /\ ~m.fired /\ m.seen # "none" => ~Leased(f, a)

FleetInv ==
  /\ Shapes
  /\ \A a \in Agents : Counted(circuit[a], past[a])
  /\ \A a \in up : MonitorSettled(monitor[a], file, a, past[a].named)

LEMMA FleetNumbers ==
  /\ DeadlineTicks \in Nat /\ LeaseTicks \in Nat /\ QueueTicks \in Nat
  /\ WindowTicks \in Nat /\ PauseTicks \in Nat
  /\ MaxConcurrent \in Nat /\ MaxConcurrent >= 1
  /\ 0 < DeadlineTicks /\ DeadlineTicks < LeaseTicks /\ LeaseTicks < QueueTicks /\ QueueTicks < 99
  /\ 0 < WindowTicks /\ WindowTicks < PauseTicks /\ PauseTicks < 99
BY HandoffAssumption

\* Times are numbers, and a moment that passes now is the youngest of them.
LEMMA TimesAre ==
  /\ \A s \in Times : s \in Seq(Nat) /\ s \in Ages
  /\ <<>> \in Times
<1>1. ASSUME NEW s \in Times PROVE s \in Seq(Nat)
  <2>1. s \in Seq(0..(WindowTicks - 1)) /\ 0..(WindowTicks - 1) \subseteq Nat
    BY FleetNumbers DEF Times, Ages
  <2>2. PICK S : S = 0..(WindowTicks - 1)
    OBVIOUS
  <2> QED BY <2>1, <2>2, WiderSeq
<1>2. <<>> \in Ages /\ DOMAIN <<>> = {}
  BY DEF Ages
<1> QED BY <1>1, <1>2 DEF Times

LEMMA FleetInitial == HandoffInit => FleetInv
<1> SUFFICES ASSUME HandoffInit PROVE FleetInv
  OBVIOUS
<1>1. up \subseteq Agents
  BY DEF HandoffInit
<1>2. [Emptied EXCEPT !.kind = "none"] \in Status
  BY DEF Emptied, Status
<1>3. FreshMonitor \in Monitor
  BY DEF FreshMonitor, Monitor, Age, Never
<1>4. Whole \in Circuits
  BY TimesAre DEF Whole, Circuits, Age, Never
<1>5. LeaseFile(file)
  <2>1. file \in Leftovers
    BY DEF HandoffInit
  <2>2. /\ file = [active |-> file.active, queue |-> file.queue]
        /\ file.active = {} \/ \E a \in Agents : file.active = {[agent |-> a, age |-> 0]}
        /\ file.queue = <<>> \/ \E a \in Agents : file.queue = <<[agent |-> a, age |-> 0]>>
    BY <2>1 DEF Leftovers
  <2>3. file.active \subseteq Lease /\ file.queue \in Seq(Place)
    <3>1. \A a \in Agents : [agent |-> a, age |-> 0] \in Lease /\ [agent |-> a, age |-> 0] \in Place
      BY FleetNumbers DEF Lease, Place
    <3>2. \A e \in Place : <<e>> \in Seq(Place)
      OBVIOUS
    <3>3. \A e \in Lease : {e} \subseteq Lease
      OBVIOUS
    <3>4. <<>> \in Seq(Place)
      OBVIOUS
    <3>5. file.active \subseteq Lease
      BY <2>2, <3>1, <3>3
    <3>6. file.queue \in Seq(Place)
      BY <2>2, <3>1, <3>2, <3>4
    <3> QED BY <3>5, <3>6
  <2>4. IsFiniteSet(file.active) /\ Cardinality(file.active) <= 1
    <3>1. CASE file.active = {}
      BY <3>1, FS_EmptySet
    <3>2. ASSUME NEW a \in Agents, file.active = {[agent |-> a, age |-> 0]}
          PROVE  IsFiniteSet(file.active) /\ Cardinality(file.active) <= 1
      <4>1. PICK e : file.active = {e}
        BY <3>2
      <4>2. IsFiniteSet({e}) /\ Cardinality({e}) = 1
        BY FS_Singleton
      <4> QED BY <4>1, <4>2
    <3> QED BY <2>2, <3>1, <3>2
  <2> QED BY <2>2, <2>3, <2>4, FleetNumbers, FS_CardinalityType DEF LeaseFile
<1>6. Shapes
  BY <1>1, <1>2, <1>3, <1>4, <1>5, TimesAre DEF HandoffInit, Shapes, Histories
<1>7. ASSUME NEW a \in Agents PROVE Counted(circuit[a], past[a])
  BY <1>7 DEF HandoffInit, Counted, Whole
<1>8. ASSUME NEW a \in up PROVE MonitorSettled(monitor[a], file, a, past[a].named)
  <2>1. monitor[a] = FreshMonitor
    BY <1>1, <1>8 DEF HandoffInit
  <2> QED BY <2>1, FleetNumbers DEF MonitorSettled, FreshMonitor, Never
<1> QED BY <1>6, <1>7, <1>8 DEF FleetInv

-----------------------------------------------------------------------------
(* The circuit breaker *)

\* A poll that acts finds the breaker whole, with all that happened in its counts.
LEMMA CircuitIsWhole ==
  ASSUME FleetInv, NEW a \in Agents, ~Paused(a)
  PROVE  /\ Circuit(a) \in Circuits /\ Circuit(a).broken = Never
         /\ Circuit(a).fires = past[a].prompts /\ Circuit(a).restarts = past[a].forced
<1>1. circuit[a] \in Circuits /\ Counted(circuit[a], past[a])
  BY DEF FleetInv, Shapes
<1>2. CASE circuit[a].broken = PauseTicks
  <2>1. past[a].prompts = <<>> /\ past[a].forced = <<>>
    BY <1>1, <1>2, FleetNumbers DEF Counted, Never
  <2>2. Circuit(a) = Whole
    BY <1>2 DEF Circuit
  <2> QED BY <2>1, <2>2, TimesAre DEF Whole, Circuits, Age, Never
<1>3. CASE circuit[a].broken # PauseTicks
  <2>1. circuit[a].broken = Never
    BY <1>1, <1>3, FleetNumbers DEF Paused, Circuits, Age, Never
  <2>2. Circuit(a) = circuit[a]
    BY <1>3 DEF Circuit
  <2> QED BY <1>1, <2>1, <2>2 DEF Counted
<1> QED BY <1>2, <1>3

LEMMA PausedCircuit == ASSUME NEW a, Shapes, a \in Agents, Paused(a) PROVE Circuit(a) = circuit[a]
<1>1. circuit[a] \in Circuits
  BY DEF Shapes
<1> QED BY <1>1, FleetNumbers DEF Paused, Circuit, Circuits, Age, Never

\* Breaking it changes no count.
LEMMA BreakCounted ==
  ASSUME NEW c \in Circuits, NEW h \in Histories, NEW d \in Circuits,
         Len(h.prompts) <= 2, Len(h.forced) <= 3, d.broken = 0
  PROVE  Counted(d, h)
<1>1. /\ \A i \in DOMAIN h.prompts : h.prompts[i] \in Nat
      /\ \A i \in DOMAIN h.forced : h.forced[i] \in Nat
  <2>1. h.prompts \in Seq(Nat) /\ h.forced \in Seq(Nat)
    BY TimesAre DEF Histories
  <2> QED BY <2>1
<1> QED BY <1>1, FleetNumbers DEF Counted, Never

\* Time: what is in the window afterwards was there, a tick younger.
LEMMA RecentIs ==
  ASSUME NEW s \in Times
  PROVE  /\ Recent(s) \in Times /\ Len(Recent(s)) <= Len(s)
         /\ \A n \in Nat : (\A i \in DOMAIN s : s[i] >= n)
              => \A i \in DOMAIN Recent(s) : Recent(s)[i] >= n + 1
         /\ (\A i \in DOMAIN s : s[i] + 1 >= WindowTicks) => Recent(s) = <<>>
<1> DEFINE over == {i \in DOMAIN s : s[i] + 1 >= WindowTicks}
           n == Cardinality(over)
<1>0. /\ s \in Seq(Nat) /\ Len(s) \in Nat /\ DOMAIN s = 1..Len(s)
      /\ \A i, j \in DOMAIN s : i <= j => s[i] >= s[j]
      /\ \A i \in DOMAIN s : s[i] \in Nat
  BY TimesAre DEF Times
<1>1. \A m \in Nat : IsFiniteSet(1..m) /\ Cardinality(1..m) = m
  <2> SUFFICES ASSUME NEW m \in Nat PROVE IsFiniteSet(1..m) /\ Cardinality(1..m) = m
    OBVIOUS
  <2>1. IsFiniteSet(1..m) /\ Cardinality(1..m) = IF 1 > m THEN 0 ELSE m - 1 + 1
    BY FS_Interval
  <2> QED BY <2>1
<1>2. over \subseteq 1..Len(s)
  BY <1>0
<1>3. IsFiniteSet(over) /\ n \in Nat /\ n <= Len(s)
  BY <1>0, <1>1, <1>2, FS_Subset, FS_CardinalityType
<1>4. (\A i \in DOMAIN s : s[i] + 1 >= WindowTicks) => n = Len(s)
  <2>1. ASSUME \A i \in DOMAIN s : s[i] + 1 >= WindowTicks PROVE over = 1..Len(s)
    BY <1>0, <2>1
  <2> QED BY <1>0, <1>1, <2>1
<1>5. Recent(s) = [i \in 1..(Len(s) - n) |-> s[i + n] + 1]
  BY DEF Recent
<1>6. ASSUME NEW i \in over PROVE i <= n
  <2>1. i \in Nat /\ i \in 1..Len(s) /\ s[i] + 1 >= WindowTicks
    BY <1>0
  <2>2. 1..i \subseteq over
    <3> SUFFICES ASSUME NEW k \in 1..i PROVE k \in over
      OBVIOUS
    <3>1. k \in DOMAIN s /\ k <= i
      BY <1>0, <2>1
    <3>2. s[k] >= s[i] /\ s[k] \in Nat /\ s[i] \in Nat
      BY <1>0, <2>1, <3>1
    <3> QED BY <2>1, <3>1, <3>2, FleetNumbers
  <2>3. Cardinality(1..i) <= n
    <3> HIDE DEF over
    <3> QED BY <1>3, <2>2, FS_Subset
  <2> QED BY <1>1, <2>1, <2>3
<1>7. \A i \in 1..(Len(s) - n) : i + n \in DOMAIN s /\ i + n \notin over /\ i + n > n
  <2> HIDE DEF over, n
  <2> QED BY <1>0, <1>3, <1>6
<1>8. \A i \in 1..(Len(s) - n) : s[i + n] + 1 \in 0..(WindowTicks - 1) /\ s[i + n] \in Nat
  <2>1. \A i \in DOMAIN s : i \notin over => s[i] + 1 \in 0..(WindowTicks - 1)
    BY <1>0, FleetNumbers
  <2> HIDE DEF over, n
  <2> QED BY <1>0, <1>7, <2>1
<1> HIDE DEF over, n
<1>9. Recent(s) \in Ages /\ Len(Recent(s)) = Len(s) - n /\ DOMAIN Recent(s) = 1..(Len(s) - n)
  <2>1. Len(s) - n \in Nat
    BY <1>0, <1>3
  <2>2. PICK S : S = 0..(WindowTicks - 1)
    OBVIOUS
  <2>3. Recent(s) \in [1..(Len(s) - n) -> S]
    BY <1>5, <1>8, <2>2
  <2> QED BY <2>1, <2>2, <2>3, ListIs DEF Ages
<1>10. ASSUME NEW i \in DOMAIN Recent(s), NEW j \in DOMAIN Recent(s), i <= j
       PROVE  Recent(s)[i] >= Recent(s)[j]
  <2>1. i \in 1..(Len(s) - n) /\ j \in 1..(Len(s) - n)
    BY <1>9
  <2>2. i + n \in DOMAIN s /\ j + n \in DOMAIN s /\ i + n <= j + n
    BY <1>0, <1>3, <1>7, <1>10, <2>1
  <2>3. s[i + n] >= s[j + n] /\ s[i + n] \in Nat /\ s[j + n] \in Nat
    BY <1>0, <2>2
  <2>4. Recent(s)[i] = s[i + n] + 1 /\ Recent(s)[j] = s[j + n] + 1
    BY <1>5, <2>1
  <2> QED BY <2>3, <2>4
<1>11. Recent(s) \in Times
  BY <1>9, <1>10 DEF Times
<1>12. ASSUME NEW k \in Nat, \A i \in DOMAIN s : s[i] >= k, NEW i \in DOMAIN Recent(s)
       PROVE  Recent(s)[i] >= k + 1
  <2>1. i \in 1..(Len(s) - n)
    BY <1>9
  <2>2. Recent(s)[i] = s[i + n] + 1 /\ s[i + n] >= k /\ s[i + n] \in Nat
    BY <1>5, <1>7, <1>8, <1>12, <2>1
  <2> QED BY <2>2
<1>13. n = Len(s) => Recent(s) = <<>>
  BY <1>0, <1>9 DEF Ages
<1>14. \A k \in Nat : (\A i \in DOMAIN s : s[i] >= k)
          => \A i \in DOMAIN Recent(s) : Recent(s)[i] >= k + 1
  BY <1>12
<1>15. Len(Recent(s)) <= Len(s)
  BY <1>0, <1>3, <1>9
<1> QED BY <1>4, <1>11, <1>13, <1>14, <1>15

LEMMA OlderIs ==
  ASSUME NEW most \in Nat, NEW t \in Age(most)
  PROVE  /\ Older(t, most) \in Age(most)
         /\ t < most => Older(t, most) = t + 1
         /\ t >= most => Older(t, most) = t
BY DEF Older, Age, Never

LEMMA TickCounted ==
  ASSUME NEW c \in Circuits, NEW h \in Histories, Counted(c, h), NEW d \in Circuits,
         d.restarts = Recent(c.restarts), d.fires = Recent(c.fires),
         d.broken = Older(c.broken, PauseTicks), NEW g \in Histories,
         g.prompts = Recent(h.prompts), g.forced = Recent(h.forced)
  PROVE  Counted(d, g)
<1>1. /\ c.restarts \in Times /\ c.fires \in Times
      /\ h.prompts \in Times /\ h.forced \in Times
  BY DEF Circuits, Histories
<1>2. c.broken \in Age(PauseTicks)
  BY DEF Circuits
<1>3. Len(g.prompts) <= 2 /\ Len(g.forced) <= 3
  <2>1. /\ Len(g.prompts) <= Len(h.prompts) /\ Len(g.forced) <= Len(h.forced)
        /\ Len(g.prompts) \in Nat /\ Len(g.forced) \in Nat
        /\ Len(h.prompts) \in Nat /\ Len(h.forced) \in Nat
    <3>1. g.prompts \in Seq(Nat) /\ g.forced \in Seq(Nat)
      BY TimesAre DEF Histories
    <3>2. h.prompts \in Seq(Nat) /\ h.forced \in Seq(Nat)
      BY <1>1, TimesAre
    <3> QED BY <1>1, <3>1, <3>2, RecentIs
  <2> QED BY <2>1 DEF Counted
<1>4. CASE c.broken = Never
  <2>1. d.broken = Never
    BY <1>2, <1>4, OlderIs, FleetNumbers DEF Never
  <2> QED BY <1>3, <1>4, <2>1 DEF Counted
<1>5. CASE c.broken # Never
  <2>1. c.broken \in 0..PauseTicks
    BY <1>2, <1>5 DEF Age
  <2>2. CASE c.broken = PauseTicks
    <3>1. h.prompts = <<>> /\ h.forced = <<>>
      BY <1>5, <2>2, FleetNumbers DEF Counted
    <3>2. g.prompts = <<>> /\ g.forced = <<>>
      <4>1. <<>> \in Times /\ \A i \in DOMAIN <<>> : <<>>[i] + 1 >= WindowTicks
        BY TimesAre
      <4>2. Recent(<<>>) = <<>>
        BY <4>1, RecentIs
      <4> QED BY <3>1, <4>2
    <3>3. d.broken = PauseTicks
      BY <2>2, FleetNumbers DEF Older
    <3>4. DOMAIN g.prompts = {} /\ DOMAIN g.forced = {}
      BY <3>2
    <3> QED BY <1>3, <3>2, <3>3, <3>4, FleetNumbers DEF Counted, Never
  <2>3. CASE c.broken < PauseTicks
    <3>1. d.broken = c.broken + 1 /\ c.broken \in Nat /\ d.broken # Never
      BY <2>1, <2>3, FleetNumbers DEF Older, Never
    <3>2. /\ \A i \in DOMAIN h.prompts : h.prompts[i] >= c.broken
          /\ \A i \in DOMAIN h.forced : h.forced[i] >= c.broken
      BY <1>5 DEF Counted
    <3>3. /\ \A i \in DOMAIN g.prompts : g.prompts[i] >= d.broken
          /\ \A i \in DOMAIN g.forced : g.forced[i] >= d.broken
      BY <1>1, <3>1, <3>2, RecentIs
    <3>4. ASSUME d.broken >= WindowTicks PROVE g.prompts = <<>> /\ g.forced = <<>>
      <4>1. /\ \A i \in DOMAIN h.prompts : h.prompts[i] + 1 >= WindowTicks
            /\ \A i \in DOMAIN h.forced : h.forced[i] + 1 >= WindowTicks
        <5>1. /\ \A i \in DOMAIN h.prompts : h.prompts[i] \in Nat
              /\ \A i \in DOMAIN h.forced : h.forced[i] \in Nat
          <6>1. h.prompts \in Seq(Nat) /\ h.forced \in Seq(Nat)
            BY <1>1, TimesAre
          <6> QED BY <6>1
        <5> QED BY <3>1, <3>2, <3>4, <5>1, FleetNumbers
      <4> QED BY <1>1, <4>1, RecentIs
    <3> QED BY <1>3, <3>1, <3>3, <3>4 DEF Counted
  <2> QED BY <2>1, <2>2, <2>3, FleetNumbers
<1> QED BY <1>4, <1>5

-----------------------------------------------------------------------------
(* The leases *)

LEMMA MonitorFields ==
  ASSUME NEW m \in Monitor
  PROVE  /\ m.seen \in {"none", "older", "old", "cur"} /\ m.anchor \in Age(GraceTicks)
         /\ m.lease \in BOOLEAN /\ m.fired \in BOOLEAN
         /\ m.deadline \in Age(DeadlineTicks) /\ m.deadline \in Nat
         /\ m.baseline \in 0..2 \cup {Never}
BY FleetNumbers DEF Monitor, Age, Never

\* A lease is given back: fewer are active, and none is the agent's.
LEMMA WithoutIs ==
  ASSUME NEW f, LeaseFile(f), NEW a
  PROVE  /\ LeaseFile(Without(f, a)) /\ ~Leased(Without(f, a), a)
         /\ \A e \in f.active : e.agent # a => e \in Without(f, a).active
         /\ Without(f, a).active \subseteq f.active
<1>1. Without(f, a).active = {e \in f.active : e.agent # a}
  BY DEF Without
<1>2. Without(f, a) = [active |-> Without(f, a).active, queue |-> Without(f, a).queue]
  BY DEF Without
<1>3. Without(f, a).active \subseteq f.active
  BY <1>1
<1>4. /\ IsFiniteSet(Without(f, a).active)
      /\ Cardinality(Without(f, a).active) <= Cardinality(f.active)
      /\ Cardinality(Without(f, a).active) \in Nat /\ Cardinality(f.active) \in Nat
  BY <1>3, FS_Subset, FS_CardinalityType DEF LeaseFile
<1>5. Without(f, a).queue \in Seq(Place)
  <2>1. PICK K : K = [agent : Agents \ {a}, age : Nat]
    OBVIOUS
  <2>2. Without(f, a).queue = Only(f.queue, K)
    BY <2>1 DEF Without
  <2>3. Only(f.queue, K) \in Seq(Place \cap K)
    BY OnlyIs DEF LeaseFile
  <2> QED BY <2>2, <2>3
<1>6. LeaseFile(Without(f, a))
  BY <1>2, <1>3, <1>4, <1>5, FleetNumbers DEF LeaseFile
<1>7. ~Leased(Without(f, a), a)
  BY <1>1 DEF Leased
<1>8. \A e \in f.active : e.agent # a => e \in Without(f, a).active
  BY <1>1
<1> QED BY <1>3, <1>6, <1>7, <1>8

\* A lease is granted: there was room for it, or it was there.
LEMMA WithLeaseIs ==
  ASSUME NEW f, LeaseFile(f), NEW a \in Agents, Granted(f, a)
  PROVE  /\ LeaseFile(WithLease(f, a))
         /\ f.active \subseteq WithLease(f, a).active
         /\ \A e \in WithLease(f, a).active : e \in f.active \/ e.agent = a
         /\ ~Leased(f, a) => [agent |-> a, age |-> 0] \in WithLease(f, a).active
<1>1. CASE Leased(f, a)
  BY <1>1 DEF WithLease
<1>2. CASE ~Leased(f, a)
  <2>1. PICK e : e = [agent |-> a, age |-> 0]
    OBVIOUS
  <2>2. /\ WithLease(f, a).active = f.active \cup {e}
        /\ WithLease(f, a) = [active |-> WithLease(f, a).active, queue |-> WithLease(f, a).queue]
    BY <1>2, <2>1 DEF WithLease
  <2>3. Cardinality(f.active) < MaxConcurrent
    BY <1>2 DEF Granted
  <2>4. /\ IsFiniteSet(f.active \cup {e})
        /\ Cardinality(f.active \cup {e}) =
             IF e \in f.active THEN Cardinality(f.active) ELSE Cardinality(f.active) + 1
        /\ Cardinality(f.active) \in Nat
    BY FS_AddElement, FS_CardinalityType DEF LeaseFile
  <2>5. f.active \cup {e} \subseteq Lease
    BY <2>1, FleetNumbers DEF LeaseFile, Lease
  <2>6. WithLease(f, a).queue \in Seq(Place)
    BY <1>2 DEF WithLease, LeaseFile
  <2>7. LeaseFile(WithLease(f, a))
    BY <2>2, <2>3, <2>4, <2>5, <2>6, FleetNumbers DEF LeaseFile
  <2> QED BY <2>1, <2>2, <2>7
<1> QED BY <1>1, <1>2

LEMMA WaitingIs ==
  ASSUME NEW f, LeaseFile(f), NEW a \in Agents
  PROVE  LeaseFile(Waiting(f, a)) /\ Waiting(f, a).active = f.active
<1>1. CASE Queued(f, a)
  BY <1>1 DEF Waiting
<1>2. CASE ~Queued(f, a)
  <2>1. PICK q : q = Append(f.queue, [agent |-> a, age |-> 0])
    OBVIOUS
  <2>2. Waiting(f, a) = [f EXCEPT !.queue = q]
    BY <1>2, <2>1 DEF Waiting
  <2>3. f = [active |-> f.active, queue |-> f.queue]
    BY DEF LeaseFile
  <2>4. Waiting(f, a) = [active |-> f.active, queue |-> q]
    BY <2>2, <2>3
  <2>5. q \in Seq(Place)
    <3>1. [agent |-> a, age |-> 0] \in Place
      BY FleetNumbers DEF Place
    <3> QED BY <2>1, <3>1 DEF LeaseFile
  <2> QED BY <2>4, <2>5 DEF LeaseFile
<1> QED BY <1>1, <1>2

\* An agent is settled as far as its own leases are the same.
LEMMA SettledElsewhere ==
  ASSUME NEW m, NEW f, NEW g, NEW a, NEW named, MonitorSettled(m, f, a, named),
         \A e \in f.active : e.agent = a => e \in g.active,
         \A e \in g.active : e.agent = a => e \in f.active
  PROVE  MonitorSettled(m, g, a, named)
BY DEF MonitorSettled, Leased

\* Another session was noticed, or nothing has changed.
LEMMA NoticedIs ==
  ASSUME Shapes, NEW a \in Agents
  PROVE  /\ Noticed(a) \in Monitor /\ LeaseFile(NoticedFile(a))
         /\ ~NewSession(a) => Noticed(a) = monitor[a] /\ NoticedFile(a) = file
         /\ NewSession(a) =>
              /\ NoticedFile(a) = Without(file, a)
              /\ Noticed(a).seen # "none" /\ Noticed(a).lease = FALSE
              /\ monitor[a].seen = "none" =>
                   Noticed(a).fired = monitor[a].fired /\ Noticed(a).deadline = monitor[a].deadline
              /\ monitor[a].seen # "none" =>
                   Noticed(a).fired = FALSE /\ Noticed(a).deadline = Never
<1>1. monitor[a] \in Monitor /\ LeaseFile(file)
  BY DEF Shapes
<1>2. CASE ~NewSession(a)
  BY <1>1, <1>2 DEF Noticed, NoticedFile
<1>3. CASE NewSession(a)
  <2>1. status[a].id \in {"old", "cur"}
    BY <1>3 DEF NewSession, Shapes, Status
  <2>2. PICK m : m = [monitor[a] EXCEPT !.seen = status[a].id, !.lease = FALSE, !.anchor = 0]
    OBVIOUS
  <2>3. 0 \in Age(GraceTicks) /\ Never \in Age(DeadlineTicks)
    BY HandoffAssumption DEF Age
  <2>4. /\ m \in Monitor /\ m.seen # "none" /\ m.lease = FALSE
        /\ m.fired = monitor[a].fired /\ m.deadline = monitor[a].deadline
    BY <1>1, <2>1, <2>2, <2>3 DEF Monitor
  <2>5. Noticed(a) = IF monitor[a].seen = "none" THEN m
                     ELSE [m EXCEPT !.fired = FALSE, !.deadline = Never]
    BY <1>3, <2>2 DEF Noticed
  <2>6. CASE monitor[a].seen = "none"
    BY <1>1, <1>3, <2>4, <2>5, <2>6, WithoutIs DEF NoticedFile
  <2>7. CASE monitor[a].seen # "none"
    <3>1. /\ Noticed(a) \in Monitor /\ Noticed(a).seen # "none" /\ Noticed(a).lease = FALSE
          /\ Noticed(a).fired = FALSE /\ Noticed(a).deadline = Never
      BY <2>3, <2>4, <2>5, <2>7 DEF Monitor
    <3> QED BY <1>1, <1>3, <2>7, <3>1, WithoutIs DEF NoticedFile
  <2> QED BY <2>6, <2>7
<1> QED BY <1>2, <1>3

LEMMA NoticedSettled ==
  ASSUME FleetInv, NEW a \in up
  PROVE  MonitorSettled(Noticed(a), NoticedFile(a), a, past[a].named)
<1>1. a \in Agents /\ Shapes /\ MonitorSettled(monitor[a], file, a, past[a].named)
  BY DEF FleetInv, Shapes
<1>2. CASE ~NewSession(a)
  BY <1>1, <1>2, NoticedIs
<1>3. CASE NewSession(a)
  <2>1. LeaseFile(file)
    BY <1>1 DEF Shapes
  <2>2. ~Leased(NoticedFile(a), a)
    BY <1>1, <1>3, <2>1, NoticedIs, WithoutIs
  <2>3. ~(Noticed(a).deadline < DeadlineTicks /\ past[a].named)
    <3>1. CASE monitor[a].seen = "none"
      BY <1>1, <1>3, <3>1, NoticedIs DEF MonitorSettled
    <3>2. CASE monitor[a].seen # "none"
      <4>1. Noticed(a).deadline = Never
        BY <1>1, <1>3, <3>2, NoticedIs
      <4>2. ~(Never < DeadlineTicks)
        BY FleetNumbers DEF Never
      <4> QED BY <4>1, <4>2
    <3> QED BY <3>1, <3>2
  <2>4. ~Noticed(a).fired => Noticed(a).deadline = Never
    BY <1>1, <1>3, NoticedIs DEF MonitorSettled
  <2> QED BY <2>2, <2>3, <2>4 DEF MonitorSettled
<1> QED BY <1>2, <1>3

\* What the poll has before it decides.
LEMMA ReadsIs ==
  ASSUME FleetInv, NEW a \in up
  PROVE  /\ Reads(a) \in Monitor /\ LeaseFile(ReadsFile(a))
         /\ MonitorSettled(Reads(a), ReadsFile(a), a, past[a].named)
         /\ \A e \in file.active : e.agent # a => e \in ReadsFile(a).active
         /\ ReadsFile(a).active \subseteq file.active
<1>1. a \in Agents /\ Shapes /\ LeaseFile(file)
  BY DEF FleetInv, Shapes
<1>2. PICK m : m = Noticed(a)
  OBVIOUS
<1>3. PICK f : f = NoticedFile(a)
  OBVIOUS
<1>4. m \in Monitor /\ LeaseFile(f) /\ MonitorSettled(m, f, a, past[a].named)
  BY <1>1, <1>2, <1>3, NoticedIs, NoticedSettled
<1>5. /\ Reads(a) \in Monitor
      /\ Reads(a).seen = m.seen /\ Reads(a).lease = m.lease
      /\ Reads(a).fired = m.fired /\ Reads(a).deadline = m.deadline
  <2>1. Share(a) \in 0..2
    BY <1>1 DEF Share, Shapes, Status
  <2> QED BY <1>2, <1>4, <2>1 DEF Reads, Based, Monitor
<1>6. ReadsFile(a) = IF Share(a) = 0 /\ ~m.lease THEN Without(f, a) ELSE f
  BY <1>2, <1>3 DEF ReadsFile, Unleaked
<1>7. /\ \A e \in file.active : e.agent # a => e \in f.active
      /\ f.active \subseteq file.active
  <2>1. CASE NewSession(a)
    <3>1. f = Without(file, a)
      BY <1>1, <1>3, <2>1, NoticedIs
    <3> QED BY <1>1, <3>1, WithoutIs
  <2>2. CASE ~NewSession(a)
    BY <1>1, <1>3, <2>2, NoticedIs
  <2> QED BY <2>1, <2>2
<1>8. CASE ~(Share(a) = 0 /\ ~m.lease)
  BY <1>4, <1>5, <1>6, <1>7, <1>8 DEF MonitorSettled
<1>9. CASE Share(a) = 0 /\ ~m.lease
  <2>1. ReadsFile(a) = Without(f, a)
    BY <1>6, <1>9
  <2>2. /\ LeaseFile(ReadsFile(a)) /\ ~Leased(ReadsFile(a), a)
        /\ \A e \in f.active : e.agent # a => e \in ReadsFile(a).active
        /\ ReadsFile(a).active \subseteq f.active
    BY <1>4, <2>1, WithoutIs
  <2>3. MonitorSettled(Reads(a), ReadsFile(a), a, past[a].named)
    BY <1>4, <1>5, <1>9, <2>2 DEF MonitorSettled
  <2> QED BY <1>5, <1>7, <2>2, <2>3
<1> QED BY <1>8, <1>9

-----------------------------------------------------------------------------
(* The steps of the fleet *)

\* What a poll has to show of the agent that is polled.
LEMMA PollKeeps ==
  ASSUME FleetInv, NEW a \in up, UNCHANGED up,
         NEW m \in Monitor, NEW c \in Circuits, NEW f, Keeps(a, m, c, f),
         LeaseFile(f),
         \A e \in file.active : e.agent # a => e \in f.active,
         \A e \in f.active : e \in file.active \/ e.agent = a,
         NEW s \in Status, status' = [status EXCEPT ![a] = s],
         NEW h \in Histories, past' = [past EXCEPT ![a] = h],
         Counted(c, h), MonitorSettled(m, f, a, h.named)
  PROVE  FleetInv'
<1>1. a \in Agents /\ Shapes
  BY DEF FleetInv, Shapes
<1>2. /\ monitor' = [monitor EXCEPT ![a] = m] /\ circuit' = [circuit EXCEPT ![a] = c] /\ file' = f
  BY DEF Keeps
<1>3. /\ monitor'[a] = m /\ circuit'[a] = c /\ past'[a] = h
      /\ \A b \in Agents \ {a} :
           monitor'[b] = monitor[b] /\ circuit'[b] = circuit[b] /\ past'[b] = past[b]
  BY <1>1, <1>2 DEF Shapes
<1>4. Shapes'
  BY <1>1, <1>2 DEF Shapes
<1>5. \A b \in Agents : Counted(circuit'[b], past'[b])
  BY <1>3 DEF FleetInv
<1>6. ASSUME NEW b \in up PROVE MonitorSettled(monitor'[b], file', b, past'[b].named)
  <2>1. CASE b = a
    BY <1>2, <1>3, <2>1
  <2>2. CASE b # a
    <3>1. MonitorSettled(monitor[b], file, b, past[b].named) /\ b \in Agents
      BY <1>1 DEF FleetInv, Shapes
    <3>2. MonitorSettled(monitor[b], f, b, past[b].named)
      BY <2>2, <3>1, SettledElsewhere
    <3> QED BY <1>2, <1>3, <2>2, <3>1, <3>2
  <2> QED BY <2>1, <2>2
<1> QED BY <1>4, <1>5, <1>6 DEF FleetInv

LEMMA AppendNow ==
  ASSUME NEW s \in Times
  PROVE  Append(s, 0) \in Times /\ Len(Append(s, 0)) = Len(s) + 1
<1>1. /\ s \in Ages /\ s \in Seq(Nat) /\ Len(s) \in Nat /\ DOMAIN s = 1..Len(s)
      /\ \A i, j \in DOMAIN s : i <= j => s[i] >= s[j]
  BY TimesAre DEF Times
<1>2. PICK t : t = Append(s, 0)
  OBVIOUS
<1>3. t \in Ages
  BY <1>1, <1>2, FleetNumbers DEF Ages
<1>4. /\ DOMAIN t = 1..(Len(s) + 1) /\ Len(t) = Len(s) + 1 /\ t[Len(s) + 1] = 0
      /\ \A i \in 1..Len(s) : t[i] = s[i] /\ s[i] \in Nat
  BY <1>1, <1>2
<1>5. ASSUME NEW i \in DOMAIN t, NEW j \in DOMAIN t, i <= j PROVE t[i] >= t[j]
  <2>1. CASE j = Len(s) + 1
    <3>1. t[i] \in Nat
      BY <1>1, <1>4
    <3> QED BY <1>4, <2>1, <3>1
  <2>2. CASE j # Len(s) + 1
    <3>1. i \in 1..Len(s) /\ j \in 1..Len(s)
      BY <1>1, <1>4, <1>5, <2>2
    <3>2. t[i] = s[i] /\ t[j] = s[j]
      BY <1>4, <3>1
    <3> QED BY <1>1, <1>5, <3>1, <3>2
  <2> QED BY <2>1, <2>2
<1> QED BY <1>2, <1>3, <1>4, <1>5 DEF Times

\* One more restart or prompt is counted.
LEMMA OneMore ==
  /\ \A c \in Circuits, s \in Times :
       /\ [c EXCEPT !.restarts = s] \in Circuits /\ [c EXCEPT !.restarts = s].restarts = s
       /\ [c EXCEPT !.restarts = s].fires = c.fires /\ [c EXCEPT !.restarts = s].broken = c.broken
       /\ [c EXCEPT !.fires = s] \in Circuits /\ [c EXCEPT !.fires = s].fires = s
       /\ [c EXCEPT !.fires = s].restarts = c.restarts /\ [c EXCEPT !.fires = s].broken = c.broken
  /\ \A h \in Histories, s \in Times :
       /\ [h EXCEPT !.forced = s] \in Histories /\ [h EXCEPT !.forced = s].forced = s
       /\ [h EXCEPT !.forced = s].prompts = h.prompts /\ [h EXCEPT !.forced = s].named = h.named
BY DEF Circuits, Histories

\* forceContextRestart, on whatever the poll has read: the breaker opens instead
\* of a fourth restart, or the lease is given back.
LEMMA ForceRestartKeeps ==
  ASSUME FleetInv, NEW a \in up, UNCHANGED up, ~Paused(a), NEW m \in Monitor, NEW f, LeaseFile(f),
         \A e \in file.active : e.agent # a => e \in f.active, f.active \subseteq file.active,
         MonitorSettled(m, f, a, past[a].named), ForceRestart(a, m, f)
  PROVE  FleetInv'
<1>1. /\ a \in Agents /\ past[a] \in Histories /\ status[a] \in Status
      /\ past \in [Agents -> Histories] /\ status \in [Agents -> Status]
      /\ Len(past[a].prompts) <= 2 /\ Len(past[a].forced) <= 3
  BY DEF FleetInv, Shapes, Counted
<1>2. PICK c : c = Circuit(a)
  OBVIOUS
<1>3. /\ c \in Circuits /\ c.broken = Never
      /\ c.fires = past[a].prompts /\ c.restarts = past[a].forced
  BY <1>1, <1>2, CircuitIsWhole
<1>4. CASE /\ Len(c.restarts) >= 3
           /\ Keeps(a, m, [c EXCEPT !.broken = 0], f)
           /\ UNCHANGED <<status, owed, past>>
  <2>1. PICK d : d = [c EXCEPT !.broken = 0]
    OBVIOUS
  <2>2. d \in Circuits /\ d.broken = 0
    BY <1>3, <2>1, FleetNumbers DEF Circuits, Age
  <2>3. Counted(d, past[a])
    BY <1>1, <1>3, <2>2, BreakCounted
  <2>4. status' = [status EXCEPT ![a] = status[a]] /\ past' = [past EXCEPT ![a] = past[a]]
    BY <1>1, <1>4
  <2> QED BY <1>1, <1>4, <2>1, <2>2, <2>3, <2>4, PollKeeps
<1>5. CASE /\ Len(c.restarts) < 3
           /\ Keeps(a, [m EXCEPT !.fired = FALSE, !.deadline = Never, !.baseline = Never,
                                 !.lease = FALSE],
                    [c EXCEPT !.restarts = Append(@, 0)], Without(f, a))
           /\ status' = [status EXCEPT ![a] = Emptied]
           /\ past' = [past EXCEPT ![a].forced = Append(@, 0)]
  <2>1. PICK d : d = [c EXCEPT !.restarts = Append(@, 0)]
    OBVIOUS
  <2>2. PICK n : n = [m EXCEPT !.fired = FALSE, !.deadline = Never, !.baseline = Never,
                               !.lease = FALSE]
    OBVIOUS
  <2>3. PICK h : h = [past[a] EXCEPT !.forced = Append(@, 0)]
    OBVIOUS
  <2>4. /\ d \in Circuits /\ d.restarts = Append(c.restarts, 0)
        /\ d.fires = c.fires /\ d.broken = c.broken
    <3>1. c.restarts \in Times
      BY <1>3 DEF Circuits
    <3>2. Append(c.restarts, 0) \in Times
      BY <3>1, AppendNow
    <3> QED BY <1>3, <2>1, <3>2, OneMore
  <2>5. n \in Monitor /\ n.fired = FALSE /\ n.deadline = Never
    BY <2>2 DEF Monitor, Age
  <2>6. /\ h \in Histories /\ h.forced = Append(past[a].forced, 0)
        /\ h.prompts = past[a].prompts /\ h.named = past[a].named
    <3>1. past[a].forced \in Times
      BY <1>1 DEF Histories
    <3>2. Append(past[a].forced, 0) \in Times
      BY <3>1, AppendNow
    <3> QED BY <1>1, <2>3, <3>2, OneMore
  <2>7. Counted(d, h)
    <3>1. past[a].forced \in Seq(Nat) /\ Len(past[a].forced) < 3
      BY <1>1, <1>3, <1>5, TimesAre DEF Histories
    <3>2. Len(Append(past[a].forced, 0)) <= 3
      BY <3>1
    <3> QED BY <1>1, <1>3, <2>4, <2>6, <3>2 DEF Counted
  <2>8. /\ LeaseFile(Without(f, a)) /\ ~Leased(Without(f, a), a)
        /\ \A e \in f.active : e.agent # a => e \in Without(f, a).active
        /\ Without(f, a).active \subseteq f.active
    BY WithoutIs
  <2>9. ~(Never < DeadlineTicks)
    BY FleetNumbers DEF Never
  <2>10. MonitorSettled(n, Without(f, a), a, h.named)
    BY <2>5, <2>8, <2>9 DEF MonitorSettled
  <2>11. past' = [past EXCEPT ![a] = h]
    BY <1>1, <1>5, <2>3
  <2>12. Emptied \in Status
    BY DEF Emptied, Status
  <2>13. Keeps(a, n, d, Without(f, a))
    BY <1>5, <2>1, <2>2
  <2>14. /\ \A e \in file.active : e.agent # a => e \in Without(f, a).active
         /\ \A e \in Without(f, a).active : e \in file.active \/ e.agent = a
    BY <2>8
  <2> QED BY <1>5, <2>4, <2>5, <2>6, <2>7, <2>8, <2>10, <2>11, <2>12, <2>13, <2>14, PollKeeps
<1> QED BY <1>2, <1>4, <1>5 DEF ForceRestart

LEMMA RestsKeeps == ASSUME FleetInv, NEW a \in up, UNCHANGED up, Rests(a) PROVE FleetInv'
<1>1. a \in Agents /\ circuit \in [Agents -> Circuits] /\ Shapes
  BY DEF FleetInv, Shapes
<1>2. Circuit(a) \in Circuits /\ Counted(Circuit(a), past[a])
  <2>1. Counted(circuit[a], past[a])
    BY <1>1 DEF FleetInv
  <2>2. CASE Paused(a)
    BY <1>1, <2>1, <2>2, PausedCircuit
  <2>3. CASE ~Paused(a)
    BY <1>1, <2>1, <2>3, CircuitIsWhole DEF Counted
  <2> QED BY <2>2, <2>3
<1>3. UNCHANGED <<status, monitor, file, past>> /\ circuit' = [circuit EXCEPT ![a] = Circuit(a)]
  BY DEF Rests
<1>4. Shapes'
  BY <1>1, <1>2, <1>3 DEF Shapes
<1>5. \A b \in Agents : Counted(circuit'[b], past'[b])
  BY <1>1, <1>2, <1>3 DEF FleetInv
<1> QED BY <1>3, <1>4, <1>5 DEF FleetInv

LEMMA RunsOutOfRoomKeeps ==
  ASSUME FleetInv, NEW a \in up, UNCHANGED up, RunsOutOfRoom(a) PROVE FleetInv'
<1>1. /\ monitor[a] \in Monitor /\ LeaseFile(file) /\ MonitorSettled(monitor[a], file, a, past[a].named)
  BY DEF FleetInv, Shapes
<1>2. ~Paused(a) /\ ForceRestart(a, monitor[a], file)
  BY DEF RunsOutOfRoom
<1> QED BY <1>1, <1>2, ForceRestartKeeps

LEMMA OverflowsKeeps ==
  ASSUME FleetInv, NEW a \in up, UNCHANGED up, Overflows(a) PROVE FleetInv'
<1>1. ~Paused(a) /\ ForceRestart(a, Noticed(a), NoticedFile(a))
  BY DEF Overflows, Readable
<1>2. a \in Agents /\ Shapes /\ LeaseFile(file)
  BY DEF FleetInv, Shapes
<1>3. Noticed(a) \in Monitor /\ LeaseFile(NoticedFile(a))
  BY <1>2, NoticedIs
<1>4. MonitorSettled(Noticed(a), NoticedFile(a), a, past[a].named)
  BY NoticedSettled
<1>5. /\ \A e \in file.active : e.agent # a => e \in NoticedFile(a).active
      /\ NoticedFile(a).active \subseteq file.active
  <2>1. NoticedFile(a) \in {file, Without(file, a)}
    BY DEF NoticedFile
  <2> QED BY <1>2, <2>1, WithoutIs
<1> QED BY <1>1, <1>3, <1>4, <1>5, ForceRestartKeeps

LEMMA GivesUpOnKeeps ==
  ASSUME FleetInv, NEW a \in up, UNCHANGED up, GivesUpOn(a) PROVE FleetInv'
<1>1. PICK m : m = [Reads(a) EXCEPT !.deadline = Never]
  OBVIOUS
<1>2. PICK f : f = ReadsFile(a)
  OBVIOUS
<1>3. ~Paused(a) /\ ForceRestart(a, m, f)
  BY <1>1, <1>2 DEF GivesUpOn, Readable
<1>4. /\ Reads(a) \in Monitor /\ LeaseFile(f) /\ MonitorSettled(Reads(a), f, a, past[a].named)
      /\ \A e \in file.active : e.agent # a => e \in f.active
      /\ f.active \subseteq file.active
  BY <1>2, ReadsIs
<1>5. /\ m \in Monitor /\ m.deadline = Never
      /\ m.fired = Reads(a).fired /\ m.seen = Reads(a).seen
  BY <1>1, <1>4 DEF Monitor, Age
<1>6. ~(Never < DeadlineTicks)
  BY FleetNumbers DEF Never
<1>7. MonitorSettled(m, f, a, past[a].named)
  BY <1>4, <1>5, <1>6 DEF MonitorSettled
<1> QED BY <1>3, <1>4, <1>5, <1>7, ForceRestartKeeps

\* A poll that neither prompts nor restarts.
LEMMA QuietPollKeeps ==
  ASSUME FleetInv, NEW a \in up, UNCHANGED <<up, status, past>>, ~Paused(a),
         NEW f, LeaseFile(f), f.active = ReadsFile(a).active, Keeps(a, Reads(a), Circuit(a), f)
  PROVE  FleetInv'
<1>1. /\ a \in Agents /\ past[a] \in Histories /\ status[a] \in Status
      /\ past \in [Agents -> Histories] /\ status \in [Agents -> Status]
      /\ Counted(circuit[a], past[a])
  BY DEF FleetInv, Shapes
<1>2. Circuit(a) \in Circuits /\ Counted(Circuit(a), past[a])
  BY <1>1, CircuitIsWhole DEF Counted
<1>3. /\ Reads(a) \in Monitor /\ MonitorSettled(Reads(a), ReadsFile(a), a, past[a].named)
      /\ \A e \in file.active : e.agent # a => e \in ReadsFile(a).active
      /\ ReadsFile(a).active \subseteq file.active
  BY ReadsIs
<1>4. MonitorSettled(Reads(a), f, a, past[a].named)
  BY <1>3, SettledElsewhere
<1>5. status' = [status EXCEPT ![a] = status[a]] /\ past' = [past EXCEPT ![a] = past[a]]
  BY <1>1
<1>6. /\ \A e \in file.active : e.agent # a => e \in f.active
      /\ \A e \in f.active : e \in file.active \/ e.agent = a
  BY <1>3
<1> QED BY <1>1, <1>2, <1>3, <1>4, <1>5, <1>6, PollKeeps

LEMMA WatchesKeeps == ASSUME FleetInv, NEW a \in up, UNCHANGED up, Watches(a) PROVE FleetInv'
<1>1. LeaseFile(ReadsFile(a))
  BY ReadsIs
<1>2. ~Paused(a) /\ Keeps(a, Reads(a), Circuit(a), ReadsFile(a)) /\ UNCHANGED <<status, past>>
  BY DEF Watches, Readable
<1> QED BY <1>1, <1>2, QuietPollKeeps

LEMMA WaitsKeeps == ASSUME FleetInv, NEW a \in up, UNCHANGED up, Waits(a) PROVE FleetInv'
<1>1. LeaseFile(ReadsFile(a))
  BY ReadsIs
<1>2. PICK f : f = Waiting(ReadsFile(a), a)
  OBVIOUS
<1>3. LeaseFile(f) /\ f.active = ReadsFile(a).active
  <2>1. a \in Agents
    BY DEF FleetInv, Shapes
  <2> QED BY <1>1, <1>2, <2>1, WaitingIs
<1>4. ~Paused(a) /\ Keeps(a, Reads(a), Circuit(a), f) /\ UNCHANGED <<status, past>>
  BY <1>2 DEF Waits, Readable
<1> QED BY <1>3, <1>4, QuietPollKeeps

LEMMA HandsOffKeeps == ASSUME FleetInv, NEW a \in up, UNCHANGED up, HandsOff(a) PROVE FleetInv'
<1>1. /\ a \in Agents /\ past[a] \in Histories /\ status[a] \in Status
      /\ past \in [Agents -> Histories] /\ status \in [Agents -> Status]
      /\ Len(past[a].prompts) <= 2 /\ Len(past[a].forced) <= 3
  BY DEF FleetInv, Shapes, Counted
<1>2. PICK c : c = [Circuit(a) EXCEPT !.fires = Append(@, 0)]
  OBVIOUS
<1>3. PICK r : r = ReadsFile(a)
  OBVIOUS
<1>4. PICK f : f = WithLease(r, a)
  OBVIOUS
<1>5. PICK m : m = Reads(a)
  OBVIOUS
<1>6. ~Paused(a) /\ ~m.fired /\ Granted(r, a)
  BY <1>3, <1>5 DEF HandsOff, Readable, Wants
<1>7. PICK k : k = Circuit(a)
  OBVIOUS
<1>8. /\ k \in Circuits /\ k.broken = Never
       /\ k.fires = past[a].prompts /\ k.restarts = past[a].forced
  BY <1>1, <1>6, <1>7, CircuitIsWhole
<1>9. /\ past[a].prompts \in Times /\ Append(past[a].prompts, 0) \in Times
      /\ Len(Append(past[a].prompts, 0)) = Len(past[a].prompts) + 1
  BY <1>1, AppendNow DEF Histories
<1>10. /\ c \in Circuits /\ c.fires = Append(past[a].prompts, 0)
      /\ c.restarts = past[a].forced /\ c.broken = Never
  <2>1. PICK s \in Times : s = Append(past[a].prompts, 0)
    BY <1>9
  <2>2. c = [k EXCEPT !.fires = Append(k.fires, 0)]
    BY <1>2, <1>7
  <2>3. c = [k EXCEPT !.fires = s]
    BY <1>8, <2>1, <2>2
  <2> QED BY <1>8, <2>1, <2>3, OneMore
<1>11. /\ m \in Monitor /\ LeaseFile(r) /\ MonitorSettled(m, r, a, past[a].named)
       /\ \A e \in file.active : e.agent # a => e \in r.active
       /\ r.active \subseteq file.active
  BY <1>3, <1>5, ReadsIs
<1>12. /\ LeaseFile(f) /\ r.active \subseteq f.active
       /\ \A e \in f.active : e \in r.active \/ e.agent = a
       /\ ~Leased(r, a) => [agent |-> a, age |-> 0] \in f.active
  BY <1>1, <1>4, <1>6, <1>11, WithLeaseIs
<1>13. m.deadline = Never /\ (m.seen # "none" => ~Leased(r, a))
  BY <1>6, <1>11 DEF MonitorSettled
<1>14. ~(Never < DeadlineTicks) /\ 0 \in Age(DeadlineTicks) /\ 0 \in Age(PauseTicks)
  BY FleetNumbers DEF Never, Age
<1>15. CASE /\ Len(c.fires) >= 3
            /\ Keeps(a, [m EXCEPT !.lease = FALSE], [c EXCEPT !.broken = 0], Without(f, a))
            /\ UNCHANGED <<status, past>>
  <2>1. PICK d : d = [c EXCEPT !.broken = 0]
    OBVIOUS
  <2>2. PICK n : n = [m EXCEPT !.lease = FALSE]
    OBVIOUS
  <2>3. d \in Circuits /\ d.broken = 0
    BY <1>10, <1>14, <2>1 DEF Circuits
  <2>4. /\ n \in Monitor /\ n.deadline = m.deadline /\ n.fired = m.fired
    BY <1>11, <2>2 DEF Monitor
  <2>5. Counted(d, past[a])
    BY <1>1, <1>10, <2>3, BreakCounted
  <2>6. /\ LeaseFile(Without(f, a)) /\ ~Leased(Without(f, a), a)
        /\ \A e \in f.active : e.agent # a => e \in Without(f, a).active
        /\ Without(f, a).active \subseteq f.active
    BY <1>12, WithoutIs
  <2>7. MonitorSettled(n, Without(f, a), a, past[a].named)
    BY <1>13, <1>14, <2>4, <2>6 DEF MonitorSettled
  <2>8. status' = [status EXCEPT ![a] = status[a]] /\ past' = [past EXCEPT ![a] = past[a]]
    BY <1>1, <1>15
  <2>9. /\ \A e \in file.active : e.agent # a => e \in Without(f, a).active
        /\ \A e \in Without(f, a).active : e \in file.active \/ e.agent = a
    BY <1>11, <1>12, <2>6
  <2>10. Keeps(a, n, d, Without(f, a))
    BY <1>15, <2>1, <2>2
  <2> QED BY <1>1, <2>3, <2>4, <2>5, <2>6, <2>7, <2>8, <2>9, <2>10, PollKeeps
<1>16. CASE /\ Len(c.fires) < 3
            /\ Keeps(a, [m EXCEPT !.lease = TRUE, !.fired = TRUE, !.deadline = 0], c, f)
            /\ status' = [status EXCEPT ![a] = Emptied]
            /\ past' = [past EXCEPT ![a].prompts = Append(@, 0), ![a].named = m.seen # "none"]
  <2>1. PICK n : n = [m EXCEPT !.lease = TRUE, !.fired = TRUE, !.deadline = 0]
    OBVIOUS
  <2>2. PICK named \in BOOLEAN : named = (m.seen # "none")
    OBVIOUS
  <2>3. PICK s : s = Append(past[a].prompts, 0)
    OBVIOUS
  <2>4. PICK h : h = [past[a] EXCEPT !.prompts = s, !.named = named]
    OBVIOUS
  <2>5. /\ n \in Monitor /\ n.seen = m.seen
        /\ n.lease = TRUE /\ n.fired = TRUE /\ n.deadline = 0
    BY <1>11, <1>14, <2>1 DEF Monitor
  <2>6. /\ h \in Histories /\ h.prompts = s /\ h.forced = past[a].forced /\ h.named = named
    BY <1>1, <1>9, <2>2, <2>3, <2>4 DEF Histories
  <2>7. Counted(c, h)
    <3>1. Len(s) <= 2
      BY <1>9, <1>10, <1>16, <2>3
    <3> QED BY <1>1, <1>10, <2>3, <2>6, <3>1 DEF Counted
  <2>8. MonitorSettled(n, f, a, h.named)
    <3>1. ASSUME named PROVE \E e \in f.active : e.agent = a /\ e.age <= 0
      <4>1. [agent |-> a, age |-> 0] \in f.active
        BY <1>12, <1>13, <2>2, <3>1
      <4> QED BY <4>1
    <3> QED BY <2>2, <2>5, <2>6, <3>1 DEF MonitorSettled
  <2>9. past' = [past EXCEPT ![a] = h]
    BY <1>1, <1>16, <2>2, <2>3, <2>4
  <2>10. Emptied \in Status
    BY DEF Emptied, Status
  <2>11. /\ \A e \in file.active : e.agent # a => e \in f.active
         /\ \A e \in f.active : e \in file.active \/ e.agent = a
    BY <1>11, <1>12
  <2>12. Keeps(a, n, c, f)
    BY <1>16, <2>1
  <2> QED BY <1>10, <1>12, <1>16, <2>5, <2>6, <2>7, <2>8, <2>9, <2>10, <2>11, <2>12, PollKeeps
<1>17. \/ /\ Len(c.fires) >= 3
          /\ Keeps(a, [m EXCEPT !.lease = FALSE], [c EXCEPT !.broken = 0], Without(f, a))
          /\ UNCHANGED <<status, past>>
       \/ /\ Len(c.fires) < 3
          /\ Keeps(a, [m EXCEPT !.lease = TRUE, !.fired = TRUE, !.deadline = 0], c, f)
          /\ status' = [status EXCEPT ![a] = Emptied]
          /\ past' = [past EXCEPT ![a].prompts = Append(@, 0), ![a].named = m.seen # "none"]
  BY <1>2, <1>3, <1>4, <1>5 DEF HandsOff
<1> QED BY <1>15, <1>16, <1>17

LEMMA ChecksKeeps == ASSUME FleetInv, NEW a, Checks(a) PROVE FleetInv'
<1>1. a \in up /\ UNCHANGED up
  BY DEF Checks
<1> QED BY <1>1, RestsKeeps, RunsOutOfRoomKeeps, OverflowsKeeps, GivesUpOnKeeps, WatchesKeeps,
           WaitsKeeps, HandsOffKeeps DEF Checks

-----------------------------------------------------------------------------
(* Sessions and time *)

LEMMA ElapsedType == ASSUME NEW s \in Status PROVE Elapsed(s) \in Status
BY DEF Elapsed, Status

LEMMA ReportsKeeps == ASSUME FleetInv, NEW a \in Agents, Reports(a) PROVE FleetInv'
<1>1. PICK s \in Status : status' = [status EXCEPT ![a] = s]
  BY DEF Reports
<1>2. UNCHANGED <<up, monitor, circuit, file, past>>
  BY DEF Reports
<1>3. Shapes'
  BY <1>1, <1>2 DEF FleetInv, Shapes
<1> QED BY <1>2, <1>3 DEF FleetInv

LEMMA SessionStartsKeeps == ASSUME FleetInv, NEW a \in Agents, SessionStarts(a) PROVE FleetInv'
<1>1. /\ monitor' = [monitor EXCEPT ![a].seen = SeenBefore(a), ![a].baseline = Never]
      /\ status' = [status EXCEPT ![a] = Elapsed(status[a])]
      /\ UNCHANGED <<up, circuit, file, past>>
  BY DEF SessionStarts
<1>2. PICK m : m = [monitor[a] EXCEPT !.seen = SeenBefore(a), !.baseline = Never]
  OBVIOUS
<1>3. monitor[a] \in Monitor /\ status[a] \in Status /\ Shapes
  BY DEF FleetInv, Shapes
<1>4. /\ SeenBefore(a) \in {"none", "older", "old", "cur"}
      /\ SeenBefore(a) = "none" <=> monitor[a].seen = "none"
  BY <1>3, MonitorFields DEF SeenBefore
<1>5. /\ m \in Monitor /\ m.seen = SeenBefore(a) /\ m.lease = monitor[a].lease
      /\ m.fired = monitor[a].fired /\ m.deadline = monitor[a].deadline
  BY <1>2, <1>3, <1>4 DEF Monitor
<1>6. monitor' = [monitor EXCEPT ![a] = m]
  BY <1>1, <1>2, <1>3 DEF Shapes
<1>7. Shapes'
  BY <1>1, <1>3, <1>5, <1>6, ElapsedType DEF Shapes
<1>8. ASSUME NEW b \in up PROVE MonitorSettled(monitor'[b], file, b, past[b].named)
  <2>1. MonitorSettled(monitor[b], file, b, past[b].named) /\ b \in Agents
    BY DEF FleetInv, Shapes
  <2>2. CASE b = a
    BY <1>3, <1>4, <1>5, <1>6, <2>1, <2>2 DEF MonitorSettled, Shapes
  <2>3. CASE b # a
    BY <1>3, <1>6, <2>1, <2>3 DEF Shapes
  <2> QED BY <2>2, <2>3
<1> QED BY <1>1, <1>7, <1>8 DEF FleetInv

LEMMA AgentStopsKeeps == ASSUME FleetInv, NEW a \in Agents, AgentStops(a) PROVE FleetInv'
BY DEF AgentStops, FleetInv, Shapes

LEMMA AgentStartsKeeps == ASSUME FleetInv, NEW a \in Agents, AgentStarts(a) PROVE FleetInv'
<1>1. /\ up' = up \cup {a}
      /\ monitor' = [monitor EXCEPT ![a] = FreshMonitor]
      /\ status' = [status EXCEPT ![a] = Elapsed(status[a])]
      /\ UNCHANGED <<circuit, file, past>>
  BY DEF AgentStarts
<1>2. Shapes
  BY DEF FleetInv
<1>3. PICK m : m = FreshMonitor
  OBVIOUS
<1>4. m \in Monitor /\ m.seen = "none" /\ m.deadline = Never
  BY <1>3 DEF FreshMonitor, Monitor, Age
<1>5. Shapes'
  BY <1>1, <1>2, <1>3, <1>4, ElapsedType DEF Shapes
<1>6. ~(Never < DeadlineTicks)
  BY FleetNumbers DEF Never
<1>7. ASSUME NEW b \in up' PROVE MonitorSettled(monitor'[b], file, b, past[b].named)
  <2>1. CASE b = a
    <3>1. monitor'[b] = m
      BY <1>1, <1>2, <1>3, <2>1 DEF Shapes
    <3> QED BY <1>4, <1>6, <3>1 DEF MonitorSettled
  <2>2. CASE b # a
    <3>1. b \in up /\ b \in Agents /\ MonitorSettled(monitor[b], file, b, past[b].named)
      BY <1>1, <1>2, <2>2 DEF FleetInv, Shapes
    <3> QED BY <1>1, <1>2, <2>2, <3>1 DEF Shapes
  <2> QED BY <2>1, <2>2
<1> QED BY <1>1, <1>5, <1>7 DEF FleetInv

\* The leases a tick later: those that are left are as many at the most, and only
\* the old ones are gone.
LEMMA KeptIs ==
  ASSUME NEW f, LeaseFile(f)
  PROVE  /\ LeaseFile(Kept(f))
         /\ \A a \in Agents, age \in Nat :
              [agent |-> a, age |-> age] \in f.active /\ age + 1 < LeaseTicks
                => [agent |-> a, age |-> age + 1] \in Kept(f).active
         /\ \A e \in Kept(f).active : \E x \in f.active : x.agent = e.agent
<1> DEFINE g == [x \in f.active |-> [x EXCEPT !.age = x.age + 1]]
           T == {[x EXCEPT !.age = x.age + 1] : x \in f.active}
<1>1. f.active \subseteq [agent : Agents, age : Nat]
  BY DEF LeaseFile, Lease
<1>2. \A x \in f.active : /\ [x EXCEPT !.age = x.age + 1] \in [agent : Agents, age : Nat]
                          /\ [x EXCEPT !.age = x.age + 1].agent = x.agent
                          /\ [x EXCEPT !.age = x.age + 1].age = x.age + 1
  BY <1>1
<1>3. IsFiniteSet(T) /\ Cardinality(T) <= Cardinality(f.active)
  <2>1. g \in [f.active -> T] /\ \A t \in T : \E x \in f.active : g[x] = t
    OBVIOUS
  <2>2. IsFiniteSet(f.active)
    BY DEF LeaseFile
  <2> HIDE DEF g, T
  <2> QED BY <2>1, <2>2, Covers
<1>4. Kept(f).active = {e \in T : e.age < LeaseTicks}
  BY DEF Kept
<1>5. Kept(f) = [active |-> Kept(f).active, queue |-> Kept(f).queue]
  BY DEF Kept
<1>6. Kept(f).active \subseteq Lease
  <2>1. \A e \in [agent : Agents, age : Nat] : e.age < LeaseTicks => e \in Lease
    BY FleetNumbers DEF Lease
  <2> QED BY <1>2, <1>4, <2>1
<1>7. \A e \in Kept(f).active : \E x \in f.active : x.agent = e.agent
  BY <1>2, <1>4
<1>8. ASSUME NEW a \in Agents, NEW age \in Nat, [agent |-> a, age |-> age] \in f.active,
             age + 1 < LeaseTicks
      PROVE  [agent |-> a, age |-> age + 1] \in Kept(f).active
  <2>1. PICK x \in f.active : x = [agent |-> a, age |-> age]
    BY <1>8
  <2>2. [x EXCEPT !.age = x.age + 1] = [agent |-> a, age |-> age + 1]
    BY <2>1
  <2>3. [x EXCEPT !.age = x.age + 1] \in T
    OBVIOUS
  <2> HIDE DEF T
  <2> QED BY <1>4, <1>8, <2>2, <2>3
<1> HIDE DEF T
<1>9. /\ IsFiniteSet(Kept(f).active) /\ Cardinality(Kept(f).active) <= Cardinality(T)
      /\ Cardinality(Kept(f).active) \in Nat /\ Cardinality(T) \in Nat
      /\ Cardinality(f.active) \in Nat
  <2>1. Kept(f).active \subseteq T
    BY <1>4
  <2> QED BY <1>3, <2>1, FS_Subset, FS_CardinalityType DEF LeaseFile
<1>10. Kept(f).queue \in Seq(Place)
  <2>1. PICK q : q = [i \in DOMAIN f.queue |-> [f.queue[i] EXCEPT !.age = f.queue[i].age + 1]]
    OBVIOUS
  <2>2. Kept(f).queue = Only(q, Place)
    BY <2>1 DEF Kept, Place
  <2>3. q \in Seq([agent : Agents, age : Nat])
    <3>1. f.queue \in Seq(Place) /\ Place \subseteq [agent : Agents, age : Nat]
      BY DEF LeaseFile, Place
    <3>2. \A i \in DOMAIN f.queue : f.queue[i] \in [agent : Agents, age : Nat]
      BY <3>1
    <3>3. \A i \in DOMAIN f.queue :
            [f.queue[i] EXCEPT !.age = f.queue[i].age + 1] \in [agent : Agents, age : Nat]
      BY <3>2
    <3>4. Len(f.queue) \in Nat /\ DOMAIN f.queue = 1..Len(f.queue)
      BY <3>1
    <3>5. PICK E : E = [agent : Agents, age : Nat]
      OBVIOUS
    <3>6. q \in [1..Len(f.queue) -> E]
      BY <2>1, <3>3, <3>4, <3>5
    <3> QED BY <3>4, <3>5, <3>6, ListIs
  <2>4. Only(q, Place) \in Seq([agent : Agents, age : Nat] \cap Place)
    BY <2>3, OnlyIs
  <2> QED BY <2>2, <2>4
<1>11. LeaseFile(Kept(f))
  BY <1>3, <1>5, <1>6, <1>9, <1>10, FleetNumbers DEF LeaseFile
<1> QED BY <1>7, <1>8, <1>11

\* Time: what an agent has to keep ages as fast as its lease.
LEMMA TickSettled ==
  ASSUME NEW m \in Monitor, NEW f, LeaseFile(f), NEW a \in Agents, NEW named,
         MonitorSettled(m, f, a, named), NEW n \in Monitor,
         n.seen = m.seen, n.lease = m.lease, n.fired = m.fired,
         n.deadline = Older(m.deadline, DeadlineTicks)
  PROVE  MonitorSettled(n, Kept(f), a, named)
<1>1. m.deadline \in Age(DeadlineTicks) /\ m.deadline \in Nat
  BY MonitorFields
<1>2. /\ m.deadline < DeadlineTicks => n.deadline = m.deadline + 1
      /\ ~(m.deadline < DeadlineTicks) => n.deadline = m.deadline
  BY DEF Older
<1>3. ~m.fired => m.deadline = Never /\ n.deadline = Never
  BY <1>2, FleetNumbers DEF MonitorSettled, Never
<1>4. Leased(Kept(f), a) => Leased(f, a)
  BY KeptIs DEF Leased
<1>5. ASSUME n.deadline < DeadlineTicks, named
      PROVE  /\ n.seen # "none" /\ n.lease /\ n.fired
             /\ \E e \in Kept(f).active : e.agent = a /\ e.age <= n.deadline
  <2>1. m.deadline < DeadlineTicks /\ n.deadline = m.deadline + 1
    BY <1>1, <1>2, <1>5, FleetNumbers
  <2>2. PICK e \in f.active : e.agent = a /\ e.age <= m.deadline
    BY <1>5, <2>1 DEF MonitorSettled
  <2>3. e = [agent |-> a, age |-> e.age] /\ e.age \in Nat
    BY <2>2 DEF LeaseFile, Lease
  <2>4. e.age + 1 < LeaseTicks /\ e.age + 1 <= n.deadline
    BY <1>1, <1>5, <2>1, <2>2, <2>3, FleetNumbers
  <2>5. PICK x : x = [agent |-> a, age |-> e.age + 1]
    OBVIOUS
  <2>6. x \in Kept(f).active
    BY <2>2, <2>3, <2>4, <2>5, KeptIs
  <2>7. x.agent = a /\ x.age = e.age + 1
    BY <2>5
  <2> QED BY <1>5, <2>1, <2>4, <2>6, <2>7 DEF MonitorSettled
<1> QED BY <1>3, <1>4, <1>5 DEF MonitorSettled

LEMMA TickKeeps == ASSUME FleetInv, Tick PROVE FleetInv'
<1>1. /\ file' = Kept(file) /\ UNCHANGED <<up, status>>
      /\ \A a \in Agents :
           /\ monitor'[a] = [monitor[a] EXCEPT !.anchor = Older(monitor[a].anchor, GraceTicks),
                                               !.deadline = Older(monitor[a].deadline, DeadlineTicks)]
           /\ circuit'[a] = [restarts |-> Recent(circuit[a].restarts), fires |-> Recent(circuit[a].fires),
                             broken |-> Older(circuit[a].broken, PauseTicks)]
           /\ past'[a] = [past[a] EXCEPT !.prompts = Recent(past[a].prompts),
                                         !.forced = Recent(past[a].forced)]
  BY DEF Tick
<1>0. /\ monitor' = [a \in Agents |-> monitor'[a]] /\ circuit' = [a \in Agents |-> circuit'[a]]
      /\ past' = [a \in Agents |-> past'[a]]
  BY DEF Tick
<1>2. Shapes
  BY DEF FleetInv
<1>3. ASSUME NEW a \in Agents
      PROVE  /\ monitor'[a] \in Monitor /\ monitor'[a].seen = monitor[a].seen
             /\ monitor'[a].lease = monitor[a].lease /\ monitor'[a].fired = monitor[a].fired
             /\ monitor'[a].deadline = Older(monitor[a].deadline, DeadlineTicks)
  <2>1. PICK m \in Monitor : m = monitor[a]
    BY <1>2 DEF Shapes
  <2>2. PICK d : d = Older(m.deadline, DeadlineTicks)
    OBVIOUS
  <2>3. PICK h : h = Older(m.anchor, GraceTicks)
    OBVIOUS
  <2>4. d \in Age(DeadlineTicks) /\ h \in Age(GraceTicks)
    BY <2>2, <2>3, MonitorFields, OlderIs, HandoffAssumption, FleetNumbers
  <2>5. monitor'[a] = [m EXCEPT !.anchor = h, !.deadline = d]
    BY <1>1, <2>1, <2>2, <2>3
  <2> QED BY <2>1, <2>2, <2>4, <2>5 DEF Monitor
<1>4. ASSUME NEW a \in Agents
      PROVE  circuit'[a] \in Circuits /\ past'[a] \in Histories
             /\ past'[a].named = past[a].named /\ Counted(circuit'[a], past'[a])
  <2>1. PICK c \in Circuits : c = circuit[a]
    BY <1>2 DEF Shapes
  <2>2. PICK h \in Histories : h = past[a]
    BY <1>2 DEF Shapes
  <2>3. /\ c.restarts \in Times /\ c.fires \in Times /\ c.broken \in Age(PauseTicks)
        /\ h.prompts \in Times /\ h.forced \in Times
    BY DEF Circuits, Histories
  <2>4. PICK d : d = [restarts |-> Recent(c.restarts), fires |-> Recent(c.fires),
                      broken |-> Older(c.broken, PauseTicks)]
    OBVIOUS
  <2>5. PICK p : p = Recent(h.prompts)
    OBVIOUS
  <2>6. PICK q : q = Recent(h.forced)
    OBVIOUS
  <2>7. p \in Times /\ q \in Times
    BY <2>3, <2>5, <2>6, RecentIs
  <2>8. PICK k : k = [h EXCEPT !.prompts = p, !.forced = q]
    OBVIOUS
  <2>9. d \in Circuits
    <3>1. Recent(c.restarts) \in Times /\ Recent(c.fires) \in Times
      BY <2>3, RecentIs
    <3>2. Older(c.broken, PauseTicks) \in Age(PauseTicks)
      BY <2>3, OlderIs, FleetNumbers
    <3> QED BY <2>4, <3>1, <3>2 DEF Circuits
  <2>10. k \in Histories /\ k.prompts = p /\ k.forced = q /\ k.named = h.named
    BY <2>7, <2>8 DEF Histories
  <2>11. Counted(c, h)
    BY <2>1, <2>2 DEF FleetInv
  <2>12. Counted(d, k)
    BY <2>4, <2>5, <2>6, <2>9, <2>10, <2>11, TickCounted
  <2>13. circuit'[a] = d /\ past'[a] = k
    BY <1>1, <2>1, <2>2, <2>4, <2>5, <2>6, <2>8
  <2> QED BY <2>2, <2>9, <2>10, <2>12, <2>13
<1>5. LeaseFile(Kept(file))
  BY <1>2, KeptIs DEF Shapes
<1>6. Shapes'
  BY <1>0, <1>1, <1>2, <1>3, <1>4, <1>5 DEF Shapes
<1>7. ASSUME NEW a \in up PROVE MonitorSettled(monitor'[a], Kept(file), a, past'[a].named)
  <2>1. /\ a \in Agents /\ monitor[a] \in Monitor /\ LeaseFile(file)
        /\ MonitorSettled(monitor[a], file, a, past[a].named)
    BY DEF FleetInv, Shapes
  <2> QED BY <1>3, <1>4, <2>1, TickSettled
<1> QED BY <1>1, <1>4, <1>6, <1>7 DEF FleetInv

LEMMA FleetNext == FleetInv /\ [HandoffNext]_handoffVars => FleetInv'
<1> SUFFICES ASSUME FleetInv, [HandoffNext]_handoffVars PROVE FleetInv'
  OBVIOUS
<1>1. ASSUME NEW a \in Agents,
             Checks(a) \/ Reports(a) \/ SessionStarts(a) \/ AgentStops(a) \/ AgentStarts(a)
      PROVE  FleetInv'
  BY <1>1, ChecksKeeps, ReportsKeeps, SessionStartsKeeps, AgentStopsKeeps, AgentStartsKeeps
<1>2. CASE Tick
  BY <1>2, TickKeeps
<1>3. CASE UNCHANGED handoffVars
  BY <1>3 DEF handoffVars, FleetInv, Shapes
<1> QED BY <1>1, <1>2, <1>3 DEF HandoffNext

LEMMA FleetAlways == HandoffSpec => []FleetInv
<1>1. HandoffInit => FleetInv
  BY FleetInitial
<1> QED BY <1>1, FleetNext, PTL DEF HandoffSpec

\* The rest of the type invariant: who was polled, who is to be refreshed, and
\* the budgets.
Budgets == [reports : 0..MaxReports, sessions : 0..MaxSessions]
FleetSpent == polled \subseteq Agents /\ owed \subseteq Agents /\ spent \in [Agents -> Budgets]

LEMMA SpendsOne ==
  ASSUME NEW x \in Budgets
  PROVE  /\ x.reports < MaxReports => [x EXCEPT !.reports = x.reports + 1] \in Budgets
         /\ x.sessions < MaxSessions => [x EXCEPT !.sessions = x.sessions + 1] \in Budgets
<1>1. MaxReports \in Nat /\ MaxSessions \in Nat
  BY HandoffAssumption
<1>2. x.reports \in 0..MaxReports /\ x.sessions \in 0..MaxSessions
  BY DEF Budgets
<1>3. x.reports < MaxReports => x.reports + 1 \in 0..MaxReports
  BY <1>1, <1>2
<1>4. x.sessions < MaxSessions => x.sessions + 1 \in 0..MaxSessions
  BY <1>1, <1>2
<1> QED BY <1>3, <1>4 DEF Budgets

LEMMA FleetSpentNext ==
  ASSUME up \subseteq Agents, FleetSpent, [HandoffNext]_handoffVars
  PROVE  FleetSpent'
<1>1. ASSUME NEW a \in Agents, Budgeted(a) PROVE spent' \in [Agents -> Budgets]
  <2>1. PICK x \in Budgets : x = [spent[a] EXCEPT !.sessions = spent[a].sessions + 1]
    BY <1>1, SpendsOne DEF Budgeted, FleetSpent
  <2>2. spent' = [spent EXCEPT ![a] = x]
    BY <1>1, <2>1 DEF Budgeted
  <2> QED BY <2>2 DEF FleetSpent
<1>2. ASSUME NEW a \in Agents, Checks(a) PROVE FleetSpent'
  <2>1. \A m, f : ForceRestart(a, m, f) => owed' \in {owed, owed \cup {a}}
    BY DEF ForceRestart
  <2>2. RunsOutOfRoom(a) \/ Overflows(a) \/ GivesUpOn(a) => owed' \in {owed, owed \cup {a}}
    BY <2>1 DEF RunsOutOfRoom, Overflows, GivesUpOn
  <2>3. Rests(a) \/ Watches(a) \/ Waits(a) \/ HandsOff(a) => owed' = owed
    BY DEF Rests, Watches, Waits, HandsOff
  <2>4. owed' \subseteq Agents
    BY <1>2, <2>2, <2>3 DEF Checks, FleetSpent
  <2>5. polled' = polled \cup {a} /\ spent' = spent
    BY <1>2 DEF Checks
  <2> QED BY <2>4, <2>5 DEF FleetSpent
<1>3. ASSUME NEW a \in Agents, Reports(a) PROVE FleetSpent'
  <2>1. spent' \in [Agents -> Budgets]
    BY <1>3, SpendsOne DEF Reports, FleetSpent
  <2> QED BY <1>3, <2>1 DEF Reports, FleetSpent
<1>4. ASSUME NEW a \in Agents, SessionStarts(a) PROVE FleetSpent'
  BY <1>1, <1>4 DEF SessionStarts, FleetSpent
<1>5. ASSUME NEW a \in Agents, AgentStops(a) \/ AgentStarts(a) PROVE FleetSpent'
  BY <1>1, <1>5 DEF AgentStops, AgentStarts, FleetSpent
<1>6. CASE Tick
  BY <1>6 DEF Tick, FleetSpent
<1>7. CASE UNCHANGED handoffVars
  BY <1>7 DEF handoffVars, FleetSpent
<1> QED BY <1>2, <1>3, <1>4, <1>5, <1>6, <1>7 DEF HandoffNext

FleetTyped == FleetInv /\ FleetSpent

LEMMA FleetTypedInit == HandoffInit => FleetTyped
<1>1. HandoffInit => FleetSpent
  BY DEF HandoffInit, FleetSpent, Budgets
<1> QED BY <1>1, FleetInitial DEF FleetTyped

LEMMA FleetTypedNext == FleetTyped /\ [HandoffNext]_handoffVars => FleetTyped'
BY FleetNext, FleetSpentNext DEF FleetTyped, FleetInv, Shapes

LEMMA FleetTypedIs == FleetTyped => HandoffTypeOK
<1> SUFFICES ASSUME FleetTyped PROVE HandoffTypeOK
  OBVIOUS
<1>1. /\ up \in SUBSET Agents /\ polled \in SUBSET Agents /\ owed \in SUBSET Agents
      /\ status \in [Agents -> Status] /\ monitor \in [Agents -> Monitor]
      /\ spent \in [Agents -> Budgets]
  BY DEF FleetTyped, FleetSpent, FleetInv, Shapes
<1>2. ASSUME NEW a \in Agents
      PROVE  /\ circuit[a].restarts \in Ages /\ circuit[a].fires \in Ages
             /\ circuit[a].broken \in Age(PauseTicks)
             /\ past[a].prompts \in Ages /\ past[a].forced \in Ages /\ past[a].named \in BOOLEAN
  <2>1. circuit[a] \in Circuits /\ past[a] \in Histories
    BY DEF FleetTyped, FleetInv, Shapes
  <2> QED BY <2>1, TimesAre DEF Circuits, Histories
<1>3. file.active \subseteq Lease /\ file.queue \in Seq(Place)
  BY DEF FleetTyped, FleetInv, Shapes, LeaseFile
<1> QED BY <1>1, <1>2, <1>3 DEF HandoffTypeOK, Lease, Place, Budgets

\* What the monitors hold, the breaker's counts and the lease file keep their
\* types: what is counted is within the window, no lease is older than a lease
\* lasts, and no place in the queue older than a place.
THEOREM HandoffsAreTyped == HandoffSpec => []HandoffTypeOK
BY FleetTypedInit, FleetTypedNext, FleetTypedIs, PTL DEF HandoffSpec

\* The agents with a prompt to follow have a lease each.
LEMMA LeasesSuffice == FleetInv => HandoffsAreLeased
<1> SUFFICES ASSUME FleetInv PROVE HandoffsAreLeased
  OBVIOUS
<1>1. LeaseFile(file) /\ up \subseteq Agents
  BY DEF FleetInv, Shapes
<1>2. \A a \in Agents : Prompted(a) => Leased(file, a)
  BY DEF FleetInv, MonitorSettled, Prompted, Leased
<1> DEFINE holders == {e.agent : e \in file.active}
           g == [e \in file.active |-> e.agent]
           prompted == {a \in Agents : Prompted(a)}
<1>3. IsFiniteSet(holders) /\ Cardinality(holders) <= Cardinality(file.active)
  <2>1. g \in [file.active -> holders] /\ \A t \in holders : \E e \in file.active : g[e] = t
    OBVIOUS
  <2>2. IsFiniteSet(file.active)
    BY <1>1 DEF LeaseFile
  <2> HIDE DEF g, holders
  <2> QED BY <2>1, <2>2, Covers
<1>4. prompted \subseteq holders
  BY <1>2 DEF Leased
<1> HIDE DEF holders, prompted
<1>5. /\ Cardinality(prompted) <= Cardinality(holders) /\ IsFiniteSet(prompted)
      /\ Cardinality(prompted) \in Nat /\ Cardinality(holders) \in Nat
      /\ Cardinality(file.active) \in Nat
  BY <1>1, <1>3, <1>4, FS_Subset, FS_CardinalityType DEF LeaseFile
<1>6. Cardinality(prompted) <= MaxConcurrent
  BY <1>1, <1>3, <1>5, FleetNumbers DEF LeaseFile
<1> QED BY <1>2, <1>6 DEF HandoffsAreLeased, prompted

\* For any fleet, any number of leases and any periods that are ordered as the
\* code's constants are, and over any number of sessions, restarts of the agent
\* and new monitors: the circuit breaker stops a third prompt and a fourth forced
\* restart within its window, and an agent that was told to hand over keeps its
\* lease for as long as it may take.
THEOREM HandoffsAreBoundedAlways == HandoffSpec => []HandoffsAreBounded
<1>1. FleetInv => LoopsAreBroken
  BY DEF FleetInv, Counted, LoopsAreBroken
<1>2. FleetInv => HandoffsAreBounded
  BY <1>1, LeasesSuffice DEF HandoffsAreBounded
<1> QED BY <1>2, FleetAlways, PTL

-----------------------------------------------------------------------------
(* All parts in one specification *)

\* What keeps the intake, the fleet and the mirror, each through its own steps.
RuntimesInv == IInv /\ FleetTyped /\ SyncInv

LEMMA ScenesFit == ASSUME RuntimesInit PROVE done \in DoneRecord
<1>1. done = NothingDone \/ done \in Scenes
  BY DEF RuntimesInit
<1>2. NothingDone \in DoneRecord
  BY SyncNumbers DEF NothingDone, DoneRecord
<1>3. /\ {0, MaxMade} \subseteq 0..MaxMade /\ {0, MaxFiled} \subseteq 0..MaxFiled
      /\ {0, 1, MaxChanges} \subseteq 0..MaxChanges /\ {0, 1} \subseteq 0..MaxSlips
  BY SyncNumbers, SceneAssumption
<1>4. Scenes \subseteq DoneRecord
  BY <1>3 DEF Scenes, DoneRecord
<1> QED BY <1>1, <1>2, <1>4

LEMMA RuntimesInvInit == RuntimesInit => RuntimesInv
<1> SUFFICES ASSUME RuntimesInit PROVE RuntimesInv
  OBVIOUS
<1>1. IInv
  BY IInvInit DEF RuntimesInit
<1>2. FleetTyped
  BY FleetTypedInit DEF RuntimesInit, FleetInit
<1>3. Untouched /\ done \in DoneRecord
  BY ScenesFit DEF RuntimesInit
<1>4. SyncInv
  BY <1>3, UntouchedIs
<1> QED BY <1>1, <1>2, <1>4 DEF RuntimesInv

\* A step of one part leaves the others alone.
LEMMA RuntimesStep ==
  ASSUME [RuntimesNext]_runtimes
  PROVE  [Next]_vars /\ [HandoffNext]_handoffVars /\ [SyncNext]_syncVars
<1>1. CASE UNCHANGED runtimes
  BY <1>1 DEF runtimes
<1>2. CASE RuntimesNext
  BY <1>2 DEF RuntimesNext, Mirroring
<1> QED BY <1>1, <1>2

LEMMA RuntimesInvNext == RuntimesInv /\ [RuntimesNext]_runtimes => RuntimesInv'
<1> SUFFICES ASSUME RuntimesInv, [RuntimesNext]_runtimes PROVE RuntimesInv'
  OBVIOUS
<1>1. [Next]_vars /\ [HandoffNext]_handoffVars /\ [SyncNext]_syncVars
  BY RuntimesStep
<1>2. IInv /\ FleetTyped /\ SyncInv
  BY DEF RuntimesInv
<1>3. IInv'
  BY <1>1, <1>2, IInvNext
<1>4. FleetTyped'
  BY <1>1, <1>2, FleetTypedNext
<1>5. SyncInv'
  BY <1>1, <1>2, SyncInvNext
<1> QED BY <1>3, <1>4, <1>5 DEF RuntimesInv

\* The types of the work ledger, of the handoffs and of the mirror in the
\* specification that TLC runs, where each behaviour is one of the three
\* (durable-worker, context-handoff-lease.ts, fast-checker.ts, push.ts, poll.ts).
THEOREM RuntimesKeepTheirTypes == RuntimesSpec => []RuntimesTypeOK
<1>1. RuntimesInv => RuntimesTypeOK
  <2> SUFFICES ASSUME RuntimesInv PROVE RuntimesTypeOK
    OBVIOUS
  <2>1. IInv /\ FleetTyped /\ SyncInv
    BY DEF RuntimesInv
  <2>2. TypeOK
    BY <2>1, IInvType
  <2>3. HandoffTypeOK
    BY <2>1, FleetTypedIs
  <2>4. SyncTypeOK
    BY <2>1, SyncInvGives
  <2> QED BY <2>2, <2>3, <2>4 DEF RuntimesTypeOK
<1> QED BY <1>1, RuntimesInvInit, RuntimesInvNext, PTL DEF RuntimesSpec
=============================================================================
