---------------------------- MODULE AgentsProofs ----------------------------
(***************************************************************************)
(* The agents of one name and what their adapters do.  The registry: every *)
(* process is the current generation of the registered entry, a torn-down  *)
(* entry is quiet, no scheduler is lost, and a halt is final, for any      *)
(* number of calls that overlap.  The turns of an adapter: one at a time,  *)
(* whatever the app-server answers and in whatever order its notifications *)
(* come, as long as nothing was given up after its timeout.                *)
(***************************************************************************)
EXTENDS MCAgents, FiniteSetTheorems, TLAPS

-----------------------------------------------------------------------------
(* Messages on a wire *)

\* Where a message of one of these kinds is.
KindsIn(q, kinds) == {i \in DOMAIN q : q[i].kind \in kinds}

LEMMA AppendAt ==
  ASSUME NEW T, NEW q \in Seq(T), NEW e \in T
  PROVE  /\ Append(q, e) \in Seq(T) /\ Append(q, e)[Len(q) + 1] = e
         /\ DOMAIN Append(q, e) = DOMAIN q \cup {Len(q) + 1} /\ Len(q) + 1 \notin DOMAIN q
         /\ \A i \in DOMAIN q : Append(q, e)[i] = q[i]
OBVIOUS

LEMMA TailAt ==
  ASSUME NEW T, NEW q \in Seq(T), q # <<>>
  PROVE  /\ Tail(q) \in Seq(T) /\ Head(q) = q[1] /\ Head(q) \in T /\ 1 \in DOMAIN q
         /\ \A i \in DOMAIN Tail(q) : i + 1 \in DOMAIN q /\ i + 1 # 1 /\ Tail(q)[i] = q[i + 1]
         /\ DOMAIN Tail(q) \subseteq Nat \ {0}
OBVIOUS

LEMMA ConcatIsAppend ==
  ASSUME NEW T, NEW q \in Seq(T), NEW d \in T, NEW e \in T
  PROVE  q \o <<d>> = Append(q, d) /\ q \o <<d, e>> = Append(Append(q, d), e)
OBVIOUS

LEMMA KindsAppended ==
  ASSUME NEW T, NEW q \in Seq(T), NEW e \in T, NEW kinds
  PROVE  /\ e.kind \in kinds => KindsIn(Append(q, e), kinds) = KindsIn(q, kinds) \cup {Len(q) + 1}
         /\ e.kind \notin kinds => KindsIn(Append(q, e), kinds) = KindsIn(q, kinds)
BY AppendAt DEF KindsIn

LEMMA KindsLeft ==
  ASSUME NEW T, NEW q \in Seq(T), q # <<>>, NEW kinds
  PROVE  /\ \A i \in KindsIn(Tail(q), kinds) :
              i + 1 \in KindsIn(q, kinds) /\ i + 1 # 1 /\ Tail(q)[i] = q[i + 1]
         /\ KindsIn(Tail(q), kinds) \subseteq Nat \ {0}
         /\ Head(q).kind \in kinds => 1 \in KindsIn(q, kinds) /\ Head(q) = q[1]
BY TailAt DEF KindsIn
-----------------------------------------------------------------------------
(* The turns of CodexAppServerPTY *)

Fates == [Inputs -> {"new", "given", "dropped"} \cup Waiting]

\* Between two turns: the loop may begin another.
Clean ==
  drain.at \in {"off", "refused"} \/ (drain.at = "awaiting" /\ completion \in {"resolved", "rejected"})

LEMMA TurnBeginsChanges ==
  ASSUME TurnTypeOK, NEW q \in Seq(Inputs), q # <<>>, NEW f \in Fates, TurnBegins(q, f)
  PROVE  /\ queue' \in Seq(Inputs) /\ fate' \in Fates /\ completion' = "pending"
         /\ Head(q) \in Inputs
         /\ drain' = [at |-> IF open THEN "asking" ELSE "refused", turn |-> Head(q)]
         /\ toServer' = IF open
                        THEN Append(toServer, [kind |-> "start", of |-> Head(q), turn |-> NoTurn])
                        ELSE toServer
         /\ [kind |-> "start", of |-> Head(q), turn |-> NoTurn] \in Unanswered
         /\ toServer' \in Seq(Unanswered)
<1>1. Head(q) \in Inputs /\ Tail(q) \in Seq(Inputs)
  BY TailAt
<1>2. queue' \in Seq(Inputs)
  BY <1>1 DEF TurnBegins
<1>3. fate' \in Fates
  BY <1>1 DEF TurnBegins, Fates
<1>4. [kind |-> "start", of |-> Head(q), turn |-> NoTurn] \in Unanswered
  BY <1>1 DEF Unanswered, MaybeTurn
<1>5. toServer' = IF open
                  THEN Append(toServer, [kind |-> "start", of |-> Head(q), turn |-> NoTurn])
                  ELSE toServer
  BY DEF TurnBegins, Asks
<1>6. toServer' \in Seq(Unanswered)
  BY <1>4, <1>5, AppendAt DEF TurnTypeOK
<1> QED BY <1>1, <1>2, <1>3, <1>4, <1>5, <1>6 DEF TurnBegins

\* Either the input is queued or the first in the queue is begun.
LEMMA EnqueuesChanges ==
  ASSUME TurnTypeOK, NEW m \in Inputs, Enqueues(m)
  PROVE  \/ /\ Append(queue, m) \in Seq(Inputs) /\ Append(queue, m) # <<>> /\ fate \in Fates
            /\ TurnBegins(Append(queue, m), fate) /\ drain.at = "off" /\ alive
         \/ /\ queue' \in Seq(Inputs) /\ fate' \in Fates
            /\ UNCHANGED <<drain, completion, toServer>>
<1>1. Append(queue, m) \in Seq(Inputs) /\ Append(queue, m) # <<>> /\ fate \in Fates
  <2>1. queue \in Seq(Inputs) /\ fate \in Fates
    BY DEF TurnTypeOK, Fates
  <2>2. Append(queue, m) \in Seq(Inputs) /\ Len(queue) + 1 \in DOMAIN Append(queue, m)
    BY <2>1, AppendAt
  <2>3. DOMAIN <<>> = {}
    OBVIOUS
  <2> QED BY <2>1, <2>2, <2>3
<1>2. [fate EXCEPT ![m] = "queued"] \in Fates
  BY <1>1 DEF Fates, Waiting
<1> QED BY <1>1, <1>2 DEF Enqueues

LEMMA DropsTyped == \A f \in Fates, S \in SUBSET Inputs : Drops(f, S) \in Fates
BY DEF Fates, Drops

\* The part of the type invariant that the queue's handling changes.
LoopTyped ==
  /\ queue \in Seq(Inputs) /\ fate \in Fates
  /\ drain \in [at : {"off", "asking", "refused", "awaiting"}, turn : MaybeTurn]
  /\ completion \in {"none", "pending", "resolved", "rejected"}
  /\ toServer \in Seq(Unanswered)

LEMMA LoopIsTyped == TurnTypeOK => LoopTyped
BY DEF TurnTypeOK, LoopTyped, Fates

LEMMA BeginsTyped ==
  ASSUME TurnTypeOK, NEW q \in Seq(Inputs), q # <<>>, NEW f \in Fates, TurnBegins(q, f)
  PROVE  LoopTyped'
<1>1. /\ queue' \in Seq(Inputs) /\ fate' \in Fates /\ completion' = "pending"
      /\ Head(q) \in Inputs
      /\ drain' = [at |-> IF open THEN "asking" ELSE "refused", turn |-> Head(q)]
      /\ toServer' \in Seq(Unanswered)
  BY TurnBeginsChanges
<1>2. drain' \in [at : {"off", "asking", "refused", "awaiting"}, turn : MaybeTurn]
  BY <1>1 DEF MaybeTurn
<1> QED BY <1>1, <1>2 DEF LoopTyped

LEMMA EnqueuesTyped ==
  ASSUME TurnTypeOK, NEW m \in Inputs, Enqueues(m)
  PROVE  LoopTyped'
<1>1. CASE /\ Append(queue, m) \in Seq(Inputs) /\ Append(queue, m) # <<>> /\ fate \in Fates
           /\ TurnBegins(Append(queue, m), fate)
  BY <1>1, BeginsTyped
<1>2. CASE /\ queue' \in Seq(Inputs) /\ fate' \in Fates
           /\ UNCHANGED <<drain, completion, toServer>>
  BY <1>2 DEF TurnTypeOK, LoopTyped
<1> QED BY <1>1, <1>2, EnqueuesChanges

\* What the app-server says.
AnswerKinds == {"accepted", "refused", "steered", "notSteered", "started", "completed", "error"}

LEMMA MessageIs ==
  ASSUME NEW k \in AnswerKinds, NEW m \in Inputs
  PROVE  Msg(k, m) \in Answer /\ Msg(k, m).kind = k /\ Msg(k, m).of = m
BY DEF Msg, Answer, AnswerKinds

LEMMA OneSaid ==
  ASSUME TurnTypeOK, NEW d \in Answer, Says(<<d>>)
  PROVE  fromServer' = Append(fromServer, d) /\ fromServer' \in Seq(Answer)
<1>1. fromServer \in Seq(Answer)
  BY DEF TurnTypeOK
<1>2. fromServer' = Append(fromServer, d)
  BY <1>1, ConcatIsAppend DEF Says
<1> QED BY <1>1, <1>2, AppendAt

LEMMA TwoSaid ==
  ASSUME TurnTypeOK, NEW d \in Answer, NEW e \in Answer, Says(<<d, e>>)
  PROVE  /\ fromServer' = Append(Append(fromServer, d), e) /\ fromServer' \in Seq(Answer)
         /\ Append(fromServer, d) \in Seq(Answer)
<1>1. fromServer \in Seq(Answer)
  BY DEF TurnTypeOK
<1>2. fromServer' = Append(Append(fromServer, d), e)
  BY <1>1, ConcatIsAppend DEF Says
<1>3. Append(fromServer, d) \in Seq(Answer)
  BY <1>1, AppendAt
<1> QED BY <1>2, <1>3, AppendAt

LEMMA TroubleCounted ==
  ASSUME troubles \in 0..MaxTroubles, Trouble \/ UNCHANGED troubles
  PROVE  troubles' \in 0..MaxTroubles
BY TurnAssumption DEF Trouble

LEMMA TurnTypeInit == TurnInit => TurnTypeOK
<1> SUFFICES ASSUME TurnInit PROVE TurnTypeOK
  OBVIOUS
<1>1. fate \in [Inputs -> {"new", "given", "dropped"} \cup Waiting]
  BY DEF TurnInit
<1>2. drain \in [at : {"off", "asking", "refused", "awaiting"}, turn : MaybeTurn]
  BY DEF TurnInit, MaybeTurn
<1>3. troubles \in 0..MaxTroubles
  BY TurnAssumption DEF TurnInit
<1>4. NoTurn \in MaybeTurn /\ <<>> \in Seq(Inputs) /\ <<>> \in Seq(Unanswered) /\ <<>> \in Seq(Answer)
  BY DEF MaybeTurn
<1> QED BY <1>1, <1>2, <1>3, <1>4 DEF TurnInit, TurnTypeOK

LEMMA TurnTypeNext == TurnTypeOK /\ [TurnNext]_turnVars => TurnTypeOK'
<1> SUFFICES ASSUME TurnTypeOK, [TurnNext]_turnVars PROVE TurnTypeOK'
  OBVIOUS
<1>0. /\ alive \in BOOLEAN /\ open \in BOOLEAN /\ gaveUp \in BOOLEAN /\ active \in MaybeTurn
      /\ fromServer \in Seq(Answer) /\ running \subseteq Inputs /\ troubles \in 0..MaxTroubles
      /\ LoopTyped /\ <<>> \in Seq(Answer) /\ <<>> \in Seq(Unanswered) /\ <<>> \in Seq(Inputs)
      /\ NoTurn \in MaybeTurn
  BY LoopIsTyped DEF TurnTypeOK, MaybeTurn
<1>1. SUFFICES /\ alive' \in BOOLEAN /\ open' \in BOOLEAN /\ gaveUp' \in BOOLEAN
               /\ active' \in MaybeTurn /\ fromServer' \in Seq(Answer) /\ running' \subseteq Inputs
               /\ troubles' \in 0..MaxTroubles /\ LoopTyped'
  BY DEF TurnTypeOK, LoopTyped, Fates
<1>2. CASE UNCHANGED turnVars
  BY <1>0, <1>2 DEF turnVars, LoopTyped
<1>3. CASE Receives
  <2> DEFINE a == Head(fromServer)
  <2>1. a \in Answer /\ fromServer' \in Seq(Answer)
    BY <1>0, <1>3, TailAt DEF Receives
  <2>2. a.of \in Inputs
    BY <2>1 DEF Answer
  <2>3. UNCHANGED <<alive, open, running, gaveUp, troubles>>
        /\ (Answered(a) \/ SteerAnswered(a) \/ Notified(a))
    BY <1>3 DEF Receives, connection
  <2> HIDE DEF a
  <2>4. CASE Answered(a)
    BY <1>0, <2>1, <2>3, <2>4 DEF Answered, LoopTyped
  <2>5. CASE SteerAnswered(a)
    <3>1. active' = active
      BY <2>5 DEF SteerAnswered
    <3>2. CASE Enqueues(a.of)
      BY <1>0, <2>1, <2>2, <2>3, <3>1, <3>2, EnqueuesTyped
    <3>3. CASE ~Enqueues(a.of)
      <4>1. /\ UNCHANGED <<queue, drain, completion, toServer>>
            /\ fate' = fate \/ fate' = [fate EXCEPT ![a.of] = "given"]
        BY <2>5, <3>3 DEF SteerAnswered
      <4>2. fate' \in Fates
        BY <1>0, <4>1 DEF LoopTyped, Fates
      <4> QED BY <1>0, <2>1, <2>3, <3>1, <4>1, <4>2 DEF LoopTyped
    <3> QED BY <3>2, <3>3
  <2>6. CASE Notified(a)
    <3>1. active' \in MaybeTurn /\ UNCHANGED <<queue, drain, fate, toServer>>
      BY <1>0, <2>2, <2>6 DEF Notified, MaybeTurn
    <3>2. completion' \in {completion, "resolved", "rejected"}
      BY <2>6 DEF Notified, Settles
    <3> QED BY <1>0, <2>1, <2>3, <3>1, <3>2 DEF LoopTyped
  <2> QED BY <2>3, <2>4, <2>5, <2>6
<1>4. CASE DrainGoesOn
  <2>1. /\ UNCHANGED <<connection, active, fromServer, running, gaveUp, troubles>>
        /\ \/ \E q \in {<<>>, queue}, f \in {fate, Drops(fate, Members(queue))} :
                /\ q # <<>> /\ TurnBegins(q, f)
           \/ /\ drain' = [at |-> "off", turn |-> NoTurn]
              /\ queue' \in {<<>>, queue} /\ fate' \in {fate, Drops(fate, Members(queue))}
              /\ UNCHANGED <<completion, toServer>>
    BY <1>4 DEF DrainGoesOn
  <2>2. Members(queue) \in SUBSET Inputs
    BY <1>0 DEF LoopTyped, Members
  <2>3. Drops(fate, Members(queue)) \in Fates /\ fate \in Fates
    BY <1>0, <2>2, DropsTyped DEF LoopTyped
  <2>4. ASSUME NEW q \in {<<>>, queue}, NEW f \in {fate, Drops(fate, Members(queue))},
               q # <<>>, TurnBegins(q, f)
        PROVE  LoopTyped'
    <3>1. q \in Seq(Inputs) /\ f \in Fates
      BY <1>0, <2>3 DEF LoopTyped
    <3> QED BY <2>4, <3>1, BeginsTyped
  <2>5. ASSUME /\ drain' = [at |-> "off", turn |-> NoTurn]
               /\ queue' \in {<<>>, queue} /\ fate' \in {fate, Drops(fate, Members(queue))}
               /\ UNCHANGED <<completion, toServer>>
        PROVE  LoopTyped'
    <3>1. queue' \in Seq(Inputs) /\ fate' \in Fates
      BY <1>0, <2>3, <2>5 DEF LoopTyped
    <3>2. drain' \in [at : {"off", "asking", "refused", "awaiting"}, turn : MaybeTurn]
      BY <1>0, <2>5
    <3>3. completion' = completion /\ toServer' = toServer
      BY <2>5
    <3> QED BY <1>0, <3>1, <3>2, <3>3 DEF LoopTyped
  <2>6. LoopTyped'
    BY <2>1, <2>4, <2>5
  <2> QED BY <1>0, <2>1, <2>6 DEF connection
<1>5. CASE StartFails
  BY <1>0, <1>5 DEF StartFails, connection, wires, LoopTyped
<1>6. CASE TurnTimesOut
  BY <1>0, <1>6 DEF TurnTimesOut, connection, wires, LoopTyped
<1>7. CASE Kill
  <2>1. Members(queue) \in SUBSET Inputs
    BY <1>0 DEF LoopTyped, Members
  <2>2. Drops(fate, Members(queue)) \in Fates
    BY <1>0, <2>1, DropsTyped DEF LoopTyped
  <2> QED BY <1>0, <1>7, <2>2 DEF Kill, Settles, LoopTyped
<1>8. ASSUME NEW m \in Inputs, QueueTurn(m)
      PROVE  /\ LoopTyped'
             /\ UNCHANGED <<connection, active, fromServer, running, gaveUp, troubles>>
  <2>1. UNCHANGED <<connection, active, fromServer, running, gaveUp, troubles>>
        /\ (Steers(m) \/ Enqueues(m))
    BY <1>8 DEF QueueTurn
  <2>2. CASE Steers(m)
    <3> DEFINE r == [kind |-> "steer", of |-> m, turn |-> active]
    <3>1. r \in Unanswered
      BY <1>0 DEF Unanswered
    <3>2. toServer' = Append(toServer, r) /\ UNCHANGED <<queue, drain, completion>>
          /\ fate' = [fate EXCEPT ![m] = "steering"]
      BY <2>2 DEF Steers, Asks
    <3> HIDE DEF r
    <3>3. toServer' \in Seq(Unanswered)
      BY <1>0, <3>1, <3>2, AppendAt DEF LoopTyped
    <3>4. fate' \in Fates
      BY <1>0, <3>2 DEF LoopTyped, Fates, Waiting
    <3> QED BY <1>0, <2>1, <3>2, <3>3, <3>4 DEF LoopTyped
  <2>3. CASE Enqueues(m)
    BY <2>1, <2>3, EnqueuesTyped
  <2> QED BY <2>1, <2>2, <2>3
<1>9. ASSUME NEW m \in Inputs, SteerFails(m)
      PROVE  /\ LoopTyped'
             /\ UNCHANGED <<connection, active, fromServer, running, gaveUp, troubles>>
  BY <1>9, EnqueuesTyped DEF SteerFails
<1>10. CASE ServerAnswers
  <2> DEFINE r == Head(toServer)
  <2>1. r \in Unanswered /\ toServer' \in Seq(Unanswered)
    BY <1>0, <1>10, TailAt DEF ServerAnswers, LoopTyped
  <2>2. r.of \in Inputs
    BY <2>1 DEF Unanswered
  <2>3. UNCHANGED <<connection, queue, drain, completion, active, fate, gaveUp>>
        /\ running' \subseteq running \cup {r.of} /\ (Trouble \/ UNCHANGED troubles)
    BY <1>10 DEF ServerAnswers
  <2> DEFINE accepted == Msg("accepted", r.of)
             started == Msg("started", r.of)
             refused == Msg("refused", r.of)
             steered == Msg("steered", r.of)
             notSteered == Msg("notSteered", r.of)
  <2>6. \/ Says(<<accepted, started>>) \/ Says(<<started, accepted>>)
        \/ Says(<<refused>>) \/ Says(<<steered>>) \/ Says(<<notSteered>>)
    BY <1>10 DEF ServerAnswers
  <2>7. {accepted, started, refused, steered, notSteered} \subseteq Answer
    BY <2>2, MessageIs DEF AnswerKinds
  <2> HIDE DEF r, accepted, started, refused, steered, notSteered
  <2>4. fromServer' \in Seq(Answer)
    BY <2>6, <2>7, OneSaid, TwoSaid
  <2>5. troubles' \in 0..MaxTroubles
    BY <1>0, <2>3, TroubleCounted
  <2>8. running' \subseteq Inputs /\ LoopTyped'
    BY <1>0, <2>1, <2>2, <2>3 DEF LoopTyped
  <2> QED BY <1>0, <2>3, <2>4, <2>5, <2>8 DEF connection
<1>11. ASSUME NEW m \in Inputs, ServerEndsTurn(m)
       PROVE  /\ fromServer' \in Seq(Answer) /\ running' \subseteq Inputs
              /\ troubles' \in 0..MaxTroubles
              /\ UNCHANGED <<connection, queue, drain, completion, active, fate, toServer, gaveUp>>
  <2>1. /\ Says(<<Msg("completed", m)>>) \/ Says(<<Msg("error", m)>>)
        /\ Trouble \/ UNCHANGED troubles
        /\ running' \subseteq running
        /\ UNCHANGED <<connection, queue, drain, completion, active, fate, toServer, gaveUp>>
    BY <1>11 DEF ServerEndsTurn
  <2>2. fromServer' \in Seq(Answer)
    <3>1. Msg("completed", m) \in Answer /\ Msg("error", m) \in Answer
      BY MessageIs DEF AnswerKinds
    <3> QED BY <2>1, <3>1, OneSaid
  <2>3. troubles' \in 0..MaxTroubles
    BY <1>0, <2>1, TroubleCounted
  <2> QED BY <1>0, <2>1, <2>2, <2>3
<1>12. CASE ConnectionCloses \/ ServerExits
  <2>1. troubles' \in 0..MaxTroubles
    BY <1>0, <1>12, TroubleCounted DEF ConnectionCloses, ServerExits
  <2>2. CASE ConnectionCloses
    BY <1>0, <2>1, <2>2 DEF ConnectionCloses, LoopTyped
  <2>3. CASE ServerExits
    BY <1>0, <2>1, <2>3 DEF ServerExits, Settles, LoopTyped
  <2> QED BY <1>12, <2>2, <2>3
<1> QED
  BY <1>0, <1>2, <1>3, <1>4, <1>5, <1>6, <1>7, <1>8, <1>9, <1>10, <1>11, <1>12
  DEF TurnNext, connection, LoopTyped

\* The queue, the loop, the wires and the fate of every input stay in their types.
THEOREM TurnsAreTyped == TurnSpec => []TurnTypeOK
BY TurnTypeInit, TurnTypeNext, PTL DEF TurnSpec

-----------------------------------------------------------------------------
(* Turns are serial *)

StartKinds == {"start"}
VerdictKinds == {"accepted", "refused"}
EndKinds == {"completed", "error"}

\* r has the messages of q, but for the first perhaps, and others of other kinds.
Kept(q, r, kinds) ==
  \E s \in {0, 1} : \A i \in KindsIn(r, kinds) :
    i \in Nat /\ i + s \in KindsIn(q, kinds) /\ r[i] = q[i + s]

LEMMA KeptWays ==
  ASSUME NEW T, NEW q \in Seq(T), NEW kinds
  PROVE  /\ Kept(q, q, kinds)
         /\ q # <<>> => Kept(q, Tail(q), kinds)
         /\ \A e \in T : e.kind \notin kinds => Kept(q, Append(q, e), kinds)
<1>1. Kept(q, q, kinds)
  <2>1. \A i \in KindsIn(q, kinds) : i \in Nat /\ i + 0 = i
    BY DEF KindsIn
  <2> QED BY <2>1 DEF Kept
<1>2. ASSUME q # <<>> PROVE Kept(q, Tail(q), kinds)
  <2>1. \A i \in KindsIn(Tail(q), kinds) :
          i \in Nat /\ i + 1 \in KindsIn(q, kinds) /\ Tail(q)[i] = q[i + 1]
    BY <1>2, KindsLeft
  <2> QED BY <2>1 DEF Kept
<1>3. ASSUME NEW e \in T, e.kind \notin kinds PROVE Kept(q, Append(q, e), kinds)
  <2>1. KindsIn(Append(q, e), kinds) = KindsIn(q, kinds)
    BY <1>3, KindsAppended
  <2>2. \A i \in KindsIn(q, kinds) : i \in Nat /\ i + 0 = i /\ Append(q, e)[i] = q[i]
    BY AppendAt DEF KindsIn
  <2> QED BY <2>1, <2>2 DEF Kept
<1> QED BY <1>1, <1>2, <1>3

\* One request to start a turn, one verdict on it and one end of it are on the
\* wires at most, of the turn that the loop waits for; they exclude one another
\* and the turn that runs, except that a turn may run or have ended while the
\* loop has not read yet that it was accepted.
StartAwaited ==
  /\ \A i \in KindsIn(toServer, StartKinds) :
       /\ toServer[i].of = drain.turn /\ drain.at = "asking" /\ completion = "pending"
       /\ running = {} /\ KindsIn(fromServer, VerdictKinds) = {} /\ KindsIn(fromServer, EndKinds) = {}
  /\ \A i, j \in KindsIn(toServer, StartKinds) : i = j
VerdictAwaited ==
  /\ \A i \in KindsIn(fromServer, VerdictKinds) :
       /\ fromServer[i].of = drain.turn /\ drain.at = "asking"
       /\ fromServer[i].kind = "refused" => running = {} /\ KindsIn(fromServer, EndKinds) = {}
  /\ \A i, j \in KindsIn(fromServer, VerdictKinds) : i = j
EndAwaited ==
  /\ \A i \in KindsIn(fromServer, EndKinds) :
       drain.at \in {"asking", "awaiting"} /\ completion = "pending" /\ running = {}
  /\ \A i, j \in KindsIn(fromServer, EndKinds) : i = j
RunningAwaited ==
  \A m \in running : drain.turn = m /\ drain.at \in {"asking", "awaiting"} /\ completion = "pending"

Serial == StartAwaited /\ VerdictAwaited /\ EndAwaited /\ RunningAwaited
Quiescent ==
  /\ KindsIn(toServer, StartKinds) = {} /\ running = {}
  /\ KindsIn(fromServer, VerdictKinds) = {} /\ KindsIn(fromServer, EndKinds) = {}

LEMMA CleanIsQuiescent == Serial /\ Clean => Quiescent
BY DEF Serial, StartAwaited, VerdictAwaited, EndAwaited, RunningAwaited, Clean, Quiescent

LEMMA QuiescentIsSerial == Quiescent => Serial
BY DEF Serial, StartAwaited, VerdictAwaited, EndAwaited, RunningAwaited, Quiescent

LEMMA KeptEmpty ==
  ASSUME NEW q, NEW r, NEW kinds, Kept(q, r, kinds), KindsIn(q, kinds) = {}
  PROVE  KindsIn(r, kinds) = {}
BY DEF Kept

\* The loop and the turns that run are not touched.
LEMMA SerialFrame ==
  ASSUME Serial, UNCHANGED <<drain, completion, running>>,
         Kept(toServer, toServer', StartKinds),
         Kept(fromServer, fromServer', VerdictKinds), Kept(fromServer, fromServer', EndKinds)
  PROVE  Serial'
<1>1. PICK s \in {0, 1} : \A i \in KindsIn(toServer', StartKinds) :
        i \in Nat /\ i + s \in KindsIn(toServer, StartKinds) /\ toServer'[i] = toServer[i + s]
  BY DEF Kept
<1>2. PICK v \in {0, 1} : \A i \in KindsIn(fromServer', VerdictKinds) :
        i \in Nat /\ i + v \in KindsIn(fromServer, VerdictKinds) /\ fromServer'[i] = fromServer[i + v]
  BY DEF Kept
<1>3. PICK e \in {0, 1} : \A i \in KindsIn(fromServer', EndKinds) :
        i \in Nat /\ i + e \in KindsIn(fromServer, EndKinds) /\ fromServer'[i] = fromServer[i + e]
  BY DEF Kept
<1>4. StartAwaited'
  <2>1. ASSUME NEW i \in KindsIn(toServer', StartKinds)
        PROVE  /\ toServer'[i].of = drain.turn /\ drain.at = "asking" /\ completion = "pending"
               /\ running = {} /\ KindsIn(fromServer', VerdictKinds) = {}
               /\ KindsIn(fromServer', EndKinds) = {}
    BY <1>1, KeptEmpty DEF Serial, StartAwaited
  <2>2. ASSUME NEW i \in KindsIn(toServer', StartKinds), NEW j \in KindsIn(toServer', StartKinds)
        PROVE  i = j
    <3>1. i + s = j + s /\ i \in Nat /\ j \in Nat
      BY <1>1 DEF Serial, StartAwaited
    <3> QED BY <3>1
  <2> QED BY <2>1, <2>2 DEF StartAwaited
<1>5. VerdictAwaited'
  <2>1. ASSUME NEW i \in KindsIn(fromServer', VerdictKinds)
        PROVE  /\ fromServer'[i].of = drain.turn /\ drain.at = "asking"
               /\ fromServer'[i].kind = "refused"
                    => running = {} /\ KindsIn(fromServer', EndKinds) = {}
    BY <1>2, KeptEmpty DEF Serial, VerdictAwaited
  <2>2. ASSUME NEW i \in KindsIn(fromServer', VerdictKinds), NEW j \in KindsIn(fromServer', VerdictKinds)
        PROVE  i = j
    <3>1. i + v = j + v /\ i \in Nat /\ j \in Nat
      BY <1>2 DEF Serial, VerdictAwaited
    <3> QED BY <3>1
  <2> QED BY <2>1, <2>2 DEF VerdictAwaited
<1>6. EndAwaited'
  <2>1. ASSUME NEW i \in KindsIn(fromServer', EndKinds)
        PROVE  drain.at \in {"asking", "awaiting"} /\ completion = "pending" /\ running = {}
    BY <1>3 DEF Serial, EndAwaited
  <2>2. ASSUME NEW i \in KindsIn(fromServer', EndKinds), NEW j \in KindsIn(fromServer', EndKinds)
        PROVE  i = j
    <3>1. i + e = j + e /\ i \in Nat /\ j \in Nat
      BY <1>3 DEF Serial, EndAwaited
    <3> QED BY <3>1
  <2> QED BY <2>1, <2>2 DEF EndAwaited
<1>7. RunningAwaited'
  BY DEF Serial, RunningAwaited
<1> QED BY <1>4, <1>5, <1>6, <1>7 DEF Serial

LEMMA BeginsSerial ==
  ASSUME TurnTypeOK, Serial, Clean, NEW q \in Seq(Inputs), q # <<>>, NEW f \in Fates,
         TurnBegins(q, f), running' = running,
         Kept(fromServer, fromServer', VerdictKinds), Kept(fromServer, fromServer', EndKinds)
  PROVE  open => Serial'
<1> SUFFICES ASSUME open PROVE Serial'
  OBVIOUS
<1>1. Quiescent
  BY CleanIsQuiescent
<1>2. KindsIn(fromServer', VerdictKinds) = {} /\ KindsIn(fromServer', EndKinds) = {} /\ running' = {}
  BY <1>1, KeptEmpty DEF Quiescent
<1> DEFINE r == [kind |-> "start", of |-> Head(q), turn |-> NoTurn]
<1>3. /\ toServer' = Append(toServer, r) /\ r \in Unanswered /\ completion' = "pending"
      /\ drain' = [at |-> "asking", turn |-> Head(q)] /\ toServer \in Seq(Unanswered)
  BY TurnBeginsChanges DEF TurnTypeOK
<1>4. r.of = Head(q) /\ drain'.at = "asking" /\ drain'.turn = Head(q)
  BY <1>3
<1> HIDE DEF r
<1>5. KindsIn(toServer', StartKinds) \subseteq {Len(toServer) + 1}
  BY <1>1, <1>3, KindsAppended DEF Quiescent
<1>6. toServer'[Len(toServer) + 1] = r
  BY <1>3, AppendAt
<1>7. StartAwaited'
  BY <1>2, <1>3, <1>4, <1>5, <1>6 DEF StartAwaited
<1> QED BY <1>2, <1>7 DEF Serial, VerdictAwaited, EndAwaited, RunningAwaited

LEMMA EnqueuesSerial ==
  ASSUME TurnTypeOK, Serial, NEW m \in Inputs, Enqueues(m), running' = running,
         Kept(fromServer, fromServer', VerdictKinds), Kept(fromServer, fromServer', EndKinds)
  PROVE  open => Serial'
<1>1. CASE /\ Append(queue, m) \in Seq(Inputs) /\ Append(queue, m) # <<>> /\ fate \in Fates
           /\ TurnBegins(Append(queue, m), fate) /\ drain.at = "off"
  <2>1. Clean
    BY <1>1 DEF Clean
  <2> QED BY <1>1, <2>1, BeginsSerial
<1>2. CASE UNCHANGED <<drain, completion, toServer>>
  <2>1. Kept(toServer, toServer', StartKinds)
    BY <1>2, KeptWays DEF TurnTypeOK
  <2> QED BY <1>2, <2>1, SerialFrame
<1> QED BY <1>1, <1>2, EnqueuesChanges

\* A message of the app-server is read.
LEMMA ReceivesSerial ==
  ASSUME TurnTypeOK, Serial, open, Receives
  PROVE  Serial'
<1> DEFINE a == Head(fromServer)
<1>0. /\ fromServer \in Seq(Answer) /\ fromServer # <<>> /\ fromServer' = Tail(fromServer)
      /\ running' = running
      /\ drain \in [at : {"off", "asking", "refused", "awaiting"}, turn : MaybeTurn]
      /\ toServer \in Seq(Unanswered)
  BY DEF TurnTypeOK, Receives
<1>1. a \in Answer /\ (Answered(a) \/ SteerAnswered(a) \/ Notified(a))
  BY <1>0, TailAt DEF Receives
<1>2. /\ Kept(fromServer, fromServer', VerdictKinds) /\ Kept(fromServer, fromServer', EndKinds)
      /\ Kept(toServer, toServer, StartKinds)
  BY <1>0, KeptWays
<1>3. a.kind \in VerdictKinds => /\ 1 \in KindsIn(fromServer, VerdictKinds) /\ fromServer[1] = a
                                 /\ \A i \in KindsIn(fromServer', VerdictKinds) :
                                      i + 1 \in KindsIn(fromServer, VerdictKinds) /\ i + 1 # 1
  BY <1>0, KindsLeft
<1>4. a.kind \in EndKinds => /\ 1 \in KindsIn(fromServer, EndKinds)
                             /\ \A i \in KindsIn(fromServer', EndKinds) :
                                  i + 1 \in KindsIn(fromServer, EndKinds) /\ i + 1 # 1
  BY <1>0, KindsLeft
<1>5. a.of \in Inputs
  BY <1>1 DEF Answer
<1> HIDE DEF a
<1>6. CASE Answered(a)
  <2>1. a.kind \in VerdictKinds /\ UNCHANGED <<completion, toServer>>
    BY <1>6 DEF Answered, VerdictKinds
  <2>2. /\ a.of = drain.turn /\ drain.at = "asking" /\ KindsIn(fromServer', VerdictKinds) = {}
        /\ a.kind = "refused" => running = {} /\ KindsIn(fromServer, EndKinds) = {}
        /\ KindsIn(toServer, StartKinds) = {}
    BY <1>3, <2>1 DEF Serial, StartAwaited, VerdictAwaited
  <2>3. drain = [at |-> "asking", turn |-> a.of]
    BY <1>0, <2>2
  <2>4. drain' = [drain EXCEPT !.at = IF a.kind = "accepted" THEN "awaiting" ELSE "refused"]
    BY <1>6, <2>3 DEF Answered
  <2>5. drain'.turn = drain.turn /\ drain'.at = IF a.kind = "accepted" THEN "awaiting" ELSE "refused"
    BY <1>0, <2>4
  <2>6. PICK e \in {0, 1} : \A i \in KindsIn(fromServer', EndKinds) :
          i \in Nat /\ i + e \in KindsIn(fromServer, EndKinds)
    BY <1>2 DEF Kept
  <2>7. CASE a.kind = "accepted"
    <3>1. \A i, j \in KindsIn(fromServer', EndKinds) : i + e = j + e /\ i \in Nat /\ j \in Nat
      BY <2>6 DEF Serial, EndAwaited
    <3>2. \A i, j \in KindsIn(fromServer', EndKinds) : i = j
      BY <3>1
    <3>3. EndAwaited'
      BY <1>0, <2>1, <2>5, <2>6, <2>7, <3>2 DEF Serial, EndAwaited
    <3>4. RunningAwaited'
      BY <1>0, <2>1, <2>2, <2>5, <2>7 DEF Serial, RunningAwaited
    <3> QED BY <2>1, <2>2, <3>3, <3>4 DEF Serial, StartAwaited, VerdictAwaited
  <2>8. CASE a.kind = "refused"
    <3>1. KindsIn(fromServer', EndKinds) = {} /\ running' = {} /\ KindsIn(toServer', StartKinds) = {}
      BY <1>0, <2>1, <2>2, <2>6, <2>8
    <3> QED BY <2>2, <3>1, QuiescentIsSerial DEF Serial, StartAwaited, VerdictAwaited, EndAwaited, RunningAwaited
  <2> QED BY <2>1, <2>7, <2>8 DEF VerdictKinds
<1>7. CASE SteerAnswered(a)
  <2>1. CASE Enqueues(a.of)
    BY <1>0, <1>2, <1>5, <2>1, EnqueuesSerial
  <2>2. CASE UNCHANGED <<drain, completion, toServer>>
    BY <1>0, <1>2, <2>2, SerialFrame
  <2> QED BY <1>7, <2>1, <2>2 DEF SteerAnswered
<1>8. CASE Notified(a)
  <2>1. UNCHANGED <<drain, toServer>>
    BY <1>8 DEF Notified
  <2>2. CASE a.kind = "started"
    <3>1. completion' = completion
      BY <1>8, <2>2 DEF Notified
    <3> QED BY <1>0, <1>2, <2>1, <3>1, SerialFrame
  <2>3. CASE a.kind \in EndKinds
    <3>1. /\ KindsIn(fromServer, EndKinds) # {} /\ KindsIn(fromServer', EndKinds) = {}
          /\ running = {} /\ KindsIn(toServer, StartKinds) = {}
      BY <1>4, <2>3 DEF Serial, StartAwaited, EndAwaited
    <3>2. PICK v \in {0, 1} : \A i \in KindsIn(fromServer', VerdictKinds) :
            /\ i \in Nat /\ i + v \in KindsIn(fromServer, VerdictKinds)
            /\ fromServer'[i] = fromServer[i + v]
      BY <1>2 DEF Kept
    <3>3. \A i, j \in KindsIn(fromServer', VerdictKinds) : i + v = j + v /\ i \in Nat /\ j \in Nat
      BY <3>2 DEF Serial, VerdictAwaited
    <3>4. \A i, j \in KindsIn(fromServer', VerdictKinds) : i = j
      BY <3>3
    <3>5. VerdictAwaited'
      <4>1. \A i \in KindsIn(fromServer', VerdictKinds) :
              fromServer'[i].of = drain.turn /\ drain.at = "asking"
        BY <3>2 DEF Serial, VerdictAwaited
      <4> QED BY <1>0, <2>1, <3>1, <3>4, <4>1 DEF VerdictAwaited
    <3> QED BY <1>0, <2>1, <3>1, <3>5 DEF Serial, StartAwaited, EndAwaited, RunningAwaited
  <2> QED BY <1>8, <2>2, <2>3 DEF Notified, EndKinds
<1> QED BY <1>1, <1>6, <1>7, <1>8

\* The app-server answers the first request on the wire.
LEMMA AnswersSerial ==
  ASSUME TurnTypeOK, Serial, ServerAnswers
  PROVE  Serial'
<1> DEFINE r == Head(toServer)
<1>0. /\ toServer \in Seq(Unanswered) /\ toServer # <<>> /\ toServer' = Tail(toServer)
      /\ fromServer \in Seq(Answer) /\ drain' = drain /\ completion' = completion
      /\ running \subseteq Inputs
  BY DEF TurnTypeOK, ServerAnswers
<1>1. r \in Unanswered
  BY <1>0, TailAt
<1> DEFINE accepted == Msg("accepted", r.of)
           started == Msg("started", r.of)
           refused == Msg("refused", r.of)
           steered == Msg("steered", r.of)
           notSteered == Msg("notSteered", r.of)
<1>2. \/ r.kind = "start" /\ running' = running \cup {r.of}
         /\ (Says(<<accepted, started>>) \/ Says(<<started, accepted>>))
      \/ r.kind = "start" /\ running' = running /\ Says(<<refused>>)
      \/ r.kind = "steer" /\ running' = running /\ (Says(<<steered>>) \/ Says(<<notSteered>>))
  BY <1>0 DEF ServerAnswers
<1>3. r.of \in Inputs
  BY <1>1 DEF Unanswered
<1>4. /\ {accepted, started, refused, steered, notSteered} \subseteq Answer
      /\ accepted.kind = "accepted" /\ accepted.of = r.of
      /\ refused.kind = "refused" /\ refused.of = r.of
      /\ started.kind = "started" /\ steered.kind = "steered" /\ notSteered.kind = "notSteered"
  BY <1>3, MessageIs DEF AnswerKinds
<1>8. /\ accepted.kind \in VerdictKinds /\ refused.kind \in VerdictKinds
      /\ \A d \in {started, steered, notSteered} : d.kind \notin VerdictKinds
      /\ \A d \in {accepted, started, refused, steered, notSteered} : d.kind \notin EndKinds
  BY <1>4 DEF VerdictKinds, EndKinds
<1>5. /\ Kept(toServer, toServer', StartKinds)
      /\ \A i \in KindsIn(toServer', StartKinds) :
           i + 1 \in KindsIn(toServer, StartKinds) /\ i + 1 # 1
      /\ r.kind \in StartKinds => 1 \in KindsIn(toServer, StartKinds) /\ toServer[1] = r
  BY <1>0, KeptWays, KindsLeft
<1> HIDE DEF r, accepted, started, refused, steered, notSteered
<1>6. CASE r.kind = "steer" /\ running' = running /\ (Says(<<steered>>) \/ Says(<<notSteered>>))
  <2>1. PICK d \in {steered, notSteered} : Says(<<d>>)
    BY <1>6
  <2>2. d \in Answer /\ d.kind \notin VerdictKinds /\ d.kind \notin EndKinds
    BY <1>4, <1>8, <2>1
  <2>3. fromServer' = Append(fromServer, d)
    BY <2>1, <2>2, OneSaid
  <2>4. Kept(fromServer, fromServer', VerdictKinds) /\ Kept(fromServer, fromServer', EndKinds)
    BY <1>0, <2>2, <2>3, KeptWays
  <2> QED BY <1>0, <1>5, <1>6, <2>4, SerialFrame
<1>7. CASE r.kind = "start"
  <2>1. /\ r.of = drain.turn /\ drain.at = "asking" /\ completion = "pending" /\ running = {}
        /\ KindsIn(fromServer, VerdictKinds) = {} /\ KindsIn(fromServer, EndKinds) = {}
        /\ KindsIn(toServer', StartKinds) = {}
    BY <1>5, <1>7 DEF Serial, StartAwaited, StartKinds
  <2>2. StartAwaited'
    BY <2>1 DEF StartAwaited
  <2>3. SUFFICES /\ KindsIn(fromServer', EndKinds) = {} /\ running' \subseteq {r.of}
                 /\ \E n : /\ KindsIn(fromServer', VerdictKinds) = {n} /\ fromServer'[n].of = r.of
                           /\ fromServer'[n].kind = "refused" => running' = {}
    BY <1>0, <2>1, <2>2 DEF Serial, VerdictAwaited, EndAwaited, RunningAwaited
  <2>4. CASE running' = running /\ Says(<<refused>>)
    <3>1. fromServer' = Append(fromServer, refused)
      BY <1>4, <2>4, OneSaid
    <3>2. /\ KindsIn(fromServer', VerdictKinds) = {Len(fromServer) + 1}
          /\ KindsIn(fromServer', EndKinds) = {}
      BY <1>0, <1>4, <1>8, <2>1, <3>1, KindsAppended
    <3>3. fromServer'[Len(fromServer) + 1] = refused
      BY <1>0, <1>4, <3>1, AppendAt
    <3> QED BY <1>4, <2>1, <2>4, <3>2, <3>3
  <2>5. CASE running' = running \cup {r.of} /\ Says(<<accepted, started>>)
    <3> DEFINE q == Append(fromServer, accepted)
    <3>1. fromServer' = Append(q, started) /\ q \in Seq(Answer)
      BY <1>4, <2>5, TwoSaid
    <3>2. KindsIn(q, VerdictKinds) = {Len(fromServer) + 1} /\ KindsIn(q, EndKinds) = {}
      BY <1>0, <1>4, <1>8, <2>1, KindsAppended
    <3>5. q[Len(fromServer) + 1] = accepted /\ Len(fromServer) + 1 \in DOMAIN q
      BY <1>0, <1>4, AppendAt
    <3> HIDE DEF q
    <3>3. /\ KindsIn(fromServer', VerdictKinds) = {Len(fromServer) + 1}
          /\ KindsIn(fromServer', EndKinds) = {}
      BY <1>4, <1>8, <3>1, <3>2, KindsAppended
    <3>4. fromServer'[Len(fromServer) + 1] = accepted
      BY <1>4, <3>1, <3>5, AppendAt
    <3> QED BY <1>4, <2>1, <2>5, <3>3, <3>4
  <2>6. CASE running' = running \cup {r.of} /\ Says(<<started, accepted>>)
    <3> DEFINE q == Append(fromServer, started)
    <3>1. fromServer' = Append(q, accepted) /\ q \in Seq(Answer)
      BY <1>4, <2>6, TwoSaid
    <3>2. KindsIn(q, VerdictKinds) = {} /\ KindsIn(q, EndKinds) = {}
      BY <1>0, <1>4, <1>8, <2>1, KindsAppended
    <3> HIDE DEF q
    <3>3. /\ KindsIn(fromServer', VerdictKinds) = {Len(q) + 1}
          /\ KindsIn(fromServer', EndKinds) = {}
      BY <1>4, <1>8, <3>1, <3>2, KindsAppended
    <3>4. fromServer'[Len(q) + 1] = accepted
      BY <1>4, <3>1, AppendAt
    <3> QED BY <1>4, <2>1, <2>6, <3>3, <3>4
  <2> QED BY <1>2, <1>7, <2>4, <2>5, <2>6
<1> QED BY <1>2, <1>6, <1>7

\* A turn that runs has come to its end, or has failed.
LEMMA EndsSerial ==
  ASSUME TurnTypeOK, Serial, NEW m \in Inputs, ServerEndsTurn(m)
  PROVE  Serial'
<1>0. /\ m \in running /\ running' = running \ {m} /\ fromServer \in Seq(Answer)
      /\ UNCHANGED <<drain, completion, toServer>>
  BY DEF TurnTypeOK, ServerEndsTurn
<1>1. PICK k \in EndKinds : Says(<<Msg(k, m)>>)
  BY DEF ServerEndsTurn, EndKinds
<1> DEFINE d == Msg(k, m)
<1>2. d \in Answer /\ d.kind = k /\ k \notin VerdictKinds
  BY MessageIs DEF AnswerKinds, EndKinds, VerdictKinds
<1>3. Says(<<d>>)
  BY <1>1
<1> HIDE DEF d
<1>4. fromServer' = Append(fromServer, d)
  BY <1>2, <1>3, OneSaid
<1>5. /\ running' = {} /\ KindsIn(fromServer, EndKinds) = {} /\ KindsIn(toServer, StartKinds) = {}
      /\ drain.at \in {"asking", "awaiting"} /\ completion = "pending"
      /\ \A i \in KindsIn(fromServer, VerdictKinds) : fromServer[i].kind # "refused"
  BY <1>0 DEF Serial, StartAwaited, VerdictAwaited, EndAwaited, RunningAwaited
<1>6. /\ KindsIn(fromServer', EndKinds) = {Len(fromServer) + 1}
      /\ KindsIn(fromServer', VerdictKinds) = KindsIn(fromServer, VerdictKinds)
  BY <1>0, <1>2, <1>4, <1>5, KindsAppended
<1>7. \A i \in KindsIn(fromServer, VerdictKinds) : fromServer'[i] = fromServer[i]
  BY <1>0, <1>2, <1>4, AppendAt DEF KindsIn
<1>8. VerdictAwaited'
  BY <1>0, <1>5, <1>6, <1>7 DEF Serial, VerdictAwaited
<1> QED BY <1>0, <1>5, <1>6, <1>8 DEF Serial, StartAwaited, EndAwaited, RunningAwaited

SerialInv == TurnTypeOK /\ (gaveUp \/ ~open \/ Serial)

LEMMA SerialInvInit == TurnInit => SerialInv
<1> SUFFICES ASSUME TurnInit PROVE SerialInv
  OBVIOUS
<1>1. Quiescent
  BY DEF TurnInit, Quiescent, KindsIn
<1> QED BY <1>1, QuiescentIsSerial, TurnTypeInit DEF SerialInv

LEMMA SerialInvNext == SerialInv /\ [TurnNext]_turnVars => SerialInv'
<1> SUFFICES ASSUME SerialInv, [TurnNext]_turnVars, ~gaveUp', open' PROVE Serial'
  BY TurnTypeNext DEF SerialInv
<1>0. /\ TurnTypeOK /\ fromServer \in Seq(Answer) /\ toServer \in Seq(Unanswered)
      /\ queue \in Seq(Inputs) /\ <<>> \in Seq(Inputs)
  BY DEF SerialInv, TurnTypeOK
<1>1. /\ Kept(fromServer, fromServer, VerdictKinds) /\ Kept(fromServer, fromServer, EndKinds)
      /\ Kept(toServer, toServer, StartKinds)
  BY <1>0, KeptWays
<1>2. CASE UNCHANGED turnVars
  <2>1. Serial /\ UNCHANGED <<drain, completion, running, toServer, fromServer>>
    BY <1>2 DEF SerialInv, turnVars
  <2> QED BY <1>1, <2>1, SerialFrame
<1>3. ASSUME Serial, open, Receives PROVE Serial'
  BY <1>0, <1>3, ReceivesSerial
<1>4. ASSUME Serial, open, DrainGoesOn PROVE Serial'
  <2>1. Clean /\ UNCHANGED <<fromServer, running>>
    BY <1>4 DEF DrainGoesOn, Clean
  <2>2. \/ \E q \in {<<>>, queue}, f \in {fate, Drops(fate, Members(queue))} :
             q # <<>> /\ TurnBegins(q, f)
        \/ UNCHANGED <<completion, toServer>>
    BY <1>4 DEF DrainGoesOn
  <2>3. fate \in Fates /\ Drops(fate, Members(queue)) \in Fates
    <3>1. Members(queue) \in SUBSET Inputs /\ fate \in Fates
      BY <1>0 DEF Members, TurnTypeOK, Fates
    <3> QED BY <3>1, DropsTyped
  <2>4. ASSUME NEW q \in {<<>>, queue}, NEW f \in {fate, Drops(fate, Members(queue))},
               q # <<>>, TurnBegins(q, f)
        PROVE  Serial'
    <3>1. q \in Seq(Inputs) /\ f \in Fates
      BY <1>0, <2>3
    <3> QED BY <1>0, <1>1, <1>4, <2>1, <2>4, <3>1, BeginsSerial
  <2>5. ASSUME UNCHANGED <<completion, toServer>> PROVE Serial'
    <3>1. Quiescent
      BY <1>4, <2>1, CleanIsQuiescent
    <3>2. Quiescent'
      BY <2>1, <2>5, <3>1 DEF Quiescent
    <3> QED BY <3>2, QuiescentIsSerial DEF Serial, StartAwaited, VerdictAwaited, EndAwaited,
               RunningAwaited, Quiescent
  <2> QED BY <2>2, <2>4, <2>5
<1>5. CASE StartFails
  BY <1>0, <1>5 DEF StartFails, connection, TurnTypeOK
<1>6. ASSUME Serial, open, TurnTimesOut PROVE Serial'
  <2>1. drain.at # "awaiting" /\ drain.at # "asking"
    BY <1>6 DEF TurnTimesOut
  <2>2. Clean
    BY <1>0, <2>1 DEF Clean, TurnTypeOK
  <2>3. Quiescent
    BY <1>6, <2>2, CleanIsQuiescent
  <2>4. Quiescent'
    BY <1>6, <2>3 DEF Quiescent, TurnTimesOut, wires
  <2> QED BY <2>4 DEF Serial, StartAwaited, VerdictAwaited, EndAwaited, RunningAwaited, Quiescent
<1>7. ASSUME Kill \/ ConnectionCloses \/ ServerExits PROVE FALSE
  BY <1>7 DEF Kill, ConnectionCloses, ServerExits
<1>8. ASSUME Serial, open, NEW m \in Inputs, QueueTurn(m) PROVE Serial'
  <2>1. UNCHANGED <<fromServer, running>> /\ (Steers(m) \/ Enqueues(m))
    BY <1>8 DEF QueueTurn
  <2>2. CASE Enqueues(m)
    BY <1>0, <1>1, <1>8, <2>1, <2>2, EnqueuesSerial
  <2>3. CASE Steers(m)
    <3> DEFINE r == [kind |-> "steer", of |-> m, turn |-> active]
    <3>1. r \in Unanswered /\ r.kind \notin StartKinds
      BY <1>0 DEF Unanswered, StartKinds, TurnTypeOK
    <3>2. toServer' = Append(toServer, r) /\ UNCHANGED <<drain, completion>>
      BY <2>3 DEF Steers, Asks
    <3> HIDE DEF r
    <3>3. Kept(toServer, toServer', StartKinds)
      BY <1>0, <3>1, <3>2, KeptWays
    <3> QED BY <1>1, <1>8, <2>1, <3>2, <3>3, SerialFrame
  <2> QED BY <2>1, <2>2, <2>3
<1>9. ASSUME Serial, open, NEW m \in Inputs, SteerFails(m) PROVE Serial'
  <2>1. UNCHANGED <<fromServer, running>> /\ Enqueues(m)
    BY <1>9 DEF SteerFails
  <2> QED BY <1>0, <1>1, <1>9, <2>1, EnqueuesSerial
<1>10. ASSUME Serial, ServerAnswers PROVE Serial'
  BY <1>0, <1>10, AnswersSerial
<1>11. ASSUME Serial, NEW m \in Inputs, ServerEndsTurn(m) PROVE Serial'
  BY <1>0, <1>11, EndsSerial
<1>12. ASSUME TurnNext PROVE ~gaveUp /\ open
  BY <1>0, <1>7, <1>12
     DEF TurnNext, Receives, DrainGoesOn, StartFails, TurnTimesOut, QueueTurn, SteerFails,
         ServerEndsTurn, ServerAnswers, connection, TurnTypeOK
<1> QED
  BY <1>2, <1>3, <1>4, <1>5, <1>6, <1>7, <1>8, <1>9, <1>10, <1>11, <1>12 DEF TurnNext, SerialInv

\* As long as nothing was given up after its timeout, every turn the app-server
\* works on is the one drainQueue waits for, and no notification ends another:
\* for any number of inputs, steers, refusals and lost connections.
THEOREM TurnsAreSerialAlways == TurnSpec => []TurnsAreSerial
<1>1. TurnSpec => []SerialInv
  BY SerialInvInit, SerialInvNext, PTL DEF TurnSpec
<1>2. SerialInv => TurnsAreSerial
  BY DEF SerialInv, Serial, RunningAwaited, TurnsAreSerial
<1> QED BY <1>1, <1>2, PTL
-----------------------------------------------------------------------------
(* One AgentProcess *)

\* Nothing more is to be heard of the current generation, or its exit was asked for.
Settled(p) == p.asked \/ p.gen = 0 \/ p.child[p.gen] \in {"none", "reported"}

\* How the fields of a process go together, whatever calls overlapped.
CurrentOnly(p) ==
  /\ p.pty \in {0, p.gen}
  /\ \A g \in Gens : g > p.gen => p.child[g] = "none"
  /\ p.stopping # 0 => p.pty = 0 /\ p.stopping <= p.gen
  /\ p.blind => p.stopping # 0
TimerWaits(p) ==
  p.timers > 0 => /\ p.timers = 1 /\ p.gen # 0 /\ p.child[p.gen] = "reported"
                  /\ p.pty = 0 /\ p.stopping = 0
                  /\ ~p.session /\ ~p.refresh /\ p.start # "delay"
SessionRuns(p) ==
  /\ (p.session => p.status = "running" /\ p.pty # 0 /\ p.start = "none")
  /\ p.refresh => /\ p.start = "none" /\ p.pty = 0 /\ ~p.session
                  /\ p.status \in {"running", "stopped"} /\ Settled(p)
StartWaits(p) ==
  /\ p.start = "delay" => /\ p.gen < MaxGen /\ p.pty = 0 /\ p.stopping = 0
                          /\ p.status # "halted" /\ Settled(p)
  /\ (p.start = "spawning" => p.gen # 0)
  /\ (p.status = "halted" => p.pty = 0 /\ p.gen # 0 /\ p.child[p.gen] = "reported")
Orderly(p) == CurrentOnly(p) /\ TimerWaits(p) /\ SessionRuns(p) /\ StartWaits(p)

\* No stop came in the middle of a start or refresh: every child is in sight.
Sighted(p) ==
  /\ Live(p) \subseteq {p.pty, p.stopping}
  /\ (p.start = "spawning" /\ p.child[p.gen] = "none" => p.pty = p.gen)
  /\ (p.stopping # 0 => p.start = "none")
  /\ (p.blind => p.child[p.stopping] = "none")

\* ... and after the stop of a teardown nothing will spawn another.
Quelled(p) ==
  /\ p.start = "none" /\ ~p.refresh /\ p.pty = 0 /\ Settled(p)
  /\ (p.timers > 0 => p.status # "crashed")

Sound(p, torn) ==
  /\ Orderly(p)
  /\ ~p.overtaken => /\ Sighted(p)
                     /\ (torn => Quelled(p))
                     /\ (~torn /\ p.stopping # 0 => p.refresh)

\* A process whose next generation may be spawned.
Idle(p, torn) ==
  /\ p.pty = 0 /\ p.stopping = 0 /\ p.timers = 0 /\ ~p.session /\ ~p.refresh
  /\ p.gen < MaxGen /\ p.start \in {"none", "delay"}
  /\ (torn => p.overtaken)

LEMMA NoGeneration == \A g \in Gens : g \in Nat /\ g # 0 /\ g > 0
BY ProcessAssumption DEF Gens

LEMMA SpawningIs ==
  ASSUME NEW p \in Process, p.gen < MaxGen
  PROVE  /\ Spawning(p) \in Process /\ Spawning(p).status = "starting" /\ ~Spawning(p).asked
         /\ Spawning(p).gen = p.gen + 1 /\ Spawning(p).pty = p.gen + 1
         /\ Spawning(p).start = "spawning" /\ Spawning(p).stopping = p.stopping
         /\ Spawning(p).blind = p.blind /\ Spawning(p).session = p.session
         /\ Spawning(p).refresh = p.refresh /\ Spawning(p).timers = p.timers
         /\ Spawning(p).child = p.child /\ Spawning(p).overtaken = p.overtaken
         /\ p.gen + 1 \in Gens
<1>1. p.gen + 1 \in Gens /\ p.gen + 1 \in 0..MaxGen
  BY ProcessAssumption DEF Process, Gens
<1>2. "starting" \in Statuses
  BY DEF Statuses
<1>3. Spawning(p) \in Process
  BY <1>1, <1>2 DEF Process, Spawning
<1> QED BY <1>1, <1>3 DEF Process, Spawning

LEMMA SpawningSound ==
  ASSUME NEW p \in Process, NEW torn \in BOOLEAN, Sound(p, torn), Idle(p, torn)
  PROVE  Spawning(p) \in Process /\ Sound(Spawning(p), torn)
<1> DEFINE q == Spawning(p)
<1>0. p.gen < MaxGen /\ p.gen \in Nat
  BY DEF Idle, Process
<1>1. /\ q \in Process /\ q.status = "starting" /\ ~q.asked
      /\ q.gen = p.gen + 1 /\ q.pty = p.gen + 1
      /\ q.start = "spawning" /\ q.stopping = 0
      /\ ~q.blind /\ ~q.session /\ ~q.refresh /\ q.timers = 0
      /\ q.child = p.child /\ q.overtaken = p.overtaken
      /\ p.gen + 1 \in Gens
  BY <1>0, SpawningIs DEF Idle, Sound, Orderly, CurrentOnly
<1> HIDE DEF q
<1>2. CurrentOnly(q)
  BY <1>0, <1>1 DEF CurrentOnly, Sound, Orderly, Gens
<1>3. TimerWaits(q) /\ SessionRuns(q) /\ StartWaits(q)
  BY <1>0, <1>1 DEF TimerWaits, SessionRuns, StartWaits
<1>4. ASSUME ~p.overtaken PROVE Sighted(q) /\ ~torn /\ q.stopping = 0
  <2>0. Live(p) \subseteq {0} /\ Live(p) \subseteq Gens
    BY <1>4 DEF Sound, Sighted, Idle, Live
  <2>1. Live(p) = {}
    BY <2>0, NoGeneration
  <2>2. Live(q) = {}
    BY <1>1, <2>1 DEF Live
  <2> QED BY <1>1, <1>4, <2>2 DEF Sighted, Idle
<1>5. Sound(q, torn)
  BY <1>1, <1>2, <1>3, <1>4 DEF Sound, Orderly
<1> QED BY <1>1, <1>5 DEF q

\* start() on an idle process that is not halted.
LEMMA StartedSound ==
  ASSUME NEW p \in Process, NEW torn \in BOOLEAN, Sound(p, torn),
         p.status # "running" /\ p.start = "none" /\ p.gen # MaxGen =>
           Idle(p, torn) /\ p.status # "halted" /\ Settled(p)
  PROVE  Started(p) \in Process /\ Sound(Started(p), torn)
<1>1. CASE p.status = "running" \/ p.start # "none" \/ p.gen = MaxGen
  BY <1>1 DEF Started
<1>2. CASE ~(p.status = "running" \/ p.start # "none" \/ p.gen = MaxGen) /\ ~StartupDelay
  BY <1>2, SpawningSound DEF Started
<1>3. CASE ~(p.status = "running" \/ p.start # "none" \/ p.gen = MaxGen) /\ StartupDelay
  <2> DEFINE q == [p EXCEPT !.start = "delay"]
  <2>1. Started(p) = q
    BY <1>3 DEF Started
  <2>2. /\ q \in Process /\ q.start = "delay" /\ q.status = p.status /\ q.asked = p.asked
        /\ q.pty = p.pty /\ q.gen = p.gen /\ q.stopping = p.stopping /\ q.blind = p.blind
        /\ q.session = p.session /\ q.refresh = p.refresh /\ q.timers = p.timers
        /\ q.child = p.child /\ q.overtaken = p.overtaken
    BY DEF Process
  <2> HIDE DEF q
  <2>3. Idle(p, torn) /\ p.status # "halted" /\ Settled(p)
    BY <1>3
  <2>4. Live(q) = Live(p) /\ Settled(q)
    BY <2>2, <2>3 DEF Live, Settled
  <2>5. CurrentOnly(q)
    BY <2>2 DEF CurrentOnly, Sound, Orderly
  <2>6. TimerWaits(q) /\ SessionRuns(q) /\ StartWaits(q)
    BY <2>2, <2>3, <2>4 DEF TimerWaits, SessionRuns, StartWaits, Idle
  <2>7. ASSUME ~p.overtaken PROVE Sighted(q) /\ ~torn /\ q.stopping = 0
    BY <2>2, <2>3, <2>4, <2>7 DEF Sighted, Sound, Idle
  <2> QED BY <2>1, <2>2, <2>5, <2>6, <2>7 DEF Sound, Orderly
<1> QED BY <1>1, <1>2, <1>3

\* What a change of one child may bring: a child that forked has died or was heard of.
LEMMA ChildMoved ==
  ASSUME NEW p \in Process, NEW torn \in BOOLEAN, Sound(p, torn), NEW g \in Gens,
         p.child[g] \in {"live", "dead"}, NEW s \in {"dead", "reported"}
  PROVE  [p EXCEPT !.child[g] = s] \in Process /\ Sound([p EXCEPT !.child[g] = s], torn)
<1> DEFINE q == [p EXCEPT !.child[g] = s]
<1>1. /\ q \in Process /\ q.start = p.start /\ q.status = p.status /\ q.asked = p.asked
      /\ q.pty = p.pty /\ q.gen = p.gen /\ q.stopping = p.stopping /\ q.blind = p.blind
      /\ q.session = p.session /\ q.refresh = p.refresh /\ q.timers = p.timers
      /\ q.overtaken = p.overtaken
  BY DEF Process, ChildStates
<1>2. q.child[g] = s /\ \A h \in Gens : h # g => q.child[h] = p.child[h]
  BY DEF Process
<1> HIDE DEF q
<1>3. \A h \in Gens : /\ (p.child[h] = "none" <=> q.child[h] = "none")
                      /\ (p.child[h] = "reported" => q.child[h] = "reported")
                      /\ (q.child[h] = "live" => p.child[h] = "live")
  BY <1>2
<1>4. p.gen \in Gens \cup {0} /\ p.stopping \in Gens \cup {0}
  BY ProcessAssumption DEF Process, Gens
<1>5. (Settled(p) => Settled(q)) /\ Live(q) \subseteq Live(p)
  BY <1>1, <1>3, <1>4 DEF Settled, Live
<1>6. CurrentOnly(q)
  BY <1>1, <1>3 DEF CurrentOnly, Sound, Orderly
<1>7. TimerWaits(q) /\ SessionRuns(q)
  BY <1>1, <1>3, <1>4, <1>5 DEF TimerWaits, SessionRuns, Sound, Orderly
<1>8. StartWaits(q)
  BY <1>1, <1>3, <1>4, <1>5 DEF StartWaits, Sound, Orderly
<1>9. ASSUME ~p.overtaken PROVE Sighted(q)
  <2>1. Sighted(p)
    BY <1>9 DEF Sound
  <2>2. q.blind => q.child[q.stopping] = "none"
    BY <2>1, <1>1, <1>3, <1>4 DEF Sighted, Sound, Orderly, CurrentOnly
  <2>3. q.start = "spawning" /\ q.child[q.gen] = "none" => q.pty = q.gen
    BY <2>1, <1>1, <1>3, <1>4 DEF Sighted, Sound, Orderly, StartWaits
  <2> QED BY <2>1, <2>2, <2>3, <1>1, <1>5 DEF Sighted
<1>10. ASSUME ~p.overtaken, torn PROVE Quelled(q)
  BY <1>1, <1>5, <1>10 DEF Quelled, Sound
<1>11. Sound(q, torn)
  BY <1>1, <1>6, <1>7, <1>8, <1>9, <1>10 DEF Sound, Orderly
<1> QED BY <1>1, <1>11 DEF q

\* A spawn that is under way: no stop came, or one that lost sight of it.
LEMMA SpawnInFlight ==
  ASSUME NEW p \in Process, NEW torn \in BOOLEAN, Sound(p, torn), p.start = "spawning"
  PROVE  /\ p.gen \in Gens /\ ~p.session /\ ~p.refresh
         /\ ~p.overtaken => Sighted(p) /\ ~torn /\ p.stopping = 0 /\ ~p.blind
<1>1. p.gen \in Gens
  BY ProcessAssumption DEF Process, Gens, Sound, Orderly, StartWaits
<1>2. ~p.session /\ ~p.refresh
  BY DEF Sound, Orderly, SessionRuns
<1>3. ASSUME ~p.overtaken PROVE Sighted(p) /\ ~torn /\ p.stopping = 0 /\ ~p.blind
  BY <1>3 DEF Sound, Sighted, Quelled, Orderly, CurrentOnly
<1> QED BY <1>1, <1>2, <1>3

LEMMA ForkedSound ==
  ASSUME NEW p \in Process, NEW torn \in BOOLEAN, Sound(p, torn), Unforked(p)
  PROVE  Forked(p) \in Process /\ Sound(Forked(p), torn)
<1> DEFINE q == Forked(p)
<1>0. /\ p.start = "spawning" /\ p.child[p.gen] = "none" /\ p.gen \in Gens
      /\ ~p.session /\ ~p.refresh
      /\ ~p.overtaken => Sighted(p) /\ ~torn /\ p.stopping = 0 /\ ~p.blind
  BY SpawnInFlight DEF Unforked
<1>1. /\ q \in Process /\ q.start = p.start /\ q.status = p.status /\ q.asked = p.asked
      /\ q.pty = p.pty /\ q.gen = p.gen /\ q.stopping = p.stopping /\ q.blind = p.blind
      /\ q.session = p.session /\ q.refresh = p.refresh /\ q.timers = p.timers
      /\ q.overtaken = p.overtaken
  BY DEF Process, ChildStates, Forked
<1>2. q.child[p.gen] = "live" /\ \A h \in Gens : h # p.gen => q.child[h] = p.child[h]
  BY <1>0 DEF Process, Forked
<1> HIDE DEF q
<1>3. CurrentOnly(q)
  BY <1>1, <1>2, NoGeneration DEF CurrentOnly, Sound, Orderly
<1>4. ~(p.timers > 0) /\ p.status # "halted"
  BY <1>0 DEF TimerWaits, StartWaits, Sound, Orderly
<1>5. TimerWaits(q) /\ SessionRuns(q) /\ StartWaits(q)
  BY <1>0, <1>1, <1>4, NoGeneration DEF TimerWaits, SessionRuns, StartWaits
<1>6. ASSUME ~p.overtaken PROVE Sighted(q)
  <2>1. Live(q) \subseteq Live(p) \cup {p.gen}
    BY <1>2 DEF Live
  <2> QED BY <1>0, <1>1, <1>2, <1>6, <2>1 DEF Sighted
<1>7. Sound(q, torn)
  BY <1>0, <1>1, <1>3, <1>5, <1>6 DEF Sound, Orderly
<1> QED BY <1>1, <1>7 DEF q

LEMMA SpawnFailedSound ==
  ASSUME NEW p \in Process, NEW torn \in BOOLEAN, Sound(p, torn), Unforked(p)
  PROVE  SpawnFailed(p) \in Process /\ Sound(SpawnFailed(p), torn)
<1> DEFINE q == SpawnFailed(p)
<1>0. /\ p.start = "spawning" /\ p.child[p.gen] = "none" /\ p.gen \in Gens
      /\ ~p.session /\ ~p.refresh
      /\ ~p.overtaken => Sighted(p) /\ ~torn /\ p.stopping = 0 /\ ~p.blind
  BY SpawnInFlight DEF Unforked
<1>1. /\ q \in Process /\ q.start = "none" /\ q.status = "crashed" /\ q.asked = p.asked
      /\ q.pty = p.pty /\ q.gen = p.gen /\ q.stopping = p.stopping /\ q.blind = p.blind
      /\ q.session = p.session /\ q.refresh = p.refresh /\ q.timers = p.timers
      /\ q.child = p.child /\ q.overtaken = p.overtaken
  BY DEF Process, Statuses, SpawnFailed
<1> HIDE DEF q
<1>2. CurrentOnly(q) /\ ~(p.timers > 0)
  BY <1>0, <1>1 DEF CurrentOnly, TimerWaits, Sound, Orderly
<1>3. TimerWaits(q) /\ SessionRuns(q) /\ StartWaits(q)
  BY <1>0, <1>1, <1>2 DEF TimerWaits, SessionRuns, StartWaits
<1>4. ASSUME ~p.overtaken PROVE Sighted(q)
  <2>1. Live(q) = Live(p)
    BY <1>1 DEF Live
  <2> QED BY <1>0, <1>1, <1>4, <2>1 DEF Sighted
<1>5. Sound(q, torn)
  BY <1>0, <1>1, <1>2, <1>3, <1>4 DEF Sound, Orderly
<1> QED BY <1>1, <1>5 DEF q

LEMMA SpawnedSound ==
  ASSUME NEW p \in Process, NEW torn \in BOOLEAN, Sound(p, torn),
         p.start = "spawning", ~Unforked(p)
  PROVE  Spawned(p) \in Process /\ Sound(Spawned(p), torn)
<1> DEFINE q == Spawned(p)
<1>0. /\ p.child[p.gen] # "none" /\ p.gen \in Gens /\ ~p.session /\ ~p.refresh
      /\ ~p.overtaken => Sighted(p) /\ ~torn /\ p.stopping = 0 /\ ~p.blind
  BY SpawnInFlight DEF Unforked
<1>1. /\ q \in Process /\ q.start = "none" /\ q.asked = p.asked
      /\ q.pty = p.pty /\ q.gen = p.gen /\ q.stopping = p.stopping /\ q.blind = p.blind
      /\ q.refresh = p.refresh /\ q.timers = p.timers
      /\ q.child = p.child /\ q.overtaken = p.overtaken
  BY DEF Process, Statuses, Spawned
<1>2. /\ p.pty = 0 => q.status = p.status /\ q.session = p.session
      /\ p.pty # 0 => q.status = "running" /\ q.session
  BY DEF Process, Spawned
<1> HIDE DEF q
<1>3. CurrentOnly(q)
  BY <1>1 DEF CurrentOnly, Sound, Orderly
<1>4. TimerWaits(q)
  BY <1>0, <1>1, <1>2 DEF TimerWaits, Sound, Orderly
<1>5. SessionRuns(q) /\ StartWaits(q)
  BY <1>0, <1>1, <1>2 DEF SessionRuns, StartWaits, Sound, Orderly
<1>6. ASSUME ~p.overtaken PROVE Sighted(q)
  <2>1. Live(q) = Live(p)
    BY <1>1 DEF Live
  <2> QED BY <1>0, <1>1, <1>6, <2>1 DEF Sighted
<1>7. Sound(q, torn)
  BY <1>0, <1>1, <1>3, <1>4, <1>5, <1>6 DEF Sound, Orderly
<1> QED BY <1>1, <1>7 DEF q

\* The exit of the current generation has been taken in.
Exited(p) == [p EXCEPT !.pty = 0, !.session = FALSE]

LEMMA ExitedSound ==
  ASSUME NEW p \in Process, NEW torn \in BOOLEAN, Sound(p, torn),
         p.gen # 0, p.child[p.gen] = "reported"
  PROVE  /\ Exited(p) \in Process /\ Sound(Exited(p), torn) /\ Exited(p).pty = 0
         /\ ~Exited(p).session /\ Exited(p).gen = p.gen /\ Exited(p).child = p.child
         /\ Exited(p).asked = p.asked /\ Exited(p).stopping = p.stopping
         /\ Exited(p).status = p.status /\ Exited(p).start = p.start
         /\ Exited(p).refresh = p.refresh /\ Exited(p).timers = p.timers
         /\ Exited(p).overtaken = p.overtaken
<1> DEFINE q == Exited(p)
<1>1. /\ q \in Process /\ q.start = p.start /\ q.status = p.status /\ q.asked = p.asked
      /\ q.pty = 0 /\ q.gen = p.gen /\ q.stopping = p.stopping /\ q.blind = p.blind
      /\ ~q.session /\ q.refresh = p.refresh /\ q.timers = p.timers
      /\ q.child = p.child /\ q.overtaken = p.overtaken
  <2>1. 0 \in 0..MaxGen
    BY ProcessAssumption
  <2>2. q \in Process
    BY <2>1 DEF Process, Exited
  <2> QED BY <2>2 DEF Process, Exited
<1> HIDE DEF q
<1>2. Settled(q) /\ Live(q) = Live(p) /\ p.gen \notin Live(p)
  BY <1>1 DEF Settled, Live
<1>3. CurrentOnly(q) /\ TimerWaits(q)
  BY <1>1 DEF CurrentOnly, TimerWaits, Sound, Orderly
<1>4. SessionRuns(q) /\ StartWaits(q)
  BY <1>1, <1>2 DEF SessionRuns, StartWaits, Sound, Orderly
<1>5. ASSUME ~p.overtaken PROVE Sighted(q)
  <2>1. Live(p) \subseteq {p.stopping}
    <3>1. Live(p) \subseteq {p.pty, p.stopping} /\ p.pty \in {0, p.gen}
      BY <1>5 DEF Sound, Sighted, Orderly, CurrentOnly
    <3>2. 0 \notin Live(p)
      BY NoGeneration DEF Live
    <3> QED BY <1>2, <3>1, <3>2
  <2> QED BY <1>1, <1>2, <1>5, <2>1 DEF Sighted, Sound
<1>6. ASSUME ~p.overtaken, torn PROVE Quelled(q)
  BY <1>1, <1>2, <1>6 DEF Quelled, Sound
<1>7. Sound(q, torn)
  BY <1>1, <1>3, <1>4, <1>5, <1>6 DEF Sound, Orderly
<1> QED BY <1>1, <1>7 DEF q

\* What recovery from an exit that nobody asked for may change: the status and
\* the timer, of a process whose child was heard of.
LEMMA RecoveredSound ==
  ASSUME NEW p \in Process, NEW torn \in BOOLEAN, Sound(p, torn), NEW q \in Process,
         p.gen # 0, p.child[p.gen] = "reported", p.pty = 0, ~p.session, p.timers = 0,
         q.pty = 0, q.gen = p.gen, q.child = p.child, q.stopping = p.stopping,
         q.blind = p.blind, q.session = p.session, q.refresh = p.refresh,
         q.start = p.start, q.overtaken = p.overtaken,
         q.timers = 0 \/ (q.timers = 1 /\ p.stopping = 0),
         (q.status = "stopped" /\ q.timers = 0)
           \/ (~p.refresh /\ p.start # "delay" /\ (torn => p.overtaken))
  PROVE  Sound(q, torn)
<1>1. Settled(q) /\ Live(q) = Live(p)
  BY DEF Settled, Live
<1>2. CurrentOnly(q)
  BY DEF CurrentOnly, Sound, Orderly
<1>3. TimerWaits(q)
  BY DEF TimerWaits
<1>4. SessionRuns(q) /\ StartWaits(q)
  BY <1>1 DEF SessionRuns, StartWaits, Sound, Orderly
<1>5. ASSUME ~p.overtaken PROVE Sighted(q)
  BY <1>1, <1>5 DEF Sighted, Sound
<1>6. ASSUME ~p.overtaken, torn PROVE Quelled(q)
  BY <1>1, <1>6 DEF Quelled, Sound
<1> QED BY <1>2, <1>3, <1>4, <1>5, <1>6 DEF Sound, Orderly

\* The flag of an exit that was asked for is lowered.
LEMMA LoweredSound ==
  ASSUME NEW p \in Process, NEW torn \in BOOLEAN, Sound(p, torn),
         p.gen # 0, p.child[p.gen] = "reported"
  PROVE  [p EXCEPT !.asked = FALSE] \in Process /\ Sound([p EXCEPT !.asked = FALSE], torn)
<1> DEFINE q == [p EXCEPT !.asked = FALSE]
<1>1. /\ q \in Process /\ q.start = p.start /\ q.status = p.status /\ ~q.asked
      /\ q.pty = p.pty /\ q.gen = p.gen /\ q.stopping = p.stopping /\ q.blind = p.blind
      /\ q.session = p.session /\ q.refresh = p.refresh /\ q.timers = p.timers
      /\ q.child = p.child /\ q.overtaken = p.overtaken
  BY DEF Process
<1> HIDE DEF q
<1>2. Settled(q) /\ Live(q) = Live(p)
  BY <1>1 DEF Settled, Live
<1>3. CurrentOnly(q) /\ TimerWaits(q)
  BY <1>1 DEF CurrentOnly, TimerWaits, Sound, Orderly
<1>4. SessionRuns(q) /\ StartWaits(q)
  BY <1>1, <1>2 DEF SessionRuns, StartWaits, Sound, Orderly
<1>5. ~p.overtaken => Sighted(q) /\ (torn => Quelled(q))
  BY <1>1, <1>2 DEF Sighted, Quelled, Sound
<1>6. Sound(q, torn)
  BY <1>1, <1>3, <1>4, <1>5 DEF Sound, Orderly
<1> QED BY <1>1, <1>6 DEF q

LEMMA RecoveryIs ==
  ASSUME NEW x \in Process, x.timers = 0, ~(x.asked \/ x.stopping # 0),
         NEW v \in {"restart", "pause", "halt"}
  PROVE  /\ Unexpected(x, v) \in Process /\ Unexpected(x, v).asked = x.asked
         /\ Unexpected(x, v).pty = x.pty /\ Unexpected(x, v).gen = x.gen
         /\ Unexpected(x, v).stopping = x.stopping /\ Unexpected(x, v).blind = x.blind
         /\ Unexpected(x, v).session = x.session /\ Unexpected(x, v).refresh = x.refresh
         /\ Unexpected(x, v).timers \in {0, 1} /\ Unexpected(x, v).child = x.child
         /\ Unexpected(x, v).overtaken = x.overtaken /\ Unexpected(x, v).start = x.start
<1>1. CASE v = "restart"
  <2>1. Unexpected(x, v) = [x EXCEPT !.status = "crashed", !.timers = 1]
    BY <1>1 DEF Unexpected
  <2>2. "crashed" \in Statuses /\ 1 \in 0..MaxGen
    BY ProcessAssumption DEF Statuses
  <2>3. [x EXCEPT !.status = "crashed", !.timers = 1] \in Process
    BY <2>2 DEF Process
  <2> QED BY <2>1, <2>3 DEF Process
<1>2. CASE v = "pause"
  <2>1. Unexpected(x, v) = [x EXCEPT !.status = "crashed"]
    BY <1>2 DEF Unexpected
  <2> QED BY <2>1 DEF Process, Statuses
<1>3. CASE v = "halt"
  <2>1. Unexpected(x, v) = [x EXCEPT !.status = "halted"]
    BY <1>3 DEF Unexpected
  <2> QED BY <2>1 DEF Process, Statuses
<1> QED BY <1>1, <1>2, <1>3

\* An exit event is handled.
LEMMA HandledSound ==
  ASSUME NEW p \in Process, NEW torn \in BOOLEAN, Sound(p, torn), NEW g \in Gens,
         p.child[g] = "dead", NEW v \in Verdicts
  PROVE  /\ Handled(p, g, v) \in Process /\ Sound(Handled(p, g, v), torn)
         /\ p.status = "halted" => Handled(p, g, v).status = "halted"
<1> DEFINE r == [p EXCEPT !.child[g] = "reported"]
           x == Exited(r)
<1>1. /\ r \in Process /\ Sound(r, torn)
  BY ChildMoved
<1>2. /\ r.start = p.start /\ r.status = p.status /\ r.asked = p.asked
      /\ r.stopping = p.stopping /\ r.gen = p.gen
      /\ r.refresh = p.refresh /\ r.timers = p.timers /\ r.overtaken = p.overtaken
      /\ r.child[g] = "reported"
  BY DEF Process
<1>3. Handled(p, g, v) =
        CASE g # p.gen -> r
          [] g = p.gen /\ v = "shutdown" -> x
          [] g = p.gen /\ v = "disabled" -> [x EXCEPT !.asked = FALSE, !.status = "stopped"]
          [] g = p.gen /\ v \notin {"shutdown", "disabled"} -> Unexpected(x, v)
  BY DEF Handled, Exited
<1> HIDE DEF r, x
<1>4. CASE g # p.gen
  <2>1. Handled(p, g, v) = r
    BY <1>3, <1>4
  <2> QED BY <1>1, <1>2, <2>1
<1>5. CASE g = p.gen
  <2>1. /\ x \in Process /\ Sound(x, torn) /\ x.pty = 0 /\ ~x.session /\ x.gen = p.gen
        /\ x.child[p.gen] = "reported" /\ x.gen # 0 /\ x.asked = p.asked
        /\ x.stopping = p.stopping /\ x.status = p.status /\ x.start = p.start
        /\ x.refresh = p.refresh /\ x.timers = p.timers /\ x.overtaken = p.overtaken
    BY <1>1, <1>2, <1>5, ExitedSound, NoGeneration DEF x
  <2>2. p.timers = 0 /\ p.status # "halted"
    BY <1>5, NoGeneration DEF Process, Sound, Orderly, TimerWaits, StartWaits
  <2>3. CASE v = "shutdown"
    BY <1>3, <1>5, <2>1, <2>2, <2>3
  <2>4. CASE v = "disabled"
    <3> DEFINE q == [x EXCEPT !.asked = FALSE, !.status = "stopped"]
    <3>1. Handled(p, g, v) = q
      BY <1>3, <1>5, <2>4
    <3>2. /\ q \in Process /\ q.status = "stopped"
          /\ q.pty = x.pty /\ q.gen = x.gen /\ q.stopping = x.stopping /\ q.blind = x.blind
          /\ q.session = x.session /\ q.refresh = x.refresh /\ q.timers = x.timers
          /\ q.child = x.child /\ q.overtaken = x.overtaken /\ q.start = x.start
      BY <2>1 DEF Process, Statuses
    <3> HIDE DEF q
    <3>3. Sound(q, torn)
      BY <2>1, <2>2, <3>2, RecoveredSound
    <3> QED BY <2>2, <3>1, <3>2, <3>3
  <2>5. CASE v \notin {"shutdown", "disabled"}
    <3>1. Handled(p, g, v) = Unexpected(x, v)
      BY <1>3, <1>5, <2>5
    <3>2. CASE x.asked \/ x.stopping # 0
      <4>1. Unexpected(x, v) = [x EXCEPT !.asked = FALSE]
        BY <3>2 DEF Unexpected
      <4> QED BY <2>1, <2>2, <3>1, <4>1, LoweredSound
    <3>3. CASE ~(x.asked \/ x.stopping # 0)
      <4> DEFINE q == Unexpected(x, v)
      <4>1. v \in {"planned", "restart", "pause", "halt"}
        BY <2>5, ProcessAssumption
      <4>2. ~p.refresh /\ p.start # "delay" /\ (torn => p.overtaken)
        <5>1. ~Settled(p)
          BY <1>5, <2>1, <3>3, NoGeneration DEF Settled
        <5> QED BY <5>1 DEF Sound, Orderly, SessionRuns, StartWaits, Quelled
      <4>3. CASE v = "planned"
        <5>1. q = x
          BY <3>3, <4>3 DEF Unexpected
        <5> QED BY <2>1, <2>2, <3>1, <5>1
      <4>4. CASE v # "planned"
        <5>1. /\ q \in Process /\ q.asked = x.asked
              /\ q.pty = x.pty /\ q.gen = x.gen /\ q.stopping = x.stopping /\ q.blind = x.blind
              /\ q.session = x.session /\ q.refresh = x.refresh /\ q.timers \in {0, 1}
              /\ q.child = x.child /\ q.overtaken = x.overtaken /\ q.start = x.start
          BY <2>1, <2>2, <3>3, <4>1, <4>4, RecoveryIs
        <5> HIDE DEF q
        <5>2. Sound(q, torn)
          BY <2>1, <2>2, <3>3, <4>2, <5>1, RecoveredSound
        <5> QED BY <2>2, <3>1, <5>1, <5>2 DEF q
      <4> QED BY <4>3, <4>4
    <3> QED BY <3>2, <3>3
  <2> QED BY <2>3, <2>4, <2>5
<1> QED BY <1>4, <1>5

LEMMA StoppedSound ==
  ASSUME NEW p \in Process, NEW torn \in BOOLEAN, Sound(p, torn), StopMayEnd(p)
  PROVE  Stopped(p) \in Process /\ Sound(Stopped(p), torn)
<1> DEFINE q == Stopped(p)
<1>0. p.stopping # 0 /\ (p.blind \/ p.child[p.stopping] # "live")
  BY DEF StopMayEnd
<1>1. /\ q \in Process /\ q.start = p.start /\ q.status = "stopped" /\ q.asked = p.asked
      /\ q.pty = p.pty /\ q.gen = p.gen /\ q.stopping = 0 /\ ~q.blind
      /\ q.session = p.session /\ q.refresh = p.refresh /\ q.timers = p.timers
      /\ q.child = p.child /\ q.overtaken = p.overtaken
  <2>1. 0 \in 0..MaxGen /\ "stopped" \in Statuses
    BY ProcessAssumption DEF Statuses
  <2>2. q \in Process
    BY <2>1 DEF Process, Stopped
  <2> QED BY <2>2 DEF Process, Stopped
<1> HIDE DEF q
<1>2. Settled(q) = Settled(p) /\ Live(q) = Live(p)
  BY <1>1 DEF Settled, Live
<1>3. p.pty = 0 /\ ~(p.timers > 0) /\ ~p.session /\ p.start # "delay"
  BY <1>0 DEF Sound, Orderly, CurrentOnly, TimerWaits, SessionRuns, StartWaits
<1>4. CurrentOnly(q) /\ TimerWaits(q)
  BY <1>1, <1>3 DEF CurrentOnly, TimerWaits, Sound, Orderly
<1>5. SessionRuns(q) /\ StartWaits(q)
  BY <1>1, <1>2, <1>3 DEF SessionRuns, StartWaits, Sound, Orderly
<1>6. ASSUME ~p.overtaken PROVE Sighted(q)
  <2>1. Sighted(p)
    BY <1>6 DEF Sound
  <2>2. Live(p) \subseteq {0, p.stopping} /\ p.stopping \notin Live(p)
    BY <1>0, <1>3, <2>1 DEF Sighted, Live
  <2> QED BY <1>1, <1>2, <1>3, <2>1, <2>2 DEF Sighted
<1>7. ASSUME ~p.overtaken, torn PROVE Quelled(q)
  BY <1>1, <1>2, <1>7 DEF Quelled, Sound
<1>8. Sound(q, torn)
  BY <1>1, <1>4, <1>5, <1>6, <1>7 DEF Sound, Orderly
<1> QED BY <1>1, <1>8 DEF q

\* A restart timer fires.
LEMMA RestartedSound ==
  ASSUME NEW p \in Process, NEW torn \in BOOLEAN, Sound(p, torn), p.timers > 0
  PROVE  /\ Restarted(p) \in Process /\ Sound(Restarted(p), torn)
         /\ p.status = "halted" => Restarted(p).status = "halted"
<1> DEFINE q == [p EXCEPT !.timers = p.timers - 1]
<1>0. /\ p.timers = 1 /\ p.gen # 0 /\ p.child[p.gen] = "reported"
      /\ p.pty = 0 /\ p.stopping = 0 /\ ~p.session /\ ~p.refresh /\ p.start # "delay"
  BY DEF Sound, Orderly, TimerWaits
<1>1. /\ q \in Process /\ q.start = p.start /\ q.status = p.status /\ q.asked = p.asked
      /\ q.pty = p.pty /\ q.gen = p.gen /\ q.stopping = p.stopping /\ q.blind = p.blind
      /\ q.session = p.session /\ q.refresh = p.refresh /\ q.timers = 0
      /\ q.child = p.child /\ q.overtaken = p.overtaken
  <2>1. p.timers - 1 = 0 /\ 0 \in 0..MaxGen
    BY <1>0, ProcessAssumption
  <2>2. q \in Process
    BY <2>1 DEF Process
  <2> QED BY <2>1, <2>2 DEF Process
<1>2. Restarted(p) = IF p.status = "crashed" THEN Started(q) ELSE q
  BY DEF Restarted
<1> HIDE DEF q
<1>3. Settled(q) /\ Live(q) = Live(p)
  BY <1>0, <1>1 DEF Settled, Live
<1>4. CurrentOnly(q) /\ TimerWaits(q)
  BY <1>1 DEF CurrentOnly, TimerWaits, Sound, Orderly
<1>5. SessionRuns(q) /\ StartWaits(q)
  BY <1>0, <1>1, <1>3 DEF SessionRuns, StartWaits, Sound, Orderly
<1>6. ~p.overtaken => Sighted(q)
  BY <1>1, <1>3 DEF Sighted, Sound
<1>7. ASSUME ~p.overtaken, torn PROVE Quelled(q) /\ p.status # "crashed"
  BY <1>1, <1>3, <1>7 DEF Quelled, Sound
<1>8. Sound(q, torn)
  BY <1>0, <1>1, <1>4, <1>5, <1>6, <1>7 DEF Sound, Orderly
<1>9. CASE p.status = "crashed"
  <2>1. q.start = "none" /\ q.gen # MaxGen => Idle(q, torn) /\ q.status # "halted" /\ Settled(q)
    <3>1. q.gen \in 0..MaxGen
      BY <1>1 DEF Process
    <3> QED BY <1>0, <1>1, <1>3, <1>7, <1>9, <3>1, ProcessAssumption DEF Idle
  <2> QED BY <1>1, <1>2, <1>8, <1>9, <2>1, StartedSound
<1>10. CASE p.status # "crashed"
  BY <1>1, <1>2, <1>8, <1>10
<1> QED BY <1>9, <1>10

\* runStop takes the PTY.
Taken(p) ==
  [p EXCEPT !.asked = TRUE, !.session = FALSE, !.pty = 0, !.stopping = p.pty,
            !.blind = p.child[p.pty] = "none"]

LEMMA TakenIs ==
  ASSUME NEW p \in Process
  PROVE  /\ Taken(p) \in Process /\ Taken(p).start = p.start /\ Taken(p).status = p.status
         /\ Taken(p).asked /\ Taken(p).pty = 0 /\ Taken(p).gen = p.gen
         /\ Taken(p).stopping = p.pty /\ Taken(p).blind = (p.child[p.pty] = "none")
         /\ ~Taken(p).session /\ Taken(p).refresh = p.refresh /\ Taken(p).timers = p.timers
         /\ Taken(p).child = p.child /\ Taken(p).overtaken = p.overtaken
<1> DEFINE b == p.child[p.pty] = "none"
           q == [p EXCEPT !.asked = TRUE, !.session = FALSE, !.pty = 0, !.stopping = p.pty, !.blind = b]
<1>1. b \in BOOLEAN /\ 0 \in 0..MaxGen
  BY ProcessAssumption
<1>2. Taken(p) = q
  BY DEF Taken
<1> HIDE DEF b
<1>3. q \in Process
  BY <1>1 DEF Process
<1>4. /\ q.start = p.start /\ q.status = p.status /\ q.asked /\ q.pty = 0 /\ q.gen = p.gen
      /\ q.stopping = p.pty
  BY <1>3 DEF Process
<1>5. /\ q.blind = b /\ ~q.session /\ q.refresh = p.refresh /\ q.timers = p.timers
      /\ q.child = p.child /\ q.overtaken = p.overtaken
  BY <1>3 DEF Process
<1> HIDE DEF q
<1> QED BY <1>2, <1>3, <1>4, <1>5 DEF b

\* The session timer fires, in a running process.
LEMMA RefreshingSound ==
  ASSUME NEW p \in Process, NEW torn \in BOOLEAN, Sound(p, torn), p.session
  PROVE  Refreshing(p) \in Process /\ Sound(Refreshing(p), torn) /\ p.status = "running"
<1> DEFINE q == Refreshing(p)
<1>0. /\ p.status = "running" /\ p.pty # 0 /\ p.start = "none" /\ ~p.refresh
      /\ p.stopping = 0 /\ ~(p.timers > 0) /\ p.pty = p.gen
  BY DEF Sound, Orderly, CurrentOnly, SessionRuns, TimerWaits
<1> DEFINE s == [p EXCEPT !.session = FALSE]
           d == Taken(s)
<1>1. /\ s \in Process /\ s.stopping = 0 /\ s.pty = p.pty /\ s.start = "none" /\ ~s.refresh
      /\ s.child = p.child /\ s.overtaken = p.overtaken /\ s.status = p.status
      /\ s.gen = p.gen /\ s.timers = p.timers
  BY <1>0 DEF Process
<1>2. /\ q \in Process /\ q.start = "none" /\ q.status = "running" /\ q.asked
      /\ q.pty = 0 /\ q.gen = p.gen /\ q.stopping = p.gen
      /\ q.blind = (p.child[p.gen] = "none")
      /\ ~q.session /\ q.refresh /\ q.timers = p.timers
      /\ q.child = p.child /\ q.overtaken = p.overtaken
  <2>1. Refreshing(p) = [Stopping(s) EXCEPT !.refresh = TRUE]
    BY DEF Refreshing
  <2> HIDE DEF s
  <2>2. ~Overtakes(s)
    BY <1>1 DEF Overtakes
  <2>3. [s EXCEPT !.overtaken = @ \/ Overtakes(s)] = s
    BY <1>1, <2>2 DEF Process
  <2>4. Stopping(s) = d
    BY <1>0, <1>1, <2>3 DEF Stopping, Taken
  <2>5. /\ d \in Process /\ d.start = "none" /\ d.status = p.status /\ d.asked
        /\ d.pty = 0 /\ d.gen = p.gen /\ d.stopping = p.gen
        /\ d.blind = (p.child[p.gen] = "none") /\ ~d.session /\ d.timers = p.timers
        /\ d.child = p.child /\ d.overtaken = p.overtaken
    BY <1>0, <1>1, TakenIs
  <2> HIDE DEF d
  <2>6. q = [d EXCEPT !.refresh = TRUE]
    BY <2>1, <2>4
  <2>7. q \in Process
    BY <2>5, <2>6 DEF Process
  <2>8. /\ q.start = d.start /\ q.status = d.status /\ q.asked = d.asked /\ q.pty = d.pty
        /\ q.gen = d.gen /\ q.stopping = d.stopping
    BY <2>5, <2>6 DEF Process
  <2>9. /\ q.blind = d.blind /\ q.session = d.session /\ q.refresh /\ q.timers = d.timers
        /\ q.child = d.child /\ q.overtaken = d.overtaken
    BY <2>5, <2>6 DEF Process
  <2> HIDE DEF q
  <2> QED BY <1>0, <2>5, <2>7, <2>8, <2>9
<1> HIDE DEF q
<1>3. Settled(q) /\ Live(q) = Live(p)
  BY <1>2 DEF Settled, Live
<1>4. CurrentOnly(q) /\ TimerWaits(q)
  BY <1>0, <1>2 DEF CurrentOnly, TimerWaits, Sound, Orderly, Process
<1>5. SessionRuns(q) /\ StartWaits(q)
  BY <1>2, <1>3 DEF SessionRuns, StartWaits
<1>6. ASSUME ~p.overtaken PROVE Sighted(q) /\ ~torn
  BY <1>0, <1>2, <1>3, <1>6 DEF Sighted, Sound, Quelled
<1>7. Sound(q, torn)
  BY <1>2, <1>4, <1>5, <1>6 DEF Sound, Orderly
<1> QED BY <1>0, <1>2, <1>7 DEF q

\* ... and goes on behind its stop.
LEMMA RefreshedSound ==
  ASSUME NEW p \in Process, NEW torn \in BOOLEAN, Sound(p, torn), p.refresh, p.stopping = 0
  PROVE  Refreshed(p) \in Process /\ Sound(Refreshed(p), torn) /\ p.status # "halted"
<1> DEFINE q == [p EXCEPT !.refresh = FALSE]
<1>0. /\ p.start = "none" /\ p.pty = 0 /\ ~p.session /\ ~(p.timers > 0)
      /\ p.status \in {"running", "stopped"} /\ Settled(p)
  BY DEF Sound, Orderly, SessionRuns, TimerWaits
<1>1. /\ q \in Process /\ q.start = p.start /\ q.status = p.status /\ q.asked = p.asked
      /\ q.pty = p.pty /\ q.gen = p.gen /\ q.stopping = p.stopping /\ q.blind = p.blind
      /\ q.session = p.session /\ ~q.refresh /\ q.timers = p.timers
      /\ q.child = p.child /\ q.overtaken = p.overtaken
  BY DEF Process
<1>2. Refreshed(p) = Started(q)
  BY DEF Refreshed
<1> HIDE DEF q
<1>3. Settled(q) /\ Live(q) = Live(p)
  BY <1>0, <1>1 DEF Settled, Live
<1>4. CurrentOnly(q) /\ TimerWaits(q)
  BY <1>0, <1>1 DEF CurrentOnly, TimerWaits, Sound, Orderly
<1>5. SessionRuns(q) /\ StartWaits(q)
  BY <1>0, <1>1 DEF SessionRuns, StartWaits, Sound, Orderly
<1>6. ASSUME ~p.overtaken PROVE Sighted(q) /\ ~torn
  BY <1>1, <1>3, <1>6 DEF Sighted, Quelled, Sound
<1>7. Sound(q, torn)
  BY <1>1, <1>4, <1>5, <1>6 DEF Sound, Orderly
<1>8. q.gen # MaxGen => Idle(q, torn) /\ q.status # "halted" /\ Settled(q)
  <2>1. q.gen \in 0..MaxGen /\ q.timers = 0
    BY <1>0, <1>1 DEF Process
  <2> QED BY <1>0, <1>1, <1>3, <1>6, <2>1, ProcessAssumption DEF Idle
<1> QED BY <1>0, <1>1, <1>2, <1>7, <1>8, StartedSound

\* A teardown's stop: of a process that was torn down before, or was not.
LEMMA StoppingSound ==
  ASSUME NEW p \in Process, NEW torn \in BOOLEAN, Sound(p, torn)
  PROVE  /\ Stopping(p) \in Process /\ Sound(Stopping(p), TRUE)
         /\ p.status = "halted" => Stopping(p).status \in {"halted", "stopped"}
<1> DEFINE m == [p EXCEPT !.overtaken = @ \/ Overtakes(p)]
           q == Stopping(p)
<1>1. /\ m \in Process /\ m.start = p.start /\ m.status = p.status /\ m.asked = p.asked
      /\ m.pty = p.pty /\ m.gen = p.gen /\ m.stopping = p.stopping /\ m.blind = p.blind
      /\ m.session = p.session /\ m.refresh = p.refresh /\ m.timers = p.timers
      /\ m.child = p.child
      /\ ~m.overtaken => ~p.overtaken /\ p.start = "none" /\ ~p.refresh
  BY DEF Process, Overtakes
<1>2. q = IF p.stopping # 0 THEN m
          ELSE IF p.pty = 0 THEN [m EXCEPT !.asked = TRUE, !.session = FALSE, !.status = "stopped"]
          ELSE Taken(m)
  BY <1>1 DEF Stopping, Taken
<1> HIDE DEF m
<1>3. CurrentOnly(m) /\ TimerWaits(m)
  BY <1>1 DEF CurrentOnly, TimerWaits, Sound, Orderly
<1>4. SessionRuns(m) /\ StartWaits(m)
  BY <1>1 DEF SessionRuns, StartWaits, Sound, Orderly, Settled
<1>5. ASSUME ~m.overtaken PROVE Sighted(m) /\ (torn => Quelled(m)) /\ (m.stopping # 0 => torn)
  <2>1. Live(m) = Live(p) /\ (Settled(p) => Settled(m))
    BY <1>1 DEF Live, Settled
  <2>2. Sighted(p) /\ (torn => Quelled(p)) /\ (p.stopping # 0 => torn)
    BY <1>1, <1>5 DEF Sound
  <2> QED BY <1>1, <2>1, <2>2 DEF Sighted, Quelled
<1>6. CASE p.stopping # 0
  <2>1. q = m
    BY <1>2, <1>6
  <2> HIDE DEF q
  <2>2. Sound(m, TRUE)
    BY <1>1, <1>3, <1>4, <1>5, <1>6 DEF Sound, Orderly
  <2> QED BY <1>1, <2>1, <2>2 DEF q
<1>7. CASE p.stopping = 0 /\ p.pty = 0
  <2>1. q = [m EXCEPT !.asked = TRUE, !.session = FALSE, !.status = "stopped"]
    BY <1>2, <1>7
  <2>2. /\ q \in Process /\ q.start = m.start /\ q.status = "stopped" /\ q.asked
        /\ q.pty = 0 /\ q.gen = m.gen /\ q.stopping = 0 /\ q.blind = m.blind
        /\ ~q.session /\ q.refresh = m.refresh /\ q.timers = m.timers
        /\ q.child = m.child /\ q.overtaken = m.overtaken
    BY <1>1, <1>7, <2>1 DEF Process, Statuses
  <2> HIDE DEF q
  <2>3. Settled(q) /\ Live(q) = Live(m)
    BY <2>2 DEF Settled, Live
  <2>4. CurrentOnly(q) /\ TimerWaits(q)
    BY <1>1, <1>3, <1>7, <2>2 DEF CurrentOnly, TimerWaits
  <2>5. SessionRuns(q) /\ StartWaits(q)
    BY <1>4, <2>2, <2>3 DEF SessionRuns, StartWaits
  <2>6. ASSUME ~m.overtaken PROVE Sighted(q) /\ Quelled(q)
    BY <1>1, <1>5, <1>7, <2>2, <2>3, <2>6 DEF Sighted, Quelled
  <2>7. Sound(q, TRUE)
    BY <2>2, <2>4, <2>5, <2>6 DEF Sound, Orderly
  <2> QED BY <2>2, <2>7 DEF q
<1>8. CASE p.stopping = 0 /\ p.pty # 0
  <2>1. q = Taken(m)
    BY <1>2, <1>8
  <2>2. /\ q \in Process /\ q.start = m.start /\ q.status = m.status /\ q.asked
        /\ q.pty = 0 /\ q.gen = m.gen /\ q.stopping = m.pty
        /\ q.blind = (m.child[m.pty] = "none")
        /\ ~q.session /\ q.refresh = m.refresh /\ q.timers = m.timers
        /\ q.child = m.child /\ q.overtaken = m.overtaken
    BY <1>1, <2>1, TakenIs
  <2> HIDE DEF q
  <2>3. /\ m.pty = m.gen /\ m.pty # 0 /\ ~(m.timers > 0) /\ ~m.refresh /\ m.start # "delay"
        /\ m.status # "halted" /\ m.stopping = 0
    BY <1>1, <1>3, <1>4, <1>8 DEF CurrentOnly, TimerWaits, SessionRuns, StartWaits
  <2>4. Settled(q) /\ Live(q) = Live(m)
    BY <2>2 DEF Settled, Live
  <2>5. CurrentOnly(q) /\ TimerWaits(q)
    BY <1>1, <1>3, <2>2, <2>3 DEF CurrentOnly, TimerWaits, Process
  <2>6. SessionRuns(q) /\ StartWaits(q)
    BY <1>4, <2>2, <2>3 DEF SessionRuns, StartWaits
  <2>7. ASSUME ~m.overtaken PROVE Sighted(q) /\ Quelled(q)
    BY <1>1, <1>5, <2>2, <2>3, <2>4, <2>7 DEF Sighted, Quelled
  <2>8. Sound(q, TRUE)
    BY <2>2, <2>5, <2>6, <2>7 DEF Sound, Orderly
  <2> QED BY <1>1, <2>2, <2>3, <2>8 DEF q
<1> QED BY <1>6, <1>7, <1>8
-----------------------------------------------------------------------------
(* The registry of AgentManager *)

Calls == [kind : Kinds, at : {"due", "starting", "evicting", "stopping", "stopped", "done"},
          of : Entries \cup {0}, held : Schedulers \cup {0}]
EntryRest == [torn : BOOLEAN, checker : BOOLEAN,
              poller : {"off", "polling", "waiting"}, late : BOOLEAN]

\* The calls that have made their entry, or never will.
Used == {c \in Requests : call[c].at \in {"starting", "done"}}
TearingDown == {"evicting", "stopping"}

\* The entries and who works on them: all but the registered one were torn
\* down, and the numbers suffice for the calls that are left.
Books ==
  /\ proc \in [Entries -> Process] /\ entry \in [Entries -> EntryRest]
  /\ call \in [Requests -> Calls]
  /\ made \in Entries \cup {0} /\ mapped \in 0..made
  /\ made <= Cardinality(Used) + 1
  /\ \A i \in Entries : Sound(proc[i], entry[i].torn)
  /\ \A i \in Entries : i <= made /\ i # mapped => entry[i].torn
  /\ \A i \in Entries : i > made => proc[i] = NewProcess /\ entry[i] = NewEntry
  /\ \A c \in Requests :
       /\ call[c].at \in TearingDown => call[c].of \in 1..made /\ entry[call[c].of].torn
       /\ (call[c].at = "starting" => call[c].of \in 1..made)
       /\ (call[c].at \notin TearingDown => call[c].held = 0)

\* The schedulers and who holds them.
Held == {call[c].held : c \in Requests}
Schedules ==
  /\ scheduler \in Schedulers \cup {0} /\ ticking \subseteq Schedulers
  /\ ticking \subseteq {scheduler} \cup Held
  /\ scheduler # 0 => scheduler \in ticking

\* A registered agent without a scheduler is in the middle of its start.
Served ==
  mapped # 0 /\ scheduler = 0 =>
    \E c \in Requests : call[c].at = "starting" /\ call[c].of = mapped

QuietEntry(e) == e.torn => ~e.checker /\ (e.poller = "polling" => e.late)
Quiet == \A i \in Entries : QuietEntry(entry[i])

Flags ==
  /\ pending \in BOOLEAN /\ evicting \in BOOLEAN
  /\ claimed \in BOOLEAN /\ justCrashed \in BOOLEAN
  /\ mishaps \in 0..MaxMishaps

AgentInv == Books /\ Schedules /\ Served /\ Quiet /\ Flags

HaltStep ==
  \A i \in Entries : proc[i].status = "halted" => proc'[i].status \in {"halted", "stopped"}

LEMMA Sizes ==
  /\ Cardinality(Requests) \in Nat /\ Entries = Schedulers
  /\ 1 \in Entries /\ 0 \notin Entries /\ Entries \subseteq Nat
  /\ IsFiniteSet(Schedulers) /\ Cardinality(Schedulers) = Cardinality(Requests) + 1
<1>1. Cardinality(Requests) \in Nat
  BY RequestsAssumption, FS_CardinalityType
<1>2. IsFiniteSet(Schedulers) /\ Cardinality(Schedulers) = Cardinality(Requests) + 1
  BY <1>1, FS_Interval DEF Schedulers
<1> QED BY <1>1, <1>2 DEF Entries, Schedulers

LEMMA NewProcessIs ==
  /\ NewProcess \in Process /\ NewProcess.status = "stopped" /\ NewProcess.pty = 0
  /\ NewProcess.gen = 0 /\ ~NewProcess.asked /\ NewProcess.stopping = 0 /\ ~NewProcess.blind
  /\ NewProcess.start = "none" /\ ~NewProcess.session /\ ~NewProcess.refresh
  /\ NewProcess.timers = 0 /\ ~NewProcess.overtaken
  /\ \A g \in Gens : NewProcess.child[g] = "none"
<1>1. 0 \in 0..MaxGen
  BY ProcessAssumption
<1>2. [g \in Gens |-> "none"] \in [Gens -> ChildStates]
  BY DEF ChildStates
<1>3. NewProcess \in Process
  BY <1>1, <1>2 DEF NewProcess, Process, Statuses
<1> QED BY <1>3 DEF NewProcess

LEMMA NewProcessSound ==
  Sound(NewProcess, FALSE) /\ Idle(NewProcess, FALSE) /\ Settled(NewProcess)
<1>1. Live(NewProcess) = {} /\ Settled(NewProcess)
  BY NewProcessIs DEF Live, Settled
<1>2. Orderly(NewProcess)
  BY NewProcessIs DEF Orderly, CurrentOnly, TimerWaits, SessionRuns, StartWaits
<1>3. Sighted(NewProcess)
  BY <1>1, NewProcessIs DEF Sighted
<1>4. Idle(NewProcess, FALSE)
  BY NewProcessIs, ProcessAssumption DEF Idle
<1> QED BY <1>1, <1>2, <1>3, <1>4, NewProcessIs DEF Sound

LEMMA StartedNewSound ==
  Started(NewProcess) \in Process /\ Sound(Started(NewProcess), FALSE)
BY NewProcessIs, NewProcessSound, StartedSound

\* discoverAndStart's agent.
LEMMA RunningSound ==
  /\ Spawned(Forked(Spawning(NewProcess))) \in Process
  /\ Sound(Spawned(Forked(Spawning(NewProcess))), FALSE)
<1> DEFINE a == Spawning(NewProcess)
           b == Forked(a)
<1>1. /\ a \in Process /\ Sound(a, FALSE) /\ a.start = "spawning" /\ a.gen = 1
      /\ a.child = NewProcess.child /\ 1 \in Gens
  <2>1. NewProcess.gen < MaxGen /\ 1 \in Gens
    BY NewProcessIs, ProcessAssumption DEF Gens
  <2>2. a \in Process /\ Sound(a, FALSE)
    BY NewProcessIs, NewProcessSound, SpawningSound
  <2>3. a.start = "spawning" /\ a.gen = 1 /\ a.child = NewProcess.child
    BY <2>1, NewProcessIs, SpawningIs
  <2> QED BY <2>1, <2>2, <2>3
<1>2. Unforked(a)
  BY <1>1, NewProcessIs DEF Unforked
<1> HIDE DEF a
<1>3. b \in Process /\ Sound(b, FALSE)
  BY <1>1, <1>2, ForkedSound
<1>4. b.start = "spawning" /\ b.gen = 1 /\ b.child[1] = "live"
  BY <1>1 DEF Forked, Process
<1> HIDE DEF b
<1>5. ~Unforked(b)
  BY <1>4 DEF Unforked
<1>6. Spawned(b) \in Process /\ Sound(Spawned(b), FALSE)
  BY <1>3, <1>4, <1>5, SpawnedSound
<1> QED BY <1>6 DEF a, b

\* An entry that was not made yet can do nothing.
LEMMA ActiveIsMade ==
  ASSUME AgentInv, NEW i \in Entries,
         \/ proc[i].start # "none" \/ proc[i].stopping # 0 \/ Live(proc[i]) # {}
         \/ proc[i].timers > 0 \/ proc[i].session \/ proc[i].refresh
         \/ \E g \in Gens : proc[i].child[g] = "dead"
  PROVE  i <= made
<1>1. Live(NewProcess) = {}
  BY NewProcessIs DEF Live
<1>2. proc[i] # NewProcess
  BY <1>1, NewProcessIs
<1> QED BY <1>2, Sizes DEF AgentInv, Books

\* A step of one process changes nothing but this process.
LEMMA ProcessKeeps ==
  ASSUME AgentInv, NEW i \in Entries, i <= made, NEW q \in Process,
         Sound(q, entry[i].torn), Becomes(i, q), mishaps' \in 0..MaxMishaps,
         proc[i].status = "halted" => q.status \in {"halted", "stopped"}
  PROVE  AgentInv' /\ HaltStep
<1>1. /\ proc' = [proc EXCEPT ![i] = q]
      /\ UNCHANGED <<entry, made, mapped, scheduler, ticking, pending, evicting, claimed,
                     justCrashed, call>>
  BY DEF Becomes, others, marks
<1>2. /\ proc' \in [Entries -> Process] /\ proc'[i] = q
      /\ \A j \in Entries : j # i => proc'[j] = proc[j]
  BY <1>1 DEF AgentInv, Books
<1>3. HaltStep
  BY <1>2 DEF HaltStep
<1>4. Used' = Used /\ Held' = Held
  BY <1>1 DEF Used, Held
<1>5. Books'
  <2>1. \A j \in Entries : Sound(proc'[j], entry'[j].torn)
    BY <1>1, <1>2 DEF AgentInv, Books
  <2>2. \A j \in Entries : j > made' => proc'[j] = NewProcess /\ entry'[j] = NewEntry
    BY <1>1, <1>2, Sizes DEF AgentInv, Books
  <2> QED BY <1>1, <1>2, <1>4, <2>1, <2>2 DEF AgentInv, Books
<1>6. Schedules' /\ Served' /\ Quiet' /\ Flags'
  BY <1>1, <1>4 DEF AgentInv, Schedules, Served, Quiet, Flags
<1> QED BY <1>3, <1>5, <1>6 DEF AgentInv

LEMMA MishapTyped ==
  ASSUME AgentInv, Mishap
  PROVE  mishaps' \in 0..MaxMishaps
BY RequestsAssumption DEF AgentInv, Flags, Mishap

LEMMA NoMishapTyped ==
  ASSUME AgentInv, UNCHANGED mishaps
  PROVE  mishaps' \in 0..MaxMishaps
BY DEF AgentInv, Flags

\* A start goes on: behind its delay, inside pty.spawn, behind it.
LEMMA StartStepsKeep ==
  ASSUME AgentInv, NEW i \in Entries,
         DelayOver(i) \/ Fork(i) \/ SpawnFails(i) \/ SpawnReturns(i)
  PROVE  AgentInv' /\ HaltStep
<1> DEFINE p == proc[i]
           t == entry[i].torn
<1>1. p \in Process /\ t \in BOOLEAN /\ Sound(p, t)
  BY DEF AgentInv, Books, EntryRest
<1>2. p.start # "none"
  BY DEF DelayOver, Fork, SpawnFails, SpawnReturns, Unforked
<1>3. i <= made
  BY <1>2, ActiveIsMade
<1>4. CASE DelayOver(i)
  <2>1. p.start = "delay" /\ Becomes(i, Spawning(p)) /\ UNCHANGED mishaps
    BY <1>4 DEF DelayOver, GoesOn
  <2>2. Idle(p, t) /\ p.status # "halted"
    <3>1. /\ p.pty = 0 /\ p.stopping = 0 /\ ~(p.timers > 0) /\ p.gen < MaxGen
          /\ ~p.session /\ ~p.refresh /\ p.status # "halted" /\ (t => p.overtaken)
      BY <1>1, <2>1 DEF Sound, Orderly, TimerWaits, SessionRuns, StartWaits, Quelled
    <3>2. p.timers = 0
      BY <1>1, <3>1 DEF Process
    <3> QED BY <2>1, <3>1, <3>2 DEF Idle
  <2>3. Spawning(p) \in Process /\ Sound(Spawning(p), t)
    BY <1>1, <2>2, SpawningSound
  <2> QED BY <1>3, <2>1, <2>2, <2>3, NoMishapTyped, ProcessKeeps
<1>5. CASE Fork(i)
  <2>1. Unforked(p) /\ Becomes(i, Forked(p)) /\ UNCHANGED mishaps
    BY <1>5 DEF Fork, GoesOn
  <2>2. p.status # "halted"
    BY <1>1, <2>1 DEF Unforked, Sound, Orderly, StartWaits
  <2>3. Forked(p) \in Process /\ Sound(Forked(p), t)
    BY <1>1, <2>1, ForkedSound
  <2> QED BY <1>3, <2>1, <2>2, <2>3, NoMishapTyped, ProcessKeeps
<1>6. CASE SpawnFails(i)
  <2>1. Unforked(p) /\ Becomes(i, SpawnFailed(p)) /\ Mishap
    BY <1>6 DEF SpawnFails
  <2>2. p.status # "halted"
    BY <1>1, <2>1 DEF Unforked, Sound, Orderly, StartWaits
  <2>3. SpawnFailed(p) \in Process /\ Sound(SpawnFailed(p), t)
    BY <1>1, <2>1, SpawnFailedSound
  <2> QED BY <1>3, <2>1, <2>2, <2>3, MishapTyped, ProcessKeeps
<1>7. CASE SpawnReturns(i)
  <2>1. p.start = "spawning" /\ ~Unforked(p) /\ Becomes(i, Spawned(p)) /\ UNCHANGED mishaps
    BY <1>7 DEF SpawnReturns, GoesOn
  <2>2. ASSUME p.status = "halted" PROVE Spawned(p).status = "halted"
    <3>1. p.pty = 0
      BY <1>1, <2>2 DEF Sound, Orderly, StartWaits
    <3> QED BY <1>1, <2>2, <3>1 DEF Spawned, Process
  <2>3. Spawned(p) \in Process /\ Sound(Spawned(p), t)
    BY <1>1, <2>1, SpawnedSound
  <2> QED BY <1>3, <2>1, <2>2, <2>3, NoMishapTyped, ProcessKeeps
<1> QED BY <1>4, <1>5, <1>6, <1>7

\* A child dies, killed by a stop or of its own, and its exit is heard of.
LEMMA ExitStepsKeep ==
  ASSUME AgentInv, NEW i \in Entries,
         \/ ChildKilled(i) \/ ChildExits(i)
         \/ \E g \in Gens, v \in Verdicts : ExitEvent(i, g, v)
  PROVE  AgentInv' /\ HaltStep
<1> DEFINE p == proc[i]
           t == entry[i].torn
<1>1. p \in Process /\ t \in BOOLEAN /\ Sound(p, t)
  BY DEF AgentInv, Books, EntryRest
<1>2. ASSUME NEW g \in Live(p), Becomes(i, Dies(p, g)), mishaps' \in 0..MaxMishaps
      PROVE  AgentInv' /\ HaltStep
  <2>1. i <= made
    BY ActiveIsMade
  <2>2. g \in Gens /\ p.child[g] = "live"
    BY DEF Live
  <2>3. Dies(p, g) \in Process /\ Sound(Dies(p, g), t)
    BY <1>1, <2>2, ChildMoved DEF Dies
  <2>4. Dies(p, g).status = p.status
    BY <1>1 DEF Dies, Process
  <2> QED BY <1>2, <2>1, <2>3, <2>4, ProcessKeeps
<1>3. CASE ChildKilled(i)
  <2>1. p.stopping \in Live(p) /\ Becomes(i, Dies(p, p.stopping)) /\ UNCHANGED mishaps
    <3>1. p.stopping \in Gens
      BY <1>1, <1>3, ProcessAssumption DEF ChildKilled, Process, Gens
    <3> QED BY <1>3, <3>1 DEF ChildKilled, GoesOn, Live
  <2> QED BY <1>2, <2>1, NoMishapTyped
<1>4. CASE ChildExits(i)
  BY <1>2, <1>4, MishapTyped DEF ChildExits
<1>5. ASSUME NEW g \in Gens, NEW v \in Verdicts, ExitEvent(i, g, v)
      PROVE  AgentInv' /\ HaltStep
  <2>1. p.child[g] = "dead" /\ Becomes(i, Handled(p, g, v)) /\ UNCHANGED mishaps
    BY <1>5 DEF ExitEvent, GoesOn
  <2>2. i <= made
    BY <2>1, ActiveIsMade
  <2>3. /\ Handled(p, g, v) \in Process /\ Sound(Handled(p, g, v), t)
        /\ p.status = "halted" => Handled(p, g, v).status = "halted"
    BY <1>1, <2>1, HandledSound
  <2> QED BY <2>1, <2>2, <2>3, NoMishapTyped, ProcessKeeps
<1> QED BY <1>3, <1>4, <1>5

\* A stop is over, a timer fires, a refresh goes on.
LEMMA TimerStepsKeep ==
  ASSUME AgentInv, NEW i \in Entries,
         StopFinishes(i) \/ RestartTimer(i) \/ SessionTimer(i) \/ RefreshGoesOn(i)
  PROVE  AgentInv' /\ HaltStep
<1> DEFINE p == proc[i]
           t == entry[i].torn
<1>1. p \in Process /\ t \in BOOLEAN /\ Sound(p, t)
  BY DEF AgentInv, Books, EntryRest
<1>2. i <= made
  BY ActiveIsMade DEF StopFinishes, RestartTimer, SessionTimer, RefreshGoesOn, StopMayEnd
<1>3. CASE StopFinishes(i)
  <2>1. StopMayEnd(p) /\ Becomes(i, Stopped(p)) /\ UNCHANGED mishaps
    BY <1>3 DEF StopFinishes, GoesOn
  <2>2. Stopped(p) \in Process /\ Sound(Stopped(p), t)
    BY <1>1, <2>1, StoppedSound
  <2>3. Stopped(p).status = "stopped"
    BY <1>1 DEF Stopped, Process
  <2> QED BY <1>2, <2>1, <2>2, <2>3, NoMishapTyped, ProcessKeeps
<1>4. CASE RestartTimer(i)
  <2>1. p.timers > 0 /\ Becomes(i, Restarted(p)) /\ UNCHANGED mishaps
    BY <1>4 DEF RestartTimer, GoesOn
  <2>2. /\ Restarted(p) \in Process /\ Sound(Restarted(p), t)
        /\ p.status = "halted" => Restarted(p).status = "halted"
    BY <1>1, <2>1, RestartedSound
  <2> QED BY <1>2, <2>1, <2>2, NoMishapTyped, ProcessKeeps
<1>5. CASE SessionTimer(i)
  <2>1. p.session /\ Becomes(i, Refreshing(p)) /\ Mishap
    BY <1>5 DEF SessionTimer
  <2>2. /\ Refreshing(p) \in Process /\ Sound(Refreshing(p), t) /\ p.status = "running"
    BY <1>1, <2>1, RefreshingSound
  <2> QED BY <1>2, <2>1, <2>2, MishapTyped, ProcessKeeps
<1>6. CASE RefreshGoesOn(i)
  <2>1. p.refresh /\ p.stopping = 0 /\ Becomes(i, Refreshed(p)) /\ UNCHANGED mishaps
    BY <1>6 DEF RefreshGoesOn, GoesOn
  <2>2. Refreshed(p) \in Process /\ Sound(Refreshed(p), t) /\ p.status # "halted"
    BY <1>1, <2>1, RefreshedSound
  <2> QED BY <1>2, <2>1, <2>2, NoMishapTyped, ProcessKeeps
<1> QED BY <1>3, <1>4, <1>5, <1>6

-----------------------------------------------------------------------------
(* The steps of the registry *)

LEMMA MovesIs ==
  ASSUME call \in [Requests -> Calls], NEW c \in Requests, NEW at, NEW of, NEW held,
         Moves(c, at, of, held)
  PROVE  /\ call'[c].at = at /\ call'[c].of = of /\ call'[c].held = held
         /\ call'[c].kind = call[c].kind
         /\ \A d \in Requests : d # c => call'[d] = call[d]
         /\ UNCHANGED mishaps
BY DEF Moves, Calls

LEMMA MovesTyped ==
  ASSUME call \in [Requests -> Calls], NEW c \in Requests,
         NEW at \in {"due", "starting", "evicting", "stopping", "stopped", "done"},
         NEW of \in Entries \cup {0}, NEW held \in Schedulers \cup {0},
         Moves(c, at, of, held)
  PROVE  call' \in [Requests -> Calls]
BY DEF Moves, Calls

\* What becomes of the numbers: a call is used once.
LEMMA UsedGrows ==
  ASSUME NEW c \in Requests, \A d \in Requests : d # c => call'[d] = call[d]
  PROVE  /\ Cardinality(Used) \in Nat
         /\ (call[c].at \in {"starting", "done"} => call'[c].at \in {"starting", "done"})
            => Cardinality(Used') >= Cardinality(Used)
         /\ call[c].at \notin {"starting", "done"} => Cardinality(Used) + 1 <= Cardinality(Requests)
         /\ call[c].at \notin {"starting", "done"} /\ call'[c].at \in {"starting", "done"}
            => Cardinality(Used') = Cardinality(Used) + 1
         /\ Used \in SUBSET Requests
<1>0. Used \in SUBSET Requests /\ Used' \in SUBSET Requests /\ IsFiniteSet(Requests)
  BY RequestsAssumption DEF Used
<1>1. IsFiniteSet(Used) /\ IsFiniteSet(Used')
  BY <1>0, FS_Subset
<1>2. Cardinality(Used) \in Nat /\ Cardinality(Used') \in Nat
  BY <1>1, FS_CardinalityType
<1>3. ASSUME call[c].at \in {"starting", "done"} => call'[c].at \in {"starting", "done"}
      PROVE  Cardinality(Used') >= Cardinality(Used)
  <2>1. Used \in SUBSET Used'
    BY <1>3 DEF Used
  <2>2. Cardinality(Used) <= Cardinality(Used')
    BY <1>1, <2>1, FS_Subset
  <2> QED BY <1>2, <2>2
<1>4. ASSUME call[c].at \notin {"starting", "done"}
      PROVE  Cardinality(Used) + 1 <= Cardinality(Requests)
  <2>1. c \notin Used /\ Used \cup {c} \in SUBSET Requests
    BY <1>0, <1>4 DEF Used
  <2>2. Cardinality(Used \cup {c}) = Cardinality(Used) + 1
    BY <1>1, <2>1, FS_AddElement
  <2>3. Cardinality(Used \cup {c}) <= Cardinality(Requests)
    BY <1>0, <2>1, FS_Subset
  <2> QED BY <2>2, <2>3
<1>5. ASSUME call[c].at \notin {"starting", "done"}, call'[c].at \in {"starting", "done"}
      PROVE  Cardinality(Used') = Cardinality(Used) + 1
  <2>1. Used' = Used \cup {c} /\ c \notin Used
    BY <1>5 DEF Used
  <2> QED BY <1>1, <2>1, FS_AddElement
<1> QED BY <1>0, <1>2, <1>3, <1>4, <1>5

\* There is a scheduler to take when none is registered, or the registered one
\* is held: the calls cannot hold them all.
LEMMA FreshScheduler ==
  ASSUME AgentInv, scheduler = 0 \/ scheduler \in Held
  PROVE  /\ FreeScheduler \in Schedulers /\ FreeScheduler \notin ticking \cup {scheduler}
         /\ FreeScheduler # 0 /\ FreeScheduler \notin Held
<1>1. \E s \in Schedulers : s \notin ticking \cup {scheduler} /\ \A c \in Requests : call[c].held # s
  <2> SUFFICES ASSUME \A s \in Schedulers :
                 s \in ticking \cup {scheduler} \/ \E c \in Requests : call[c].held = s
               PROVE  FALSE
    OBVIOUS
  <2>1. \A s \in Schedulers : \E c \in Requests : call[c].held = s
    <3>1. ASSUME NEW s \in Schedulers PROVE s \in Held
      <4>1. s # 0
        BY Sizes
      <4>2. s \in Held \/ s \in ticking \cup {scheduler}
        BY DEF Held
      <4>3. ticking \subseteq {scheduler} \cup Held
        BY DEF AgentInv, Schedules
      <4> QED BY <4>1, <4>2, <4>3
    <3> QED BY <3>1 DEF Held
  <2> DEFINE f == [s \in Schedulers |-> CHOOSE c \in Requests : call[c].held = s]
  <2>2. f \in [Schedulers -> Requests] /\ \A s \in Schedulers : call[f[s]].held = s
    BY <2>1
  <2> HIDE DEF f
  <2>3. /\ IsFiniteSet(Schedulers) /\ IsFiniteSet(Requests)
        /\ Cardinality(Requests) < Cardinality(Schedulers)
    BY Sizes, RequestsAssumption
  <2>4. \E x, y \in Schedulers : x # y /\ f[x] = f[y]
    BY <2>2, <2>3, FS_PigeonHole
  <2> QED BY <2>2, <2>4
<1>2. /\ FreeScheduler \in Schedulers /\ FreeScheduler \notin ticking \cup {scheduler}
      /\ \A c \in Requests : call[c].held # FreeScheduler
  BY <1>1 DEF FreeScheduler
<1> QED BY <1>2, Sizes DEF Held

\* A registered agent without a scheduler is wired one.
LEMMA WiredKeeps ==
  ASSUME AgentInv, scheduler = 0, scheduler' = FreeScheduler,
         ticking' = ticking \cup {FreeScheduler}, Held' \cup {0} = Held \cup {0}
  PROVE  Schedules' /\ scheduler' # 0
<1>1. FreeScheduler \in Schedulers /\ FreeScheduler # 0
  BY FreshScheduler
<1>2. ticking \subseteq Held /\ 0 \notin ticking
  BY Sizes DEF AgentInv, Schedules
<1> QED BY <1>1, <1>2 DEF AgentInv, Schedules

\* The end of a teardown gives back the scheduler it held.
LEMMA GivenBack ==
  ASSUME AgentInv, NEW c \in Requests, call'[c].held = 0,
         \A d \in Requests : d # c => call'[d] = call[d],
         SchedulerTornDown(call[c].of, call[c].held)
  PROVE  /\ Schedules'
         /\ mapped \notin {0, call[c].of} /\ scheduler' = 0 => scheduler = 0
<1> DEFINE h == call[c].held
           own == call[c].of
<1>1. Held \subseteq Held' \cup {h} /\ Held' \subseteq Held \cup {0}
  BY DEF Held
<1>2. /\ scheduler \in Schedulers \cup {0} /\ ticking \subseteq Schedulers
      /\ ticking \subseteq {scheduler} \cup Held /\ (scheduler # 0 => scheduler \in ticking)
      /\ 0 \notin ticking /\ h \in Held
  BY Sizes DEF AgentInv, Schedules, Held
<1> DEFINE free == FreeScheduler
<1>3. \/ /\ h # 0 /\ scheduler = h /\ mapped \notin {0, own}
         /\ scheduler' = free /\ ticking' = (ticking \ {h}) \cup {free}
      \/ /\ h # 0 /\ scheduler = h /\ mapped \in {0, own}
         /\ scheduler' = 0 /\ ticking' = ticking \ {h}
      \/ /\ h # 0 /\ scheduler # h
         /\ ticking' = ticking \ {h} /\ scheduler' = scheduler
      \/ /\ h = 0 /\ mapped = own /\ scheduler' = 0 /\ ticking' = ticking \ {scheduler}
      \/ /\ h = 0 /\ mapped # own /\ scheduler' = scheduler /\ ticking' = ticking
  BY DEF SchedulerTornDown
<1>4. scheduler = h => free \in Schedulers /\ free # 0
  BY <1>2, FreshScheduler
<1> HIDE DEF h, own, free
<1>5. CASE /\ h # 0 /\ scheduler = h /\ mapped \notin {0, own}
           /\ scheduler' = free /\ ticking' = (ticking \ {h}) \cup {free}
  BY <1>1, <1>2, <1>4, <1>5 DEF Schedules
<1>6. CASE /\ h # 0 /\ scheduler = h /\ mapped \in {0, own}
           /\ scheduler' = 0 /\ ticking' = ticking \ {h}
  BY <1>1, <1>2, <1>6 DEF Schedules, own
<1>7. CASE /\ h # 0 /\ scheduler # h
           /\ ticking' = ticking \ {h} /\ scheduler' = scheduler
  BY <1>1, <1>2, <1>7 DEF Schedules
<1>8. CASE h = 0 /\ mapped = own /\ scheduler' = 0 /\ ticking' = ticking \ {scheduler}
  BY <1>1, <1>2, <1>8 DEF Schedules, own
<1>9. CASE h = 0 /\ mapped # own /\ scheduler' = scheduler /\ ticking' = ticking
  BY <1>1, <1>2, <1>9 DEF Schedules
<1> QED BY <1>3, <1>5, <1>6, <1>7, <1>8, <1>9

\* A new entry is registered under a name that nobody needs any more.
LEMMA RegistersKeeps ==
  ASSUME AgentInv, NEW c \in Requests, call[c].at \notin {"starting", "done"},
         Registers(c), entry' = entry, mapped = 0 \/ entry[mapped].torn
  PROVE  /\ Books' /\ Served' /\ HaltStep
         /\ call'[c].held = 0 /\ \A d \in Requests : d # c => call'[d] = call[d]
         /\ UNCHANGED mishaps
<1> DEFINE n == made + 1
<1>1. /\ made' = n /\ mapped' = n /\ proc' = [proc EXCEPT ![n] = Started(@)]
      /\ Moves(c, "starting", n, 0)
  BY DEF Registers
<1>2. /\ call'[c].at = "starting" /\ call'[c].of = n /\ call'[c].held = 0
      /\ \A d \in Requests : d # c => call'[d] = call[d]
      /\ UNCHANGED mishaps
  BY <1>1, MovesIs DEF AgentInv, Books
<1>3. n \in Entries /\ made' <= Cardinality(Used') + 1 /\ made \in Nat
  <2>1. made \in Nat /\ made <= Cardinality(Used) + 1
    BY Sizes DEF AgentInv, Books
  <2>2. /\ Cardinality(Used) \in Nat /\ Cardinality(Used) + 1 <= Cardinality(Requests)
        /\ Cardinality(Used') = Cardinality(Used) + 1
    BY <1>2, UsedGrows
  <2> QED BY <1>1, <2>1, <2>2, Sizes DEF Entries
<1> HIDE DEF n
<1>4. proc[n] = NewProcess /\ entry[n] = NewEntry
  BY <1>3, Sizes DEF AgentInv, Books, n
<1>5. /\ proc' \in [Entries -> Process] /\ proc'[n] = Started(NewProcess)
      /\ \A i \in Entries : i # n => proc'[i] = proc[i]
  BY <1>1, <1>3, <1>4, StartedNewSound DEF AgentInv, Books
<1>6. call' \in [Requests -> Calls]
  BY <1>1, <1>3, MovesTyped DEF AgentInv, Books
<1>7. HaltStep
  BY <1>4, <1>5, NewProcessIs DEF HaltStep
<1>8. Served'
  BY <1>1, <1>2 DEF Served
<1>9. ASSUME NEW i \in Entries PROVE Sound(proc'[i], entry'[i].torn)
  <2>1. CASE i = n
    <3>1. entry'[i].torn = FALSE
      BY <1>4, <2>1 DEF NewEntry
    <3> QED BY <1>5, <2>1, <3>1, StartedNewSound
  <2>2. CASE i # n
    BY <1>5, <2>2 DEF AgentInv, Books
  <2> QED BY <2>1, <2>2
<1>10. \A i \in Entries : i <= made' /\ i # mapped' => entry'[i].torn
  <2>1. \A i \in Entries : i <= made => i = mapped \/ entry[i].torn
    BY DEF AgentInv, Books
  <2>2. \A i \in Entries : i <= n /\ i # n => i <= made
    BY <1>3, Sizes DEF n
  <2>3. 0 \notin Entries
    BY Sizes
  <2> QED BY <1>1, <2>1, <2>2, <2>3
<1>11. \A i \in Entries : i > made' => proc'[i] = NewProcess /\ entry'[i] = NewEntry
  <2>1. \A i \in Entries : i > n => i > made /\ i # n
    BY <1>3 DEF n, Entries
  <2> QED BY <1>1, <1>5, <2>1 DEF AgentInv, Books
<1>12. \A d \in Requests :
         /\ call'[d].at \in TearingDown => call'[d].of \in 1..made' /\ entry'[call'[d].of].torn
         /\ (call'[d].at = "starting" => call'[d].of \in 1..made')
         /\ (call'[d].at \notin TearingDown => call'[d].held = 0)
  <2>1. 1..made \subseteq 1..made' /\ n \in 1..made'
    BY <1>1, <1>3 DEF n
  <2>2. ASSUME NEW d \in Requests, d # c
        PROVE  /\ call'[d].at \in TearingDown => call'[d].of \in 1..made' /\ entry'[call'[d].of].torn
               /\ (call'[d].at = "starting" => call'[d].of \in 1..made')
               /\ (call'[d].at \notin TearingDown => call'[d].held = 0)
    BY <1>2, <2>1, <2>2 DEF AgentInv, Books
  <2>3. "starting" \notin TearingDown
    BY DEF TearingDown
  <2> QED BY <1>2, <2>1, <2>2, <2>3
<1>13. mapped' \in 0..made' /\ made' \in Entries \cup {0} /\ entry' \in [Entries -> EntryRest]
  BY <1>1, <1>3 DEF n, AgentInv, Books
<1>14. Books'
  BY <1>3, <1>5, <1>6, <1>9, <1>10, <1>11, <1>12, <1>13 DEF Books
<1> QED BY <1>2, <1>7, <1>8, <1>14

\* One entry is replaced.
LEMMA EntryPut ==
  ASSUME entry \in [Entries -> EntryRest], NEW i \in Entries, NEW e \in EntryRest,
         entry' = [entry EXCEPT ![i] = e]
  PROVE  /\ entry' \in [Entries -> EntryRest] /\ entry'[i] = e
         /\ \A j \in Entries : j # i => entry'[j] = entry[j]
OBVIOUS

\* A teardown begins: the registered entry is marked, quiet, and its stop called.
LEMMA TeardownKeeps ==
  ASSUME AgentInv, NEW c \in Requests, call[c].at \notin {"starting", "done"} \cup TearingDown,
         NEW at \in TearingDown, mapped # 0, TearsDown(mapped),
         proc' = [proc EXCEPT ![mapped] = Stopping(@)], Moves(c, at, mapped, scheduler),
         UNCHANGED <<made, mapped, scheduler, ticking>>
  PROVE  Books' /\ Schedules' /\ Served' /\ Quiet' /\ HaltStep /\ UNCHANGED mishaps
<1>1. /\ call'[c].at = at /\ call'[c].of = mapped /\ call'[c].held = scheduler
      /\ \A d \in Requests : d # c => call'[d] = call[d]
      /\ UNCHANGED mishaps
  BY MovesIs DEF AgentInv, Books
<1>2. mapped \in Entries /\ mapped \in 1..made /\ mapped <= made
  BY Sizes DEF AgentInv, Books, Entries
<1>3. /\ entry' \in [Entries -> EntryRest] /\ entry'[mapped].torn /\ ~entry'[mapped].checker
      /\ entry'[mapped].poller # "polling"
      /\ \A i \in Entries : i # mapped => entry'[i] = entry[i]
  <2>1. entry[mapped] \in EntryRest /\ entry \in [Entries -> EntryRest]
    BY <1>2 DEF AgentInv, Books
  <2> DEFINE e == [entry[mapped] EXCEPT !.torn = TRUE, !.checker = FALSE,
                     !.poller = IF entry[mapped].poller = "waiting" THEN "waiting" ELSE "off"]
  <2>2. entry' = [entry EXCEPT ![mapped] = e]
    BY DEF TearsDown
  <2>3. e \in EntryRest
    BY <2>1 DEF EntryRest
  <2>4. e.torn /\ ~e.checker /\ e.poller # "polling"
    BY <2>1 DEF EntryRest
  <2> HIDE DEF e
  <2>5. /\ entry' \in [Entries -> EntryRest] /\ entry'[mapped] = e
        /\ \A i \in Entries : i # mapped => entry'[i] = entry[i]
    BY <1>2, <2>1, <2>2, <2>3, EntryPut
  <2> QED BY <2>4, <2>5
<1>4. /\ Stopping(proc[mapped]) \in Process /\ Sound(Stopping(proc[mapped]), TRUE)
      /\ proc[mapped].status = "halted" => Stopping(proc[mapped]).status \in {"halted", "stopped"}
  BY <1>2, StoppingSound DEF AgentInv, Books, EntryRest
<1>5. /\ proc' \in [Entries -> Process] /\ proc'[mapped] = Stopping(proc[mapped])
      /\ \A i \in Entries : i # mapped => proc'[i] = proc[i]
  BY <1>2, <1>4 DEF AgentInv, Books
<1>6. call' \in [Requests -> Calls]
  BY <1>2, MovesTyped DEF TearingDown, AgentInv, Books, Schedules
<1>7. HaltStep
  BY <1>4, <1>5 DEF HaltStep
<1>8. Quiet'
  BY <1>3 DEF AgentInv, Quiet, QuietEntry
<1>9. \A i \in Entries : Sound(proc'[i], entry'[i].torn)
  <2>1. entry'[mapped].torn = TRUE
    BY <1>2, <1>3 DEF EntryRest
  <2> QED BY <1>3, <1>4, <1>5, <2>1 DEF AgentInv, Books
<1>10. Schedules'
  <2>1. call[c].held = 0
    BY DEF AgentInv, Books
  <2>2. Held \subseteq Held' \cup {0}
    BY <1>1, <2>1 DEF Held
  <2>3. 0 \notin Schedulers
    BY Sizes
  <2> QED BY <2>2, <2>3 DEF AgentInv, Schedules
<1>11. Served'
  BY <1>1 DEF AgentInv, Served
<1>12. made' <= Cardinality(Used') + 1
  <2>1. Cardinality(Used') >= Cardinality(Used) /\ Cardinality(Used) \in Nat
    BY <1>1, UsedGrows
  <2>2. Cardinality(Used') \in Nat
    BY RequestsAssumption, FS_Subset, FS_CardinalityType DEF Used
  <2> QED BY <2>1, <2>2, Sizes DEF AgentInv, Books
<1>13. \A i \in Entries : i > made' => proc'[i] = NewProcess /\ entry'[i] = NewEntry
  BY <1>2, <1>3, <1>5, Sizes DEF AgentInv, Books
<1>14. \A d \in Requests :
         /\ call'[d].at \in TearingDown => call'[d].of \in 1..made' /\ entry'[call'[d].of].torn
         /\ (call'[d].at = "starting" => call'[d].of \in 1..made')
         /\ (call'[d].at \notin TearingDown => call'[d].held = 0)
  <2>1. \A i \in Entries : entry[i].torn => entry'[i].torn
    BY <1>3
  <2>2. 1..made \subseteq Entries
    BY Sizes DEF AgentInv, Books, Entries
  <2>3. ASSUME NEW d \in Requests, d # c
        PROVE  /\ call'[d].at \in TearingDown => call'[d].of \in 1..made' /\ entry'[call'[d].of].torn
               /\ (call'[d].at = "starting" => call'[d].of \in 1..made')
               /\ (call'[d].at \notin TearingDown => call'[d].held = 0)
    BY <1>1, <2>1, <2>2, <2>3 DEF AgentInv, Books
  <2>4. at # "starting"
    BY DEF TearingDown
  <2> QED BY <1>1, <1>2, <1>3, <2>3, <2>4
<1>15. Books'
  <2>1. \A i \in Entries : i <= made' /\ i # mapped' => entry'[i].torn
    BY <1>3 DEF AgentInv, Books
  <2>2. made' \in Entries \cup {0} /\ mapped' \in 0..made'
    BY DEF AgentInv, Books
  <2> QED BY <1>3, <1>5, <1>6, <1>9, <1>12, <1>13, <1>14, <2>1, <2>2 DEF Books
<1> QED BY <1>1, <1>7, <1>8, <1>10, <1>11, <1>15

\* A call goes on to an await, or returns, that concerns no entry; the name may
\* be freed of an entry that was torn down.
LEMMA LeavesKeeps ==
  ASSUME AgentInv, NEW c \in Requests, NEW at \in {"stopped", "done"},
         call[c].at \in {"starting", "done"} => at = "done",
         NEW of \in Entries \cup {0}, Moves(c, at, of, 0),
         UNCHANGED <<proc, made>>,
         entry' \in [Entries -> EntryRest], \A i \in Entries : entry'[i].torn = entry[i].torn,
         \A i \in Entries : i > made => entry'[i] = entry[i],
         mapped' = mapped \/ (mapped' = 0 /\ (mapped # 0 => entry[mapped].torn))
  PROVE  /\ Books' /\ HaltStep
         /\ call'[c].held = 0 /\ \A d \in Requests : d # c => call'[d] = call[d]
         /\ UNCHANGED mishaps
<1>1. /\ call'[c].at = at /\ call'[c].of = of /\ call'[c].held = 0
      /\ \A d \in Requests : d # c => call'[d] = call[d]
      /\ UNCHANGED mishaps
  BY MovesIs DEF AgentInv, Books
<1>2. call' \in [Requests -> Calls]
  <2>1. /\ at \in {"due", "starting", "evicting", "stopping", "stopped", "done"}
        /\ 0 \in Schedulers \cup {0} /\ call \in [Requests -> Calls]
    BY DEF AgentInv, Books
  <2> QED BY <2>1, MovesTyped
<1>3. HaltStep
  BY DEF HaltStep
<1>4. made' <= Cardinality(Used') + 1
  <2>1. Cardinality(Used') >= Cardinality(Used) /\ Cardinality(Used) \in Nat
    BY <1>1, UsedGrows
  <2>2. Cardinality(Used') \in Nat
    BY RequestsAssumption, FS_Subset, FS_CardinalityType DEF Used
  <2> QED BY <2>1, <2>2, Sizes DEF AgentInv, Books
<1>5. \A d \in Requests :
        /\ call'[d].at \in TearingDown => call'[d].of \in 1..made' /\ entry'[call'[d].of].torn
        /\ (call'[d].at = "starting" => call'[d].of \in 1..made')
        /\ (call'[d].at \notin TearingDown => call'[d].held = 0)
  <2>1. at \notin TearingDown /\ at # "starting"
    BY DEF TearingDown
  <2>2. 1..made \subseteq Entries
    BY Sizes DEF AgentInv, Books, Entries
  <2>3. ASSUME NEW d \in Requests, d # c
        PROVE  /\ call'[d].at \in TearingDown => call'[d].of \in 1..made' /\ entry'[call'[d].of].torn
               /\ (call'[d].at = "starting" => call'[d].of \in 1..made')
               /\ (call'[d].at \notin TearingDown => call'[d].held = 0)
    BY <1>1, <2>2, <2>3 DEF AgentInv, Books
  <2> QED BY <1>1, <2>1, <2>3
<1>6. \A i \in Entries : i <= made' /\ i # mapped' => entry'[i].torn
  BY DEF AgentInv, Books
<1>7. made' \in Entries \cup {0} /\ mapped' \in 0..made' /\ proc' \in [Entries -> Process]
  BY Sizes DEF AgentInv, Books
<1>8. \A i \in Entries : Sound(proc'[i], entry'[i].torn)
  BY DEF AgentInv, Books
<1>9. \A i \in Entries : i > made' => proc'[i] = NewProcess /\ entry'[i] = NewEntry
  BY DEF AgentInv, Books
<1>10. Books'
  BY <1>2, <1>4, <1>5, <1>6, <1>7, <1>8, <1>9 DEF Books
<1> QED BY <1>1, <1>3, <1>10

\* A call that returns without having touched anything.
LEMMA ReturnsKeeps ==
  ASSUME AgentInv, NEW c \in Requests, call[c].at \notin {"starting", "done"} \cup TearingDown,
         Returns(c), UNCHANGED <<proc, entry, made, mapped, scheduler, ticking>>, Flags'
  PROVE  AgentInv' /\ HaltStep
<1>1. /\ Books' /\ HaltStep /\ call'[c].held = 0
      /\ \A d \in Requests : d # c => call'[d] = call[d]
  <2>1. entry' \in [Entries -> EntryRest] /\ "done" \in {"stopped", "done"} /\ 0 \in Entries \cup {0}
    BY DEF AgentInv, Books
  <2> QED BY <2>1, LeavesKeeps DEF Returns
<1>2. call[c].held = 0 /\ call[c].at # "starting"
  BY DEF AgentInv, Books
<1>3. Held' = Held
  BY <1>1, <1>2 DEF Held
<1>4. Schedules' /\ Served' /\ Quiet'
  BY <1>1, <1>2, <1>3 DEF AgentInv, Schedules, Served, Quiet
<1> QED BY <1>1, <1>4 DEF AgentInv

LEMMA FlagsKept ==
  ASSUME AgentInv, UNCHANGED mishaps,
         pending' \in BOOLEAN, evicting' \in BOOLEAN, claimed' \in BOOLEAN, justCrashed' \in BOOLEAN
  PROVE  Flags'
BY DEF AgentInv, Flags

LEMMA MarksKept ==
  ASSUME AgentInv, UNCHANGED <<marks, mishaps>>
  PROVE  Flags'
BY DEF AgentInv, Flags, marks

\* startAgent, called by a start or behind the stop of a restart.
LEMMA StartAgentKeeps ==
  ASSUME AgentInv, NEW c \in Requests, call[c].at \in {"due", "stopped"}, StartAgent(c)
  PROVE  AgentInv' /\ HaltStep
<1>0. call[c].at \notin {"starting", "done"} \cup TearingDown /\ call[c].at \notin {"starting", "done"}
  BY DEF TearingDown
<1>1. CASE StartOfLiving(c)
  <2>1. /\ Returns(c) /\ UNCHANGED <<proc, entry, made, mapped, scheduler, ticking, mishaps>>
    BY <1>1 DEF StartOfLiving, Returns, Moves
  <2>2. Flags'
    <3>1. pending' \in BOOLEAN /\ UNCHANGED <<evicting, claimed, justCrashed>>
      BY <1>1 DEF StartOfLiving
    <3> QED BY <2>1, <3>1 DEF AgentInv, Flags
  <2> QED BY <1>0, <2>1, <2>2, ReturnsKeeps
<1>2. CASE StartDuringEviction(c)
  <2>1. /\ Returns(c) /\ UNCHANGED <<proc, entry, made, mapped, scheduler, ticking, marks, mishaps>>
    BY <1>2 DEF StartDuringEviction, Returns, Moves
  <2>2. Flags'
    BY <2>1, MarksKept
  <2> QED BY <1>0, <2>1, <2>2, ReturnsKeeps
<1>3. CASE StartEvicts(c)
  <2>1. "evicting" \in TearingDown
    BY DEF TearingDown
  <2>2. Books' /\ Schedules' /\ Served' /\ Quiet' /\ HaltStep /\ UNCHANGED mishaps
    BY <1>0, <1>3, <2>1, TeardownKeeps DEF StartEvicts
  <2>3. Flags'
    BY <1>3, <2>2 DEF StartEvicts, AgentInv, Flags
  <2> QED BY <2>2, <2>3 DEF AgentInv
<1>4. CASE StartOfUnknown(c)
  <2>1. /\ mapped = 0 /\ Registers(c) /\ entry' = entry
        /\ UNCHANGED <<scheduler, ticking, marks>>
    BY <1>4 DEF StartOfUnknown
  <2>2. /\ Books' /\ Served' /\ HaltStep /\ call'[c].held = 0
        /\ \A d \in Requests : d # c => call'[d] = call[d]
        /\ UNCHANGED mishaps
    BY <1>0, <2>1, RegistersKeeps
  <2>3. call[c].held = 0
    BY <1>0 DEF AgentInv, Books
  <2>4. Held' = Held
    BY <2>2, <2>3 DEF Held
  <2>5. Schedules' /\ Quiet' /\ Flags'
    BY <2>1, <2>2, <2>4, MarksKept DEF AgentInv, Schedules, Quiet
  <2> QED BY <2>2, <2>5 DEF AgentInv
<1> QED BY <1>1, <1>2, <1>3, <1>4 DEF StartAgent

\* The continuation of an eviction.
LEMMA EvictionKeeps ==
  ASSUME AgentInv, NEW c \in Requests, EvictionEnds(c)
  PROVE  AgentInv' /\ HaltStep
<1> DEFINE own == call[c].of
<1>1. /\ call[c].at = "evicting" /\ SchedulerTornDown(own, call[c].held)
      /\ entry' = entry /\ UNCHANGED <<claimed, justCrashed>> /\ evicting' = FALSE
  BY DEF EvictionEnds
<1>2. /\ call[c].at \notin {"starting", "done"} /\ call[c].at \in TearingDown
      /\ own \in 1..made /\ entry[own].torn
  BY <1>1 DEF TearingDown, AgentInv, Books
<1>3. CASE mapped \notin {0, own}
  <2>1. Returns(c) /\ UNCHANGED <<proc, made, mapped, pending>>
    BY <1>3 DEF EvictionEnds
  <2>2. /\ Books' /\ HaltStep /\ call'[c].held = 0 /\ UNCHANGED mishaps
        /\ \A d \in Requests : d # c => call'[d] = call[d]
    <3>1. entry' \in [Entries -> EntryRest] /\ "done" \in {"stopped", "done"} /\ 0 \in Entries \cup {0}
      BY <1>1 DEF AgentInv, Books
    <3> QED BY <1>1, <1>2, <2>1, <3>1, LeavesKeeps DEF Returns
  <2>3. Schedules' /\ (scheduler' = 0 => scheduler = 0)
    BY <1>1, <1>3, <2>2, GivenBack
  <2>4. Served'
    BY <1>2, <2>1, <2>2, <2>3 DEF AgentInv, Served
  <2>5. Quiet' /\ Flags'
    BY <1>1, <2>1, <2>2, FlagsKept DEF AgentInv, Quiet, Flags
  <2> QED BY <2>2, <2>3, <2>4, <2>5 DEF AgentInv
<1>4. CASE mapped \in {0, own}
  <2>1. Registers(c) /\ pending' = FALSE
    BY <1>4 DEF EvictionEnds
  <2>2. /\ Books' /\ Served' /\ HaltStep /\ call'[c].held = 0 /\ UNCHANGED mishaps
        /\ \A d \in Requests : d # c => call'[d] = call[d]
    BY <1>1, <1>2, <1>4, <2>1, RegistersKeeps
  <2>3. Schedules'
    BY <1>1, <2>2, GivenBack
  <2>4. Quiet' /\ Flags'
    BY <1>1, <2>1, <2>2, FlagsKept DEF AgentInv, Quiet, Flags
  <2> QED BY <2>2, <2>3, <2>4 DEF AgentInv
<1> QED BY <1>3, <1>4

LEMMA SetPollingIs ==
  ASSUME NEW e \in EntryRest, NEW i \in Entries
  PROVE  /\ SetPolling(e, i) \in EntryRest /\ SetPolling(e, i).torn = e.torn
         /\ SetPolling(e, i).checker = e.checker
         /\ QuietEntry(e) => QuietEntry(SetPolling(e, i))
BY DEF SetPolling, EntryRest, QuietEntry

\* The continuation of a start.
LEMMA StartEndsKeeps ==
  ASSUME AgentInv, NEW c \in Requests, StartEnds(c)
  PROVE  AgentInv' /\ HaltStep
<1> DEFINE own == call[c].of
           e == SetPolling(entry[own], own)
<1>1. /\ call[c].at = "starting" /\ Returns(c) /\ UNCHANGED <<proc, made, mapped, marks>>
      /\ entry' = [entry EXCEPT ![own] = [e EXCEPT !.checker = ~entry[own].torn]]
  BY Zenon DEF StartEnds
<1>2. own \in 1..made /\ own \in Entries /\ call[c].held = 0
  <2>1. call[c].at \notin TearingDown
    BY <1>1 DEF TearingDown
  <2>2. own \in 1..made /\ call[c].held = 0
    BY <1>1, <2>1 DEF AgentInv, Books
  <2>3. made \in Nat /\ 1..made \subseteq Entries
    BY Sizes DEF AgentInv, Books, Entries
  <2> QED BY <2>2, <2>3
<1>3. /\ e \in EntryRest /\ e.torn = entry[own].torn
      /\ QuietEntry(entry[own]) => QuietEntry(e)
  <2>1. entry[own] \in EntryRest
    BY <1>2 DEF AgentInv, Books
  <2> HIDE DEF own
  <2> QED BY <1>2, <2>1, SetPollingIs
<1>4. /\ entry' \in [Entries -> EntryRest] /\ entry'[own].torn = entry[own].torn
      /\ entry'[own].checker = ~entry[own].torn /\ entry'[own].poller = e.poller
      /\ entry'[own].late = e.late
      /\ \A i \in Entries : i # own => entry'[i] = entry[i]
  <2> HIDE DEF e
  <2>1. entry \in [Entries -> EntryRest] /\ entry[own].torn \in BOOLEAN
    BY <1>2 DEF AgentInv, Books, EntryRest
  <2> DEFINE n == [e EXCEPT !.checker = ~entry[own].torn]
  <2>2. n \in EntryRest
    BY <1>3, <2>1 DEF EntryRest
  <2>3. n.torn = e.torn /\ n.checker = ~entry[own].torn /\ n.poller = e.poller /\ n.late = e.late
    BY <1>3 DEF EntryRest
  <2> HIDE DEF n
  <2>4. entry' = [entry EXCEPT ![own] = n]
    BY <1>1 DEF n
  <2> HIDE DEF own
  <2>5. entry \in [Entries -> EntryRest] /\ own \in Entries /\ entry' = [entry EXCEPT ![own] = n]
    BY <1>2, <2>1, <2>4
  <2>6. /\ entry' \in [Entries -> EntryRest] /\ entry'[own] = n
        /\ \A i \in Entries : i # own => entry'[i] = entry[i]
    BY <2>2, <2>5, EntryPut
  <2> QED BY <1>3, <2>3, <2>6
<1> HIDE DEF e
<1>5. /\ Books' /\ HaltStep /\ call'[c].held = 0 /\ UNCHANGED mishaps
      /\ \A d \in Requests : d # c => call'[d] = call[d]
  <2>1. \A i \in Entries : entry'[i].torn = entry[i].torn
    BY <1>4
  <2>2. \A i \in Entries : i > made => entry'[i] = entry[i]
    <3>1. made \in Nat /\ Entries \subseteq Nat
      BY Sizes DEF AgentInv, Books
    <3>2. \A i \in Entries : i > made => i # own
      <4> HIDE DEF own
      <4> QED BY <1>2, <3>1
    <3> QED BY <1>4, <3>2
  <2>3. "done" \in {"stopped", "done"} /\ 0 \in Entries \cup {0}
    OBVIOUS
  <2> QED BY <1>1, <1>4, <2>1, <2>2, <2>3, LeavesKeeps DEF Returns
<1>6. Held' = Held
  BY <1>2, <1>5 DEF Held
<1>7. Quiet'
  BY <1>3, <1>4 DEF AgentInv, Quiet, QuietEntry
<1>8. Flags'
  BY <1>1, <1>5, MarksKept
<1>9. CASE mapped = own /\ scheduler = 0
  <2>1. scheduler' = FreeScheduler /\ ticking' = ticking \cup {FreeScheduler}
    BY <1>9 DEF StartEnds
  <2>2. Schedules' /\ scheduler' # 0
    BY <1>6, <1>9, <2>1, WiredKeeps
  <2> QED BY <1>5, <1>7, <1>8, <2>2 DEF AgentInv, Served
<1>10. CASE ~(mapped = own /\ scheduler = 0)
  <2>1. UNCHANGED <<scheduler, ticking>>
    BY <1>10 DEF StartEnds
  <2>2. Schedules'
    BY <1>6, <2>1 DEF AgentInv, Schedules
  <2>3. Served'
    BY <1>1, <1>5, <1>10, <2>1 DEF AgentInv, Served
  <2> QED BY <1>5, <1>7, <1>8, <2>2, <2>3 DEF AgentInv
<1> QED BY <1>9, <1>10

\* stopAgent up to its await.
LEMMA StopBeginsKeeps ==
  ASSUME AgentInv, NEW c \in Requests, call[c].at = "due", StopOfUnknown(c) \/ StopBegins(c)
  PROVE  AgentInv' /\ HaltStep
<1>0. call[c].at \notin {"starting", "done"} \cup TearingDown
  BY DEF TearingDown
<1>1. CASE StopOfUnknown(c)
  <2>1. /\ Returns(c) /\ UNCHANGED <<proc, entry, made, mapped, scheduler, ticking, marks, mishaps>>
    BY <1>1 DEF StopOfUnknown, Returns, Moves
  <2>2. Flags'
    BY <2>1, MarksKept
  <2> QED BY <1>0, <2>1, <2>2, ReturnsKeeps
<1>2. CASE StopBegins(c)
  <2>1. "stopping" \in TearingDown
    BY DEF TearingDown
  <2>2. Books' /\ Schedules' /\ Served' /\ Quiet' /\ HaltStep /\ UNCHANGED mishaps
    BY <1>0, <1>2, <2>1, TeardownKeeps DEF StopBegins
  <2>3. Flags'
    BY <1>2, <2>2 DEF StopBegins, AgentInv, Flags
  <2> QED BY <2>2, <2>3 DEF AgentInv
<1> QED BY <1>1, <1>2

\* ... and behind it.
LEMMA StopEndsKeeps ==
  ASSUME AgentInv, NEW c \in Requests, StopEnds(c)
  PROVE  AgentInv' /\ HaltStep
<1> DEFINE own == call[c].of
           superseded == mapped \notin {0, own}
           honours == ~superseded /\ pending /\ call[c].kind # "userStop"
<1>1. /\ call[c].at = "stopping" /\ SchedulerTornDown(own, call[c].held)
      /\ entry' = entry /\ UNCHANGED <<evicting, justCrashed>> /\ claimed' = FALSE
      /\ pending' = (pending /\ superseded)
  BY DEF StopEnds
<1>2. /\ call[c].at \notin {"starting", "done"} /\ call[c].at \in TearingDown
      /\ own \in 1..made /\ own \in Entries /\ entry[own].torn
  BY <1>1, Sizes DEF TearingDown, AgentInv, Books, Entries
<1>3. ASSUME UNCHANGED mishaps PROVE Quiet' /\ Flags'
  <2>1. pending' \in BOOLEAN
    BY <1>1
  <2> QED BY <1>1, <1>3, <2>1 DEF AgentInv, Quiet, Flags
<1>4. CASE honours
  <2>1. Registers(c) /\ mapped \in {0, own}
    BY <1>4 DEF StopEnds
  <2>2. /\ Books' /\ Served' /\ HaltStep /\ call'[c].held = 0 /\ UNCHANGED mishaps
        /\ \A d \in Requests : d # c => call'[d] = call[d]
    BY <1>1, <1>2, <2>1, RegistersKeeps
  <2>3. Schedules'
    BY <1>1, <2>2, GivenBack
  <2> QED BY <1>3, <2>2, <2>3 DEF AgentInv
<1>5. CASE ~honours
  <2>1. /\ mapped' = IF superseded THEN mapped ELSE 0
        /\ IF call[c].kind = "restart" THEN Moves(c, "stopped", own, 0) ELSE Returns(c)
        /\ UNCHANGED <<proc, made>>
    BY <1>5 DEF StopEnds
  <2>2. mapped' = mapped \/ (mapped' = 0 /\ (mapped # 0 => entry[mapped].torn))
    BY <1>2, <2>1
  <2>3. /\ Books' /\ HaltStep /\ call'[c].held = 0 /\ UNCHANGED mishaps
        /\ \A d \in Requests : d # c => call'[d] = call[d]
    <3>1. /\ entry' \in [Entries -> EntryRest] /\ 0 \in Entries \cup {0} /\ own \in Entries \cup {0}
          /\ "done" \in {"stopped", "done"} /\ "stopped" \in {"stopped", "done"}
      BY <1>1, <1>2 DEF AgentInv, Books
    <3>2. CASE call[c].kind = "restart"
      <4>1. Moves(c, "stopped", own, 0)
        BY <2>1, <3>2
      <4> QED BY <1>1, <1>2, <2>1, <2>2, <3>1, <4>1, LeavesKeeps
    <3>3. CASE call[c].kind # "restart"
      <4>1. Moves(c, "done", 0, 0)
        BY <2>1, <3>3 DEF Returns
      <4> QED BY <1>1, <1>2, <2>1, <2>2, <3>1, <4>1, LeavesKeeps
    <3> QED BY <3>2, <3>3
  <2>4. Schedules' /\ (superseded /\ scheduler' = 0 => scheduler = 0)
    BY <1>1, <2>3, GivenBack
  <2>5. Served'
    <3>1. CASE superseded
      BY <1>1, <2>1, <2>3, <2>4, <3>1 DEF AgentInv, Served
    <3>2. CASE ~superseded
      BY <2>1, <3>2 DEF Served
    <3> QED BY <3>1, <3>2
  <2> QED BY <1>3, <2>3, <2>4, <2>5 DEF AgentInv
<1> QED BY <1>4, <1>5

LEMMA RestartGoesOnKeeps ==
  ASSUME AgentInv, NEW c \in Requests, RestartGoesOn(c)
  PROVE  AgentInv' /\ HaltStep
<1>1. call[c].at = "stopped"
  BY DEF RestartGoesOn
<1>2. CASE mapped \notin {0, call[c].of}
  <2>1. /\ Returns(c) /\ UNCHANGED <<proc, entry, made, mapped, scheduler, ticking, marks, mishaps>>
    BY <1>2 DEF RestartGoesOn, Returns, Moves
  <2>2. Flags' /\ call[c].at \notin {"starting", "done"} \cup TearingDown
    BY <1>1, <2>1, MarksKept DEF TearingDown
  <2> QED BY <2>1, <2>2, ReturnsKeeps
<1>3. CASE mapped \in {0, call[c].of}
  <2>1. StartAgent(c)
    BY <1>3 DEF RestartGoesOn
  <2> QED BY <1>1, <2>1, StartAgentKeeps
<1> QED BY <1>2, <1>3

\* The loop around an entry's poller.
LEMMA PollerKeeps ==
  ASSUME AgentInv, NEW i \in Entries, PollerConflicts(i) \/ PollerRetries(i)
  PROVE  AgentInv' /\ HaltStep
<1>1. entry[i] \in EntryRest /\ entry \in [Entries -> EntryRest] /\ QuietEntry(entry[i])
  BY DEF AgentInv, Books, Quiet
<1>2. i <= made
  <2>1. entry[i].poller # "off"
    BY DEF PollerConflicts, PollerRetries
  <2>2. NewEntry.poller = "off"
    BY DEF NewEntry
  <2> QED BY <2>1, <2>2, Sizes DEF AgentInv, Books
<1>3. /\ UNCHANGED <<proc, made, mapped, scheduler, ticking, marks, call>>
      /\ mishaps' \in 0..MaxMishaps
  BY MishapTyped, NoMishapTyped DEF PollerConflicts, PollerRetries
<1>4. PICK e \in EntryRest : /\ entry' = [entry EXCEPT ![i] = e]
                             /\ e.torn = entry[i].torn /\ QuietEntry(e)
  <2>1. CASE PollerConflicts(i)
    <3> DEFINE e == [entry[i] EXCEPT !.poller = "waiting"]
    <3>1. entry' = [entry EXCEPT ![i] = e]
      BY <2>1 DEF PollerConflicts
    <3>2. e \in EntryRest /\ e.torn = entry[i].torn /\ QuietEntry(e)
      BY <1>1 DEF EntryRest, QuietEntry
    <3> QED BY <3>1, <3>2
  <2>2. CASE PollerRetries(i)
    <3> DEFINE o == [entry[i] EXCEPT !.poller = "off"]
    <3>1. entry' = [entry EXCEPT ![i] = SetPolling(o, i)]
      BY <2>2 DEF PollerRetries
    <3>2. o \in EntryRest /\ o.torn = entry[i].torn /\ QuietEntry(o)
      BY <1>1 DEF EntryRest, QuietEntry
    <3> HIDE DEF o
    <3> QED BY <3>1, <3>2, SetPollingIs
  <2> QED BY <2>1, <2>2
<1>5. /\ entry' \in [Entries -> EntryRest] /\ entry'[i] = e
      /\ \A j \in Entries : j # i => entry'[j] = entry[j]
  BY <1>1, <1>4
<1>6. \A j \in Entries : entry'[j].torn = entry[j].torn
  BY <1>4, <1>5
<1>7. Used' = Used /\ Held' = Held
  BY <1>3 DEF Used, Held
<1>8. Books'
  <2>1. \A j \in Entries : j > made' => proc'[j] = NewProcess /\ entry'[j] = NewEntry
    BY <1>2, <1>3, <1>5, Sizes DEF AgentInv, Books
  <2>2. 1..made \subseteq Entries
    BY Sizes DEF AgentInv, Books, Entries
  <2>3. \A c \in Requests :
          /\ call'[c].at \in TearingDown => call'[c].of \in 1..made' /\ entry'[call'[c].of].torn
          /\ (call'[c].at = "starting" => call'[c].of \in 1..made')
          /\ (call'[c].at \notin TearingDown => call'[c].held = 0)
    BY <1>3, <1>6, <2>2 DEF AgentInv, Books
  <2> QED BY <1>3, <1>5, <1>6, <1>7, <2>1, <2>3 DEF AgentInv, Books
<1>9. Schedules' /\ Served' /\ Flags'
  BY <1>3, <1>7 DEF marks, AgentInv, Schedules, Served, Flags
<1>10. Quiet'
  BY <1>4, <1>5 DEF AgentInv, Quiet
<1>11. HaltStep
  BY <1>3 DEF HaltStep
<1> QED BY <1>8, <1>9, <1>10, <1>11 DEF AgentInv

\* A reload of the crons, and the end of the daemon's start.
LEMMA DaemonKeeps ==
  ASSUME AgentInv, ReloadCrons \/ BootEnds
  PROVE  AgentInv' /\ HaltStep
<1>1. UNCHANGED <<proc, entry, made, mapped, call>>
  BY DEF ReloadCrons, BootEnds
<1>2. Used' = Used /\ Held' = Held
  BY <1>1 DEF Used, Held
<1>3. Books' /\ Quiet' /\ HaltStep
  BY <1>1, <1>2 DEF AgentInv, Books, Quiet, HaltStep
<1>4. CASE ReloadCrons
  <2>1. /\ scheduler = 0 /\ scheduler' = FreeScheduler /\ ticking' = ticking \cup {FreeScheduler}
        /\ UNCHANGED <<marks, mishaps>>
    BY <1>4 DEF ReloadCrons
  <2>2. Schedules' /\ scheduler' # 0
    BY <1>2, <2>1, WiredKeeps
  <2>3. Flags'
    BY <2>1, MarksKept
  <2> QED BY <1>3, <2>2, <2>3 DEF AgentInv, Served
<1>5. CASE BootEnds
  <2>1. UNCHANGED <<scheduler, ticking, pending, evicting, claimed, mishaps>> /\ justCrashed' = FALSE
    BY <1>5 DEF BootEnds
  <2> QED BY <1>1, <1>2, <1>3, <2>1 DEF AgentInv, Schedules, Served, Flags
<1> QED BY <1>4, <1>5

LEMMA AgentInit ==
  ASSUME Init
  PROVE  AgentInv
<1>1. /\ \A c \in Requests : call[c].at = "due" /\ call[c].of = 0 /\ call[c].held = 0
      /\ call \in [Requests -> Calls]
  <2>1. \A k \in Kinds : /\ NewCall(k) \in Calls /\ NewCall(k).at = "due"
                         /\ NewCall(k).of = 0 /\ NewCall(k).held = 0
    BY DEF NewCall, Calls
  <2> QED BY <2>1 DEF Init
<1>2. \A c \in Requests :
        /\ call[c].at \in TearingDown => call[c].of \in 1..made /\ entry[call[c].of].torn
        /\ (call[c].at = "starting" => call[c].of \in 1..made)
        /\ (call[c].at \notin TearingDown => call[c].held = 0)
  BY <1>1 DEF TearingDown
<1>3. Cardinality(Used) \in Nat
  BY RequestsAssumption, FS_Subset, FS_CardinalityType DEF Used
<1>4. Flags
  <2>1. pending = FALSE /\ evicting = FALSE /\ claimed = FALSE /\ mishaps = 0
    BY DEF Init
  <2>2. justCrashed \in BOOLEAN
    BY DEF Init
  <2>3. 0 \in 0..MaxMishaps
    BY RequestsAssumption
  <2> QED BY <2>1, <2>2, <2>3 DEF Flags
<1>5. NewEntry \in EntryRest /\ NewEntry.torn = FALSE /\ QuietEntry(NewEntry)
  BY DEF NewEntry, EntryRest, QuietEntry
<1>6. CASE Empty
  <2>1. /\ \A i \in Entries : proc[i] = NewProcess /\ entry[i] = NewEntry
        /\ proc \in [Entries -> Process] /\ entry \in [Entries -> EntryRest]
        /\ made = 0 /\ mapped = 0 /\ scheduler = 0 /\ ticking = {}
    BY <1>5, <1>6, NewProcessIs DEF Empty
  <2>2. \A i \in Entries : Sound(proc[i], entry[i].torn)
    BY <1>5, <2>1, NewProcessSound
  <2>3. \A i \in Entries : ~(i <= made)
    BY <2>1 DEF Entries
  <2>4. Books
    BY <1>1, <1>2, <1>3, <2>1, <2>2, <2>3 DEF Books
  <2>5. Schedules /\ Served /\ Quiet
    BY <1>5, <2>1 DEF Schedules, Served, Quiet
  <2> QED BY <1>4, <2>4, <2>5 DEF AgentInv
<1>7. CASE Booted
  <2> DEFINE p == Spawned(Forked(Spawning(NewProcess)))
             e == [NewEntry EXCEPT !.checker = TRUE, !.poller = "polling"]
  <2>1. e \in EntryRest /\ e.torn = FALSE /\ QuietEntry(e)
    BY DEF NewEntry, EntryRest, QuietEntry
  <2>2. /\ entry = [[i \in Entries |-> NewEntry] EXCEPT ![1] = e]
        /\ proc = [[i \in Entries |-> NewProcess] EXCEPT ![1] = p]
        /\ made = 1 /\ mapped = 1 /\ scheduler = 1 /\ ticking = {1}
    <3>1. entry[1] = e /\ \A i \in Entries : i # 1 => entry[i] = NewEntry
      BY <1>7, Sizes DEF Booted, NewEntry
    <3>2. DOMAIN entry = Entries /\ entry = [i \in Entries |-> entry[i]]
      BY <1>7 DEF Booted
    <3> QED BY <1>7, <3>1, <3>2, Sizes DEF Booted
  <2> HIDE DEF p, e
  <2>3. p \in Process /\ Sound(p, FALSE)
    BY RunningSound DEF p
  <2>4. /\ proc \in [Entries -> Process] /\ entry \in [Entries -> EntryRest]
        /\ proc[1] = p /\ entry[1] = e
        /\ \A i \in Entries : i # 1 => proc[i] = NewProcess /\ entry[i] = NewEntry
    BY <1>5, <2>1, <2>2, <2>3, NewProcessIs, Sizes
  <2>5. ASSUME NEW i \in Entries PROVE Sound(proc[i], entry[i].torn)
    <3>1. CASE i = 1
      BY <2>1, <2>3, <2>4, <3>1
    <3>2. CASE i # 1
      BY <1>5, <2>4, <3>2, NewProcessSound
    <3> QED BY <3>1, <3>2
  <2>6. \A i \in Entries : (i <= made => i = mapped) /\ (i > made => i # 1)
    BY <2>2 DEF Entries
  <2>7. Books
    BY <1>1, <1>2, <1>3, <2>2, <2>4, <2>5, <2>6, Sizes DEF Books
  <2>8. Schedules /\ Served
    BY <2>2, Sizes DEF Schedules, Served
  <2>9. Quiet
    BY <1>5, <2>1, <2>4 DEF Quiet
  <2> QED BY <1>4, <2>7, <2>8, <2>9 DEF AgentInv
<1> QED BY <1>6, <1>7 DEF Init

LEMMA AgentNext ==
  ASSUME AgentInv, [Next]_vars
  PROVE  AgentInv' /\ HaltStep
<1>1. ASSUME NEW c \in Requests, Begin(c)
      PROVE  AgentInv' /\ HaltStep
  <2>1. call[c].at = "due" /\ (StartAgent(c) \/ StopOfUnknown(c) \/ StopBegins(c))
    BY <1>1 DEF Begin
  <2> QED BY <2>1, StartAgentKeeps, StopBeginsKeeps
<1>2. ASSUME NEW c \in Requests,
             EvictionEnds(c) \/ StartEnds(c) \/ StopEnds(c) \/ RestartGoesOn(c)
      PROVE  AgentInv' /\ HaltStep
  BY <1>2, EvictionKeeps, StartEndsKeeps, StopEndsKeeps, RestartGoesOnKeeps
<1>3. ASSUME NEW i \in Entries, PollerConflicts(i) \/ PollerRetries(i)
      PROVE  AgentInv' /\ HaltStep
  BY <1>3, PollerKeeps
<1>4. ASSUME NEW i \in Entries, ProcessStep(i)
      PROVE  AgentInv' /\ HaltStep
  BY <1>4, StartStepsKeep, ExitStepsKeep, TimerStepsKeep DEF ProcessStep
<1>5. ASSUME ReloadCrons \/ BootEnds
      PROVE  AgentInv' /\ HaltStep
  BY <1>5, DaemonKeeps
<1>6. CASE UNCHANGED vars
  <2>1. Used' = Used /\ Held' = Held
    BY <1>6 DEF vars, Used, Held
  <2>2. Books' /\ Schedules'
    BY <1>6, <2>1 DEF vars, AgentInv, Books, Schedules
  <2>3. Served' /\ Quiet' /\ Flags' /\ HaltStep
    BY <1>6 DEF vars, AgentInv, Served, Quiet, Flags, HaltStep
  <2> QED BY <2>2, <2>3 DEF AgentInv
<1> QED BY <1>1, <1>2, <1>3, <1>4, <1>5, <1>6 DEF Next

\* The inductive invariant of the registry holds throughout.
LEMMA AgentInvAlways == Spec => []AgentInv
<1>1. Init => AgentInv
  BY AgentInit
<1>2. AgentInv /\ [Next]_vars => AgentInv'
  BY AgentNext
<1> QED BY <1>1, <1>2, PTL DEF Spec

\* Every variable keeps its type: in particular the numbers of entries and
\* schedulers suffice for any number of calls, and a process never has more
\* than one restart timer.
THEOREM AgentsAreTyped == Spec => []TypeOK
<1>1. AgentInv => TypeOK
  BY DEF AgentInv, Books, Schedules, Flags, Calls, EntryRest, TypeOK
<1> QED BY <1>1, AgentInvAlways, PTL

\* For any number of calls, generations and mishaps, every process of the name
\* that runs, is not being torn down, and was not in the middle of a start or
\* refresh when a stop came, is the current generation of the registered entry.
THEOREM LiveIsRegisteredAlways == Spec => []LiveIsRegistered
<1>1. ASSUME AgentInv PROVE LiveIsRegistered
  <2> SUFFICES ASSUME NEW i \in Entries, NEW g \in Live(proc[i]) \ {proc[i].stopping},
                      ~proc[i].overtaken
               PROVE  i = mapped /\ g = proc[i].gen
    BY DEF LiveIsRegistered
  <2>1. Sound(proc[i], entry[i].torn)
    BY <1>1 DEF AgentInv, Books
  <2>2. g = proc[i].pty /\ g # 0
    BY <2>1, NoGeneration DEF Sound, Sighted, Live
  <2>3. g = proc[i].gen /\ ~entry[i].torn
    BY <2>1, <2>2 DEF Sound, Orderly, CurrentOnly, Quelled
  <2>4. i <= made
    BY <1>1, ActiveIsMade
  <2> QED BY <1>1, <2>3, <2>4 DEF AgentInv, Books
<1> QED BY <1>1, AgentInvAlways, PTL

\* For any number of calls, an entry whose teardown has begun injects nothing,
\* and outlives it with a poller only if that was set going meanwhile.
THEOREM TornDownStaysQuietAlways == Spec => []TornDownStaysQuiet
<1>1. AgentInv => TornDownStaysQuiet
  <2>1. AgentInv => 1..made \subseteq Entries
    BY Sizes DEF AgentInv, Books, Entries
  <2> QED BY <2>1 DEF AgentInv, Quiet, QuietEntry, TornDownStaysQuiet
<1> QED BY <1>1, AgentInvAlways, PTL

\* For any number of calls, no scheduler's timer is leaked, the registered one
\* ticks, and a registered agent is without one only while a call is under way.
THEOREM SchedulersAccountedAlways == Spec => []SchedulersAccounted
<1>1. AgentInv => SchedulersAccounted
  BY DEF AgentInv, Schedules, Held, Served, SchedulersAccounted
<1> QED BY <1>1, AgentInvAlways, PTL

\* For any number of calls, generations and mishaps, an agent that was halted by
\* its crash limit leaves that state only by a stop.
THEOREM HaltIsFinalAlways == Spec => HaltIsFinal
<1>1. AgentInv /\ [Next]_vars =>
        [\A i \in Entries : proc[i].status = "halted" => proc'[i].status \in {"halted", "stopped"}]_vars
  BY AgentNext DEF HaltStep
<1> QED BY <1>1, AgentInvAlways, PTL DEF Spec, HaltIsFinal
-----------------------------------------------------------------------------
(* The registry and the turns in one specification *)

\* In the specification the runs check, where each behaviour is one of the
\* registry or one of an adapter's turns, neither part disturbs the other's
\* invariant.
LEMMA AgentsInvAlways == AgentsSpec => [](AgentInv /\ SerialInv)
<1>1. AgentsInit => AgentInv /\ SerialInv
  BY AgentInit, SerialInvInit DEF AgentsInit
<1>2. ASSUME AgentInv, SerialInv, [AgentsNext]_agents
      PROVE  AgentInv' /\ SerialInv'
  <2>1. [Next]_vars /\ [TurnNext]_turnVars
    BY <1>2 DEF AgentsNext, agents
  <2> QED BY <1>2, <2>1, AgentNext, SerialInvNext
<1> QED BY <1>1, <1>2, PTL DEF AgentsSpec

\* In the specification the runs check, for any number of calls and inputs, both
\* parts keep their types.
THEOREM AgentsKeepTheirTypes == AgentsSpec => []AgentsTypeOK
<1>1. AgentInv => TypeOK
  BY DEF AgentInv, Books, Schedules, Flags, Calls, EntryRest, TypeOK
<1>2. AgentInv /\ SerialInv => AgentsTypeOK
  BY <1>1 DEF SerialInv, AgentsTypeOK
<1> QED BY <1>2, AgentsInvAlways, PTL
=============================================================================
