--------------------------- MODULE FileLockProofs ---------------------------
(***************************************************************************)
(* The mkdir lock excludes any number of processes and survives any number *)
(* of deaths, as long as no two processes take over one dead holder's lock *)
(* at the same time.  What is kept under it: the inbox, whose letters are  *)
(* returned only in flight, and the task, which has one claimant for each  *)
(* organisation, whatever the lock does, and which stays closed once it is *)
(* closed as long as the lock excludes.  The receipts of provider events   *)
(* are written under it, too; their journals and logs implement            *)
(* EventStream wherever a write fails.  Last, the store lock, which        *)
(* excludes any number of processes as long as none of them has died, or   *)
(* only one is left after the deaths.  With what CronProofs says of the    *)
(* receipts and the scheduler, all parts keep their types when they are    *)
(* put together.                                                           *)
(***************************************************************************)
EXTENDS MCBus, CronProofs

-----------------------------------------------------------------------------
(* The lock of the bus *)

LEMMA LockTypeInit == LockInit => LockTypeOK
<1>1. 0 \in 0..MaxDeaths
  BY LockAssumption
<1>2. "away" \in LockPlaces
  BY DEF LockPlaces
<1>3. LockInit => at \in [Actors -> LockPlaces]
  BY <1>2 DEF LockInit
<1> QED BY <1>1, <1>3 DEF LockInit, LockTypeOK

LEMMA LockTypeNext == LockTypeOK /\ [LockNext]_lockVars => LockTypeOK'
<1> SUFFICES ASSUME LockTypeOK, [LockNext]_lockVars PROVE LockTypeOK'
  OBVIOUS
<1> USE DEF LockTypeOK, LockPlaces, Goes
<1>1. CASE UNCHANGED lockVars
  BY <1>1 DEF lockVars
<1>2. ASSUME NEW a \in Actors,
             Begins(a) \/ Acquires(a) \/ GivesUp(a) \/ Releases(a) \/ Dies(a)
      PROVE LockTypeOK'
  <2>1. CASE Begins(a)
    BY <2>1 DEF Begins
  <2>2. CASE Acquires(a)
    BY <2>2 DEF Acquires, Makes, FindsStale, Clears, Remakes, Writes
  <2>3. CASE GivesUp(a) \/ Releases(a)
    BY <2>3 DEF GivesUp, Releases
  <2>4. CASE Dies(a)
    BY <2>4, LockAssumption DEF Dies
  <2> QED BY <1>2, <2>1, <2>2, <2>3, <2>4
<1> QED BY <1>1, <1>2 DEF LockNext

-----------------------------------------------------------------------------
\* Who may be where while the directory is in each of its states.
Consistent ==
  /\ lock = "free" => \A a \in Actors : at[a] \notin {"making", "remaking", "robbing", "inside"}
  /\ lock = "bare" => /\ \A a \in Actors : at[a] \notin {"robbing", "inside"}
                      /\ \A a, b \in Actors :
                           at[a] \in {"making", "remaking"} /\ at[b] \in {"making", "remaking"} => a = b
  /\ lock = "owned" => /\ \A a \in Actors : at[a] \notin {"making", "remaking", "robbing"}
                       /\ \A a \in Actors : at[a] = "inside" => a = owner
  /\ lock = "stale" => /\ \A a \in Actors : at[a] \notin {"making", "remaking", "inside"}
                       /\ \A a, b \in Actors : at[a] = "robbing" /\ at[b] = "robbing" => a = b

LockInv == LockTypeOK /\ (rivals \/ Consistent)

LEMMA LockInvInit == LockInit => LockInv
BY LockTypeInit DEF LockInit, LockInv, Consistent

LEMMA LockInvNext == LockInv /\ [LockNext]_lockVars => LockInv'
<1> SUFFICES ASSUME LockInv, [LockNext]_lockVars PROVE LockInv'
  OBVIOUS
<1>1. LockTypeOK /\ LockTypeOK'
  BY LockTypeNext DEF LockInv
<1>2. CASE UNCHANGED lockVars
  BY <1>1, <1>2 DEF lockVars, LockInv, Consistent
<1>3. ASSUME NEW a \in Actors, ~rivals',
             Begins(a) \/ Acquires(a) \/ GivesUp(a) \/ Releases(a) \/ Dies(a)
      PROVE Consistent'
  <2> USE DEF LockTypeOK, Goes
  <2>1. ~rivals
    BY <1>1, <1>3 DEF Begins, Acquires, Makes, FindsStale, Clears, Remakes, Writes, GivesUp, Releases, Dies
  <2>2. Consistent
    BY <2>1 DEF LockInv
  <2>3. CASE Begins(a) \/ GivesUp(a)
    BY <1>1, <2>2, <2>3 DEF Begins, GivesUp, Consistent
  <2>4. CASE Makes(a)
    BY <1>1, <2>2, <2>4 DEF Makes, Consistent
  <2>5. CASE FindsStale(a)
    BY <1>1, <1>3, <2>2, <2>5 DEF FindsStale, Consistent
  <2>6. CASE Clears(a)
    BY <1>1, <2>2, <2>6 DEF Clears, Consistent
  <2>7. CASE Remakes(a)
    BY <1>1, <2>2, <2>7 DEF Remakes, Consistent
  <2>8. CASE Writes(a)
    <3>1. lock = "bare"
      BY <1>1, <2>2, <2>8 DEF Writes, Consistent
    <3>2. lock' = "owned" /\ owner' = a /\ at' = [at EXCEPT ![a] = "inside"]
      BY <2>8, <3>1 DEF Writes
    <3> QED BY <1>1, <2>2, <2>8, <3>1, <3>2 DEF Writes, Consistent
  <2>9. CASE Releases(a)
    BY <1>1, <2>2, <2>9 DEF Releases, Consistent
  <2>10. CASE Dies(a)
    BY <1>1, <2>2, <2>10 DEF Dies, Consistent
  <2> QED BY <1>3, <2>3, <2>4, <2>5, <2>6, <2>7, <2>8, <2>9, <2>10 DEF Acquires
<1> QED BY <1>1, <1>2, <1>3 DEF LockNext, LockInv

LEMMA LockInvExclusive == LockInv => Exclusive
BY DEF LockInv, LockTypeOK, Consistent, Exclusive, Inside

\* The lock's directory, the pid in it and every actor stay in their types.
THEOREM LockIsTyped == LockSpec => []LockTypeOK
BY LockTypeInit, LockTypeNext, PTL DEF LockSpec

\* Mutual exclusion of withFileLockSync and withFileLock for any number of
\* processes and deaths, but for rival takeovers of one dead holder.
THEOREM LockIsExclusive == LockSpec => []Exclusive
<1>1. LockSpec => []LockInv
  BY LockInvInit, LockInvNext, PTL DEF LockSpec
<1> QED BY <1>1, LockInvExclusive, PTL

-----------------------------------------------------------------------------
(* The inbox, which checkInbox and ackInbox work on under the lock *)

mailboxVars == <<lockVars, mailVars>>

LEMMA MailStepsLock == [MailNext]_mailboxVars => [LockNext]_lockVars
<1> SUFFICES ASSUME [MailNext]_mailboxVars PROVE [LockNext]_lockVars
  OBVIOUS
<1>1. CASE UNCHANGED mailboxVars
  BY <1>1 DEF mailboxVars
<1>2. ASSUME NEW m \in Letters, Send(m) \/ Ages(m) PROVE UNCHANGED lockVars
  BY <1>2 DEF Send, Ages
<1>3. ASSUME NEW a \in Actors, CheckBegins(a) \/ \E m \in Letters : AckBegins(a, m)
      PROVE  Begins(a)
  BY <1>3 DEF CheckBegins, AckBegins
<1>4. ASSUME NEW a \in Actors, MailLocks(a) PROVE Acquires(a) \/ GivesUp(a)
  BY <1>4 DEF MailLocks
<1>5. ASSUME NEW a \in Actors, CheckReturns(a) \/ AckReturns(a) PROVE Releases(a)
  BY <1>5 DEF CheckReturns, AckReturns
<1>6. ASSUME NEW a \in Actors, ListsInflight(a) \/ ListsInbox(a) PROVE UNCHANGED lockVars
  BY <1>6 DEF ListsInflight, ListsInbox
<1>7. ASSUME NEW a \in Actors, NEW m \in Letters,
             Recovers(a, m) \/ Takes(a, m) \/ Discards(a, m) \/ Acks(a, m)
      PROVE  UNCHANGED lockVars
  BY <1>7 DEF Recovers, Takes, Discards, Acks
<1>8. ASSUME NEW a \in Actors, ActorDies(a) PROVE Dies(a)
  BY <1>8 DEF ActorDies
<1> QED BY <1>1, <1>2, <1>3, <1>4, <1>5, <1>6, <1>7, <1>8 DEF MailNext, MailGoesOn, LockNext

\* The rest of the type invariant.
BoxTyped ==
  /\ place \in [Letters -> Directories]
  /\ old \subseteq Letters /\ owed \subseteq Letters /\ told \subseteq Letters
  /\ job \in [Actors -> Job]

\* Letters are taken by a check in its last loop only, which runs under the lock.
TakenInside ==
  \A a \in Actors :
    job[a].call = "check" /\ job[a].got # {} => at[a] = "inside" /\ job[a].stage = "take"

LEMMA NewJobs ==
  /\ NoJob \in Job /\ NoJob.call = "none"
  /\ [NoJob EXCEPT !.call = "check"] \in Job /\ [NoJob EXCEPT !.call = "check"].got = {}
  /\ \A m \in Letters : /\ [NoJob EXCEPT !.call = "ack", !.got = {m}] \in Job
                        /\ [NoJob EXCEPT !.call = "ack", !.got = {m}].call = "ack"
<1>1. NoJob \in Job /\ NoJob.call = "none" /\ NoJob.got = {}
  BY DEF NoJob, Job
<1>2. [NoJob EXCEPT !.call = "check"] \in Job /\ [NoJob EXCEPT !.call = "check"].got = {}
  BY <1>1 DEF NoJob, Job
<1>3. ASSUME NEW m \in Letters
      PROVE  /\ [NoJob EXCEPT !.call = "ack", !.got = {m}] \in Job
             /\ [NoJob EXCEPT !.call = "ack", !.got = {m}].call = "ack"
  BY <1>1 DEF NoJob, Job
<1> QED BY <1>1, <1>2, <1>3

LEMMA JobParts ==
  ASSUME NEW j \in Job
  PROVE  j.todo \subseteq Letters /\ j.got \subseteq Letters /\ j.gone \subseteq Letters
BY DEF Job

LEMMA JobSet ==
  ASSUME BoxTyped, NEW a \in Actors, NEW j \in Job, Set(a, j)
  PROVE  /\ job' \in [Actors -> Job] /\ job'[a] = j
         /\ \A b \in Actors \ {a} : job'[b] = job[b]
BY DEF BoxTyped, Set

LEMMA LetterMoved ==
  ASSUME BoxTyped, NEW m \in Letters, NEW directory \in Directories, Moved(m, directory)
  PROVE  /\ place' \in [Letters -> Directories] /\ place'[m] = directory
         /\ \A l \in Letters \ {m} : place'[l] = place[l]
BY DEF BoxTyped, Moved

\* The steps of a check or an acknowledgement under the lock.
CallStep(a) ==
  \/ ListsInflight(a) \/ ListsInbox(a)
  \/ \E m \in Letters : Recovers(a, m) \/ Takes(a, m) \/ Discards(a, m) \/ Acks(a, m)

\* What j may be after such a step: a check takes letters in its last loop, each
\* of which it has moved, and those it has taken it leaves alone.
GoesOnAs(a, j) ==
  /\ Set(a, j) /\ at[a] = "inside" /\ UNCHANGED <<lockVars, old, owed, told>>
  /\ place' \in [Letters -> Directories]
  /\ j.call = job[a].call
  /\ j.call = "check" =>
       /\ j.got # {} => j.stage = "take"
       /\ \A m \in job[a].got : place[m] = "inflight" => place'[m] = "inflight"
       /\ \A m \in j.got \ job[a].got : place'[m] = "inflight"

LEMMA CallStepChanges ==
  ASSUME BoxTyped, TakenInside, NEW a \in Actors, CallStep(a)
  PROVE  \E j \in Job : GoesOnAs(a, j)
<1>0. /\ job[a] \in Job /\ job[a].got \subseteq Letters /\ job[a].todo \subseteq Letters
      /\ job[a].call = "check" /\ job[a].got # {} => job[a].stage = "take"
      /\ {"inbox", "inflight", "processed", "errors"} \subseteq Directories
      /\ place \in [Letters -> Directories]
  BY JobParts DEF BoxTyped, TakenInside, Directories
<1>1. CASE ListsInflight(a)
  <2>1. In("inflight") \in SUBSET Letters
    BY DEF In
  <2> DEFINE j == [job[a] EXCEPT !.stage = "recover", !.todo = In("inflight")]
  <2>2. j \in Job /\ j.call = job[a].call /\ j.got = job[a].got
    BY <1>0, <2>1 DEF Job
  <2>3. Set(a, j) /\ at[a] = "inside" /\ job[a].call = "check" /\ job[a].stage = "start"
        /\ UNCHANGED <<lockVars, place, old, owed, told>>
    BY <1>1 DEF ListsInflight, InCall
  <2> HIDE DEF j
  <2>4. GoesOnAs(a, j)
    BY <1>0, <2>2, <2>3 DEF GoesOnAs
  <2> QED BY <2>2, <2>4
<1>2. CASE ListsInbox(a)
  <2>1. In("inbox") \in SUBSET Letters
    BY DEF In
  <2> DEFINE j == [job[a] EXCEPT !.stage = "take", !.todo = In("inbox")]
  <2>2. j \in Job /\ j.call = job[a].call /\ j.got = job[a].got
    BY <1>0, <2>1 DEF Job
  <2>3. Set(a, j) /\ at[a] = "inside" /\ job[a].call = "check" /\ job[a].stage = "recover"
        /\ UNCHANGED <<lockVars, place, old, owed, told>>
    BY <1>2 DEF ListsInbox, InCall
  <2> HIDE DEF j
  <2>4. GoesOnAs(a, j)
    BY <1>0, <2>2, <2>3 DEF GoesOnAs
  <2> QED BY <2>2, <2>4
<1>3. ASSUME NEW m \in Letters, Recovers(a, m) PROVE \E j \in Job : GoesOnAs(a, j)
  <2> DEFINE j == [job[a] EXCEPT !.todo = job[a].todo \ {m}]
             d == IF place[m] = "inflight" /\ m \in old THEN "inbox" ELSE place[m]
  <2>1. j \in Job /\ j.call = job[a].call /\ j.got = job[a].got
    BY <1>0 DEF Job
  <2>2. Set(a, j) /\ at[a] = "inside" /\ job[a].call = "check" /\ job[a].stage = "recover"
        /\ UNCHANGED <<lockVars, old, owed, told>>
    BY <1>3 DEF Recovers, InCall
  <2>3. Moved(m, d) /\ d \in Directories
    BY <1>0, <1>3 DEF Recovers
  <2> HIDE DEF j, d
  <2>4. place' \in [Letters -> Directories]
    BY <2>3, LetterMoved
  <2>5. GoesOnAs(a, j)
    BY <1>0, <2>1, <2>2, <2>4 DEF GoesOnAs
  <2> QED BY <2>1, <2>5
<1>4. ASSUME NEW m \in Letters, Takes(a, m) PROVE \E j \in Job : GoesOnAs(a, j)
  <2> DEFINE rest == [job[a] EXCEPT !.todo = job[a].todo \ {m}]
  <2>1. /\ at[a] = "inside" /\ job[a].stage = "take" /\ UNCHANGED <<lockVars, old, owed, told>>
        /\ \/ place[m] # "inbox" /\ Set(a, [rest EXCEPT !.gone = {m}]) /\ UNCHANGED place
           \/ place[m] = "inbox" /\ Set(a, rest) /\ Moved(m, "errors")
           \/ place[m] = "inbox" /\ Set(a, [rest EXCEPT !.got = @ \cup {m}]) /\ Moved(m, "inflight")
    BY <1>4 DEF Takes, InCall
  <2>2. /\ rest \in Job /\ rest.call = job[a].call /\ rest.got = job[a].got
        /\ rest.stage = job[a].stage
    BY <1>0 DEF Job
  <2> HIDE DEF rest
  <2>3. CASE UNCHANGED place /\ Set(a, [rest EXCEPT !.gone = {m}])
    <3> DEFINE j == [rest EXCEPT !.gone = {m}]
    <3>1. j \in Job /\ j.call = job[a].call /\ j.got = job[a].got /\ j.stage = "take" /\ Set(a, j)
      BY <2>1, <2>2, <2>3 DEF Job
    <3> HIDE DEF j
    <3>2. GoesOnAs(a, j)
      BY <1>0, <2>1, <2>3, <3>1 DEF GoesOnAs
    <3> QED BY <3>1, <3>2
  <2>4. CASE place[m] = "inbox" /\ Set(a, rest) /\ Moved(m, "errors")
    <3>1. /\ place' \in [Letters -> Directories]
          /\ \A l \in Letters \ {m} : place'[l] = place[l]
      BY <1>0, <2>4, LetterMoved
    <3>2. GoesOnAs(a, rest)
      BY <1>0, <2>1, <2>2, <2>4, <3>1 DEF GoesOnAs
    <3> QED BY <2>2, <3>2
  <2>5. CASE place[m] = "inbox" /\ Set(a, [rest EXCEPT !.got = @ \cup {m}]) /\ Moved(m, "inflight")
    <3> DEFINE j == [rest EXCEPT !.got = @ \cup {m}]
    <3>1. /\ j \in Job /\ j.call = job[a].call /\ j.got = job[a].got \cup {m} /\ j.stage = "take"
          /\ Set(a, j)
      BY <2>1, <2>2, <2>5 DEF Job
    <3> HIDE DEF j
    <3>2. /\ place' \in [Letters -> Directories] /\ place'[m] = "inflight"
          /\ \A l \in Letters \ {m} : place'[l] = place[l]
      BY <1>0, <2>5, LetterMoved
    <3>3. GoesOnAs(a, j)
      BY <1>0, <2>1, <3>1, <3>2 DEF GoesOnAs
    <3> QED BY <3>1, <3>3
  <2> QED BY <2>1, <2>3, <2>4, <2>5
<1>5. ASSUME NEW m \in Letters, Discards(a, m) PROVE \E j \in Job : GoesOnAs(a, j)
  <2> DEFINE j == [job[a] EXCEPT !.gone = {}]
             d == IF place[m] = "inbox" THEN "errors" ELSE place[m]
  <2>1. j \in Job /\ j.call = job[a].call /\ j.got = job[a].got /\ j.stage = job[a].stage
    BY <1>0 DEF Job
  <2>2. Set(a, j) /\ at[a] = "inside" /\ job[a].stage = "take"
        /\ UNCHANGED <<lockVars, old, owed, told>>
    BY <1>5 DEF Discards, InCall
  <2>3. Moved(m, d) /\ d \in Directories /\ (place[m] = "inflight" => d = "inflight")
    BY <1>0, <1>5 DEF Discards
  <2> HIDE DEF j, d
  <2>4. /\ place' \in [Letters -> Directories] /\ place'[m] = d
        /\ \A l \in Letters \ {m} : place'[l] = place[l]
    BY <2>3, LetterMoved
  <2>5. GoesOnAs(a, j)
    BY <1>0, <2>1, <2>2, <2>3, <2>4 DEF GoesOnAs
  <2> QED BY <2>1, <2>5
<1>6. ASSUME NEW m \in Letters, Acks(a, m) PROVE \E j \in Job : GoesOnAs(a, j)
  <2> DEFINE j == [job[a] EXCEPT !.stage = "end"]
             d == IF place[m] = "inflight" THEN "processed" ELSE place[m]
  <2>1. j \in Job /\ j.call = job[a].call /\ j.got = job[a].got
    BY <1>0 DEF Job
  <2>2. Set(a, j) /\ at[a] = "inside" /\ job[a].call = "ack"
        /\ UNCHANGED <<lockVars, old, owed, told>>
    BY <1>6 DEF Acks, InCall
  <2>3. Moved(m, d) /\ d \in Directories
    BY <1>0, <1>6 DEF Acks
  <2> HIDE DEF j, d
  <2>4. place' \in [Letters -> Directories]
    BY <2>3, LetterMoved
  <2>5. GoesOnAs(a, j)
    BY <2>1, <2>2, <2>4 DEF GoesOnAs
  <2> QED BY <2>1, <2>5
<1> QED BY <1>1, <1>2, <1>3, <1>4, <1>5, <1>6 DEF CallStep

\* The steps in which a call begins, waits for the lock, or ends.
EdgeStep(a) ==
  \/ CheckBegins(a) \/ (\E m \in Letters : AckBegins(a, m))
  \/ MailLocks(a) \/ CheckReturns(a) \/ AckReturns(a) \/ ActorDies(a)

\* Then the actor holds nothing that it has taken.
LEMMA EdgeStepChanges ==
  ASSUME LockTypeOK, BoxTyped, TakenInside, NEW a \in Actors, EdgeStep(a)
  PROVE  /\ BoxTyped' /\ UNCHANGED place
         /\ \A b \in Actors \ {a} : job'[b] = job[b] /\ at'[b] = at[b]
         /\ job'[a].call # "check" \/ job'[a].got = {}
<1>0. job[a] \in Job /\ job[a].got \subseteq Letters
  BY JobParts DEF BoxTyped
<1>1. CASE CheckBegins(a)
  <2> DEFINE j == [NoJob EXCEPT !.call = "check"]
  <2>1. j \in Job /\ j.got = {} /\ Set(a, j) /\ UNCHANGED <<place, old, owed, told>>
    BY <1>1, NewJobs DEF CheckBegins
  <2> HIDE DEF j
  <2>2. at' = [at EXCEPT ![a] = "trying"]
    BY <1>1 DEF CheckBegins, Begins, Goes
  <2>3. job' \in [Actors -> Job] /\ job'[a] = j /\ \A b \in Actors \ {a} : job'[b] = job[b]
    BY <2>1, JobSet
  <2> QED BY <2>1, <2>2, <2>3 DEF BoxTyped, LockTypeOK
<1>2. ASSUME NEW m \in Letters, AckBegins(a, m)
      PROVE  /\ BoxTyped' /\ UNCHANGED place
             /\ \A b \in Actors \ {a} : job'[b] = job[b] /\ at'[b] = at[b]
             /\ job'[a].call # "check" \/ job'[a].got = {}
  <2> DEFINE j == [NoJob EXCEPT !.call = "ack", !.got = {m}]
  <2>1. j \in Job /\ j.call = "ack" /\ Set(a, j) /\ UNCHANGED <<place, old, told>>
    BY <1>2, NewJobs DEF AckBegins
  <2> HIDE DEF j
  <2>2. at' = [at EXCEPT ![a] = "trying"] /\ owed' = owed \ {m}
    BY <1>2 DEF AckBegins, Begins, Goes
  <2>3. job' \in [Actors -> Job] /\ job'[a] = j /\ \A b \in Actors \ {a} : job'[b] = job[b]
    BY <2>1, JobSet
  <2> QED BY <2>1, <2>2, <2>3 DEF BoxTyped, LockTypeOK
<1>3. CASE MailLocks(a)
  <2>1. PICK j \in {NoJob, job[a]} : Set(a, j)
    BY <1>3 DEF MailLocks
  <2>2. j \in Job /\ UNCHANGED <<place, old, owed, told>>
    BY <1>0, <1>3, <2>1, NewJobs DEF MailLocks
  <2>3. at[a] # "inside" /\ \A b \in Actors \ {a} : at'[b] = at[b]
    BY <1>3 DEF MailLocks, Acquires, Makes, FindsStale, Clears, Remakes, Writes, GivesUp, Goes,
                LockTypeOK
  <2>4. j.call # "check" \/ j.got = {}
    BY <2>1, <2>3, NewJobs DEF TakenInside
  <2>5. job' \in [Actors -> Job] /\ job'[a] = j /\ \A b \in Actors \ {a} : job'[b] = job[b]
    BY <2>1, <2>2, JobSet
  <2> QED BY <2>2, <2>3, <2>4, <2>5 DEF BoxTyped
<1>4. CASE CheckReturns(a) \/ AckReturns(a) \/ ActorDies(a)
  <2>1. Set(a, NoJob) /\ UNCHANGED <<place, old>>
    BY <1>4 DEF CheckReturns, AckReturns, ActorDies
  <2>2. owed' \subseteq owed \cup job[a].got /\ told' \subseteq told \cup job[a].got
    BY <1>4 DEF CheckReturns, AckReturns, ActorDies
  <2>3. \A b \in Actors \ {a} : at'[b] = at[b]
    BY <1>4 DEF CheckReturns, AckReturns, ActorDies, Releases, Dies, Goes, LockTypeOK
  <2>4. job' \in [Actors -> Job] /\ job'[a] = NoJob /\ \A b \in Actors \ {a} : job'[b] = job[b]
    BY <2>1, NewJobs, JobSet
  <2> QED BY <1>0, <2>1, <2>2, <2>3, <2>4, NewJobs DEF BoxTyped
<1> QED BY <1>1, <1>2, <1>3, <1>4 DEF EdgeStep

LEMMA MailFrame ==
  ASSUME [MailNext]_mailboxVars
  PROVE  \/ UNCHANGED mailboxVars
         \/ \E m \in Letters : Send(m) \/ Ages(m)
         \/ \E a \in Actors : CallStep(a) \/ EdgeStep(a)
<1>1. \A a \in Actors : MailGoesOn(a) => CallStep(a) \/ EdgeStep(a)
  BY DEF MailGoesOn, CallStep, EdgeStep
<1>2. \A a \in Actors : CheckBegins(a) \/ ActorDies(a) \/ (\E m \in Letters : AckBegins(a, m))
                           => EdgeStep(a)
  BY DEF EdgeStep
<1> QED BY <1>1, <1>2 DEF MailNext

LEMMA BoxNext ==
  LockTypeOK /\ BoxTyped /\ TakenInside /\ [MailNext]_mailboxVars => BoxTyped' /\ TakenInside'
<1> SUFFICES ASSUME LockTypeOK, BoxTyped, TakenInside, [MailNext]_mailboxVars
             PROVE  BoxTyped' /\ TakenInside'
  OBVIOUS
<1>1. CASE UNCHANGED mailboxVars
  BY <1>1 DEF mailboxVars, mailVars, lockVars, BoxTyped, TakenInside
<1>2. ASSUME NEW m \in Letters, Send(m) \/ Ages(m) PROVE BoxTyped' /\ TakenInside'
  <2>1. UNCHANGED <<lockVars, owed, told, job>> /\ old' \subseteq old \cup {m}
    BY <1>2 DEF Send, Ages
  <2>2. place' = place \/ Moved(m, "inbox")
    BY <1>2 DEF Send, Ages
  <2>3. place' \in [Letters -> Directories]
    BY <2>2, LetterMoved DEF BoxTyped, Directories
  <2> QED BY <2>1, <2>3 DEF BoxTyped, TakenInside, lockVars
<1>3. ASSUME NEW a \in Actors, CallStep(a) PROVE BoxTyped' /\ TakenInside'
  <2>1. PICK j \in Job : GoesOnAs(a, j)
    BY <1>3, CallStepChanges
  <2>2. /\ Set(a, j) /\ at[a] = "inside" /\ at' = at
        /\ UNCHANGED <<old, owed, told>> /\ place' \in [Letters -> Directories]
        /\ j.call = "check" /\ j.got # {} => j.stage = "take"
    BY <2>1 DEF GoesOnAs, lockVars
  <2>3. job' \in [Actors -> Job] /\ job'[a] = j /\ \A b \in Actors \ {a} : job'[b] = job[b]
    BY <2>2, JobSet
  <2>4. BoxTyped'
    BY <2>2, <2>3 DEF BoxTyped
  <2>5. TakenInside'
    BY <2>2, <2>3 DEF TakenInside
  <2> QED BY <2>4, <2>5
<1>4. ASSUME NEW a \in Actors, EdgeStep(a) PROVE BoxTyped' /\ TakenInside'
  BY <1>4, EdgeStepChanges DEF TakenInside
<1> QED BY <1>1, <1>2, <1>3, <1>4, MailFrame

\* What a check has taken is in flight, as long as the lock excludes.
LEMMA ReturnedNext ==
  LockInv /\ LockInv' /\ BoxTyped /\ TakenInside /\ ReturnedIsInFlight /\ [MailNext]_mailboxVars
    => ReturnedIsInFlight'
<1> SUFFICES ASSUME LockInv, LockInv', BoxTyped, TakenInside, ReturnedIsInFlight,
                    [MailNext]_mailboxVars, ~rivals',
                    NEW a \in Actors, job'[a].call = "check", NEW m \in job'[a].got
             PROVE  place'[m] = "inflight"
  BY DEF ReturnedIsInFlight
<1>1. ~rivals
  <2>1. [LockNext]_lockVars
    BY MailStepsLock
  <2> QED BY <2>1 DEF LockNext, lockVars, Begins, Acquires, Makes, FindsStale, Clears, Remakes,
                      Writes, GivesUp, Releases, Dies, Goes, LockInv, LockTypeOK
<1>2. /\ Exclusive /\ LockTypeOK
      /\ \A b \in Actors : job[b].call = "check" => \A l \in job[b].got : place[l] = "inflight"
  BY <1>1, LockInvExclusive DEF LockInv, ReturnedIsInFlight
<1>3. CASE UNCHANGED mailboxVars
  BY <1>2, <1>3 DEF mailboxVars, mailVars
<1>4. ASSUME NEW l \in Letters, Send(l) \/ Ages(l) PROVE place'[m] = "inflight"
  <2>1. job' = job /\ (place' = place \/ (place[l] = "unsent" /\ Moved(l, "inbox")))
    BY <1>4 DEF Send, Ages
  <2>2. place[m] = "inflight" /\ m \in Letters
    BY <1>2, <2>1, JobParts DEF BoxTyped
  <2>3. place[l] = "unsent" /\ Moved(l, "inbox") => place'[m] = place[m]
    BY <2>2, LetterMoved DEF Directories
  <2> QED BY <2>1, <2>2, <2>3
<1>5. ASSUME NEW b \in Actors, CallStep(b) PROVE place'[m] = "inflight"
  <2>1. PICK j \in Job : GoesOnAs(b, j)
    BY <1>5, CallStepChanges
  <2>2. /\ Set(b, j) /\ at[b] = "inside" /\ j.call = job[b].call
        /\ j.call = "check" =>
             /\ \A l \in job[b].got : place[l] = "inflight" => place'[l] = "inflight"
             /\ \A l \in j.got \ job[b].got : place'[l] = "inflight"
    BY <2>1 DEF GoesOnAs
  <2>3. job'[b] = j /\ \A c \in Actors \ {b} : job'[c] = job[c]
    BY <2>2, JobSet
  <2>4. CASE a = b
    BY <1>2, <2>2, <2>3, <2>4
  <2>5. CASE a # b
    <3>1. job[a].call = "check" /\ job[a].got # {}
      BY <2>3, <2>5
    <3>2. at[a] = "inside"
      BY <3>1 DEF TakenInside
    <3> QED BY <1>1, <1>2, <2>2, <2>5, <3>2 DEF Exclusive, Inside
  <2> QED BY <2>4, <2>5
<1>6. ASSUME NEW b \in Actors, EdgeStep(b) PROVE place'[m] = "inflight"
  <2>1. /\ UNCHANGED place /\ \A c \in Actors \ {b} : job'[c] = job[c]
        /\ job'[b].call # "check" \/ job'[b].got = {}
    BY <1>2, <1>6, EdgeStepChanges
  <2> QED BY <1>2, <2>1
<1> QED BY <1>3, <1>4, <1>5, <1>6, MailFrame

MailInv == LockInv /\ BoxTyped /\ TakenInside /\ ReturnedIsInFlight

LEMMA MailInvInit == MailInit => MailInv
<1> SUFFICES ASSUME MailInit PROVE MailInv
  OBVIOUS
<1>1. LockInv
  BY LockInvInit DEF MailInit
<1>2. BoxTyped
  BY NewJobs DEF MailInit, BoxTyped, Directories
<1>3. TakenInside /\ ReturnedIsInFlight
  BY NewJobs DEF MailInit, TakenInside, ReturnedIsInFlight
<1> QED BY <1>1, <1>2, <1>3 DEF MailInv

LEMMA MailInvNext == MailInv /\ [MailNext]_mailboxVars => MailInv'
BY MailStepsLock, LockInvNext, BoxNext, ReturnedNext DEF MailInv, LockInv

LEMMA MailInvAlways == MailSpec => []MailInv
BY MailInvInit, MailInvNext, PTL DEF MailSpec, mailboxVars

\* Letters, the marks on them and every actor's call stay in their types.
THEOREM MailIsTyped == MailSpec => []MailTypeOK
<1>1. MailInv => MailTypeOK
  BY DEF MailInv, LockInv, BoxTyped, MailTypeOK
<1> QED BY <1>1, MailInvAlways, PTL

\* Whatever sendMessage, ackInbox and other checks do meanwhile, in any number of
\* processes that may die between any two renames: what checkInbox returns is
\* in inflight/, unless two of them took over one dead holder's lock.
THEOREM ReturnedIsInFlightAlways == MailSpec => []ReturnedIsInFlight
<1>1. MailInv => ReturnedIsInFlight
  BY DEF MailInv
<1> QED BY <1>1, MailInvAlways, PTL

-----------------------------------------------------------------------------
(* The task *)

allVars == <<lockVars, taskVars>>

LEMMA TaskStepsLock == [TaskNext]_allVars => [LockNext]_lockVars
<1> SUFFICES ASSUME [TaskNext]_allVars PROVE [LockNext]_lockVars
  OBVIOUS
<1>1. CASE UNCHANGED allVars
  BY <1>1 DEF allVars
<1>2. ASSUME NEW a \in Actors,
             \/ CallOf(a) \/ TaskLocks(a) \/ Reads(a) \/ Claims(a) \/ WritesTask(a)
             \/ WriteFails(a) \/ Unclaims(a) \/ EditReturns(a) \/ EditorDies(a)
      PROVE [LockNext]_lockVars
  <2>1. CASE CallOf(a)
    BY <2>1 DEF CallOf, EditBegins, LockNext
  <2>2. CASE TaskLocks(a)
    BY <2>2 DEF TaskLocks, LockNext
  <2>3. CASE Reads(a) \/ Claims(a) \/ WritesTask(a) \/ WriteFails(a) \/ Unclaims(a)
    BY <2>3 DEF Reads, Claims, WritesTask, WriteFails, Unclaims
  <2>4. CASE EditReturns(a) \/ EditorDies(a)
    BY <2>4 DEF EditReturns, EditorDies, LockNext
  <2> QED BY <1>2, <2>1, <2>2, <2>3, <2>4
<1> QED BY <1>1, <1>2 DEF TaskNext

\* The rest of the type invariant.
FileTyped ==
  /\ home \in [Actors -> Orgs]
  /\ status \in Statuses
  /\ claim \in [Orgs -> Actors \cup {Nobody}]
  /\ won \subseteq Actors
  /\ edit \in [Actors -> Edit]

LEMMA EditTypes ==
  /\ NoEdit \in Edit
  /\ \A e \in Edit : /\ e.call \in Calls /\ e.set \in Statuses
                     /\ e.stage \in {"read", "claim", "write", "undo", "end"}
  /\ \A call \in Calls, s \in Statuses : [NoEdit EXCEPT !.call = call, !.set = s] \in Edit
  /\ \A e \in Edit, stage \in {"read", "claim", "write", "undo", "end"}, s \in Statuses :
       [e EXCEPT !.stage = stage] \in Edit /\ [e EXCEPT !.stage = stage, !.set = s] \in Edit
  /\ [NoEdit EXCEPT !.stage = "end"] \in Edit
<1>1. NoEdit \in Edit
  BY DEF Edit, NoEdit, Calls, Statuses
<1>2. \A e \in Edit : /\ e.call \in Calls /\ e.set \in Statuses
                      /\ e.stage \in {"read", "claim", "write", "undo", "end"}
  BY DEF Edit
<1>3. ASSUME NEW call \in Calls, NEW s \in Statuses
      PROVE  [NoEdit EXCEPT !.call = call, !.set = s] \in Edit
  BY <1>1, <1>3 DEF Edit
<1>4. ASSUME NEW e \in Edit, NEW stage \in {"read", "claim", "write", "undo", "end"}
      PROVE  [e EXCEPT !.stage = stage] \in Edit
  BY <1>4 DEF Edit
<1>5. ASSUME NEW e \in Edit, NEW stage \in {"read", "claim", "write", "undo", "end"},
             NEW s \in Statuses
      PROVE  [e EXCEPT !.stage = stage, !.set = s] \in Edit
  BY <1>5 DEF Edit
<1>6. [NoEdit EXCEPT !.stage = "end"] \in Edit
  BY <1>1, <1>4
<1> QED BY <1>1, <1>2, <1>3, <1>4, <1>5, <1>6

LEMMA ReadsCases ==
  ASSUME NEW a \in Actors, Reads(a)
  PROVE  \/ Stage(a, "write") /\ edit[a].call # "claim" /\ won' = won
         \/ /\ Sets(a, [edit[a] EXCEPT !.stage = "write", !.set = status])
            /\ edit[a].call # "claim" /\ won' = won
         \/ Stage(a, "claim") /\ edit[a].call = "claim" /\ won' = won
         \/ Ends(a) /\ won' = won
         \/ Ends(a) /\ won' = won \cup {a} /\ claim[home[a]] = a
BY DEF Reads, HomeClaim

\* What each way to change an edit leaves.
LEMMA EditChanges ==
  ASSUME FileTyped, NEW a \in Actors
  PROVE  /\ \A e \in Edit : Sets(a, e) => /\ edit' \in [Actors -> Edit] /\ edit'[a] = e
                                          /\ \A b \in Actors : b # a => edit'[b] = edit[b]
         /\ Ends(a) => /\ edit' \in [Actors -> Edit] /\ edit'[a].stage = "end"
                       /\ \A b \in Actors : b # a => edit'[b] = edit[b]
         /\ \A stage \in {"read", "claim", "write", "undo", "end"} :
              Stage(a, stage) => /\ edit' \in [Actors -> Edit]
                                 /\ edit'[a].stage = stage /\ edit'[a].call = edit[a].call
                                 /\ \A b \in Actors : b # a => edit'[b] = edit[b]
         /\ Sets(a, [edit[a] EXCEPT !.stage = "write", !.set = status])
              => /\ edit' \in [Actors -> Edit]
                 /\ edit'[a].stage = "write" /\ edit'[a].call = edit[a].call
                 /\ edit'[a].set = status
                 /\ \A b \in Actors : b # a => edit'[b] = edit[b]
<1> USE DEF FileTyped
<1>1. \A e \in Edit : Sets(a, e) => /\ edit' \in [Actors -> Edit] /\ edit'[a] = e
                                     /\ \A b \in Actors : b # a => edit'[b] = edit[b]
  BY DEF Sets
<1>2. /\ [NoEdit EXCEPT !.stage = "end"].stage = "end"
      /\ [NoEdit EXCEPT !.stage = "end"] \in Edit
  BY DEF NoEdit, Edit, Calls, Statuses
<1>3. ASSUME NEW stage \in {"read", "claim", "write", "undo", "end"}
      PROVE  /\ [edit[a] EXCEPT !.stage = stage] \in Edit
             /\ [edit[a] EXCEPT !.stage = stage].stage = stage
             /\ [edit[a] EXCEPT !.stage = stage].call = edit[a].call
  BY DEF Edit
<1>4. /\ [edit[a] EXCEPT !.stage = "write", !.set = status] \in Edit
      /\ [edit[a] EXCEPT !.stage = "write", !.set = status].stage = "write"
      /\ [edit[a] EXCEPT !.stage = "write", !.set = status].call = edit[a].call
      /\ [edit[a] EXCEPT !.stage = "write", !.set = status].set = status
  BY DEF Edit
<1> HIDE DEF FileTyped
<1>5. Ends(a) => /\ edit' \in [Actors -> Edit] /\ edit'[a].stage = "end"
                /\ \A b \in Actors : b # a => edit'[b] = edit[b]
  BY <1>1, <1>2 DEF Ends
<1>6. ASSUME NEW stage \in {"read", "claim", "write", "undo", "end"}, Stage(a, stage)
      PROVE  /\ edit' \in [Actors -> Edit]
             /\ edit'[a].stage = stage /\ edit'[a].call = edit[a].call
             /\ \A b \in Actors : b # a => edit'[b] = edit[b]
  BY <1>1, <1>3, <1>6 DEF Stage
<1> QED BY <1>1, <1>4, <1>5, <1>6

LEMMA FileTypedNext == FileTyped /\ LockTypeOK /\ [TaskNext]_allVars => FileTyped'
<1> SUFFICES ASSUME FileTyped, LockTypeOK, [TaskNext]_allVars PROVE FileTyped'
  OBVIOUS
<1> USE DEF FileTyped
<1>1. CASE UNCHANGED allVars
  BY <1>1 DEF allVars, taskVars
<1>2. ASSUME NEW a \in Actors, CallOf(a) PROVE FileTyped'
  <2>1. PICK call \in Calls, s \in Statuses : EditBegins(a, call, s)
    BY <1>2 DEF CallOf, Calls, Statuses
  <2> QED BY <2>1, EditTypes DEF EditBegins, Sets
<1>3. ASSUME NEW a \in Actors, TaskLocks(a) PROVE FileTyped'
  BY <1>3, EditTypes DEF TaskLocks, Sets
<1>4. ASSUME NEW a \in Actors, Reads(a) PROVE FileTyped'
  <2>1. edit' \in [Actors -> Edit]
    BY <1>4, ReadsCases, EditChanges
  <2>2. won' \subseteq Actors
    BY <1>4 DEF Reads
  <2> QED BY <1>4, <2>1, <2>2 DEF Reads
<1>5. ASSUME NEW a \in Actors, Claims(a) PROVE FileTyped'
  <2>1. edit' \in [Actors -> Edit]
    BY <1>5, EditChanges DEF Claims
  <2>2. won' \subseteq Actors /\ claim' \in [Orgs -> Actors \cup {Nobody}]
    BY <1>5 DEF Claims, HomeClaim
  <2> QED BY <1>5, <2>1, <2>2 DEF Claims
<1>6. ASSUME NEW a \in Actors, WritesTask(a) PROVE FileTyped'
  BY <1>6, EditTypes DEF WritesTask, Ends, Sets
<1>7. ASSUME NEW a \in Actors, WriteFails(a) PROVE FileTyped'
  BY <1>7, EditChanges DEF WriteFails
<1>8. ASSUME NEW a \in Actors, Unclaims(a) PROVE FileTyped'
  BY <1>8, EditTypes DEF Unclaims, Ends, Sets
<1>9. ASSUME NEW a \in Actors, EditReturns(a) \/ EditorDies(a) PROVE FileTyped'
  BY <1>9, EditTypes DEF EditReturns, EditorDies, Sets
<1> QED BY <1>1, <1>2, <1>3, <1>4, <1>5, <1>6, <1>7, <1>8, <1>9 DEF TaskNext

\* Outside of the lock nothing has been read; a claim is under way while its
\* file is there and its agent has not been told.
Claiming(a) == edit[a].stage = "undo" \/ (edit[a].stage = "write" /\ edit[a].call = "claim")
Outside == \A a \in Actors : at[a] # "inside" => edit[a].stage = "read"
WonIsClaimed == \A a \in won : claim[home[a]] = a
ClaimIsFresh == \A a \in Actors : Claiming(a) => claim[home[a]] = a /\ a \notin won
OnlyClaimsUndo == \A a \in Actors : edit[a].stage \in {"claim", "undo"} => edit[a].call = "claim"

TaskInv ==
  LockInv /\ FileTyped /\ Outside /\ WonIsClaimed /\ ClaimIsFresh /\ OnlyClaimsUndo

LEMMA TaskInvInit == TaskInit => TaskInv
<1> SUFFICES ASSUME TaskInit PROVE TaskInv
  OBVIOUS
<1>1. LockInv
  BY LockInvInit DEF TaskInit
<1>2. FileTyped
  BY EditTypes DEF TaskInit, FileTyped, Statuses
<1>3. \A a \in Actors : edit[a].stage = "read" /\ edit[a].call = "none"
  BY DEF TaskInit, NoEdit
<1>4. won = {}
  BY DEF TaskInit
<1> QED BY <1>1, <1>2, <1>3, <1>4
        DEF TaskInv, Outside, WonIsClaimed, ClaimIsFresh, OnlyClaimsUndo, Claiming

LEMMA TaskInvNext == TaskInv /\ [TaskNext]_allVars => TaskInv'
<1> SUFFICES ASSUME TaskInv, [TaskNext]_allVars PROVE TaskInv'
  OBVIOUS
<1>1. LockInv' /\ FileTyped' /\ LockTypeOK /\ FileTyped
  BY TaskStepsLock, LockInvNext, FileTypedNext DEF TaskInv, LockInv
<1> DEFINE Rest == Outside /\ WonIsClaimed /\ ClaimIsFresh /\ OnlyClaimsUndo
<1>2. Rest
  BY DEF TaskInv
<1>3. CASE UNCHANGED allVars
  BY <1>1, <1>2, <1>3 DEF allVars, taskVars, lockVars, TaskInv, Outside, WonIsClaimed,
     ClaimIsFresh, OnlyClaimsUndo, Claiming
<1> USE DEF FileTyped, LockTypeOK
<1> USE DEF Outside, WonIsClaimed, ClaimIsFresh, OnlyClaimsUndo, Claiming
<1>4. ASSUME NEW a \in Actors, CallOf(a) PROVE Rest'
  <2>1. PICK call \in Calls, s \in Statuses : EditBegins(a, call, s)
    BY <1>4 DEF CallOf, Calls, Statuses
  <2>2. edit' = [edit EXCEPT ![a] = edit'[a]] /\ edit'[a].stage = "read"
    BY <1>1, <2>1 DEF EditBegins, Sets, NoEdit
  <2>3. home' = home /\ claim' = claim /\ won' = won /\ at' = [at EXCEPT ![a] = "trying"]
    BY <2>1 DEF EditBegins, Begins, Goes
  <2> QED BY <1>1, <1>2, <2>2, <2>3
<1>5. ASSUME NEW a \in Actors, TaskLocks(a) PROVE Rest'
  <2>1. at[a] # "inside"
    BY <1>5 DEF TaskLocks, Acquires, Makes, FindsStale, Clears, Remakes, Writes, GivesUp
  <2>2. \A b \in Actors : b # a => at'[b] = at[b]
    BY <1>1, <1>5 DEF TaskLocks, Acquires, Makes, FindsStale, Clears, Remakes, Writes, GivesUp, Goes
  <2>3. edit' = [edit EXCEPT ![a] = edit'[a]] /\ edit'[a].stage = "read"
    BY <1>1, <1>2, <1>5, <2>1 DEF TaskLocks, Sets, NoEdit
  <2> QED BY <1>1, <1>2, <1>5, <2>2, <2>3 DEF TaskLocks
<1>6. ASSUME NEW a \in Actors, Reads(a) PROVE Rest'
  <2>1. at' = at /\ claim' = claim /\ home' = home /\ at[a] = "inside"
    BY <1>6 DEF Reads, lockVars, At
  <2>2. \A b \in Actors : b # a => edit'[b] = edit[b]
    BY <1>1, <1>6, ReadsCases, EditChanges
  <2>3. won' = won \/ (won' = won \cup {a} /\ claim[home[a]] = a)
    BY <1>6, ReadsCases
  <2>4. \/ edit'[a].stage = "end"
        \/ edit'[a].stage = "claim" /\ edit'[a].call = "claim"
        \/ edit'[a].stage = "write" /\ edit'[a].call # "claim"
    BY <1>1, <1>6, ReadsCases, EditChanges
  <2> QED BY <1>1, <1>2, <2>1, <2>2, <2>3, <2>4
<1>7. ASSUME NEW a \in Actors, Claims(a) PROVE Rest'
  <2>1. at' = at /\ home' = home /\ at[a] = "inside" /\ edit[a].call = "claim"
    BY <1>1, <1>2, <1>7 DEF Claims, lockVars, At
  <2>2. CASE claim[home[a]] = Nobody
    <3>1. claim' = [claim EXCEPT ![home[a]] = a] /\ won' = won
          /\ edit' = [edit EXCEPT ![a].stage = "write"]
      BY <1>7, <2>2 DEF Claims, HomeClaim, Stage, Sets
    <3>2. \A b \in Actors : b \in won \/ Claiming(b) => home[b] # home[a]
      BY <1>2, <2>2, TaskAssumption
    <3>3. WonIsClaimed'
      BY <1>1, <1>2, <2>1, <3>1, <3>2
    <3>4. ClaimIsFresh'
      BY <1>1, <1>2, <2>1, <2>2, <3>1, <3>2, TaskAssumption
    <3> QED BY <1>1, <1>2, <2>1, <3>1, <3>3, <3>4
  <2>3. CASE claim[home[a]] # Nobody
    <3>1. claim' = claim /\ edit' = [edit EXCEPT ![a] = [NoEdit EXCEPT !.stage = "end"]]
          /\ (won' = won \/ (won' = won \cup {a} /\ claim[home[a]] = a))
      BY <1>7, <2>3 DEF Claims, HomeClaim, Ends, Sets
    <3>2. edit'[a].stage = "end"
      BY <1>1, <3>1 DEF NoEdit
    <3> QED BY <1>1, <1>2, <2>1, <3>1, <3>2
  <2> QED BY <2>2, <2>3
<1>8. ASSUME NEW a \in Actors, WritesTask(a) PROVE Rest'
  <2>1. at' = at /\ home' = home /\ claim' = claim /\ at[a] = "inside"
        /\ edit' = [edit EXCEPT ![a] = [NoEdit EXCEPT !.stage = "end"]]
        /\ (won' = won \/ (won' = won \cup {a} /\ Claiming(a)))
    BY <1>8 DEF WritesTask, lockVars, At, Ends, Sets
  <2>2. edit'[a].stage = "end"
    BY <1>1, <2>1 DEF NoEdit
  <2> QED BY <1>1, <1>2, <2>1, <2>2
<1>9. ASSUME NEW a \in Actors, WriteFails(a) PROVE Rest'
  <2>1. at' = at /\ home' = home /\ claim' = claim /\ won' = won /\ at[a] = "inside"
        /\ edit' = [edit EXCEPT ![a] = edit'[a]]
    BY <1>1, <1>9 DEF WriteFails, lockVars, At, Stage, Ends, Sets
  <2>2. edit'[a].stage = "end" \/ (Claiming(a) /\ edit'[a].stage = "undo" /\ edit'[a].call = "claim")
    BY <1>1, <1>9 DEF WriteFails, Stage, Ends, Sets, NoEdit, At, Edit
  <2> QED BY <1>1, <1>2, <2>1, <2>2
<1>10. ASSUME NEW a \in Actors, Unclaims(a) PROVE Rest'
  <2>1. at' = at /\ home' = home /\ won' = won /\ at[a] = "inside" /\ edit[a].stage = "undo"
        /\ edit' = [edit EXCEPT ![a] = [NoEdit EXCEPT !.stage = "end"]]
        /\ claim' \in {claim, [claim EXCEPT ![home[a]] = Nobody]}
    BY <1>10 DEF Unclaims, lockVars, At, Ends, Sets
  <2>2. edit'[a].stage = "end"
    BY <1>1, <2>1 DEF NoEdit
  <2>3. \A b \in Actors : b # a /\ (b \in won \/ Claiming(b)) => home[b] # home[a]
    BY <1>2, <2>1
  <2>4. a \notin won
    BY <1>2, <2>1
  <2> QED BY <1>1, <1>2, <2>1, <2>2, <2>3, <2>4
<1>11. ASSUME NEW a \in Actors, EditReturns(a) \/ EditorDies(a) PROVE Rest'
  <2>1. home' = home /\ claim' = claim /\ won' = won
        /\ edit' = [edit EXCEPT ![a] = NoEdit] /\ at' = [at EXCEPT ![a] = "away"]
    BY <1>11 DEF EditReturns, EditorDies, Releases, Dies, Goes, Sets
  <2>2. edit'[a].stage = "read"
    BY <1>1, <2>1 DEF NoEdit
  <2> QED BY <1>1, <1>2, <2>1, <2>2
<1>12. Rest'
  BY <1>2, <1>3, <1>4, <1>5, <1>6, <1>7, <1>8, <1>9, <1>10, <1>11
     DEF TaskNext, allVars, taskVars, lockVars
<1> QED BY <1>1, <1>12 DEF TaskInv

LEMMA TaskAlways == TaskSpec => []TaskInv
BY TaskInvInit, TaskInvNext, PTL DEF TaskSpec, allVars

\* The task, its claims and every call stay in their types.
THEOREM TaskIsTyped == TaskSpec => []TaskTypeOK
<1>1. TaskInv => TaskTypeOK
  BY DEF TaskInv, LockInv, FileTyped, TaskTypeOK
<1> QED BY <1>1, TaskAlways, PTL

\* claimTask is won by one agent of an organisation at most, for any number of
\* agents, deaths and failed writes, and even if the lock is broken.
THEOREM ClaimsAreExclusive == TaskSpec => []OneClaimant
<1>1. TaskInv => OneClaimant
  BY DEF TaskInv, FileTyped, WonIsClaimed, OneClaimant
<1> QED BY <1>1, TaskAlways, PTL

-----------------------------------------------------------------------------
(* What was read under the lock is not stale *)

\* A process about to write has read an open task or writes a closed one, and
\* while the lock excludes the task has not been closed since.
ClosesClosed == \A a \in Actors : edit[a].call = "close" => edit[a].set = "closed"
ReadIsFresh ==
  rivals \/ \A a \in Actors :
    /\ edit[a].stage = "claim" => status # "closed"
    /\ edit[a].stage = "write" /\ edit[a].call # "update"
         => edit[a].set = "closed" \/ status # "closed"

FreshInv == TaskInv /\ ClosesClosed /\ ReadIsFresh

LEMMA EndsIsHarmless ==
  ASSUME FileTyped, NEW a \in Actors, Ends(a)
  PROVE  /\ edit'[a].stage = "end" /\ edit'[a].call = "none"
         /\ \A b \in Actors : b # a => edit'[b] = edit[b]
<1>1. [NoEdit EXCEPT !.stage = "end"].stage = "end" /\ [NoEdit EXCEPT !.stage = "end"].call = "none"
  BY DEF NoEdit
<1>2. edit' = [edit EXCEPT ![a] = [NoEdit EXCEPT !.stage = "end"]]
  BY DEF Ends, Sets
<1> QED BY <1>1, <1>2 DEF FileTyped

LEMMA FreshInvInit == TaskInit => FreshInv
<1> SUFFICES ASSUME TaskInit PROVE FreshInv
  OBVIOUS
<1>1. \A a \in Actors : edit[a].stage = "read" /\ edit[a].call = "none"
  BY DEF TaskInit, NoEdit
<1> QED BY <1>1, TaskInvInit DEF FreshInv, ClosesClosed, ReadIsFresh

\* What one step does to the calls: each is at its stage with what it will write,
\* or has moved on.
LEMMA ReadsFresh ==
  ASSUME FileTyped, NEW a \in Actors, Reads(a), ClosesClosed
  PROVE  /\ edit' \in [Actors -> Edit] /\ \A b \in Actors : b # a => edit'[b] = edit[b]
         /\ edit'[a].call = "close" => edit'[a].set = "closed"
         /\ edit'[a].stage = "claim" => status # "closed"
         /\ edit'[a].stage = "write" /\ edit'[a].call # "update"
              => edit'[a].set = "closed" \/ status # "closed"
<1>1. edit[a] \in Edit
  BY DEF FileTyped
<1>2. edit' \in [Actors -> Edit] /\ \A b \in Actors : b # a => edit'[b] = edit[b]
  BY ReadsCases, EditChanges
<1>3. CASE edit[a].call \in {"update", "close"}
  <2> DEFINE e == [edit[a] EXCEPT !.stage = "write"]
  <2>1. edit' = [edit EXCEPT ![a] = e]
    BY <1>3 DEF Reads, Stage, Sets
  <2>2. e.call = edit[a].call /\ e.set = edit[a].set /\ e.stage = "write"
    BY <1>1 DEF Edit
  <2> HIDE DEF e
  <2>3. edit'[a] = e
    BY <2>1 DEF FileTyped
  <2> QED BY <1>2, <1>3, <2>2, <2>3 DEF ClosesClosed
<1>4. CASE edit[a].call = "reclaim" /\ status # "closed"
  <2> DEFINE e == [edit[a] EXCEPT !.stage = "write", !.set = status]
  <2>1. edit' = [edit EXCEPT ![a] = e]
    BY <1>4 DEF Reads, Sets
  <2>2. e.call = edit[a].call
    BY <1>1 DEF Edit
  <2> HIDE DEF e
  <2>3. edit'[a] = e
    BY <2>1 DEF FileTyped
  <2> QED BY <1>2, <1>4, <2>2, <2>3
<1>5. CASE edit[a].call = "claim" /\ HomeClaim(a) = Nobody /\ status = "pending"
  <2>1. edit[a].call \notin {"update", "close", "reclaim"}
    BY <1>5
  <2>2. Stage(a, "claim")
    BY <1>5, <2>1, TaskAssumption DEF Reads
  <2>3. edit'[a].stage = "claim" /\ edit'[a].call = "claim"
    BY <1>5, <2>2, EditChanges
  <2> QED BY <1>2, <1>5, <2>3
<1>6. CASE /\ edit[a].call \notin {"update", "close"}
           /\ ~(edit[a].call = "reclaim" /\ status # "closed")
           /\ ~(edit[a].call = "claim" /\ HomeClaim(a) = Nobody /\ status = "pending")
  <2>1. Ends(a)
    BY <1>6 DEF Reads
  <2>2. edit' = [edit EXCEPT ![a] = [NoEdit EXCEPT !.stage = "end"]]
    BY <2>1 DEF Ends, Sets
  <2>3. edit'[a].stage = "end" /\ edit'[a].call = "none"
    BY <2>2 DEF NoEdit, FileTyped
  <2> QED BY <1>2, <2>3
<1> QED BY <1>3, <1>4, <1>5, <1>6

\* The lock is held where a call has read the task, and rivals are remembered.
LEMMA StageIsInside ==
  ASSUME TaskInv, NEW a \in Actors, edit[a].stage # "read"
  PROVE  at[a] = "inside"
BY DEF TaskInv, Outside

LEMMA RivalsStay == LockTypeOK /\ [LockNext]_lockVars => (rivals => rivals')
BY DEF LockTypeOK, LockNext, lockVars, Begins, Acquires, Makes, FindsStale, Clears, Remakes,
   Writes, GivesUp, Releases, Dies, Goes

LEMMA FreshInvNext == FreshInv /\ [TaskNext]_allVars => FreshInv'
<1> SUFFICES ASSUME FreshInv, [TaskNext]_allVars PROVE FreshInv'
  OBVIOUS
<1>1. TaskInv /\ TaskInv' /\ FileTyped /\ LockTypeOK /\ (rivals => rivals')
  BY TaskInvNext, TaskStepsLock, RivalsStay DEF FreshInv, TaskInv, LockInv
<1> DEFINE Rest == ClosesClosed /\ ReadIsFresh
<1>2. Rest
  BY DEF FreshInv
<1>3. ASSUME UNCHANGED allVars PROVE Rest'
  BY <1>2, <1>3 DEF allVars, taskVars, lockVars, ClosesClosed, ReadIsFresh
\* Nothing but the record of one call changes, and that one is harmless.
<1>4. ASSUME NEW a \in Actors, status' = status,
             \A b \in Actors : b # a => edit'[b] = edit[b],
             edit'[a].call = "close" => edit'[a].set = "closed",
             edit'[a].stage = "claim" => status # "closed" \/ rivals,
             edit'[a].stage = "write" /\ edit'[a].call # "update"
               => edit'[a].set = "closed" \/ status # "closed" \/ rivals
      PROVE  Rest'
  BY <1>1, <1>2, <1>4 DEF ClosesClosed, ReadIsFresh
<1>5. ASSUME NEW a \in Actors, CallOf(a) PROVE Rest'
  <2>1. PICK call \in Calls, s \in Statuses :
          EditBegins(a, call, s) /\ (call = "close" => s = "closed")
    BY <1>5 DEF CallOf, Calls, Statuses
  <2> DEFINE e == [NoEdit EXCEPT !.call = call, !.set = s]
  <2>2. e.call = call /\ e.set = s /\ e.stage = "read"
    BY DEF NoEdit
  <2>3. edit' = [edit EXCEPT ![a] = e] /\ status' = status
    BY <2>1 DEF EditBegins, Sets
  <2> HIDE DEF e
  <2>4. edit'[a] = e /\ \A b \in Actors : b # a => edit'[b] = edit[b]
    BY <1>1, <2>3 DEF FileTyped
  <2> QED BY <1>4, <2>1, <2>2, <2>3, <2>4
<1>6. ASSUME NEW a \in Actors, TaskLocks(a) PROVE Rest'
  <2>1. edit' = [edit EXCEPT ![a] = NoEdit] \/ edit' = edit
    <3>1. edit' = [edit EXCEPT ![a] = IF at'[a] = "away" THEN NoEdit ELSE edit[a]]
      BY <1>6 DEF TaskLocks, Sets
    <3> QED BY <1>1, <3>1 DEF FileTyped
  <2>2. status' = status
    BY <1>6 DEF TaskLocks
  <2>3. NoEdit.stage = "read" /\ NoEdit.call = "none"
    BY DEF NoEdit
  <2>4. CASE edit' = edit
    BY <1>1, <1>2, <2>2, <2>4 DEF ClosesClosed, ReadIsFresh
  <2>5. CASE edit' = [edit EXCEPT ![a] = NoEdit]
    <3>1. edit'[a] = NoEdit /\ \A b \in Actors : b # a => edit'[b] = edit[b]
      BY <1>1, <2>5 DEF FileTyped
    <3> QED BY <1>4, <2>2, <2>3, <3>1
  <2> QED BY <2>1, <2>4, <2>5
<1>7. ASSUME NEW a \in Actors, Reads(a) PROVE Rest'
  <2>1. status' = status
    BY <1>7 DEF Reads
  <2> QED BY <1>1, <1>2, <1>4, <1>7, <2>1, ReadsFresh
<1>8. ASSUME NEW a \in Actors, Claims(a) PROVE Rest'
  <2>1. status' = status /\ edit[a].stage = "claim" /\ (Stage(a, "write") \/ Ends(a))
    BY <1>8 DEF Claims, At
  <2>2. edit[a].call = "claim"
    BY <1>1, <2>1 DEF TaskInv, OnlyClaimsUndo
  <2>3. CASE Stage(a, "write")
    <3>1. edit'[a].call = "claim" /\ \A b \in Actors : b # a => edit'[b] = edit[b]
      BY <1>1, <2>2, <2>3, EditChanges
    <3>2. edit'[a].stage = "write"
      BY <1>1, <2>3, EditChanges
    <3> QED BY <1>2, <1>4, <2>1, <3>1, <3>2 DEF ReadIsFresh
  <2>4. CASE Ends(a)
    BY <1>1, <1>4, <2>1, <2>4, EndsIsHarmless
  <2> QED BY <2>1, <2>3, <2>4
<1>9. ASSUME NEW a \in Actors, WritesTask(a) PROVE Rest'
  <2>1. /\ status' = edit[a].set /\ edit[a].stage = "write" /\ Ends(a) /\ at[a] = "inside"
        /\ rivals' = rivals
    BY <1>9 DEF WritesTask, At, lockVars
  <2>2. /\ edit'[a].stage = "end" /\ edit'[a].call = "none"
        /\ \A b \in Actors : b # a => edit'[b] = edit[b]
    BY <1>1, <2>1, EndsIsHarmless
  <2>3. ASSUME ~rivals, NEW b \in Actors, b # a PROVE edit[b].stage = "read"
    <3>1. Exclusive
      BY <1>1, LockInvExclusive DEF TaskInv
    <3> QED BY <1>1, <2>1, <2>3, <3>1, StageIsInside DEF Exclusive, Inside
  <2>4. ClosesClosed'
    BY <1>2, <2>2 DEF ClosesClosed
  <2>5. ReadIsFresh'
    BY <2>1, <2>2, <2>3 DEF ReadIsFresh
  <2> QED BY <2>4, <2>5
<1>10. ASSUME NEW a \in Actors, WriteFails(a) PROVE Rest'
  <2>1. status' = status /\ (Ends(a) \/ (edit[a].call = "claim" /\ Stage(a, "undo")))
    BY <1>10 DEF WriteFails
  <2>2. CASE Ends(a)
    BY <1>1, <1>4, <2>1, <2>2, EndsIsHarmless
  <2>3. CASE edit[a].call = "claim" /\ Stage(a, "undo")
    <3>1. edit'[a].stage = "undo" /\ edit'[a].call = "claim"
          /\ \A b \in Actors : b # a => edit'[b] = edit[b]
      BY <1>1, <2>3, EditChanges
    <3> QED BY <1>4, <2>1, <3>1
  <2> QED BY <2>1, <2>2, <2>3
<1>11. ASSUME NEW a \in Actors, Unclaims(a) PROVE Rest'
  <2>1. status' = status /\ Ends(a)
    BY <1>11 DEF Unclaims
  <2> QED BY <1>1, <1>4, <2>1, EndsIsHarmless
<1>12. ASSUME NEW a \in Actors, EditReturns(a) \/ EditorDies(a) PROVE Rest'
  <2>1. status' = status /\ edit' = [edit EXCEPT ![a] = NoEdit]
    BY <1>12 DEF EditReturns, EditorDies, Sets
  <2>2. NoEdit.stage = "read" /\ NoEdit.call = "none"
    BY DEF NoEdit
  <2>3. edit'[a] = NoEdit /\ \A b \in Actors : b # a => edit'[b] = edit[b]
    BY <1>1, <2>1 DEF FileTyped
  <2> QED BY <1>4, <2>1, <2>2, <2>3
<1>13. Rest'
  BY <1>2, <1>3, <1>5, <1>6, <1>7, <1>8, <1>9, <1>10, <1>11, <1>12 DEF TaskNext
<1> QED BY <1>1, <1>13 DEF FreshInv

\* completeTask and cancelTask are final but for updateTask: while the lock
\* excludes, no claim and no sweep of any other process writes back a status it
\* read before the task was closed.
THEOREM ClosedIsFinal == TaskSpec => ClosedStaysClosed
<1>1. FreshInv /\ [TaskNext]_allVars
        => [~rivals /\ status = "closed" /\ status' # "closed"
              => \E a \in Inside : edit[a].call = "update"]_allVars
  <2> SUFFICES ASSUME FreshInv, TaskNext, ~rivals, status = "closed", status' # "closed"
               PROVE  \E a \in Inside : edit[a].call = "update"
    OBVIOUS
  <2>1. PICK a \in Actors : WritesTask(a)
    BY DEF TaskNext, CallOf, EditBegins, TaskLocks, Reads, Claims, WriteFails, Unclaims,
       EditReturns, EditorDies
  <2>2. at[a] = "inside" /\ edit[a].stage = "write" /\ edit[a].set # "closed"
    BY <2>1 DEF WritesTask, At
  <2>3. edit[a].call = "update"
    BY <2>2 DEF FreshInv, ReadIsFresh
  <2> QED BY <2>2, <2>3 DEF Inside
<1> QED BY <1>1, FreshInvInit, FreshInvNext, PTL DEF TaskSpec, ClosedStaysClosed, allVars

-----------------------------------------------------------------------------
(* The receipts of events *)

\* A journal, the index it feeds and the entries of the log: what the journal
\* names is logged as often as it says, and what is logged is indexed or named.
Journalled(tx, heard, logged) ==
  /\ heard \subseteq Events /\ logged \in [Events -> {0, 1}]
  /\ tx = {} \/ \E t \in Tx : tx = {t} /\ (logged[t.event] = 1 <=> t.logged)
  /\ \A e \in heard : logged[e] = 1
  /\ \A e \in Events : logged[e] = 1 => e \in heard \cup Of(tx)

TxOf(e, logged) == {[event |-> e, logged |-> logged]}

LEMMA TxIs ==
  ASSUME NEW e \in Events, NEW b \in BOOLEAN
  PROVE  /\ Of(TxOf(e, b)) = {e} /\ (Unlogged(TxOf(e, b)) <=> ~b)
         /\ LoggedTx(TxOf(e, b)) = TxOf(e, TRUE) /\ TxOf(e, b) \subseteq Tx
<1>1. PICK t : t = [event |-> e, logged |-> b]
  OBVIOUS
<1>2. t \in Tx /\ t.event = e /\ t.logged = b /\ [t EXCEPT !.logged = TRUE] = [event |-> e, logged |-> TRUE]
  <2>1. t \in Tx
    BY <1>1 DEF Tx
  <2>2. t.event = e /\ t.logged = b
    BY <1>1
  <2>3. [t EXCEPT !.logged = TRUE] = [event |-> e, logged |-> TRUE]
    <3>1. PICK r : r = [t EXCEPT !.logged = TRUE]
      OBVIOUS
    <3>2. r \in Tx /\ r.event = e /\ r.logged = TRUE
      BY <2>1, <2>2, <3>1 DEF Tx
    <3>3. r = [event |-> r.event, logged |-> r.logged]
      BY <3>2 DEF Tx
    <3> QED BY <3>1, <3>2, <3>3
  <2> QED BY <2>1, <2>2, <2>3
<1>3. TxOf(e, b) = {t}
  BY <1>1 DEF TxOf
<1>4. Of({t}) = {e} /\ (Unlogged({t}) <=> ~b)
  BY <1>2 DEF Of, Unlogged
<1>5. LoggedTx({t}) = {[t EXCEPT !.logged = TRUE]}
  BY DEF LoggedTx
<1>6. TxOf(e, TRUE) = {[t EXCEPT !.logged = TRUE]}
  BY <1>2 DEF TxOf
<1> QED BY <1>2, <1>3, <1>4, <1>5, <1>6

LEMMA EmptyTxIs == Of({}) = {} /\ ~Unlogged({}) /\ LoggedTx({}) = {}
BY DEF Of, Unlogged, LoggedTx

\* The journal is empty or names one event.
LEMMA TxShape ==
  ASSUME NEW tx, NEW heard, NEW logged, Journalled(tx, heard, logged), tx # {}
  PROVE  \E e \in Events, b \in BOOLEAN : tx = TxOf(e, b) /\ logged[e] = (IF b THEN 1 ELSE 0)
<1>1. PICK t \in Tx : tx = {t} /\ (logged[t.event] = 1 <=> t.logged)
  BY DEF Journalled
<1>2. PICK e \in Events, b \in BOOLEAN : t = [event |-> e, logged |-> b]
  BY DEF Tx
<1>3. t.event = e /\ t.logged = b
  BY <1>2
<1>4. logged[e] = (IF b THEN 1 ELSE 0)
  BY <1>1, <1>3 DEF Journalled
<1> QED BY <1>1, <1>2, <1>4 DEF TxOf

LEMMA TxEvents ==
  ASSUME NEW tx, NEW heard, NEW logged, Journalled(tx, heard, logged)
  PROVE  Of(tx) \subseteq Events
BY DEF Journalled, Of, Tx

\* The log catches up with the journal.
LEMMA LogsTx ==
  ASSUME NEW tx, NEW heard, NEW logged, Journalled(tx, heard, logged), Unlogged(tx)
  PROVE  \E e \in Events :
           /\ tx = TxOf(e, FALSE) /\ Of(tx) = {e} /\ LoggedTx(tx) = TxOf(e, TRUE)
           /\ logged[e] = 0 /\ e \notin heard
           /\ Journalled(LoggedTx(tx), heard, [logged EXCEPT ![e] = 1])
<1>1. PICK e \in Events, b \in BOOLEAN : tx = TxOf(e, b) /\ logged[e] = (IF b THEN 1 ELSE 0)
  BY TxShape, EmptyTxIs
<1>2. ~b /\ Of(tx) = {e} /\ LoggedTx(tx) = TxOf(e, TRUE) /\ Of(LoggedTx(tx)) = {e}
  BY <1>1, TxIs
<1>3. logged[e] = 0 /\ e \notin heard
  BY <1>1, <1>2 DEF Journalled
<1>4. PICK more : more = [logged EXCEPT ![e] = 1]
  OBVIOUS
<1>5. /\ more \in [Events -> {0, 1}] /\ more[e] = 1
      /\ \A d \in Events : d # e => more[d] = logged[d]
  BY <1>4 DEF Journalled
<1>6. PICK t : t = [event |-> e, logged |-> TRUE]
  OBVIOUS
<1>7. t \in Tx /\ t.event = e /\ t.logged /\ LoggedTx(tx) = {t}
  BY <1>2, <1>6 DEF TxOf, Tx
<1>8. \A d \in Events : more[d] = 1 => d \in heard \cup {e}
  BY <1>2, <1>5 DEF Journalled
<1>9. Journalled(LoggedTx(tx), heard, more)
  BY <1>2, <1>3, <1>5, <1>7, <1>8 DEF Journalled
<1> QED BY <1>1, <1>2, <1>3, <1>4, <1>9

\* The index catches up with the log.
LEMMA IndexesTx ==
  ASSUME NEW tx, NEW heard, NEW logged, Journalled(tx, heard, logged), ~Unlogged(tx)
  PROVE  Journalled(tx, heard \cup Of(tx), logged)
<1>1. \A e \in Of(tx) : e \in Events /\ logged[e] = 1
  <2>1. CASE tx = {}
    BY <2>1, EmptyTxIs
  <2>2. CASE tx # {}
    <3>1. PICK e \in Events, b \in BOOLEAN : tx = TxOf(e, b) /\ logged[e] = (IF b THEN 1 ELSE 0)
      BY <2>2, TxShape
    <3> QED BY <3>1, TxIs
  <2> QED BY <2>1, <2>2
<1> QED BY <1>1 DEF Journalled

\* The journal may go once it is indexed, or as long as it is not logged.
LEMMA DropsTx ==
  ASSUME NEW tx, NEW heard, NEW logged, Journalled(tx, heard, logged),
         Unlogged(tx) \/ Of(tx) \subseteq heard, NEW rest \in {tx, {}}
  PROVE  Journalled(rest, heard, logged)
<1>1. ASSUME Unlogged(tx) PROVE Journalled({}, heard, logged)
  <2>1. PICK e \in Events : Of(tx) = {e} /\ logged[e] = 0
    BY <1>1, LogsTx
  <2> QED BY <2>1, EmptyTxIs DEF Journalled
<1>2. ASSUME Of(tx) \subseteq heard PROVE Journalled({}, heard, logged)
  BY <1>2, EmptyTxIs DEF Journalled
<1> QED BY <1>1, <1>2

\* A receipt for an event that the index does not know.
LEMMA WritesTx ==
  ASSUME NEW tx, NEW heard, NEW logged, Journalled(tx, heard, logged),
         ~Unlogged(tx), Of(tx) \subseteq heard, NEW e \in Events, e \notin heard
  PROVE  logged[e] = 0 /\ Journalled(TxOf(e, FALSE), heard, logged)
<1>1. logged[e] = 0
  BY DEF Journalled
<1>2. PICK t : t = [event |-> e, logged |-> FALSE]
  OBVIOUS
<1>3. t \in Tx /\ t.event = e /\ ~t.logged /\ TxOf(e, FALSE) = {t}
  BY <1>2 DEF TxOf, Tx
<1>4. \A d \in Events : logged[d] = 1 => d \in heard
  BY DEF Journalled
<1>5. heard \subseteq Events /\ logged \in [Events -> {0, 1}] /\ \A d \in heard : logged[d] = 1
  BY DEF Journalled
<1> QED BY <1>1, <1>3, <1>4, <1>5 DEF Journalled

Late == {"reheal", "claim", "propose", "reindex", "reclear", "advance", "spawn"}
Early == {"check", "heal", "judge", "append", "index", "clear"}
Routing == {"claim", "propose", "reindex", "reclear"}
Request == [at : Steps, event : Events \cup {0}, fresh : BOOLEAN]

EventTyped ==
  /\ mode \in Modes /\ cursor \in Events \cup {0} /\ request \in Request
  /\ answered \subseteq Events /\ workers \in [Events -> Nat] /\ troubles \in 0..MaxTroubles
  /\ eventLog \in [Events -> [accepted : {0, 1}, proposed : {0, 1}]]

JournalsFit ==
  /\ Journalled(inTx, dedup, Accepted) /\ Journalled(routeTx, claims, Proposed)
  /\ routeTx # {} => mode = "shadow" /\ \A e \in Of(routeTx) : Accepted[e] = 1

\* What is proposed or spawned was accepted before.
AcceptedFirst ==
  \A e \in Events : Proposed[e] = 1 \/ workers[e] # 0 => Accepted[e] = 1

\* Where a request has come to with its event e: the journal it has in its hands,
\* what is logged by then, and that nobody has spawned what it is to spawn.
PlaceFits(step, e, fresh) ==
  /\ step # "idle" => e \in Events
  /\ step \in Early => ~fresh
  /\ step = "judge" => ~Unlogged(inTx) /\ Of(inTx) \subseteq dedup
  /\ step = "append" => inTx = TxOf(e, FALSE)
  /\ step \in {"index", "clear"} => inTx = TxOf(e, TRUE) /\ Accepted[e] = 1 /\ workers[e] = 0
  /\ step = "clear" => e \in dedup
  /\ step \in Late => Accepted[e] = 1 /\ (fresh => workers[e] = 0)
  /\ step \in Routing => mode = "shadow"
  /\ step = "claim" => ~Unlogged(routeTx) /\ Of(routeTx) \subseteq claims
  /\ step = "propose" => routeTx = TxOf(e, FALSE)
  /\ step \in {"reindex", "reclear"} => routeTx = TxOf(e, TRUE) /\ Proposed[e] = 1
  /\ step = "reclear" => e \in claims
  /\ step = "advance" /\ mode = "shadow" => Proposed[e] = 1
  /\ step = "spawn" => mode = "active" /\ cursor >= e /\ fresh

EventInv ==
  EventTyped /\ JournalsFit /\ AcceptedFirst /\ PlaceFits(request.at, request.event, request.fresh)

\* A step of the request is one of the stream's, or none.
StreamStep == [Stream!StreamNext]_(Stream!streamVars)

LEMMA LogIs ==
  /\ \A e \in Events : Accepted[e] = eventLog[e].accepted /\ Proposed[e] = eventLog[e].proposed
  /\ Accepted = [e \in Events |-> eventLog[e].accepted]
  /\ Proposed = [e \in Events |-> eventLog[e].proposed]
BY DEF Accepted, Proposed

LEMMA NumbersFit ==
  /\ Events \subseteq Nat \ {0} /\ MaxTroubles \in Nat /\ 0 \in 0..MaxTroubles
BY EventAssumption

LEMMA StepsAre ==
  /\ \A step \in {"idle", "check", "heal", "judge", "append", "index", "clear", "answer"} :
       step \in Steps /\ step \notin Late /\ step \notin Routing
  /\ Late \subseteq Steps /\ Routing \subseteq Late /\ \A step \in Early : step \notin Late
  /\ "idle" \notin Early /\ "answer" \notin Early
  /\ "check" \in Early /\ "heal" \in Early /\ "judge" \in Early /\ "append" \in Early
  /\ NoRequest \in Request /\ NoRequest.at = "idle"
BY DEF Steps, Early, Late, Routing, Request, NoRequest

\* A request that goes on keeps its event.
LEMMA GoesToIs ==
  ASSUME request \in Request, NEW step \in Steps, NEW fresh \in BOOLEAN,
         request' = [request EXCEPT !.at = step, !.fresh = fresh]
  PROVE  request' \in Request /\ request'.at = step /\ request'.event = This /\ request'.fresh = fresh
BY DEF Request, This

LEMMA GoesToIt ==
  ASSUME request \in Request, NEW step \in Steps, GoesTo(step)
  PROVE  request' \in Request /\ request'.at = step /\ request'.event = This /\ request'.fresh = request.fresh
BY DEF Request, This, GoesTo

LEMMA TroubleIs ==
  ASSUME EventTyped, Trouble \/ UNCHANGED troubles PROVE troubles' \in 0..MaxTroubles
BY NumbersFit DEF EventTyped, Trouble

\* A step that logs, spawns and advances nothing.
LEMMA Unseen ==
  ASSUME UNCHANGED <<mode, eventLog, workers, cursor>>
  PROVE  StreamStep /\ UNCHANGED <<Accepted, Proposed>>
<1>1. UNCHANGED <<Accepted, Proposed>>
  BY DEF Accepted, Proposed
<1> QED BY <1>1 DEF StreamStep, Stream!streamVars

LEMMA EventInvInit == EventInit => EventInv /\ Stream!StreamInit
<1> SUFFICES ASSUME EventInit PROVE EventInv /\ Stream!StreamInit
  OBVIOUS
<1>1. /\ Accepted = [e \in Events |-> 0] /\ Proposed = [e \in Events |-> 0]
      /\ eventLog \in [Events -> [accepted : {0, 1}, proposed : {0, 1}]]
  BY DEF EventInit, Accepted, Proposed
<1>2. Journalled(inTx, dedup, Accepted) /\ Journalled(routeTx, claims, Proposed)
  BY <1>1 DEF EventInit, Journalled
<1>3. JournalsFit
  BY <1>2 DEF EventInit, JournalsFit
<1>4. AcceptedFirst
  BY <1>1 DEF EventInit, AcceptedFirst
<1>5. EventTyped
  BY <1>1, NumbersFit, StepsAre DEF EventInit, EventTyped
<1>6. PlaceFits(request.at, request.event, request.fresh)
  BY StepsAre DEF EventInit, PlaceFits
<1>7. Stream!StreamInit
  BY <1>1 DEF EventInit, Stream!StreamInit, Modes, Stream!Modes
<1> QED BY <1>3, <1>4, <1>5, <1>6, <1>7 DEF EventInv

\* Where a request is depends on the files only.
LEMMA StillFits ==
  ASSUME UNCHANGED <<mode, dedup, claims, cursor, inTx, routeTx, workers, Accepted, Proposed>>,
         NEW step, NEW e, NEW fresh, PlaceFits(step, e, fresh)
  PROVE  PlaceFits(step, e, fresh)'
<1>1. (step = "judge" => ~Unlogged(inTx) /\ Of(inTx) \subseteq dedup)'
  BY DEF PlaceFits
<1>2. (step = "append" => inTx = TxOf(e, FALSE))'
  BY DEF PlaceFits
<1>3. (step \in {"index", "clear"} => inTx = TxOf(e, TRUE) /\ Accepted[e] = 1 /\ workers[e] = 0)'
  BY DEF PlaceFits
<1>4. (step \in Late => Accepted[e] = 1 /\ (fresh => workers[e] = 0))'
  BY DEF PlaceFits
<1>5. (step = "claim" => ~Unlogged(routeTx) /\ Of(routeTx) \subseteq claims)'
  BY DEF PlaceFits
<1>6. (step \in {"reindex", "reclear"} => routeTx = TxOf(e, TRUE) /\ Proposed[e] = 1)'
  BY DEF PlaceFits
<1>7. (step = "spawn" => mode = "active" /\ cursor >= e /\ fresh)'
  BY DEF PlaceFits
<1> QED BY <1>1, <1>2, <1>3, <1>4, <1>5, <1>6, <1>7 DEF PlaceFits

\* The next step of a request that leaves the files alone.
LEMMA QuietStep ==
  ASSUME EventInv, UNCHANGED <<mode, dedup, claims, cursor, inTx, routeTx, eventLog, workers>>,
         request' \in Request, PlaceFits(request'.at, request'.event, request'.fresh),
         answered' \subseteq Events, Trouble \/ UNCHANGED troubles
  PROVE  EventInv' /\ StreamStep
<1>1. StreamStep /\ UNCHANGED <<Accepted, Proposed>>
  BY Unseen
<1>2. EventTyped'
  BY TroubleIs DEF EventInv, EventTyped
<1>3. JournalsFit' /\ AcceptedFirst'
  BY <1>1 DEF EventInv, JournalsFit, AcceptedFirst, Of
<1>4. PlaceFits(request.at, request.event, request.fresh)'
  <2>1. PICK step, e, fresh : step = request'.at /\ e = request'.event /\ fresh = request'.fresh
    OBVIOUS
  <2>2. PlaceFits(step, e, fresh)
    BY <2>1
  <2>3. PlaceFits(step, e, fresh)'
    BY <1>1, <2>2, StillFits
  <2> QED BY <2>1, <2>3
<1> QED BY <1>1, <1>2, <1>3, <1>4 DEF EventInv

LEMMA ArrivesKeeps ==
  ASSUME EventInv, NEW e \in Events, Arrives(e) PROVE EventInv' /\ StreamStep
<1>1. /\ request' \in Request /\ request'.at = "check" /\ request'.event = e /\ ~request'.fresh
      /\ Trouble \/ UNCHANGED troubles
      /\ UNCHANGED <<mode, dedup, claims, cursor, inTx, routeTx, eventLog, answered, workers>>
  BY StepsAre DEF Arrives, Request, indexVars
<1>2. PlaceFits(request'.at, request'.event, request'.fresh)
  BY <1>1, StepsAre DEF PlaceFits
<1>3. answered' \subseteq Events
  BY <1>1 DEF EventInv, EventTyped
<1> QED BY <1>1, <1>2, <1>3, QuietStep

\* A step that changes journals and indices only.
LEMMA FilingStep ==
  ASSUME EventInv, UNCHANGED <<mode, eventLog, workers, cursor, answered>>, request' \in Request,
         Trouble \/ UNCHANGED troubles,
         Journalled(inTx', dedup', Accepted), Journalled(routeTx', claims', Proposed),
         routeTx' # {} => mode = "shadow" /\ \A e \in Of(routeTx)' : Accepted[e] = 1,
         PlaceFits(request.at, request.event, request.fresh)'
  PROVE  EventInv' /\ StreamStep
<1>1. StreamStep /\ UNCHANGED <<Accepted, Proposed>>
  BY Unseen
<1>2. EventTyped'
  BY TroubleIs DEF EventInv, EventTyped
<1>3. AcceptedFirst'
  BY <1>1 DEF EventInv, AcceptedFirst
<1>4. JournalsFit'
  BY <1>1 DEF JournalsFit
<1> QED BY <1>1, <1>2, <1>3, <1>4 DEF EventInv

LEMMA ComparesKeeps == ASSUME EventInv, ComparesCursor PROVE EventInv' /\ StreamStep
<1>1. PICK step \in {"answer", "heal"} : GoesTo(step)
  BY DEF ComparesCursor
<1>2. /\ request \in Request /\ request.at = "check" /\ answered \subseteq Events
      /\ UNCHANGED <<mode, dedup, claims, cursor, inTx, routeTx, eventLog, answered, workers, troubles>>
  BY DEF EventInv, EventTyped, ComparesCursor, AtStep, indexVars
<1>3. request' \in Request /\ request'.at = step /\ request'.event = This /\ request'.fresh = request.fresh
  BY <1>1, <1>2, StepsAre, GoesToIt
<1>4. This \in Events /\ ~request.fresh
  BY <1>2, StepsAre DEF EventInv, PlaceFits, This
<1>5. PlaceFits(request'.at, request'.event, request'.fresh)
  BY <1>3, <1>4, StepsAre DEF PlaceFits
<1> QED BY <1>2, <1>3, <1>5, QuietStep

LEMMA BreaksKeeps == ASSUME EventInv, Breaks PROVE EventInv' /\ StreamStep
<1>1. /\ request' \in Request /\ request'.at = "idle" /\ Trouble /\ answered' \subseteq Events
      /\ UNCHANGED <<mode, dedup, claims, cursor, inTx, routeTx, eventLog, workers>>
  BY StepsAre DEF EventInv, EventTyped, Breaks, indexVars
<1>2. PlaceFits(request'.at, request'.event, request'.fresh)
  BY <1>1, StepsAre DEF PlaceFits
<1> QED BY <1>1, <1>2, QuietStep

LEMMA AnswersKeeps == ASSUME EventInv, Answers PROVE EventInv' /\ StreamStep
<1>1. This \in Events
  BY StepsAre DEF EventInv, Answers, AtStep, PlaceFits, This
<1>2. /\ request' \in Request /\ request'.at = "idle" /\ UNCHANGED troubles /\ answered' \subseteq Events
      /\ UNCHANGED <<mode, dedup, claims, cursor, inTx, routeTx, eventLog, workers>>
  BY <1>1, StepsAre DEF EventInv, EventTyped, Answers, indexVars
<1>3. PlaceFits(request'.at, request'.event, request'.fresh)
  BY <1>2, StepsAre DEF PlaceFits
<1> QED BY <1>2, <1>3, QuietStep

LEMMA RoutesNotKeeps == ASSUME EventInv, RoutesNot PROVE EventInv' /\ StreamStep
<1>1. /\ request \in Request /\ request.at = "reheal" /\ mode # "shadow" /\ GoesTo("advance")
      /\ answered \subseteq Events
      /\ UNCHANGED <<mode, dedup, claims, cursor, inTx, routeTx, eventLog, answered, workers, troubles>>
  BY DEF EventInv, EventTyped, RoutesNot, AtStep, indexVars
<1>2. "advance" \in Late /\ "advance" \in Steps /\ "advance" \notin Routing /\ "reheal" \in Late
  BY DEF Late, Steps, Routing
<1>3. /\ request' \in Request /\ request'.at = "advance" /\ request'.event = This
      /\ request'.fresh = request.fresh
  BY <1>1, <1>2, GoesToIt
<1>4. This \in Events /\ Accepted[This] = 1 /\ (request.fresh => workers[This] = 0)
  BY <1>1, <1>2 DEF EventInv, PlaceFits, This
<1>5. PlaceFits("advance", This, request.fresh)
  BY <1>1, <1>2, <1>4, StepsAre DEF PlaceFits
<1>6. PlaceFits(request'.at, request'.event, request'.fresh)
  BY <1>3, <1>5
<1> QED BY <1>1, <1>3, <1>6, QuietStep

\* One more acceptance, or proposal, in the log.
LEMMA AcceptsOne ==
  ASSUME EventTyped, NEW e \in Events, LogsAcceptance({e}), Accepted[e] = 0
  PROVE  /\ eventLog' \in [Events -> [accepted : {0, 1}, proposed : {0, 1}]]
         /\ Accepted' = [Accepted EXCEPT ![e] = 1] /\ Proposed' = Proposed
<1>1. PICK entry : entry = [eventLog[e] EXCEPT !.accepted = @ + 1]
  OBVIOUS
<1>2. eventLog[e] \in [accepted : {0, 1}, proposed : {0, 1}] /\ eventLog[e].accepted = 0
  BY LogIs DEF EventTyped
<1>3. /\ entry \in [accepted : {0, 1}, proposed : {0, 1}]
      /\ entry.accepted = 1 /\ entry.proposed = eventLog[e].proposed
  BY <1>1, <1>2
<1>4. eventLog' = [d \in Events |-> IF d = e THEN entry ELSE eventLog[d]]
  BY <1>1 DEF LogsAcceptance
<1>5. eventLog' \in [Events -> [accepted : {0, 1}, proposed : {0, 1}]]
  BY <1>3, <1>4 DEF EventTyped
<1>6. \A d \in Events : /\ eventLog'[d].accepted = IF d = e THEN 1 ELSE eventLog[d].accepted
                        /\ eventLog'[d].proposed = eventLog[d].proposed
  BY <1>3, <1>4
<1>7. Accepted' = [d \in Events |-> eventLog'[d].accepted] /\ Proposed' = [d \in Events |-> eventLog'[d].proposed]
  BY DEF Accepted, Proposed
<1>8. Accepted' = [Accepted EXCEPT ![e] = 1]
  BY <1>6, <1>7, LogIs
<1>9. Proposed' = Proposed
  BY <1>6, <1>7, LogIs
<1> QED BY <1>5, <1>8, <1>9

LEMMA ProposesOne ==
  ASSUME EventTyped, NEW e \in Events, LogsRoute({e}), Proposed[e] = 0
  PROVE  /\ eventLog' \in [Events -> [accepted : {0, 1}, proposed : {0, 1}]]
         /\ Proposed' = [Proposed EXCEPT ![e] = 1] /\ Accepted' = Accepted
<1>1. PICK entry : entry = [eventLog[e] EXCEPT !.proposed = @ + 1]
  OBVIOUS
<1>2. eventLog[e] \in [accepted : {0, 1}, proposed : {0, 1}] /\ eventLog[e].proposed = 0
  BY LogIs DEF EventTyped
<1>3. /\ entry \in [accepted : {0, 1}, proposed : {0, 1}]
      /\ entry.proposed = 1 /\ entry.accepted = eventLog[e].accepted
  BY <1>1, <1>2
<1>4. eventLog' = [d \in Events |-> IF d = e THEN entry ELSE eventLog[d]]
  BY <1>1 DEF LogsRoute
<1>5. eventLog' \in [Events -> [accepted : {0, 1}, proposed : {0, 1}]]
  BY <1>3, <1>4 DEF EventTyped
<1>6. \A d \in Events : /\ eventLog'[d].proposed = IF d = e THEN 1 ELSE eventLog[d].proposed
                        /\ eventLog'[d].accepted = eventLog[d].accepted
  BY <1>3, <1>4
<1>7. Accepted' = [d \in Events |-> eventLog'[d].accepted] /\ Proposed' = [d \in Events |-> eventLog'[d].proposed]
  BY DEF Accepted, Proposed
<1>8. Proposed' = [Proposed EXCEPT ![e] = 1]
  BY <1>6, <1>7, LogIs
<1>9. Accepted' = Accepted
  BY <1>6, <1>7, LogIs
<1> QED BY <1>5, <1>8, <1>9

\* The log and the journal of acceptances move on, for an event e.
LEMMA AcceptStep ==
  ASSUME EventInv, NEW e \in Events, Accepted[e] = 0,
         eventLog' \in [Events -> [accepted : {0, 1}, proposed : {0, 1}]],
         Accepted' = [Accepted EXCEPT ![e] = 1], Proposed' = Proposed,
         request' \in Request, Journalled(inTx', dedup, Accepted'),
         UNCHANGED <<mode, dedup, claims, cursor, routeTx, answered, workers, troubles>>,
         PlaceFits(request.at, request.event, request.fresh)'
  PROVE  EventInv' /\ StreamStep
<1>1. \A d \in Events : Accepted[d] = 1 => Accepted'[d] = 1
  BY LogIs
<1>2. EventTyped'
  BY DEF EventInv, EventTyped
<1>3. AcceptedFirst'
  BY <1>1 DEF EventInv, AcceptedFirst
<1>4. JournalsFit'
  <2>1. Of(routeTx) \subseteq Events /\ Of(routeTx)' = Of(routeTx)
    BY TxEvents DEF EventInv, JournalsFit, Of
  <2> QED BY <1>1, <2>1 DEF EventInv, JournalsFit
<1>5. Stream!Accept(e)
  BY DEF Stream!Accept
<1>6. StreamStep
  BY <1>5 DEF StreamStep, Stream!StreamNext
<1> QED BY <1>2, <1>3, <1>4, <1>6 DEF EventInv

LEMMA ProposeStep ==
  ASSUME EventInv, NEW e \in Events, Proposed[e] = 0, Accepted[e] = 1, mode = "shadow",
         eventLog' \in [Events -> [accepted : {0, 1}, proposed : {0, 1}]],
         Proposed' = [Proposed EXCEPT ![e] = 1], Accepted' = Accepted,
         request' \in Request, Journalled(routeTx', claims, Proposed'),
         \A d \in Of(routeTx)' : Accepted[d] = 1,
         UNCHANGED <<mode, dedup, claims, cursor, inTx, answered, workers, troubles>>,
         PlaceFits(request.at, request.event, request.fresh)'
  PROVE  EventInv' /\ StreamStep
<1>1. \A d \in Events : Proposed'[d] = 1 => Proposed[d] = 1 \/ d = e
  BY LogIs
<1>2. EventTyped'
  BY DEF EventInv, EventTyped
<1>3. AcceptedFirst'
  BY <1>1 DEF EventInv, AcceptedFirst
<1>4. JournalsFit'
  BY DEF EventInv, JournalsFit
<1>5. Stream!Propose(e)
  BY DEF Stream!Propose
<1>6. StreamStep
  BY <1>5 DEF StreamStep, Stream!StreamNext
<1> QED BY <1>2, <1>3, <1>4, <1>6 DEF EventInv

LEMMA HealsKeeps == ASSUME EventInv, Heals PROVE EventInv' /\ StreamStep
<1>1. /\ request \in Request /\ request.at = "heal" /\ This \in Events /\ ~request.fresh
      /\ Journalled(inTx, dedup, Accepted) /\ Journalled(routeTx, claims, Proposed)
      /\ routeTx # {} => mode = "shadow" /\ \A e \in Of(routeTx) : Accepted[e] = 1
      /\ UNCHANGED <<mode, claims, cursor, routeTx, answered, workers, troubles>>
  BY StepsAre DEF EventInv, EventTyped, JournalsFit, Heals, AtStep, PlaceFits, This
<1>2. ASSUME Unlogged(inTx), inTx' = LoggedTx(inTx), LogsAcceptance(Of(inTx)), UNCHANGED <<dedup, request>>
      PROVE  EventInv' /\ StreamStep
  <2>1. PICK e \in Events :
           /\ Of(inTx) = {e} /\ Accepted[e] = 0
           /\ Journalled(LoggedTx(inTx), dedup, [Accepted EXCEPT ![e] = 1])
    BY <1>1, <1>2, LogsTx
  <2>2. /\ eventLog' \in [Events -> [accepted : {0, 1}, proposed : {0, 1}]]
        /\ Accepted' = [Accepted EXCEPT ![e] = 1] /\ Proposed' = Proposed
    BY <1>2, <2>1, AcceptsOne DEF EventInv
  <2>3. PlaceFits(request.at, request.event, request.fresh)'
    BY <1>1, <1>2, StepsAre DEF PlaceFits, This
  <2>4. Journalled(inTx', dedup, Accepted') /\ request' \in Request
    BY <1>1, <1>2, <2>1, <2>2
  <2> QED BY <1>1, <1>2, <2>1, <2>2, <2>3, <2>4, AcceptStep
<1>3. ASSUME ~Unlogged(inTx), dedup' = dedup \cup Of(inTx), UNCHANGED <<inTx, eventLog, request>>
      PROVE  EventInv' /\ StreamStep
  <2>1. Journalled(inTx', dedup', Accepted)
    BY <1>1, <1>3, IndexesTx
  <2>2. PlaceFits(request.at, request.event, request.fresh)'
    BY <1>1, <1>3, StepsAre DEF PlaceFits, This
  <2>3. Of(routeTx)' = Of(routeTx)
    BY <1>1 DEF Of
  <2> QED BY <1>1, <1>3, <2>1, <2>2, <2>3, FilingStep
<1>4. ASSUME ~Unlogged(inTx), Of(inTx) \subseteq dedup, inTx' \in {inTx, {}}, GoesTo("judge"),
             UNCHANGED <<dedup, eventLog>>
      PROVE  EventInv' /\ StreamStep
  <2>1. Journalled(inTx', dedup', Accepted)
    BY <1>1, <1>4, DropsTx
  <2>2. /\ request' \in Request /\ request'.at = "judge" /\ request'.event = This
        /\ request'.fresh = request.fresh
    BY <1>1, <1>4, StepsAre, GoesToIt
  <2>3. ~Unlogged(inTx)' /\ Of(inTx)' \subseteq dedup'
    BY <1>4, EmptyTxIs DEF Of, Unlogged
  <2>4. PlaceFits(request.at, request.event, request.fresh)'
    BY <1>1, <2>2, <2>3, StepsAre DEF PlaceFits
  <2>5. Of(routeTx)' = Of(routeTx)
    BY <1>1 DEF Of
  <2> QED BY <1>1, <1>4, <2>1, <2>2, <2>4, <2>5, FilingStep
<1> QED BY <1>2, <1>3, <1>4 DEF Heals

LEMMA JudgesKeeps == ASSUME EventInv, Judges PROVE EventInv' /\ StreamStep
<1>1. /\ request \in Request /\ request.at = "judge" /\ This \in Events /\ ~request.fresh
      /\ answered \subseteq Events
      /\ ~Unlogged(inTx) /\ Of(inTx) \subseteq dedup
      /\ Journalled(inTx, dedup, Accepted) /\ Journalled(routeTx, claims, Proposed)
      /\ routeTx # {} => mode = "shadow" /\ \A e \in Of(routeTx) : Accepted[e] = 1
      /\ UNCHANGED <<mode, dedup, claims, cursor, routeTx, eventLog, answered, workers, troubles>>
  BY StepsAre DEF EventInv, EventTyped, JournalsFit, Judges, AtStep, PlaceFits, This, indexVars
<1>2. Of(routeTx)' = Of(routeTx) /\ Accepted' = Accepted /\ Proposed' = Proposed
  BY <1>1, Unseen DEF Of, Judges, indexVars
<1>3. "reheal" \in Late /\ "reheal" \notin Routing /\ "reheal" \in Steps
  BY DEF Late, Routing, Steps
<1>4. ASSUME This \in dedup, GoesTo("reheal"), UNCHANGED inTx PROVE EventInv' /\ StreamStep
  <2>1. /\ request' \in Request /\ request'.at = "reheal" /\ request'.event = This
        /\ request'.fresh = request.fresh
    BY <1>1, <1>3, <1>4, GoesToIt
  <2>2. Accepted[This] = 1
    BY <1>1, <1>4 DEF Journalled
  <2>3. PlaceFits(request'.at, request'.event, request'.fresh)
    BY <1>1, <1>3, <2>1, <2>2, StepsAre DEF PlaceFits
  <2> QED BY <1>1, <1>4, <2>1, <2>3, QuietStep
<1>5. ASSUME This \notin dedup, inTx' = {[event |-> This, logged |-> FALSE]}, GoesTo("append")
      PROVE  EventInv' /\ StreamStep
  <2>1. inTx' = TxOf(This, FALSE)
    BY <1>5 DEF TxOf
  <2>2. Journalled(inTx', dedup', Accepted)
    BY <1>1, <1>5, <2>1, WritesTx
  <2>3. /\ request' \in Request /\ request'.at = "append" /\ request'.event = This
        /\ request'.fresh = request.fresh
    BY <1>1, <1>5, StepsAre, GoesToIt
  <2>4. PlaceFits(request.at, request.event, request.fresh)'
    BY <1>1, <2>1, <2>3, StepsAre DEF PlaceFits
  <2> QED BY <1>1, <1>2, <2>2, <2>3, <2>4, FilingStep
<1> QED BY <1>4, <1>5 DEF Judges

LEMMA AppendsKeeps == ASSUME EventInv, Appends PROVE EventInv' /\ StreamStep
<1>1. /\ request \in Request /\ request.at = "append" /\ This \in Events /\ ~request.fresh
      /\ inTx = TxOf(This, FALSE) /\ Journalled(inTx, dedup, Accepted)
      /\ inTx' = LoggedTx(inTx) /\ LogsAcceptance({This}) /\ GoesTo("index")
      /\ UNCHANGED <<mode, dedup, claims, cursor, routeTx, answered, workers, troubles>>
  BY StepsAre DEF EventInv, EventTyped, JournalsFit, Appends, AtStep, PlaceFits, This, indexVars
<1>2. PICK e \in Events : /\ Of(inTx) = {e} /\ LoggedTx(inTx) = TxOf(e, TRUE) /\ Accepted[e] = 0
                          /\ Journalled(LoggedTx(inTx), dedup, [Accepted EXCEPT ![e] = 1])
  BY <1>1, LogsTx, TxIs
<1>3. e = This
  BY <1>1, <1>2, TxIs
<1>4. /\ eventLog' \in [Events -> [accepted : {0, 1}, proposed : {0, 1}]]
      /\ Accepted' = [Accepted EXCEPT ![e] = 1] /\ Proposed' = Proposed
  BY <1>1, <1>2, <1>3, AcceptsOne DEF EventInv
<1>5. /\ request' \in Request /\ request'.at = "index" /\ request'.event = This
      /\ request'.fresh = request.fresh
  BY <1>1, StepsAre, GoesToIt
<1>6. Accepted'[This] = 1 /\ workers[This] = 0
  <2>1. workers[This] = 0
    BY <1>1, <1>2, <1>3 DEF EventInv, AcceptedFirst
  <2> QED BY <1>1, <1>3, <1>4, <2>1, LogIs
<1>7. PlaceFits(request.at, request.event, request.fresh)'
  BY <1>1, <1>2, <1>3, <1>5, <1>6, StepsAre DEF PlaceFits
<1>8. Journalled(inTx', dedup, Accepted')
  BY <1>1, <1>2, <1>4
<1> QED BY <1>1, <1>2, <1>4, <1>5, <1>7, <1>8, AcceptStep

LEMMA AppendThrowsKeeps == ASSUME EventInv, AppendThrows PROVE EventInv' /\ StreamStep
<1>1. /\ request' \in Request /\ request'.at = "idle" /\ Trouble /\ inTx' \in {inTx, {}}
      /\ UNCHANGED <<mode, dedup, claims, cursor, routeTx, eventLog, answered, workers>>
  BY StepsAre DEF AppendThrows, indexVars
<1>2. /\ Journalled(inTx, dedup, Accepted) /\ Journalled(routeTx, claims, Proposed)
      /\ routeTx # {} => mode = "shadow" /\ \A e \in Of(routeTx) : Accepted[e] = 1
  BY DEF EventInv, JournalsFit
<1>3. Unlogged(inTx)
  <2>1. This \in Events /\ inTx = TxOf(This, FALSE)
    BY DEF EventInv, PlaceFits, AppendThrows, AtStep, This
  <2> QED BY <2>1, TxIs
<1>4. Journalled(inTx', dedup', Accepted) /\ Of(routeTx)' = Of(routeTx)
  BY <1>1, <1>2, <1>3, DropsTx DEF Of
<1>5. PlaceFits(request.at, request.event, request.fresh)'
  BY <1>1, StepsAre DEF PlaceFits
<1> QED BY <1>1, <1>2, <1>4, <1>5, FilingStep

LEMMA IndexesKeeps == ASSUME EventInv, Indexes PROVE EventInv' /\ StreamStep
<1>1. /\ request \in Request /\ request.at = "index" /\ This \in Events /\ ~request.fresh
      /\ inTx = TxOf(This, TRUE) /\ Accepted[This] = 1 /\ workers[This] = 0 /\ answered \subseteq Events
      /\ Journalled(inTx, dedup, Accepted) /\ Journalled(routeTx, claims, Proposed)
      /\ routeTx # {} => mode = "shadow" /\ \A e \in Of(routeTx) : Accepted[e] = 1
  BY DEF EventInv, EventTyped, JournalsFit, Indexes, AtStep, PlaceFits, Early, This
<1>2. /\ UNCHANGED <<mode, claims, cursor, inTx, routeTx, eventLog, answered, workers>>
      /\ Accepted' = Accepted /\ Proposed' = Proposed /\ Of(routeTx)' = Of(routeTx)
  BY Unseen DEF Indexes, Of
<1>3. /\ "index" \in Early /\ "clear" \in Early /\ "clear" \in Steps /\ "clear" \notin Late
      /\ "reheal" \in Late /\ "reheal" \notin Routing /\ "reheal" \in Steps /\ "clear" \notin Routing
  BY DEF Early, Late, Routing, Steps
<1>4. ASSUME dedup' = dedup \cup {This}, GoesTo("clear"), UNCHANGED troubles
      PROVE  EventInv' /\ StreamStep
  <2>1. /\ request' \in Request /\ request'.at = "clear" /\ request'.event = This
        /\ request'.fresh = request.fresh
    BY <1>1, <1>3, <1>4, GoesToIt
  <2>2. Journalled(inTx', dedup', Accepted)
    <3>1. Of(inTx) = {This} /\ ~Unlogged(inTx)
      BY <1>1, TxIs
    <3> QED BY <1>1, <1>2, <1>4, <3>1, IndexesTx
  <2>3. PlaceFits(request.at, request.event, request.fresh)'
    BY <1>1, <1>2, <1>3, <1>4, <2>1, StepsAre DEF PlaceFits
  <2> QED BY <1>1, <1>2, <1>4, <2>1, <2>2, <2>3, FilingStep
<1>5. ASSUME Trouble, request' = [request EXCEPT !.at = "reheal", !.fresh = TRUE], UNCHANGED dedup
      PROVE  EventInv' /\ StreamStep
  <2>1. request' \in Request /\ request'.at = "reheal" /\ request'.event = This /\ request'.fresh
    BY <1>1, <1>3, <1>5, GoesToIs
  <2>2. PlaceFits(request'.at, request'.event, request'.fresh)
    BY <1>1, <1>3, <2>1, StepsAre DEF PlaceFits
  <2> QED BY <1>1, <1>2, <1>5, <2>1, <2>2, QuietStep
<1> QED BY <1>4, <1>5 DEF Indexes

LEMMA ClearsReceiptKeeps == ASSUME EventInv, ClearsReceipt PROVE EventInv' /\ StreamStep
<1>1. /\ request \in Request /\ request.at = "clear" /\ This \in Events
      /\ inTx = TxOf(This, TRUE) /\ This \in dedup /\ Accepted[This] = 1 /\ workers[This] = 0
      /\ Journalled(inTx, dedup, Accepted) /\ Journalled(routeTx, claims, Proposed)
      /\ routeTx # {} => mode = "shadow" /\ \A e \in Of(routeTx) : Accepted[e] = 1
  BY DEF EventInv, EventTyped, JournalsFit, ClearsReceipt, AtStep, PlaceFits, This
<1>2. /\ UNCHANGED <<mode, dedup, claims, cursor, routeTx, eventLog, answered, workers, troubles>>
      /\ Accepted' = Accepted /\ Of(routeTx)' = Of(routeTx) /\ inTx' \in {inTx, {}}
  BY Unseen DEF ClearsReceipt, Of, indexVars
<1>3. "reheal" \in Late /\ "reheal" \notin Routing /\ "reheal" \in Steps
  BY DEF Late, Routing, Steps
<1>4. request' \in Request /\ request'.at = "reheal" /\ request'.event = This /\ request'.fresh
  BY <1>1, <1>3, GoesToIs DEF ClearsReceipt
<1>5. Journalled(inTx', dedup', Accepted)
  <2>1. Of(inTx) \subseteq dedup
    BY <1>1, TxIs
  <2> QED BY <1>1, <1>2, <2>1, DropsTx
<1>6. PlaceFits(request.at, request.event, request.fresh)'
  BY <1>1, <1>2, <1>3, <1>4, StepsAre DEF PlaceFits
<1> QED BY <1>1, <1>2, <1>4, <1>5, <1>6, FilingStep

\* What the steps of the proposal start from.
RoutePlace(step) ==
  /\ request \in Request /\ request.at = step /\ This \in Events /\ answered \subseteq Events
  /\ mode = "shadow" /\ Accepted[This] = 1 /\ (request.fresh => workers[This] = 0)
  /\ Journalled(inTx, dedup, Accepted) /\ Journalled(routeTx, claims, Proposed)
  /\ \A e \in Of(routeTx) : Accepted[e] = 1

LEMMA RoutePlaceIs ==
  ASSUME EventInv, NEW step \in Routing \cup {"reheal"}, AtStep(step), mode = "shadow"
  PROVE  RoutePlace(step)
<1>1. step \in Late /\ "reheal" \in Late /\ step # "idle"
  BY DEF Late, Routing
<1>2. \A e \in Of(routeTx) : Accepted[e] = 1
  BY EmptyTxIs DEF EventInv, JournalsFit
<1> QED BY <1>1, <1>2 DEF RoutePlace, EventInv, EventTyped, JournalsFit, AtStep, PlaceFits, This

LEMMA RoutingIs ==
  /\ "reheal" \in Late /\ "advance" \in Late /\ "reheal" \notin Routing /\ "advance" \notin Routing
  /\ "advance" \in Steps /\ "reheal" \in Steps
  /\ \A step \in Routing : step \in Late /\ step \in Steps
  /\ "claim" \in Routing /\ "propose" \in Routing /\ "reindex" \in Routing /\ "reclear" \in Routing
  /\ "answer" \notin Late /\ "spawn" \in Late /\ "spawn" \notin Routing
  /\ \A step \in Late : step \notin Early /\ step # "idle"
BY DEF Late, Routing, Steps, Early

LEMMA RehealsKeeps == ASSUME EventInv, Reheals PROVE EventInv' /\ StreamStep
<1>1. RoutePlace("reheal") /\ UNCHANGED <<mode, dedup, cursor, inTx, answered, workers, troubles>>
  BY RoutePlaceIs DEF Reheals
<1>2. ASSUME Unlogged(routeTx), routeTx' = LoggedTx(routeTx), LogsRoute(Of(routeTx)), UNCHANGED <<claims, request>>
      PROVE  EventInv' /\ StreamStep
  <2>1. PICK e \in Events :
           /\ Of(routeTx) = {e} /\ Proposed[e] = 0 /\ LoggedTx(routeTx) = TxOf(e, TRUE)
           /\ Journalled(LoggedTx(routeTx), claims, [Proposed EXCEPT ![e] = 1])
    BY <1>1, <1>2, LogsTx DEF RoutePlace
  <2>2. /\ eventLog' \in [Events -> [accepted : {0, 1}, proposed : {0, 1}]]
        /\ Proposed' = [Proposed EXCEPT ![e] = 1] /\ Accepted' = Accepted
    BY <1>2, <2>1, ProposesOne DEF EventInv
  <2>3. PlaceFits(request.at, request.event, request.fresh)'
    BY <1>1, <1>2, <2>2, RoutingIs DEF PlaceFits, RoutePlace, This
  <2>4. Journalled(routeTx', claims, Proposed') /\ request' \in Request
    BY <1>1, <1>2, <2>1, <2>2 DEF RoutePlace
  <2>5. Accepted[e] = 1 /\ Of(routeTx)' = {e}
    <3>1. Of(TxOf(e, TRUE)) = {e}
      BY TxIs
    <3> QED BY <1>1, <1>2, <2>1, <3>1 DEF RoutePlace, Of
  <2> QED BY <1>1, <1>2, <2>1, <2>2, <2>3, <2>4, <2>5, ProposeStep DEF RoutePlace
<1>3. ASSUME ~Unlogged(routeTx), claims' = claims \cup Of(routeTx), UNCHANGED <<routeTx, eventLog, request>>
      PROVE  EventInv' /\ StreamStep
  <2>1. Journalled(routeTx', claims', Proposed)
    BY <1>1, <1>3, IndexesTx DEF RoutePlace
  <2>2. Accepted' = Accepted /\ Of(routeTx)' = Of(routeTx)
    BY <1>1, <1>3, Unseen DEF Of
  <2>3. PlaceFits(request.at, request.event, request.fresh)'
    BY <1>1, <1>3, <2>2, RoutingIs DEF PlaceFits, RoutePlace, This
  <2> QED BY <1>1, <1>3, <2>1, <2>2, <2>3, FilingStep DEF RoutePlace
<1>4. ASSUME ~Unlogged(routeTx), Of(routeTx) \subseteq claims, routeTx' \in {routeTx, {}}, GoesTo("claim"),
             UNCHANGED <<claims, eventLog>>
      PROVE  EventInv' /\ StreamStep
  <2>1. Journalled(routeTx', claims', Proposed)
    BY <1>1, <1>4, DropsTx DEF RoutePlace
  <2>2. /\ request' \in Request /\ request'.at = "claim" /\ request'.event = This
        /\ request'.fresh = request.fresh
    BY <1>1, <1>4, RoutingIs, GoesToIt DEF RoutePlace
  <2>3. ~Unlogged(routeTx)' /\ Of(routeTx)' \subseteq claims' /\ Of(routeTx)' \subseteq Of(routeTx)
    BY <1>4, EmptyTxIs DEF Of, Unlogged
  <2>4. Accepted' = Accepted
    BY <1>1, <1>4, Unseen
  <2>5. PlaceFits(request.at, request.event, request.fresh)'
    BY <1>1, <2>2, <2>3, <2>4, RoutingIs DEF PlaceFits, RoutePlace
  <2> QED BY <1>1, <1>4, <2>1, <2>2, <2>3, <2>5, FilingStep DEF RoutePlace
<1> QED BY <1>2, <1>3, <1>4 DEF Reheals

LEMMA ClaimsRouteKeeps == ASSUME EventInv, ClaimsRoute PROVE EventInv' /\ StreamStep
<1>1. /\ RoutePlace("claim") /\ ~Unlogged(routeTx) /\ Of(routeTx) \subseteq claims
      /\ UNCHANGED <<mode, dedup, claims, cursor, inTx, eventLog, answered, workers, troubles>>
  <2>1. AtStep("claim") /\ mode = "shadow" /\ ~Unlogged(routeTx) /\ Of(routeTx) \subseteq claims
    BY RoutingIs DEF EventInv, PlaceFits, ClaimsRoute, AtStep
  <2> QED BY <2>1, RoutePlaceIs, RoutingIs DEF ClaimsRoute, indexVars
<1>2. Accepted' = Accepted /\ Proposed' = Proposed
  BY <1>1, Unseen
<1>3. ASSUME This \in claims, GoesTo("advance"), UNCHANGED routeTx PROVE EventInv' /\ StreamStep
  <2>1. /\ request' \in Request /\ request'.at = "advance" /\ request'.event = This
        /\ request'.fresh = request.fresh
    BY <1>1, <1>3, RoutingIs, GoesToIt DEF RoutePlace
  <2>2. Proposed[This] = 1
    BY <1>1, <1>3 DEF RoutePlace, Journalled
  <2>3. PlaceFits(request'.at, request'.event, request'.fresh)
    BY <1>1, <2>1, <2>2, RoutingIs DEF PlaceFits, RoutePlace
  <2> QED BY <1>1, <1>3, <2>1, <2>3, QuietStep DEF RoutePlace
<1>4. ASSUME This \notin claims, routeTx' = {[event |-> This, logged |-> FALSE]}, GoesTo("propose")
      PROVE  EventInv' /\ StreamStep
  <2>1. routeTx' = TxOf(This, FALSE)
    BY <1>4 DEF TxOf
  <2>2. Journalled(routeTx', claims', Proposed)
    <3>1. /\ Journalled(routeTx, claims, Proposed) /\ ~Unlogged(routeTx)
          /\ Of(routeTx) \subseteq claims /\ This \in Events /\ This \notin claims
      BY <1>1, <1>4 DEF RoutePlace
    <3>2. Journalled(TxOf(This, FALSE), claims, Proposed)
      BY <3>1, WritesTx
    <3> QED BY <1>1, <2>1, <3>2
  <2>3. /\ request' \in Request /\ request'.at = "propose" /\ request'.event = This
        /\ request'.fresh = request.fresh
    BY <1>1, <1>4, RoutingIs, GoesToIt DEF RoutePlace
  <2>4. PlaceFits(request.at, request.event, request.fresh)'
    BY <1>1, <1>2, <2>1, <2>3, RoutingIs DEF PlaceFits, RoutePlace
  <2>5. Of(routeTx)' = {This}
    <3>1. Of(TxOf(This, FALSE)) = {This}
      BY <1>1, TxIs DEF RoutePlace
    <3> QED BY <2>1, <3>1 DEF Of
  <2> QED BY <1>1, <2>2, <2>3, <2>4, <2>5, FilingStep DEF RoutePlace
<1> QED BY <1>3, <1>4 DEF ClaimsRoute

LEMMA LogsProposalKeeps == ASSUME EventInv, LogsProposal PROVE EventInv' /\ StreamStep
<1>1. /\ RoutePlace("propose") /\ routeTx = TxOf(This, FALSE)
      /\ routeTx' = LoggedTx(routeTx) /\ LogsRoute({This}) /\ GoesTo("reindex")
      /\ UNCHANGED <<mode, dedup, claims, cursor, inTx, answered, workers, troubles>>
  <2>1. AtStep("propose") /\ mode = "shadow" /\ routeTx = TxOf(This, FALSE)
    BY RoutingIs DEF EventInv, PlaceFits, LogsProposal, AtStep, This
  <2> QED BY <2>1, RoutePlaceIs, RoutingIs DEF LogsProposal, indexVars
<1>2. PICK e \in Events : /\ Of(routeTx) = {e} /\ LoggedTx(routeTx) = TxOf(e, TRUE) /\ Proposed[e] = 0
                          /\ Journalled(LoggedTx(routeTx), claims, [Proposed EXCEPT ![e] = 1])
  BY <1>1, LogsTx, TxIs DEF RoutePlace
<1>3. e = This /\ Of(routeTx)' = {This}
  <2>1. Of(routeTx) = {This} /\ Of(TxOf(This, TRUE)) = {This}
    BY <1>1, TxIs DEF RoutePlace
  <2> QED BY <1>1, <1>2, <2>1 DEF Of
<1>4. /\ eventLog' \in [Events -> [accepted : {0, 1}, proposed : {0, 1}]]
      /\ Proposed' = [Proposed EXCEPT ![e] = 1] /\ Accepted' = Accepted
  BY <1>1, <1>2, <1>3, ProposesOne DEF EventInv
<1>5. /\ request' \in Request /\ request'.at = "reindex" /\ request'.event = This
      /\ request'.fresh = request.fresh
  BY <1>1, RoutingIs, GoesToIt DEF RoutePlace
<1>6. Proposed'[This] = 1
  BY <1>3, <1>4, LogIs
<1>7. PlaceFits(request.at, request.event, request.fresh)'
  BY <1>1, <1>2, <1>3, <1>4, <1>5, <1>6, RoutingIs DEF PlaceFits, RoutePlace
<1>8. Journalled(routeTx', claims, Proposed')
  BY <1>1, <1>2, <1>4
<1> QED BY <1>1, <1>2, <1>3, <1>4, <1>5, <1>7, <1>8, ProposeStep DEF RoutePlace

LEMMA ProposalThrowsKeeps == ASSUME EventInv, ProposalThrows PROVE EventInv' /\ StreamStep
<1>1. /\ RoutePlace("propose") /\ Unlogged(routeTx) /\ Trouble /\ routeTx' \in {routeTx, {}}
      /\ request' \in Request /\ request'.at = "idle"
      /\ UNCHANGED <<mode, dedup, claims, cursor, inTx, eventLog, answered, workers>>
  <2>1. This \in Events /\ AtStep("propose") /\ mode = "shadow" /\ routeTx = TxOf(This, FALSE)
    BY RoutingIs DEF EventInv, PlaceFits, ProposalThrows, AtStep, This
  <2> QED BY <2>1, TxIs, RoutePlaceIs, RoutingIs, StepsAre DEF ProposalThrows, indexVars
<1>2. Journalled(routeTx', claims', Proposed) /\ Of(routeTx)' \subseteq Of(routeTx)
  BY <1>1, DropsTx, EmptyTxIs DEF RoutePlace, Of
<1>3. PlaceFits(request.at, request.event, request.fresh)'
  BY <1>1, StepsAre DEF PlaceFits
<1> QED BY <1>1, <1>2, <1>3, FilingStep DEF RoutePlace

LEMMA IndexesProposalKeeps == ASSUME EventInv, IndexesProposal PROVE EventInv' /\ StreamStep
<1>1. /\ RoutePlace("reindex") /\ routeTx = TxOf(This, TRUE) /\ Proposed[This] = 1
      /\ UNCHANGED <<mode, dedup, cursor, inTx, routeTx, eventLog, answered, workers>>
  <2>1. AtStep("reindex") /\ mode = "shadow" /\ routeTx = TxOf(This, TRUE) /\ Proposed[This] = 1
    BY RoutingIs DEF EventInv, PlaceFits, IndexesProposal, AtStep, This
  <2> QED BY <2>1, RoutePlaceIs, RoutingIs DEF IndexesProposal
<1>2. Accepted' = Accepted /\ Proposed' = Proposed /\ Of(routeTx)' = Of(routeTx)
  BY <1>1, Unseen DEF Of
<1>3. ASSUME claims' = claims \cup {This}, GoesTo("reclear"), UNCHANGED troubles
      PROVE  EventInv' /\ StreamStep
  <2>1. /\ request' \in Request /\ request'.at = "reclear" /\ request'.event = This
        /\ request'.fresh = request.fresh
    BY <1>1, <1>3, RoutingIs, GoesToIt DEF RoutePlace
  <2>2. Of(routeTx) = {This} /\ ~Unlogged(routeTx)
    BY <1>1, TxIs DEF RoutePlace
  <2>3. Journalled(routeTx', claims', Proposed)
    BY <1>1, <1>3, <2>2, IndexesTx DEF RoutePlace
  <2>4. PlaceFits(request.at, request.event, request.fresh)'
    BY <1>1, <1>2, <1>3, <2>1, RoutingIs DEF PlaceFits, RoutePlace
  <2> QED BY <1>1, <1>2, <1>3, <2>1, <2>3, <2>4, FilingStep DEF RoutePlace
<1>4. ASSUME Trouble, GoesTo("advance"), UNCHANGED claims PROVE EventInv' /\ StreamStep
  <2>1. /\ request' \in Request /\ request'.at = "advance" /\ request'.event = This
        /\ request'.fresh = request.fresh
    BY <1>1, <1>4, RoutingIs, GoesToIt DEF RoutePlace
  <2>2. PlaceFits(request'.at, request'.event, request'.fresh)
    BY <1>1, <2>1, RoutingIs DEF PlaceFits, RoutePlace
  <2> QED BY <1>1, <1>4, <2>1, <2>2, QuietStep DEF RoutePlace
<1> QED BY <1>3, <1>4 DEF IndexesProposal

LEMMA ClearsProposalKeeps == ASSUME EventInv, ClearsProposal PROVE EventInv' /\ StreamStep
<1>1. /\ RoutePlace("reclear") /\ Of(routeTx) \subseteq claims /\ Proposed[This] = 1
      /\ routeTx' \in {routeTx, {}} /\ GoesTo("advance")
      /\ UNCHANGED <<mode, dedup, claims, cursor, inTx, eventLog, answered, workers, troubles>>
  <2>1. /\ This \in Events /\ AtStep("reclear") /\ mode = "shadow" /\ routeTx = TxOf(This, TRUE)
        /\ This \in claims /\ Proposed[This] = 1
    BY RoutingIs DEF EventInv, PlaceFits, ClearsProposal, AtStep, This
  <2>2. Of(routeTx) = {This}
    BY <2>1, TxIs
  <2>3. RoutePlace("reclear")
    BY <2>1, RoutePlaceIs, RoutingIs
  <2> QED BY <2>1, <2>2, <2>3 DEF ClearsProposal, indexVars
<1>2. Accepted' = Accepted /\ Proposed' = Proposed
  BY <1>1, Unseen
<1>3. Journalled(routeTx', claims', Proposed) /\ Of(routeTx)' \subseteq Of(routeTx)
  BY <1>1, DropsTx, EmptyTxIs DEF RoutePlace, Of
<1>4. /\ request' \in Request /\ request'.at = "advance" /\ request'.event = This
      /\ request'.fresh = request.fresh
  BY <1>1, RoutingIs, GoesToIt DEF RoutePlace
<1>5. PlaceFits(request.at, request.event, request.fresh)'
  BY <1>1, <1>2, <1>4, RoutingIs DEF PlaceFits, RoutePlace
<1> QED BY <1>1, <1>3, <1>4, <1>5, FilingStep DEF RoutePlace

LEMMA AdvancesCursorKeeps == ASSUME EventInv, AdvancesCursor PROVE EventInv' /\ StreamStep
<1>1. /\ request \in Request /\ This \in Events /\ Accepted[This] = 1
      /\ request.fresh => workers[This] = 0
      /\ mode = "shadow" => Proposed[This] = 1
      /\ cursor \in Events \cup {0}
  BY RoutingIs DEF EventInv, EventTyped, PlaceFits, AdvancesCursor, AtStep, This
<1>2. /\ UNCHANGED <<mode, dedup, claims, inTx, routeTx, eventLog, answered, workers, troubles>>
      /\ Accepted' = Accepted /\ Proposed' = Proposed
  BY DEF AdvancesCursor, Accepted, Proposed
<1>3. PICK step : /\ step = IF mode = "active" /\ request.fresh THEN "spawn" ELSE "answer"
                  /\ step \in {"spawn", "answer"} /\ step \in Steps
  BY StepsAre, RoutingIs
<1>4. /\ request' \in Request /\ request'.at = step /\ request'.event = This
      /\ request'.fresh = request.fresh
  BY <1>1, <1>3, GoesToIt DEF AdvancesCursor
<1>5. /\ cursor' \in Events /\ cursor' >= This
      /\ cursor' = cursor \/ (cursor < This /\ cursor' = This)
  <2>1. cursor \in Nat /\ This \in Nat /\ This # 0
    BY <1>1, NumbersFit
  <2>2. cursor' = IF cursor >= This THEN cursor ELSE This
    BY DEF AdvancesCursor
  <2> QED BY <1>1, <2>1, <2>2
<1>6. EventTyped'
  BY <1>2, <1>4, <1>5 DEF EventInv, EventTyped
<1>7. JournalsFit' /\ AcceptedFirst'
  BY <1>2 DEF EventInv, JournalsFit, AcceptedFirst, Of
<1>8. PlaceFits(request.at, request.event, request.fresh)'
  BY <1>1, <1>2, <1>3, <1>4, <1>5, StepsAre, RoutingIs DEF PlaceFits
<1>9. CASE cursor' = cursor
  BY <1>2, <1>6, <1>7, <1>8, <1>9 DEF EventInv, StreamStep, Stream!streamVars
<1>10. CASE cursor < This /\ cursor' = This
  <2>1. Stream!Advance(This)
    BY <1>1, <1>2, <1>10 DEF Stream!Advance
  <2> QED BY <1>1, <1>6, <1>7, <1>8, <2>1 DEF EventInv, StreamStep, Stream!StreamNext
<1> QED BY <1>5, <1>9, <1>10

LEMMA SpawnsKeeps == ASSUME EventInv, Spawns PROVE EventInv' /\ StreamStep
<1>1. /\ request \in Request /\ This \in Events /\ Accepted[This] = 1 /\ workers[This] = 0
      /\ mode = "active" /\ cursor >= This /\ workers \in [Events -> Nat]
  BY RoutingIs DEF EventInv, EventTyped, PlaceFits, Spawns, AtStep, This
<1>2. /\ UNCHANGED <<mode, dedup, claims, cursor, inTx, routeTx, eventLog, answered, troubles>>
      /\ Accepted' = Accepted /\ Proposed' = Proposed
  BY DEF Spawns, Accepted, Proposed, indexVars
<1>3. request' \in Request /\ request'.at = "answer" /\ request'.event = This
  BY <1>1, StepsAre, GoesToIt DEF Spawns
<1>4. workers' = [workers EXCEPT ![This] = 1]
  BY <1>1 DEF Spawns
<1>5. workers' \in [Events -> Nat] /\ \A d \in Events : d # This => workers'[d] = workers[d]
  BY <1>1, <1>4
<1>6. EventTyped'
  BY <1>2, <1>3, <1>5 DEF EventInv, EventTyped
<1>7. JournalsFit'
  BY <1>2 DEF EventInv, JournalsFit, Of
<1>8. AcceptedFirst'
  BY <1>1, <1>2, <1>5 DEF EventInv, AcceptedFirst
<1>9. PlaceFits(request.at, request.event, request.fresh)'
  BY <1>1, <1>3, StepsAre DEF PlaceFits
<1>10. Stream!Spawn(This)
  BY <1>1, <1>2, <1>4 DEF Stream!Spawn
<1> QED BY <1>1, <1>6, <1>7, <1>8, <1>9, <1>10 DEF EventInv, StreamStep, Stream!StreamNext

LEMMA EventInvNext == EventInv /\ [EventNext]_eventVars => EventInv' /\ StreamStep
<1> SUFFICES ASSUME EventInv, [EventNext]_eventVars PROVE EventInv' /\ StreamStep
  OBVIOUS
<1>1. CASE UNCHANGED eventVars
  <2>1. /\ UNCHANGED <<mode, dedup, claims, cursor, inTx, routeTx, eventLog, answered, workers, troubles>>
        /\ request' = request
    BY <1>1 DEF eventVars, indexVars
  <2>2. /\ request' \in Request /\ answered' \subseteq Events
        /\ PlaceFits(request'.at, request'.event, request'.fresh)
    BY <2>1 DEF EventInv, EventTyped
  <2> QED BY <2>1, <2>2, QuietStep
<1>2. ASSUME NEW e \in Events, Arrives(e) PROVE EventInv' /\ StreamStep
  BY <1>2, ArrivesKeeps
<1>3. CASE ComparesCursor \/ Heals \/ Judges \/ Appends \/ Indexes \/ ClearsReceipt
  BY <1>3, ComparesKeeps, HealsKeeps, JudgesKeeps, AppendsKeeps, IndexesKeeps, ClearsReceiptKeeps
<1>4. CASE Reheals \/ RoutesNot \/ ClaimsRoute \/ LogsProposal \/ IndexesProposal \/ ClearsProposal
  BY <1>4, RehealsKeeps, RoutesNotKeeps, ClaimsRouteKeeps, LogsProposalKeeps, IndexesProposalKeeps,
     ClearsProposalKeeps
<1>5. CASE AdvancesCursor \/ Spawns \/ Answers
  BY <1>5, AdvancesCursorKeeps, SpawnsKeeps, AnswersKeeps
<1>6. CASE AppendThrows \/ ProposalThrows \/ Breaks
  BY <1>6, AppendThrowsKeeps, ProposalThrowsKeeps, BreaksKeeps
<1> QED BY <1>1, <1>2, <1>3, <1>4, <1>5, <1>6 DEF EventNext, GoesOn

LEMMA EventInvAlways == EventSpec => []EventInv
<1>1. EventInit => EventInv
  BY EventInvInit
<1>2. EventInv /\ [EventNext]_eventVars => EventInv'
  BY EventInvNext
<1> QED BY <1>1, <1>2, PTL DEF EventSpec

LEMMA EventInvTyped == EventInv => EventTypeOK
<1> SUFFICES ASSUME EventInv PROVE EventTypeOK
  OBVIOUS
<1>1. ASSUME NEW tx, NEW heard, NEW logged, Journalled(tx, heard, logged)
      PROVE  heard \subseteq Events /\ tx \subseteq Tx /\ Cardinality(tx) <= 1
  <2>1. CASE tx = {}
    BY <1>1, <2>1, FS_EmptySet DEF Journalled
  <2>2. CASE tx # {}
    <3>1. heard \subseteq Events /\ \E t \in Tx : tx = {t}
      BY <1>1, <2>2 DEF Journalled
    <3>2. PICK t \in Tx : tx = {t}
      BY <3>1
    <3>3. Cardinality({t}) = 1
      BY FS_Singleton
    <3> QED BY <3>1, <3>2, <3>3
  <2> QED BY <2>1, <2>2
<1>2. /\ dedup \subseteq Events /\ inTx \subseteq Tx /\ Cardinality(inTx) <= 1
      /\ claims \subseteq Events /\ routeTx \subseteq Tx /\ Cardinality(routeTx) <= 1
  BY <1>1 DEF EventInv, JournalsFit
<1>3. eventLog \in [Events -> [accepted : Nat, proposed : Nat]]
  BY DEF EventInv, EventTyped
<1>4. request \in [at : Steps, event : Events \cup {0}, fresh : BOOLEAN]
  BY DEF EventInv, EventTyped, Request
<1> QED BY <1>2, <1>3, <1>4 DEF EventInv, EventTyped, EventTypeOK

\* Journals, indices, log and the request under way keep their types: a journal
\* never holds two receipts (event-delivery.ts).
THEOREM EventsAreTyped == EventSpec => []EventTypeOK
BY EventInvTyped, EventInvAlways, PTL

\* The safety part of EventsGetThrough: wherever a write fails or the process
\* dies, and however often the provider repeats itself, every step of the webhook
\* bridge is one of EventStream or none: an event is accepted once, its route
\* proposed once and only in a shadow lane, the cursor only rises and only to what
\* is accepted and routed, and only an active lane spawns, once.
THEOREM EventsFollowStream == EventSpec => Stream!StreamInit /\ [][Stream!StreamNext]_(Stream!streamVars)
<1>1. EventInit => Stream!StreamInit
  BY EventInvInit
<1>2. EventInv /\ [EventNext]_eventVars => [Stream!StreamNext]_(Stream!streamVars)
  BY EventInvNext DEF StreamStep
<1> QED BY <1>1, <1>2, EventInvAlways, PTL DEF EventSpec
-----------------------------------------------------------------------------
(* The store lock, of the lifecycle store *)

LEMMA DirsAreNotNoDir == NoDir \notin Dirs
<1>1. 1..MaxAttempts \subseteq Nat
  BY AttemptsAssumption
<1>2. Dirs \subseteq Proc \X Nat
  BY <1>1 DEF Dirs
<1> QED BY <1>2, NoDirAssumption

\* An attempt under way has been counted, so that its directory has a name.
AttemptCounted == \A p \in Proc : pc[p] # "idle" => attempt[p] # 0

\* The liveness probe is about an identity that was read.
Observed == \A p \in Proc : pc[p] = "probe" => seen[p] \in Dirs

Typed == TypeOK /\ AttemptCounted /\ Observed

LEMMA MineType ==
  ASSUME Typed, NEW p \in Proc, pc[p] # "idle" PROVE Mine(p) \in Dirs
<1>1. attempt[p] \in 1..MaxAttempts
  BY AttemptsAssumption DEF Typed, TypeOK, AttemptCounted
<1> QED BY <1>1 DEF Mine, Dirs

LEMMA TypedInit == Init => Typed
<1> SUFFICES ASSUME Init PROVE Typed
  OBVIOUS
<1>1. "idle" \in Places /\ 0 \in 0..MaxAttempts
  BY AttemptsAssumption DEF Places
<1>2. TypeOK
  BY <1>1 DEF Init, TypeOK
<1>3. AttemptCounted /\ Observed
  BY DEF Init, AttemptCounted, Observed
<1> QED BY <1>2, <1>3 DEF Typed

\* A step of p moves p only.
LEMMA MovesOne ==
  ASSUME Typed, NEW p \in Proc, Step(p)
  PROVE  /\ pc' \in [Proc -> Places]
         /\ \A q \in Proc : q # p => pc'[q] = pc[q] /\ attempt'[q] = attempt[q]
                                     /\ handle'[q] = handle[q]
         /\ pc'[p] # "idle" => attempt'[p] # 0
         /\ ~Exists(p) => attempt' = attempt
<1> USE DEF Typed, TypeOK, AttemptCounted, GoTo, GiveUp
<1>1. {"idle", "place", "read", "probe", "prestat", "confirm", "tombstone",
       "replace", "stat", "held", "check", "unlink", "rmdir"} \subseteq Places
  BY DEF Places, Reclaiming, Owning
<1>2. CASE Exists(p)
  <2>1. attempt[p] \in Nat
    BY AttemptsAssumption
  <2> QED BY <1>1, <1>2, <2>1 DEF Exists
<1>3. CASE Place(p) \/ Replace(p)
  BY <1>1, <1>3 DEF Place, Replace, RenameOnto
<1>4. CASE Stat(p)
  BY <1>1, <1>4 DEF Stat
<1>5. CASE Read(p) \/ Probe(p)
  BY <1>1, <1>5 DEF Read, Probe
<1>6. CASE PreStat(p) \/ Confirm(p) \/ Tombstone(p)
  BY <1>1, <1>6 DEF PreStat, Confirm, Tombstone
<1>7. CASE Release(p) \/ Check(p) \/ Unlink(p) \/ Rmdir(p)
  BY <1>1, <1>7 DEF Release, Check, Unlink, Rmdir
<1> QED BY <1>2, <1>3, <1>4, <1>5, <1>6, <1>7 DEF Step

LEMMA TypedNext == Typed /\ [Next]_vars => Typed'
<1> SUFFICES ASSUME Typed, [Next]_vars PROVE Typed'
  OBVIOUS
<1>1. ASSUME NEW p \in alive, Step(p), UNCHANGED alive PROVE Typed'
  <2>1. p \in Proc
    BY DEF Typed, TypeOK
  <2>2. pc' \in [Proc -> Places] /\ AttemptCounted'
    BY <1>1, <2>1, MovesOne DEF Typed, AttemptCounted
  <2>3. attempt' \in [Proc -> 0..MaxAttempts]
    <3>1. CASE Exists(p)
      <4>1. attempt[p] + 1 \in 0..MaxAttempts
        BY <2>1, <3>1, AttemptsAssumption DEF Exists, Typed, TypeOK
      <4> QED BY <3>1, <4>1 DEF Exists, Typed, TypeOK
    <3>2. CASE ~Exists(p)
      BY <1>1, <2>1, <3>2, MovesOne DEF Typed, TypeOK
    <3> QED BY <3>1, <3>2
  <2>4. /\ slot' \in Dirs \cup {NoDir} /\ intact' \in BOOLEAN
        /\ seen' \in [Proc -> Dirs \cup {NoDir}]
        /\ handle' \in [Proc -> Dirs \cup {NoDir}]
    <3> USE DEF Typed, TypeOK, GiveUp
    <3>1. CASE Place(p) \/ Replace(p)
      <4>1. Mine(p) \in Dirs
        BY <2>1, <3>1, MineType DEF Place, Replace
      <4> QED BY <3>1, <4>1 DEF Place, Replace, RenameOnto
    <3>2. CASE Read(p) \/ PreStat(p)
      BY <3>2 DEF Read, PreStat
    <3>3. CASE Stat(p)
      BY <3>3 DEF Stat
    <3>4. CASE Exists(p) \/ Probe(p) \/ Confirm(p) \/ Tombstone(p)
      BY <3>4 DEF Exists, Probe, Confirm, Tombstone
    <3>5. CASE Release(p) \/ Check(p) \/ Unlink(p) \/ Rmdir(p)
      BY <3>5 DEF Release, Check, Unlink, Rmdir
    <3> QED BY <1>1, <3>1, <3>2, <3>3, <3>4, <3>5 DEF Step
  <2>5. Observed'
    <3> USE DEF Typed, TypeOK, Observed, GiveUp, GoTo
    <3>1. CASE Read(p)
      <4>1. pc'[p] = "probe" => seen'[p] \in Dirs
        BY <2>1, <3>1 DEF Read, Free
      <4>2. \A q \in Proc : q # p => pc'[q] = pc[q] /\ seen'[q] = seen[q]
        BY <2>1, <3>1 DEF Read
      <4> QED BY <4>1, <4>2
    <3>2. CASE Exists(p) \/ Stat(p) \/ Probe(p) \/ Confirm(p) \/ Tombstone(p)
      BY <2>1, <3>2 DEF Exists, Stat, Probe, Confirm, Tombstone
    <3>3. CASE PreStat(p)
      BY <2>1, <3>3 DEF PreStat
    <3>4. CASE Release(p) \/ Check(p) \/ Unlink(p) \/ Rmdir(p)
      BY <2>1, <3>4 DEF Release, Check, Unlink, Rmdir
    <3>5. CASE Place(p) \/ Replace(p)
      BY <2>1, <3>5 DEF Place, Replace, RenameOnto
    <3> QED BY <1>1, <3>1, <3>2, <3>3, <3>4, <3>5 DEF Step
  <2> QED BY <1>1, <2>2, <2>3, <2>4, <2>5 DEF Typed, TypeOK
<1>2. ASSUME NEW p \in alive, Crash(p) PROVE Typed'
  BY <1>2 DEF Crash, Typed, TypeOK, AttemptCounted, Observed
<1>3. CASE UNCHANGED vars
  BY <1>3 DEF vars, Typed, TypeOK, AttemptCounted, Observed
<1> QED BY <1>1, <1>2, <1>3 DEF Next

\* The slot is empty or holds a directory that some attempt made, and every
\* process is where acquireStoreLock or releaseStoreLock can be.
THEOREM TypeCorrect == Spec => []TypeOK
<1>1. Typed => TypeOK
  BY DEF Typed
<1> QED BY <1>1, TypedInit, TypedNext, PTL DEF Spec

-----------------------------------------------------------------------------
(* Exclusion *)

\* A reclaim has got past the probe only if its holder is dead.
ReclaimNeedsDeath ==
  \A p \in alive : pc[p] \in {"prestat", "confirm", "tombstone"} => alive # Proc

LInv == Typed /\ LiveLockIsKept /\ ReclaimNeedsDeath

LEMMA LInvStep ==
  ASSUME LInv, SoleSurvivor, NEW p \in alive, Step(p), UNCHANGED alive
  PROVE  LiveLockIsKept' /\ ReclaimNeedsDeath'
<1> USE DEF LInv
<1>1. alive \subseteq Proc /\ p \in Proc /\ pc \in [Proc -> Places]
  BY DEF Typed, TypeOK
<1>2. /\ pc' \in [Proc -> Places]
      /\ \A q \in Proc : q # p => pc'[q] = pc[q] /\ attempt'[q] = attempt[q]
      /\ ~Exists(p) => attempt' = attempt
  BY <1>1, MovesOne
<1>3. \A q \in alive : q # p => Mine(q)' = Mine(q)
  BY <1>1, <1>2 DEF Mine
<1>4. \A q \in alive : q # p => Mine(q) # Mine(p)
  BY DEF Mine
<1>5. ReclaimNeedsDeath'
  <2>1. ASSUME pc'[p] \in {"prestat", "confirm", "tombstone"}
        PROVE  alive # Proc
    <3>1. CASE Probe(p)
      <4>1. Maker(seen[p]) \notin alive
        BY <1>1, <2>1, <3>1 DEF Probe, GiveUp, GoTo
      <4>2. pc[p] = "probe"
        BY <3>1 DEF Probe
      <4>3. Maker(seen[p]) \in Proc
        BY <1>1, <4>2 DEF Typed, Observed, Dirs, Maker
      <4> QED BY <4>1, <4>3
    <3>2. CASE PreStat(p) \/ Confirm(p) \/ Tombstone(p)
      BY <3>2 DEF PreStat, Confirm, Tombstone, ReclaimNeedsDeath
    <3>3. CASE Exists(p) \/ Place(p) \/ Stat(p) \/ Read(p) \/ Replace(p)
      BY <1>1, <2>1, <3>3 DEF Exists, Place, Stat, Read, Replace, RenameOnto, GiveUp, GoTo
    <3>4. CASE Release(p) \/ Check(p) \/ Unlink(p) \/ Rmdir(p)
      BY <1>1, <2>1, <3>4 DEF Release, Check, Unlink, Rmdir, GiveUp, GoTo
    <3> QED BY <3>1, <3>2, <3>3, <3>4 DEF Step
  <2> QED BY <1>1, <1>2, <2>1 DEF ReclaimNeedsDeath
<1>6. ASSUME \A q \in alive : q # p => pc[q] \notin Owning,
             pc'[p] \in Owning => slot' = Mine(p)' /\ intact'
      PROVE  LiveLockIsKept'
  BY <1>1, <1>2, <1>6 DEF LiveLockIsKept
<1>7. ASSUME slot' = slot, intact' = intact, Mine(p)' = Mine(p),
             pc'[p] \in Owning => pc[p] \in Owning
      PROVE  LiveLockIsKept'
  BY <1>1, <1>2, <1>3, <1>7 DEF LiveLockIsKept
<1>8. LiveLockIsKept'
  <2>1. CASE Exists(p)
    <3>1. slot' = slot /\ intact' = intact /\ pc'[p] \notin Owning
      BY <1>1, <2>1 DEF Exists, GoTo, Owning
    <3> QED BY <1>1, <1>2, <1>3, <3>1 DEF LiveLockIsKept
  <2>2. CASE Place(p) \/ Replace(p)
    <3>1. Mine(p)' = Mine(p)
      BY <2>2 DEF Place, Replace, Mine
    <3>2. CASE Free
      <4>1. \A q \in alive : pc[q] \notin Owning
        <5>1. slot \in Dirs \/ slot = NoDir
          BY DEF Typed, TypeOK
        <5>2. \A q \in alive : pc[q] \in Owning => slot = Mine(q) /\ intact
          BY DEF LiveLockIsKept
        <5>3. \A q \in alive : pc[q] \in Owning => Mine(q) \in Dirs
          BY <1>1, MineType DEF Owning
        <5> QED BY <3>2, <5>2, <5>3, DirsAreNotNoDir DEF Free
      <4>2. slot' = Mine(p) /\ intact'
        BY <2>2, <3>2 DEF Place, Replace, RenameOnto
      <4> QED BY <1>6, <3>1, <4>1, <4>2
    <3>3. CASE ~Free
      <4>1. slot' = slot /\ intact' = intact /\ pc'[p] \notin Owning
        BY <1>1, <2>2, <3>3 DEF Place, Replace, RenameOnto, GoTo, Owning
      <4> QED BY <1>7, <3>1, <4>1
    <3> QED BY <3>2, <3>3
  <2>3. CASE Stat(p) \/ Release(p) \/ Check(p)
    <3>1. pc[p] \in Owning /\ slot' = slot /\ intact' = intact /\ Mine(p)' = Mine(p)
      BY <2>3 DEF Stat, Release, Check, GiveUp, Owning, Mine
    <3> QED BY <1>7, <3>1
  <2>4. CASE Read(p) \/ Probe(p)
    <3>1. slot' = slot /\ intact' = intact /\ Mine(p)' = Mine(p) /\ pc'[p] \notin Owning
      BY <1>1, <2>4 DEF Read, Probe, GiveUp, GoTo, Owning, Mine
    <3> QED BY <1>7, <3>1
  <2>5. CASE PreStat(p) \/ Confirm(p)
    <3>1. slot' = slot /\ intact' = intact /\ Mine(p)' = Mine(p) /\ pc'[p] \notin Owning
      BY <1>1, <2>5 DEF PreStat, Confirm, GiveUp, GoTo, Owning, Mine
    <3> QED BY <1>7, <3>1
  <2>6. CASE Tombstone(p)
    <3>1. \A q \in alive : q = p
      BY <2>6 DEF Tombstone, ReclaimNeedsDeath, SoleSurvivor
    <3>2. pc'[p] \notin Owning
      BY <1>1, <2>6 DEF Tombstone, GiveUp, GoTo, Owning
    <3> QED BY <1>6, <3>1, <3>2
  <2>7. CASE Unlink(p)
    <3>1. pc[p] \in Owning /\ pc'[p] \notin Owning
      BY <1>1, <2>7 DEF Unlink, GoTo, Owning
    <3>2. \A q \in alive : q # p => pc[q] \notin Owning
      BY <1>4, <3>1 DEF LiveLockIsKept
    <3> QED BY <1>6, <3>1, <3>2
  <2>8. CASE Rmdir(p)
    <3>1. pc'[p] \notin Owning /\ Mine(p)' = Mine(p) /\ intact' = intact
      BY <1>1, <2>8 DEF Rmdir, GoTo, Owning, Mine
    <3>2. CASE slot' = slot
      BY <1>7, <3>1, <3>2
    <3>3. CASE Free
      <4>1. \A q \in alive : pc[q] \in Owning => Mine(q) \in Dirs
        BY <1>1, MineType DEF Owning
      <4>2. \A q \in alive : pc[q] \notin Owning
        BY <3>3, <4>1, DirsAreNotNoDir DEF LiveLockIsKept, Free
      <4> QED BY <1>6, <3>1, <4>2
    <3> QED BY <2>8, <3>2, <3>3 DEF Rmdir
  <2> QED BY <2>1, <2>2, <2>3, <2>4, <2>5, <2>6, <2>7, <2>8 DEF Step
<1> QED BY <1>5, <1>8

LEMMA LInvInit == Init => LInv
<1> SUFFICES ASSUME Init PROVE LInv
  OBVIOUS
<1>1. \A p \in alive : pc[p] = "idle"
  BY DEF Init
<1>2. "idle" \notin Owning
  BY DEF Owning
<1>3. Typed
  BY TypedInit
<1>4. LiveLockIsKept
  BY <1>1, <1>2 DEF LiveLockIsKept
<1>5. ReclaimNeedsDeath
  BY <1>1 DEF ReclaimNeedsDeath
<1> QED BY <1>3, <1>4, <1>5 DEF LInv

LEMMA LInvNext == LInv /\ SoleSurvivor /\ [Next]_vars => LInv'
<1> SUFFICES ASSUME LInv, SoleSurvivor, [Next]_vars PROVE LInv'
  OBVIOUS
<1>1. Typed'
  BY TypedNext DEF LInv
<1>2. ASSUME NEW p \in alive, Step(p), UNCHANGED alive
      PROVE  LiveLockIsKept' /\ ReclaimNeedsDeath'
  BY <1>2, LInvStep
<1>3. ASSUME NEW p \in alive, Crash(p)
      PROVE  LiveLockIsKept' /\ ReclaimNeedsDeath'
  <2>1. alive' \subseteq alive /\ alive' # Proc
    BY <1>3, CrashAssumption DEF Crash
  <2> QED BY <1>3, <2>1 DEF Crash, LInv, LiveLockIsKept, ReclaimNeedsDeath, Mine
<1>4. CASE UNCHANGED vars
  <2>1. LiveLockIsKept'
    BY <1>4 DEF vars, LInv, LiveLockIsKept, Mine
  <2>2. ReclaimNeedsDeath'
    BY <1>4 DEF vars, LInv, ReclaimNeedsDeath
  <2> QED BY <1>1, <2>1, <2>2 DEF LInv
<1> QED BY <1>1, <1>2, <1>3, <1>4 DEF Next, LInv

LEMMA LInvAlways == Spec /\ []SoleSurvivor => []LInv
  BY LInvInit, LInvNext, PTL DEF Spec

\* The slot of a live process is nobody else's to replace, to rename aside or to
\* empty, with any number of contenders, unless two are left after a death.
THEOREM LiveLockIsKeptAlways == Spec /\ []SoleSurvivor => []LiveLockIsKept
<1>1. LInv => LiveLockIsKept
  BY DEF LInv
<1> QED BY <1>1, LInvAlways, PTL

\* withStoreLock excludes: under the same condition no two live processes are ever
\* inside together.
THEOREM MutualExclusionAlways == Spec /\ []SoleSurvivor => []MutualExclusion
<1>1. LInv => MutualExclusion
  BY DEF LInv, LiveLockIsKept, MutualExclusion, Mine, Owning
<1> QED BY <1>1, LInvAlways, PTL
-----------------------------------------------------------------------------
(* All parts in one specification *)

\* The inbox and the task share the lock, of which each behaviour uses one.
BusInv ==
  /\ LockInv /\ BoxTyped /\ FileTyped
  /\ part = "inbox" => MailInv
  /\ part = "task" => TaskInv
  /\ JournalInv /\ FiresInv /\ EventInv /\ Typed

LEMMA BusInvInit == BusInit => BusInv
<1> SUFFICES ASSUME BusInit PROVE BusInv
  OBVIOUS
<1>1. MailInv /\ TaskInv
  BY MailInvInit, TaskInvInit DEF BusInit
<1>2. JournalInv /\ FiresInv
  BY JournalInvInit, ScheduleInvInit, StrictInit DEF BusInit, FiresInv
<1>3. EventInv /\ Typed
  BY EventInvInit, TypedInit DEF BusInit
<1> QED BY <1>1, <1>2, <1>3 DEF BusInv, MailInv, TaskInv

\* What a step of one part leaves alone keeps what is said of it.
LEMMA BoxFrame == BoxTyped /\ UNCHANGED mailVars => BoxTyped'
BY DEF BoxTyped, mailVars

LEMMA FileFrame == FileTyped /\ UNCHANGED taskVars => FileTyped'
BY DEF FileTyped, taskVars

LEMMA BusInvNext == BusInv /\ [BusNext]_bus => BusInv'
<1> SUFFICES ASSUME BusInv, [BusNext]_bus PROVE BusInv'
  OBVIOUS
<1>1. /\ [JournalNext]_journalVars /\ [CronNext]_cronVars /\ [EventNext]_eventVars /\ [Next]_vars
      /\ part' = part
  BY DEF BusNext, bus
<1>2. JournalInv' /\ FiresInv' /\ EventInv' /\ Typed'
  BY <1>1, JournalInvNext, FiresInvStep, EventInvNext, TypedNext DEF BusInv
<1>3. CASE part = "inbox"
  <2>1. [MailNext]_mailboxVars /\ UNCHANGED taskVars
    BY <1>3 DEF BusNext, bus, mailboxVars
  <2>2. MailInv'
    BY <1>3, <2>1, MailInvNext DEF BusInv
  <2>3. FileTyped'
    BY <2>1, FileFrame DEF BusInv
  <2> QED BY <1>1, <1>2, <1>3, <2>2, <2>3 DEF BusInv, MailInv
<1>4. CASE part = "task"
  <2>1. [TaskNext]_allVars /\ UNCHANGED mailVars
    BY <1>4 DEF BusNext, bus, allVars
  <2>2. TaskInv'
    BY <1>4, <2>1, TaskInvNext DEF BusInv
  <2>3. BoxTyped'
    BY <2>1, BoxFrame DEF BusInv
  <2> QED BY <1>1, <1>2, <1>4, <2>2, <2>3 DEF BusInv, TaskInv
<1>5. CASE part \notin {"inbox", "task"}
  <2>1. UNCHANGED <<lockVars, mailVars, taskVars>>
    BY <1>5 DEF BusNext, bus
  <2>2. LockInv'
    BY <2>1, LockInvNext DEF BusInv
  <2>3. BoxTyped' /\ FileTyped'
    BY <2>1, BoxFrame, FileFrame DEF BusInv
  <2> QED BY <1>1, <1>2, <1>5, <2>2, <2>3 DEF BusInv
<1> QED BY <1>3, <1>4, <1>5

\* In the specification the runs check, each part keeps its types next to the
\* others, for any number of actors, letters, organisations, runs, crons, events
\* and holders of the store lock.
THEOREM BusKeepsItsTypes == BusSpec => []BusTypeOK
<1>1. ASSUME BusInv PROVE BusTypeOK
  <2>1. MailTypeOK /\ TaskTypeOK
    BY <1>1 DEF BusInv, LockInv, BoxTyped, FileTyped, MailTypeOK, TaskTypeOK
  <2>2. JournalTypeOK /\ CronTypeOK
    BY <1>1, JournalInvTyped DEF BusInv, FiresInv, ScheduleInv
  <2>3. EventTypeOK /\ TypeOK
    BY <1>1, EventInvTyped DEF BusInv, Typed
  <2> QED BY <2>1, <2>2, <2>3 DEF BusTypeOK
<1> QED BY <1>1, BusInvInit, BusInvNext, PTL DEF BusSpec
=============================================================================
