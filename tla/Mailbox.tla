------------------------------ MODULE Mailbox -------------------------------
(***************************************************************************)
(* The inbox of one agent (src/src/bus/message.ts): letters are files that *)
(* move between the directories inbox, inflight, processed and .errors.    *)
(* sendMessage writes without the lock; checkInbox and ackInbox work under *)
(* the lock of FileLock, called by the daemon and by command line          *)
(* processes, any of which may die between two renames.                    *)
(***************************************************************************)
EXTENDS FileLock

CONSTANTS
  Letters,
  Forged,       \* letters that do not parse or whose signature is wrong
  Daemon        \* the actor that checks the inbox for ever

ASSUME MailAssumption == Forged \subseteq Letters /\ Daemon \in Actors

VARIABLES
  place,        \* the directory of each letter
  old,          \* letters whose file was written more than 300 s ago
  owed,         \* letters an agent was given and has not acknowledged since
  told,         \* history: letters an agent was ever given
  job           \* the call each actor makes

mailVars == <<place, old, owed, told, job>>

Directories == {"unsent", "inbox", "inflight", "processed", "errors"}
\* todo: the files of a listing that are still to be visited; got: what
\* checkInbox will return, or the letter to acknowledge; gone: a letter that
\* was listed and could not be read, to be moved to .errors.
Job == [call : {"none", "check", "ack"}, stage : {"start", "recover", "take", "end"},
        todo : SUBSET Letters, got : SUBSET Letters, gone : SUBSET Letters]
NoJob == [call |-> "none", stage |-> "start", todo |-> {}, got |-> {}, gone |-> {}]

In(directory) == {m \in Letters : place[m] = directory}

MailTypeOK ==
  /\ LockTypeOK
  /\ place \in [Letters -> Directories]
  /\ old \subseteq Letters /\ owed \subseteq Letters /\ told \subseteq Letters
  /\ job \in [Actors -> Job]

MailInit ==
  /\ LockInit
  /\ place = [m \in Letters |-> "unsent"]
  /\ old = {} /\ owed = {} /\ told = {}
  /\ job = [a \in Actors |-> NoJob]

-----------------------------------------------------------------------------
Moved(m, directory) == place' = [place EXCEPT ![m] = directory]
Set(a, j) == job' = [job EXCEPT ![a] = j]
InCall(a, call, stage) == at[a] = "inside" /\ job[a].call = call /\ job[a].stage = stage

\* sendMessage: an atomic write into the inbox.
Send(m) ==
  /\ place[m] = "unsent"
  /\ Moved(m, "inbox")
  /\ UNCHANGED <<lockVars, old, owed, told, job>>

\* Time passes.  A rename keeps a file's mtime, so the age is the letter's.
Ages(m) ==
  /\ place[m] \in {"inbox", "inflight"} /\ m \notin old
  /\ old' = old \cup {m}
  /\ UNCHANGED <<lockVars, place, owed, told, job>>

CheckBegins(a) ==
  /\ Begins(a) /\ Set(a, [NoJob EXCEPT !.call = "check"])
  /\ UNCHANGED <<place, old, owed, told>>

\* Mutant: an acknowledgement does not wait for the lock.
AckBeginsInside(a, m) ==
  /\ m \in owed /\ owed' = owed \ {m}
  /\ at[a] = "away" /\ Goes(a, "inside") /\ UNCHANGED <<lock, owner>>
  /\ Set(a, [NoJob EXCEPT !.call = "ack", !.got = {m}])
  /\ UNCHANGED <<place, old, told>>

\* An agent acknowledges a letter it was given.
AckBegins(a, m) ==
  /\ m \in owed /\ owed' = owed \ {m}
  /\ Begins(a) /\ Set(a, [NoJob EXCEPT !.call = "ack", !.got = {m}])
  /\ UNCHANGED <<place, old, told>>

\* A step on the way to the lock; a call that is refused ends.
MailLocks(a) ==
  /\ Acquires(a) \/ GivesUp(a)
  /\ Set(a, IF at'[a] = "away" THEN NoJob ELSE job[a])
  /\ UNCHANGED <<place, old, owed, told>>

\* recoverStaleInflight lists the files in flight ...
ListsInflight(a) ==
  /\ InCall(a, "check", "start")
  /\ Set(a, [job[a] EXCEPT !.stage = "recover", !.todo = In("inflight")])
  /\ UNCHANGED <<lockVars, place, old, owed, told>>

\* ... and puts the old ones back.
Recovers(a, m) ==
  /\ InCall(a, "check", "recover") /\ m \in job[a].todo
  /\ Moved(m, IF place[m] = "inflight" /\ m \in old THEN "inbox" ELSE place[m])
  /\ Set(a, [job[a] EXCEPT !.todo = @ \ {m}])
  /\ UNCHANGED <<lockVars, old, owed, told>>

ListsInbox(a) ==
  /\ InCall(a, "check", "recover") /\ job[a].todo = {}
  /\ Set(a, [job[a] EXCEPT !.stage = "take", !.todo = In("inbox")])
  /\ UNCHANGED <<lockVars, place, old, owed, told>>

\* A letter of the listing is read, checked and moved.
Takes(a, m) ==
  /\ InCall(a, "check", "take") /\ m \in job[a].todo /\ job[a].gone = {}
  /\ LET rest == [job[a] EXCEPT !.todo = @ \ {m}]
     IN CASE place[m] # "inbox" -> Set(a, [rest EXCEPT !.gone = {m}]) /\ UNCHANGED place
          [] place[m] = "inbox" /\ m \in Forged -> Set(a, rest) /\ Moved(m, "errors")
          [] place[m] = "inbox" /\ m \notin Forged ->
               Set(a, [rest EXCEPT !.got = @ \cup {m}]) /\ Moved(m, "inflight")
  /\ UNCHANGED <<lockVars, old, owed, told>>

\* A letter that could not be read is moved to .errors, if it is there.
Discards(a, m) ==
  /\ InCall(a, "check", "take") /\ m \in job[a].gone
  /\ Moved(m, IF place[m] = "inbox" THEN "errors" ELSE place[m])
  /\ Set(a, [job[a] EXCEPT !.gone = {}])
  /\ UNCHANGED <<lockVars, old, owed, told>>

\* checkInbox releases the lock and returns.
CheckReturns(a) ==
  /\ InCall(a, "check", "take") /\ job[a].todo = {} /\ job[a].gone = {}
  /\ Releases(a) /\ Set(a, NoJob)
  /\ told' = told \cup job[a].got /\ owed' = owed \cup job[a].got
  /\ UNCHANGED <<place, old>>

\* ackInbox: a letter that is not in flight is left where it is.
Acks(a, m) ==
  /\ InCall(a, "ack", "start") /\ m \in job[a].got
  /\ Moved(m, IF place[m] = "inflight" THEN "processed" ELSE place[m])
  /\ Set(a, [job[a] EXCEPT !.stage = "end"])
  /\ UNCHANGED <<lockVars, old, owed, told>>

AckReturns(a) ==
  /\ InCall(a, "ack", "end")
  /\ Releases(a) /\ Set(a, NoJob)
  /\ UNCHANGED <<place, old, owed, told>>

ActorDies(a) ==
  /\ Dies(a) /\ Set(a, NoJob)
  /\ UNCHANGED <<place, old, owed, told>>

\* What an actor does once it has begun a call.
MailGoesOn(a) ==
  \/ MailLocks(a) \/ ListsInflight(a) \/ ListsInbox(a) \/ CheckReturns(a) \/ AckReturns(a)
  \/ \E m \in Letters : Recovers(a, m) \/ Takes(a, m) \/ Discards(a, m) \/ Acks(a, m)

MailNext ==
  \/ \E m \in Letters : Send(m) \/ Ages(m) \/ \E a \in Actors : AckBegins(a, m)
  \/ \E a \in Actors : CheckBegins(a) \/ MailGoesOn(a) \/ ActorDies(a)

\* A call goes on, the daemon checks the inbox again and again, and time passes.
MailFairness ==
  /\ \A m \in Letters : WF_<<lockVars, mailVars>>(Ages(m))
  /\ \A a \in Actors : WF_<<lockVars, mailVars>>(MailGoesOn(a))
  /\ WF_<<lockVars, mailVars>>(CheckBegins(Daemon))

MailSpec == MailInit /\ [][MailNext]_<<lockVars, mailVars>> /\ MailFairness

-----------------------------------------------------------------------------
(* Properties *)

\* As long as the lock is exclusive, what a check is about to return is in
\* flight: not acknowledged by another process meanwhile, and not put back.
ReturnedIsInFlight ==
  rivals \/ \A a \in Actors :
              job[a].call = "check" => \A m \in job[a].got : place[m] = "inflight"

\* A good letter that was sent is given to the agent, unless a process died
\* between the mkdir of the lock and the writing of its pid.
LettersServed ==
  \A m \in Letters \ Forged : place[m] = "inbox" ~> m \in told \/ Orphaned
=============================================================================
