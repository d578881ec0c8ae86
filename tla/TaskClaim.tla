----------------------------- MODULE TaskClaim ------------------------------
(***************************************************************************)
(* One task shared by agents (src/src/bus/task.ts): claimTask, updateTask, *)
(* completeTask, cancelTask and reclaimOrphanTasks, called by processes of *)
(* several organisations under the lock of the task's directory.  A claim  *)
(* is two writes: the claim file, which is in the directory of the         *)
(* caller's organisation and is never removed again, and the task file.    *)
(***************************************************************************)
EXTENDS FileLock

CONSTANTS
  Orgs,
  Nobody        \* no claim file; not an actor

ASSUME TaskAssumption == Nobody \notin Actors

VARIABLES
  home,         \* the organisation of each agent; never changes
  status,       \* the status in the task file; completed and cancelled are one
  claim,        \* the claim file of each organisation
  won,          \* history: agents whose claimTask returned the task
  edit          \* the call each actor makes

taskVars == <<home, status, claim, won, edit>>

Statuses == {"pending", "in_progress", "closed"}
Calls == {"none", "claim", "update", "close", "reclaim"}
\* set: the status to write.
Edit == [call : Calls, stage : {"read", "claim", "write", "undo", "end"},
         set : Statuses]
NoEdit == [call |-> "none", stage |-> "read", set |-> "pending"]

TaskTypeOK ==
  /\ LockTypeOK
  /\ home \in [Actors -> Orgs]
  /\ status \in Statuses
  /\ claim \in [Orgs -> Actors \cup {Nobody}]
  /\ won \subseteq Actors
  /\ edit \in [Actors -> Edit]

\* createTask has filed the task.
TaskInit ==
  /\ LockInit
  /\ home \in [Actors -> Orgs]
  /\ status = "pending"
  /\ claim = [o \in Orgs |-> Nobody]
  /\ won = {}
  /\ edit = [a \in Actors |-> NoEdit]

-----------------------------------------------------------------------------
At(a, stage) == at[a] = "inside" /\ edit[a].stage = stage
Sets(a, e) == edit' = [edit EXCEPT ![a] = e]
Stage(a, stage) == Sets(a, [edit[a] EXCEPT !.stage = stage])
Ends(a) == Sets(a, [NoEdit EXCEPT !.stage = "end"])
HomeClaim(a) == claim[home[a]]

EditBegins(a, call, s) ==
  /\ Begins(a) /\ Sets(a, [NoEdit EXCEPT !.call = call, !.set = s])
  /\ UNCHANGED <<home, status, claim, won>>

CallOf(a) ==
  \/ EditBegins(a, "claim", "in_progress")
  \/ \E s \in Statuses : EditBegins(a, "update", s)
  \/ EditBegins(a, "close", "closed")
  \/ EditBegins(a, "reclaim", "pending")

TaskLocks(a) ==
  /\ Acquires(a) \/ GivesUp(a)
  /\ Sets(a, IF at'[a] = "away" THEN NoEdit ELSE edit[a])
  /\ UNCHANGED <<home, status, claim, won>>

\* Mutant: the task is read before the lock is asked for.
ReadsEarly(a) ==
  /\ at[a] \in {"trying", "inside"} /\ edit[a].call # "none" /\ edit[a].stage = "read"
  /\ CASE edit[a].call \in {"update", "close"} ->
            Stage(a, "write") /\ UNCHANGED won
       [] edit[a].call = "reclaim" /\ status # "closed" ->
            Sets(a, [edit[a] EXCEPT !.stage = "write", !.set = status]) /\ UNCHANGED won
       [] edit[a].call = "claim" /\ HomeClaim(a) = Nobody /\ status = "pending" ->
            Stage(a, "claim") /\ UNCHANGED won
       [] edit[a].call = "claim" /\ HomeClaim(a) = a -> Ends(a) /\ won' = won \cup {a}
       [] OTHER -> Ends(a) /\ UNCHANGED won
  /\ UNCHANGED <<lockVars, home, status, claim>>

\* The task is read under the lock.  A claim of one's own is a success, another
\* agent's or a task that is not pending a failure; the sweep passes over a
\* closed task and leaves the status of an open one, which it gives away.
Reads(a) ==
  /\ At(a, "read")
  /\ CASE edit[a].call \in {"update", "close"} ->
            Stage(a, "write") /\ UNCHANGED won
       [] edit[a].call = "reclaim" /\ status # "closed" ->
            Sets(a, [edit[a] EXCEPT !.stage = "write", !.set = status]) /\ UNCHANGED won
       [] edit[a].call = "claim" /\ HomeClaim(a) = Nobody /\ status = "pending" ->
            Stage(a, "claim") /\ UNCHANGED won
       [] edit[a].call = "claim" /\ HomeClaim(a) = a -> Ends(a) /\ won' = won \cup {a}
       [] OTHER -> Ends(a) /\ UNCHANGED won
  /\ UNCHANGED <<lockVars, home, status, claim>>

\* Mutant: the claim file is written whether or not it is there.
ClaimsAnyway(a) ==
  /\ At(a, "claim")
  /\ claim' = [claim EXCEPT ![home[a]] = a]
  /\ Stage(a, "write") /\ UNCHANGED won
  /\ UNCHANGED <<lockVars, home, status>>

\* The claim file is created, unless it exists by now.
Claims(a) ==
  /\ At(a, "claim")
  /\ IF HomeClaim(a) = Nobody
     THEN claim' = [claim EXCEPT ![home[a]] = a] /\ Stage(a, "write") /\ UNCHANGED won
     ELSE /\ Ends(a)
          /\ won' = IF HomeClaim(a) = a THEN won \cup {a} ELSE won
          /\ UNCHANGED claim
  /\ UNCHANGED <<lockVars, home, status>>

WritesTask(a) ==
  /\ At(a, "write")
  /\ status' = edit[a].set
  /\ won' = IF edit[a].call = "claim" THEN won \cup {a} ELSE won
  /\ Ends(a)
  /\ UNCHANGED <<lockVars, home, claim>>

\* The write fails; a claim is taken back.
WriteFails(a) ==
  /\ At(a, "write")
  /\ IF edit[a].call = "claim" THEN Stage(a, "undo") ELSE Ends(a)
  /\ UNCHANGED <<lockVars, home, status, claim, won>>

\* The unlink of the claim may fail, too.
Unclaims(a) ==
  /\ At(a, "undo")
  /\ claim' \in {claim, [claim EXCEPT ![home[a]] = Nobody]}
  /\ Ends(a)
  /\ UNCHANGED <<lockVars, home, status, won>>

EditReturns(a) ==
  /\ At(a, "end")
  /\ Releases(a) /\ Sets(a, NoEdit)
  /\ UNCHANGED <<home, status, claim, won>>

EditorDies(a) ==
  /\ Dies(a) /\ Sets(a, NoEdit)
  /\ UNCHANGED <<home, status, claim, won>>

TaskNext ==
  \E a \in Actors :
    \/ CallOf(a) \/ TaskLocks(a) \/ Reads(a) \/ Claims(a) \/ WritesTask(a)
    \/ WriteFails(a) \/ Unclaims(a) \/ EditReturns(a) \/ EditorDies(a)

TaskSpec == TaskInit /\ [][TaskNext]_<<lockVars, taskVars>>

-----------------------------------------------------------------------------
(* Properties *)

\* Of the agents of one organisation only one is ever told that the task is
\* its own, even when two processes are under the lock at once, when one dies
\* between the two writes, and when the task is set back or given away.
OneClaimant == \A a, b \in won : home[a] = home[b] => a = b

\* As long as the lock is exclusive, a closed task is opened again by
\* updateTask alone: no claim and no sweep writes back an older state.
ClosedStaysClosed ==
  [][~rivals /\ status = "closed" /\ status' # "closed"
       => \E a \in Inside : edit[a].call = "update"]_<<lockVars, taskVars>>
=============================================================================
