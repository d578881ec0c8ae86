------------------------------ MODULE FileLock ------------------------------
(***************************************************************************)
(* The mkdir lock of the bus (src/src/utils/lock.ts): a directory .lock.d  *)
(* with the holder's pid in a file.  It guards inboxes, tasks, crons and   *)
(* receipts, and is taken by the daemon and by every command line call.    *)
(*                                                                         *)
(* One action for each system call that changes the directory.  A refused  *)
(* attempt only reads, and the holder of a lock works under it in one of   *)
(* the modules that extend this one.  A process that dies is succeeded by  *)
(* one with a new pid; pids are not reused.                                *)
(***************************************************************************)
EXTENDS Naturals, FiniteSets

CONSTANTS
  Actors,       \* who takes the lock: one running process at a time for each
  MaxDeaths     \* bound: how often a process dies

ASSUME LockAssumption == IsFiniteSet(Actors) /\ MaxDeaths \in Nat

VARIABLES
  lock,         \* the directory: absent ("free"), without a pid ("bare"), with
                \* the pid of a running ("owned") or a dead ("stale") process
  owner,        \* whose pid was written last
  at,           \* how far each actor is in acquireLock
  deaths,
  rivals        \* history: two actors were about to remove one stale lock

lockVars == <<lock, owner, at, deaths, rivals>>

LockPlaces ==
  {"away", "trying",
   "making",     \* behind mkdir, before the pid is written
   "robbing",    \* has read the pid of a dead process, before rm
   "clearing",   \* behind that rm, before mkdir
   "remaking",   \* behind that mkdir, before the pid is written
   "inside"}

LockTypeOK ==
  /\ lock \in {"free", "bare", "owned", "stale"}
  /\ owner \in Actors
  /\ at \in [Actors -> LockPlaces]
  /\ deaths \in 0..MaxDeaths /\ rivals \in BOOLEAN

LockInit ==
  /\ lock = "free" /\ owner \in Actors
  /\ at = [a \in Actors |-> "away"]
  /\ deaths = 0 /\ rivals = FALSE

-----------------------------------------------------------------------------
Goes(a, place) == at' = [at EXCEPT ![a] = place] /\ UNCHANGED <<deaths, rivals>>

Begins(a) ==
  /\ at[a] = "away"
  /\ Goes(a, "trying")
  /\ UNCHANGED <<lock, owner>>

\* mkdir of an absent directory.
Makes(a) ==
  /\ at[a] = "trying" /\ lock = "free"
  /\ lock' = "bare" /\ Goes(a, "making")
  /\ UNCHANGED owner

\* The pid is a running process's, or is not there yet: the caller gives up, at
\* once or after its timeout.  Until then it tries again, which changes nothing.
GivesUp(a) ==
  /\ at[a] = "trying" /\ lock \in {"bare", "owned"}
  /\ Goes(a, "away")
  /\ UNCHANGED <<lock, owner>>

\* Mutant: a lock without a pid is taken for a stale one.
FindsStaleOrBare(a) ==
  /\ at[a] = "trying" /\ lock \in {"stale", "bare"}
  /\ at' = [at EXCEPT ![a] = "robbing"]
  /\ rivals' = (rivals \/ \E b \in Actors \ {a} : at[b] = "robbing")
  /\ UNCHANGED <<lock, owner, deaths>>

\* mkdir failed and the pid is that of a dead process.
FindsStale(a) ==
  /\ at[a] = "trying" /\ lock = "stale"
  /\ at' = [at EXCEPT ![a] = "robbing"]
  /\ rivals' = (rivals \/ \E b \in Actors \ {a} : at[b] = "robbing")
  /\ UNCHANGED <<lock, owner, deaths>>

\* rm removes whatever is there by now.
Clears(a) ==
  /\ at[a] = "robbing"
  /\ lock' = "free" /\ Goes(a, "clearing")
  /\ UNCHANGED owner

\* The second mkdir; somebody else may have been faster.
Remakes(a) ==
  /\ at[a] = "clearing"
  /\ IF lock = "free" THEN lock' = "bare" /\ Goes(a, "remaking")
     ELSE Goes(a, "trying") /\ UNCHANGED lock
  /\ UNCHANGED owner

\* The pid is written, into whatever directory has the name.  If there is none,
\* the first attempt throws and the one that took over is refused.
Writes(a) ==
  /\ at[a] \in {"making", "remaking"}
  /\ IF lock # "free"
     THEN lock' = "owned" /\ owner' = a /\ Goes(a, "inside")
     ELSE /\ Goes(a, IF at[a] = "making" THEN "away" ELSE "trying")
          /\ UNCHANGED <<lock, owner>>

\* Mutant: the release is skipped when the work under the lock failed.
ReleasesNot(a) ==
  /\ at[a] = "inside"
  /\ Goes(a, "away")
  /\ UNCHANGED <<lock, owner>>

\* releaseLock removes the directory, whoever made it.
Releases(a) ==
  /\ at[a] = "inside"
  /\ lock' = "free" /\ Goes(a, "away")
  /\ UNCHANGED owner

Acquires(a) == Makes(a) \/ FindsStale(a) \/ Clears(a) \/ Remakes(a) \/ Writes(a)

Dies(a) ==
  /\ deaths < MaxDeaths /\ deaths' = deaths + 1
  /\ at' = [at EXCEPT ![a] = "away"]
  /\ lock' = IF lock = "owned" /\ owner = a THEN "stale" ELSE lock
  /\ UNCHANGED <<owner, rivals>>

LockNext ==
  \E a \in Actors : Begins(a) \/ Acquires(a) \/ GivesUp(a) \/ Releases(a) \/ Dies(a)

LockSpec == LockInit /\ [][LockNext]_lockVars

-----------------------------------------------------------------------------
Inside == {a \in Actors : at[a] = "inside"}

\* Nobody is left who could write the pid into the directory or remove it.
Orphaned == lock = "bare" /\ \A a \in Actors : at[a] \in {"away", "trying", "clearing"}

\* Two processes are in the critical section together only if two have taken
\* over the same dead process's lock at the same time: neither the gap between
\* mkdir and the pid nor a takeover against ordinary attempts breaks the lock.
Exclusive == rivals \/ \A a, b \in Inside : a = b
=============================================================================
