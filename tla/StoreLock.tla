------------------------------ MODULE StoreLock ------------------------------
(***************************************************************************)
(* The generation-bound store lock (src/src/daemon/lifecycle/store-lock.ts)*)
(* that guards the lifecycle store of an agent and the daemon election.    *)
(*                                                                         *)
(* The lock is the directory `.lock.d`.  Contenders are operating-system   *)
(* processes; each system call on that path is one action, since another   *)
(* process may act between any two of them.  What a process does to its    *)
(* own staging directory or to a tombstone is private and left out.  A     *)
(* directory (its inode and its identity file) is named by the process and *)
(* the attempt that made it, as owner tokens are fresh for every attempt.  *)
(***************************************************************************)
EXTENDS Naturals, FiniteSets

CONSTANTS
  Proc,        \* the processes that contend for the lock
  MayCrash,    \* the processes that may die at any point
  MaxAttempts, \* bound: acquisitions tried by each process
  NoDir        \* nothing is there

ASSUME NoDirAssumption == NoDir \notin Proc \X Nat
ASSUME CrashAssumption == MayCrash \subseteq Proc
ASSUME AttemptsAssumption == MaxAttempts \in Nat

VARIABLES
  pc,       \* where each process stands in acquire, in the section or in release
  attempt,  \* acquisitions tried so far; names the directory of the current one
  slot,     \* the directory at `.lock.d`, or NoDir
  intact,   \* the identity file of that directory is present
  seen,     \* the directory that tryReclaim observed last: its identity, its inode
  handle,   \* the inode a StoreLockHandle was built with
  alive     \* the processes that have not died

vars == <<pc, attempt, slot, intact, seen, handle, alive>>

Dirs == Proc \X (1..MaxAttempts)

\* Mutant: the directory carries the token of an attempt not made yet.
MineNext(p) == <<p, attempt[p] + 1>>

Mine(p) == <<p, attempt[p]>>
Maker(d) == d[1]

Reclaiming == {"probe", "prestat", "confirm", "tombstone", "replace"}
Owning == {"stat", "held", "check", "unlink"}
Places == {"idle", "place", "read", "rmdir"} \cup Reclaiming \cup Owning

TypeOK ==
  /\ pc \in [Proc -> Places]
  /\ attempt \in [Proc -> 0..MaxAttempts]
  /\ slot \in Dirs \cup {NoDir}
  /\ intact \in BOOLEAN
  /\ seen \in [Proc -> Dirs \cup {NoDir}]
  /\ handle \in [Proc -> Dirs \cup {NoDir}]
  /\ alive \subseteq Proc

GoTo(p, place) == pc' = [pc EXCEPT ![p] = place]

\* The process fails, refuses or is done, and changes nothing.
GiveUp(p) == GoTo(p, "idle") /\ UNCHANGED <<slot, intact, seen, handle>>

-----------------------------------------------------------------------------
(* acquireStoreLock *)

\* existsSync; an absent slot leads to a private staging directory.
Exists(p) ==
  /\ pc[p] = "idle"
  /\ attempt[p] < MaxAttempts
  /\ attempt' = [attempt EXCEPT ![p] = @ + 1]
  /\ GoTo(p, IF slot = NoDir THEN "place" ELSE "read")
  /\ UNCHANGED <<slot, intact, seen, handle>>

\* rename(2) onto the slot succeeds if nothing or an empty directory is there.
Free == slot = NoDir \/ ~intact

\* Mutant: the slot is cleared first, whoever is in it.
RenameOver(p, otherwise) ==
  slot' = Mine(p) /\ intact' = TRUE /\ GoTo(p, "stat")

RenameOnto(p, otherwise) ==
  \/ Free /\ slot' = Mine(p) /\ intact' = TRUE /\ GoTo(p, "stat")
  \/ ~Free /\ GoTo(p, otherwise) /\ UNCHANGED <<slot, intact>>

Place(p) ==
  /\ pc[p] = "place"
  /\ RenameOnto(p, "read")
  /\ UNCHANGED <<attempt, seen, handle>>

\* buildHandle stats the slot it has just renamed; a missing one throws.
Stat(p) ==
  /\ pc[p] = "stat"
  /\ IF slot = NoDir
     THEN GiveUp(p)
     ELSE /\ handle' = [handle EXCEPT ![p] = slot]
          /\ GoTo(p, "held")
          /\ UNCHANGED <<slot, intact, seen>>
  /\ UNCHANGED attempt

-----------------------------------------------------------------------------
(* tryReclaim *)

\* readIdentity: a missing identity is never stolen.
Read(p) ==
  /\ pc[p] = "read"
  /\ IF Free
     THEN GiveUp(p)
     ELSE /\ seen' = [seen EXCEPT ![p] = slot]
          /\ GoTo(p, "probe")
          /\ UNCHANGED <<slot, intact, handle>>
  /\ UNCHANGED attempt

\* Mutant: an ambiguous answer (EPERM) is taken for an absent process.
ProbeAmbiguous(p) ==
  /\ pc[p] = "probe"
  /\ GoTo(p, "prestat")
  /\ UNCHANGED <<attempt, slot, intact, seen, handle>>

\* Only a definitely absent holder authorises a reclaim; the pid of a dead holder
\* may have been taken by another process.
Probe(p) ==
  /\ pc[p] = "probe"
  /\ \/ GiveUp(p)
     \/ /\ Maker(seen[p]) \notin alive
        /\ GoTo(p, "prestat")
        /\ UNCHANGED <<slot, intact, seen, handle>>
  /\ UNCHANGED attempt

\* The first stat, and the staging directory.
PreStat(p) ==
  /\ pc[p] = "prestat"
  /\ IF slot = NoDir
     THEN GiveUp(p)
     ELSE /\ seen' = [seen EXCEPT ![p] = slot]
          /\ GoTo(p, "confirm")
          /\ UNCHANGED <<slot, intact, handle>>
  /\ UNCHANGED attempt

\* The second stat, right before the swap.
Confirm(p) ==
  /\ pc[p] = "confirm"
  /\ IF slot = seen[p]
     THEN GoTo(p, "tombstone") /\ UNCHANGED <<slot, intact, seen, handle>>
     ELSE GiveUp(p)
  /\ UNCHANGED attempt

\* The slot, whatever it is by now, is renamed aside.
Tombstone(p) ==
  /\ pc[p] = "tombstone"
  /\ IF slot = NoDir
     THEN GiveUp(p)
     ELSE slot' = NoDir /\ GoTo(p, "replace") /\ UNCHANGED <<intact, seen, handle>>
  /\ UNCHANGED attempt

Replace(p) ==
  /\ pc[p] = "replace"
  /\ RenameOnto(p, "idle")
  /\ UNCHANGED <<attempt, seen, handle>>

-----------------------------------------------------------------------------
(* releaseStoreLock *)

\* The handle must still name the directory in the slot.
Release(p) ==
  /\ pc[p] = "held"
  /\ IF slot = handle[p]
     THEN GoTo(p, "check") /\ UNCHANGED <<slot, intact, seen, handle>>
     ELSE GiveUp(p)
  /\ UNCHANGED attempt

\* The identity in the slot must still be this owner's token.
Check(p) ==
  /\ pc[p] = "check"
  /\ IF ~Free /\ slot = Mine(p)
     THEN GoTo(p, "unlink") /\ UNCHANGED <<slot, intact, seen, handle>>
     ELSE GiveUp(p)
  /\ UNCHANGED attempt

\* rmSync removes the identity file of whatever is in the slot ...
Unlink(p) ==
  /\ pc[p] = "unlink"
  /\ intact' = FALSE
  /\ GoTo(p, "rmdir")
  /\ UNCHANGED <<attempt, slot, seen, handle>>

\* ... and then the directory, if it is still empty.
Rmdir(p) ==
  /\ pc[p] = "rmdir"
  /\ slot' = IF Free THEN NoDir ELSE slot
  /\ GoTo(p, "idle")
  /\ UNCHANGED <<attempt, intact, seen, handle>>

Crash(p) ==
  /\ p \in MayCrash
  /\ alive' = alive \ {p}
  /\ UNCHANGED <<pc, attempt, slot, intact, seen, handle>>

-----------------------------------------------------------------------------

Step(p) ==
  \/ Exists(p) \/ Place(p) \/ Stat(p)
  \/ Read(p) \/ Probe(p) \/ PreStat(p) \/ Confirm(p) \/ Tombstone(p) \/ Replace(p)
  \/ Release(p) \/ Check(p) \/ Unlink(p) \/ Rmdir(p)

Init ==
  /\ pc = [p \in Proc |-> "idle"]
  /\ attempt = [p \in Proc |-> 0]
  /\ slot = NoDir /\ intact = FALSE
  /\ seen = [p \in Proc |-> NoDir]
  /\ handle = [p \in Proc |-> NoDir]
  /\ alive = Proc

Next ==
  \E p \in alive : (Step(p) /\ UNCHANGED alive) \/ Crash(p)

Spec == Init /\ [][Next]_vars

-----------------------------------------------------------------------------
(* Properties *)

\* Nobody has died, or a single process is left.
SoleSurvivor == alive = Proc \/ \A p, q \in alive : p = q

\* Two live processes are never both inside withStoreLock.
MutualExclusion ==
  \A p, q \in alive : pc[p] = "held" /\ pc[q] = "held" => p = q

\* Nobody replaces, tombstones or empties the slot of a live process between its
\* acquisition and its own release.
LiveLockIsKept ==
  \A p \in alive : pc[p] \in Owning => slot = Mine(p) /\ intact
=============================================================================
