------------------------------ MODULE PtyHosts ------------------------------
(***************************************************************************)
(* Every pseudo-terminal lives in a host process of its own, forked by the *)
(* daemon (src/src/pty/pty-host-client.ts, pty-host-entry.ts), which holds *)
(* the runtime as a child.  Hosts are noted in a ledger file               *)
(* (pty-host-ledger.ts) for the reaper (src/src/daemon/pty-host-reaper.ts) *)
(* of this daemon or of its successor, which kills what nobody tracks.     *)
(*                                                                         *)
(* A host is numbered by its fork; pids of hosts and runtimes are not      *)
(* used again.                                                             *)
(***************************************************************************)
EXTENDS Naturals

CONSTANTS
  MaxHosts,     \* bound: hostSpawn calls
  MaxDaemons,   \* bound: incarnations of the daemon
  MaxFaults     \* bound: hosts that die or hang, and calls that fail

ASSUME HostAssumption ==
  MaxHosts \in Nat \ {0} /\ MaxDaemons \in Nat \ {0} /\ MaxFaults \in Nat

VARIABLES
  host,         \* the hosts
  daemon,       \* the incarnation that runs
  faults

hostVars == <<host, daemon, faults>>

Hosts == 1..MaxHosts
Daemons == 1..MaxDaemons

\* The caller waits for the runtime, uses it, has destroyed the host, is stopping
\* a Codex app-server, or has given one up without a stop.
Client == {"waiting", "using", "over", "stopping", "abandoned"}

Host ==
  [proc : {"none", "up", "gone"},          \* the host process
   hung : BOOLEAN,                         \* ... does not answer any more
   wire : SUBSET {"spawn", "dispose"},     \* sent to it, and read in this order
   dying : BOOLEAN,                        \* its `disposing`: the fallback is armed
   runtime : {"none", "live", "dead"},     \* its child
   ready : {"no", "sent", "told"},         \* pty-ready: the proxy knows the pid
   owner : Daemons,
   client : Client,                        \* hostSpawn and its caller
   tracked : BOOLEAN,                      \* in liveHostPids
   noted : {"no", "host", "both"},         \* in the ledger: without or with the pid
   lost : BOOLEAN]  \* history: the runtime outlived its host and was not in the ledger

NoHost ==
  [proc |-> "none", hung |-> FALSE, wire |-> {}, dying |-> FALSE, runtime |-> "none",
   ready |-> "no", owner |-> 1, client |-> "waiting", tracked |-> FALSE, noted |-> "no",
   lost |-> FALSE]

HostTypeOK ==
  /\ host \in [Hosts -> Host]
  /\ daemon \in Daemons /\ faults \in 0..MaxFaults

HostInit == host = [h \in Hosts |-> NoHost] /\ daemon = 1 /\ faults = 0

-----------------------------------------------------------------------------
(* Helpers *)

Fault == faults < MaxFaults /\ faults' = faults + 1
May(fault) == IF fault THEN Fault ELSE UNCHANGED faults
Is(h, r) == host' = [host EXCEPT ![h] = r] /\ UNCHANGED daemon
HostAlive(h) == host[h].proc = "up"
RuntimeAlive(h) == host[h].runtime = "live"
Answers(h) == HostAlive(h) /\ ~host[h].hung
OfThisDaemon(h) == host[h].proc # "none" /\ host[h].owner = daemon

\* The host process ends, and its child does not.
Down(r) ==
  [r EXCEPT !.proc = "gone", !.hung = FALSE, !.wire = {}, !.dying = FALSE,
            !.lost = r.runtime = "live" /\ r.noted # "both"]

\* PtyHostProxy.destroy: a host that runs is asked to dispose.
Destroyed(r) ==
  [r EXCEPT !.client = "over", !.wire = IF r.proc = "up" THEN @ \cup {"dispose"} ELSE @]

-----------------------------------------------------------------------------
(* pty-host-client.ts, in the daemon *)

\* hostSpawn up to `await proxy.waitReady`; a write of the ledger that fails is
\* swallowed.
HostSpawn(h) ==
  /\ host[h].proc = "none" /\ \A g \in 1..(h - 1) : host[g].proc # "none"
  /\ \E noted \in {"no", "host"} :
       /\ May(noted = "no")
       /\ Is(h, [NoHost EXCEPT !.proc = "up", !.wire = {"spawn"}, !.owner = daemon,
                               !.tracked = TRUE, !.noted = noted])

\* pty-ready.  If hostSpawn still waits, it goes on and notes the pid.
Ready(h) ==
  /\ OfThisDaemon(h) /\ host[h].ready = "sent"
  /\ LET told == [host[h] EXCEPT !.ready = "told"]
     IN IF host[h].client = "over" THEN Is(h, told) /\ UNCHANGED faults
        ELSE \E written \in BOOLEAN :
               /\ May(~written)
               /\ Is(h, [told EXCEPT !.client = "using",
                                     !.noted = IF written /\ @ = "host" THEN "both" ELSE @])

\* Neither ready nor dead within READY_TIMEOUT_MS.
ReadyTimesOut(h) ==
  /\ OfThisDaemon(h) /\ host[h].client = "waiting"
  /\ Is(h, Destroyed(host[h])) /\ UNCHANGED faults

\* The agent is stopped: AgentPTY.kill.
Release(h) ==
  /\ OfThisDaemon(h) /\ host[h].client = "using"
  /\ Is(h, Destroyed(host[h])) /\ UNCHANGED faults

\* CodexAppServerPTY.kill sends pty-kill and no more: the runtime is asked to end,
\* which it may ignore, and the host stays.  A stop of the agent comes back to it.
StopsServer(h) ==
  /\ OfThisDaemon(h) /\ host[h].client = "using"
  /\ Is(h, [host[h] EXCEPT !.client = "stopping"]) /\ UNCHANGED faults

\* runStop, when the graceful window has passed: SIGKILL to the pid it noted.
StopKills(h) ==
  /\ OfThisDaemon(h) /\ host[h].client = "stopping" /\ RuntimeAlive(h)
  /\ Is(h, [host[h] EXCEPT !.runtime = "dead", !.lost = FALSE]) /\ UNCHANGED faults

\* A spawn attempt fails, or its host comes after the adapter was killed: a
\* pty-kill as well, and nobody comes back to the host.
AbandonsServer(h) ==
  /\ OfThisDaemon(h) /\ host[h].client = "using"
  /\ Is(h, [host[h] EXCEPT !.client = "abandoned"]) /\ UNCHANGED faults

\* The host has not exited within DISPOSE_GRACE_MS of destroy: SIGKILL.
Escalates(h) ==
  /\ OfThisDaemon(h) /\ host[h].client = "over" /\ HostAlive(h)
  /\ Is(h, Down(host[h])) /\ UNCHANGED faults

\* Mutant: the exit handler removes the entry in any case.
ExitForgets(h) ==
  /\ OfThisDaemon(h) /\ host[h].tracked /\ host[h].proc = "gone"
  /\ Is(h, [host[h] EXCEPT !.tracked = FALSE, !.client = "over", !.noted = "no"])
  /\ UNCHANGED faults

\* The child's exit event, which settles hostSpawn as well; a stop goes on.  The
\* entry stays if the proxy knows the runtime and it has survived.
ExitSeen(h) ==
  /\ OfThisDaemon(h) /\ host[h].tracked /\ host[h].proc = "gone"
  /\ Is(h, [host[h] EXCEPT !.tracked = FALSE,
              !.client = IF @ = "stopping" THEN @ ELSE "over",
              !.noted = IF host[h].ready = "told" /\ RuntimeAlive(h) THEN @ ELSE "no"])
  /\ UNCHANGED faults

-----------------------------------------------------------------------------
(* pty-host-entry.ts, and the processes themselves *)

\* pty-spawn; nodePty.spawn may throw, which ends the host.
HostStarts(h) ==
  LET begun == [host[h] EXCEPT !.wire = @ \ {"spawn"}]
  IN /\ Answers(h) /\ "spawn" \in host[h].wire
     /\ \E starts \in BOOLEAN :
          /\ May(~starts)
          /\ Is(h, IF starts
                   THEN [begun EXCEPT !.runtime = "live",
                                      !.ready = IF OfThisDaemon(h) THEN "sent" ELSE @]
                   ELSE Down(begun))

\* beginDispose, at the daemon's message or its death: the runtime is asked to
\* end, which it may ignore.
HostDisposes(h) ==
  /\ Answers(h) /\ ~host[h].dying
  /\ host[h].wire = {"dispose"} \/ (host[h].wire = {} /\ ~OfThisDaemon(h))
  /\ Is(h, IF RuntimeAlive(h) THEN [host[h] EXCEPT !.wire = {}, !.dying = TRUE]
           ELSE Down(host[h]))
  /\ UNCHANGED faults

\* The runtime has outlived DISPOSE_SELF_EXIT_MS: SIGKILL to it, and exit.
HostFallsBack(h) ==
  /\ Answers(h) /\ host[h].dying /\ RuntimeAlive(h)
  /\ Is(h, Down([host[h] EXCEPT !.runtime = "dead"])) /\ UNCHANGED faults

\* The runtime has exited, and the host follows.
HostEnds(h) ==
  /\ Answers(h) /\ host[h].runtime = "dead"
  /\ Is(h, Down(host[h])) /\ UNCHANGED faults

RuntimeExits(h) ==
  /\ RuntimeAlive(h)
  /\ Is(h, [host[h] EXCEPT !.runtime = "dead", !.lost = FALSE]) /\ UNCHANGED faults

HostFails(h) ==
  /\ Answers(h) /\ Fault
  /\ Is(h, Down(host[h])) \/ Is(h, [host[h] EXCEPT !.hung = TRUE])

\* The daemon dies with all it has in memory, and is started again.
DaemonDies ==
  /\ daemon < MaxDaemons /\ daemon' = daemon + 1
  /\ host' = [h \in Hosts |-> [host[h] EXCEPT !.ready = "no", !.tracked = FALSE,
                                 !.client = IF host[h].proc = "none" THEN @ ELSE "over"]]
  /\ UNCHANGED faults

-----------------------------------------------------------------------------
(* pty-host-reaper.ts *)

\* Nothing of the entry is in the process table.
Cleared ==
  {h \in Hosts : /\ host[h].noted # "no" /\ ~HostAlive(h)
                 /\ ~(host[h].noted = "both" /\ RuntimeAlive(h))}

\* Mutant: what the ledger has from this daemon is killed though it is tracked.
ReapsTracked(spared) == {h \in Hosts \ (Cleared \cup spared) : host[h].noted # "no"}

\* What sweepLedger kills, after graceMs: entries of a dead daemon, and those
\* of this one that it does not track.
Reaped(spared) ==
  {h \in Hosts \ (Cleared \cup spared) : host[h].noted # "no" /\ ~host[h].tracked}

\* sweepStrays: hosts without an entry that have lost their daemon.
Strays == {h \in Hosts : HostAlive(h) /\ host[h].noted = "no" /\ ~OfThisDaemon(h)}

\* killEntry, and the kill of a stray with its children.
Killed(r) ==
  IF r.noted = "host" THEN Down(r)
  ELSE [r EXCEPT !.proc = "gone", !.hung = FALSE, !.wire = {}, !.dying = FALSE,
                 !.runtime = IF @ = "live" THEN "dead" ELSE @]

\* One sweep.  Spared are the entries that are too young and those whose dead
\* daemon's pid is another process's by now.
Sweep(spared) ==
  LET reaped == Reaped(spared)
  IN /\ host' = [h \in Hosts |->
           LET r == IF h \in reaped \cup Strays THEN Killed(host[h]) ELSE host[h]
           IN IF h \in reaped \cup Cleared THEN [r EXCEPT !.noted = "no"] ELSE r]
     /\ UNCHANGED daemon

Sweeps == Sweep({}) /\ UNCHANGED faults
SweepsSome == \E spared \in SUBSET Hosts : Sweep(spared) /\ UNCHANGED faults

\* `ps` fails and its list is empty: every entry is taken for cleared.
SweepsBlind ==
  /\ Fault
  /\ host' = [h \in Hosts |->
       [host[h] EXCEPT !.noted = "no",
          !.lost = @ \/ (host[h].proc = "gone" /\ RuntimeAlive(h))]]
  /\ UNCHANGED daemon

HostStep(h) ==
  \/ HostSpawn(h) \/ Ready(h) \/ ReadyTimesOut(h) \/ Release(h) \/ Escalates(h) \/ ExitSeen(h)
  \/ StopsServer(h) \/ StopKills(h) \/ AbandonsServer(h)
  \/ HostStarts(h) \/ HostDisposes(h) \/ HostFallsBack(h) \/ HostEnds(h)
  \/ RuntimeExits(h) \/ HostFails(h)

HostNext == (\E h \in Hosts : HostStep(h)) \/ DaemonDies \/ SweepsSome \/ SweepsBlind

\* Timers fire, events are delivered, and a host that does not hang reads its
\* messages; entries grow old.  Nothing is assumed of the runtime.
HostFairness ==
  /\ WF_hostVars(Sweeps)
  /\ \A h \in Hosts :
       /\ WF_hostVars(ReadyTimesOut(h)) /\ WF_hostVars(Escalates(h)) /\ WF_hostVars(ExitSeen(h))
       /\ WF_hostVars(HostDisposes(h)) /\ WF_hostVars(HostFallsBack(h))
       /\ WF_hostVars(StopKills(h))

HostSpec == HostInit /\ [][HostNext]_hostVars /\ HostFairness

-----------------------------------------------------------------------------
(* Properties *)

\* The running daemon forked it, and nobody has given it up.
Wanted(h) == OfThisDaemon(h) /\ HostAlive(h) /\ host[h].client \in {"waiting", "using"}

\* The reaper kills no host and no runtime that an agent of the running daemon
\* uses or waits for.
WantedIsSpared ==
  [][SweepsSome => \A h \in Hosts : Wanted(h) =>
       host'[h].proc = host[h].proc /\ host'[h].runtime = host[h].runtime]_hostVars

\* No runtime is left behind for good, though it ignores signals, its host
\* hangs or is killed and daemons die: unless the host was gone at a time when
\* the ledger had no pid of the runtime, or it is the app-server of a failed spawn
\* attempt and its host still runs, tracked by this daemon.
OrphansAreReaped ==
  \A h \in Hosts :
    RuntimeAlive(h) /\ ~Wanted(h) ~>
      \/ ~RuntimeAlive(h) \/ host[h].lost
      \/ host[h].client = "abandoned" /\ host[h].tracked
=============================================================================
