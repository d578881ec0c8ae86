---------------------------- MODULE AgentProcess ----------------------------
(***************************************************************************)
(* One AgentProcess (src/src/daemon/agent-process.ts) on the legacy path,  *)
(* without a lifecycle owner: start, stop, the exit handler, the restart   *)
(* timers and the session refresh, which all run between the same awaits   *)
(* and share `status`, `pty`, `stopRequested` and `lifecycleGeneration`.   *)
(*                                                                         *)
(* The object is a record; each operator below is the synchronous part of  *)
(* a method up to its next await.  AgentManager keeps one such record for  *)
(* every entry it ever made and decides when the methods are called.       *)
(***************************************************************************)
EXTENDS Naturals

CONSTANTS
  StartupDelay,   \* config.startup_delay is set
  Verdicts,       \* how an exit that nobody asked for may be answered
                  \* (handleExit and classifyExit)
  MaxGen          \* bound: spawns of one object; a start beyond it is dropped

ASSUME ProcessAssumption ==
  /\ StartupDelay \in BOOLEAN /\ MaxGen \in Nat \ {0}
  /\ Verdicts \subseteq {"shutdown", "disabled", "planned", "restart", "pause", "halt"}

Gens == 1..MaxGen
Statuses == {"stopped", "starting", "running", "crashed", "halted"}
\* A child process: not spawned yet, running, dead with its exit event still
\* in the event loop, dead and reported.
ChildStates == {"none", "live", "dead", "reported"}

Process ==
  [status : Statuses,
   pty : 0..MaxGen,          \* this.pty, named by its generation
   gen : 0..MaxGen,          \* lifecycleGeneration
   asked : BOOLEAN,          \* stopRequested
   stopping : 0..MaxGen,     \* the generation runStop is tearing down, 0: none
   blind : BOOLEAN,          \* ... and runStop found no pid to wait for or kill
   start : {"none", "delay", "spawning"},   \* inFlightStart and where it waits
   session : BOOLEAN,        \* sessionTimer is armed
   refresh : BOOLEAN,        \* sessionRefresh waits for its stop
   timers : 0..MaxGen,       \* restart timers that are set
   child : [Gens -> ChildStates],
   overtaken : BOOLEAN]      \* a stop came while a start or refresh was in flight

NewProcess ==
  [status |-> "stopped", pty |-> 0, gen |-> 0, asked |-> FALSE,
   stopping |-> 0, blind |-> FALSE, start |-> "none", session |-> FALSE, refresh |-> FALSE,
   timers |-> 0, child |-> [g \in Gens |-> "none"], overtaken |-> FALSE]

Live(p) == {g \in Gens : p.child[g] = "live"}

\* The pid that getStatus reports belongs to a running process.
HasPid(p) == p.pty # 0 /\ p.child[p.pty] = "live"

-----------------------------------------------------------------------------
(* start *)

\* startImpl behind the startup delay, up to `await this.pty.spawn`.
Spawning(p) ==
  [p EXCEPT !.status = "starting", !.asked = FALSE, !.gen = p.gen + 1,
            !.pty = p.gen + 1, !.start = "spawning"]

\* Mutant: the generation is raised by the request and again by the spawn.
StartedTwice(p) ==
  IF p.status = "running" \/ p.start # "none" \/ p.gen = MaxGen THEN p
  ELSE [p EXCEPT !.start = "delay", !.gen = p.gen + 1]

\* start(): a running process is left alone, a start in flight is joined.
Started(p) ==
  IF p.status = "running" \/ p.start # "none" \/ p.gen = MaxGen THEN p
  ELSE IF StartupDelay THEN [p EXCEPT !.start = "delay"]
  ELSE Spawning(p)

\* Inside pty.spawn, once the agent's environment is loaded.
Forked(p) == [p EXCEPT !.child[p.gen] = "live"]

\* Mutant: a spawn that returned has succeeded.
SpawnedAnyway(p) == [p EXCEPT !.start = "none", !.status = "running", !.session = TRUE]

\* pty.spawn returned.  A start whose PTY is gone does nothing more.
Spawned(p) ==
  IF p.pty = 0 THEN [p EXCEPT !.start = "none"]
  ELSE [p EXCEPT !.start = "none", !.status = "running", !.session = TRUE]

SpawnFailed(p) == [p EXCEPT !.start = "none", !.status = "crashed"]

-----------------------------------------------------------------------------
(* stop *)

Overtakes(p) == p.start # "none" \/ p.refresh

\* stop() up to its first await; without a PTY it is over at once, and one in
\* progress is joined.  A PTY that has not forked has no pid.
Stopping(p) ==
  LET marked == [p EXCEPT !.overtaken = @ \/ Overtakes(p)]
      asked == [marked EXCEPT !.asked = TRUE, !.session = FALSE]
  IN IF p.stopping # 0 THEN marked
     ELSE IF p.pty = 0 THEN [asked EXCEPT !.status = "stopped"]
     ELSE [asked EXCEPT !.pty = 0, !.stopping = p.pty, !.blind = p.child[p.pty] = "none"]

\* Mutant: runStop waits for the exit event without a deadline.
StopMustSeeExit(p) == p.stopping # 0 /\ p.child[p.stopping] = "reported"

\* runStop may end: nothing to wait for, or the child it killed is gone.
StopMayEnd(p) == p.stopping # 0 /\ (p.blind \/ p.child[p.stopping] # "live")

Stopped(p) == [p EXCEPT !.stopping = 0, !.blind = FALSE, !.status = "stopped"]

-----------------------------------------------------------------------------
(* exit, restart timers, session refresh *)

\* The end of handleExit: only an exit that nobody asked for is recovered from.
Unexpected(p, v) ==
  CASE p.asked \/ p.stopping # 0 -> [p EXCEPT !.asked = FALSE]
    [] OTHER ->
      CASE v = "planned" -> p
        [] v = "restart" -> [p EXCEPT !.status = "crashed", !.timers = @ + 1]
        [] v = "pause" -> [p EXCEPT !.status = "crashed"]
        [] v = "halt" -> [p EXCEPT !.status = "halted"]

\* Mutant: an exit is handled whatever its generation.
HandledAnyway(p, g, v) ==
  LET exited == [p EXCEPT !.child[g] = "reported", !.pty = 0, !.session = FALSE]
  IN CASE v = "shutdown" -> exited
       [] v = "disabled" -> [exited EXCEPT !.asked = FALSE, !.status = "stopped"]
       [] v \notin {"shutdown", "disabled"} -> Unexpected(exited, v)

\* The PTY's onExit callback for generation g; v says how handleExit answers.
\* An exit of an earlier generation is ignored, one that was asked for changes
\* nothing but the flag.
Handled(p, g, v) ==
  LET reported == [p EXCEPT !.child[g] = "reported"]
      exited == [reported EXCEPT !.pty = 0, !.session = FALSE]
  IN CASE g # p.gen -> reported
       [] g = p.gen /\ v = "shutdown" -> exited
       [] g = p.gen /\ v = "disabled" -> [exited EXCEPT !.asked = FALSE, !.status = "stopped"]
       [] g = p.gen /\ v \notin {"shutdown", "disabled"} -> Unexpected(exited, v)

\* The callback of scheduleRestart.
Restarted(p) ==
  LET fired == [p EXCEPT !.timers = p.timers - 1]
  IN IF p.status = "crashed" THEN Started(fired) ELSE fired

\* The session timer fires: sessionRefresh up to `await this.stop()`.
Refreshing(p) == [Stopping([p EXCEPT !.session = FALSE]) EXCEPT !.refresh = TRUE]

\* ... and from there to its end.
Refreshed(p) == Started([p EXCEPT !.refresh = FALSE])
=============================================================================
