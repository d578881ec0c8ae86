----------------------------- MODULE TurnQueue ------------------------------
(***************************************************************************)
(* The turns of one CodexAppServerPTY (src/src/pty/codex-app-server-pty.ts) *)
(* that is up: what is written to the adapter becomes a turn of its own, or *)
(* is steered into the turn that is active.  One loop, drainQueue, awaits   *)
(* the response to turn/start and then the end of the turn; notifications  *)
(* arrive over a socket, in order, and do not say whose turn they end.      *)
(*                                                                         *)
(* A turn is named by the input it was begun with.  The app-server is not  *)
(* part of the repository: it may refuse, be silent, or close the socket.   *)
(***************************************************************************)
EXTENDS Naturals, Sequences

CONSTANTS
  MaxInputs,    \* bound: how often something is passed to queueTurn
  MaxTroubles   \* bound: refusals and errors of the server, lost connections

ASSUME TurnAssumption == MaxInputs \in Nat /\ MaxTroubles \in Nat

\* The inputs, numbered in the order in which they come; no input is null.
Inputs == 1..MaxInputs
NoTurn == 0

VARIABLES
  alive,        \* _alive: not killed, and the app-server has not exited
  open,         \* the socket is connected
  queue,        \* _turnQueue
  drain,        \* where drainQueue stands and with which turn; not "off": _executing
  completion,   \* _turnCompletion: "none" also if nobody was told
  active,       \* _activeTurnId
  fate,         \* what has become of each input
  toServer,     \* requests on the wire
  fromServer,   \* responses and notifications on the wire
  running,      \* the turns the app-server works on
  gaveUp,       \* history: a start or a turn was given up after its timeout
  troubles

turnVars == <<alive, open, queue, drain, completion, active, fate, toServer,
              fromServer, running, gaveUp, troubles>>
wires == <<toServer, fromServer, running>>
connection == <<alive, open>>

MaybeTurn == Inputs \cup {NoTurn}
Waiting == {"steering", "queued"}
Unanswered == [kind : {"start", "steer"}, of : Inputs, turn : MaybeTurn]
Answer == [kind : {"accepted", "refused", "steered", "notSteered", "started", "completed", "error"},
           of : Inputs]

TurnTypeOK ==
  /\ alive \in BOOLEAN /\ open \in BOOLEAN /\ gaveUp \in BOOLEAN
  /\ queue \in Seq(Inputs)
  /\ drain \in [at : {"off", "asking", "refused", "awaiting"}, turn : MaybeTurn]
  /\ completion \in {"none", "pending", "resolved", "rejected"}
  /\ active \in MaybeTurn
  /\ fate \in [Inputs -> {"new", "given", "dropped"} \cup Waiting]
  /\ toServer \in Seq(Unanswered) /\ fromServer \in Seq(Answer)
  /\ running \subseteq Inputs /\ troubles \in 0..MaxTroubles

\* spawn() is through.
TurnInit ==
  /\ alive = TRUE /\ open = TRUE
  /\ queue = <<>> /\ drain = [at |-> "off", turn |-> NoTurn]
  /\ completion = "none" /\ active = NoTurn
  /\ fate = [m \in Inputs |-> "new"]
  /\ toServer = <<>> /\ fromServer = <<>> /\ running = {}
  /\ gaveUp = FALSE /\ troubles = 0

-----------------------------------------------------------------------------
(* Helpers *)

Trouble == troubles < MaxTroubles /\ troubles' = troubles + 1
Asks(kind, m, turn) == toServer' = Append(toServer, [kind |-> kind, of |-> m, turn |-> turn])
Says(answers) == fromServer' = fromServer \o answers
Msg(kind, m) == [kind |-> kind, of |-> m]
Settles(outcome) == completion' = IF completion = "pending" THEN outcome ELSE completion
Drops(f, inputs) == [m \in Inputs |-> IF m \in inputs THEN "dropped" ELSE f[m]]
Members(q) == {q[i] : i \in DOMAIN q}

\* startTurn with the first of q up to the await; a closed socket rejects.
TurnBegins(q, f) ==
  /\ queue' = Tail(q)
  /\ completion' = "pending"
  /\ fate' = [f EXCEPT ![Head(q)] = "given"]
  /\ drain' = [at |-> IF open THEN "asking" ELSE "refused", turn |-> Head(q)]
  /\ IF open THEN Asks("start", Head(q), NoTurn) ELSE UNCHANGED toServer

\* Mutant: the loop is started whether or not a turn is being executed.
EnqueuesAnyway(m) ==
  IF alive THEN TurnBegins(Append(queue, m), fate)
  ELSE /\ queue' = Append(queue, m) /\ fate' = [fate EXCEPT ![m] = "queued"]
       /\ UNCHANGED <<drain, completion, toServer>>

\* enqueueTurn: the loop is started if it does not run.
Enqueues(m) ==
  IF drain.at = "off" /\ alive THEN TurnBegins(Append(queue, m), fate)
  ELSE /\ queue' = Append(queue, m) /\ fate' = [fate EXCEPT ![m] = "queued"]
       /\ UNCHANGED <<drain, completion, toServer>>

-----------------------------------------------------------------------------
(* The adapter *)

Steers(m) ==
  /\ fate' = [fate EXCEPT ![m] = "steering"]
  /\ Asks("steer", m, active)
  /\ UNCHANGED <<queue, drain, completion>>

QueueTurn(m) ==
  /\ alive /\ fate[m] = "new" /\ \A k \in 1..(m - 1) : fate[k] # "new"
  /\ IF drain.at # "off" /\ active # NoTurn /\ open THEN Steers(m) ELSE Enqueues(m)
  /\ UNCHANGED <<connection, active, fromServer, running, gaveUp, troubles>>

\* Mutant: the loop ends with a turn that fails, and leaves the others queued.
DrainStops ==
  LET failed == drain.at = "refused" \/ completion = "rejected"
  IN /\ drain.at = "refused" \/ (drain.at = "awaiting" /\ completion \in {"resolved", "rejected"})
     /\ IF alive /\ ~failed /\ queue # <<>> THEN TurnBegins(queue, fate)
        ELSE /\ drain' = [at |-> "off", turn |-> NoTurn]
             /\ UNCHANGED <<queue, fate, completion, toServer>>
     /\ UNCHANGED <<connection, active, fromServer, running, gaveUp, troubles>>

\* drainQueue behind `await this.startTurn`: what is queued behind a turn that
\* failed is dropped.
DrainGoesOn ==
  LET failed == drain.at = "refused" \/ completion = "rejected"
      rest == IF failed THEN <<>> ELSE queue
      f == IF failed THEN Drops(fate, Members(queue)) ELSE fate
  IN /\ drain.at = "refused" \/ (drain.at = "awaiting" /\ completion \in {"resolved", "rejected"})
     /\ IF alive /\ rest # <<>> THEN TurnBegins(rest, f)
        ELSE /\ drain' = [at |-> "off", turn |-> NoTurn]
             /\ queue' = rest /\ fate' = f
             /\ UNCHANGED <<completion, toServer>>
     /\ UNCHANGED <<connection, active, fromServer, running, gaveUp, troubles>>

\* The response to turn/start, if it is still waited for.
Answered(a) ==
  /\ a.kind \in {"accepted", "refused"}
  /\ drain' = IF drain = [at |-> "asking", turn |-> a.of]
              THEN [drain EXCEPT !.at = IF a.kind = "accepted" THEN "awaiting" ELSE "refused"]
              ELSE drain
  /\ UNCHANGED <<queue, completion, active, fate, toServer>>

\* The response to turn/steer; what was not taken is queued.
SteerAnswered(a) ==
  /\ a.kind \in {"steered", "notSteered"}
  /\ CASE fate[a.of] # "steering" -> UNCHANGED <<queue, drain, completion, fate, toServer>>
       [] fate[a.of] = "steering" /\ a.kind = "steered" ->
            fate' = [fate EXCEPT ![a.of] = "given"] /\ UNCHANGED <<queue, drain, completion, toServer>>
       [] fate[a.of] = "steering" /\ a.kind = "notSteered" -> Enqueues(a.of)
  /\ UNCHANGED active

\* turn/started, turn/completed and error.
Notified(a) ==
  /\ a.kind \in {"started", "completed", "error"}
  /\ active' = IF a.kind = "started" THEN a.of ELSE NoTurn
  /\ CASE a.kind = "started" -> UNCHANGED completion
       [] a.kind = "completed" -> Settles("resolved")
       [] a.kind = "error" -> Settles("rejected")
  /\ UNCHANGED <<queue, drain, fate, toServer>>

Receives ==
  /\ fromServer # <<>> /\ fromServer' = Tail(fromServer)
  /\ LET a == Head(fromServer) IN Answered(a) \/ SteerAnswered(a) \/ Notified(a)
  /\ UNCHANGED <<connection, running, gaveUp, troubles>>

\* turn/start is not answered within 30 s, or the socket is closed.
StartFails ==
  /\ drain.at = "asking"
  /\ drain' = [drain EXCEPT !.at = "refused"]
  /\ gaveUp' = (gaveUp \/ open)
  /\ UNCHANGED <<connection, queue, completion, active, fate, wires, troubles>>

\* The same for turn/steer: the server may have taken it nevertheless.
SteerFails(m) ==
  /\ fate[m] = "steering" /\ Enqueues(m)
  /\ UNCHANGED <<connection, active, fromServer, running, gaveUp, troubles>>

\* A turn has not ended within 30 minutes, be it one that was refused and that
\* nobody waits for any more; the turn id stays.
TurnTimesOut ==
  /\ drain.at # "asking" /\ completion = "pending"
  /\ completion' = "rejected"
  /\ gaveUp' = (gaveUp \/ drain.at = "awaiting")
  /\ UNCHANGED <<connection, queue, drain, active, fate, wires, troubles>>

\* kill(): what is queued is dropped, the turn rejected, the socket closed.
Kill ==
  /\ alive /\ alive' = FALSE /\ open' = FALSE
  /\ queue' = <<>> /\ fate' = Drops(fate, Members(queue))
  /\ active' = NoTurn /\ Settles("rejected")
  /\ toServer' = <<>> /\ fromServer' = <<>> /\ running' = {}
  /\ UNCHANGED <<drain, gaveUp, troubles>>

-----------------------------------------------------------------------------
(* The app-server and the socket *)

ServerAnswers ==
  LET r == Head(toServer)
  IN /\ toServer # <<>> /\ toServer' = Tail(toServer)
     /\ \/ r.kind = "start" /\ running' = running \cup {r.of} /\ UNCHANGED troubles
           /\ \/ Says(<<Msg("accepted", r.of), Msg("started", r.of)>>)
              \/ Says(<<Msg("started", r.of), Msg("accepted", r.of)>>)
        \/ r.kind = "start" /\ Trouble /\ Says(<<Msg("refused", r.of)>>) /\ UNCHANGED running
        \/ r.kind = "steer" /\ r.turn \in running /\ Says(<<Msg("steered", r.of)>>)
           /\ UNCHANGED <<running, troubles>>
        \/ r.kind = "steer" /\ Says(<<Msg("notSteered", r.of)>>) /\ UNCHANGED <<running, troubles>>
     /\ UNCHANGED <<connection, queue, drain, completion, active, fate, gaveUp>>

ServerEndsTurn(m) ==
  /\ open /\ m \in running /\ running' = running \ {m}
  /\ \/ Says(<<Msg("completed", m)>>) /\ UNCHANGED troubles
     \/ Says(<<Msg("error", m)>>) /\ Trouble
  /\ UNCHANGED <<connection, queue, drain, completion, active, fate, toServer, gaveUp>>

ConnectionCloses ==
  /\ open /\ open' = FALSE /\ Trouble
  /\ toServer' = <<>> /\ fromServer' = <<>>
  /\ UNCHANGED <<alive, queue, drain, completion, active, fate, running, gaveUp>>

\* The app-server exits of itself: onExit.
ServerExits ==
  /\ alive /\ alive' = FALSE /\ open' = FALSE /\ Trouble
  /\ active' = NoTurn /\ Settles("rejected")
  /\ toServer' = <<>> /\ fromServer' = <<>> /\ running' = {}
  /\ UNCHANGED <<queue, drain, fate, gaveUp>>

TurnNext ==
  \/ Receives \/ DrainGoesOn \/ StartFails \/ TurnTimesOut \/ Kill
  \/ \E m \in Inputs : QueueTurn(m) \/ SteerFails(m) \/ ServerEndsTurn(m)
  \/ ServerAnswers \/ ConnectionCloses \/ ServerExits

\* What the adapter owes itself: continuations run and timers fire.  Nothing is
\* assumed of the app-server.
TurnFairness ==
  /\ WF_turnVars(DrainGoesOn) /\ WF_turnVars(StartFails) /\ WF_turnVars(TurnTimesOut)
  /\ \A m \in Inputs : WF_turnVars(SteerFails(m))

TurnSpec == TurnInit /\ [][TurnNext]_turnVars /\ TurnFairness

-----------------------------------------------------------------------------
(* Properties *)

\* As long as nothing was given up after its timeout, every turn the app-server
\* works on is the one the loop waits for: turns are serial, and the
\* notification that one has ended never ends another.
TurnsAreSerial ==
  gaveUp \/ ~open \/
    \A m \in running : drain.turn = m /\ drain.at \in {"asking", "awaiting"} /\ completion = "pending"

\* What is queued or steered is given to the app-server, or dropped with a turn
\* that fails: a server that is silent, refuses or loses the connection does
\* not block the queue for ever.
QueuedIsSettled ==
  \A m \in Inputs : fate[m] \in Waiting ~> fate[m] \notin Waiting \/ ~alive
=============================================================================
