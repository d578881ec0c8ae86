---------------------------- MODULE EventIngress ----------------------------
(***************************************************************************)
(* A provider's notification on its way through the webhook bridge:        *)
(* processMonotonic of src/src/cli/provider-shadow-ingress.ts with         *)
(* recordIngressReceipt and recordEventRoutingProposalOnce of              *)
(* src/src/bus/event-delivery.ts.  It runs to its end without an await and *)
(* under the receipts' lock, and what the handler awaits after it touches  *)
(* no file, so one request is under way at a time; but each file may fail  *)
(* to be written, and the process may die between any two.  The provider   *)
(* delivers an event again until it is told that it got through.           *)
(*                                                                         *)
(* Receipts that nothing reads (duplicate, rejected) and the bounds of log *)
(* and index are left out.                                                 *)
(***************************************************************************)
EXTENDS Naturals, FiniteSets

CONSTANTS
  Events,       \* history ids or message numbers of one lane
  MaxTroubles   \* bound: failures, and deliveries of what got through

ASSUME EventAssumption == Events \subseteq Nat \ {0} /\ MaxTroubles \in Nat

VARIABLES
  mode,         \* of the lane in provider-config.json; "off" stands for a calendar's
                \* sync notification, too
  dedup,        \* the index: events accepted ...
  claims,       \* ... events proposed (proposedRoutes) ...
  cursor,       \* ... and the high-water mark
  inTx,         \* event-receipt-tx.json: no or one receipt, and whether it is logged
  routeTx,      \* event-route-proposal-tx.json likewise
  eventLog,     \* event-receipts.jsonl: acceptances and proposals of each event
  request,      \* the request that is handled
  answered,     \* events the provider knows to have got through
  workers,      \* workers spawned for each event
  troubles

eventVars == <<mode, dedup, claims, cursor, inTx, routeTx, eventLog, request, answered, workers, troubles>>
indexVars == <<dedup, claims, cursor>>

Modes == {"off", "shadow", "active"}
Tx == [event : Events, logged : BOOLEAN]
Steps == {"idle", "check", "heal", "judge", "append", "index", "clear",
          "reheal", "claim", "propose", "reindex", "reclear", "advance", "spawn", "answer"}
NoRequest == [at |-> "idle", event |-> 0, fresh |-> FALSE]

EventTypeOK ==
  /\ mode \in Modes /\ dedup \subseteq Events /\ claims \subseteq Events /\ cursor \in Events \cup {0}
  /\ inTx \subseteq Tx /\ routeTx \subseteq Tx /\ Cardinality(inTx) <= 1 /\ Cardinality(routeTx) <= 1
  /\ eventLog \in [Events -> [accepted : Nat, proposed : Nat]]
  /\ request \in [at : Steps, event : Events \cup {0}, fresh : BOOLEAN]
  /\ answered \subseteq Events /\ workers \in [Events -> Nat] /\ troubles \in 0..MaxTroubles

EventInit ==
  /\ mode \in Modes /\ dedup = {} /\ claims = {} /\ cursor = 0
  /\ inTx = {} /\ routeTx = {}
  /\ eventLog = [e \in Events |-> [accepted |-> 0, proposed |-> 0]]
  /\ request = NoRequest /\ answered = {}
  /\ workers = [e \in Events |-> 0] /\ troubles = 0

-----------------------------------------------------------------------------
(* Helpers *)

This == request.event
AtStep(step) == request.at = step
GoesTo(step) == request' = [request EXCEPT !.at = step]
Trouble == troubles < MaxTroubles /\ troubles' = troubles + 1

\* The journal with its receipt in the log.
LoggedTx(tx) == {[t EXCEPT !.logged = TRUE] : t \in tx}
Of(tx) == {t.event : t \in tx}
Unlogged(tx) == \E t \in tx : ~t.logged

LogsAcceptance(events) ==
  eventLog' = [e \in Events |-> IF e \in events THEN [eventLog[e] EXCEPT !.accepted = @ + 1] ELSE eventLog[e]]
LogsRoute(events) ==
  eventLog' = [e \in Events |-> IF e \in events THEN [eventLog[e] EXCEPT !.proposed = @ + 1] ELSE eventLog[e]]

-----------------------------------------------------------------------------
(* processMonotonic *)

\* A notification comes in: one that got through costs one of the troubles.
Arrives(e) ==
  /\ AtStep("idle")
  /\ request' = [at |-> "check", event |-> e, fresh |-> FALSE]
  /\ IF e \in answered THEN Trouble ELSE UNCHANGED troubles
  /\ UNCHANGED <<mode, indexVars, inTx, routeTx, eventLog, answered, workers>>

\* An event below the high-water mark is rejected as stale.
ComparesCursor ==
  /\ AtStep("check")
  /\ GoesTo(IF cursor > This THEN "answer" ELSE "heal")
  /\ UNCHANGED <<mode, indexVars, inTx, routeTx, eventLog, answered, workers, troubles>>

\* recordIngressReceipt: recoverIngressJournalLocked, one write at a time ...
Heals ==
  /\ AtStep("heal")
  /\ \/ /\ Unlogged(inTx)
        /\ inTx' = LoggedTx(inTx) /\ LogsAcceptance(Of(inTx)) /\ UNCHANGED <<dedup, request>>
     \/ /\ ~Unlogged(inTx) /\ ~(Of(inTx) \subseteq dedup)
        /\ dedup' = dedup \cup Of(inTx) /\ UNCHANGED <<inTx, eventLog, request>>
     \/ /\ ~Unlogged(inTx) /\ Of(inTx) \subseteq dedup
        /\ inTx' \in {inTx, {}} /\ GoesTo("judge") /\ UNCHANGED <<dedup, eventLog>>
  /\ UNCHANGED <<mode, claims, cursor, routeTx, answered, workers, troubles>>

Judges ==
  /\ AtStep("judge")
  /\ \/ This \in dedup /\ GoesTo("reheal") /\ UNCHANGED inTx
     \/ This \notin dedup /\ inTx' = {[event |-> This, logged |-> FALSE]} /\ GoesTo("append")
  /\ UNCHANGED <<mode, indexVars, routeTx, eventLog, answered, workers, troubles>>

Appends ==
  /\ AtStep("append")
  /\ inTx' = LoggedTx(inTx) /\ LogsAcceptance({This})
  /\ GoesTo("index")
  /\ UNCHANGED <<mode, indexVars, routeTx, answered, workers, troubles>>

\* The append throws: the journal is removed, if that works.
AppendThrows ==
  /\ AtStep("append") /\ Trouble
  /\ inTx' \in {inTx, {}} /\ request' = NoRequest
  /\ UNCHANGED <<mode, indexVars, routeTx, eventLog, answered, workers>>

\* The acceptance counts as soon as it is logged: index and journal may lag.
Indexes ==
  /\ AtStep("index")
  /\ \/ dedup' = dedup \cup {This} /\ GoesTo("clear") /\ UNCHANGED troubles
     \/ Trouble /\ request' = [request EXCEPT !.at = "reheal", !.fresh = TRUE] /\ UNCHANGED dedup
  /\ UNCHANGED <<mode, claims, cursor, inTx, routeTx, eventLog, answered, workers>>

ClearsReceipt ==
  /\ AtStep("clear")
  /\ inTx' \in {inTx, {}}
  /\ request' = [request EXCEPT !.at = "reheal", !.fresh = TRUE]
  /\ UNCHANGED <<mode, indexVars, routeTx, eventLog, answered, workers, troubles>>

\* Mutant: the log is not asked whether it has the journal's proposal.
RehealsAnyway ==
  /\ AtStep("reheal") /\ mode = "shadow"
  /\ \/ /\ ~(Of(routeTx) \subseteq claims)
        /\ LogsRoute(Of(routeTx)) /\ claims' = claims \cup Of(routeTx)
        /\ UNCHANGED <<routeTx, request>>
     \/ /\ Of(routeTx) \subseteq claims
        /\ routeTx' \in {routeTx, {}} /\ GoesTo("claim") /\ UNCHANGED <<claims, eventLog>>
  /\ UNCHANGED <<mode, dedup, cursor, inTx, answered, workers, troubles>>

\* recordEventRoutingProposalOnce: recoverRouteProposalJournalLocked ...
Reheals ==
  /\ AtStep("reheal") /\ mode = "shadow"
  /\ \/ /\ Unlogged(routeTx)
        /\ routeTx' = LoggedTx(routeTx) /\ LogsRoute(Of(routeTx)) /\ UNCHANGED <<claims, request>>
     \/ /\ ~Unlogged(routeTx) /\ ~(Of(routeTx) \subseteq claims)
        /\ claims' = claims \cup Of(routeTx) /\ UNCHANGED <<routeTx, eventLog, request>>
     \/ /\ ~Unlogged(routeTx) /\ Of(routeTx) \subseteq claims
        /\ routeTx' \in {routeTx, {}} /\ GoesTo("claim") /\ UNCHANGED <<claims, eventLog>>
  /\ UNCHANGED <<mode, dedup, cursor, inTx, answered, workers, troubles>>

\* Only a shadow lane is routed.
RoutesNot ==
  /\ AtStep("reheal") /\ mode # "shadow" /\ GoesTo("advance")
  /\ UNCHANGED <<mode, indexVars, inTx, routeTx, eventLog, answered, workers, troubles>>

\* ... a duplicate is routed like the first, but proposed once.
ClaimsRoute ==
  /\ AtStep("claim")
  /\ \/ This \in claims /\ GoesTo("advance") /\ UNCHANGED routeTx
     \/ This \notin claims /\ routeTx' = {[event |-> This, logged |-> FALSE]} /\ GoesTo("propose")
  /\ UNCHANGED <<mode, indexVars, inTx, eventLog, answered, workers, troubles>>

LogsProposal ==
  /\ AtStep("propose")
  /\ routeTx' = LoggedTx(routeTx) /\ LogsRoute({This})
  /\ GoesTo("reindex")
  /\ UNCHANGED <<mode, indexVars, inTx, answered, workers, troubles>>

ProposalThrows ==
  /\ AtStep("propose") /\ Trouble
  /\ routeTx' \in {routeTx, {}} /\ request' = NoRequest
  /\ UNCHANGED <<mode, indexVars, inTx, eventLog, answered, workers>>

IndexesProposal ==
  /\ AtStep("reindex")
  /\ \/ claims' = claims \cup {This} /\ GoesTo("reclear") /\ UNCHANGED troubles
     \/ Trouble /\ GoesTo("advance") /\ UNCHANGED claims
  /\ UNCHANGED <<mode, dedup, cursor, inTx, routeTx, eventLog, answered, workers>>

ClearsProposal ==
  /\ AtStep("reclear")
  /\ routeTx' \in {routeTx, {}} /\ GoesTo("advance")
  /\ UNCHANGED <<mode, indexVars, inTx, eventLog, answered, workers, troubles>>

\* advanceNumericEventCursor
AdvancesCursor ==
  /\ AtStep("advance")
  /\ cursor' = IF cursor >= This THEN cursor ELSE This
  /\ GoesTo(IF mode = "active" /\ request.fresh THEN "spawn" ELSE "answer")
  /\ UNCHANGED <<mode, dedup, claims, inTx, routeTx, eventLog, answered, workers, troubles>>

\* Only who accepted the event spawns its worker.
Spawns ==
  /\ AtStep("spawn")
  /\ workers' = [workers EXCEPT ![This] = @ + 1]
  /\ GoesTo("answer")
  /\ UNCHANGED <<mode, indexVars, inTx, routeTx, eventLog, answered, troubles>>

Answers ==
  /\ AtStep("answer")
  /\ answered' = answered \cup {This} /\ request' = NoRequest
  /\ UNCHANGED <<mode, indexVars, inTx, routeTx, eventLog, workers, troubles>>

\* A write throws, the process dies, or the answer is lost.
Breaks ==
  /\ ~AtStep("idle") /\ Trouble
  /\ request' = NoRequest
  /\ UNCHANGED <<mode, indexVars, inTx, routeTx, eventLog, answered, workers>>

GoesOn ==
  \/ ComparesCursor \/ Heals \/ Judges \/ Appends \/ Indexes \/ ClearsReceipt
  \/ Reheals \/ RoutesNot \/ ClaimsRoute \/ LogsProposal \/ IndexesProposal \/ ClearsProposal
  \/ AdvancesCursor \/ Spawns \/ Answers

EventNext ==
  \/ \E e \in Events : Arrives(e)
  \/ GoesOn \/ AppendThrows \/ ProposalThrows \/ Breaks

\* The provider keeps delivering what it has no answer for; a handler runs on.
EventFairness ==
  /\ WF_eventVars(GoesOn)
  /\ \A e \in Events : WF_eventVars(e \notin answered /\ Arrives(e))

EventSpec == EventInit /\ [][EventNext]_eventVars /\ EventFairness

-----------------------------------------------------------------------------
(* Properties *)

Accepted == [e \in Events |-> eventLog[e].accepted]
Proposed == [e \in Events |-> eventLog[e].proposed]
Stream ==
  INSTANCE EventStream
    WITH accepted <- Accepted, proposed <- Proposed, spawned <- workers, mark <- cursor

\* Whatever fails and however often the provider repeats itself, the log has one
\* acceptance and one proposal of an event, in this order and before the cursor
\* reaches it; no worker is spawned twice; and every event gets through, or a
\* newer one has, in which case it may be rejected without a proposal.
EventsGetThrough == Stream!StreamSpec
=============================================================================
