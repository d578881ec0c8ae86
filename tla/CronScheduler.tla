--------------------------- MODULE CronScheduler ----------------------------
(***************************************************************************)
(* The cron scheduler of one agent (src/src/daemon/cron-scheduler.ts): a   *)
(* tick every 30 s walks the schedule and awaits each dispatch with its    *)
(* retries, so a tick may find earlier ones still under way.  The schedule *)
(* is a Map of mutable objects that a reload replaces by another Map with  *)
(* other objects, while the ticks under way hold on to the old ones.       *)
(*                                                                         *)
(* A slot is a time at which a cron is due, and with its cron a run of     *)
(* CronReceipts; slots are numbered as they are computed.  A tick at       *)
(* "visit" is in the synchronous part of its loop: nothing else runs then. *)
(* Receipts are appended atomically (ReceiptJournal).  A dispatch key that *)
(* was delivered is refused when it comes again, but for a replay after a  *)
(* restart (WorkIntake).                                                   *)
(***************************************************************************)
EXTENDS Naturals, FiniteSets

CONSTANTS
  Crons,        \* 1..n, in the order of crons.json
  Ticks,        \* bound: ticks that are under way together
  MaxTries,     \* attempts of a fire
  MaxSlots,     \* bound: a slot beyond it never comes
  MaxEdits,     \* bound: changes of crons.json from outside
  MaxMishaps    \* bound: failed dispatches and writes, crashes, stops

ASSUME CronAssumption ==
  /\ IsFiniteSet(Crons) /\ IsFiniteSet(Ticks) /\ Crons \subseteq Nat \ {0} /\ MaxTries \in Nat \ {0}
  /\ MaxSlots \in Nat /\ MaxEdits \in Nat /\ MaxMishaps \in Nat

VARIABLES
  file,         \* crons.json: the version of each definition, 0: none or disabled
  fired,        \* ... and the slot of its last_fired_at
  changed,      \* the mtime of the file is not the one of the last load
  up,           \* the scheduler is started
  map,          \* this.scheduled: the object of each cron, 0: none
  obj,          \* the objects
  slots,        \* the slots computed so far for each cron
  tick,         \* how far each tick is
  view,         \* the objects each tick walks
  book,         \* the receipts
  delivered,    \* the dispatch keys the agent was given: cron, slot, attempt
  stray,        \* history: a fire went on with an object that a reload had replaced
  bounds        \* how much of MaxEdits and MaxMishaps is used up

cronVars == <<file, fired, changed, up, map, obj, slots, tick, view, book,
              delivered, stray, bounds>>

Slots == 1..MaxSlots
CronRuns == Crons \X Slots
R == INSTANCE CronReceipts
       WITH Runs <- CronRuns, Attempts <- 1..MaxTries,
            latest <- book.latest, accepted <- book.accepted

\* One object of a cron for the Map and one for each tick that walks an older one.
Copies == 1..(Cardinality(Ticks) + 1)
\* slot: nextFireAt, 0: beyond the bound; due: it has come; run: recoveryOutcome.
Object == [key : 0..(MaxEdits + 1), slot : Slots \cup {0}, due : BOOLEAN, firing : BOOLEAN,
           run : [slot : Slots \cup {0}, state : {"none", "scheduled", "started"}, attempt : 0..MaxTries]]
NoRun == [slot |-> 0, state |-> "none", attempt |-> 0]
NoObject == [key |-> 0, slot |-> 0, due |-> FALSE, firing |-> FALSE, run |-> NoRun]

\* at: between two ticks; in the loop; about to write the intent; in onFire; in
\* the sleep between two attempts; behind the last attempt.
\* due: the crons the loop has still to look at, of those whose time had come
\* when the tick began; cron: the one that is fired, for the run of `slot`, up
\* to the attempt `last`; resumed: it had a recoveryOutcome; newest: the tick
\* walks this.scheduled itself; aborted: its scheduler was stopped.
Tick == [at : {"idle", "visit", "intent", "dispatch", "backoff", "giveUp"},
         due : SUBSET Crons, cron : Crons \cup {0}, slot : Slots \cup {0},
         attempt : 0..MaxTries, last : 0..MaxTries,
         resumed : BOOLEAN, newest : BOOLEAN, aborted : BOOLEAN]
NoTick == [at |-> "idle", due |-> {}, cron |-> 0, slot |-> 0, attempt |-> 0, last |-> 0,
           resumed |-> FALSE, newest |-> FALSE, aborted |-> FALSE]
Off == [c \in Crons |-> 0]

CronTypeOK ==
  /\ file \in [Crons -> 0..(MaxEdits + 1)] /\ fired \in [Crons -> Slots \cup {0}]
  /\ changed \in BOOLEAN /\ up \in BOOLEAN /\ stray \in BOOLEAN
  /\ map \in [Crons -> Copies \cup {0}] /\ obj \in [Crons -> [Copies -> Object]]
  /\ slots \in [Crons -> 0..MaxSlots]
  /\ tick \in [Ticks -> Tick] /\ view \in [Ticks -> [Crons -> Copies \cup {0}]]
  /\ book.latest \in [CronRuns -> R!Newest] /\ book.accepted \subseteq R!Receipt
  /\ delivered \subseteq Crons \X Slots \X (1..MaxTries)
  /\ bounds \in [edits : 0..MaxEdits, mishaps : 0..MaxMishaps]

CronInit ==
  /\ file = [c \in Crons |-> 1] /\ fired = Off /\ changed = FALSE
  /\ up = FALSE /\ map = Off /\ slots = Off
  /\ obj = [c \in Crons |-> [k \in Copies |-> NoObject]]
  /\ tick = [t \in Ticks |-> NoTick] /\ view = [t \in Ticks |-> Off]
  /\ book = [latest |-> [r \in CronRuns |-> R!Nothing], accepted |-> {}]
  /\ delivered = {} /\ stray = FALSE
  /\ bounds = [edits |-> 0, mishaps |-> 0]

-----------------------------------------------------------------------------
(* Helpers *)

Least(S) == CHOOSE x \in S : \A y \in S : x <= y
Mishap == bounds.mishaps < MaxMishaps /\ bounds' = [bounds EXCEPT !.mishaps = @ + 1]

\* The event loop is free.
Quiet == \A t \in Ticks : tick[t].at \in {"idle", "dispatch", "backoff"}
Working(t) == tick[t].at \notin {"idle", "visit"}

\* Receipts.
Row(c, s, state, attempt) == [run |-> <<c, s>>, state |-> state, attempt |-> attempt]
Grants(b, row) == row \in b.accepted \/ R!Follows(row, b.latest[row.run])
With(b, row) ==
  IF row \in b.accepted THEN b
  ELSE [latest |-> R!Put(row, b.latest), accepted |-> b.accepted \cup {row}]

\* The runs getActiveCronOutcome returns, and the first of them.
Pending(b, c) == {s \in Slots : b.latest[<<c, s>>].state \in {"scheduled", "started"}}
Active(b, c) ==
  IF Pending(b, c) = {} THEN NoRun
  ELSE LET s == Least(Pending(b, c))
       IN [slot |-> s, state |-> b.latest[<<c, s>>].state, attempt |-> b.latest[<<c, s>>].attempt]

NextSlot(c) == IF slots[c] < MaxSlots THEN slots[c] + 1 ELSE 0
\* An object nobody can reach any more is forgotten.
Reachable(o, m, v) ==
  [c \in Crons |-> [k \in Copies |->
     IF k = m[c] \/ \E t \in Ticks : v[t][c] = k THEN o[c][k] ELSE NoObject]]

-----------------------------------------------------------------------------
(* loadCrons *)

\* A copy of the object that no tick holds.
Fresh(c) == Least(Copies \ {view[t][c] : t \in Ticks})
Held(c) == obj[c][map[c]]
Kept(c) == map[c] # 0 /\ Held(c).firing
Copied(c) == map[c] # 0 /\ ~Held(c).firing /\ Held(c).key = file[c]

\* Pending runs that last_fired_at covers are closed.
Healed(c) == {s \in Pending(book, c) : s <= fired[c]}
HealedRow(c, s) ==
  Row(c, s, IF book.latest[<<c, s>>].state = "started" THEN "dispatched" ELSE "failed",
      book.latest[<<c, s>>].attempt)
HealedBook(crons) ==
  LET rows == UNION {{HealedRow(c, s) : s \in Healed(c)} : c \in crons}
  IN [latest |-> [r \in CronRuns |->
                    IF \E row \in rows : row.run = r
                    THEN LET row == CHOOSE row \in rows : row.run = r
                         IN [state |-> row.state, attempt |-> row.attempt]
                    ELSE book.latest[r]],
      accepted |-> book.accepted \cup rows]

\* A cron that is new or has changed: its next slot may have passed, and a run
\* that is pending is taken up first.
Made(c, missed, run) ==
  [key |-> file[c], slot |-> NextSlot(c), firing |-> FALSE, run |-> run,
   due |-> run # NoRun \/ (missed[c] /\ NextSlot(c) # 0)]

\* keeps, copies: what becomes of the objects of the replaced Map.
Loads(keeps, copies) ==
  LET listed == {c \in Crons : file[c] # 0}
      made == listed \ (keeps \cup copies)
  IN \E missed \in [made -> BOOLEAN], healed \in {book, HealedBook(made)} :
       /\ map' = [c \in Crons |->
                    CASE c \notin listed -> 0
                      [] c \in listed \cap keeps -> map[c]
                      [] OTHER -> Fresh(c)]
       /\ obj' = Reachable(
                   [c \in Crons |->
                      CASE c \in made ->
                             [obj[c] EXCEPT ![Fresh(c)] =
                                Made(c, missed, IF healed = HealedBook(made) THEN Active(healed, c) ELSE NoRun)]
                        [] c \in (listed \cap copies) \ keeps -> [obj[c] EXCEPT ![Fresh(c)] = Held(c)]
                        [] OTHER -> obj[c]],
                   map', view)
       /\ book' = healed
       /\ slots' = [c \in Crons |-> IF c \in made /\ slots[c] < MaxSlots THEN slots[c] + 1 ELSE slots[c]]
       /\ changed' = FALSE
       /\ stray' = (stray \/ \E t \in Ticks :
                      LET c == tick[t].cron
                      IN Working(t) /\ ~tick[t].aborted /\ view[t][c] = map[c] /\ map'[c] # map[c])

\* Mutant: the unchanged definition is looked at before the firing mark.
ReloadsCopying == Loads({c \in Crons : Kept(c) /\ Held(c).key # file[c]},
                        {c \in Crons : map[c] # 0 /\ Held(c).key = file[c]})

\* reload(): an object that is firing stays, an unchanged one is copied.
Reloads == Loads({c \in Crons : Kept(c)}, {c \in Crons : Copied(c)})

\* start(): everything is made anew.
Starts ==
  /\ ~up /\ Quiet
  /\ up' = TRUE
  /\ Loads({}, {})
  /\ UNCHANGED <<file, fired, tick, view, delivered, bounds>>

\* reload() asked for over IPC.
ReloadAsked ==
  /\ up /\ Quiet
  /\ Reloads
  /\ tick' = [t \in Ticks |-> [tick[t] EXCEPT !.newest = FALSE]]
  /\ UNCHANGED <<file, fired, up, view, delivered, bounds>>

-----------------------------------------------------------------------------
(* tick *)

\* The interval fires; with nothing changed and nothing to fire it does nothing.
TickBegins(t) ==
  /\ up /\ Quiet /\ tick[t].at = "idle"
  /\ changed \/ \E c \in Crons : map[c] # 0 /\ Held(c).due /\ ~Held(c).firing
  /\ IF changed THEN Reloads ELSE UNCHANGED <<map, obj, book, slots, changed, stray>>
  /\ view' = [view EXCEPT ![t] = map']
  /\ tick' = [u \in Ticks |->
                IF u = t THEN [NoTick EXCEPT !.at = "visit", !.newest = TRUE,
                                 !.due = {c \in Crons : map'[c] # 0 /\ obj'[c][map'[c]].due}]
                ELSE [tick[u] EXCEPT !.newest = @ /\ ~changed]]
  /\ UNCHANGED <<file, fired, up, delivered, bounds>>

Walked(t, c) == obj[c][view[t][c]]
Ready(t) == {c \in tick[t].due : Walked(t, c).due /\ ~Walked(t, c).firing}

TickEnds(t) ==
  /\ tick[t].at = "visit" /\ Ready(t) = {}
  /\ tick' = [tick EXCEPT ![t] = NoTick]
  /\ view' = [view EXCEPT ![t] = Off]
  /\ obj' = Reachable(obj, map, view')
  /\ UNCHANGED <<file, fired, changed, up, map, slots, book, delivered, stray, bounds>>

\* The receipt of the slot cannot be written: the cron stays due.
NotScheduled(t) ==
  /\ tick[t].at = "visit" /\ Ready(t) # {} /\ Mishap
  /\ tick' = [tick EXCEPT ![t].due = {c \in @ : c > Least(Ready(t))}]
  /\ UNCHANGED <<file, fired, changed, up, map, obj, slots, view, book, delivered, stray>>

\* The next cron of the loop is marked and its slot has a receipt; the write of
\* last_fire_attempted_at may fail.
Schedules(t) ==
  LET c == Least(Ready(t))
      o == Walked(t, c)
      s == IF o.run = NoRun THEN o.slot ELSE o.run.slot
      resumes == o.run.state = "started"
  IN /\ tick[t].at = "visit" /\ Ready(t) # {}
     /\ Grants(book, Row(c, s, "scheduled", 1))
     /\ book' = With(book, Row(c, s, "scheduled", 1))
     /\ obj' = [obj EXCEPT ![c][view[t][c]] = [o EXCEPT !.firing = TRUE, !.run = NoRun]]
     /\ tick' = [tick EXCEPT ![t] = [tick[t] EXCEPT !.at = "intent", !.due = {d \in @ : d > c},
                   !.cron = c, !.slot = s, !.resumed = o.run # NoRun,
                   !.attempt = IF resumes THEN o.run.attempt ELSE 1,
                   !.last = IF resumes THEN o.run.attempt ELSE MaxTries]]
     /\ changed' \in {changed, changed \/ file[c] # 0}
     /\ stray' = (stray \/ (~tick[t].aborted /\ map[c] # view[t][c]))
     /\ UNCHANGED <<file, fired, up, map, slots, view, delivered, bounds>>

TickGoes(t, stage) == tick' = [tick EXCEPT ![t].at = stage]
Started(t) == Row(tick[t].cron, tick[t].slot, "started", tick[t].attempt)

\* writeIntent, and the attempt begins.
Intends(t) ==
  /\ tick[t].at = "intent" /\ ~tick[t].aborted /\ Grants(book, Started(t))
  /\ book' = With(book, Started(t))
  /\ TickGoes(t, "dispatch")
  /\ UNCHANGED <<file, fired, changed, up, map, obj, slots, view, delivered, stray, bounds>>

\* The scheduler is stopped, or the intent is refused or cannot be written.
IntendsNot(t) ==
  /\ tick[t].at = "intent"
  /\ \/ (tick[t].aborted \/ ~Grants(book, Started(t))) /\ UNCHANGED bounds
     \/ Mishap
  /\ TickGoes(t, "giveUp")
  /\ UNCHANGED <<file, fired, changed, up, map, obj, slots, view, book, delivered, stray>>

Key(t) == <<tick[t].cron, tick[t].slot, tick[t].attempt>>

\* Mutant: one attempt too many.
DispatchFailsOnceMore(t) ==
  /\ Quiet /\ tick[t].at = "dispatch"
  /\ (Key(t) \in delivered /\ UNCHANGED bounds) \/ (Key(t) \notin delivered /\ Mishap)
  /\ TickGoes(t, IF tick[t].attempt <= tick[t].last THEN "backoff" ELSE "giveUp")
  /\ UNCHANGED <<file, fired, changed, up, map, obj, slots, view, book, delivered, stray>>

\* onFire throws, on a key that was delivered in any case.
DispatchFails(t) ==
  /\ Quiet /\ tick[t].at = "dispatch"
  /\ (Key(t) \in delivered /\ UNCHANGED bounds) \/ (Key(t) \notin delivered /\ Mishap)
  /\ TickGoes(t, IF tick[t].attempt < tick[t].last THEN "backoff" ELSE "giveUp")
  /\ UNCHANGED <<file, fired, changed, up, map, obj, slots, view, book, delivered, stray>>

\* Mutant: a stopped scheduler's sleep runs out and the next attempt is made.
WakesAnyway(t) ==
  /\ Quiet /\ tick[t].at = "backoff"
  /\ tick' = [tick EXCEPT ![t].at = "intent", ![t].attempt = @ + 1, ![t].aborted = FALSE]
  /\ UNCHANGED <<file, fired, changed, up, map, obj, slots, view, book, delivered, stray, bounds>>

\* The sleep is over, or cut short by stop().
Wakes(t) ==
  /\ Quiet /\ tick[t].at = "backoff"
  /\ tick' = IF tick[t].aborted THEN [tick EXCEPT ![t].at = "giveUp"]
             ELSE [tick EXCEPT ![t].at = "intent", ![t].attempt = @ + 1]
  /\ UNCHANGED <<file, fired, changed, up, map, obj, slots, view, book, delivered, stray, bounds>>

\* The object is moved to its next slot and unmarked, unless another pending
\* run of the cron is to be taken up.  Ticks that share the object find that
\* its time has not come.
Advances(t, b, goesOn) ==
  LET c == tick[t].cron
      run == IF goesOn THEN Active(b, c) ELSE NoRun
  IN /\ book' = b
     /\ obj' = [obj EXCEPT ![c][view[t][c]] =
                  [slot |-> NextSlot(c), due |-> run # NoRun, firing |-> FALSE, run |-> run, key |-> @.key]]
     /\ slots' = [slots EXCEPT ![c] = IF @ < MaxSlots THEN @ + 1 ELSE @]
     /\ tick' = [u \in Ticks |->
                   CASE u = t -> [NoTick EXCEPT !.at = "visit", !.due = tick[t].due,
                                    !.newest = tick[t].newest, !.aborted = tick[t].aborted]
                     [] u # t /\ view[u][c] = view[t][c] -> [tick[u] EXCEPT !.due = @ \ {c}]
                     [] OTHER -> tick[u]]

\* onFire resolves.  The receipt and last_fired_at may fail to be written.
Delivers(t) ==
  LET c == tick[t].cron
      sent == Row(c, tick[t].slot, "dispatched", tick[t].attempt)
      reached == Walked(t, c).slot
  IN /\ Quiet /\ tick[t].at = "dispatch" /\ (Key(t) \in delivered => tick[t].resumed)
     /\ delivered' = delivered \cup {Key(t)}
     /\ \/ Grants(book, sent) /\ UNCHANGED bounds /\ Advances(t, With(book, sent), tick[t].resumed)
        \/ ~Grants(book, sent) /\ UNCHANGED bounds /\ Advances(t, book, FALSE)
        \/ Grants(book, sent) /\ Mishap /\ Advances(t, book, FALSE)
     /\ \/ file[c] # 0 /\ changed' = TRUE
           /\ fired' = [fired EXCEPT ![c] = IF reached = 0 THEN MaxSlots ELSE reached]
        \/ UNCHANGED <<changed, fired>>
     /\ UNCHANGED <<file, up, map, view, stray>>

\* The fire was not delivered: the run has failed, the slot is missed.
GivesUpFire(t) ==
  LET failed == Row(tick[t].cron, tick[t].slot, "failed", tick[t].attempt)
  IN /\ tick[t].at = "giveUp"
     /\ \/ Grants(book, failed) /\ UNCHANGED bounds /\ Advances(t, With(book, failed), tick[t].resumed)
        \/ ~Grants(book, failed) /\ UNCHANGED bounds /\ Advances(t, book, FALSE)
        \/ Grants(book, failed) /\ Mishap /\ Advances(t, book, FALSE)
     /\ UNCHANGED <<file, fired, changed, up, map, view, delivered, stray>>

-----------------------------------------------------------------------------
(* Time, edits, stops and crashes *)

TimePasses(c) ==
  /\ Quiet /\ up /\ map[c] # 0 /\ Held(c).slot # 0 /\ ~Held(c).due
  /\ obj' = [obj EXCEPT ![c][map[c]].due = TRUE]
  /\ UNCHANGED <<file, fired, changed, up, map, slots, tick, view, book, delivered, stray, bounds>>

\* A command line process adds, changes, disables or removes a cron.
Edits(c) ==
  /\ Quiet /\ bounds.edits < MaxEdits
  /\ bounds' = [bounds EXCEPT !.edits = @ + 1]
  /\ \E version \in {0, bounds.edits + 2} \ {file[c]} : file' = [file EXCEPT ![c] = version]
  /\ changed' = TRUE
  /\ UNCHANGED <<fired, up, map, obj, slots, tick, view, book, delivered, stray>>

\* reconcileCronOutcomes, from the command line, closes a run that has waited
\* too long.
Reconciles(c, s) ==
  /\ Quiet /\ book.latest[<<c, s>>].state \in {"scheduled", "started", "dispatched"}
  /\ book' = With(book, Row(c, s, "failed", book.latest[<<c, s>>].attempt))
  /\ UNCHANGED <<file, fired, changed, up, map, obj, slots, tick, view, delivered, stray, bounds>>

\* stop(): the Map is cleared under the ticks that walk it.
Stops ==
  /\ Quiet /\ up /\ Mishap
  /\ up' = FALSE /\ map' = Off
  /\ tick' = [t \in Ticks |->
                IF tick[t].at = "idle" THEN tick[t]
                ELSE [tick[t] EXCEPT !.aborted = TRUE, !.due = IF tick[t].newest THEN {} ELSE @]]
  /\ obj' = Reachable(obj, map', view)
  /\ UNCHANGED <<file, fired, changed, slots, view, book, delivered, stray>>

\* The daemon dies.
DaemonDies ==
  /\ Quiet /\ up /\ Mishap
  /\ up' = FALSE /\ map' = Off
  /\ tick' = [t \in Ticks |-> NoTick] /\ view' = [t \in Ticks |-> Off]
  /\ obj' = Reachable(obj, map', view')
  /\ UNCHANGED <<file, fired, changed, slots, book, delivered, stray>>

TickStep(t) ==
  \/ TickEnds(t) \/ NotScheduled(t) \/ Schedules(t) \/ Intends(t) \/ IntendsNot(t)
  \/ DispatchFails(t) \/ Wakes(t) \/ Delivers(t) \/ GivesUpFire(t)

CronNext ==
  \/ Starts \/ ReloadAsked \/ Stops \/ DaemonDies
  \/ \E t \in Ticks : TickBegins(t) \/ TickStep(t)
  \/ \E c \in Crons : TimePasses(c) \/ Edits(c) \/ \E s \in Slots : Reconciles(c, s)

\* The interval and the timers fire, every dispatch settles, and a scheduler
\* that was stopped is succeeded by another.
CronFairness ==
  /\ WF_cronVars(Starts) /\ WF_cronVars(\E t \in Ticks : TickBegins(t))
  /\ \A t \in Ticks : WF_cronVars(TickStep(t))

CronSpec == CronInit /\ [][CronNext]_cronVars /\ CronFairness

-----------------------------------------------------------------------------
(* Properties *)

\* A mark of firing is that of a tick which will unmark this very object.
FiringIsWorked ==
  \A c \in Crons :
    map[c] # 0 /\ Held(c).firing
      => \E t \in Ticks : Working(t) /\ tick[t].cron = c /\ view[t][c] = map[c]

\* A run is delivered under one dispatch key.
OnceDelivered ==
  \A k, l \in delivered : k[1] = l[1] /\ k[2] = l[2] => k = l

\* Reloads neither leave a mark of firing that nobody takes away, which would keep
\* the cron from ever firing again, nor let crashes, stops, retries, lost receipts
\* and replays deliver one run twice; unless, for the latter, a fire went on with
\* an object that a reload had replaced or dropped.
FiresAreSound == FiringIsWorked /\ (stray \/ OnceDelivered)

\* A cron whose time has come is fired or given up, and its next slot computed,
\* whatever reloads, stops and crashes do.
DueIsFired ==
  \A c \in Crons :
    up /\ map[c] # 0 /\ Held(c).due ~> ~(up /\ map[c] # 0 /\ Held(c).due)
=============================================================================
