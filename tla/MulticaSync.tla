---------------------------- MODULE MulticaSync ----------------------------
(***************************************************************************)
(* The two-way sync between the tasks of the bus and the issues of a       *)
(* Multica board (src/src/bus/multica).  A ledger, sync-state.json, links  *)
(* a task to its issue.  Every run is a process: a mirror, spawned when a  *)
(* task has changed, pushes that task under a lock of its own; a full sync *)
(* pushes all tasks, then polls the board for what people changed and      *)
(* filed, and takes no lock.  A process may act between any two calls of   *)
(* the board or writes of a file by another.                               *)
(*                                                                         *)
(* A title is a number: each task that agents make and each issue that     *)
(* people file has its own.  With everything but the status fixed, the     *)
(* hash of the mapped fields is the status on the board.  Assignees,       *)
(* approvals, projects, system tasks, limits, dry runs and issues that     *)
(* quote the id of a task are left out.                                    *)
(***************************************************************************)
EXTENDS Naturals, FiniteSets

CONSTANTS
  Runs,              \* bound: processes that sync at one time
  AgentStatuses,     \* what agents set ...
  HumanStatuses,     \* ... and what people set
  MaxTasks, MaxIssues,
  MaxMade, MaxFiled, \* bounds: tasks made by agents, issues filed by people
  MaxChanges,        \* bound: changes of status by agents and people
  MaxSlips           \* bound: failed calls, failed writes and deaths

VARIABLES
  tasks,   \* the task files; of: the issue named by the import marker
  issues,  \* the board; by: who set the status
  links,   \* sync-state.json; marked: pending_create
  wire,    \* creates whose sender has given up, and that may still land
  mirrors, \* tasks whose mirror has been spawned and has not started
  run,     \* how far each process is, and what it has read
  astray,  \* history: one of the known gaps, named where it is set
  missed,  \* history: a poll passed over what a person had set
  done     \* changes and slips so far

syncVars == <<tasks, issues, links, wire, mirrors, run, astray, missed, done>>

Tasks == 1..MaxTasks
Issues == 1..MaxIssues

ToBoard ==
  [pending |-> "todo", in_progress |-> "in_progress", completed |-> "done",
   blocked |-> "blocked", cancelled |-> "cancelled", waiting |-> "backlog",
   someday |-> "backlog"]
ToBus ==
  [backlog |-> "pending", todo |-> "pending", in_progress |-> "in_progress",
   in_review |-> "in_progress", done |-> "completed", blocked |-> "blocked",
   cancelled |-> "cancelled"]

ASSUME SyncAssumption ==
  /\ {MaxTasks, MaxIssues, MaxMade, MaxFiled, MaxChanges, MaxSlips} \subseteq Nat
  /\ AgentStatuses \subseteq DOMAIN ToBoard /\ HumanStatuses \subseteq DOMAIN ToBus

Open == {"pending", "in_progress", "blocked", "waiting"}

NoTask == [status |-> "none", title |-> 0, of |-> 0]
NoIssue == [status |-> "none", title |-> 0, by |-> "none"]
NoLink == [issue |-> 0, pushed |-> "none", seen |-> "none", marked |-> FALSE]

\* only: the task of a mirror, 0 for a full sync; todo: what is left of the present
\* loop; task, issue: what is worked on; links, tasks, board: what it has read.
Idle ==
  [at |-> "idle", only |-> 0, todo |-> {}, task |-> 0, issue |-> 0,
   links |-> [t \in Tasks |-> NoLink], tasks |-> [t \in Tasks |-> "none"],
   board |-> [i \in Issues |-> NoIssue], listed |-> FALSE]
Stations ==
  {"idle", "push", "list", "mark", "post", "put", "link", "fetch", "load",
   "poll", "refresh", "import", "made", "tie"}

SyncTypeOK ==
  /\ \A t \in Tasks : tasks[t].status \in DOMAIN ToBoard \cup {"none"} /\ tasks[t].of \in Issues \cup {0}
  /\ \A i \in Issues : issues[i].status \in DOMAIN ToBus \cup {"none"}
                       /\ issues[i].by \in {"none", "human", "push"}
  /\ links \in [Tasks -> [issue : Issues \cup {0}, pushed : DOMAIN ToBoard \cup {"none"},
                          seen : DOMAIN ToBus \cup {"none"}, marked : BOOLEAN]]
  /\ \A r \in Runs : run[r].at \in Stations
  /\ astray \in BOOLEAN /\ missed \in BOOLEAN
  /\ done \in [made : 0..MaxMade, filed : 0..MaxFiled, changes : 0..MaxChanges, slips : 0..MaxSlips]

Untouched ==
  /\ tasks = [t \in Tasks |-> NoTask]
  /\ issues = [i \in Issues |-> NoIssue]
  /\ links = [t \in Tasks |-> NoLink]
  /\ wire = {} /\ mirrors = {} /\ run = [r \in Runs |-> Idle]
  /\ astray = FALSE /\ missed = FALSE

NothingDone == [made |-> 0, filed |-> 0, changes |-> 0, slips |-> 0]
SyncInit == Untouched /\ done = NothingDone

-----------------------------------------------------------------------------
Lowest(S) == CHOOSE n \in S : \A m \in S : n <= m
\* Bounds: a slot for the next task, and for the next issue.
FreeTasks == {t \in Tasks : tasks[t] = NoTask}
FreeIssues == {i \in Issues : issues[i] = NoIssue}

Slip == done.slips < MaxSlips /\ done' = [done EXCEPT !.slips = @ + 1]
Smooth == UNCHANGED done

At(r, station) == run[r].at = station
To(r, new) == run' = [run EXCEPT ![r] = new]
Moves(r, station) == To(r, [run[r] EXCEPT !.at = station])
\* The present item of the loop is done with.
Turns(r, loop, item) == To(r, [run[r] EXCEPT !.at = loop, !.todo = @ \ {item}, !.task = 0, !.issue = 0])

Title(r) == tasks[run[r].task].title
LinkedIn(ls) == {ls[t].issue : t \in Tasks} \ {0}
Sent(link) == IF link.pushed = "none" THEN "none" ELSE ToBoard[link.pushed]
Statuses == [t \in Tasks |-> tasks[t].status]

-----------------------------------------------------------------------------
(* runMulticaSync, runOutboundPush *)

\* The ledger and the task files are read; mirrors of one task exclude each other,
\* and one cron starts the full syncs.
Starts(r, only) ==
  /\ At(r, "idle") /\ only \in mirrors \cup {0} /\ mirrors' = mirrors \ {only}
  /\ \A q \in Runs : ~At(q, "idle") => run[q].only # only
  /\ To(r, [Idle EXCEPT !.at = "push", !.only = only, !.links = links, !.tasks = Statuses,
                        !.todo = {t \in Tasks : tasks[t] # NoTask /\ only \in {0, t}}])
  /\ UNCHANGED <<tasks, issues, links, wire, astray, missed, done>>

\* A mirror that cannot be spawned, or waits too long for its lock, is lost.
MirrorLost ==
  /\ \E t \in mirrors : mirrors' = mirrors \ {t}
  /\ UNCHANGED <<tasks, issues, links, wire, run, astray, missed, done>>

\* A task is passed over if it is closed and unknown to the ledger, or linked and
\* as it was pushed last.
NeedsPush(r, t) ==
  LET link == run[r].links[t] IN
  IF link.issue = 0
  THEN link # NoLink \/ run[r].tasks[t] \in Open
  ELSE Sent(link) # ToBoard[run[r].tasks[t]]

\* The oldest task first; a marker left on a linked task is cleared.
Picks(r) ==
  /\ At(r, "push") /\ run[r].todo # {}
  /\ LET t == Lowest(run[r].todo)
         link == run[r].links[t] IN
     /\ links' = IF link.issue # 0 /\ link.marked THEN [links EXCEPT ![t].marked = FALSE] ELSE links
     /\ IF NeedsPush(r, t)
        THEN To(r, [run[r] EXCEPT !.task = t, !.issue = link.issue,
                      !.at = IF link.issue # 0 THEN "put" ELSE IF link.marked THEN "list" ELSE "mark"])
        ELSE Turns(r, "push", t)
  /\ UNCHANGED <<tasks, issues, wire, mirrors, astray, missed, done>>

Pushed(r) ==
  /\ At(r, "push") /\ run[r].todo = {}
  /\ IF run[r].only = 0 THEN To(r, [Idle EXCEPT !.at = "fetch"]) ELSE To(r, Idle)
  /\ UNCHANGED <<tasks, issues, links, wire, mirrors, astray, missed, done>>

\* Gap: two runs push one task at once, since a full sync does not take its lock;
\* the other one is at it, or has changed the ledger since this one read it.
Crossed(r) ==
  \/ links[run[r].task] # run[r].links[run[r].task]
  \/ \E q \in Runs \ {r} : run[q].task = run[r].task /\ run[q].at \in {"list", "mark", "post", "put", "link"}

\* The oldest issue of the marker's title that no link of the snapshot names.
Orphans(r, board) ==
  {i \in Issues : board[i].title = Title(r)} \ LinkedIn(run[r].links)

\* An earlier create is looked for on the board, which is fetched once, and
\* adopted; a failed fetch or adoption leaves the task for the next run.  Gap: the
\* create is still on its way, or has landed since the board was fetched.
Lists(r) ==
  /\ At(r, "list")
  /\ LET board == IF run[r].listed THEN run[r].board ELSE issues
         t == run[r].task IN
     \/ /\ Orphans(r, board) # {} /\ Smooth
        /\ LET i == Lowest(Orphans(r, board)) IN
           /\ links' = [links EXCEPT ![t].issue = i, ![t].marked = FALSE]
           /\ To(r, [run[r] EXCEPT !.at = "put", !.issue = i, !.board = board,
                                   !.listed = TRUE, !.links[t].issue = i])
        /\ UNCHANGED astray
     \/ /\ Orphans(r, board) = {} /\ Smooth
        /\ To(r, [run[r] EXCEPT !.at = "mark", !.board = board, !.listed = TRUE])
        /\ astray' = (astray \/ Crossed(r) \/ Orphans(r, issues) # {} \/ \E q \in wire : q.title = Title(r))
        /\ UNCHANGED links
     \/ /\ Slip /\ UNCHANGED <<links, astray>>
        /\ \/ ~run[r].listed /\ Turns(r, "push", t)
           \/ /\ Orphans(r, board) # {}
              /\ To(r, [run[r] EXCEPT !.at = "push", !.todo = @ \ {t}, !.task = 0, !.board = board, !.listed = TRUE])
  /\ UNCHANGED <<tasks, issues, wire, mirrors, missed>>

\* pending_create is written ahead of the create.  Gap: an import made the task and
\* died before it linked it, so that its issue exists.
Marks(r) ==
  /\ At(r, "mark")
  /\ \/ /\ links' = [links EXCEPT ![run[r].task].marked = TRUE]
        /\ Moves(r, "post") /\ astray' = (astray \/ Crossed(r) \/ tasks[run[r].task].of # 0) /\ Smooth
     \/ Slip /\ Turns(r, "push", run[r].task) /\ UNCHANGED <<links, astray>>
  /\ UNCHANGED <<tasks, issues, wire, mirrors, missed>>

NewIssue(title, status, by) == [title |-> title, status |-> status, by |-> by]

\* createIssue: a create that fails may have landed, or land later.
Posts(r) ==
  /\ At(r, "post") /\ FreeIssues # {}
  /\ LET i == Lowest(FreeIssues)
         issue == NewIssue(Title(r), ToBoard[run[r].tasks[run[r].task]], "push") IN
     \/ /\ issues' = [issues EXCEPT ![i] = issue] /\ Smooth
        /\ To(r, [run[r] EXCEPT !.at = "link", !.issue = i]) /\ UNCHANGED wire
     \/ /\ Slip /\ Turns(r, "push", run[r].task)
        /\ \/ issues' = [issues EXCEPT ![i] = issue] /\ UNCHANGED wire
           \/ wire' = wire \cup {issue} /\ UNCHANGED issues
           \/ UNCHANGED <<issues, wire>>
  /\ UNCHANGED <<tasks, links, mirrors, astray, missed>>

Lands ==
  /\ FreeIssues # {}
  /\ \E issue \in wire :
       wire' = wire \ {issue} /\ issues' = [issues EXCEPT ![Lowest(FreeIssues)] = issue]
  /\ UNCHANGED <<tasks, links, mirrors, run, astray, missed, done>>

\* updateIssue
Puts(r) ==
  /\ At(r, "put")
  /\ LET sent == [issues EXCEPT ![run[r].issue].status = ToBoard[run[r].tasks[run[r].task]],
                                ![run[r].issue].by = "push"] IN
     \/ issues' = sent /\ Moves(r, "link") /\ Smooth
     \/ issues' \in {issues, sent} /\ Slip /\ Turns(r, "push", run[r].task)
  /\ astray' = (astray \/ Crossed(r))
  /\ UNCHANGED <<tasks, links, wire, mirrors, missed>>

\* Mutant: the status of the task by now is recorded.
LinksCurrent(r) ==
  /\ At(r, "link")
  /\ links' = [links EXCEPT ![run[r].task].issue = run[r].issue, ![run[r].task].marked = FALSE,
                            ![run[r].task].pushed = tasks[run[r].task].status]
  /\ Turns(r, "push", run[r].task)
  /\ UNCHANGED <<tasks, issues, wire, mirrors, astray, missed, done>>

\* The push is recorded: the status that was sent, the issue, no marker.
Links(r) ==
  /\ At(r, "link")
  /\ LET t == run[r].task
         i == run[r].issue IN
     \/ /\ links' = [links EXCEPT ![t].issue = i, ![t].pushed = run[r].tasks[t], ![t].marked = FALSE]
        /\ To(r, [run[r] EXCEPT !.at = "push", !.todo = @ \ {t}, !.task = 0, !.issue = 0,
                                !.links[t].issue = i])
        /\ Smooth
     \/ Slip /\ Turns(r, "push", t) /\ UNCHANGED links
  /\ UNCHANGED <<tasks, issues, wire, mirrors, astray, missed>>

-----------------------------------------------------------------------------
(* runInboundPoll *)

Fetches(r) ==
  /\ At(r, "fetch")
  /\ \/ To(r, [run[r] EXCEPT !.at = "load", !.board = issues]) /\ Smooth
     \/ To(r, Idle) /\ Slip
  /\ UNCHANGED <<tasks, issues, links, wire, mirrors, astray, missed>>

Loads(r) ==
  /\ At(r, "load")
  /\ To(r, [run[r] EXCEPT !.at = "poll", !.links = links, !.tasks = Statuses,
                          !.todo = {t \in Tasks : links[t].issue # 0 /\ run[r].board[links[t].issue] # NoIssue}])
  /\ UNCHANGED <<tasks, issues, links, wire, mirrors, astray, missed, done>>

\* listTasks hides the cancelled ones.
Visible(r, t) == run[r].tasks[t] \notin {"none", "cancelled"}

\* What the poll has seen: a status that is new, no echo of the last push, and not
\* what the task has.
ShouldWriteStatus(r, t) ==
  LET polled == run[r].board[run[r].links[t].issue].status
      link == run[r].links[t] IN
  /\ polled # link.seen
  /\ polled # Sent(link)
  /\ ToBus[polled] # run[r].tasks[t]

\* One task of the ledger: its status is written back unless it is closed; a
\* failed write is counted and passed over.  Gap: the board was fetched before a
\* mirror recorded its push, and that push is taken for a change by a person.
Polls(r) ==
  /\ At(r, "poll") /\ run[r].todo # {}
  /\ LET t == Lowest(run[r].todo)
         polled == run[r].board[run[r].links[t].issue]
         writes == Visible(r, t) /\ run[r].tasks[t] # "completed" /\ ShouldWriteStatus(r, t) IN
     /\ \/ writes /\ tasks' = [tasks EXCEPT ![t].status = ToBus[polled.status]] /\ Smooth
        \/ writes /\ Slip /\ UNCHANGED tasks
        \/ ~writes /\ Smooth /\ UNCHANGED tasks
     /\ missed' = (missed \/ (polled.by = "human" /\ tasks'[t].status # ToBus[polled.status]))
     /\ astray' = (astray \/ (writes /\ polled.by = "push"))
     /\ To(r, [run[r] EXCEPT !.at = "refresh", !.task = t])
  /\ UNCHANGED <<issues, links, wire, mirrors>>

\* refreshObservedLink, whether or not the write came through; its failure ends the poll.
Refreshes(r) ==
  /\ At(r, "refresh")
  /\ LET t == run[r].task IN
     \/ /\ links' = [links EXCEPT ![t].seen = run[r].board[run[r].links[t].issue].status]
        /\ Turns(r, "poll", t) /\ Smooth
     \/ Slip /\ To(r, Idle) /\ UNCHANGED links
  /\ UNCHANGED <<tasks, issues, wire, mirrors, astray, missed>>

-----------------------------------------------------------------------------
(* runReverseImport *)

\* Issues of the board that no link names and that are not closed.
ImportBegins(r) ==
  /\ At(r, "poll") /\ run[r].todo = {}
  /\ To(r, [run[r] EXCEPT !.at = "import",
              !.todo = {i \in Issues \ LinkedIn(run[r].links) :
                          run[r].board[i].status \notin {"none", "done", "cancelled"}}])
  /\ UNCHANGED <<tasks, issues, links, wire, mirrors, astray, missed, done>>

\* A task that a dead import made: it is linked.
Heals(r, i, t) ==
  \/ /\ links' = [links EXCEPT ![t].issue = i, ![t].pushed = tasks[t].status,
                               ![t].seen = run[r].board[i].status]
     /\ Turns(r, "import", i) /\ Smooth
  \/ Slip /\ To(r, Idle) /\ UNCHANGED links

\* createTask.  Gaps: the issue is one that a push has made and not recorded; the
\* task of an import that died has been cancelled, so that listTasks hides it.
Creates(r, i) ==
  \/ /\ FreeTasks # {} /\ Smooth
     /\ LET t == Lowest(FreeTasks) IN
        /\ tasks' = [tasks EXCEPT ![t] = [status |-> "pending", title |-> run[r].board[i].title, of |-> i]]
        /\ To(r, [run[r] EXCEPT !.at = "made", !.task = t, !.issue = i])
     /\ astray' = (astray \/ \E t \in Tasks :
                     \/ tasks[t].of = i
                     \/ run[r].links[t].marked /\ tasks[t].title = run[r].board[i].title)
  \/ Slip /\ Turns(r, "import", i) /\ UNCHANGED <<tasks, astray>>

Imports(r) ==
  /\ At(r, "import") /\ run[r].todo # {}
  /\ LET i == Lowest(run[r].todo)
         made == {t \in Tasks : Visible(r, t) /\ tasks[t].of = i} IN
     \/ made # {} /\ Heals(r, i, Lowest(made)) /\ UNCHANGED <<tasks, astray>>
     \/ made = {} /\ Creates(r, i) /\ UNCHANGED links
  /\ UNCHANGED <<issues, wire, mirrors, missed>>

Imported(r) ==
  /\ At(r, "import") /\ run[r].todo = {}
  /\ To(r, Idle)
  /\ UNCHANGED <<tasks, issues, links, wire, mirrors, astray, missed, done>>

\* The status of the issue is given to the task that was made, which is pending.
SetsStatus(r) ==
  LET status == ToBus[run[r].board[run[r].issue].status] IN
  /\ At(r, "made")
  /\ \/ /\ tasks' = IF status = "pending" THEN tasks ELSE [tasks EXCEPT ![run[r].task].status = status]
        /\ Moves(r, "tie") /\ Smooth
     \/ /\ status # "pending" /\ Slip
        /\ Turns(r, "import", run[r].issue) /\ UNCHANGED tasks
  /\ UNCHANGED <<issues, links, wire, mirrors, astray, missed>>

\* The new task is linked, as if it had been pushed and seen.
Ties(r) ==
  /\ At(r, "tie")
  /\ LET t == run[r].task
         i == run[r].issue IN
     \/ /\ links' = [links EXCEPT ![t].issue = i, ![t].pushed = tasks[t].status,
                                  ![t].seen = run[r].board[i].status]
        /\ Smooth
     \/ Slip /\ UNCHANGED links
  /\ Turns(r, "import", run[r].issue)
  /\ UNCHANGED <<tasks, issues, wire, mirrors, astray, missed>>

-----------------------------------------------------------------------------
(* Agents, people, and runs that die *)

AgentCreates ==
  /\ done.made < MaxMade /\ FreeTasks # {}
  /\ done' = [done EXCEPT !.made = @ + 1]
  /\ tasks' = [tasks EXCEPT ![Lowest(FreeTasks)] = [status |-> "pending", title |-> 1 + done.made, of |-> 0]]
  /\ mirrors' = mirrors \cup {Lowest(FreeTasks)}
  /\ UNCHANGED <<issues, links, wire, run, astray, missed>>

PersonFiles ==
  /\ done.filed < MaxFiled /\ FreeIssues # {}
  /\ done' = [done EXCEPT !.filed = @ + 1]
  /\ issues' = [issues EXCEPT ![Lowest(FreeIssues)] = NewIssue(MaxMade + 1 + done.filed, "todo", "human")]
  /\ UNCHANGED <<tasks, links, wire, mirrors, run, astray, missed>>

Change == done.changes < MaxChanges /\ done' = [done EXCEPT !.changes = @ + 1]

AgentSets ==
  /\ Change
  /\ \E t \in Tasks : \E s \in AgentStatuses :
       tasks[t] # NoTask /\ tasks[t].status # s /\ tasks' = [tasks EXCEPT ![t].status = s]
       /\ mirrors' = mirrors \cup {t}
  /\ UNCHANGED <<issues, links, wire, run, astray, missed>>

PersonSets ==
  /\ Change
  /\ \E i \in Issues : \E s \in HumanStatuses :
       issues[i] # NoIssue /\ issues[i].status # s
       /\ issues' = [issues EXCEPT ![i].status = s, ![i].by = "human"]
  /\ UNCHANGED <<tasks, links, wire, mirrors, run, astray, missed>>

\* A create that is under way when its run dies may still land.
Dies(r) ==
  /\ ~At(r, "idle") /\ Slip /\ To(r, Idle)
  /\ \/ UNCHANGED wire
     \/ At(r, "post") /\ wire' = wire \cup {NewIssue(Title(r), ToBoard[run[r].tasks[run[r].task]], "push")}
  /\ UNCHANGED <<tasks, issues, links, mirrors, astray, missed>>

-----------------------------------------------------------------------------
SyncGoesOn(r) ==
  \/ Picks(r) \/ Pushed(r) \/ Lists(r) \/ Marks(r) \/ Posts(r) \/ Puts(r) \/ Links(r)
  \/ Fetches(r) \/ Loads(r) \/ Polls(r) \/ Refreshes(r)
  \/ ImportBegins(r) \/ Imports(r) \/ SetsStatus(r) \/ Ties(r) \/ Imported(r)

SyncNext ==
  \/ \E r \in Runs : SyncGoesOn(r) \/ Dies(r) \/ \E only \in Tasks \cup {0} : Starts(r, only)
  \/ MirrorLost \/ Lands \/ AgentCreates \/ PersonFiles \/ AgentSets \/ PersonSets

\* A cron starts full syncs again and again, and a run goes on.
SyncFairness ==
  /\ WF_syncVars(\E r \in Runs : Starts(r, 0))
  /\ \A r \in Runs : WF_syncVars(SyncGoesOn(r))
  /\ WF_syncVars(Lands)

SyncSpec == SyncInit /\ [][SyncNext]_syncVars /\ SyncFairness

-----------------------------------------------------------------------------
(* Properties *)

\* No two tasks stand for one thing, and no two issues.
OneToOne ==
  /\ \A i, j \in Issues : issues[i] # NoIssue /\ issues[i].title = issues[j].title => i = j
  /\ \A t, u \in Tasks : tasks[t] # NoTask /\ tasks[t].title = tasks[u].title => t = u

\* A status reads the same on both sides; a task that was closed before the ledger
\* knew it has no issue.
Agrees(t) ==
  LET i == links[t].issue IN
  IF i = 0
  THEN links[t] = NoLink /\ tasks[t].status \notin Open
  ELSE ToBoard[tasks[t].status] = issues[i].status \/ ToBus[issues[i].status] = tasks[t].status

Settled ==
  /\ \A t \in Tasks : tasks[t] # NoTask => Agrees(t)
  /\ \A i \in Issues : issues[i].status \in {"none", "done", "cancelled"} \/ i \in LinkedIn(links)

\* Once nothing changes and nothing fails any more, task and issue of everything
\* agree for good and there is one of each, whatever calls failed and runs died
\* before; unless a run went through one of the known gaps, or, for the
\* agreement, a poll passed over what a person had set.
MirrorSettles == <>[](astray \/ (OneToOne /\ (missed \/ Settled)))
=============================================================================
