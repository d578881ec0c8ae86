----------------------------- MODULE SyncProofs -----------------------------
(***************************************************************************)
(* The sync with the Multica board, for any number of runs, tasks and      *)
(* issues.  Every record has its type, and a task and an issue of one      *)
(* title are the only ones of it, as long as no run has gone through one   *)
(* of the known gaps.  What a run has read may be old by the time it acts; *)
(* the invariant says what of it still holds (Follows), and what a run is  *)
(* sure of where it stands (AtWork).                                       *)
(***************************************************************************)
EXTENDS MulticaSync, NaturalsInduction, WellFoundedInduction, TLAPS

-----------------------------------------------------------------------------
(* The invariant *)

\* The types, field by field.
TaskStatuses == DOMAIN ToBoard
Shown == DOMAIN ToBus
TaskRecord == [status : TaskStatuses \cup {"none"}, title : Nat, of : Issues \cup {0}]
IssueRecord == [title : Nat, status : Shown \cup {"none"}, by : {"none", "human", "push"}]
LinkRecord == [issue : Issues \cup {0}, pushed : TaskStatuses \cup {"none"}, seen : Shown \cup {"none"}, marked : BOOLEAN]
RunRecord ==
  [at : Stations, only : Tasks \cup {0}, todo : SUBSET Nat, task : Tasks \cup {0}, issue : Issues \cup {0},
   links : [Tasks -> LinkRecord], tasks : [Tasks -> TaskStatuses \cup {"none"}],
   board : [Issues -> IssueRecord], listed : BOOLEAN]

\* An issue of the board that is there has a status.
Real(issue) == issue = NoIssue \/ issue.status \in Shown

Pushing == {"list", "mark", "post", "put", "link"}

\* What a run works on is there, station by station.
RunFits(m) ==
  /\ m \in RunRecord
  /\ \A i \in Issues : Real(m.board[i])
  /\ m.at \in Pushing \cup {"push"} => m.todo \subseteq Tasks /\ \A t \in m.todo : m.tasks[t] # "none"
  /\ m.at \in Pushing => m.task \in m.todo
  /\ m.at \in {"put", "link"} => m.issue \in Issues
  /\ m.at \in {"poll", "refresh"} =>
       m.todo \subseteq Tasks /\ \A t \in m.todo : m.links[t].issue # 0 /\ m.board[m.links[t].issue] # NoIssue
  /\ m.at = "refresh" => m.task \in m.todo
  /\ m.at \in {"import", "made", "tie"} =>
       m.todo \subseteq Issues /\ \A i \in m.todo : m.board[i] # NoIssue
  /\ m.at \in {"made", "tie"} => m.issue \in m.todo /\ m.task \in Tasks

TasksTyped == tasks \in [Tasks -> TaskRecord] /\ \A t \in Tasks : tasks[t] = NoTask \/ tasks[t].status \in TaskStatuses
IssuesTyped == issues \in [Issues -> IssueRecord] /\ \A i \in Issues : Real(issues[i])
WireTyped == wire \subseteq IssueRecord /\ \A q \in wire : q.status \in Shown
DoneRecord == [made : 0..MaxMade, filed : 0..MaxFiled, changes : 0..MaxChanges, slips : 0..MaxSlips]
CountsTyped == mirrors \subseteq Tasks /\ astray \in BOOLEAN /\ missed \in BOOLEAN /\ done \in DoneRecord
OthersTyped == TasksTyped /\ IssuesTyped /\ links \in [Tasks -> LinkRecord] /\ WireTyped /\ CountsTyped
BoardTyped == OthersTyped /\ run \in [Runs -> RunRecord] /\ \A r \in Runs : RunFits(run[r])

\* A task that agents made; an issue of a title, there or on its way; a link that
\* is made or announced.
OfAgents(t) == tasks[t] # NoTask /\ tasks[t].of = 0
Filed(title) == (\E i \in Issues : issues[i].title = title) \/ \E q \in wire : q.title = title
Reached(link) == link.marked \/ link.issue # 0

\* Titles tell where a thing comes from: the tasks of agents count up to MaxMade,
\* the issues of people from there on.  An import has the title of its issue, an
\* issue that was pushed that of a task, and whatever has been pushed is linked or
\* marked.
TasksPaired ==
  \A t \in Tasks : tasks[t] # NoTask =>
    \/ tasks[t].of = 0 /\ tasks[t].title \in 1..done.made
    \/ /\ tasks[t].of # 0 /\ tasks[t].title > MaxMade
       /\ issues[tasks[t].of].title = tasks[t].title
Named(title) == \/ title \in 1..done.made /\ \E t \in Tasks : OfAgents(t) /\ tasks[t].title = title
                \/ title \in (MaxMade + 1)..(MaxMade + done.filed)
IssuesPaired ==
  /\ \A i \in Issues : issues[i] # NoIssue => Named(issues[i].title)
  /\ \A q \in wire : \E t \in Tasks : OfAgents(t) /\ tasks[t].title = q.title
  /\ \A q \in wire : \A i \in Issues : issues[i].title # q.title
  /\ \A q, p \in wire : q.title = p.title => q = p
LinksPaired ==
  /\ \A t \in Tasks : links[t].issue # 0 => tasks[t] # NoTask /\ issues[links[t].issue].title = tasks[t].title
  /\ \A t \in Tasks : OfAgents(t) /\ Filed(tasks[t].title) => Reached(links[t])

\* What holds of what a run has read, however old: issues and tasks do not go away,
\* and a link stays.
Follows(m) ==
  /\ \A i \in Issues : m.board[i] # NoIssue => issues[i] # NoIssue /\ issues[i].title = m.board[i].title
  /\ \A t \in Tasks : m.tasks[t] # "none" => tasks[t] # NoTask
  /\ \A t \in Tasks : m.links[t].issue # 0 => links[t].issue = m.links[t].issue

\* A task with the title of the issue was linked or marked when the run read the
\* ledger.
Accounted(m, i) ==
  \A t \in Tasks : OfAgents(t) /\ tasks[t].title = m.board[i].title => m.links[t].marked \/ m.links[t].issue = i

\* What a run is sure of: nothing of its title exists when it creates an issue, and
\* the issue that it links has the title of its task.
AtWork(m) ==
  /\ m.at \in {"list", "mark", "post"} => m.links[m.task].issue = 0
  /\ m.at = "mark" /\ m.links[m.task].marked => ~Filed(tasks[m.task].title)
  /\ m.at = "post" => /\ OfAgents(m.task) /\ ~Filed(tasks[m.task].title)
                      /\ links[m.task].marked /\ links[m.task].issue = 0
  /\ m.at \in {"put", "link"} => issues[m.issue].title = tasks[m.task].title
  /\ m.at \in {"poll", "refresh"} => \A i \in Issues : m.board[i] # NoIssue => Accounted(m, i)
  /\ m.at \in {"import", "made", "tie"} =>
       \A i \in m.todo : Accounted(m, i) /\ i \notin LinkedIn(m.links)
  /\ m.at \in {"made", "tie"} => tasks[m.task] # NoTask /\ tasks[m.task].of = m.issue

\* Two runs are about to create an issue for one task.
Clash(m, n) ==
  /\ m.at = "post" /\ n.task = m.task
  /\ n.at = "post" \/ (n.at = "mark" /\ n.links[n.task].marked)

Steady(m) == Follows(m) /\ AtWork(m)

World == OneToOne /\ TasksPaired /\ IssuesPaired /\ LinksPaired
Paired ==
  /\ World
  /\ \A r \in Runs : Steady(run[r])
  /\ \A r, q \in Runs : r # q => ~Clash(run[r], run[q])

SyncInv == BoardTyped /\ (astray \/ Paired)

-----------------------------------------------------------------------------
(* What the records of a sync hold *)

LEMMA StatusesMap ==
  /\ \A s \in TaskStatuses : ToBoard[s] \in Shown
  /\ \A s \in Shown : ToBus[s] \in TaskStatuses
  /\ "none" \notin TaskStatuses /\ "none" \notin Shown /\ "pending" \in TaskStatuses /\ "todo" \in Shown
  /\ AgentStatuses \subseteq TaskStatuses /\ HumanStatuses \subseteq Shown
BY SyncAssumption DEF ToBoard, ToBus, TaskStatuses, Shown

LEMMA LowestIs ==
  ASSUME NEW S, S \subseteq Nat, S # {}
  PROVE  Lowest(S) \in S
<1> DEFINE Below == {p \in Nat \X Nat : p[1] < p[2]}
<1>1. IsWellFoundedOn(Below, Nat)
  BY NatLessThanWellFounded DEF OpToRel
<1>2. PICK x \in S : \A y \in S : <<y, x>> \notin Below
  <2> HIDE DEF Below
  <2> QED BY <1>1, WFMin
<1>3. ASSUME NEW y \in S PROVE x <= y
  <2>1. y \in Nat /\ x \in Nat /\ (y < x => <<y, x>> \in Below)
    OBVIOUS
  <2>2. ~(y < x)
    BY <1>2, <2>1
  <2> QED BY <2>1, <2>2
<1> QED BY <1>3 DEF Lowest

\* The empty records are of their types.
LEMMA EmptyIs ==
  /\ NoTask \in TaskRecord /\ NoIssue \in IssueRecord /\ NoLink \in LinkRecord
  /\ NoTask.status = "none" /\ NoTask.title = 0 /\ NoTask.of = 0
  /\ NoIssue.status = "none" /\ NoIssue.title = 0
  /\ NoLink.issue = 0 /\ ~NoLink.marked /\ Real(NoIssue)
BY DEF NoTask, NoIssue, NoLink, TaskRecord, IssueRecord, LinkRecord, Real

LEMMA IdleIs ==
  /\ Idle \in RunRecord /\ RunFits(Idle) /\ Idle.at = "idle"
  /\ \A t \in Tasks : Idle.links[t] = NoLink /\ Idle.tasks[t] = "none"
  /\ \A i \in Issues : Idle.board[i] = NoIssue
<1>1. Idle \in RunRecord
  BY EmptyIs DEF Idle, RunRecord, Stations
<1>2. Idle.at = "idle" /\ (\A t \in Tasks : Idle.links[t] = NoLink /\ Idle.tasks[t] = "none")
      /\ \A i \in Issues : Idle.board[i] = NoIssue
  BY DEF Idle
<1>3. RunFits(Idle)
  BY <1>1, <1>2, EmptyIs DEF RunFits, Pushing
<1> QED BY <1>1, <1>2, <1>3

LEMMA SyncNumbers ==
  /\ MaxTasks \in Nat /\ MaxIssues \in Nat /\ MaxMade \in Nat /\ MaxFiled \in Nat
  /\ MaxChanges \in Nat /\ MaxSlips \in Nat
  /\ Tasks \subseteq Nat /\ Issues \subseteq Nat /\ 0 \notin Tasks /\ 0 \notin Issues
BY SyncAssumption DEF Tasks, Issues

\* A process that goes on from run[r] to m.
LEMMA RunGoes ==
  ASSUME BoardTyped, NEW r \in Runs, NEW m, RunFits(m), To(r, m)
  PROVE  /\ run' \in [Runs -> RunRecord] /\ run'[r] = m
         /\ \A q \in Runs \ {r} : run'[q] = run[q]
         /\ \A q \in Runs : RunFits(run'[q])
<1>1. run \in [Runs -> RunRecord] /\ (\A q \in Runs : RunFits(run[q])) /\ run' = [run EXCEPT ![r] = m]
  BY DEF BoardTyped, To
<1>2. m \in RunRecord
  BY DEF RunFits
<1>3. run' \in [Runs -> RunRecord] /\ run'[r] = m /\ \A q \in Runs \ {r} : run'[q] = run[q]
  BY <1>1, <1>2
<1>4. ASSUME NEW q \in Runs PROVE RunFits(run'[q])
  <2>1. CASE q = r BY <2>1, <1>3
  <2>2. CASE q # r
    <3>1. run'[q] = run[q] BY <2>2, <1>3
    <3> QED BY <3>1, <1>1
  <2> QED BY <2>1, <2>2
<1> QED BY <1>3, <1>4

\* What the record of a process is after each of its kinds of move.
LEMMA MovesIs ==
  ASSUME BoardTyped, NEW r \in Runs, NEW m, NEW station \in Stations, m = [run[r] EXCEPT !.at = station]
  PROVE  /\ m \in RunRecord /\ m.at = station /\ m.todo = run[r].todo /\ m.task = run[r].task
         /\ m.issue = run[r].issue /\ m.links = run[r].links /\ m.tasks = run[r].tasks
         /\ m.board = run[r].board
BY DEF BoardTyped, RunRecord

Turned(r, loop, item) == [run[r] EXCEPT !.at = loop, !.todo = @ \ {item}, !.task = 0, !.issue = 0]

LEMMA TurnsIs ==
  ASSUME BoardTyped, NEW r \in Runs, NEW m, NEW loop \in {"push", "poll", "import"}, NEW item,
         m = Turned(r, loop, item)
  PROVE  /\ m \in RunRecord /\ m.at = loop /\ m.todo = run[r].todo \ {item}
         /\ m.links = run[r].links /\ m.tasks = run[r].tasks /\ m.board = run[r].board
<1>1. run[r] \in RunRecord
  BY DEF BoardTyped
<1>2. run[r].todo \ {item} \in SUBSET Nat /\ loop \in Stations /\ 0 \in Tasks \cup {0} /\ 0 \in Issues \cup {0}
  BY <1>1 DEF RunRecord, Stations
<1> QED BY <1>1, <1>2 DEF RunRecord, Turned

-----------------------------------------------------------------------------
(* What keeps tasks and issues paired *)

RunsStaySteady == \A k : RunFits(k) /\ Steady(k) => Steady(k)'
OthersSteady(r) == \A q \in Runs \ {r} : \A k : k = run[q] => Steady(k)'

LEMMA KeepsOthers == ASSUME BoardTyped, Paired, RunsStaySteady, NEW r PROVE OthersSteady(r)
BY DEF BoardTyped, Paired, RunsStaySteady, OthersSteady

LEMMA AgainTyped ==
  ASSUME BoardTyped, NEW r \in Runs, NEW m, RunFits(m), To(r, m), OthersTyped'
  PROVE  BoardTyped'
<1>1. run' \in [Runs -> RunRecord] /\ \A q \in Runs : RunFits(run'[q])
  BY RunGoes
<1> QED BY <1>1 DEF BoardTyped

LEMMA AgainPaired ==
  ASSUME BoardTyped, Paired, NEW r \in Runs, NEW m, RunFits(m), To(r, m),
         World', OthersSteady(r), Steady(m)',
         \A q \in Runs \ {r} : ~Clash(run[q], m) /\ ~Clash(m, run[q])
  PROVE  Paired'
<1>1. run'[r] = m /\ (\A q \in Runs \ {r} : run'[q] = run[q])
  BY RunGoes
<1>2. ASSUME NEW q \in Runs PROVE Steady(run[q])'
  <2>1. CASE q = r
    BY <2>1, <1>1 DEF Steady, Follows, AtWork, Accounted
  <2>2. CASE q # r
    <3>1. PICK k : k = run[q]
      OBVIOUS
    <3>3. Steady(k)' /\ run'[q] = k
      BY <3>1, <2>2, <1>1 DEF OthersSteady
    <3> QED BY <3>3 DEF Steady, Follows, AtWork, Accounted
  <2> QED BY <2>1, <2>2
<1>3. ASSUME NEW p \in Runs, NEW q \in Runs, p # q PROVE ~Clash(run'[p], run'[q])
  <2>1. ~Clash(run[p], run[q])
    BY <1>3 DEF Paired
  <2>2. CASE p = r
    BY <2>2, <1>1, <1>3
  <2>3. CASE q = r
    BY <2>3, <1>1, <1>3
  <2>4. CASE p # r /\ q # r
    BY <2>4, <1>1, <2>1
  <2> QED BY <2>2, <2>3, <2>4
<1> QED BY <1>2, <1>3 DEF Paired

\* No process has moved.
LEMMA AgainPairedStill ==
  ASSUME BoardTyped, Paired, run' = run, World', RunsStaySteady
  PROVE  Paired'
<1>1. ASSUME NEW q \in Runs PROVE Steady(run[q])'
  <2>1. PICK k : k = run[q]
    OBVIOUS
  <2>2. RunFits(k) /\ Steady(k)
    BY <2>1 DEF BoardTyped, Paired
  <2>3. Steady(k)' /\ run'[q] = k
    BY <2>1, <2>2 DEF RunsStaySteady
  <2> QED BY <2>3 DEF Steady, Follows, AtWork, Accounted
<1> QED BY <1>1 DEF Paired

\* A step that makes nothing: statuses change, and links get their issues and marks.
SameTasks ==
  \A t \in Tasks : /\ tasks'[t].title = tasks[t].title /\ tasks'[t].of = tasks[t].of
                   /\ tasks'[t] = NoTask <=> tasks[t] = NoTask
SameIssues ==
  \A i \in Issues : issues'[i].title = issues[i].title /\ (issues'[i] = NoIssue <=> issues[i] = NoIssue)
Unfiled(t) == OfAgents(t) /\ ~Filed(tasks[t].title) /\ links[t].marked /\ links[t].issue = 0
LinkGrows(t) ==
  /\ links[t].issue # 0 => links'[t].issue = links[t].issue
  /\ links'[t].issue # 0 => tasks[t] # NoTask /\ issues[links'[t].issue].title = tasks[t].title
  /\ Reached(links[t]) => Reached(links'[t])
  /\ Unfiled(t) => links'[t].marked /\ links'[t].issue = 0
NothingMade ==
  /\ SameTasks /\ SameIssues /\ wire' = wire
  /\ done'.made = done.made /\ done'.filed = done.filed
  /\ \A t \in Tasks : LinkGrows(t)

LEMMA FiledStays == ASSUME NothingMade, NEW x PROVE Filed(x)' <=> Filed(x)
BY DEF NothingMade, SameIssues, Filed

LEMMA AgentsStay == ASSUME NothingMade, NEW t \in Tasks PROVE OfAgents(t)' <=> OfAgents(t)
BY DEF NothingMade, SameTasks, OfAgents

LEMMA WorldStays ==
  ASSUME BoardTyped, World, NothingMade, links' \in [Tasks -> LinkRecord]
  PROVE  World'
<1>1. SameTasks /\ SameIssues /\ wire' = wire /\ done'.made = done.made /\ done'.filed = done.filed
  BY DEF NothingMade
<1>2. OneToOne'
  BY <1>1 DEF World, OneToOne, SameTasks, SameIssues
<1>3. TasksPaired'
  <2>1. \A t \in Tasks : tasks[t].of # 0 => tasks[t].of \in Issues
    BY DEF BoardTyped, OthersTyped, TasksTyped, TaskRecord
  <2> QED BY <1>1, <2>1 DEF World, TasksPaired, SameTasks, SameIssues
<1>4. IssuesPaired'
  <2>1. \A x : Named(x)' <=> Named(x)
    BY <1>1, AgentsStay DEF Named, SameTasks
  <2>2. \A i \in Issues : issues'[i] # NoIssue => Named(issues[i].title)'
    <3>1. ASSUME NEW i \in Issues, issues'[i] # NoIssue PROVE Named(issues[i].title)'
      <4>1. issues'[i].title = issues[i].title /\ Named(issues[i].title)
        BY <1>1, <3>1 DEF World, IssuesPaired, SameIssues
      <4>2. PICK x : x = issues[i].title
        OBVIOUS
      <4>3. Named(x)' /\ x = issues'[i].title
        BY <4>1, <4>2, <2>1
      <4> QED BY <4>3 DEF Named
    <3> QED BY <3>1
  <2>3. \A q \in wire : \E t \in Tasks : OfAgents(t)' /\ tasks'[t].title = q.title
    BY <1>1, AgentsStay DEF World, IssuesPaired, SameTasks
  <2>4. \A q \in wire : \A i \in Issues : issues'[i].title # q.title
    BY <1>1 DEF World, IssuesPaired, SameIssues
  <2>5. \A q, p \in wire : q.title = p.title => q = p
    BY DEF World, IssuesPaired
  <2> QED BY <1>1, <2>2, <2>3, <2>4, <2>5 DEF IssuesPaired
<1>5. LinksPaired'
  <2>1. ASSUME NEW t \in Tasks, links'[t].issue # 0
        PROVE  tasks'[t] # NoTask /\ issues'[links'[t].issue].title = tasks'[t].title
    <3>1. tasks[t] # NoTask /\ issues[links'[t].issue].title = tasks[t].title
      BY <2>1 DEF NothingMade, LinkGrows
    <3>2. links'[t].issue \in Issues
      BY <2>1 DEF LinkRecord
    <3> QED BY <3>1, <3>2, <1>1 DEF SameTasks, SameIssues
  <2>2. ASSUME NEW t \in Tasks, OfAgents(t)', Filed(tasks[t].title)' PROVE Reached(links'[t])
    <3>1. OfAgents(t) /\ Filed(tasks[t].title)
      BY <2>2, <1>1, AgentsStay DEF SameTasks, SameIssues, Filed
    <3> QED BY <3>1 DEF World, LinksPaired, NothingMade, LinkGrows
  <2> QED BY <2>1, <2>2 DEF LinksPaired
<1> QED BY <1>2, <1>3, <1>4, <1>5 DEF World

LEMMA RunStays ==
  ASSUME BoardTyped, World, NothingMade
  PROVE  RunsStaySteady
<1> SUFFICES ASSUME NEW m, RunFits(m), Steady(m) PROVE Steady(m)'
  BY DEF RunsStaySteady
<1>1. SameTasks /\ SameIssues /\ wire' = wire /\ \A t \in Tasks : LinkGrows(t)
  BY DEF NothingMade
<1>2. m \in RunRecord
  BY DEF RunFits
<1>3. Follows(m)'
  <2>1. \A i \in Issues : m.board[i] # NoIssue => issues'[i] # NoIssue /\ issues'[i].title = m.board[i].title
    BY <1>1 DEF Steady, Follows, SameIssues
  <2>2. \A t \in Tasks : m.tasks[t] # "none" => tasks'[t] # NoTask
    BY <1>1 DEF Steady, Follows, SameTasks
  <2>3. \A t \in Tasks : m.links[t].issue # 0 => links'[t].issue = m.links[t].issue
    BY <1>1 DEF Steady, Follows, LinkGrows
  <2> QED BY <2>1, <2>2, <2>3 DEF Follows
<1>4. \A i : Accounted(m, i) => Accounted(m, i)'
  BY <1>1, AgentsStay DEF Accounted, SameTasks
<1>5. m.at \in Pushing => m.task \in Tasks
  BY DEF RunFits, Pushing
<1>6. m.at = "mark" /\ m.links[m.task].marked => ~Filed(tasks[m.task].title)'
  <2>1. SUFFICES ASSUME m.at = "mark", m.links[m.task].marked PROVE ~Filed(tasks[m.task].title)'
    OBVIOUS
  <2>2. m.task \in Tasks /\ ~Filed(tasks[m.task].title)
    BY <2>1, <1>5 DEF Steady, AtWork, Pushing
  <2> QED BY <2>2, <1>1 DEF SameTasks, SameIssues, Filed
<1>7. m.at = "post" => /\ OfAgents(m.task)' /\ ~Filed(tasks[m.task].title)'
                       /\ links'[m.task].marked /\ links'[m.task].issue = 0
  <2>1. SUFFICES ASSUME m.at = "post"
                 PROVE  /\ OfAgents(m.task)' /\ ~Filed(tasks[m.task].title)'
                        /\ links'[m.task].marked /\ links'[m.task].issue = 0
    OBVIOUS
  <2>2. m.task \in Tasks /\ Unfiled(m.task)
    BY <2>1, <1>5 DEF Steady, AtWork, Pushing, Unfiled
  <2>3. OfAgents(m.task)' /\ ~Filed(tasks[m.task].title)'
    BY <2>2, <1>1, AgentsStay DEF SameTasks, SameIssues, Filed, Unfiled
  <2> QED BY <2>2, <2>3, <1>1 DEF LinkGrows
<1>8. m.at \in {"put", "link"} => issues'[m.issue].title = tasks'[m.task].title
  <2>1. SUFFICES ASSUME m.at \in {"put", "link"} PROVE issues'[m.issue].title = tasks'[m.task].title
    OBVIOUS
  <2>2. m.task \in Tasks /\ m.issue \in Issues /\ issues[m.issue].title = tasks[m.task].title
    BY <2>1, <1>5 DEF Steady, AtWork, Pushing, RunFits
  <2> QED BY <2>2, <1>1 DEF SameTasks, SameIssues
<1>9. m.at \in {"made", "tie"} => tasks'[m.task] # NoTask /\ tasks'[m.task].of = m.issue
  BY <1>1 DEF Steady, AtWork, RunFits, SameTasks
<1>10. AtWork(m)'
  BY <1>4, <1>6, <1>7, <1>8, <1>9 DEF Steady, AtWork
<1> QED BY <1>3, <1>10 DEF Steady

-----------------------------------------------------------------------------
(* Steps that make no task and no issue *)

NoClash(r, m) == \A q \in Runs \ {r} : ~Clash(run[q], m) /\ ~Clash(m, run[q])
Harmless(m) == m.at # "post" /\ ~(m.at = "mark" /\ m.links[m.task].marked)

LEMMA HarmlessIs == ASSUME NEW r \in Runs, NEW m, Harmless(m) PROVE NoClash(r, m)
BY DEF Harmless, NoClash, Clash

LEMMA DoneIs ==
  ASSUME CountsTyped, Slip \/ Smooth
  PROVE  done' \in DoneRecord /\ done'.made = done.made /\ done'.filed = done.filed
<1>1. CASE Smooth
  BY <1>1 DEF Smooth, CountsTyped
<1>2. CASE Slip
  <2>1. done \in DoneRecord /\ done.slips < MaxSlips /\ done' = [done EXCEPT !.slips = done.slips + 1]
    BY <1>2 DEF Slip, CountsTyped
  <2>2. done.slips + 1 \in 0..MaxSlips
    BY <2>1, SyncNumbers DEF DoneRecord
  <2> QED BY <2>1, <2>2 DEF DoneRecord
<1> QED BY <1>1, <1>2

LEMMA OthersStay ==
  ASSUME OthersTyped, UNCHANGED <<tasks, issues, wire, mirrors>>, Slip \/ Smooth,
         links' \in [Tasks -> LinkRecord], astray' \in BOOLEAN, missed' \in BOOLEAN
  PROVE  OthersTyped'
<1>1. done' \in DoneRecord
  BY DoneIs DEF OthersTyped
<1>2. TasksTyped' /\ IssuesTyped' /\ WireTyped'
  BY DEF OthersTyped, TasksTyped, IssuesTyped, WireTyped
<1> QED BY <1>1, <1>2 DEF OthersTyped, CountsTyped

LEMMA LinkIsTied ==
  ASSUME World, NEW t \in Tasks, links'[t] = links[t]
  PROVE  LinkGrows(t)
BY DEF World, LinksPaired, LinkGrows, Unfiled

LEMMA NothingIsMade ==
  ASSUME World, UNCHANGED <<tasks, issues, links, wire>>, done'.made = done.made, done'.filed = done.filed
  PROVE  NothingMade
<1>1. \A t \in Tasks : LinkGrows(t)
  BY LinkIsTied
<1> QED BY <1>1 DEF NothingMade, SameTasks, SameIssues

\* A process goes on to m, and makes nothing.
LEMMA GoesOn ==
  ASSUME SyncInv, NEW r \in Runs, NEW m, RunFits(m), To(r, m), OthersTyped', astray => astray',
         ~astray' /\ Paired => NothingMade /\ Steady(m)' /\ NoClash(r, m)
  PROVE  SyncInv'
<1>1. BoardTyped /\ BoardTyped'
  BY AgainTyped DEF SyncInv
<1>2. ASSUME ~astray' PROVE Paired'
  <2>1. Paired /\ NothingMade /\ Steady(m)' /\ NoClash(r, m)
    BY <1>2 DEF SyncInv
  <2>2. World
    BY <2>1 DEF Paired
  <2>3. World' /\ RunsStaySteady
    BY <1>1, <2>1, <2>2, WorldStays, RunStays DEF BoardTyped, OthersTyped
  <2> QED BY <1>1, <2>1, <2>3, KeepsOthers, AgainPaired DEF NoClash
<1> QED BY <1>1, <1>2 DEF SyncInv

LEMMA NobodyGoesOn ==
  ASSUME SyncInv, run' = run, OthersTyped', astray => astray', ~astray' /\ Paired => NothingMade
  PROVE  SyncInv'
<1>1. BoardTyped /\ BoardTyped'
  BY DEF SyncInv, BoardTyped
<1>2. ASSUME ~astray' PROVE Paired'
  <2>1. Paired /\ NothingMade
    BY <1>2 DEF SyncInv
  <2>2. World' /\ RunsStaySteady
    BY <1>1, <2>1, WorldStays, RunStays DEF BoardTyped, OthersTyped, Paired
  <2> QED BY <1>1, <2>1, <2>2, AgainPairedStill
<1> QED BY <1>1, <1>2 DEF SyncInv

\* The process alone changes.
LEMMA QuietStep ==
  ASSUME SyncInv, NEW r \in Runs, NEW m, RunFits(m), To(r, m), Paired => Steady(m), Harmless(m),
         UNCHANGED <<tasks, issues, links, wire, astray, missed>>, mirrors' \subseteq Tasks, Slip \/ Smooth
  PROVE  SyncInv'
<1>1. OthersTyped
  BY DEF SyncInv, BoardTyped
<1>2. done' \in DoneRecord /\ done'.made = done.made /\ done'.filed = done.filed
  BY <1>1, DoneIs DEF OthersTyped
<1>3. OthersTyped'
  <2>1. TasksTyped' /\ IssuesTyped' /\ WireTyped' /\ links' \in [Tasks -> LinkRecord]
    BY <1>1 DEF OthersTyped, TasksTyped, IssuesTyped, WireTyped
  <2> QED BY <1>1, <1>2, <2>1 DEF OthersTyped, CountsTyped
<1>4. ASSUME Paired PROVE NothingMade /\ Steady(m)' /\ NoClash(r, m)
  <2>1. World
    BY <1>4 DEF Paired
  <2>2. NothingMade
    BY <1>2, <2>1, NothingIsMade
  <2>3. RunsStaySteady /\ Steady(m)
    BY <1>4, <2>1, <2>2, RunStays DEF SyncInv
  <2> QED BY <2>2, <2>3, HarmlessIs DEF RunsStaySteady
<1> QED BY <1>3, <1>4, GoesOn

\* The next item, with the same readings.
LEMMA TurnsFit ==
  ASSUME BoardTyped, NEW r \in Runs, NEW m, NEW loop \in {"push", "poll", "import"}, NEW item,
         m = Turned(r, loop, item),
         loop = "push" => run[r].at \in Pushing \cup {"push"},
         loop = "poll" => run[r].at = "refresh",
         loop = "import" => run[r].at \in {"import", "made", "tie"}
  PROVE  RunFits(m) /\ Harmless(m) /\ (Steady(run[r]) => Steady(m))
<1>1. /\ m \in RunRecord /\ m.at = loop /\ m.todo = run[r].todo \ {item}
      /\ m.links = run[r].links /\ m.tasks = run[r].tasks /\ m.board = run[r].board
  BY TurnsIs
<1>2. RunFits(run[r])
  BY DEF BoardTyped
<1>3. RunFits(m)
  BY <1>1, <1>2 DEF RunFits, Pushing
<1>4. Harmless(m)
  BY <1>1 DEF Harmless
<1>5. ASSUME Steady(run[r]) PROVE Steady(m)
  <2>1. Follows(m)
    BY <1>1, <1>5 DEF Steady, Follows
  <2>2. AtWork(m)
    BY <1>1, <1>5 DEF Steady, AtWork, Accounted, LinkedIn
  <2> QED BY <2>1, <2>2 DEF Steady
<1> QED BY <1>3, <1>4, <1>5

LEMMA TurnsKeeps ==
  ASSUME SyncInv, NEW r \in Runs, NEW loop \in {"push", "poll", "import"}, NEW item, Turns(r, loop, item),
         loop = "push" => run[r].at \in Pushing \cup {"push"},
         loop = "poll" => run[r].at = "refresh",
         loop = "import" => run[r].at \in {"import", "made", "tie"},
         UNCHANGED <<tasks, issues, links, wire, mirrors, astray, missed>>, Slip \/ Smooth
  PROVE  SyncInv'
<1>1. PICK m : m = Turned(r, loop, item)
  OBVIOUS
<1>2. RunFits(m) /\ Harmless(m) /\ (Steady(run[r]) => Steady(m))
  BY <1>1, TurnsFit DEF SyncInv
<1>3. To(r, m)
  BY <1>1 DEF Turns, Turned
<1>4. Paired => Steady(m)
  BY <1>2 DEF Paired
<1>5. mirrors' \subseteq Tasks
  BY DEF SyncInv, BoardTyped, OthersTyped, CountsTyped
<1> QED BY <1>2, <1>3, <1>4, <1>5, QuietStep

LEMMA IdleKeeps ==
  ASSUME SyncInv, NEW r \in Runs, To(r, Idle),
         UNCHANGED <<tasks, issues, links, wire, mirrors, astray, missed>>, Slip \/ Smooth
  PROVE  SyncInv'
<1>1. Steady(Idle) /\ Harmless(Idle)
  BY IdleIs, EmptyIs DEF Steady, Follows, AtWork, Harmless
<1>2. mirrors' \subseteq Tasks
  BY DEF SyncInv, BoardTyped, OthersTyped, CountsTyped
<1> QED BY <1>1, <1>2, IdleIs, QuietStep

-----------------------------------------------------------------------------
(* runOutboundPush *)

LEMMA StatusIs ==
  ASSUME TasksTyped
  PROVE  /\ Statuses \in [Tasks -> TaskStatuses \cup {"none"}]
         /\ \A t \in Tasks : Statuses[t] # "none" <=> tasks[t] # NoTask
<1>1. \A t \in Tasks : tasks[t].status # "none" <=> tasks[t] # NoTask
  BY StatusesMap, EmptyIs DEF TasksTyped
<1> QED BY <1>1 DEF Statuses, TasksTyped, TaskRecord

LEMMA StartsKeeps == ASSUME SyncInv, NEW r \in Runs, NEW only, Starts(r, only) PROVE SyncInv'
<1> DEFINE Todo == {t \in Tasks : tasks[t] # NoTask /\ only \in {0, t}}
<1>1. BoardTyped /\ OthersTyped /\ TasksTyped /\ links \in [Tasks -> LinkRecord] /\ mirrors \subseteq Tasks
  BY DEF SyncInv, BoardTyped, OthersTyped, CountsTyped
<1>2. PICK m : m = [Idle EXCEPT !.at = "push", !.only = only, !.links = links, !.tasks = Statuses, !.todo = Todo]
  OBVIOUS
<1>3. To(r, m) /\ only \in Tasks \cup {0} /\ mirrors' \subseteq Tasks
  BY <1>1, <1>2 DEF Starts
<1>4. m \in RunRecord
  <2>1. Todo \in SUBSET Nat /\ "push" \in Stations
    BY SyncNumbers DEF Stations
  <2> HIDE DEF Todo
  <2> QED BY <1>1, <1>2, <1>3, <2>1, IdleIs, StatusIs DEF RunRecord
<1>5. m.at = "push" /\ m.todo = Todo /\ m.links = links /\ m.tasks = Statuses /\ m.board = Idle.board
  BY <1>2, IdleIs DEF RunRecord
<1>6. RunFits(m)
  BY <1>1, <1>4, <1>5, StatusIs, IdleIs, EmptyIs DEF RunFits, Pushing
<1>7. Steady(m) /\ Harmless(m)
  BY <1>1, <1>5, StatusIs, IdleIs DEF Steady, Follows, AtWork, Harmless
<1>8. Smooth
  BY DEF Starts, Smooth
<1> QED BY <1>3, <1>6, <1>7, <1>8, QuietStep DEF Starts

LEMMA MirrorLostKeeps == ASSUME SyncInv, MirrorLost PROVE SyncInv'
<1>1. OthersTyped
  BY DEF SyncInv, BoardTyped
<1>2. mirrors' \subseteq Tasks /\ UNCHANGED <<tasks, issues, links, wire, run, astray, missed, done>>
  BY <1>1 DEF MirrorLost, OthersTyped, CountsTyped
<1>3. OthersTyped'
  BY <1>1, <1>2 DEF OthersTyped, TasksTyped, IssuesTyped, WireTyped, CountsTyped
<1>4. Paired => NothingMade
  BY <1>2, NothingIsMade DEF Paired
<1> QED BY <1>2, <1>3, <1>4, NobodyGoesOn

LEMMA PushedKeeps == ASSUME SyncInv, NEW r \in Runs, Pushed(r) PROVE SyncInv'
<1>1. Smooth /\ UNCHANGED <<tasks, issues, links, wire, mirrors, astray, missed>>
  BY DEF Pushed, Smooth
<1>2. CASE run[r].only # 0
  BY <1>1, <1>2, IdleKeeps DEF Pushed
<1>3. CASE run[r].only = 0
  <2>1. PICK m : m = [Idle EXCEPT !.at = "fetch"]
    OBVIOUS
  <2>2. m \in RunRecord /\ m.at = "fetch" /\ m.links = Idle.links /\ m.tasks = Idle.tasks /\ m.board = Idle.board
    BY <2>1, IdleIs DEF RunRecord, Stations
  <2>3. RunFits(m)
    BY <2>2, IdleIs, EmptyIs DEF RunFits, Pushing
  <2>4. Steady(m) /\ Harmless(m)
    BY <2>2, IdleIs, EmptyIs DEF Steady, Follows, AtWork, Harmless
  <2>5. mirrors' \subseteq Tasks
    BY <1>1 DEF SyncInv, BoardTyped, OthersTyped, CountsTyped
  <2>6. To(r, m)
    BY <1>3, <2>1 DEF Pushed
  <2> QED BY <1>1, <2>3, <2>4, <2>5, <2>6, QuietStep
<1> QED BY <1>2, <1>3

\* One link is set.
LEMMA LinkStep ==
  ASSUME BoardTyped, NEW t \in Tasks, NEW l \in LinkRecord, links' = [links EXCEPT ![t] = l]
  PROVE  /\ links' \in [Tasks -> LinkRecord] /\ links'[t] = l
         /\ \A u \in Tasks \ {t} : links'[u] = links[u]
BY DEF BoardTyped, OthersTyped

LEMMA LinkTied ==
  ASSUME BoardTyped, World, NEW t \in Tasks, NEW l \in LinkRecord, links' = [links EXCEPT ![t] = l],
         UNCHANGED <<tasks, issues, wire>>, done'.made = done.made, done'.filed = done.filed,
         links[t].issue # 0 => l.issue = links[t].issue,
         l.issue # 0 => tasks[t] # NoTask /\ issues[l.issue].title = tasks[t].title,
         Reached(links[t]) => Reached(l),
         Unfiled(t) => l.marked /\ l.issue = 0
  PROVE  NothingMade
<1>1. ASSUME NEW u \in Tasks PROVE LinkGrows(u)
  <2>1. CASE u = t
    BY <2>1, LinkStep DEF LinkGrows
  <2>2. CASE u # t
    BY <2>2, LinkStep, LinkIsTied
  <2> QED BY <2>1, <2>2
<1> QED BY <1>1 DEF NothingMade, SameTasks, SameIssues

\* Tasks that are there have titles of their own, and issues of the same titles.
LEMMA TitlesAre ==
  ASSUME BoardTyped, World
  PROVE  /\ \A t \in Tasks : tasks[t] # NoTask => tasks[t].title \in Nat /\ tasks[t].title # 0
         /\ \A t, u \in Tasks : tasks[t] # NoTask /\ tasks[t].title = tasks[u].title => t = u
         /\ \A i, j \in Issues, t \in Tasks :
              tasks[t] # NoTask /\ issues[i].title = tasks[t].title /\ issues[j].title = tasks[t].title => i = j
<1>1. ASSUME NEW t \in Tasks, tasks[t] # NoTask PROVE tasks[t].title \in Nat /\ tasks[t].title # 0
  <2>1. tasks[t] \in TaskRecord /\ done \in DoneRecord
    BY DEF BoardTyped, OthersTyped, TasksTyped, CountsTyped
  <2> QED BY <1>1, <2>1, SyncNumbers DEF World, TasksPaired, TaskRecord, DoneRecord
<1>2. \A i \in Issues, t \in Tasks : tasks[t] # NoTask /\ issues[i].title = tasks[t].title => issues[i] # NoIssue
  BY <1>1, EmptyIs
<1> QED BY <1>1, <1>2 DEF World, OneToOne

LEMMA PicksKeeps == ASSUME SyncInv, NEW r \in Runs, Picks(r) PROVE SyncInv'
<1>1. PICK t : t = Lowest(run[r].todo)
  OBVIOUS
<1>2. BoardTyped /\ OthersTyped /\ run[r] \in RunRecord /\ RunFits(run[r]) /\ run[r].at = "push"
  BY DEF SyncInv, BoardTyped, Picks, At
<1>3. t \in run[r].todo /\ run[r].todo \subseteq Tasks /\ t \in Tasks
  BY <1>1, <1>2, LowestIs DEF Picks, RunRecord, RunFits, Pushing
<1>4. PICK link : link = run[r].links[t]
  OBVIOUS
<1>5. link \in LinkRecord /\ links[t] \in LinkRecord /\ (Paired => Steady(run[r]))
  BY <1>2, <1>3, <1>4 DEF RunRecord, BoardTyped, OthersTyped, Paired
<1>6. PICK l \in LinkRecord :
        /\ links' = [links EXCEPT ![t] = l] /\ l.issue = links[t].issue
        /\ l.marked # links[t].marked => link.issue # 0
  <2>1. CASE link.issue # 0 /\ link.marked
    <3>1. PICK l : l = [links[t] EXCEPT !.marked = FALSE]
      OBVIOUS
    <3>2. l \in LinkRecord /\ l.issue = links[t].issue
      BY <1>5, <3>1 DEF LinkRecord
    <3>3. links' = [links EXCEPT ![t] = l]
      BY <1>1, <1>4, <2>1, <3>1 DEF Picks
    <3> QED BY <2>1, <3>2, <3>3
  <2>2. CASE ~(link.issue # 0 /\ link.marked)
    <3>1. links' = links
      BY <1>1, <1>4, <2>2 DEF Picks
    <3>2. links = [links EXCEPT ![t] = links[t]]
      BY <1>2, <1>3 DEF OthersTyped
    <3> QED BY <1>5, <3>1, <3>2
  <2> QED BY <2>1, <2>2
<1>7. Smooth /\ UNCHANGED <<tasks, issues, wire, mirrors, astray, missed>>
  BY DEF Picks, Smooth
<1>8. OthersTyped'
  <2>1. links' \in [Tasks -> LinkRecord] /\ astray' \in BOOLEAN /\ missed' \in BOOLEAN
    BY <1>2, <1>3, <1>6, <1>7, LinkStep DEF OthersTyped, CountsTyped
  <2> QED BY <1>2, <1>7, <2>1, OthersStay
<1>9. ASSUME Paired PROVE NothingMade
  <2>1. World /\ (link.issue # 0 => links[t].issue # 0)
    BY <1>3, <1>4, <1>5, <1>9 DEF Paired, Steady, Follows
  <2>2. links[t].issue # 0 => tasks[t] # NoTask /\ issues[links[t].issue].title = tasks[t].title
    BY <1>3, <2>1 DEF World, LinksPaired
  <2>3. Reached(links[t]) => Reached(l)
    BY <1>6, <2>1, <1>5 DEF Reached, LinkRecord
  <2>4. Unfiled(t) => l.marked /\ l.issue = 0
    BY <1>6, <2>1, <1>5 DEF Unfiled, LinkRecord
  <2> QED BY <1>2, <1>3, <1>6, <1>7, <2>1, <2>2, <2>3, <2>4, LinkTied DEF Smooth
<1>10. PICK m : /\ To(r, m) /\ RunFits(m) /\ Harmless(m) /\ (Paired => Steady(m))
  <2>1. CASE NeedsPush(r, t)
    <3>1. PICK place : place = IF link.issue # 0 THEN "put" ELSE IF link.marked THEN "list" ELSE "mark"
      OBVIOUS
    <3>2. PICK m : m = [run[r] EXCEPT !.task = t, !.issue = link.issue, !.at = place]
      OBVIOUS
    <3>3. To(r, m)
      BY <1>1, <1>4, <2>1, <3>1, <3>2 DEF Picks
    <3>4. /\ place \in {"put", "list", "mark"} /\ place \in Stations
          /\ link.issue # 0 <=> place = "put"
          /\ place = "mark" => ~link.marked
      BY <3>1 DEF Stations
    <3>5. /\ m \in RunRecord /\ m.at = place /\ m.task = t /\ m.issue = link.issue /\ m.todo = run[r].todo
          /\ m.links = run[r].links /\ m.tasks = run[r].tasks /\ m.board = run[r].board
      BY <1>2, <1>3, <1>5, <3>2, <3>4 DEF RunRecord, LinkRecord
    <3>6. RunFits(m)
      BY <1>2, <1>3, <1>5, <3>4, <3>5 DEF RunFits, Pushing, LinkRecord
    <3>7. Harmless(m)
      BY <1>4, <3>4, <3>5 DEF Harmless
    <3>8. ASSUME Paired PROVE Steady(m)
      <4>1. Follows(m)
        BY <1>5, <3>5, <3>8 DEF Steady, Follows
      <4>2. place = "put" => issues[link.issue].title = tasks[t].title
        BY <1>3, <1>4, <1>5, <3>4, <3>8 DEF Paired, World, LinksPaired, Steady, Follows
      <4>3. AtWork(m)
        BY <1>4, <3>4, <3>5, <4>2 DEF AtWork
      <4> QED BY <4>1, <4>3 DEF Steady
    <3> QED BY <3>3, <3>6, <3>7, <3>8
  <2>2. CASE ~NeedsPush(r, t)
    <3>1. PICK m : m = Turned(r, "push", t)
      OBVIOUS
    <3>2. To(r, m)
      BY <1>1, <2>2, <3>1 DEF Picks, Turns, Turned
    <3>3. RunFits(m) /\ Harmless(m) /\ (Steady(run[r]) => Steady(m))
      BY <1>2, <3>1, TurnsFit
    <3> QED BY <1>5, <3>2, <3>3
  <2> QED BY <2>1, <2>2
<1>11. ASSUME Paired PROVE NothingMade /\ Steady(m)' /\ NoClash(r, m)
  <2>1. NothingMade
    BY <1>9, <1>11
  <2>2. RunsStaySteady
    BY <1>2, <2>1, <1>11, RunStays DEF Paired
  <2> QED BY <1>10, <1>11, <2>1, <2>2, HarmlessIs DEF RunsStaySteady
<1> QED BY <1>7, <1>8, <1>10, <1>11, GoesOn

\* What the search for an issue looks at.
BoardOf(r) == IF run[r].listed THEN run[r].board ELSE issues

LEMMA BoardIs ==
  ASSUME BoardTyped, NEW r \in Runs
  PROVE  /\ BoardOf(r) \in [Issues -> IssueRecord] /\ \A i \in Issues : Real(BoardOf(r)[i])
         /\ Paired => \A i \in Issues : BoardOf(r)[i] # NoIssue => issues[i] # NoIssue /\ issues[i].title = BoardOf(r)[i].title
<1>1. RunFits(run[r]) /\ run[r] \in RunRecord /\ IssuesTyped
  BY DEF BoardTyped, OthersTyped
<1>2. Paired => Follows(run[r])
  BY DEF Paired, Steady
<1> QED BY <1>1, <1>2 DEF BoardOf, RunFits, RunRecord, IssuesTyped, Follows

\* The task that a push is at.
LEMMA PushIs ==
  ASSUME BoardTyped, NEW r \in Runs, run[r].at \in Pushing
  PROVE  /\ run[r] \in RunRecord /\ RunFits(run[r])
         /\ run[r].task \in Tasks /\ run[r].task \in run[r].todo /\ run[r].todo \subseteq Tasks
         /\ run[r].tasks[run[r].task] \in TaskStatuses
         /\ \A t \in run[r].todo : run[r].tasks[t] # "none"
         /\ Paired => Steady(run[r]) /\ tasks[run[r].task] # NoTask
<1>1. run[r] \in RunRecord /\ RunFits(run[r])
  BY DEF BoardTyped
<1>2. run[r].task \in Tasks /\ run[r].task \in run[r].todo /\ run[r].todo \subseteq Tasks
      /\ (\A t \in run[r].todo : run[r].tasks[t] # "none")
  BY <1>1 DEF RunFits
<1>3. run[r].tasks[run[r].task] \in TaskStatuses
  BY <1>1, <1>2 DEF RunRecord
<1>4. Paired => Steady(run[r]) /\ tasks[run[r].task] # NoTask
  BY <1>2 DEF Paired, Steady, Follows
<1> QED BY <1>1, <1>2, <1>3, <1>4

\* Whoever is at a task crosses whoever else is.
LEMMA UncrossedIs ==
  ASSUME NEW r \in Runs, ~Crossed(r)
  PROVE  /\ links[run[r].task] = run[r].links[run[r].task]
         /\ \A q \in Runs \ {r} : run[q].task = run[r].task => run[q].at \notin Pushing
BY DEF Crossed, Pushing

\* No issue of the title: none is an orphan, and none is linked.
LEMMA NotFiled ==
  ASSUME BoardTyped, Paired, NEW r \in Runs, run[r].at = "list",
         Orphans(r, issues) = {}, ~\E q \in wire : q.title = Title(r)
  PROVE  ~Filed(tasks[run[r].task].title)
<1>1. run[r].task \in Tasks /\ tasks[run[r].task] # NoTask /\ Steady(run[r]) /\ run[r].links[run[r].task].issue = 0
  BY PushIs DEF Pushing, Steady, AtWork
<1>2. ASSUME NEW i \in Issues, issues[i].title = tasks[run[r].task].title PROVE FALSE
  <2>1. i \in LinkedIn(run[r].links)
    BY <1>2 DEF Orphans, Title
  <2>2. PICK u \in Tasks : run[r].links[u].issue = i /\ i # 0
    BY <2>1 DEF LinkedIn
  <2>3. links[u].issue = i
    BY <1>1, <2>2 DEF Steady, Follows
  <2>4. tasks[u] # NoTask /\ tasks[u].title = tasks[run[r].task].title
    BY <1>2, <2>2, <2>3 DEF Paired, World, LinksPaired
  <2>5. u = run[r].task
    BY <1>1, <2>4, TitlesAre DEF Paired
  <2> QED BY <1>1, <2>2, <2>5
<1> QED BY <1>2 DEF Filed, Title

\* A task is tied to the issue of its title.
LEMMA TiedIs ==
  ASSUME SyncInv, NEW t \in Tasks, NEW i \in Issues, NEW l \in LinkRecord, l.issue = i,
         links' = [links EXCEPT ![t] = l],
         Paired => tasks[t] # NoTask /\ issues[i].title = tasks[t].title,
         UNCHANGED <<tasks, issues, wire, mirrors, astray, missed>>, Smooth
  PROVE  OthersTyped' /\ (Paired => NothingMade /\ RunsStaySteady)
<1>1. BoardTyped /\ OthersTyped
  BY DEF SyncInv, BoardTyped
<1>2. OthersTyped'
  <2>1. links' \in [Tasks -> LinkRecord] /\ astray' \in BOOLEAN /\ missed' \in BOOLEAN
    BY <1>1, LinkStep DEF OthersTyped, CountsTyped
  <2> QED BY <1>1, <2>1, OthersStay
<1>3. ASSUME Paired PROVE NothingMade
  <2>1. World /\ tasks[t] # NoTask /\ issues[i].title = tasks[t].title
    BY <1>3 DEF Paired
  <2>2. links[t].issue # 0 => l.issue = links[t].issue
    <3>1. ASSUME links[t].issue # 0 PROVE links[t].issue = i
      <4>1. links[t].issue \in Issues /\ issues[links[t].issue].title = tasks[t].title
        BY <1>1, <2>1, <3>1 DEF World, LinksPaired, OthersTyped, LinkRecord
      <4> QED BY <1>1, <2>1, <4>1, TitlesAre
    <3> QED BY <3>1
  <2>3. Reached(l)
    BY SyncNumbers DEF Reached
  <2>4. ~Unfiled(t)
    BY <2>1 DEF Unfiled, Filed
  <2>5. done'.made = done.made /\ done'.filed = done.filed
    BY DEF Smooth
  <2>6. l.issue # 0 => tasks[t] # NoTask /\ issues[l.issue].title = tasks[t].title
    BY <2>1
  <2>7. Unfiled(t) => l.marked /\ l.issue = 0
    BY <2>4
  <2> QED BY <1>1, <2>1, <2>2, <2>3, <2>5, <2>6, <2>7, LinkTied
<1>4. ASSUME Paired PROVE NothingMade /\ RunsStaySteady
  BY <1>1, <1>3, <1>4, RunStays DEF Paired
<1> QED BY <1>2, <1>4

\* What a run knows of the links once it has linked its task.
Linking(r, t, i) == [run[r].links EXCEPT ![t].issue = i]

LEMMA LinkingIs ==
  ASSUME NEW r \in Runs, run[r] \in RunRecord, NEW t \in Tasks, NEW i \in Issues,
         NEW known, known = Linking(r, t, i)
  PROVE  /\ known \in [Tasks -> LinkRecord] /\ known[t].issue = i
         /\ \A u \in Tasks \ {t} : known[u] = run[r].links[u]
<1>1. run[r].links \in [Tasks -> LinkRecord] /\ i \in Issues \cup {0}
  BY DEF RunRecord
<1>2. PICK k : k = [run[r].links[t] EXCEPT !.issue = i]
  OBVIOUS
<1>3. k \in LinkRecord /\ k.issue = i
  BY <1>1, <1>2 DEF LinkRecord
<1>4. known = [run[r].links EXCEPT ![t] = k]
  BY <1>1, <1>2 DEF Linking
<1> QED BY <1>1, <1>3, <1>4

LEMMA AdoptsKeeps ==
  ASSUME SyncInv, NEW r \in Runs, run[r].at = "list", Orphans(r, BoardOf(r)) # {}, Smooth,
         NEW i, i = Lowest(Orphans(r, BoardOf(r))),
         links' = [links EXCEPT ![run[r].task].issue = i, ![run[r].task].marked = FALSE],
         To(r, [run[r] EXCEPT !.at = "put", !.issue = i, !.board = BoardOf(r),
                              !.listed = TRUE, !.links[run[r].task].issue = i]),
         UNCHANGED <<tasks, issues, wire, mirrors, astray, missed>>
  PROVE  SyncInv'
<1>1. PICK t : t = run[r].task
  OBVIOUS
<1>2. /\ BoardTyped /\ OthersTyped /\ t \in Tasks /\ t \in run[r].todo /\ run[r] \in RunRecord /\ RunFits(run[r])
      /\ Paired => Steady(run[r]) /\ tasks[t] # NoTask
  BY <1>1, PushIs DEF SyncInv, BoardTyped, Pushing
<1>3. i \in Issues /\ BoardOf(r)[i].title = tasks[t].title
  BY <1>1, LowestIs, SyncNumbers DEF Orphans, Title
<1>4. ASSUME Paired PROVE issues[i].title = tasks[t].title
  <2>1. tasks[t].title # 0
    BY <1>2, <1>4, TitlesAre DEF Paired
  <2>2. BoardOf(r)[i] # NoIssue
    BY <1>3, <2>1, EmptyIs
  <2> QED BY <1>2, <1>3, <1>4, <2>2, BoardIs
<1>5. PICK l : l = [links[t] EXCEPT !.issue = i, !.marked = FALSE]
  OBVIOUS
<1>6. links[t] \in LinkRecord /\ l \in LinkRecord /\ l.issue = i
  <2>1. links[t] \in LinkRecord /\ i \in Issues \cup {0}
    BY <1>2, <1>3 DEF OthersTyped
  <2> QED BY <1>5, <2>1 DEF LinkRecord
<1>7. links' = [links EXCEPT ![t] = l]
  <2>1. links \in [Tasks -> LinkRecord]
    BY <1>2 DEF OthersTyped
  <2> QED BY <1>1, <1>2, <1>5, <2>1
<1>8. Paired => tasks[t] # NoTask /\ issues[i].title = tasks[t].title
  BY <1>2, <1>4
<1>9. OthersTyped' /\ (Paired => NothingMade /\ RunsStaySteady)
  BY <1>2, <1>3, <1>6, <1>7, <1>8, TiedIs
<1>10. PICK known : known = Linking(r, t, i)
  OBVIOUS
<1>11. known \in [Tasks -> LinkRecord] /\ known[t].issue = i /\ \A u \in Tasks \ {t} : known[u] = run[r].links[u]
  BY <1>2, <1>3, <1>10, LinkingIs
<1>12. PICK m : m = [run[r] EXCEPT !.at = "put", !.issue = i, !.board = BoardOf(r), !.listed = TRUE, !.links = known]
  OBVIOUS
<1>13. /\ m \in RunRecord /\ m.at = "put" /\ m.issue = i /\ m.task = t /\ m.todo = run[r].todo
       /\ m.links = known /\ m.tasks = run[r].tasks /\ m.board = BoardOf(r)
  <2>1. "put" \in Stations /\ i \in Issues \cup {0} /\ BoardOf(r) \in [Issues -> IssueRecord]
    BY <1>2, <1>3, BoardIs DEF Stations
  <2> QED BY <1>1, <1>2, <1>11, <1>12, <2>1 DEF RunRecord
<1>14. To(r, m)
  <2>1. [run[r] EXCEPT !.at = "put", !.issue = i, !.board = BoardOf(r), !.listed = TRUE, !.links[run[r].task].issue = i] = m
    BY <1>1, <1>2, <1>10, <1>12 DEF RunRecord, Linking
  <2> QED BY <2>1
<1>15. RunFits(m)
  BY <1>2, <1>3, <1>13, BoardIs DEF RunFits, Pushing
<1>16. Harmless(m)
  BY <1>13 DEF Harmless
<1>17. ASSUME Paired PROVE Steady(m)'
  <2>1. NothingMade /\ Steady(run[r])
    BY <1>2, <1>9, <1>17
  <2>2. \A j \in Issues : m.board[j] # NoIssue => issues'[j] # NoIssue /\ issues'[j].title = m.board[j].title
    BY <1>2, <1>13, <1>17, BoardIs
  <2>3. \A u \in Tasks : m.tasks[u] # "none" => tasks'[u] # NoTask
    BY <1>13, <2>1 DEF Steady, Follows
  <2>4. ASSUME NEW u \in Tasks, m.links[u].issue # 0 PROVE links'[u].issue = m.links[u].issue
    <3>1. CASE u = t
      BY <3>1, <1>2, <1>6, <1>7, <1>11, <1>13, LinkStep
    <3>2. CASE u # t
      <4>1. links[u].issue = m.links[u].issue
        BY <3>2, <2>1, <2>4, <1>11, <1>13 DEF Steady, Follows
      <4>2. links'[u] = links[u]
        BY <3>2, <1>2, <1>6, <1>7, LinkStep
      <4> QED BY <4>1, <4>2
    <3> QED BY <3>1, <3>2
  <2>5. Follows(m)'
    BY <2>2, <2>3, <2>4 DEF Follows
  <2>6. AtWork(m)'
    BY <1>4, <1>13, <1>17 DEF AtWork
  <2> QED BY <2>5, <2>6 DEF Steady
<1> QED BY <1>9, <1>14, <1>15, <1>16, <1>17, HarmlessIs, GoesOn

\* Nothing was found: a new create.
LEMMA ListsNoneKeeps ==
  ASSUME SyncInv, NEW r \in Runs, run[r].at = "list", Smooth,
         To(r, [run[r] EXCEPT !.at = "mark", !.board = BoardOf(r), !.listed = TRUE]),
         astray' = (astray \/ Crossed(r) \/ Orphans(r, issues) # {} \/ \E q \in wire : q.title = Title(r)),
         UNCHANGED <<tasks, issues, links, wire, mirrors, missed>>
  PROVE  SyncInv'
<1>1. PICK t : t = run[r].task
  OBVIOUS
<1>2. /\ BoardTyped /\ OthersTyped /\ t \in Tasks /\ t \in run[r].todo /\ run[r] \in RunRecord /\ RunFits(run[r])
      /\ Paired => Steady(run[r])
  BY <1>1, PushIs DEF SyncInv, BoardTyped, Pushing
<1>3. OthersTyped' /\ (astray => astray')
  BY <1>2, OthersStay DEF OthersTyped, CountsTyped
<1>4. PICK m : m = [run[r] EXCEPT !.at = "mark", !.board = BoardOf(r), !.listed = TRUE]
  OBVIOUS
<1>5. /\ m \in RunRecord /\ m.at = "mark" /\ m.task = t /\ m.todo = run[r].todo
      /\ m.links = run[r].links /\ m.tasks = run[r].tasks /\ m.board = BoardOf(r)
  <2>1. "mark" \in Stations /\ BoardOf(r) \in [Issues -> IssueRecord]
    BY <1>2, BoardIs DEF Stations
  <2> QED BY <1>1, <1>2, <1>4, <2>1 DEF RunRecord
<1>6. To(r, m)
  BY <1>4
<1>7. RunFits(m)
  BY <1>2, <1>5, BoardIs DEF RunFits, Pushing
<1>8. ASSUME ~astray', Paired PROVE NothingMade /\ Steady(m)' /\ NoClash(r, m)
  <2>1. ~Crossed(r) /\ Orphans(r, issues) = {} /\ ~\E q \in wire : q.title = Title(r)
    BY <1>8
  <2>2. NothingMade /\ RunsStaySteady
    BY <1>2, <1>8, NothingIsMade, RunStays DEF Smooth, Paired
  <2>3. ~Filed(tasks[t].title)
    BY <1>1, <1>2, <1>8, <2>1, NotFiled
  <2>4. Follows(m)
    BY <1>2, <1>5, <1>8, BoardIs DEF Steady, Follows
  <2>5. AtWork(m)
    BY <1>1, <1>2, <1>5, <1>8, <2>3 DEF Steady, AtWork
  <2>6. NoClash(r, m)
    BY <1>1, <1>5, <2>1, UncrossedIs DEF NoClash, Clash, Pushing
  <2> QED BY <1>7, <2>2, <2>4, <2>5, <2>6 DEF RunsStaySteady, Steady
<1> QED BY <1>3, <1>6, <1>7, <1>8, GoesOn

LEMMA ListsKeeps == ASSUME SyncInv, NEW r \in Runs, Lists(r) PROVE SyncInv'
<1>1. PICK t : t = run[r].task
  OBVIOUS
<1>2. BoardTyped /\ run[r].at = "list" /\ UNCHANGED <<tasks, issues, wire, mirrors, missed>>
  BY DEF Lists, At, SyncInv
<1>3. CASE /\ Orphans(r, BoardOf(r)) # {} /\ Smooth
           /\ links' = [links EXCEPT ![t].issue = Lowest(Orphans(r, BoardOf(r))), ![t].marked = FALSE]
           /\ To(r, [run[r] EXCEPT !.at = "put", !.issue = Lowest(Orphans(r, BoardOf(r))), !.board = BoardOf(r),
                                   !.listed = TRUE, !.links[t].issue = Lowest(Orphans(r, BoardOf(r)))])
           /\ UNCHANGED astray
  <2>1. PICK i : i = Lowest(Orphans(r, BoardOf(r)))
    OBVIOUS
  <2> QED BY <1>1, <1>2, <1>3, <2>1, AdoptsKeeps
<1>4. CASE /\ Orphans(r, BoardOf(r)) = {} /\ Smooth
           /\ To(r, [run[r] EXCEPT !.at = "mark", !.board = BoardOf(r), !.listed = TRUE])
           /\ astray' = (astray \/ Crossed(r) \/ Orphans(r, issues) # {} \/ \E q \in wire : q.title = Title(r))
           /\ UNCHANGED links
  BY <1>2, <1>4, ListsNoneKeeps
<1>5. CASE Slip /\ UNCHANGED <<links, astray>> /\ Turns(r, "push", t)
  BY <1>2, <1>5, TurnsKeeps DEF Pushing
<1>6. CASE /\ Slip /\ UNCHANGED <<links, astray>>
           /\ To(r, [run[r] EXCEPT !.at = "push", !.todo = @ \ {t}, !.task = 0, !.board = BoardOf(r), !.listed = TRUE])
  <2>1. PICK m : m = [run[r] EXCEPT !.at = "push", !.todo = @ \ {t}, !.task = 0, !.board = BoardOf(r), !.listed = TRUE]
    OBVIOUS
  <2>2. run[r] \in RunRecord /\ RunFits(run[r]) /\ (Paired => Steady(run[r]))
    BY <1>2, PushIs DEF Pushing
  <2>3. /\ m \in RunRecord /\ m.at = "push" /\ m.todo = run[r].todo \ {t}
        /\ m.links = run[r].links /\ m.tasks = run[r].tasks /\ m.board = BoardOf(r)
    <3>1. "push" \in Stations /\ BoardOf(r) \in [Issues -> IssueRecord] /\ run[r].todo \ {t} \in SUBSET Nat
      BY <1>2, <2>2, BoardIs DEF Stations, RunRecord
    <3> QED BY <2>1, <2>2, <3>1 DEF RunRecord
  <2>4. RunFits(m) /\ Harmless(m)
    BY <1>2, <2>2, <2>3, BoardIs DEF RunFits, Pushing, Harmless
  <2>5. Paired => Steady(m)
    BY <1>2, <2>2, <2>3, BoardIs DEF Steady, Follows, AtWork
  <2>6. mirrors' \subseteq Tasks
    BY <1>2 DEF BoardTyped, OthersTyped, CountsTyped
  <2>7. To(r, m)
    BY <1>6, <2>1
  <2> QED BY <1>2, <1>6, <2>4, <2>5, <2>6, <2>7, QuietStep
<1> QED BY <1>1, <1>3, <1>4, <1>5, <1>6 DEF Lists, BoardOf

LEMMA MarksKeeps == ASSUME SyncInv, NEW r \in Runs, Marks(r) PROVE SyncInv'
<1>1. PICK t : t = run[r].task
  OBVIOUS
<1>2. /\ BoardTyped /\ OthersTyped /\ t \in Tasks /\ t \in run[r].todo /\ run[r] \in RunRecord /\ RunFits(run[r])
      /\ run[r].at = "mark" /\ (Paired => Steady(run[r]) /\ tasks[t] # NoTask)
  BY <1>1, PushIs DEF SyncInv, BoardTyped, Pushing, Marks, At
<1>3. UNCHANGED <<tasks, issues, wire, mirrors, missed>>
  BY DEF Marks
<1>4. CASE Slip /\ Turns(r, "push", run[r].task) /\ UNCHANGED <<links, astray>>
  BY <1>2, <1>3, <1>4, TurnsKeeps DEF Pushing
<1>5. CASE /\ links' = [links EXCEPT ![run[r].task].marked = TRUE] /\ Moves(r, "post")
           /\ astray' = (astray \/ Crossed(r) \/ tasks[run[r].task].of # 0) /\ Smooth
  <2>1. PICK l : l = [links[t] EXCEPT !.marked = TRUE]
    OBVIOUS
  <2>2. links[t] \in LinkRecord /\ l \in LinkRecord /\ l.issue = links[t].issue /\ l.marked
    BY <1>2, <2>1 DEF OthersTyped, LinkRecord
  <2>3. links' = [links EXCEPT ![t] = l]
    BY <1>1, <1>2, <1>5, <2>1 DEF OthersTyped
  <2>4. links' \in [Tasks -> LinkRecord] /\ links'[t] = l
    BY <1>2, <2>2, <2>3, LinkStep
  <2>5. OthersTyped'
    <3>1. astray' \in BOOLEAN /\ missed' \in BOOLEAN
      BY <1>2, <1>3, <1>5 DEF OthersTyped, CountsTyped
    <3> QED BY <1>2, <1>3, <1>5, <2>4, <3>1, OthersStay
  <2>6. PICK m : m = [run[r] EXCEPT !.at = "post"]
    OBVIOUS
  <2>7. /\ m \in RunRecord /\ m.at = "post" /\ m.task = t /\ m.todo = run[r].todo
        /\ m.links = run[r].links /\ m.tasks = run[r].tasks /\ m.board = run[r].board /\ m.issue = run[r].issue
    BY <1>1, <1>2, <2>6, MovesIs DEF Stations
  <2>8. To(r, m)
    BY <1>5, <2>6 DEF Moves
  <2>9. RunFits(m)
    BY <1>2, <2>7 DEF RunFits, Pushing
  <2>10. ASSUME ~astray', Paired PROVE NothingMade /\ Steady(m)' /\ NoClash(r, m)
    <3>1. ~Crossed(r) /\ tasks[t].of = 0 /\ World /\ Steady(run[r]) /\ tasks[t] # NoTask
      BY <1>1, <1>2, <1>5, <2>10 DEF Paired
    <3>2. links[t] = run[r].links[t] /\ links[t].issue = 0
      BY <1>1, <1>2, <3>1, UncrossedIs DEF Steady, AtWork
    <3>3. ~Filed(tasks[t].title)
      <4>1. CASE links[t].marked
        BY <1>1, <1>2, <3>1, <3>2, <4>1 DEF Steady, AtWork
      <4>2. CASE ~links[t].marked
        BY <1>2, <3>1, <3>2, <4>2 DEF World, LinksPaired, OfAgents, Reached
      <4> QED BY <4>1, <4>2
    <3>4. NothingMade
      <4>1. Reached(l) /\ l.issue = 0
        BY <2>2, <3>2 DEF Reached
      <4>2. done'.made = done.made /\ done'.filed = done.filed
        BY <1>5 DEF Smooth
      <4> QED BY <1>2, <1>3, <2>2, <2>3, <3>1, <3>2, <4>1, <4>2, LinkTied
    <3>5. Steady(m)'
      <4>1. Follows(m)
        BY <2>7, <3>1 DEF Steady, Follows
      <4>2. Follows(m)'
        <5>1. \A u \in Tasks : LinkGrows(u)
          BY <3>4 DEF NothingMade
        <5> QED BY <1>3, <4>1, <5>1 DEF Follows, LinkGrows
      <4>3. OfAgents(t)' /\ ~Filed(tasks[t].title)'
        BY <1>3, <3>1, <3>3 DEF OfAgents, Filed
      <4>4. AtWork(m)'
        BY <1>1, <1>3, <2>2, <2>4, <2>7, <3>2, <4>3 DEF AtWork
      <4> QED BY <4>2, <4>4 DEF Steady
    <3>6. NoClash(r, m)
      BY <1>1, <2>7, <3>1, UncrossedIs DEF NoClash, Clash, Pushing
    <3> QED BY <3>4, <3>5, <3>6
  <2>11. astray => astray'
    BY <1>5
  <2> QED BY <2>5, <2>8, <2>9, <2>10, <2>11, GoesOn
<1> QED BY <1>4, <1>5 DEF Marks

-----------------------------------------------------------------------------
(* Creates: an issue of a new title, and a task of a new title *)

\* An issue of record x comes to the board, or onto the wire.
Comes(x) ==
  \/ \E i \in Issues : issues[i] = NoIssue /\ issues' = [issues EXCEPT ![i] = x] /\ wire' = wire
  \/ /\ wire' = wire \cup {x} /\ issues' = issues
     /\ \E t \in Tasks : OfAgents(t) /\ tasks[t].title = x.title
NewTitle(x) ==
  /\ x.title # 0 /\ ~Filed(x.title) /\ Named(x.title)'
  /\ \A u \in Tasks : OfAgents(u) /\ tasks[u].title = x.title => Reached(links[u])
Intends(k, title) ==
  tasks[k.task].title = title /\ (k.at = "post" \/ (k.at = "mark" /\ k.links[k.task].marked))
KeepsBut(title) == \A k : RunFits(k) /\ Steady(k) /\ ~Intends(k, title) => Steady(k)'

LEMMA ComesIs ==
  ASSUME BoardTyped, NEW x \in IssueRecord, Comes(x), ~Filed(x.title), x.title # 0
  PROVE  /\ \A i \in Issues : issues[i] # NoIssue => issues'[i] = issues[i]
         /\ \A i \in Issues : issues'[i].title # 0 => issues'[i].title \in {issues[i].title, x.title}
         /\ \A i, j \in Issues : issues'[i].title = x.title /\ issues'[j].title = x.title => i = j
         /\ \A i \in Issues : issues'[i] # NoIssue => issues'[i].title = x.title \/ issues'[i] = issues[i]
         /\ \A q \in wire' : q = x \/ q \in wire
         /\ x \in wire' => \A i \in Issues : issues'[i].title # x.title
         /\ \A title : title # 0 => (Filed(title)' => Filed(title) \/ title = x.title)
<1>1. issues \in [Issues -> IssueRecord] /\ (\A i \in Issues : issues[i].title # x.title) /\ x \notin wire
  BY DEF BoardTyped, OthersTyped, IssuesTyped, Filed
<1>2. CASE \E i \in Issues : issues[i] = NoIssue /\ issues' = [issues EXCEPT ![i] = x] /\ wire' = wire
  <2>1. PICK i \in Issues : issues[i] = NoIssue /\ issues' = [issues EXCEPT ![i] = x] /\ wire' = wire
    BY <1>2
  <2>2. issues'[i] = x /\ \A j \in Issues \ {i} : issues'[j] = issues[j]
    BY <1>1, <2>1
  <2>3. \A title : title # 0 => (Filed(title)' => Filed(title) \/ title = x.title)
    BY <2>1, <2>2 DEF Filed
  <2> QED BY <1>1, <2>1, <2>2, <2>3
<1>3. CASE wire' = wire \cup {x} /\ issues' = issues
  <2>1. \A title : title # 0 => (Filed(title)' => Filed(title) \/ title = x.title)
    BY <1>3 DEF Filed
  <2> QED BY <1>1, <1>3, <2>1
<1> QED BY <1>2, <1>3 DEF Comes

LEMMA NewIssueWorld ==
  ASSUME BoardTyped, World, NEW x \in IssueRecord, Comes(x), NewTitle(x),
         UNCHANGED <<tasks, links>>, done'.made = done.made, done'.filed \in Nat, done.filed <= done'.filed
  PROVE  World'
<1>1. x.title # 0 /\ ~Filed(x.title) /\ issues' \in [Issues -> IssueRecord]
  <2>1. issues' \in [Issues -> IssueRecord]
    BY DEF Comes, BoardTyped, OthersTyped, IssuesTyped
  <2> QED BY <2>1 DEF NewTitle
<1>2. /\ \A i \in Issues : issues[i] # NoIssue => issues'[i] = issues[i]
      /\ \A i, j \in Issues : issues'[i].title = x.title /\ issues'[j].title = x.title => i = j
      /\ \A i \in Issues : issues'[i] # NoIssue => issues'[i].title = x.title \/ issues'[i] = issues[i]
      /\ \A q \in wire' : q = x \/ q \in wire
      /\ x \in wire' => \A i \in Issues : issues'[i].title # x.title
      /\ \A title : title # 0 => (Filed(title)' => Filed(title) \/ title = x.title)
  BY <1>1, ComesIs
<1>3. done \in DoneRecord /\ (\A t \in Tasks : tasks[t] \in TaskRecord) /\ \A t \in Tasks : links[t] \in LinkRecord
  BY DEF BoardTyped, OthersTyped, TasksTyped, CountsTyped
<1>4. \A i \in Issues : issues[i].title # 0 => issues[i] # NoIssue
  BY EmptyIs
<1>5. \A i \in Issues : issues[i].title # x.title
  BY <1>1 DEF Filed
<1>6. \A q \in wire : q.title # x.title
  BY <1>1 DEF Filed
<1>7. OneToOne'
  <2>1. ASSUME NEW i \in Issues, NEW j \in Issues, issues'[i] # NoIssue, issues'[i].title = issues'[j].title
        PROVE  i = j
    <3>1. CASE issues'[i].title = x.title
      BY <1>2, <2>1, <3>1
    <3>2. CASE issues'[i].title # x.title
      <4>1. issues'[i] = issues[i] /\ issues[i] # NoIssue
        BY <1>2, <2>1, <3>2
      <4>2. issues'[j] = issues[j] \/ issues'[j] = NoIssue
        BY <1>2, <2>1, <3>2
      <4>3. issues[i].title # 0
        BY <1>3, <4>1, SyncNumbers DEF World, IssuesPaired, Named, DoneRecord
      <4> QED BY <1>2, <2>1, <4>1, <4>2, <4>3, EmptyIs DEF World, OneToOne
    <3> QED BY <3>1, <3>2
  <2> QED BY <2>1 DEF World, OneToOne
<1>8. TasksPaired'
  <2>1. ASSUME NEW t \in Tasks, tasks[t].of # 0, tasks[t].title > MaxMade, issues[tasks[t].of].title = tasks[t].title
        PROVE  issues'[tasks[t].of].title = tasks[t].title
    <3>1. tasks[t].of \in Issues /\ tasks[t].title # 0
      BY <1>3, <2>1, SyncNumbers DEF TaskRecord
    <3> QED BY <1>2, <1>4, <2>1, <3>1
  <2> QED BY <2>1 DEF World, TasksPaired
<1>9. IssuesPaired'
  <2>1. \A title : Named(title) => Named(title)'
    BY <1>3, SyncNumbers DEF Named, OfAgents, DoneRecord
  <2>2. ASSUME NEW i \in Issues, issues'[i] # NoIssue PROVE Named(issues[i].title)'
    <3>1. PICK title : title = issues'[i].title
      OBVIOUS
    <3>2. Named(title)'
      BY <1>2, <2>1, <2>2, <3>1 DEF World, IssuesPaired, NewTitle
    <3> QED BY <3>1, <3>2 DEF Named
  <2>3. \A q \in wire' : \E t \in Tasks : OfAgents(t)' /\ tasks'[t].title = q.title
    <3>1. ASSUME NEW q \in wire' PROVE \E t \in Tasks : OfAgents(t) /\ tasks[t].title = q.title
      BY <1>2 DEF World, IssuesPaired, Comes
    <3> QED BY <3>1 DEF OfAgents
  <2>4. \A q \in wire' : \A i \in Issues : issues'[i].title # q.title
    <3>1. ASSUME NEW q \in wire', NEW i \in Issues, issues'[i].title = q.title PROVE FALSE
      <4>1. q # x /\ q \in wire
        BY <1>2, <3>1
      <4>2. issues[i].title # q.title /\ q.title # x.title
        BY <1>6, <4>1 DEF World, IssuesPaired
      <4>3. q.title # 0
        BY <1>3, <4>1, SyncNumbers DEF World, IssuesPaired, TasksPaired, OfAgents, DoneRecord
      <4>4. issues'[i] # NoIssue
        BY <3>1, <4>3, EmptyIs
      <4> QED BY <1>2, <3>1, <4>2, <4>4
    <3> QED BY <3>1
  <2>5. \A q, p \in wire' : q.title = p.title => q = p
    BY <1>2, <1>6 DEF World, IssuesPaired
  <2> QED BY <2>2, <2>3, <2>4, <2>5 DEF IssuesPaired
<1>10. LinksPaired'
  <2>1. ASSUME NEW t \in Tasks, links[t].issue # 0
        PROVE  tasks[t] # NoTask /\ issues'[links[t].issue].title = tasks[t].title
    <3>1. tasks[t] # NoTask /\ issues[links[t].issue].title = tasks[t].title /\ links[t].issue \in Issues
      BY <1>3, <2>1 DEF World, LinksPaired, LinkRecord
    <3>2. issues[links[t].issue].title # 0
      BY <3>1, TitlesAre
    <3> QED BY <1>2, <1>4, <3>1, <3>2
  <2>2. ASSUME NEW t \in Tasks, OfAgents(t), Filed(tasks[t].title)' PROVE Reached(links[t])
    <3>1. tasks[t].title # 0
      BY <2>2, TitlesAre DEF OfAgents
    <3>2. PICK title : title = tasks[t].title
      OBVIOUS
    <3>3. Filed(title)'
      BY <2>2, <3>2 DEF Filed
    <3>4. Filed(title) \/ title = x.title
      BY <1>2, <3>1, <3>2, <3>3
    <3> QED BY <2>2, <3>2, <3>4 DEF World, LinksPaired, NewTitle
  <2> QED BY <2>1, <2>2 DEF LinksPaired, OfAgents
<1> QED BY <1>7, <1>8, <1>9, <1>10 DEF World

LEMMA NewIssueKeeps ==
  ASSUME BoardTyped, World, NEW x \in IssueRecord, Comes(x), NewTitle(x), UNCHANGED <<tasks, links>>
  PROVE  KeepsBut(x.title)
<1> SUFFICES ASSUME NEW k, RunFits(k), Steady(k), ~Intends(k, x.title) PROVE Steady(k)'
  BY DEF KeepsBut
<1>1. k \in RunRecord /\ Follows(k) /\ AtWork(k) /\ x.title # 0 /\ ~Filed(x.title)
  BY DEF RunFits, Steady, NewTitle
<1>2. /\ \A i \in Issues : issues[i] # NoIssue => issues'[i] = issues[i]
      /\ \A title : title # 0 => (Filed(title)' => Filed(title) \/ title = x.title)
  BY <1>1, ComesIs
<1>3. Follows(k)'
  BY <1>1, <1>2 DEF Follows
<1>4. k.at \in Pushing => /\ k.task \in Tasks /\ tasks[k.task] # NoTask /\ tasks[k.task].title # 0
  BY <1>1, TitlesAre DEF RunFits, Follows, Pushing
<1>5. (k.at = "mark" /\ k.links[k.task].marked) \/ k.at = "post" => ~Filed(tasks[k.task].title)'
  <2>1. SUFFICES ASSUME (k.at = "mark" /\ k.links[k.task].marked) \/ k.at = "post", Filed(tasks[k.task].title)' PROVE FALSE
    OBVIOUS
  <2>2. PICK title : title = tasks[k.task].title
    OBVIOUS
  <2>3. Filed(title)' /\ title # 0 /\ ~Filed(title) /\ title # x.title
    BY <1>1, <1>4, <2>1, <2>2 DEF Filed, AtWork, Pushing, Intends
  <2> QED BY <1>2, <2>3
<1>6. k.at \in {"put", "link"} => issues'[k.issue].title = tasks[k.task].title
  <2>1. SUFFICES ASSUME k.at \in {"put", "link"} PROVE issues'[k.issue].title = tasks[k.task].title
    OBVIOUS
  <2>2. k.issue \in Issues /\ issues[k.issue].title = tasks[k.task].title /\ tasks[k.task].title # 0
    BY <1>1, <1>4, <2>1 DEF RunFits, AtWork, Pushing
  <2> QED BY <1>2, <2>2, EmptyIs
<1>7. \A i : Accounted(k, i) => Accounted(k, i)'
  BY DEF Accounted, OfAgents
<1>8. OfAgents(k.task) => OfAgents(k.task)'
  BY DEF OfAgents
<1>9. AtWork(k)'
  BY <1>1, <1>5, <1>6, <1>7, <1>8 DEF AtWork
<1> QED BY <1>3, <1>9 DEF Steady

LEMMA PostedIs ==
  ASSUME BoardTyped, NEW r \in Runs, run[r].at = "post",
         NEW x, x = NewIssue(Title(r), ToBoard[run[r].tasks[run[r].task]], "push")
  PROVE  /\ x \in IssueRecord /\ x.status \in Shown /\ Real(x)
         /\ x.title = tasks[run[r].task].title
<1>1. run[r].task \in Tasks /\ run[r].tasks[run[r].task] \in TaskStatuses
  BY PushIs DEF Pushing
<1>2. tasks[run[r].task].title \in Nat
  BY <1>1 DEF BoardTyped, OthersTyped, TasksTyped, TaskRecord
<1>3. ToBoard[run[r].tasks[run[r].task]] \in Shown
  BY <1>1, StatusesMap
<1> QED BY <1>2, <1>3 DEF NewIssue, Title, IssueRecord, Real

\* A create lands, or may do so later, and its sender goes on to m.
LEMMA FilesKeeps ==
  ASSUME SyncInv, NEW r \in Runs, run[r].at = "post",
         NEW x, x = NewIssue(Title(r), ToBoard[run[r].tasks[run[r].task]], "push"),
         \/ \E i \in Issues : issues[i] = NoIssue /\ issues' = [issues EXCEPT ![i] = x] /\ wire' = wire
         \/ wire' = wire \cup {x} /\ issues' = issues,
         UNCHANGED <<tasks, links, mirrors, astray, missed>>, Slip \/ Smooth,
         NEW m, RunFits(m), To(r, m), Harmless(m),
         World /\ Paired /\ KeepsBut(x.title) => Steady(m)'
  PROVE  SyncInv'
<1>1. PICK t : t = run[r].task
  OBVIOUS
<1>2. /\ BoardTyped /\ OthersTyped /\ t \in Tasks /\ CountsTyped
      /\ (Paired => Steady(run[r]) /\ tasks[t] # NoTask /\ World)
  BY <1>1, PushIs DEF SyncInv, BoardTyped, OthersTyped, Pushing, Paired
<1>3. x \in IssueRecord /\ x.status \in Shown /\ Real(x) /\ x.title = tasks[t].title
  BY <1>1, <1>2, PostedIs
<1>4. done' \in DoneRecord /\ done'.made = done.made /\ done'.filed = done.filed
  BY <1>2, DoneIs
<1>5. BoardTyped'
  <2>1. TasksTyped' /\ links' \in [Tasks -> LinkRecord] /\ CountsTyped'
    BY <1>2, <1>4 DEF OthersTyped, TasksTyped, CountsTyped
  <2>2. IssuesTyped' /\ WireTyped'
    BY <1>2, <1>3 DEF OthersTyped, IssuesTyped, WireTyped
  <2> QED BY <1>2, <2>1, <2>2, AgainTyped DEF OthersTyped
<1>6. ASSUME Paired PROVE Paired'
  <2>1. /\ OfAgents(t) /\ ~Filed(tasks[t].title) /\ links[t].marked /\ tasks[t].title # 0 /\ World
    BY <1>1, <1>2, <1>6, TitlesAre DEF Steady, AtWork
  <2>2. Comes(x)
    BY <1>2, <1>3, <2>1 DEF Comes
  <2>3. NewTitle(x)
    <3>1. Named(x.title)'
      <4>1. tasks[t].title \in 1..done.made
        BY <1>2, <2>1 DEF World, TasksPaired, OfAgents
      <4> QED BY <1>2, <1>3, <1>4, <2>1, <4>1 DEF Named, OfAgents
    <3>2. \A u \in Tasks : OfAgents(u) /\ tasks[u].title = x.title => Reached(links[u])
      BY <1>2, <1>3, <2>1, TitlesAre DEF Reached, OfAgents
    <3> QED BY <1>3, <2>1, <3>1, <3>2 DEF NewTitle
  <2>4. World'
    <3>1. done'.filed \in Nat /\ done.filed <= done'.filed
      BY <1>4, SyncNumbers DEF DoneRecord
    <3> QED BY <1>2, <1>3, <1>4, <2>1, <2>2, <2>3, <3>1, NewIssueWorld
  <2>5. KeepsBut(x.title)
    BY <1>2, <1>3, <2>1, <2>2, <2>3, NewIssueKeeps
  <2>6. OthersSteady(r)
    <3>1. ASSUME NEW q \in Runs \ {r}, NEW k, k = run[q] PROVE Steady(k)'
      <4>1. RunFits(k) /\ Steady(k) /\ ~Clash(run[r], k)
        BY <1>2, <1>6, <3>1 DEF BoardTyped, Paired
      <4>2. ASSUME Intends(k, x.title) PROVE FALSE
        <5>1. k.task \in Tasks /\ (k.at = "post" \/ (k.at = "mark" /\ k.links[k.task].marked))
              /\ tasks[k.task].title = tasks[t].title
          BY <1>3, <4>1, <4>2 DEF Intends, RunFits, Pushing
        <5>2. k.task = t
          BY <1>2, <2>1, <5>1, TitlesAre DEF OfAgents
        <5> QED BY <1>1, <4>1, <5>1, <5>2 DEF Clash
      <4> QED BY <2>5, <4>1, <4>2 DEF KeepsBut
    <3> QED BY <3>1 DEF OthersSteady
  <2>7. Steady(m)'
    BY <1>6, <2>1, <2>5
  <2>8. NoClash(r, m)
    BY HarmlessIs
  <2> QED BY <1>2, <1>6, <2>4, <2>6, <2>7, <2>8, AgainPaired DEF NoClash
<1> QED BY <1>5, <1>6 DEF SyncInv

LEMMA FreeIs ==
  /\ FreeIssues # {} => Lowest(FreeIssues) \in Issues /\ issues[Lowest(FreeIssues)] = NoIssue
  /\ FreeTasks # {} => Lowest(FreeTasks) \in Tasks /\ tasks[Lowest(FreeTasks)] = NoTask
<1>1. FreeIssues \subseteq Nat /\ FreeTasks \subseteq Nat
  BY SyncNumbers DEF FreeIssues, FreeTasks
<1>2. FreeIssues # {} => Lowest(FreeIssues) \in FreeIssues
  BY <1>1, LowestIs
<1>3. FreeTasks # {} => Lowest(FreeTasks) \in FreeTasks
  BY <1>1, LowestIs
<1> QED BY <1>2, <1>3 DEF FreeIssues, FreeTasks

LEMMA PostsKeeps == ASSUME SyncInv, NEW r \in Runs, Posts(r) PROVE SyncInv'
<1>1. PICK x : x = NewIssue(Title(r), ToBoard[run[r].tasks[run[r].task]], "push")
  OBVIOUS
<1>2. PICK i : i = Lowest(FreeIssues)
  OBVIOUS
<1>3. /\ BoardTyped /\ run[r].at = "post" /\ UNCHANGED <<tasks, links, mirrors, astray, missed>>
      /\ i \in Issues /\ issues[i] = NoIssue
  BY <1>2, FreeIs DEF SyncInv, Posts, At
<1>4. /\ run[r] \in RunRecord /\ RunFits(run[r]) /\ run[r].task \in run[r].todo /\ run[r].task \in Tasks
      /\ Paired => Steady(run[r])
  BY <1>3, PushIs DEF Pushing
<1>5. PICK k : k = Turned(r, "push", run[r].task)
  OBVIOUS
<1>6. RunFits(k) /\ Harmless(k) /\ (Steady(run[r]) => Steady(k)) /\ k.at = "push"
      /\ k.links = run[r].links /\ k.tasks = run[r].tasks /\ k.board = run[r].board
  BY <1>3, <1>5, TurnsFit, TurnsIs DEF Pushing
<1>7. Paired /\ KeepsBut(x.title) => Steady(k)'
  BY <1>4, <1>6 DEF KeepsBut, Intends
<1>8. CASE issues' = [issues EXCEPT ![i] = x] /\ Smooth
           /\ To(r, [run[r] EXCEPT !.at = "link", !.issue = i]) /\ UNCHANGED wire
  <2>1. PICK m : m = [run[r] EXCEPT !.at = "link", !.issue = i]
    OBVIOUS
  <2>2. /\ m \in RunRecord /\ m.at = "link" /\ m.issue = i /\ m.task = run[r].task /\ m.todo = run[r].todo
        /\ m.links = run[r].links /\ m.tasks = run[r].tasks /\ m.board = run[r].board
    BY <1>3, <1>4, <2>1 DEF RunRecord, Stations
  <2>3. RunFits(m) /\ Harmless(m)
    BY <1>3, <1>4, <2>2 DEF RunFits, Pushing, Harmless
  <2>4. ASSUME World /\ Paired /\ KeepsBut(x.title) PROVE Steady(m)'
    <3>1. Follows(m)'
      BY <1>6, <1>7, <2>2, <2>4 DEF Steady, Follows
    <3>2. issues'[i].title = tasks'[run[r].task].title
      BY <1>1, <1>3, <1>8, PostedIs DEF BoardTyped, OthersTyped, IssuesTyped
    <3>3. AtWork(m)'
      BY <2>2, <3>2 DEF AtWork
    <3> QED BY <3>1, <3>3 DEF Steady
  <2>5. To(r, m)
    BY <1>8, <2>1
  <2> QED BY <1>1, <1>3, <1>8, <2>3, <2>4, <2>5, FilesKeeps
<1>9. CASE /\ Slip /\ Turns(r, "push", run[r].task)
           /\ \/ issues' = [issues EXCEPT ![i] = x] /\ UNCHANGED wire
              \/ wire' = wire \cup {x} /\ UNCHANGED issues
  <2>1. To(r, k)
    BY <1>5, <1>9 DEF Turns, Turned
  <2> QED BY <1>1, <1>3, <1>6, <1>7, <1>9, <2>1, FilesKeeps
<1>10. CASE Slip /\ Turns(r, "push", run[r].task) /\ UNCHANGED <<issues, wire>>
  BY <1>3, <1>10, TurnsKeeps DEF Pushing
<1> QED BY <1>1, <1>2, <1>8, <1>9, <1>10 DEF Posts

LEMMA DiesKeeps == ASSUME SyncInv, NEW r \in Runs, Dies(r) PROVE SyncInv'
<1>1. UNCHANGED <<tasks, issues, links, mirrors, astray, missed>> /\ To(r, Idle) /\ Slip
  BY DEF Dies
<1>2. CASE UNCHANGED wire
  BY <1>1, <1>2, IdleKeeps
<1>3. CASE run[r].at = "post" /\ wire' = wire \cup {NewIssue(Title(r), ToBoard[run[r].tasks[run[r].task]], "push")}
  <2>1. PICK x : x = NewIssue(Title(r), ToBoard[run[r].tasks[run[r].task]], "push")
    OBVIOUS
  <2>2. Steady(Idle)' /\ Harmless(Idle)
    BY IdleIs, EmptyIs DEF Steady, Follows, AtWork, Harmless
  <2> QED BY <1>1, <1>3, <2>1, <2>2, IdleIs, FilesKeeps
<1> QED BY <1>2, <1>3 DEF Dies, At

\* A create that was given up lands.
LEMMA LandsKeeps == ASSUME SyncInv, Lands PROVE SyncInv'
<1>1. PICK q \in wire : FreeIssues # {} /\ wire' = wire \ {q} /\ issues' = [issues EXCEPT ![Lowest(FreeIssues)] = q]
  BY DEF Lands
<1>2. PICK i : i = Lowest(FreeIssues)
  OBVIOUS
<1>3. /\ i \in Issues /\ issues[i] = NoIssue /\ issues' = [issues EXCEPT ![i] = q] /\ wire' = wire \ {q}
      /\ UNCHANGED <<tasks, links, mirrors, run, astray, missed, done>>
  BY <1>1, <1>2, FreeIs DEF Lands
<1>4. BoardTyped /\ OthersTyped /\ issues \in [Issues -> IssueRecord] /\ q \in IssueRecord /\ q.status \in Shown
  BY DEF SyncInv, BoardTyped, OthersTyped, IssuesTyped, WireTyped
<1>5. issues'[i] = q /\ \A j \in Issues \ {i} : issues'[j] = issues[j]
  BY <1>3, <1>4
<1>6. OthersTyped'
  <2>1. TasksTyped' /\ links' \in [Tasks -> LinkRecord] /\ CountsTyped' /\ WireTyped'
    BY <1>3, <1>4 DEF OthersTyped, TasksTyped, CountsTyped, WireTyped
  <2>2. IssuesTyped'
    BY <1>3, <1>4 DEF OthersTyped, IssuesTyped, Real
  <2> QED BY <2>1, <2>2 DEF OthersTyped
<1>7. BoardTyped'
  BY <1>3, <1>4, <1>6 DEF BoardTyped
<1>8. ASSUME Paired PROVE Paired'
  <2>1. World /\ IssuesPaired /\ LinksPaired /\ TasksPaired /\ OneToOne
    BY <1>8 DEF Paired, World
  <2>2. PICK t \in Tasks : OfAgents(t) /\ tasks[t].title = q.title /\ q.title # 0
    BY <1>4, <2>1, TitlesAre DEF IssuesPaired, OfAgents
  <2>3. \A j \in Issues : issues[j].title # q.title
    BY <2>1 DEF IssuesPaired
  <2>4. \A title : title # 0 => (Filed(title)' <=> Filed(title))
    BY <1>3, <1>5, EmptyIs DEF Filed
  <2>5. \A j \in Issues : issues[j] # NoIssue => issues'[j] = issues[j]
    BY <1>3, <1>5
  <2>6. \A j \in Issues : issues[j].title # 0 => issues[j] # NoIssue
    BY EmptyIs
  <2>7. OneToOne'
    <3>1. ASSUME NEW j \in Issues, NEW k \in Issues, issues'[j] # NoIssue, issues'[j].title = issues'[k].title
          PROVE  j = k
      <4>1. CASE j = i \/ k = i
        BY <1>5, <2>3, <3>1, <4>1
      <4>2. CASE j # i /\ k # i
        BY <1>5, <2>1, <3>1, <4>2 DEF OneToOne
      <4> QED BY <4>1, <4>2
    <3> QED BY <1>3, <2>1, <3>1 DEF OneToOne
  <2>8. TasksPaired'
    <3>1. ASSUME NEW u \in Tasks, tasks[u].of # 0, tasks[u].title > MaxMade, issues[tasks[u].of].title = tasks[u].title
          PROVE  issues'[tasks[u].of].title = tasks[u].title
      <4>1. tasks[u].of \in Issues /\ tasks[u].title # 0
        BY <1>4, <3>1, SyncNumbers DEF OthersTyped, TasksTyped, TaskRecord
      <4> QED BY <2>5, <2>6, <3>1, <4>1
    <3> QED BY <1>3, <2>1, <3>1 DEF TasksPaired
  <2>9. IssuesPaired'
    <3>1. ASSUME NEW j \in Issues, issues'[j] # NoIssue PROVE Named(issues[j].title)'
      <4>1. PICK title : title = issues'[j].title
        OBVIOUS
      <4>2. Named(title)
        <5>1. CASE j = i
          BY <1>5, <2>1, <2>2, <4>1, <5>1 DEF Named, TasksPaired, OfAgents
        <5>2. CASE j # i
          BY <1>5, <2>1, <3>1, <4>1, <5>2 DEF IssuesPaired
        <5> QED BY <5>1, <5>2
      <4> QED BY <1>3, <4>1, <4>2 DEF Named, OfAgents
    <3>2. \A p \in wire' : \E u \in Tasks : OfAgents(u)' /\ tasks'[u].title = p.title
      BY <1>3, <2>1 DEF IssuesPaired, OfAgents
    <3>3. \A p \in wire' : \A j \in Issues : issues'[j].title # p.title
      BY <1>3, <1>5, <2>1 DEF IssuesPaired
    <3>4. \A p1, p2 \in wire' : p1.title = p2.title => p1 = p2
      BY <1>3, <2>1 DEF IssuesPaired
    <3> QED BY <3>1, <3>2, <3>3, <3>4 DEF IssuesPaired
  <2>10. LinksPaired'
    <3>1. ASSUME NEW u \in Tasks, links[u].issue # 0
          PROVE  tasks[u] # NoTask /\ issues'[links[u].issue].title = tasks[u].title
      <4>1. tasks[u] # NoTask /\ issues[links[u].issue].title = tasks[u].title /\ links[u].issue \in Issues
        BY <1>4, <2>1, <3>1 DEF LinksPaired, OthersTyped, LinkRecord
      <4>2. issues[links[u].issue].title # 0
        BY <1>4, <2>1, <4>1, TitlesAre
      <4> QED BY <2>5, <2>6, <4>1, <4>2
    <3>2. ASSUME NEW u \in Tasks, OfAgents(u), Filed(tasks[u].title)' PROVE Reached(links[u])
      <4>1. PICK title : title = tasks[u].title
        OBVIOUS
      <4>2. Filed(title)' /\ title # 0
        BY <1>3, <1>4, <2>1, <3>2, <4>1, TitlesAre DEF Filed, OfAgents
      <4> QED BY <2>1, <2>4, <3>2, <4>1, <4>2 DEF LinksPaired
    <3> QED BY <1>3, <3>1, <3>2 DEF LinksPaired, OfAgents
  <2>11. RunsStaySteady
    <3> SUFFICES ASSUME NEW k, RunFits(k), Steady(k) PROVE Steady(k)'
      BY DEF RunsStaySteady
    <3>1. k \in RunRecord /\ Follows(k) /\ AtWork(k)
      BY DEF RunFits, Steady
    <3>2. Follows(k)'
      BY <1>3, <2>5, <3>1 DEF Follows
    <3>3. k.at \in Pushing => /\ k.task \in Tasks /\ tasks[k.task] # NoTask /\ tasks[k.task].title # 0
      BY <1>4, <2>1, <3>1, TitlesAre DEF RunFits, Follows, Pushing
    <3>4. (k.at = "mark" /\ k.links[k.task].marked) \/ k.at = "post" => ~Filed(tasks[k.task].title)'
      <4>1. SUFFICES ASSUME (k.at = "mark" /\ k.links[k.task].marked) \/ k.at = "post", Filed(tasks[k.task].title)'
                     PROVE  FALSE
        OBVIOUS
      <4>2. PICK title : title = tasks[k.task].title
        OBVIOUS
      <4>3. Filed(title)' /\ title # 0 /\ ~Filed(title)
        BY <1>3, <3>1, <3>3, <4>1, <4>2 DEF Filed, AtWork, Pushing
      <4> QED BY <2>4, <4>3
    <3>5. k.at \in {"put", "link"} => issues'[k.issue].title = tasks[k.task].title
      <4>1. SUFFICES ASSUME k.at \in {"put", "link"} PROVE issues'[k.issue].title = tasks[k.task].title
        OBVIOUS
      <4>2. k.issue \in Issues /\ issues[k.issue].title = tasks[k.task].title /\ tasks[k.task].title # 0
        BY <3>1, <3>3, <4>1 DEF RunFits, AtWork, Pushing
      <4> QED BY <2>5, <2>6, <4>2
    <3>6. \A j : Accounted(k, j) => Accounted(k, j)'
      BY <1>3 DEF Accounted, OfAgents
    <3>7. AtWork(k)'
      BY <1>3, <3>1, <3>4, <3>5, <3>6 DEF AtWork, OfAgents
    <3> QED BY <3>2, <3>7 DEF Steady
  <2>12. World'
    BY <2>7, <2>8, <2>9, <2>10 DEF World
  <2> QED BY <1>3, <1>4, <1>8, <2>11, <2>12, AgainPairedStill
<1> QED BY <1>3, <1>7, <1>8 DEF SyncInv

LEMMA PersonFilesKeeps == ASSUME SyncInv, PersonFiles PROVE SyncInv'
<1>1. PICK i : i = Lowest(FreeIssues)
  OBVIOUS
<1>2. PICK x : x = NewIssue(MaxMade + 1 + done.filed, "todo", "human")
  OBVIOUS
<1>3. /\ i \in Issues /\ issues[i] = NoIssue /\ issues' = [issues EXCEPT ![i] = x]
      /\ UNCHANGED <<tasks, links, wire, mirrors, run, astray, missed>>
      /\ done.filed < MaxFiled /\ done' = [done EXCEPT !.filed = done.filed + 1]
  BY <1>1, <1>2, FreeIs DEF PersonFiles
<1>4. BoardTyped /\ OthersTyped /\ done \in DoneRecord
  BY DEF SyncInv, BoardTyped, OthersTyped, CountsTyped
<1>5. done' \in DoneRecord /\ done'.made = done.made /\ done'.filed = done.filed + 1
  <2>1. done.filed + 1 \in 0..MaxFiled
    BY <1>3, <1>4, SyncNumbers DEF DoneRecord
  <2> QED BY <1>3, <1>4, <2>1 DEF DoneRecord
<1>6. /\ x \in IssueRecord /\ x.status \in Shown /\ Real(x) /\ x.title = MaxMade + 1 + done.filed
      /\ x.title \in Nat /\ x.title # 0 /\ x.title > MaxMade
  <2>1. MaxMade + 1 + done.filed \in Nat /\ MaxMade + 1 + done.filed # 0 /\ MaxMade + 1 + done.filed > MaxMade
    BY <1>4, SyncNumbers DEF DoneRecord
  <2> QED BY <1>2, <2>1, StatusesMap DEF NewIssue, IssueRecord, Real
<1>7. BoardTyped'
  <2>1. TasksTyped' /\ links' \in [Tasks -> LinkRecord] /\ CountsTyped' /\ WireTyped'
    BY <1>3, <1>4, <1>5 DEF OthersTyped, TasksTyped, CountsTyped, WireTyped
  <2>2. IssuesTyped'
    BY <1>3, <1>4, <1>6 DEF OthersTyped, IssuesTyped
  <2> QED BY <1>3, <1>4, <2>1, <2>2 DEF OthersTyped, BoardTyped
<1>8. ASSUME Paired PROVE Paired'
  <2>1. World /\ TasksPaired /\ IssuesPaired
    BY <1>8 DEF Paired, World
  <2>2. \A title : Named(title) => title # x.title
    BY <1>4, <1>6, SyncNumbers DEF Named, DoneRecord
  <2>3. ~Filed(x.title)
    <3>1. \A j \in Issues : issues[j].title # x.title
      BY <1>6, <2>1, <2>2, EmptyIs DEF IssuesPaired
    <3>2. \A q \in wire : q.title # x.title
      BY <1>4, <1>6, <2>1, SyncNumbers DEF IssuesPaired, TasksPaired, OfAgents, DoneRecord
    <3> QED BY <3>1, <3>2 DEF Filed
  <2>4. Comes(x)
    BY <1>3 DEF Comes
  <2>5. Named(x.title)'
    BY <1>4, <1>5, <1>6, SyncNumbers DEF Named, DoneRecord
  <2>6. \A u \in Tasks : OfAgents(u) => tasks[u].title # x.title
    BY <1>4, <1>6, <2>1, SyncNumbers DEF TasksPaired, OfAgents, DoneRecord
  <2>7. NewTitle(x)
    BY <1>6, <2>3, <2>5, <2>6 DEF NewTitle
  <2>8. World'
    <3>1. done'.filed \in Nat /\ done.filed <= done'.filed
      BY <1>4, <1>5, SyncNumbers DEF DoneRecord
    <3> QED BY <1>3, <1>4, <1>5, <1>6, <2>1, <2>4, <2>7, <3>1, NewIssueWorld
  <2>9. KeepsBut(x.title)
    BY <1>3, <1>4, <1>6, <2>1, <2>4, <2>7, NewIssueKeeps
  <2>10. ASSUME NEW k, RunFits(k), Steady(k) PROVE ~Intends(k, x.title)
    <3>1. SUFFICES ASSUME Intends(k, x.title) PROVE FALSE
      OBVIOUS
    <3>2. k.task \in Tasks /\ tasks[k.task] # NoTask /\ tasks[k.task].title = x.title
      BY <2>10, <3>1 DEF RunFits, Steady, Follows, Intends, Pushing
    <3>3. tasks[k.task].of \in Issues /\ issues[tasks[k.task].of].title = x.title
      BY <1>4, <2>1, <2>6, <3>2 DEF TasksPaired, OfAgents, OthersTyped, TasksTyped, TaskRecord
    <3> QED BY <2>3, <3>3 DEF Filed
  <2>11. RunsStaySteady
    BY <2>9, <2>10 DEF RunsStaySteady, KeepsBut
  <2> QED BY <1>3, <1>4, <1>8, <2>8, <2>11, AgainPairedStill
<1> QED BY <1>3, <1>7, <1>8 DEF SyncInv

\* A task of record x and of a new title is made at t.
TaskComes(t, x) ==
  /\ t \in Tasks /\ tasks[t] = NoTask /\ tasks' = [tasks EXCEPT ![t] = x]
  /\ x \in TaskRecord /\ x.title # 0
  /\ \A u \in Tasks : tasks[u].title # x.title
  /\ \/ x.of = 0 /\ x.title \in 1..done'.made /\ ~Filed(x.title)
     \/ x.of # 0 /\ x.title > MaxMade /\ issues[x.of].title = x.title

LEMMA NewTaskIs ==
  ASSUME BoardTyped, NEW t, NEW x, TaskComes(t, x)
  PROVE  /\ t \in Tasks /\ tasks[t] = NoTask /\ tasks'[t] = x /\ x # NoTask
         /\ \A u \in Tasks \ {t} : tasks'[u] = tasks[u]
         /\ \A u \in Tasks : tasks[u] # NoTask => u # t /\ tasks'[u] = tasks[u]
BY EmptyIs DEF BoardTyped, OthersTyped, TasksTyped, TaskComes

LEMMA NewTaskWorld ==
  ASSUME BoardTyped, World, NEW t, NEW x, TaskComes(t, x), UNCHANGED <<issues, links, wire>>,
         done'.made \in Nat, done.made <= done'.made, done'.filed = done.filed
  PROVE  World'
<1>1. /\ t \in Tasks /\ tasks[t] = NoTask /\ tasks'[t] = x /\ x # NoTask /\ x.title # 0
      /\ \A u \in Tasks \ {t} : tasks'[u] = tasks[u]
      /\ \A u \in Tasks : tasks[u] # NoTask => u # t /\ tasks'[u] = tasks[u]
      /\ \A u \in Tasks : tasks[u].title # x.title
  BY NewTaskIs DEF TaskComes
<1>2. done \in DoneRecord
  BY DEF BoardTyped, OthersTyped, CountsTyped
<1>3. OneToOne'
  <2>1. ASSUME NEW u \in Tasks, NEW v \in Tasks, tasks'[u] # NoTask, tasks'[u].title = tasks'[v].title
        PROVE  u = v
    <3>1. CASE u = t \/ v = t
      BY <1>1, <2>1, <3>1
    <3>2. CASE u # t /\ v # t
      BY <1>1, <2>1, <3>2 DEF World, OneToOne
    <3> QED BY <3>1, <3>2
  <2> QED BY <2>1 DEF World, OneToOne
<1>4. TasksPaired'
  <2>1. ASSUME NEW u \in Tasks, tasks'[u] # NoTask
        PROVE  \/ tasks'[u].of = 0 /\ tasks'[u].title \in 1..done'.made
               \/ tasks'[u].of # 0 /\ tasks'[u].title > MaxMade /\ issues[tasks'[u].of].title = tasks'[u].title
    <3>1. CASE u = t
      BY <1>1, <3>1 DEF TaskComes
    <3>2. CASE u # t
      BY <1>1, <1>2, <2>1, <3>2, SyncNumbers DEF World, TasksPaired, DoneRecord
    <3> QED BY <3>1, <3>2
  <2> QED BY <2>1 DEF TasksPaired
<1>5. \A u \in Tasks : OfAgents(u) => OfAgents(u)' /\ tasks'[u].title = tasks[u].title
  BY <1>1 DEF OfAgents
<1>6. IssuesPaired'
  <2>1. \A title : Named(title) => Named(title)'
    <3>1. \A n : n \in 1..done.made => n \in 1..done'.made
      BY <1>2, SyncNumbers DEF DoneRecord
    <3> QED BY <1>5, <3>1 DEF Named
  <2>2. ASSUME NEW i \in Issues, issues[i] # NoIssue PROVE Named(issues[i].title)'
    <3>1. PICK title : title = issues[i].title
      OBVIOUS
    <3>2. Named(title)'
      BY <2>1, <2>2, <3>1 DEF World, IssuesPaired
    <3> QED BY <3>1, <3>2 DEF Named
  <2> QED BY <1>5, <2>2 DEF World, IssuesPaired
<1>7. LinksPaired'
  <2>1. \A u \in Tasks : links[u].issue # 0 => tasks'[u] # NoTask /\ issues[links[u].issue].title = tasks'[u].title
    BY <1>1 DEF World, LinksPaired
  <2>2. ASSUME NEW u \in Tasks, OfAgents(u)', Filed(tasks[u].title)' PROVE Reached(links[u])
    <3>1. CASE u = t
      <4>1. x.of = 0 /\ Filed(x.title)
        BY <1>1, <2>2, <3>1 DEF OfAgents, Filed
      <4> QED BY <4>1 DEF TaskComes
    <3>2. CASE u # t
      BY <1>1, <2>2, <3>2 DEF World, LinksPaired, OfAgents, Filed
    <3> QED BY <3>1, <3>2
  <2> QED BY <2>1, <2>2 DEF LinksPaired
<1> QED BY <1>3, <1>4, <1>6, <1>7 DEF World

LEMMA NewTaskKeeps ==
  ASSUME BoardTyped, World, NEW t, NEW x, TaskComes(t, x), UNCHANGED <<issues, links, wire>>
  PROVE  RunsStaySteady
<1> SUFFICES ASSUME NEW k, RunFits(k), Steady(k) PROVE Steady(k)'
  BY DEF RunsStaySteady
<1>1. /\ t \in Tasks /\ tasks[t] = NoTask /\ tasks'[t] = x
      /\ \A u \in Tasks \ {t} : tasks'[u] = tasks[u]
      /\ \A u \in Tasks : tasks[u] # NoTask => u # t /\ tasks'[u] = tasks[u]
  BY NewTaskIs
<1>2. k \in RunRecord /\ Follows(k) /\ AtWork(k)
  BY DEF RunFits, Steady
<1>3. Follows(k)'
  BY <1>1, <1>2 DEF Follows
<1>4. k.at \in Pushing => k.task \in Tasks /\ tasks'[k.task] = tasks[k.task]
  BY <1>1, <1>2 DEF RunFits, Follows, Pushing
<1>5. k.at \in {"made", "tie"} => tasks'[k.task] = tasks[k.task] /\ tasks[k.task] # NoTask
  BY <1>1, <1>2 DEF RunFits, AtWork
<1>6. ASSUME NEW i \in Issues, k.board[i] # NoIssue, Accounted(k, i) PROVE Accounted(k, i)'
  <2>1. issues[i].title = k.board[i].title
    BY <1>2, <1>6 DEF Follows
  <2>2. ASSUME NEW u \in Tasks, OfAgents(u)', tasks'[u].title = k.board[i].title
        PROVE  k.links[u].marked \/ k.links[u].issue = i
    <3>1. CASE u = t
      BY <1>1, <2>1, <2>2, <3>1 DEF TaskComes, OfAgents, Filed
    <3>2. CASE u # t
      BY <1>1, <1>6, <2>2, <3>2 DEF Accounted, OfAgents
    <3> QED BY <3>1, <3>2
  <2> QED BY <2>2 DEF Accounted
<1>7. k.at \in {"import", "made", "tie"} => \A i \in k.todo : i \in Issues /\ k.board[i] # NoIssue
  BY DEF RunFits
<1>8. (k.at = "mark" /\ k.links[k.task].marked) \/ k.at = "post" => ~Filed(tasks[k.task].title)'
  BY <1>2, <1>4 DEF AtWork, Pushing, Filed
<1>9. k.at = "post" => OfAgents(k.task)'
  BY <1>2, <1>4 DEF AtWork, Pushing, OfAgents
<1>10. k.at \in {"put", "link"} => issues[k.issue].title = tasks'[k.task].title
  BY <1>2, <1>4 DEF AtWork, Pushing
<1>11. AtWork(k)'
  BY <1>2, <1>5, <1>6, <1>7, <1>8, <1>9, <1>10 DEF AtWork
<1> QED BY <1>3, <1>11 DEF Steady

LEMMA AgentCreatesKeeps == ASSUME SyncInv, AgentCreates PROVE SyncInv'
<1>1. PICK t : t = Lowest(FreeTasks)
  OBVIOUS
<1>2. PICK x : x = [status |-> "pending", title |-> 1 + done.made, of |-> 0]
  OBVIOUS
<1>3. /\ t \in Tasks /\ tasks[t] = NoTask /\ tasks' = [tasks EXCEPT ![t] = x]
      /\ UNCHANGED <<issues, links, wire, run, astray, missed>> /\ mirrors' = mirrors \cup {t}
      /\ done.made < MaxMade /\ done' = [done EXCEPT !.made = done.made + 1]
  BY <1>1, <1>2, FreeIs DEF AgentCreates
<1>4. BoardTyped /\ OthersTyped /\ done \in DoneRecord
  BY DEF SyncInv, BoardTyped, OthersTyped, CountsTyped
<1>5. done' \in DoneRecord /\ done'.made = done.made + 1 /\ done'.filed = done.filed
  <2>1. done.made + 1 \in 0..MaxMade
    BY <1>3, <1>4, SyncNumbers DEF DoneRecord
  <2> QED BY <1>3, <1>4, <2>1 DEF DoneRecord
<1>6. /\ x \in TaskRecord /\ x.status \in TaskStatuses /\ x.title = 1 + done.made /\ x.of = 0
      /\ x.title \in 1..done'.made /\ x.title # 0 /\ x.title <= MaxMade
  <2>1. /\ 1 + done.made \in Nat /\ 1 + done.made # 0 /\ 1 + done.made \in 1..(done.made + 1)
        /\ 1 + done.made <= MaxMade
    BY <1>3, <1>4, SyncNumbers DEF DoneRecord
  <2> QED BY <1>2, <1>5, <2>1, StatusesMap DEF TaskRecord
<1>7. BoardTyped'
  <2>1. IssuesTyped' /\ links' \in [Tasks -> LinkRecord] /\ CountsTyped' /\ WireTyped'
    BY <1>3, <1>4, <1>5 DEF OthersTyped, IssuesTyped, CountsTyped, WireTyped
  <2>2. TasksTyped'
    BY <1>3, <1>4, <1>6 DEF OthersTyped, TasksTyped
  <2> QED BY <1>3, <1>4, <2>1, <2>2 DEF OthersTyped, BoardTyped
<1>8. ASSUME Paired PROVE Paired'
  <2>1. World /\ TasksPaired /\ IssuesPaired
    BY <1>8 DEF Paired, World
  <2>2. \A u \in Tasks : tasks[u].title # x.title
    <3>1. ASSUME NEW u \in Tasks PROVE tasks[u].title # x.title
      <4>1. CASE tasks[u] = NoTask
        BY <1>6, <4>1, EmptyIs
      <4>2. CASE tasks[u] # NoTask
        BY <1>4, <1>6, <2>1, <4>2, SyncNumbers DEF TasksPaired, DoneRecord
      <4> QED BY <4>1, <4>2
    <3> QED BY <3>1
  <2>3. ~Filed(x.title)
    <3>1. \A j \in Issues : issues[j].title # x.title
      <4>1. \A title : Named(title) => title # x.title
        BY <1>4, <1>6, <2>2, SyncNumbers DEF Named, DoneRecord
      <4> QED BY <1>6, <2>1, <4>1, EmptyIs DEF IssuesPaired
    <3>2. \A q \in wire : q.title # x.title
      BY <2>1, <2>2 DEF IssuesPaired
    <3> QED BY <3>1, <3>2 DEF Filed
  <2>4. TaskComes(t, x)
    BY <1>3, <1>6, <2>2, <2>3 DEF TaskComes
  <2>5. World' /\ RunsStaySteady
    <3>1. done'.made \in Nat /\ done.made <= done'.made
      BY <1>4, <1>5, SyncNumbers DEF DoneRecord
    <3> QED BY <1>3, <1>4, <1>5, <2>1, <2>4, <3>1, NewTaskWorld, NewTaskKeeps
  <2> QED BY <1>3, <1>4, <1>8, <2>5, AgainPairedStill
<1> QED BY <1>3, <1>7, <1>8 DEF SyncInv

LEMMA CreatesKeeps ==
  ASSUME SyncInv, NEW r \in Runs, NEW i \in run[r].todo, run[r].at = "import", Creates(r, i),
         UNCHANGED <<issues, links, wire, mirrors, missed>>
  PROVE  SyncInv'
<1>1. BoardTyped /\ OthersTyped /\ run[r] \in RunRecord /\ RunFits(run[r]) /\ (Paired => Steady(run[r]))
  BY DEF SyncInv, BoardTyped, Paired
<1>2. i \in Issues /\ run[r].board[i] # NoIssue /\ run[r].todo \subseteq Issues
  BY <1>1 DEF RunFits
<1>3. CASE Slip /\ Turns(r, "import", i) /\ UNCHANGED <<tasks, astray>>
  BY <1>3, TurnsKeeps
<1>4. CASE /\ FreeTasks # {} /\ Smooth
           /\ tasks' = [tasks EXCEPT ![Lowest(FreeTasks)] = [status |-> "pending", title |-> run[r].board[i].title, of |-> i]]
           /\ To(r, [run[r] EXCEPT !.at = "made", !.task = Lowest(FreeTasks), !.issue = i])
           /\ astray' = (astray \/ \E t \in Tasks :
                           \/ tasks[t].of = i
                           \/ run[r].links[t].marked /\ tasks[t].title = run[r].board[i].title)
  <2>1. PICK t : t = Lowest(FreeTasks)
    OBVIOUS
  <2>2. PICK x : x = [status |-> "pending", title |-> run[r].board[i].title, of |-> i]
    OBVIOUS
  <2>3. t \in Tasks /\ tasks[t] = NoTask /\ tasks' = [tasks EXCEPT ![t] = x]
    BY <1>4, <2>1, <2>2, FreeIs
  <2>4. x \in TaskRecord /\ x.status \in TaskStatuses /\ x.of = i /\ x.title = run[r].board[i].title
    <3>1. run[r].board[i].title \in Nat
      BY <1>1, <1>2 DEF RunRecord, IssueRecord
    <3> QED BY <1>2, <2>2, <3>1, StatusesMap DEF TaskRecord
  <2>5. PICK m : m = [run[r] EXCEPT !.at = "made", !.task = t, !.issue = i]
    OBVIOUS
  <2>6. /\ m \in RunRecord /\ m.at = "made" /\ m.task = t /\ m.issue = i /\ m.todo = run[r].todo
        /\ m.links = run[r].links /\ m.tasks = run[r].tasks /\ m.board = run[r].board
    BY <1>1, <1>2, <2>3, <2>5 DEF RunRecord, Stations
  <2>7. RunFits(m) /\ Harmless(m) /\ To(r, m)
    BY <1>1, <1>2, <1>4, <2>1, <2>3, <2>5, <2>6 DEF RunFits, Pushing, Harmless
  <2>8. BoardTyped'
    <3>1. TasksTyped'
      BY <1>1, <2>3, <2>4 DEF OthersTyped, TasksTyped
    <3>2. IssuesTyped' /\ links' \in [Tasks -> LinkRecord] /\ CountsTyped' /\ WireTyped'
      BY <1>1, <1>4 DEF OthersTyped, IssuesTyped, CountsTyped, WireTyped, Smooth
    <3> QED BY <1>1, <2>7, <3>1, <3>2, AgainTyped DEF OthersTyped
  <2>9. ASSUME ~astray' PROVE Paired'
    <3>1. /\ Paired /\ World /\ Steady(run[r]) /\ TasksPaired /\ IssuesPaired /\ OneToOne
          /\ \A u \in Tasks : tasks[u].of # i
          /\ \A u \in Tasks : run[r].links[u].marked => tasks[u].title # x.title
      BY <1>1, <1>4, <2>4, <2>9 DEF SyncInv, Paired, World
    <3>2. issues[i] # NoIssue /\ issues[i].title = x.title
      BY <1>2, <2>4, <3>1 DEF Steady, Follows
    <3>3. Accounted(run[r], i) /\ i \notin LinkedIn(run[r].links)
      BY <3>1 DEF Steady, AtWork
    <3>4. \A u \in Tasks : OfAgents(u) => tasks[u].title # x.title
      <4>1. ASSUME NEW u \in Tasks, OfAgents(u), tasks[u].title = x.title PROVE FALSE
        <5>1. run[r].links[u].issue = i
          BY <2>4, <3>1, <3>3, <4>1 DEF Accounted
        <5> QED BY <1>2, <3>3, <5>1, SyncNumbers DEF LinkedIn
      <4> QED BY <4>1
    <3>5. x.title \in Nat /\ x.title > MaxMade /\ x.title # 0
      <4>1. Named(x.title)
        BY <1>2, <3>1, <3>2 DEF IssuesPaired
      <4> QED BY <1>1, <3>4, <4>1, SyncNumbers DEF Named, OthersTyped, CountsTyped, DoneRecord
    <3>6. \A u \in Tasks : tasks[u].title # x.title
      <4>1. ASSUME NEW u \in Tasks, tasks[u].title = x.title PROVE FALSE
        <5>1. tasks[u] # NoTask /\ tasks[u].of # 0
          BY <3>4, <3>5, <4>1, EmptyIs DEF OfAgents
        <5>2. tasks[u].of \in Issues /\ issues[tasks[u].of].title = x.title
          BY <1>1, <3>1, <4>1, <5>1 DEF TasksPaired, OthersTyped, TasksTyped, TaskRecord
        <5>3. tasks[u].of = i
          BY <1>2, <3>1, <3>2, <5>2 DEF OneToOne
        <5> QED BY <3>1, <5>3
      <4> QED BY <4>1
    <3>7. TaskComes(t, x)
      BY <1>2, <2>3, <2>4, <3>2, <3>5, <3>6, SyncNumbers DEF TaskComes
    <3>8. World' /\ RunsStaySteady
      <4>1. done' = done /\ done.made \in Nat /\ done.made <= done.made
        BY <1>1, <1>4, SyncNumbers DEF Smooth, OthersTyped, CountsTyped, DoneRecord
      <4> QED BY <1>1, <3>1, <3>7, <4>1, NewTaskWorld, NewTaskKeeps
    <3>9. Steady(m)'
      <4>2. PICK k : k = run[r]
        OBVIOUS
      <4>3. Steady(k)'
        BY <1>1, <3>1, <3>8, <4>2 DEF RunsStaySteady
      <4>4. Follows(m)'
        BY <2>6, <4>2, <4>3 DEF Steady, Follows
      <4>5. \A j \in m.todo : Accounted(m, j)' /\ j \notin LinkedIn(m.links)
        BY <2>6, <4>2, <4>3 DEF Steady, AtWork, Accounted, LinkedIn
      <4>6. tasks'[t] # NoTask /\ tasks'[t].of = i
        BY <1>1, <2>4, <3>7, NewTaskIs
      <4>7. AtWork(m)'
        BY <2>6, <4>5, <4>6 DEF AtWork
      <4> QED BY <4>4, <4>7 DEF Steady
    <3> QED BY <1>1, <2>7, <3>1, <3>8, <3>9, KeepsOthers, HarmlessIs, AgainPaired DEF NoClash
  <2> QED BY <2>8, <2>9 DEF SyncInv
<1> QED BY <1>3, <1>4 DEF Creates

-----------------------------------------------------------------------------
(* What is written: an issue, a link, a status *)

\* Statuses change, and nothing else.
LEMMA StatusesChange ==
  ASSUME BoardTyped, World, SameTasks, SameIssues, UNCHANGED <<links, wire>>, Slip \/ Smooth \/ Change
  PROVE  NothingMade
<1>1. done'.made = done.made /\ done'.filed = done.filed
  <2>1. done \in DoneRecord
    BY DEF BoardTyped, OthersTyped, CountsTyped
  <2> QED BY <2>1 DEF Slip, Smooth, Change, DoneRecord
<1>2. \A t \in Tasks : LinkGrows(t)
  BY LinkIsTied
<1> QED BY <1>1, <1>2 DEF NothingMade

LEMMA PutsKeeps == ASSUME SyncInv, NEW r \in Runs, Puts(r) PROVE SyncInv'
<1>1. PICK t, i : t = run[r].task /\ i = run[r].issue
  OBVIOUS
<1>2. /\ BoardTyped /\ OthersTyped /\ t \in Tasks /\ t \in run[r].todo /\ run[r] \in RunRecord /\ RunFits(run[r])
      /\ run[r].at = "put" /\ run[r].tasks[t] \in TaskStatuses /\ (Paired => Steady(run[r]) /\ tasks[t] # NoTask)
  BY <1>1, PushIs DEF SyncInv, BoardTyped, Pushing, Puts, At
<1>3. i \in Issues /\ IssuesTyped /\ issues[i] \in IssueRecord
  BY <1>1, <1>2 DEF RunFits, OthersTyped, IssuesTyped
<1>4. PICK sent : sent = [issues EXCEPT ![i].status = ToBoard[run[r].tasks[t]], ![i].by = "push"]
  OBVIOUS
<1>5. /\ sent \in [Issues -> IssueRecord] /\ sent[i].title = issues[i].title /\ sent[i].status \in Shown
      /\ \A j \in Issues \ {i} : sent[j] = issues[j]
  <2>1. PICK x : x = [issues[i] EXCEPT !.status = ToBoard[run[r].tasks[t]], !.by = "push"]
    OBVIOUS
  <2>2. ToBoard[run[r].tasks[t]] \in Shown
    BY <1>2, StatusesMap
  <2>3. x \in IssueRecord /\ x.title = issues[i].title /\ x.status \in Shown
    BY <1>3, <2>1, <2>2 DEF IssueRecord
  <2>4. sent = [issues EXCEPT ![i] = x]
    BY <1>3, <1>4, <2>1 DEF IssuesTyped
  <2> QED BY <1>3, <2>3, <2>4 DEF IssuesTyped
<1>6. issues' \in {issues, sent} /\ UNCHANGED <<tasks, links, wire, mirrors, missed>> /\ astray' = (astray \/ Crossed(r))
      /\ (Slip \/ Smooth)
  BY <1>1, <1>4 DEF Puts
<1>7. OthersTyped'
  <2>1. IssuesTyped'
    BY <1>3, <1>5, <1>6 DEF IssuesTyped, Real
  <2>2. done' \in DoneRecord
    BY <1>2, <1>6, DoneIs DEF OthersTyped
  <2>3. CountsTyped'
    BY <1>2, <1>6, <2>2 DEF OthersTyped, CountsTyped
  <2> QED BY <1>2, <1>6, <2>1, <2>3 DEF OthersTyped, TasksTyped, WireTyped
<1>8. ASSUME Paired PROVE NothingMade /\ RunsStaySteady
  <2>1. issues[i].title = tasks[t].title /\ tasks[t].title # 0
    BY <1>1, <1>2, <1>8, TitlesAre DEF Paired, Steady, AtWork
  <2>2. issues[i] # NoIssue /\ sent[i] # NoIssue
    BY <2>1, <1>5, EmptyIs
  <2>3. SameIssues
    BY <1>5, <1>6, <2>2 DEF SameIssues
  <2>4. SameTasks
    BY <1>6 DEF SameTasks
  <2>5. NothingMade
    BY <1>2, <1>6, <1>8, <2>3, <2>4, StatusesChange DEF Paired
  <2> QED BY <1>2, <1>8, <2>5, RunStays DEF Paired
<1>9. PICK m : /\ To(r, m) /\ RunFits(m) /\ Harmless(m) /\ (Paired => Steady(m))
  <2>1. CASE Moves(r, "link")
    <3>1. PICK m : m = [run[r] EXCEPT !.at = "link"]
      OBVIOUS
    <3>2. /\ m \in RunRecord /\ m.at = "link" /\ m.task = t /\ m.todo = run[r].todo
          /\ m.links = run[r].links /\ m.tasks = run[r].tasks /\ m.board = run[r].board /\ m.issue = i
      BY <1>1, <1>2, <3>1, MovesIs DEF Stations
    <3>3. To(r, m)
      BY <2>1, <3>1 DEF Moves
    <3>4. RunFits(m) /\ Harmless(m)
      BY <1>2, <1>3, <3>2 DEF RunFits, Pushing, Harmless
    <3>5. Paired => Steady(m)
      BY <1>1, <1>2, <3>2 DEF Steady, Follows, AtWork
    <3> QED BY <3>3, <3>4, <3>5
  <2>2. CASE Turns(r, "push", t)
    <3>1. PICK m : m = Turned(r, "push", t)
      OBVIOUS
    <3>2. To(r, m)
      BY <2>2, <3>1 DEF Turns, Turned
    <3>3. RunFits(m) /\ Harmless(m) /\ (Steady(run[r]) => Steady(m))
      BY <1>2, <3>1, TurnsFit DEF Pushing
    <3> QED BY <1>2, <3>2, <3>3
  <2> QED BY <1>1, <2>1, <2>2 DEF Puts
<1>10. ASSUME Paired PROVE NothingMade /\ Steady(m)' /\ NoClash(r, m)
  BY <1>8, <1>9, <1>10, HarmlessIs DEF RunsStaySteady
<1> QED BY <1>6, <1>7, <1>9, <1>10, GoesOn

LEMMA LinksKeeps == ASSUME SyncInv, NEW r \in Runs, Links(r) PROVE SyncInv'
<1>1. PICK t, i : t = run[r].task /\ i = run[r].issue
  OBVIOUS
<1>2. /\ BoardTyped /\ OthersTyped /\ t \in Tasks /\ t \in run[r].todo /\ run[r] \in RunRecord /\ RunFits(run[r])
      /\ run[r].at = "link" /\ run[r].tasks[t] \in TaskStatuses /\ (Paired => Steady(run[r]) /\ tasks[t] # NoTask)
  BY <1>1, PushIs DEF SyncInv, BoardTyped, Pushing, Links, At
<1>3. i \in Issues /\ UNCHANGED <<tasks, issues, wire, mirrors, astray, missed>>
  BY <1>1, <1>2 DEF RunFits, Links
<1>4. CASE Slip /\ Turns(r, "push", t) /\ UNCHANGED links
  BY <1>2, <1>3, <1>4, TurnsKeeps DEF Pushing
<1>5. CASE /\ links' = [links EXCEPT ![t].issue = i, ![t].pushed = run[r].tasks[t], ![t].marked = FALSE]
           /\ To(r, [run[r] EXCEPT !.at = "push", !.todo = @ \ {t}, !.task = 0, !.issue = 0,
                                   !.links[t].issue = i])
           /\ Smooth
  <2>1. PICK l : l = [links[t] EXCEPT !.issue = i, !.pushed = run[r].tasks[t], !.marked = FALSE]
    OBVIOUS
  <2>2. links[t] \in LinkRecord /\ l \in LinkRecord /\ l.issue = i
    <3>1. links[t] \in LinkRecord /\ i \in Issues \cup {0}
      BY <1>2, <1>3 DEF OthersTyped
    <3> QED BY <1>2, <2>1, <3>1 DEF LinkRecord
  <2>3. links' = [links EXCEPT ![t] = l]
    BY <1>2, <1>5, <2>1 DEF OthersTyped
  <2>4. PICK known : known = Linking(r, t, i)
    OBVIOUS
  <2>5. known \in [Tasks -> LinkRecord] /\ known[t].issue = i /\ \A u \in Tasks \ {t} : known[u] = run[r].links[u]
    BY <1>2, <1>3, <2>4, LinkingIs
  <2>6. PICK left : left = run[r].todo \ {t}
    OBVIOUS
  <2>7. PICK m : m = [run[r] EXCEPT !.at = "push", !.todo = left, !.task = 0, !.issue = 0, !.links = known]
    OBVIOUS
  <2>8. /\ m \in RunRecord /\ m.at = "push" /\ m.todo = left
        /\ m.links = known /\ m.tasks = run[r].tasks /\ m.board = run[r].board
    <3>1. "push" \in Stations /\ left \in SUBSET Nat
      BY <1>2, <2>6 DEF Stations, RunRecord
    <3> QED BY <1>2, <2>5, <2>7, <3>1 DEF RunRecord
  <2>9. To(r, m)
    <3>1. [run[r] EXCEPT !.at = "push", !.todo = @ \ {t}, !.task = 0, !.issue = 0, !.links[t].issue = i] = m
      BY <1>2, <2>4, <2>6, <2>7 DEF RunRecord, Linking
    <3> QED BY <1>5, <3>1
  <2>10. RunFits(m) /\ Harmless(m)
    BY <1>2, <2>6, <2>8 DEF RunFits, Pushing, Harmless
  <2>11. Paired => tasks[t] # NoTask /\ issues[i].title = tasks[t].title
    BY <1>1, <1>2 DEF Steady, AtWork
  <2>12. OthersTyped' /\ (Paired => NothingMade /\ RunsStaySteady)
    BY <1>2, <1>3, <1>5, <2>2, <2>3, <2>11, TiedIs
  <2>13. ASSUME Paired PROVE NothingMade /\ Steady(m)' /\ NoClash(r, m)
    <3>1. PICK k : k = run[r]
      OBVIOUS
    <3>2. Steady(k)'
      BY <1>2, <2>12, <2>13, <3>1 DEF RunsStaySteady
    <3>3. links'[t].issue = i
      BY <1>2, <2>2, <2>3, LinkStep
    <3>4. Follows(m)'
      BY <2>5, <2>8, <3>1, <3>2, <3>3 DEF Steady, Follows
    <3>5. Steady(m)'
      BY <2>8, <3>4 DEF Steady, AtWork
    <3> QED BY <2>10, <2>12, <2>13, <3>5, HarmlessIs
  <2> QED BY <1>3, <2>9, <2>10, <2>12, <2>13, GoesOn
<1> QED BY <1>1, <1>4, <1>5 DEF Links

-----------------------------------------------------------------------------
(* runInboundPoll *)

LEMMA FetchesKeeps == ASSUME SyncInv, NEW r \in Runs, Fetches(r) PROVE SyncInv'
<1>1. BoardTyped /\ OthersTyped /\ run[r] \in RunRecord /\ RunFits(run[r]) /\ run[r].at = "fetch" /\ IssuesTyped
  BY DEF SyncInv, BoardTyped, OthersTyped, Fetches, At
<1>2. UNCHANGED <<tasks, issues, links, wire, mirrors, astray, missed>>
  BY DEF Fetches
<1>3. CASE To(r, Idle) /\ Slip
  BY <1>2, <1>3, IdleKeeps
<1>4. CASE To(r, [run[r] EXCEPT !.at = "load", !.board = issues]) /\ Smooth
  <2>1. PICK m : m = [run[r] EXCEPT !.at = "load", !.board = issues]
    OBVIOUS
  <2>2. /\ m \in RunRecord /\ m.at = "load" /\ m.links = run[r].links /\ m.tasks = run[r].tasks
        /\ m.board = issues
    BY <1>1, <2>1 DEF RunRecord, Stations, IssuesTyped
  <2>3. RunFits(m) /\ Harmless(m)
    BY <1>1, <2>2 DEF RunFits, Pushing, Harmless, IssuesTyped
  <2>4. Paired => Steady(m)
    BY <2>2 DEF Paired, Steady, Follows, AtWork
  <2>5. To(r, m) /\ mirrors' \subseteq Tasks
    BY <1>1, <1>2, <1>4, <2>1 DEF OthersTyped, CountsTyped
  <2> QED BY <1>2, <1>4, <2>3, <2>4, <2>5, QuietStep
<1> QED BY <1>3, <1>4 DEF Fetches

\* Whatever is on the board is known to the link of its task.
LEMMA LinksAccount ==
  ASSUME BoardTyped, Paired, NEW m, m.links = links, NEW i \in Issues, issues[i] # NoIssue,
         issues[i].title = m.board[i].title
  PROVE  Accounted(m, i)
<1>1. ASSUME NEW t \in Tasks, OfAgents(t), tasks[t].title = m.board[i].title, ~links[t].marked
      PROVE  links[t].issue = i
  <2>1. tasks[t] # NoTask /\ issues[i].title = tasks[t].title
    BY <1>1 DEF OfAgents
  <2>2. links[t].issue # 0
    BY <1>1, <2>1 DEF Paired, World, LinksPaired, Filed, Reached
  <2>3. links[t].issue \in Issues /\ issues[links[t].issue].title = tasks[t].title
    BY <2>2 DEF Paired, World, LinksPaired, BoardTyped, OthersTyped, LinkRecord
  <2> QED BY <2>1, <2>3, TitlesAre DEF Paired
<1> QED BY <1>1 DEF Accounted

LEMMA LoadsKeeps == ASSUME SyncInv, NEW r \in Runs, Loads(r) PROVE SyncInv'
<1> DEFINE Todo == {t \in Tasks : links[t].issue # 0 /\ run[r].board[links[t].issue] # NoIssue}
<1>1. /\ BoardTyped /\ OthersTyped /\ run[r] \in RunRecord /\ RunFits(run[r]) /\ run[r].at = "load"
      /\ TasksTyped /\ links \in [Tasks -> LinkRecord]
  BY DEF SyncInv, BoardTyped, OthersTyped, Loads, At
<1>2. PICK m : m = [run[r] EXCEPT !.at = "poll", !.links = links, !.tasks = Statuses, !.todo = Todo]
  OBVIOUS
<1>3. /\ m \in RunRecord /\ m.at = "poll" /\ m.links = links /\ m.tasks = Statuses
      /\ m.board = run[r].board /\ m.todo = Todo
  <2>1. Todo \in SUBSET Nat /\ "poll" \in Stations
    BY SyncNumbers DEF Stations
  <2> HIDE DEF Todo
  <2> QED BY <1>1, <1>2, <2>1, StatusIs DEF RunRecord
<1>4. RunFits(m) /\ Harmless(m)
  BY <1>1, <1>3 DEF RunFits, Pushing, Harmless
<1>5. ASSUME Paired PROVE Steady(m)
  <2>1. \A i \in Issues : m.board[i] # NoIssue => issues[i] # NoIssue /\ issues[i].title = m.board[i].title
    BY <1>3, <1>5 DEF Paired, Steady, Follows
  <2>2. Follows(m)
    BY <1>1, <1>3, <2>1, StatusIs DEF Follows
  <2>3. \A i \in Issues : m.board[i] # NoIssue => Accounted(m, i)
    BY <1>1, <1>3, <1>5, <2>1, LinksAccount
  <2>4. AtWork(m)
    BY <1>3, <2>3 DEF AtWork
  <2> QED BY <2>2, <2>4 DEF Steady
<1>6. To(r, m) /\ Smooth /\ UNCHANGED <<tasks, issues, links, wire, mirrors, astray, missed>>
  BY <1>2 DEF Loads, Smooth
<1>7. mirrors' \subseteq Tasks
  BY <1>1, <1>6 DEF OthersTyped, CountsTyped
<1> QED BY <1>4, <1>5, <1>6, <1>7, QuietStep

\* A status of a task is written.
LEMMA WriteIs ==
  ASSUME TasksTyped, NEW t \in Tasks, NEW s \in TaskStatuses, tasks' = [tasks EXCEPT ![t].status = s]
  PROVE  TasksTyped' /\ (tasks[t] # NoTask => SameTasks)
<1>1. PICK x : x = [tasks[t] EXCEPT !.status = s]
  OBVIOUS
<1>2. x \in TaskRecord /\ x.status = s /\ x.title = tasks[t].title /\ x.of = tasks[t].of
  BY <1>1 DEF TasksTyped, TaskRecord
<1>3. tasks' = [tasks EXCEPT ![t] = x]
  BY <1>1 DEF TasksTyped
<1>4. tasks' \in [Tasks -> TaskRecord] /\ tasks'[t] = x /\ \A u \in Tasks \ {t} : tasks'[u] = tasks[u]
  BY <1>2, <1>3 DEF TasksTyped
<1>5. x # NoTask
  BY <1>2, StatusesMap, EmptyIs
<1>6. TasksTyped'
  BY <1>2, <1>4 DEF TasksTyped
<1> QED BY <1>2, <1>4, <1>5, <1>6 DEF SameTasks

LEMMA PollsKeeps == ASSUME SyncInv, NEW r \in Runs, Polls(r) PROVE SyncInv'
<1>1. PICK t : t = Lowest(run[r].todo)
  OBVIOUS
<1>2. /\ BoardTyped /\ OthersTyped /\ run[r] \in RunRecord /\ RunFits(run[r]) /\ run[r].at = "poll"
      /\ TasksTyped
  BY DEF SyncInv, BoardTyped, OthersTyped, Polls, At
<1>3. t \in run[r].todo /\ t \in Tasks
  BY <1>1, <1>2, LowestIs DEF Polls, RunRecord, RunFits
<1>4. PICK polled : polled = run[r].board[run[r].links[t].issue]
  OBVIOUS
<1>5. polled.status \in Shown
  <2>1. run[r].links[t].issue \in Issues /\ polled # NoIssue
    BY <1>2, <1>3, <1>4 DEF RunRecord, RunFits, LinkRecord
  <2> QED BY <1>2, <1>4, <2>1 DEF RunFits, Real
<1>6. \/ tasks' = tasks
      \/ Visible(r, t) /\ tasks' = [tasks EXCEPT ![t].status = ToBus[polled.status]]
  BY <1>1, <1>4 DEF Polls
<1>7. UNCHANGED <<issues, links, wire, mirrors>> /\ (Slip \/ Smooth)
  BY DEF Polls
<1>8. /\ astray' \in BOOLEAN /\ (astray => astray')
      /\ missed' \in BOOLEAN
  <2>1. astray \in BOOLEAN /\ missed \in BOOLEAN
    BY <1>2 DEF OthersTyped, CountsTyped
  <2> QED BY <2>1 DEF Polls
<1>9. OthersTyped'
  <2>1. TasksTyped'
    <3>1. CASE tasks' = tasks
      BY <1>2, <3>1 DEF TasksTyped
    <3>2. CASE tasks' = [tasks EXCEPT ![t].status = ToBus[polled.status]]
      BY <1>2, <1>3, <1>5, <3>2, StatusesMap, WriteIs
    <3> QED BY <1>6, <3>1, <3>2
  <2>2. done' \in DoneRecord
    BY <1>2, <1>7, DoneIs DEF OthersTyped
  <2>3. CountsTyped'
    BY <1>2, <1>7, <1>8, <2>2 DEF OthersTyped, CountsTyped
  <2> QED BY <1>2, <1>7, <2>1, <2>3 DEF OthersTyped, IssuesTyped, WireTyped
<1>10. ASSUME Paired PROVE NothingMade /\ RunsStaySteady
  <2>1. SameTasks
    <3>1. CASE tasks' = tasks
      BY <3>1 DEF SameTasks
    <3>2. CASE Visible(r, t) /\ tasks' = [tasks EXCEPT ![t].status = ToBus[polled.status]]
      <4>1. tasks[t] # NoTask
        BY <1>3, <1>10, <3>2 DEF Visible, Paired, Steady, Follows
      <4> QED BY <1>2, <1>3, <1>5, <3>2, <4>1, StatusesMap, WriteIs
    <3> QED BY <1>6, <3>1, <3>2
  <2>2. SameIssues
    BY <1>7 DEF SameIssues
  <2>3. NothingMade
    BY <1>2, <1>7, <1>10, <2>1, <2>2, StatusesChange DEF Paired
  <2> QED BY <1>2, <1>10, <2>3, RunStays DEF Paired
<1>11. PICK m : m = [run[r] EXCEPT !.at = "refresh", !.task = t]
  OBVIOUS
<1>12. /\ m \in RunRecord /\ m.at = "refresh" /\ m.task = t /\ m.links = run[r].links
       /\ m.tasks = run[r].tasks /\ m.board = run[r].board /\ m.todo = run[r].todo
  BY <1>2, <1>3, <1>11 DEF RunRecord, Stations
<1>13. To(r, m)
  BY <1>1, <1>11 DEF Polls
<1>14. RunFits(m) /\ Harmless(m)
  BY <1>2, <1>3, <1>12 DEF RunFits, Pushing, Harmless
<1>15. Paired => Steady(m)
  BY <1>2, <1>12 DEF Paired, Steady, Follows, AtWork, Accounted
<1>16. ASSUME Paired PROVE NothingMade /\ Steady(m)' /\ NoClash(r, m)
  BY <1>10, <1>14, <1>15, <1>16, HarmlessIs DEF RunsStaySteady
<1> QED BY <1>8, <1>9, <1>13, <1>14, <1>16, GoesOn

LEMMA RefreshesKeeps == ASSUME SyncInv, NEW r \in Runs, Refreshes(r) PROVE SyncInv'
<1>1. PICK t : t = run[r].task
  OBVIOUS
<1>2. BoardTyped /\ OthersTyped /\ run[r] \in RunRecord /\ RunFits(run[r]) /\ run[r].at = "refresh"
  BY DEF SyncInv, BoardTyped, Refreshes, At
<1>3. t \in run[r].todo /\ t \in Tasks /\ run[r].links[t].issue \in Issues
  BY <1>1, <1>2 DEF RunFits, RunRecord, LinkRecord
<1>4. UNCHANGED <<tasks, issues, wire, mirrors, astray, missed>>
  BY DEF Refreshes
<1>5. CASE Slip /\ To(r, Idle) /\ UNCHANGED links
  BY <1>4, <1>5, IdleKeeps
<1>6. CASE /\ links' = [links EXCEPT ![t].seen = run[r].board[run[r].links[t].issue].status]
           /\ Turns(r, "poll", t) /\ Smooth
  <2>1. PICK l : l = [links[t] EXCEPT !.seen = run[r].board[run[r].links[t].issue].status]
    OBVIOUS
  <2>2. links[t] \in LinkRecord /\ l \in LinkRecord /\ l.issue = links[t].issue /\ l.marked = links[t].marked
    <3>1. run[r].board[run[r].links[t].issue].status \in Shown \cup {"none"}
      BY <1>2, <1>3 DEF RunRecord, IssueRecord
    <3> QED BY <1>2, <1>3, <2>1, <3>1 DEF OthersTyped, LinkRecord
  <2>3. links' = [links EXCEPT ![t] = l]
    BY <1>2, <1>3, <1>6, <2>1 DEF OthersTyped
  <2>4. OthersTyped'
    <3>1. links' \in [Tasks -> LinkRecord] /\ astray' \in BOOLEAN /\ missed' \in BOOLEAN
      BY <1>2, <1>3, <1>4, <2>2, <2>3, LinkStep DEF OthersTyped, CountsTyped
    <3> QED BY <1>2, <1>4, <1>6, <3>1, OthersStay
  <2>5. ASSUME Paired PROVE NothingMade
    <3>1. World /\ (links[t].issue # 0 => tasks[t] # NoTask /\ issues[links[t].issue].title = tasks[t].title)
      BY <1>3, <2>5 DEF Paired, World, LinksPaired
    <3>2. Reached(links[t]) => Reached(l)
      BY <2>2 DEF Reached
    <3>3. Unfiled(t) => l.marked /\ l.issue = 0
      BY <2>2 DEF Unfiled
    <3>4. done'.made = done.made /\ done'.filed = done.filed
      BY <1>6 DEF Smooth
    <3>5. l.issue # 0 => tasks[t] # NoTask /\ issues[l.issue].title = tasks[t].title
      BY <2>2, <3>1
    <3>6. links[t].issue # 0 => l.issue = links[t].issue
      BY <2>2
    <3> QED BY <1>2, <1>3, <1>4, <2>2, <2>3, <3>1, <3>2, <3>3, <3>4, <3>5, <3>6, LinkTied
  <2>6. PICK m : m = Turned(r, "poll", t)
    OBVIOUS
  <2>7. To(r, m)
    BY <1>6, <2>6 DEF Turns, Turned
  <2>8. RunFits(m) /\ Harmless(m) /\ (Steady(run[r]) => Steady(m))
    BY <1>2, <2>6, TurnsFit
  <2>9. ASSUME Paired PROVE NothingMade /\ Steady(m)' /\ NoClash(r, m)
    <3>1. NothingMade /\ RunsStaySteady /\ Steady(m)
      BY <1>2, <2>5, <2>8, <2>9, RunStays DEF Paired
    <3> QED BY <2>8, <3>1, HarmlessIs DEF RunsStaySteady
  <2> QED BY <1>4, <2>4, <2>7, <2>8, <2>9, GoesOn
<1> QED BY <1>1, <1>5, <1>6 DEF Refreshes

-----------------------------------------------------------------------------
(* runReverseImport *)

LEMMA ImportBeginsKeeps == ASSUME SyncInv, NEW r \in Runs, ImportBegins(r) PROVE SyncInv'
<1> DEFINE Todo == {i \in Issues \ LinkedIn(run[r].links) : run[r].board[i].status \notin {"none", "done", "cancelled"}}
<1>1. BoardTyped /\ OthersTyped /\ run[r] \in RunRecord /\ RunFits(run[r]) /\ run[r].at = "poll"
  BY DEF SyncInv, BoardTyped, ImportBegins, At
<1>2. PICK m : m = [run[r] EXCEPT !.at = "import", !.todo = Todo]
  OBVIOUS
<1>3. /\ m \in RunRecord /\ m.at = "import" /\ m.links = run[r].links /\ m.tasks = run[r].tasks
      /\ m.board = run[r].board /\ m.todo = Todo
  <2>1. Todo \in SUBSET Nat /\ "import" \in Stations
    BY SyncNumbers DEF Stations
  <2> HIDE DEF Todo
  <2> QED BY <1>1, <1>2, <2>1 DEF RunRecord
<1>4. \A i \in Todo : i \in Issues /\ run[r].board[i] # NoIssue /\ i \notin LinkedIn(run[r].links)
  BY EmptyIs
<1>5. RunFits(m) /\ Harmless(m)
  BY <1>1, <1>3, <1>4 DEF RunFits, Pushing, Harmless
<1>6. ASSUME Paired PROVE Steady(m)
  <2>1. Steady(run[r])
    BY <1>6 DEF Paired
  <2>2. Follows(m)
    BY <1>3, <2>1 DEF Steady, Follows
  <2>3. AtWork(m)
    BY <1>1, <1>3, <1>4, <2>1 DEF Steady, AtWork, Accounted
  <2> QED BY <2>2, <2>3 DEF Steady
<1>7. To(r, m) /\ Smooth /\ UNCHANGED <<tasks, issues, links, wire, mirrors, astray, missed>>
  BY <1>2 DEF ImportBegins, Smooth
<1>8. mirrors' \subseteq Tasks
  BY <1>1, <1>7 DEF OthersTyped, CountsTyped
<1> QED BY <1>5, <1>6, <1>7, <1>8, QuietStep

\* The link of a task, as an import writes it.
TiesTo(r, t, i) ==
  links' = [links EXCEPT ![t].issue = i, ![t].pushed = tasks[t].status, ![t].seen = run[r].board[i].status]

LEMMA TieIs ==
  ASSUME BoardTyped, NEW r \in Runs, NEW t \in Tasks, NEW i \in Issues, TiesTo(r, t, i)
  PROVE  \E l \in LinkRecord : l.issue = i /\ links' = [links EXCEPT ![t] = l]
<1>1. OthersTyped /\ run[r] \in RunRecord /\ TasksTyped
  BY DEF BoardTyped, OthersTyped
<1>2. PICK l : l = [links[t] EXCEPT !.issue = i, !.pushed = tasks[t].status, !.seen = run[r].board[i].status]
  OBVIOUS
<1>3. links[t] \in LinkRecord /\ l \in LinkRecord /\ l.issue = i
  <2>1. run[r].board[i].status \in Shown \cup {"none"} /\ tasks[t].status \in TaskStatuses \cup {"none"}
    BY <1>1 DEF RunRecord, IssueRecord, TasksTyped, TaskRecord
  <2> QED BY <1>1, <1>2, <2>1 DEF OthersTyped, LinkRecord
<1>4. links' = [links EXCEPT ![t] = l]
  BY <1>1, <1>2 DEF OthersTyped, TiesTo
<1> QED BY <1>3, <1>4

\* The task of an import is linked to the issue that it was made for.
LEMMA OfIsTied ==
  ASSUME SyncInv, NEW r \in Runs, run[r].at \in {"import", "made", "tie"},
         NEW t \in Tasks, NEW i \in Issues, Paired => tasks[t] # NoTask /\ tasks[t].of = i,
         TiesTo(r, t, i), Turns(r, "import", i), Smooth,
         UNCHANGED <<tasks, issues, wire, mirrors, astray, missed>>
  PROVE  SyncInv'
<1>1. BoardTyped
  BY DEF SyncInv
<1>2. PICK l \in LinkRecord : l.issue = i /\ links' = [links EXCEPT ![t] = l]
  BY <1>1, TieIs
<1>3. PICK m : m = Turned(r, "import", i)
  OBVIOUS
<1>4. RunFits(m) /\ Harmless(m) /\ (Steady(run[r]) => Steady(m))
  BY <1>1, <1>3, TurnsFit
<1>5. To(r, m)
  BY <1>3 DEF Turns, Turned
<1>6. Paired => tasks[t] # NoTask /\ issues[i].title = tasks[t].title
  BY SyncNumbers DEF Paired, World, TasksPaired
<1>7. OthersTyped' /\ (Paired => NothingMade /\ RunsStaySteady)
  BY <1>2, <1>6, TiedIs
<1>8. ASSUME Paired PROVE NothingMade /\ Steady(m)' /\ NoClash(r, m)
  BY <1>4, <1>7, <1>8, HarmlessIs DEF Paired, RunsStaySteady
<1> QED BY <1>4, <1>5, <1>7, <1>8, GoesOn

LEMMA ImportsKeeps == ASSUME SyncInv, NEW r \in Runs, Imports(r) PROVE SyncInv'
<1>1. PICK i : i = Lowest(run[r].todo)
  OBVIOUS
<1>2. PICK made : made = {t \in Tasks : Visible(r, t) /\ tasks[t].of = i}
  OBVIOUS
<1>3. /\ BoardTyped /\ run[r].at = "import" /\ run[r] \in RunRecord /\ RunFits(run[r])
      /\ UNCHANGED <<issues, wire, mirrors, missed>>
  BY DEF SyncInv, BoardTyped, Imports, At
<1>4. i \in run[r].todo /\ i \in Issues
  BY <1>1, <1>3, LowestIs DEF Imports, RunRecord, RunFits
<1>5. CASE made # {} /\ Heals(r, i, Lowest(made)) /\ UNCHANGED <<tasks, astray>>
  <2>1. PICK t : t = Lowest(made)
    OBVIOUS
  <2>2. t \in made
    BY <1>2, <1>5, <2>1, LowestIs, SyncNumbers
  <2>3. t \in Tasks /\ (Paired => tasks[t] # NoTask /\ tasks[t].of = i)
    BY <1>2, <2>2 DEF Visible, Paired, Steady, Follows
  <2>4. CASE Slip /\ To(r, Idle) /\ UNCHANGED links
    BY <1>3, <1>5, <2>4, IdleKeeps
  <2>5. CASE /\ links' = [links EXCEPT ![t].issue = i, ![t].pushed = tasks[t].status,
                                       ![t].seen = run[r].board[i].status]
             /\ Turns(r, "import", i) /\ Smooth
    BY <1>3, <1>4, <1>5, <2>3, <2>5, OfIsTied DEF TiesTo
  <2> QED BY <1>5, <2>1, <2>4, <2>5 DEF Heals
<1>6. CASE Creates(r, i) /\ UNCHANGED links
  BY <1>3, <1>4, <1>6, CreatesKeeps
<1> QED BY <1>1, <1>2, <1>5, <1>6 DEF Imports

LEMMA ImportedKeeps == ASSUME SyncInv, NEW r \in Runs, Imported(r) PROVE SyncInv'
BY IdleKeeps DEF Imported, Smooth

LEMMA SetsStatusKeeps == ASSUME SyncInv, NEW r \in Runs, SetsStatus(r) PROVE SyncInv'
<1>1. PICK t, i : t = run[r].task /\ i = run[r].issue
  OBVIOUS
<1>2. PICK status : status = ToBus[run[r].board[i].status]
  OBVIOUS
<1>3. /\ BoardTyped /\ OthersTyped /\ run[r] \in RunRecord /\ RunFits(run[r]) /\ run[r].at = "made" /\ TasksTyped
      /\ UNCHANGED <<issues, links, wire, mirrors, astray, missed>>
  BY DEF SyncInv, BoardTyped, OthersTyped, SetsStatus, At
<1>4. t \in Tasks /\ i \in run[r].todo /\ i \in Issues /\ status \in TaskStatuses
  <2>1. t \in Tasks /\ i \in run[r].todo /\ i \in Issues /\ run[r].board[i] # NoIssue
    BY <1>1, <1>3 DEF RunFits
  <2>2. run[r].board[i].status \in Shown
    BY <1>3, <2>1 DEF RunFits, Real
  <2> QED BY <1>2, <2>1, <2>2, StatusesMap
<1>5. CASE Slip /\ Turns(r, "import", i) /\ UNCHANGED tasks
  BY <1>3, <1>5, TurnsKeeps
<1>6. CASE /\ tasks' = IF status = "pending" THEN tasks ELSE [tasks EXCEPT ![t].status = status]
           /\ Moves(r, "tie") /\ Smooth
  <2>1. TasksTyped' /\ (tasks[t] # NoTask => SameTasks)
    <3>1. CASE tasks' = tasks
      BY <1>3, <3>1 DEF TasksTyped, SameTasks
    <3>2. CASE tasks' = [tasks EXCEPT ![t].status = status]
      BY <1>3, <1>4, <3>2, WriteIs
    <3> QED BY <1>6, <3>1, <3>2
  <2>2. OthersTyped'
    BY <1>3, <1>6, <2>1 DEF OthersTyped, IssuesTyped, WireTyped, CountsTyped, Smooth
  <2>3. ASSUME Paired PROVE NothingMade /\ RunsStaySteady
    <3>1. SameTasks
      BY <1>1, <1>3, <2>1, <2>3 DEF Paired, Steady, AtWork
    <3>2. SameIssues
      BY <1>3 DEF SameIssues
    <3>3. NothingMade
      BY <1>3, <1>6, <2>3, <3>1, <3>2, StatusesChange DEF Paired
    <3> QED BY <1>3, <2>3, <3>3, RunStays DEF Paired
  <2>4. PICK m : m = [run[r] EXCEPT !.at = "tie"]
    OBVIOUS
  <2>5. /\ m \in RunRecord /\ m.at = "tie" /\ m.task = t /\ m.todo = run[r].todo
        /\ m.links = run[r].links /\ m.tasks = run[r].tasks /\ m.board = run[r].board /\ m.issue = i
    BY <1>1, <1>3, <2>4, MovesIs DEF Stations
  <2>6. To(r, m)
    BY <1>6, <2>4 DEF Moves
  <2>7. RunFits(m) /\ Harmless(m)
    BY <1>3, <1>4, <2>5 DEF RunFits, Pushing, Harmless
  <2>8. ASSUME Paired PROVE Steady(m)
    <3>1. Steady(run[r])
      BY <2>8 DEF Paired
    <3>2. Follows(m)
      BY <2>5, <3>1 DEF Steady, Follows
    <3>3. AtWork(m)
      BY <1>1, <1>3, <2>5, <3>1 DEF Steady, AtWork, Accounted
    <3> QED BY <3>2, <3>3 DEF Steady
  <2>9. ASSUME Paired PROVE NothingMade /\ Steady(m)' /\ NoClash(r, m)
    BY <2>3, <2>7, <2>8, <2>9, HarmlessIs DEF RunsStaySteady
  <2> QED BY <1>3, <2>2, <2>6, <2>7, <2>9, GoesOn
<1> QED BY <1>1, <1>2, <1>5, <1>6 DEF SetsStatus

LEMMA TiesKeeps == ASSUME SyncInv, NEW r \in Runs, Ties(r) PROVE SyncInv'
<1>1. PICK t, i : t = run[r].task /\ i = run[r].issue
  OBVIOUS
<1>2. /\ BoardTyped /\ run[r] \in RunRecord /\ RunFits(run[r]) /\ run[r].at = "tie"
      /\ UNCHANGED <<tasks, issues, wire, mirrors, astray, missed>> /\ Turns(r, "import", i)
  BY <1>1 DEF SyncInv, BoardTyped, Ties, At
<1>3. t \in Tasks /\ i \in Issues /\ (Paired => tasks[t] # NoTask /\ tasks[t].of = i)
  BY <1>1, <1>2 DEF RunFits, Paired, Steady, AtWork
<1>4. CASE Slip /\ UNCHANGED links
  BY <1>2, <1>4, TurnsKeeps
<1>5. CASE /\ links' = [links EXCEPT ![t].issue = i, ![t].pushed = tasks[t].status,
                                     ![t].seen = run[r].board[i].status]
           /\ Smooth
  BY <1>2, <1>3, <1>5, OfIsTied DEF TiesTo
<1> QED BY <1>1, <1>4, <1>5 DEF Ties

-----------------------------------------------------------------------------
(* Agents and people; the whole *)

LEMMA ChangeIs == ASSUME CountsTyped, Change PROVE done' \in DoneRecord
<1>1. done \in DoneRecord /\ done.changes < MaxChanges
  BY DEF CountsTyped, Change
<1>2. done.changes + 1 \in 0..MaxChanges
  BY <1>1, SyncNumbers DEF DoneRecord
<1> QED BY <1>1, <1>2 DEF Change, DoneRecord

LEMMA AgentSetsKeeps == ASSUME SyncInv, AgentSets PROVE SyncInv'
<1>1. PICK t \in Tasks, s \in AgentStatuses :
        tasks[t] # NoTask /\ tasks' = [tasks EXCEPT ![t].status = s] /\ mirrors' = mirrors \cup {t}
  BY DEF AgentSets
<1>2. BoardTyped /\ OthersTyped /\ TasksTyped /\ Change /\ UNCHANGED <<issues, links, wire, run, astray, missed>>
  BY DEF SyncInv, BoardTyped, OthersTyped, AgentSets
<1>3. TasksTyped' /\ SameTasks
  BY <1>1, <1>2, StatusesMap, WriteIs
<1>4. OthersTyped'
  <2>1. CountsTyped'
    BY <1>1, <1>2, ChangeIs DEF OthersTyped, CountsTyped
  <2> QED BY <1>2, <1>3, <2>1 DEF OthersTyped, IssuesTyped, WireTyped
<1>5. SameIssues
  BY <1>2 DEF SameIssues
<1>6. Paired => NothingMade
  BY <1>2, <1>3, <1>5, StatusesChange DEF Paired
<1> QED BY <1>2, <1>4, <1>6, NobodyGoesOn

LEMMA PersonSetsKeeps == ASSUME SyncInv, PersonSets PROVE SyncInv'
<1>1. PICK i \in Issues, s \in HumanStatuses :
        issues[i] # NoIssue /\ issues' = [issues EXCEPT ![i].status = s, ![i].by = "human"]
  BY DEF PersonSets
<1>2. BoardTyped /\ OthersTyped /\ IssuesTyped /\ Change /\ UNCHANGED <<tasks, links, wire, mirrors, run, astray, missed>>
  BY DEF SyncInv, BoardTyped, OthersTyped, PersonSets
<1>3. PICK x : x = [issues[i] EXCEPT !.status = s, !.by = "human"]
  OBVIOUS
<1>4. x \in IssueRecord /\ x.title = issues[i].title /\ x.status \in Shown
  <2>1. s \in Shown /\ issues[i] \in IssueRecord
    BY <1>2, StatusesMap DEF IssuesTyped
  <2> QED BY <1>3, <2>1 DEF IssueRecord
<1>5. issues' = [issues EXCEPT ![i] = x]
  BY <1>1, <1>2, <1>3 DEF IssuesTyped
<1>6. issues' \in [Issues -> IssueRecord] /\ issues'[i] = x /\ \A j \in Issues \ {i} : issues'[j] = issues[j]
  BY <1>2, <1>4, <1>5 DEF IssuesTyped
<1>7. IssuesTyped' /\ SameIssues
  <2>1. x # NoIssue
    BY <1>4, StatusesMap, EmptyIs
  <2> QED BY <1>1, <1>2, <1>4, <1>6, <2>1 DEF IssuesTyped, SameIssues, Real
<1>8. OthersTyped'
  <2>1. CountsTyped'
    BY <1>2, ChangeIs DEF OthersTyped, CountsTyped
  <2> QED BY <1>2, <1>7, <2>1 DEF OthersTyped, TasksTyped, WireTyped
<1>9. SameTasks
  BY <1>2 DEF SameTasks
<1>10. Paired => NothingMade
  BY <1>2, <1>7, <1>9, StatusesChange DEF Paired
<1> QED BY <1>2, <1>8, <1>10, NobodyGoesOn

\* Before the first sync, whatever is left of the budget.
LEMMA UntouchedIs == ASSUME Untouched, done \in DoneRecord PROVE SyncInv
<1>1. /\ tasks = [t \in Tasks |-> NoTask] /\ issues = [i \in Issues |-> NoIssue]
      /\ links = [t \in Tasks |-> NoLink] /\ wire = {} /\ mirrors = {} /\ run = [r \in Runs |-> Idle]
      /\ astray = FALSE /\ missed = FALSE
  BY DEF Untouched
<1>2. done \in DoneRecord
  OBVIOUS
<1>3. OthersTyped
  BY <1>1, <1>2, EmptyIs DEF OthersTyped, TasksTyped, IssuesTyped, WireTyped, CountsTyped
<1>4. BoardTyped
  BY <1>1, <1>3, IdleIs DEF BoardTyped
<1>5. World
  <2>1. (\A t \in Tasks : tasks[t] = NoTask /\ links[t] = NoLink) /\ (\A i \in Issues : issues[i] = NoIssue)
    BY <1>1
  <2>2. TasksPaired /\ IssuesPaired
    BY <1>1, <2>1 DEF TasksPaired, IssuesPaired
  <2>3. OneToOne
    BY <2>1, EmptyIs DEF OneToOne
  <2>4. LinksPaired
    BY <2>1, EmptyIs DEF LinksPaired, OfAgents
  <2> QED BY <2>2, <2>3, <2>4 DEF World
<1>6. Steady(Idle) /\ Harmless(Idle)
  BY IdleIs, EmptyIs DEF Steady, Follows, AtWork, Harmless
<1>7. \A r, q \in Runs : ~Clash(run[r], run[q])
  BY <1>1, IdleIs DEF Clash
<1> QED BY <1>1, <1>4, <1>5, <1>6, <1>7 DEF SyncInv, Paired

LEMMA SyncInvInit == ASSUME SyncInit PROVE SyncInv
<1>1. done \in DoneRecord /\ Untouched
  BY SyncNumbers DEF SyncInit, NothingDone, DoneRecord
<1> QED BY <1>1, UntouchedIs

LEMMA SyncInvStill == ASSUME SyncInv, UNCHANGED syncVars PROVE SyncInv'
<1>1. UNCHANGED <<tasks, issues, links, wire, mirrors, run, astray, missed, done>>
  BY DEF syncVars
<1>2. OthersTyped'
  BY <1>1 DEF SyncInv, BoardTyped, OthersTyped, TasksTyped, IssuesTyped, WireTyped, CountsTyped
<1>3. Paired => NothingMade
  BY <1>1, NothingIsMade DEF Paired
<1> QED BY <1>1, <1>2, <1>3, NobodyGoesOn

LEMMA SyncInvNext == ASSUME SyncInv, [SyncNext]_syncVars PROVE SyncInv'
<1>1. ASSUME NEW r \in Runs, SyncGoesOn(r) PROVE SyncInv'
  BY <1>1, PicksKeeps, PushedKeeps, ListsKeeps, MarksKeeps, PostsKeeps, PutsKeeps, LinksKeeps, FetchesKeeps,
     LoadsKeeps, PollsKeeps, RefreshesKeeps, ImportBeginsKeeps, ImportsKeeps, SetsStatusKeeps, TiesKeeps,
     ImportedKeeps DEF SyncGoesOn
<1>2. ASSUME NEW r \in Runs, Dies(r) PROVE SyncInv'
  BY <1>2, DiesKeeps
<1>3. ASSUME NEW r \in Runs, NEW only \in Tasks \cup {0}, Starts(r, only) PROVE SyncInv'
  BY <1>3, StartsKeeps
<1>4. CASE MirrorLost \/ Lands \/ AgentCreates \/ PersonFiles \/ AgentSets \/ PersonSets
  BY <1>4, MirrorLostKeeps, LandsKeeps, AgentCreatesKeeps, PersonFilesKeeps, AgentSetsKeeps, PersonSetsKeeps
<1> QED BY <1>1, <1>2, <1>3, <1>4, SyncInvStill DEF SyncNext

LEMMA SyncInvGives == ASSUME SyncInv PROVE SyncTypeOK /\ (astray \/ OneToOne)
<1>1. BoardTyped /\ OthersTyped
  BY DEF SyncInv, BoardTyped
<1>2. \A t \in Tasks : tasks[t].status \in DOMAIN ToBoard \cup {"none"} /\ tasks[t].of \in Issues \cup {0}
  BY <1>1 DEF OthersTyped, TasksTyped, TaskRecord, TaskStatuses
<1>3. \A i \in Issues : issues[i].status \in DOMAIN ToBus \cup {"none"} /\ issues[i].by \in {"none", "human", "push"}
  BY <1>1 DEF OthersTyped, IssuesTyped, IssueRecord, Shown
<1>4. links \in [Tasks -> [issue : Issues \cup {0}, pushed : DOMAIN ToBoard \cup {"none"},
                           seen : DOMAIN ToBus \cup {"none"}, marked : BOOLEAN]]
  BY <1>1 DEF OthersTyped, LinkRecord, TaskStatuses, Shown
<1>5. \A r \in Runs : run[r].at \in Stations
  BY <1>1 DEF BoardTyped, RunRecord
<1>6. astray \in BOOLEAN /\ missed \in BOOLEAN /\ done \in DoneRecord
  BY <1>1 DEF OthersTyped, CountsTyped
<1>7. SyncTypeOK
  BY <1>2, <1>3, <1>4, <1>5, <1>6 DEF SyncTypeOK, DoneRecord
<1> QED BY <1>7 DEF SyncInv, Paired, World

\* Whatever the runs, agents and people do, every record has its type: every link
\* names an issue of the board, and a status of either side is one the other has
\* a name for.
THEOREM SyncIsTyped == SyncSpec => []SyncTypeOK
<1>1. SyncInit => SyncInv
  BY SyncInvInit
<1>2. SyncInv /\ [SyncNext]_syncVars => SyncInv'
  BY SyncInvNext
<1>3. SyncInv => SyncTypeOK
  BY SyncInvGives
<1> QED BY <1>1, <1>2, <1>3, PTL DEF SyncSpec

\* However many runs push, poll and import at one time, whichever calls fail, land
\* late or lose their run: no task ever has two issues and no issue two tasks,
\* unless a run has gone through one of the gaps that astray names (push.ts,
\* poll.ts).
THEOREM OneOfEachAlways == SyncSpec => [](astray \/ OneToOne)
<1>1. SyncInit => SyncInv
  BY SyncInvInit
<1>2. SyncInv /\ [SyncNext]_syncVars => SyncInv'
  BY SyncInvNext
<1>3. SyncInv => astray \/ OneToOne
  BY SyncInvGives
<1> QED BY <1>1, <1>2, <1>3, PTL DEF SyncSpec
=====
