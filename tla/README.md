# A verification project for cortextOS

cortextOS keeps a fleet of long-running command-line agents alive. A daemon
spawns each agent in a pseudo-terminal, restarts it, feeds it messages (chat,
other agents, cron jobs, notifications of providers) and keeps what it decided on
disk. This directory models the parts where the difficult reasoning is: who may
start an agent, who holds a lock, what happens to work, letters, cron fires and
events on their way, who keeps track of processes, how agents whose context is
full hand over, and how tasks are mirrored on a board. Paths below are relative to the repository's `src/` directory
(`daemon/...` is `src/daemon/...`).

Contents: 1 the system, 2 the modules and how they correspond to the code,
3 runs and bounds, 4 fairness, 5 proofs, 6 disagreements found, 7 what is not
modelled, 8 plan.

## 1. The system

| Component | State it keeps | Operations | Interacts with | What is hard |
|---|---|---|---|---|
| Lifecycle owner, `daemon/lifecycle/supervisor.ts` | durable `LifecycleSnapshot` (desired state, intent revision, generations, phase, resources, work); in-memory mailbox | `request`, `observe`, `acceptBatch`, `beginDispatch`, chains `runStart`, `runRestart`, `runRetire` | store, runtime adapter; called by AgentManager, AgentProcess, FastChecker, IPC | chains await the runtime while further windows are decided; every commit may fail; crash between commit and effect |
| Lifecycle store and lock, `state-store.ts`, `store-lock.ts` | one JSON file per agent, `.lock.d` directory | `load`, `commit`, `adopt`, `admitDaemonWriter`; acquire, reclaim, release | other daemons and tools on the same files | system calls of several processes interleave; holders die |
| Runtime adapter, `agent-runtime.ts` | none (reserves resources in the store) | `startGeneration`, `retireGeneration`, `deliver` | AgentProcess | a teardown it cannot verify |
| Work ledger, `work-ledger.ts` | `outstandingWork` of the snapshot | accept, seven phase changes, archive | owner | duplicates, late reports, unbounded growth |
| FastChecker, `daemon/fast-checker.ts` | Telegram, Slack and Buzz queues, pending file; context monitor with its breaker file | poll cycle, context monitor, wedge check | owner, AgentProcess, inbox, lease file | arrivals during a cycle, crash between accept, inject, drain, acknowledge |
| AgentProcess, `daemon/agent-process.ts` | status, PTY, generation, MessageDedup, timers | start, stop, exit handling, session refresh, injection | PTY hosts, owner | exit racing stop and restart, timers |
| AgentManager, `daemon/agent-manager.ts` | the registry of agents, their checkers, schedulers and pollers | start, stop, restart, boot self-heal, cron wiring | everything in the daemon | operations on one name interleave across awaits; the first start bypasses the owner |
| PTY hosts and reaper, `pty/pty-host-client.ts`, `pty-host.ts`, `daemon/pty-host-reaper.ts` | one host process per runtime, the daemon's proxies, a ledger of pids on disk | spawn, dispose, escalate, sweep | AgentProcess, the process table | hosts, runtimes and daemons die one without the other |
| Codex turn queue, `pty/codex-app-server-pty.ts` | queue of inputs, the turn that runs | enqueue, steer, drain loop, notifications | app-server over a socket | answers and notifications out of order, silence, a lost socket |
| Cron scheduler, `daemon/cron-scheduler.ts`, `bus/cron-outcome.ts`, `daemon/cron-dispatch.ts` | schedule, `crons.json`, receipts journal | tick, retry, reload, recovery, dispatch | owner, AgentProcess | replay after a crash, retries, reload during a tick |
| Message bus, `bus/message.ts` | `inbox/`, `inflight/`, `processed/` directories | send, check, acknowledge, recover stale | file lock | several processes, crash between renames |
| File lock, `utils/lock.ts` | `.lock.d` with a pid | acquire, release, `withFileLockSync` | bus, tasks, crons, receipts | takeover of a dead lock |
| Tasks, `bus/task.ts` | a JSON file and a claim file per task | create, claim, update, complete, reap | file lock | two claimants, two organisations |
| Context handoff lease, `daemon/context-handoff-lease.ts` | active leases and a queue, in one file for the fleet | acquire, release, expiry | the context monitors | expiry racing a slow holder, places abandoned |
| Event receipts, `bus/event-delivery.ts`, `cli/provider-shadow-ingress.ts` | journal, log, index, cursor and routing log | ingress, recovery, route, advance | providers over HTTP | a failure after each write, repeats, older events after newer |
| Multica sync, `bus/multica/` | the ledger `sync-state.json`, which links a task to an issue of the board | mirror of one task, full sync: push, poll, import | task files, the board over HTTP | two systems and a ledger, no transaction; runs overlap, calls fail or land late, processes die |
| Reliable jobs, `bus/reliable-job.ts` | heartbeat and attempt files | run, retry, missed fires | cron | crash between effect and record |
| Recovery policy, `recovery-policy.ts` | none (pure) | decide on crash budgets and context baselines | AgentProcess, FastChecker | windows and day boundaries |
| Telegram, Slack, Buzz; pipeline gates; approvals, reminders; wedge detector; runtimes; dashboard; CLI; knowledge base | see `PROJECT.json` | | | mostly I/O, data processing or single writes |

What makes each correct, in a sentence:

- owner: only a wanted generation is spawned, each at most once and in order; a
  process is never forgotten; an accepted request is pursued; a stop settles;
- locks: one live process inside, and nobody takes the lock of a live one;
- work: recorded once for each source, never lost on the way, its outcome final,
  submitted at most once;
- registry: an agent's process is in the registry, what was torn down does
  nothing any more, every call returns, a halt is final;
- hosts: what is in use is spared, and nothing is left behind for good;
- turns: one at a time, and whatever is queued is settled;
- inbox: a letter is in one place, each reader works on its own, all are served;
  tasks: one claimant and no way back from closed; crons: what is due is fired,
  an occurrence is delivered once; receipts and events: they survive any crash;
- board: a task and its issue come to agree, and there is one of each;
- handoffs: at most a few restarts in a window, and everyone gets a turn.

## 2. Modules

    model                         proofs                 run by

    SpawnAuthority                SpawnAuthorityProofs
      ^ refined by                  ^ used by
    Supervisor                    SupervisorProofs \     MCSupervisor, MCOwner
    PtyHosts                      PtyHostsProofs   /     MCOwner
    StoreLock                     FileLockProofs         MCBus
    WorkIntake                    RuntimeProofs \        MCWorkIntake, MCRuntime
    ContextHandoff                RuntimeProofs /        MCRuntime
    MulticaSync                   SyncProofs             MCRuntime
    AgentProcess <- AgentManager  AgentsProofs \         MCAgents
    TurnQueue                     AgentsProofs /         MCAgents
    FileLock                      FileLockProofs \       MCBus
      ^ extended by                               |
    Mailbox, TaskClaim            FileLockProofs  |      MCBus
    EventStream                                   |
      ^ refined by                                |
    EventIngress                  FileLockProofs /       MCBus
    CronReceipts
      ^ refined by, used by
    ReceiptJournal, CronScheduler CronProofs             MCBus, MCCron

MCOwner, MCRuntime, MCAgents and MCBus put components that share no state side by side, so
that one run of TLC explores each of them: the variable `part` says which one is
alive in a behaviour, and the others stay as they are. Components that do share
state are composed by extension or instance: Mailbox and TaskClaim work under
FileLock, AgentManager drives the objects of AgentProcess, CronScheduler keeps
the receipts of CronReceipts, of which ReceiptJournal is the implementation.

### SpawnAuthority

What the owner promises about spawning: a permission is granted for the newest
generation only, while the agent is wanted, is used at most once, and is gone as
soon as the intent is revised. `Supervisor` is shown to implement it with the
mapping `wanted <- desiredState = "running"`, `last <- nextGeneration - 1`,
`granted <-` the generation of a restart whose fence is still valid.

### Supervisor

| Model | Code |
|---|---|
| `snap` | the durable snapshot; `freshPending` stands for `pendingRequests`, which holds a fresh request or nothing |
| `tasks` | chains that are awaiting the runtime: what `void this.runStart(...)` and its siblings leave behind |
| `ProcessWindow(w)` | `processWindow` and `decideAndCommit`: all requests of one microtask are decided together. `HandleStopHalt`, `HandleHaltedGate` and `HandleAutonomous` are the three handlers, with their order and guards |
| `StartCompletes`, `RestartRetireCompletes`, `RetireCompletes` | the code of each chain after its await. The synchronous head of `runStart` belongs to the action that calls it (`BeginStart`) |
| `Stale` | `isEffectStale`. The epoch is left out, it is 0 everywhere: `admitDaemonWriter` has no caller |
| `CommitOutcomes` | `commitWithRetry` succeeds or fails; a failure changes nothing on disk |
| `TornDown` | the contract of `retireGeneration`: retired, or blocked with what it could not verify |
| `DaemonCrashes` | chains are lost, the snapshot stays, processes may survive |

A resource is represented by the generation that owns it. The code groups by
owner, filters by ids derived from it, and reserves the bundle of a generation
as a whole. `recoveryBudgets` is counted but read by no decision of the owner
and is left out. `live`, `spawned`, `asked` and `gaps` are history variables: no
guard of this module reads them. `gaps` names the steps of the code after which
the owner may lose track. Each is noted where it happens, and each property of
the owner says which of them it exempts; every other interleaving, failed commit
and crash is covered.

| Gap | Where the code meets it |
|---|---|
| `beside` | a generation is allocated while another is being spawned or retired, or is left in the bundle, that its chain does not retire first (`supervisor.ts:1112`: a start during a teardown; a restart after a blocked restart, or one that the crash of the daemon cut off) |
| `dropped` | `draft.resources = result.resources` (1247) or `draft.retiringResources = retireResult.unresolved` (1274) overwrites resources that nobody is retiring |
| `unsaved` | the commit that names what a teardown could not verify fails (1316) |
| `lost` | the daemon dies while it retires, or spawns, what the snapshot does not name |
| `redundant` | a start is accepted as one of an agent that runs (1092), and nothing is pursuing that any more |
| `behind` | the commit that ends a start or a restart fails (1236, 1246, 1271) |
| `unsettled` | the commit that ends a stop's retirement fails (1306), or the daemon dies during it |

### StoreLock

Each system call on `.lock.d` is one action of a process: `Exists`, `Place`
(rename of the staging directory), `Stat`, `Read`, `Probe`, `PreStat`,
`Confirm`, `Tombstone`, `Replace`, `Release`, `Check`, and the two halves of
`rmSync`: `Unlink` of the identity and `Rmdir`. A directory is named by the
process and the attempt that made it, which is what inode and owner token
distinguish. `Free` says when rename(2) succeeds: nothing there, or an empty
directory. A probe may answer "alive" for a dead process, since pids are reused,
but not the reverse.

### WorkIntake

| Model | Code |
|---|---|
| `ledger`, `accepted` | `outstandingWork`; a workId is a UUID, modelled as the key and how often it was accepted |
| `queue`, `saved` | `telegramMessages` and the pending file. Slack and Buzz use the same cycle without the file |
| `inbox`, `inflight` | the directories of `bus/message.ts` |
| `poll` | where the supervised poll cycle is: accepted, written, drained |
| `PollAccepts`, `PollInjects`, `PollDrains`, `PollAcknowledges` | `pollCycle`, `pollCycleSupervisedDispatch`, `dispatchViaSupervisor`, `ackInbox`, split where the code awaits or writes durably |
| `FireAccepts`, `FireSettles` | `dispatchCronFire`, the receipts of the scheduler |
| `FireIntends`, `FireWrites` | `injectMessageDetailed` up to the commit of the intent (`beginDispatch`), and from there on: the daemon may die in between |
| `Observe` | `handleWorkObservation` with `applyWorkCorrelation` |
| `seen` | MessageDedup; its window of 100 entries is not modelled, the instances inject fewer texts |
| `ReviewFires` | the 30 minute timer of `scheduleNoCompletionSeamReview` |
| `DaemonCrashes` | the queue is reloaded from the file, unrecorded fires are replayed, everything in memory is gone |

No await separates the intent from the write. So nothing else of the daemon's event
loop runs between them (`Turn` is disabled while `Dispatching`), only other processes
and a crash.

Two facts about the code that the model makes visible. The poll cycle injects
with the boolean `injectMessage` and never calls `beginDispatch`, so that chat
records stay `accepted` for ever. And the effect of a cron dispatch is minted in
the same step in which it is checked, so that `REVOKED` cannot occur on that
path. `RuntimeStops` and `RuntimeStarts` reduce the stop and start of
AgentProcess to the status that injection reads; `MessageDedup` survives them, as
the AgentProcess object does. `archiveTerminal` sorts by time of transition; the
model keeps the newest, and leaves open the order of older ones.

### AgentProcess and AgentManager

| Model | Code |
|---|---|
| `proc[i]` | one AgentProcess object per entry ever registered: `status`, `pty` (named by its generation), `stopRequested`, `lifecycleGeneration`, in-flight start, timers, and its child processes with their exit events still under way |
| `Spawning`, `Forked`, `Spawned`, `SpawnFailed` | `start` and `startImpl`, split at the startup delay, the fork and `await pty.spawn` |
| `Stopping`, `Stopped` | `stop` and `runStop` around the wait for the exit |
| `Handled`, `Unexpected` | `handleExit` and `classifyExit`; what the exit codes lead to is a choice among `Verdicts` |
| `Refreshing`, `Refreshed`, `Restarted` | `sessionRefresh` and the restart timers |
| `entry`, `mapped`, `scheduler`, `ticking` | `agents`, `cronSchedulers`, FastChecker and poller of each entry |
| `pending`, `evicting`, `claimed`, `justCrashed` | `pendingRestarts`, `evictingAgents`, `stoppingAgents`, `daemonJustCrashed` |
| `call[r]` | a call of `startAgent`, `stopAgent` or `restartAgent` and the await at which it stands |
| `ReloadCrons`, `BootEnds`, `PollerConflicts`, `PollerRetries` | `reloadCrons`, the end of the boot phase, the loop around the poller |

Continuations are actions of their own, so every order of the code's microtasks
is included and some more. `StartupDelay = TRUE` covers the code without it, as
the delay may be over at once. SIGKILL is assumed to kill within the 5 seconds
that `runStop` waits. `overtaken` and `late` are history variables that name the
gaps of the code: a process is not in the registry any more (or never gets
there) when a stop comes during a startup delay or before the fork, when a user's
stop is overtaken by a session refresh, when an entry that waits in its startup
delay is evicted, or when `restartAgent` undoes a stop that came during it; and a
start that was parked while a stop of the same entry awaited its process sets a
poller going that nobody stops. `LiveIsRegistered` and `TornDownStaysQuiet` hold
everywhere else.

### TurnQueue

| Model | Code (`pty/codex-app-server-pty.ts`) |
|---|---|
| `queue`, `drain`, `completion`, `active` | `_turnQueue`, `drainQueue` with `_executing`, `_turnCompletion`, `_activeTurnId` |
| `toServer`, `fromServer` | requests, and responses and notifications, on the wire |
| `fate[i]` | what has become of an input: steered or queued, in a turn, done, dropped |

The app-server is external: it works on turns, may refuse, report an error, be
silent or close the socket. `gaveUp` records that a start or a turn was given up
after its timeout: its late end may then be taken for the end of its successor,
and `TurnsAreSerial` says nothing of such behaviours. Two things the model shows:
after the socket is closed the adapter stays alive and every further turn fails;
and inputs queued behind a failing turn are dropped, although the comments at
`codex-app-server-pty.ts:770` and `:804` speak of guaranteed delivery (in
production nobody is told, since no work ids are passed). A refused
`turn/start` also leaves a completion that is rejected later with nobody
awaiting it.

### PtyHosts

| Model | Code |
|---|---|
| `host[h]` | one host process, its runtime, the messages to it, and what the daemon's proxy, `liveHostPids` and the ledger say of it |
| `HostSpawn`, `Ready`, `ReadyTimesOut`, `Escalates`, `ExitSeen` | `hostSpawn` and `PtyHostProxy` of `pty-host-client.ts` |
| `Release`, `StopsServer`, `StopKills`, `AbandonsServer` | the two ways a host is let go. `AgentPTY.kill` destroys it; `CodexAppServerPTY.kill` sends `pty-kill` and no more. In a stop `runStop` kills the runtime's pid after its wait; after a failed spawn attempt (`cleanupSpawnAttempt`, and line 606) nobody does |
| `HostStarts`, `HostDisposes`, `HostFallsBack`, `HostEnds`, `RuntimeExits` | `pty-host-entry.ts` |
| `DaemonDies` | everything in memory is gone; hosts, runtimes and the ledger stay |
| `SweepsSome`, `SweepsBlind` | `sweepLedger` and `sweepStrays` of the reaper, and the sweep whose `ps` failed |

Pids are not reused. The ages of entries are left out: a sweep may spare what is
too young. The SIGTERM path of `destroy` and the wait for it are folded into
`Escalates`, which may also come before the host's own fallback. Exempt from
`OrphansAreReaped`: a host that was gone before its `pty-ready` was heard, and
entries that a blind sweep has removed (both `lost`); and the app-server of a failed
Codex spawn attempt that ignores its `pty-kill`, as long as its host is in
`liveHostPids` of the daemon that spawned it: the reaper spares what is in there, so
the pair stays until that daemon or the host ends.

### ContextHandoff

| Model | Code |
|---|---|
| `status`, `monitor`, `circuit` | `context_status.json`, the fields `ctx...` of FastChecker, `.ctx-circuit.json` |
| `file` | `context-handoff-leases.json`; every call runs to its end in the one daemon, so that the missing lock is no race |
| `Checks` | `checkContextStatus` with `forceContextRestart`, `evaluateContextBaseline`, the lease calls, the breaker: one poll |
| `Reports`, `SessionStarts`, `AgentStops`, `AgentStarts` | what the runtime, and whoever stops it, does meanwhile |
| `Tick` | five minutes and a little more. Assumed: each running agent is polled at least once in each |

`past` remembers prompts and restarts of the window. A session that reports its
id only after its prompt passes for a new one, which makes the monitor forget its
lease while the agent works on; `past.named` leaves these sessions out of
`HandoffsAreLeased`. The reset at `fast-checker.ts:1917` is there for that case.
Left out: a threshold of 0 (opt-out), an unreadable generation, the warning tier.

### FileLock, Mailbox, TaskClaim

`FileLock` has one action per system call on `.lock.d`: `mkdir`, the write of the
pid, the read and the probe, `rmSync` and `mkdir` of the takeover, the release.
`rivals` records that two actors were about to remove one stale lock, the one
case in which both get in. `Orphaned` describes the directory without a pid,
which is reachable and stays.

`Mailbox` moves letters between the directories. `checkInbox` is split at each
rename: recovery of stale letters, the listing, each move and each letter that
does not parse; `ackInbox` likewise. `Ages` lets 300 s go by. Since `rename`
keeps the mtime, a letter that waited so long in the inbox is stale at once when
it is in flight, and each check until the acknowledgement delivers it again.

`TaskClaim` has `claimTask`, `updateTask`, `completeTask`, `cancelTask` and the
reaper, with the claim file (of the caller's organisation, never removed except by
the undo) and the task file as separate writes. Agents of different
organisations may both be told that they have the task, since each organisation
has a claim file of its own: `OneClaimant` is about the agents of one.

### CronReceipts, ReceiptJournal, CronScheduler

`CronReceipts` is the contract of receipts: the states of a run follow each other
as `assertTransition` allows, and a key that was accepted has no effect again.
`ReceiptJournal` is its implementation by a log, an index and a journal, with a
stop before each write; `JournalRefines` is the refinement, together with the
agreement of the log. `CronScheduler` has the ticks, the retries, the reload that
replaces the Map of mutable objects under a tick (`map`, `obj`, `view`), the
receipts (`book`) and the recovery at start. `stray` records that a fire went on
with an object that a reload had replaced, which is how an occurrence is
delivered twice without a crash (`cron_overlap`).

### EventStream, EventIngress

`EventStream` is what the receipts of a provider's events promise: accepted once,
proposed once, and the high-water mark only after that. `EventIngress` is
`processMonotonic` with `recordIngressReceipt`, `recordEventRoutingProposalOnce`
and `advanceCursor`, with a failure or the death of the process before each
write; `EventsGetThrough` is the refinement and the delivery in the end. `mode`
is the lane's: shadow, active, or off (as for a calendar's sync notification).
Two behaviours of the code that the model has: an older event that is overtaken
by a newer one is rejected as stale and never proposed; and in the active lane
whatever breaks between acceptance and spawn (even a failed write of the cursor)
makes the redelivery a duplicate, so that no worker is ever spawned, although the
comment at `cli/provider-shadow-ingress.ts:223` says "Spawn exactly once per
event".

### MulticaSync

| Model | Code (`bus/multica/`) |
|---|---|
| `tasks`, `issues`, `links` | task files, the board, `sync-state.json`; an upsert of one link holds the file lock and is one step |
| `run[r]` | a process: a mirror of one task, which `triggerMulticaMirror` has spawned, or a full sync, with the station it has reached and what it has read (`links`, `tasks`, `board`) |
| `Starts`, `Picks`, `Lists`, `Marks`, `Posts`, `Puts`, `Links`, `Pushed` | `runOutboundPush`: the write-ahead `pending_create`, the create or update, the link; the search for the issue of an earlier create |
| `Fetches`, `Loads`, `Polls`, `Refreshes` | `runInboundPoll`: a status that people set is written back unless it is the echo of a push |
| `ImportBegins`, `Imports`, `SetsStatus`, `Ties`, `Imported` | `runReverseImport`: an issue that no link names becomes a task |
| `Slip`, `Dies`, `wire`, `Lands` | a call or a write that fails, a process that ends, a create whose sender has given up and that lands all the same |

The hash of the mapped fields is the status, since nothing else changes. Titles
are distinct, as the search for an orphan goes by title. Mirrors of one task wait
for each other under its lock; one cron starts the full syncs, one at a time. An
update that was given up does not land later (a create may). The ledger is not
corrupt. Mirrors are started for every change, although `cancelTask` has none.

`MirrorSettles` says that once nothing changes and nothing fails any more, tasks
and issues agree for good, one for one. The code has gaps that it names by the
history variables `astray` and `missed`, at the action where each is set:

- a create lands after the search for it, or after the board was fetched: a push
  fetches it once, for all the tasks it looks for (`Lists`): two issues;
- an import takes the issue of a create that was not recorded for one of a person
  (`Creates`): two tasks;
- an import that dies or fails before it has linked the task it made (`Marks`):
  the next push files it again, see 6; if the task is cancelled by then, `listTasks`
  hides it, and the next import makes another one (`Creates`);
- a full sync, which takes no lock, and a mirror push one task at once
  (`Crossed`): the older status may be the last to arrive;
- a poll that fetched the board before a mirror had recorded its push takes the
  push for a person's change and writes it back (`Polls`);
- a poll passes over what a person set (`missed`): a status of a closed task, one
  whose write failed, or one equal to the last push. It is remembered as seen all
  the same, so that the task keeps its own until either side changes again.

## 3. Runs

| Run | Question | Bounds |
|---|---|---|
| `sup_overlap` | does the fencing hold in every interleaving, with failed commits and a crash? | one request per window, 3 generations, 2 revisions, 1 crash; 807,920 states |
| `sup_gaps` | is there one process at a time, none forgotten, every accepted start pursued, and does a teardown settle, whatever overlaps, fails or crashes, but for the gaps the model names? *hosts*: is what is used spared, and are orphans reaped? | two requests per window, 3 generations, 2 revisions, 1 crash, failed commits, until a gap is met; hosts: 2 hosts, 2 daemons, 2 faults; 330,370 states |
| `sup_replace_violation`, `sup_dropped_violation` | one process at a time, and every accepted start pursued, with no gap exempt: violated, see 6 | 2 generations |
| `lock_reclaim_violation` | does exclusion of the store lock hold for two that reclaim the lock of a third? violated, see 6 | 3 processes, 1 attempt |
| `work_crash` | is work recorded once, not lost and final, with a crash at any point, redelivery, refused commits? | two texts of one source key, 1 letter, 1 fire, 1 crash, 1 stop, archive of 1; 1,804,527 states |
| `work_served` | *intake*: is a queued message written in the end and dispatched work reviewed? *fleet*: are handoffs bounded, leased and served? *board*: do tasks and issues come to agree? | intake: 2 messages, 1 letter, 1 fire, 1 stop; fleet: 1 lease, one agent with 3 reports and a session, or two with 1 report each; board: 2 runs, one task changed once, one issue changed twice, or one of each, with 1 slip, one issue changed once with 2; 266,707 states |
| `work_replay_violation` | is work submitted at most once? violated, see 6 | 1 fire, 1 crash |
| `agents_served` | *registry*: is every process registered, is what was torn down quiet, is a halt final, does every call return? *turns*: one at a time, all inputs settled? | 2 calls of any kind, 2 generations per object, 1 mishap; 3 inputs, 1 trouble; 533,522 states |
| `bus` | *inbox*, *task*, *receipts*, *schedule*, *events*: see the properties; *store*: exclusion and possession of the store lock | 2 actors, 1 death, 2 letters (1 forged), 2 organisations; 2 runs of 1 attempt; 1 cron, 2 slots, 2 ticks, 2 tries, 1 edit, 2 mishaps; 2 events, 3 troubles; store: 2 processes, 3 attempts each; 555,409 states |
| `cron_overlap` | is an occurrence delivered once when nothing fails but one attempt? violated, see 6 | 2 crons, 2 ticks, 1 slot |
| `board_heal` | is there one task and one issue of each thing? violated, see 6 | 1 run, 1 issue, 1 slip |

Four runs hold components that do not touch each other (`part`). Their state
spaces are added, not multiplied: in a behaviour one of them moves and the rest
stay in their initial states.

Why the bounds are enough.

- *Owner.* The fences compare a chain's revision and generation with the newest,
  so that what matters is whether they are equal or older: three generations give
  a current one, one being replaced and one left from a blocked restart; two
  revisions give a stop and a restart after it. `sup_overlap` uses windows of one
  request, since several windows of one request in a row reach the same overlaps;
  arbitration inside a window is the matter of `sup_gaps`. `sup_overlap` names a
  VIEW that drops `live`, `asked` and `gaps`: nothing reads them except properties of
  other runs. `sup_gaps` follows a behaviour until the owner meets a gap, and from
  there the chains in flight to their ends, with commits that may fail (`OwnerNext`
  in MCOwner). That two gaps may follow each other was checked separately with one
  request per window, 2 generations, 2 revisions and a crash (157,816 states), and
  larger bounds up to one gap (1.3 million states), with the same result. The three
  invariants are proved without any of these bounds.
- *Store lock.* Three attempts let a process release, reacquire and reclaim; the
  race of two reclaimers needs one attempt of each.
- *Work.* A key may be accepted twice, so that a redelivery after archival is
  covered, and the archive holds one record, so that it overflows. In `work_crash`
  a runtime reports completion as an outcome only; the review covers the other.
- *Registry.* Two calls make every pair of operations overlap, and a third entry
  is one more than they can register; two generations are a restart in one
  object; one mishap is a crash, a failed spawn, a refresh or a poll conflict at
  any moment.
- *Turns.* One input in a turn, one steered or queued behind it, one behind that.
- *Bus.* Two actors and one death make a stale lock and, with the successor of
  the dead, two stealers. A good and a forged letter meet in every directory. Two
  organisations with one agent each, or both agents in one (`home` is a choice).
  Two ticks overlap across a reload; two slots are an occurrence and its
  successor; two mishaps are a failed attempt and a crash. Two runs of two
  attempts were checked separately, with the same result.
- *Hosts.* Two hosts are one in use and its predecessor, two daemons a crash, and
  two faults a host that hangs and `ps` failing.
- *Fleet.* One lease and two agents contend; three reports fill the breaker's
  window of restarts. The durations keep their order (deadline < lease < place in
  the queue, window < pause) and are as short as that allows: a tick stands for
  five minutes and a bit, but pause and queue are 4 and 3 ticks instead of 6.

- *Board.* Two runs are a mirror and a full sync, or two mirrors; one slip is a
  failure at any point and a second one a failure during the recovery. A behaviour
  is not followed beyond a known gap (`Mirroring`). Agents set `completed`, people
  `in_review` and `blocked`. With `in_progress` as well for agents, a task or an
  issue that is changed twice, and a task and an issue together with a change, were
  checked separately, with the same result (1,515,930 states for the last).

`MaxCrashes`, `MaxStops`, `MaxQueue`, `MaxAccepted`, `MaxGeneration`, `MaxRevision`,
`MaxAttempts`, `Requests`, `MaxGen`, `MaxMishaps`, `MaxDeaths`, `MaxSlots`,
`MaxEdits`, `MaxInputs`, `MaxTroubles`, `MaxHosts`, `MaxDaemons`, `MaxFaults`,
`MaxReports`, `MaxSessions`, `Runs`, `MaxTasks`, `MaxIssues`, `MaxMade`, `MaxFiled`,
`MaxChanges` and `MaxSlips` are bounds of the model, not of the code. In all
runs the system may stop when the bounds are used up, so deadlock is not checked.

What the instances leave out on purpose. The store lock of `bus` has two processes, so that there is never
more than one to reclaim a dead lock: the daemon and one other. `work_served` has
neither crashes nor redeliveries: a crash loses review timers, and a message
redelivered with another formatted text (the history in it has changed) is a
conflict that makes `acceptBatch` refuse the whole batch in every cycle until
someone removes it, so that nothing else of that agent is written either.
`SaveOutcomes` is `{TRUE}`: the pending file is written on a best effort, and a
failed write followed by a crash loses what it should have held. `agents_served`
answers exits that nobody asked for with a restart or a halt (`Verdicts`); the
other answers (planned restart, shutdown, disabled, crash pause) only leave the
object stopped or running as these do.

Each property of a passing run has a mutant in the modules: a definition marked
`Mutant` that changes a definition of the code in the way a plausible bug would
and makes the property fail.

## 4. Fairness

`Supervisor`: every runtime call returns (weak fairness for the chains of each
generation). `runStop` bounds each phase of a teardown by a timeout and a spawn
either returns or throws. Nothing is assumed about commits: `RetiringSettles`
exempts a teardown whose outcome the store refused, or that a crash cut off, since
nothing takes it up again before the next request (`unsettled`).

`WorkIntake`: weak fairness of the poll loop as a whole (`while (this.running)`
with a sleep, errors are caught), of each review timer, of a write whose intent was
committed (the code runs straight on), and of a stopped runtime
being started again, which is the daemon's purpose (scheduled restart, boot
self-heal, or a user). Nothing is assumed of arrivals, of the runtime's reports,
or of a cron fire's settlement. `DispatchedIsReviewed` needs only the timers.

`AgentManager` (`Fairness`): each call goes on when what it awaits is there;
startup delays run out, a fork is tried, a spawn returns or fails, the wait of a
stop ends, SIGKILL kills. Nothing is assumed of exits, timers or the agents.

`TurnQueue` (`TurnFairness`): the drain loop goes on, and the timeouts of a
request (30 seconds) and of a turn (30 minutes) fire. Nothing is assumed of the
app-server, nor that what is on the wire arrives.

`PtyHosts` (`HostFairness`): sweeps and timers fire, exit events are delivered, a
stop kills the runtime that did not end in its wait, a
host that does not hang reads its messages, and an entry of the ledger gets old
enough (sweeps that spare nobody occur). Nothing is assumed of the runtimes.

`ContextHandoff` (`HandoffFairness`): time passes and every running agent is
polled in each tick. `Mailbox` (`MailFairness`): the daemon checks the inbox again
and again, a call goes on, and a letter grows old. `CronScheduler`
(`CronFairness`): a stopped scheduler is started again, ticks begin, and a tick
goes on. `EventIngress` (`EventFairness`): a request is handled to its end, and
the provider repeats what was not answered with 200. `MulticaSync` (`SyncFairness`): a cron starts full syncs again and again, a run
goes on, and what is on the wire lands. Nothing is assumed of the mirrors. In
MCBus, MCAgents, MCOwner and MCRuntime each of these conditions is conjoined with `part`.

`StoreLock`, `FileLock` and `TaskClaim` have no liveness property of their own:
acquisition of the store lock is a single attempt that may always fail, and a
file lock without a pid stays.

## 5. Proofs

All theorems are proved for every value of the constants under the assumptions
the modules name; TLC evaluates these in the runs.

- **SpawnAuthorityProofs.** `SpawnedInOrderAlways`: generations are spawned in
  order and at most once. The invariant adds that what was spawned is at most
  `last`, and below an outstanding permission.
- **SupervisorProofs.** `TypeCorrect`; `PendingStartIsWantedAlways`;
  `ReadyOwnsCurrentAlways`. The inductive invariant `IInv` is needed because
  neither property is inductive: that a completion may set `ready` depends on
  what other chains exist. `Issued` bounds a chain's generation by
  `nextGeneration` and its revision by the current one, so that a new chain
  cannot be confused with an old one; `OneChainPerGeneration` says that at most
  one chain may spawn a generation; `NoStartOfRetired` that no start is pending
  while some chain retires the current generation; `ReadyIsQuiet` that while the
  owner is ready no chain concerns the current generation. Each handler and each
  completion has its lemma.
  `FreshIntentIsStickyAlways` is an action property: it needs, besides `IInv`,
  that a pending chain runs fresh while the owner carries a fresh intent
  (`FreshCarried`), so that the only completion that clears the intent is one of a
  fresh start.
  `SpawnAuthorityImplemented` maps every step: allocation by a restart is
  `Grant`, a start is `GrantAndSpawn`, the second half of a restart is `Spawn` or
  `Revoke`, everything else is `Revoke` or a stutter. `GenerationsSpawnedInOrder`
  instantiates the abstract theorem.
  `NoProcessIsForgottenAlways`, `OneGenerationUnlessBesideAlways` and
  `StartsArePursuedAlways` hold for all behaviours: requests that overlap, commits
  that fail and crashes included. What they exempt are the gaps of section 2, and
  exempting less is false: without them `sup_replace_violation` and
  `sup_dropped_violation` find counterexamples. Each has an inductive invariant on
  top of `IInv`. `KnownInv`: what runs is in the bundle or in the hands of a chain,
  and what a start in flight has reserved is named by the bundle. `AloneInv`: as long
  as no gap was met, at most one generation is up, a start in flight is alone with
  what it spawns, and a restart replaces all that is there. `PursuedInv`: what was
  asked for is settled, or a chain pursues it. A lemma per step says what the step
  does to processes, bundle and chains (`StartStep`, `AllocationStep`,
  `AutonomousEffect`), and the invariants are proved from these.
- **FileLockProofs.** The lock: `LockIsTyped`, `LockIsExclusive`; its actions are
  wrapped so that the theorems hold for whatever is done under it. The invariant
  is `LockTypeOK /\ (rivals \/ Consistent)`: until two actors are about to remove
  one stale lock, the directory, its owner and the places of all actors agree.
  The inbox and the task build on it through its step lemmas.
  Inbox: `MailIsTyped`, `ReturnedIsInFlightAlways`; what an actor has taken out of
  the directory it takes inside the lock only (`TakenInside`).
  Task: `TaskIsTyped`; `ClaimsAreExclusive`, where the invariant adds that an actor
  who was told that it has won is named by the claim file of its organisation;
  and the action property `ClosedIsFinal`, whose invariant adds that who writes a
  status inside the lock has read the one that is there (`ReadIsFresh`) and that
  only a closing call writes a closed one (`ClosesClosed`).
  Events: `EventsAreTyped`; `EventsFollowStream` maps each step of the bridge to
  one of EventStream or a stutter. The invariant says of either journal that what
  it names is logged as often as it says, and that what is logged is indexed or
  named by the journal (`Journalled`), and of the request which journal it has in
  its hands at each place, and that a worker is still to be spawned while it
  carries a fresh acceptance (`PlaceFits`).
  The store lock: `TypeCorrect`. `LiveLockIsKeptAlways` and
  `MutualExclusionAlways` assume `[]SoleSurvivor`: nobody has died, or a single
  process is left. The assumption is needed, as `lock_reclaim_violation` shows.
  The invariant adds `ReclaimNeedsDeath`: a process past its probe knows that
  some process has died.
- **RuntimeProofs.** The work ledger: `TypeCorrect`, `OneRecordAlways`,
  `IntentIsFirst` (its invariant adds that the intent of a fire about to be written
  is in the ledger, and that no step runs in between that could undo it), the action
  property `OutcomesAreFinalAlways`, and
  `NothingIsLostAlways`. The last one assumes that saving the pending file works or
  that the daemon does not die (`SaveOutcomes = {TRUE} \/ MaxCrashes = 0`): the code
  swallows a failed save, and what was only in memory dies with the daemon. The
  assumptions on the constants say that kinds are those of the code and that a
  cron's key is no letter's. The handoffs: `HandoffsAreBoundedAlways`, for any
  fleet and any periods in the order the code's constants are in. The invariant
  `FleetInv` is `Shapes`, `Counted` (what the breaker counts is what happened within
  its window, as long as it is whole) and `MonitorSettled` (an agent that was
  prompted holds a lease that outlives its deadline). `HandoffsAreTyped` adds what
  is left of the bounds (`FleetSpent`) and that the times of a history are within
  the window. The history is pruned by dropping a prefix, and the queue of the
  leases by `Only`, a recursive function: the provers know nothing of SelectSeq.
  What `Only` returns (`OnlyIs`) is proved prefix by prefix (`Reaches`: among the
  prefixes for which it is not so there would be a shortest one).
- **SyncProofs.** `SyncIsTyped`; `OneOfEachAlways`: `astray \/ OneToOne`, for any
  number of runs, tasks and issues. The invariant is `SyncInv == BoardTyped /\ (astray
  \/ Paired)`. What a run works on was read long ago, so `Paired` says what of a
  reading still holds (`Follows`: what was there is there, and a link stays), what a
  run is sure of at each station (`AtWork`: nothing of its title exists when it
  creates an issue), that no two runs are about to create an issue for one task
  (`Clash`), and how titles tie tasks, issues, links and creates on their way
  (`World`: whatever was pushed is linked or marked). The proof found two gaps that
  the runs had been too small to meet: the board that is fetched once, and the
  cancelled task of a dead import.
- **AgentsProofs.** The registry: `AgentsAreTyped`, `LiveIsRegisteredAlways`,
  `TornDownStaysQuietAlways`, `SchedulersAccountedAlways` and the action property
  `HaltIsFinalAlways`, for any number of calls and generations. The invariant is
  `AgentInv == Books /\ Schedules /\ Served /\ Quiet /\ Flags`. `Books` bounds the
  entries made by the calls used, says that an entry that is not the registered one
  is torn down, and that every process is `Sound`: its timers, its exits on their
  way and the chains that restart it fit its status, and none is left once its
  entry was torn down, unless it was overtaken in the middle of a start. `Served`:
  a registered agent without a scheduler is in the middle of its start. The turns:
  `TurnsAreTyped` and `TurnsAreSerialAlways`; the invariant `SerialInv` relates what
  is on either wire to the turn `drainQueue` waits for, until a turn is given up
  after its timeout or the connection is lost.
- **CronProofs.** The receipts: `JournalIsTyped`; `JournalImplementsReceipts` maps a
  write of the journal to the acceptance of the receipt in `CronReceipts` and every
  other step to a stutter, with `JournalInv`: the stage of the call says which of
  journal, log and index have the receipt, and nothing overtakes a receipt on its
  way. The scheduler: `ScheduleIsTyped`, `FiresAreSoundAlways`. The invariant is
  `FiresInv == ScheduleInv /\ (stray \/ StrictInv)`. `ScheduleInv` always holds: types,
  receipts of slots that have come (`Counted`), objects and ticks whose runs the
  receipts know (`ObjectsFit`, `TicksFit`), and a tick at work for each mark of
  firing (`MarksAreWorked`). `StrictInv` holds as long as no fire goes on with an
  object that was replaced: a tick at work holds the object in the Map (`Attached`)
  and is the only one for its cron (`OneWorks`); what was delivered, or may still be
  by a tick whose scheduler was stopped, is the attempt the receipts name
  (`ShotAsTried`) and the only one of the tick at work (`OnTheAttempt`); and an
  object that waits is for a run that was not delivered (`WaitingIsUntried`).
- **PtyHostsProofs.** `HostsAreTyped`, `WantedSurvives`: no sweep kills what the
  running daemon uses. The invariant `HostInv` adds `Tracked`: every host of the
  running daemon that is up is in `liveHostPids`, and no host is owned by a
  daemon that is still to come.

The MC modules that run several components in one specification have theorems of
their own: `BusKeepsItsTypes`, `AgentsKeepTheirTypes` and `RuntimesKeepTheirTypes`
prove `BusTypeOK`, `AgentsTypeOK` and `RuntimesTypeOK` of `BusSpec`, `AgentsSpec` and
`RuntimesSpec`. The invariant is the conjunction of the components' ones. In MCAgents and MCRuntime a step of one part leaves
the variables of the others alone. In MCBus inbox and task share the file lock:
the invariant holds of the one that is alive, and the types of the other as its
variables do not change. FileLockProofs, AgentsProofs and RuntimeProofs extend
these modules for it.

Model-checked only: the agreement of tasks and issues (`Settled`); the
liveness part of `EventsGetThrough`; and all other liveness properties
(`RetiringSettles`, `OrphansAreReaped`, `QueuedIsWritten`, `DispatchedIsReviewed`,
`HandoffsAreServed`, `MirrorSettles`, `CallsReturn`, `QueuedIsSettled`,
`LettersServed`, `DueIsFired`), as the prover does not reason about fairness.

## 6. Where the code and what is said of it disagree

1. *A replacement may start before the teardown it replaces is over*
   (`sup_replace_violation`, `OneGenerationAtATime`). A start that arrives while
   a stop is retiring spawns at once, although
   `tests/integration/lifecycle-invariants.test.ts:513` says that a replacement
   never acquires resources before the outgoing teardown is done.
2. *An accepted start may lead to nothing* (`sup_dropped_violation`,
   `AcceptedStartIsPursued`). After halt and resume, a start during the teardown
   is taken for redundant (`supervisor.ts:1092`), and the agent stays absent.
3. *Two reclaimers of one lock may both win* (`lock_reclaim_violation`,
   `MutualExclusion`). The swap at `store-lock.ts:243` renames what is in the
   slot by then.
4. *A cron fire may be submitted twice* (`work_replay_violation`,
   `SubmittedOnce`). The duplicate filter that should reject the replay does not
   survive the restart that causes it.
5. *An occurrence may be delivered twice by overlapping ticks* (`cron_overlap`,
   `OnceDelivered`). While a tick waits to retry one cron, a later tick reloads
   `crons.json` and copies the objects of the others; the first one then goes on
   with its own copy of a cron that has fired meanwhile.
6. *An import that did not get to its link is duplicated, not healed*
   (`board_heal`, `OneToOne`). The next full sync pushes before it polls, finds an
   open task that the ledger does not know, and files a second issue; its poll then
   links the task to the first one, and the next run imports the second as a task
   of its own. `poll.ts:455` speaks of the crash window and of re-linking "instead
   of duplicating", and `tests/unit/bus/multica/poll.test.ts:267` tests it by a poll
   without a push.

Behaviours that contradict no document, or a comment only, and that the models
show:

- a store lock whose holder died between the two halves of its release, and a
  file lock whose maker died before it wrote its pid, are never available again;
- review timers do not survive a crash; only terminal records are archived; a
  generation that was starting when the daemon died stays `starting` in the
  snapshot until the next request;
- processes that no entry owns, and a poller that nobody stops (AgentManager in
  section 2);
- inputs dropped behind a failing Codex turn, against the comments at
  `codex-app-server-pty.ts:770` and `:804`;
- an event of an active lane that is accepted and never spawned, against the
  comment at `cli/provider-shadow-ingress.ts:223`; an older event that was
  overtaken gets no proposal;
- agents of different organisations that are both told they have claimed a task;
- letters that are delivered again by each check, because `rename` keeps their
  age;
- the gaps of the sync with the board (MulticaSync in section 2), of which a stale
  board written back over an agent's status is the most likely one;
- a sweep whose `ps` failed takes every entry out of the ledger;
- two writes of the owner that overwrite resources still to be retired
  (`supervisor.ts:1247` and `:1274`), and a restart after one that a crash cut off,
  which spawns beside what that one was replacing: the gaps of Supervisor in section 2;
- the app-server of a failed Codex spawn attempt that ignores its `pty-kill`: nobody
  kills it while its daemon lives, which is the leak that the comment at
  `codex-app-server-pty.ts:608` wants to rule out.

## 7. Not modelled

- Lifecycle owner: the epoch and `admitDaemonWriter`, which nothing calls; corrupt
  snapshots. AgentManager: the branches with an owner (`runRestart` under a fence),
  `stopAll`, a missing agent directory, the activity poller and the wiring of Slack
  and Buzz.
- AgentProcess: what exit codes and budgets lead to is a choice of verdicts;
  `decideRecovery` itself is pure and is not checked against a reference.
- Cron scheduler: the fallback for a corrupt file, schedules that do not parse,
  the arithmetic of next times, and `alreadyDispatched`, which nothing reaches.
- Receipts: rotation of the log at 2000 lines, pruning of 20,000 keys, a torn
  append. Events: the same, unreadable files, calendar's channels, rate limits.
- Tasks: everything of `bus/task.ts` but the changes of claim and status.
- Multica sync: assignees and claims, approvals resolved by the poll, projects,
  system tasks, limits and dry runs, issues that quote the id of a task, a corrupt
  ledger.
- PTY drivers other than the turns of the Codex adapter; the wedge detector.
- Reliable jobs (a child process per job; no owner of the state file), approvals
  and reminders (single writes), pipeline gates (planned), Telegram's poller
  (planned), Slack and Buzz.
- Network clients, the CLI, hooks, dashboard and knowledge base are I/O or data
  processing around these parts. They are the larger part of the repository's
  lines.

`PROJECT.json` lists each component with its status.

## 8. Plan

In order of weight:

1. The owner's branches of AgentManager: the restart under a fence, composed with
   Supervisor.
2. `TelegramPoller` (offset after the handlers, conflict, stop) in front of
   WorkIntake's queue; `PipelineLedger` with the phase lock; `ReliableJob`.
3. `RecoveryPolicy`: functions against a reference definition over bounded inputs.
