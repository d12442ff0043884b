# Formal model of Primr

Primr researches companies with web scraping and language models. A run takes up to an hour and
costs money. It is started from a command line, from an MCP or A2A server that runs it in a
supervised child process, or from a cloud control plane that queues it for a container. Where those
paths meet threads, processes, failing disks, redelivered messages and providers that answer late,
their correctness is about order, and that is what this directory models in TLA+, model-checks with
TLC and, for eighteen components, proves with TLAPS.

Paths are relative to the repository; `mcp_server/`, `a2a/`, `ai/`, `core/`, `data/`, `pipeline/`
and `utils/` are directories of `src/primr/`.

## 1. Inventory

### 1.1 What is modelled

| Part | State it keeps | Operations | Shares it with |
|---|---|---|---|
| Job record and journal, `mcp_server/job_store.py` | `_job`, `_persisted_job`, the file, `_persistence_healthy`, the status event | `create`, `update`, `apply_worker_snapshot`, `reconcile_interrupted_job`, `mark_shutdown`, `clear`, `reload_from_journal`, `wait_for_status_change` | supervisor, MCP and A2A handlers, lifecycle |
| Supervisor, `mcp_server/job_process.py` | `_handles`, `_start_lock`, `_shutdown_started`, one handle per child | `start`, `cancel`, `shutdown`, a monitor per child, escalations | store, child, handlers, lifecycle |
| Worker, `mcp_server/job_worker.py`, `pipeline_runner.py` | its copy of the job, a cancellation controller, the event pipe | boot, ready, progress, outcome, exit | supervisor, over two pipes and signals |
| Lifecycle, `mcp_server/server.py` | phase, co-hosted servers, the controller lease | enter, leave, crash | store, supervisor, other controllers |
| A2A, `a2a/executor.py`, `prelaunch.py`, `lifecycle_events.py` | slots of final events, pending cancels, a lock | `execute`, `cancel`, stream until the final event | supervisor, store |
| Cloud runner, `deploy/runner.py`, `storage.py` | artifacts and manifest of a job | set-up, run, upload, commit, signals | other executions, control plane |
| Control plane, `deploy/control_plane/` | job table, queue, count of active jobs | submit, approve, cancel, reconcile | its replicas, the runner's manifest |
| Circuit breaker, `utils/circuit_breaker.py` | state, counters | ask, record success or failure, reset time-out | threads of a run |
| Model failover, `pipeline/model_breaker.py`, `llm_failover.py` | marks of exhausted models, kept until midnight | select, refuse, mark, clear | threads of a run |
| Deep research, `ai/deep_research.py`, `core/cli_recovery.py` | the provider's interaction, its File Search Store, the recovery record | create, save, poll, retry, resume, clean up | provider, a later process |
| Record files, `ai/job_persistence.py` | registry, receipts, lock file | save, list, remove | other processes |
| Usage history, `utils/usage_tracker.py` | records of a process, the history file, receipts of imports | record, save, import the history of an older installation | threads, other processes, the older installation |
| Recovered outputs, `core/cli_recovery.py` | final, staged and backup files | back up, promote, roll back | nobody, but may be interrupted |
| Workspace lease, `core/workspace.py` | a lease file per company | acquire, judge, reclaim, release | processes, hosts, tasks |
| Strategy stage, `core/fast_run_strategy.py`, `utils/run_budget.py`, `core/vendor_research.py` | ceiling, observed spend, refresh ledger | start a document, gate, record, exit code | worker threads |
| Default research run, `core/research_agent.py`, `core/fast_run_*.py`, `pipeline/executor.py` | sources found so far, their cache on disk, sections, report files | collect, deepen, write by parts, enrich, save, stop, resume | threads of its pools; a resumed run of the folder |
| Batches, `core/cli_batch_runtime.py`, `run_state_io.py`, `research_agent.py` | run states, reports, bindings | plan, run, bind, stop, repeat | single runs of the same company |
| Scraping, `data/scraping/orchestrator.py`, `models.py`, `data/scrape.py` | per-host knowledge, semaphore, window budget, an environment variable | `scrape_url` by tiers, visible retry | threads of the pool |

What is hard in them: handlers, monitor, escalation and shutdown interleave at every `await`;
children ignore commands, crash or report after their outcome; saves and clean-ups fail; replicas
write back whole records they read earlier; messages are delivered twice and signals arrive during
a commit; threads share counters, marks, budgets and environment variables without a lock; a
provider accepts work whose answer is lost; processes die between two files that belong together,
and a pid or a file name is used again.

What makes them correct: one outcome per job, recorded only when no process of it is left, and true;
no accepted or paid work forgotten, repeated or deleted while it is needed; one owner of a folder;
limits that mean what was configured; and whoever waits is answered. `PROJECT.json` lists each such
risk under `hazards`, at its line, with the property aimed at it.

### 1.2 What is not modelled

| Part | Why |
|---|---|
| Deployment budget tracker and rate limiter | counters of one process behind a lock; `submit` never charges the tracker |
| HTTP API, tenancy and quotas, `api/` | POST answers 501 and no request runs a job; the tenancy classes are a library nothing in the program calls |
| Generic state machine | a library class over a table its user supplies |
| MCP approvals, audit log, authorization | decisions over strings and signatures |
| MCP resources, prompts, summaries | read-only views |
| Agentic orchestrator and hooks | a sequential tool loop around model answers |
| Quality analysis, report output, skill pack, configuration, model registry | heuristics, formatting and tables; their correctness is about content, not order |
| Extraction, hiring signals, model evaluation, prompts, CLI arguments | large, sequential and data-dominated: what they compute from a page or an answer is not something a state machine tells apart |

These parts are most of the program's lines. They are pure functions of text or straight-line code
around network calls; a model of them would restate the code without a question to ask of it. Parts
listed in section 1.1 are mostly "partly" modelled; section 2 says what each leaves out.

## 2. Modules

| Module | Models | Built on |
|---|---|---|
| `ResearchJob` | the record: stages, `get_status`, acceptance and merge of worker snapshots, exit codes | |
| `JobStore` | `SingleJobStore`: each method an operator over `job`, `persisted`, `journal`, `healthy` | `ResearchJob` |
| `JobContract` | abstract: what a reader of the journal is promised | `ResearchJob` |
| `JobController` | controller processes, one after another, on one journal | `JobStore`, refines `JobContract` |
| `ControllerLease` | several controllers, the OS lease, co-hosted servers, orphaned workers | |
| `WorkerProcess` | children, pipes, signals and exits | `ResearchJob` |
| `JobSupervisor` | the supervisor with its callers, workers and the shutdown | `JobStore`, `WorkerProcess` |
| `StatusWait` | the long-polls that share one event | |
| `A2AStream` | streams and cancel requests that each want to send the final event | |
| `CloudRunner` | executions of queued jobs and the manifest they race for | |
| `ControlPlane` | replicas over the job table and the queue | `CloudRunner` |
| `CircuitBreaker` | one breaker and its callers | |
| `ModelFallback` | the failover chain with marks that end at midnight | |
| `DeepResearch` | a provider's job from creation to acknowledgement by a later process | |
| `PendingJobs` | the two record files under one lock | |
| `UsageHistory` | the history of costs that processes collect in one file | |
| `RecoveredOutputs` | the promotion of recovered files and its roll-back | |
| `ResumeLease` | the lease on a company's working folder | |
| `StrategyPhase` | the strategy documents, in a pool or in series, under a price ceiling | |
| `FastRun` | the default research run of one folder, from its searches to its report files | `Selections` |
| `Selections` | what a list keeps of another, in its order: filtered sources, written sections, companies left to do | |
| `BatchResearch` | a batch, its run states and its repetition | `Selections` |
| `Scraping` | the threads that scrape one site | |
| `*Proofs` | theorems, in eight modules (section 4) | the component, `TLAPS` |
| `MC*` | instances for TLC | |

Operators keep the name of the function they stand for; `map` in `PROJECT.json` gives the lines.
Definitions introduced by "A ... that ..." or "Mutant: ..." comments and used by no action (for
example `SaveJournalNoRollback`, `KillsPolitely`) are deliberate mistakes: put in the place of the
operator they change, each must make the property that guards against it fail.

### 2.1 Job control

*Granularity.* All controller code runs on one asyncio loop, and the store holds a lock. An action
is what one task does between two suspension points, so `get`, `advance_stage` and `update` in a
row are one step, and an `await` is where another action may come in between. The worker is
another process and steps freely.

*Saves.* `_save_journal` replaces the file atomically or leaves it, and rolls memory back when it
raises. Each mutation has a Boolean `saved` that the file system chooses. A rename that takes
effect and still reports an error is not modelled.

*Object identity.* The store replaces its `_job` object when a snapshot is merged and when a save
is rolled back. A handler that created a job keeps its own reference. `call[i].live` says whether
the two are still one object; `call[i].stale` is what the handler's object holds once they are not.

*The worker.* `proc[i].state` runs `absent`, `booting`, `running`, `exiting`, `dead`; `tree` says
whether a process of its group is left. A child that leaves its pipe full waits for room
(`EventBound`). Snapshots are taken and written in two steps, so that a threaded pipeline's
snapshot may be written after the terminal event (`Threaded`).

*The supervisor.* `handle[i]` is `WorkerHandle`, with `retained` for membership in `_handles`.
`call[i].pc` follows `start` and the A2A code around it; `monitor[i]` follows `_monitor_worker`;
`stopper[t][i]` follows `_cancel_handle`, once for a client's cancellation and once for the
shutdown's, waiting, sending SIGTERM, waiting, sending SIGKILL, waiting. `server` follows
`_graceful_shutdown`. The start lock is held exactly when a call is at a step where the code holds it
(`LockHeld`).

*Left out.* Windows job objects and the label of the signal that was used; worker log files; costs,
clocks, messages and progress texts; all output paths but the manifest's (a Boolean). The commit of an
outcome and the removal of the handle are one step although a pipe close is awaited between them;
the death of a process, its return code and the end of its pipe become visible together. Requests and
cancellations stop before the lifecycle is left, as the transports do. One client cancels a given
job at a time, as often as it likes.

*`JobController`.* Which store call comes next, and what a worker reports, is arbitrary there;
`JobSupervisor` has the real order. The A2A request that accepted the latest job keeps its object, and `holds`
says whether the store still has the same one; `PrelaunchFails` writes it back as `terminalize_prelaunch_job` does, whatever
the store's own object has come to (5.1).

*`JobContract`* therefore promises a final outcome with one reservation: while the A2A request that accepted the
job has not returned (`pending`), it may once replace the outcome by a failure or cancellation of its own.

### 2.2 The servers' clients

`StatusWait`: `wait[w].pc` follows `wait_for_status_change` and the handler's first read; the shared
event is a Boolean that every waiter clears. A change of the job is any later status. What the
event misses, the five-second poll (`Expire`) finds.

`A2AStream`: `stream[j]` and `request[c]` follow `_run_and_stream` and `cancel`; each send is an
`await`, `holder` is the lifecycle lock. The store holds one job, so a second job takes the place of
the first (`slot`). Of the supervisor the module keeps what the executor sees: a verdict
after the worker's exit. The SDK's task store, its transport and clients are out.

### 2.3 Deployment

`CloudRunner`: `run[r].pc` follows `main` in `deploy/runner.py` with its `try`, `except` and
`finally`, each of which tries to create the manifest; SIGTERM may come at any step; `put_manifest`
creates the key or fails, and may fail after having created it, for the executions in `Troubled`; a manifest that cannot be
built (`build_manifest` reading the outputs), in the `except` block's own `try` as elsewhere, is one that is not written. The
creation is atomic, as the cloud stores' is; `LocalStore`, which is for testing, checks and then renames. Logs, events and
heartbeats decide nothing and are left out.

`ControlPlane` runs the executions of `CloudRunner` on what its queue delivers, at least once.
`handler[h]` holds the record a replica read; the writes that are not conditional in the code write the
whole record back. `MaxSends` bounds the messages; with `EnqueueFails` the queue may refuse one, and `refused` is
the history of whose. The read-only endpoints,
the launcher and the artifact URLs are out.

### 2.4 Calls to models

`CircuitBreaker`: callers ask by `check` or by `can_execute` (`Checked`), their calls end later, and
outcomes may be recorded in another state than they were admitted in. `streak` is a history of
consecutive failures, `waited` the elapsed reset time-out. `trial` is the history of a half-open period: who was out
when it began (`overdue`), who of them still is (`late`), and how many calls made in it have succeeded. The code counts a
late success towards closing like any other (`circuit_breaker.py:266`), so `ClosesOnTrial` says how far that goes and
not that it does not happen: one success of each caller that was out.

`ModelFallback`: `run[t]` follows `execute_with_fallback` with `_reset_daily_quotas`, whose scan and
deletions are separate steps because nothing locks them. `MaxDay` bounds the midnights.

### 2.5 Deep research and recovery

`DeepResearch`: `pc` follows one client (three ways of running a job, `Flows`; the third,
"resilient", is code no command reaches), `inter` the interactions at the provider, `record` the recovery
record, `resume` the process that comes back to it, `cleaner` another run's clean-up of old stores.
`MaxRetries` and `MaxPollErrors` bound the retries the code bounds; an accepted creation may
look refused, which the history `unheard` records. Prompts, parsing and the parallel queries of a batch are out.

`PendingJobs`: `primary` and `receipts` are the two files, `at[p]` the step of a process under the lock
file; writes, receipts, rewrites, locks and reads may fail (`Faults`) and a process may die with a
receipt half written (`torn`). `misread` is the history of a registry that could not be read and was
taken for an empty one.

`RecoveredOutputs`: one rename per step, forward and back; a rename may fail and Ctrl-C may come between
any two (`MaxInterrupts`). Name collisions of outputs are out.

`UsageHistory`: `history` is the file as a bag of whole records, `session[p]` and `flushed[p]` are the tracker
of a process, `pc[t]` follows a thread through `_migrate_usage_history` and `save`, whose reading,
replacement and receipt or count are separate steps; the thread lock and the file lock together are
"nobody else is in a locked step". Recording takes neither. `version` is how far the older
installation has written its own file, `Legacy` what each version holds: the digest in a receipt's
name is the version. Both locks go with a process that dies. Averages, estimates and summaries are out,
and so is the copy kept of an older file that cannot be read.

### 2.6 The command line

`ResumeLease`: every file operation on the lease is a step; `tokens` are Nat; `life` and `PidOf` say
what a pid means when it is judged: a process may be born with the pid of one that has died. The lease calls of one
process are on one thread, so tasks of a process interleave only while one of them works. `overtaken` is the history of
the one race that breaks exclusion: a reclaimer unlinks the name when it leads to another record than the one it read,
whether the owner it read of died or left. `unread` is the history of a release that could not read its record, which
the code does not remember (`core/workspace.py:428-436`), unlike a refused unlink (`pending`).

`FastRun`: `stage` follows `perform_fast_research` and the stages it calls. `scope`, what a run has before it (its
searches' sources, plan and quotas), is chosen at the start and stays. `validation[pool][u]` is a future
of a pool; `taken` what the loop has seen of it; a pool is abandoned at its quota or deadline, and what runs
then ends unheard. `sources` is the list whose positions sections cite; `material[s]` the sections and
the list a piece was written from. A section's call is repeated once and then skipped
(`PipelineExecutor.execute` with the table of `pipeline/recovery.py`); an error it does not retry is `Stop`.
The relevance filter, the gap analysis, the review and the checks of the documents are choices of their
outcome. `markdown` and `document` say which run's report a file holds, `passed` what the run state records of the artifact gate: a
resumed run finds the earlier one there until it records its own, and may be killed between that (`recorded`) and its
status. Titles are the plan's names, so that the skip
of a duplicate title never happens. Left out: the workbook, hiring signals, the passes that rewrite text
under a check of its structure, and the events abandoned threads may still add to the run state.

`StrategyPhase`: costs are small integers; `observed` is the spend a worker saw, `ledger` the shared
hook, and their read, write and comparison are three steps. `order`, what the command asks for, is chosen at
the start and stays. `PoolSize` 2 stands for the code's 3. `BaseSpend` 0 is a run that has spent nothing yet, 5 one
at its ceiling. A light refresh is never added to the
session's ledger, as in the code.

`BatchResearch`: a report stands for its hash. `command`, what the batch is given, is chosen at the start and given
again after each end: its companies, whether the platforms are `explicit`, what may go wrong, and the bounds on
runs, deaths and faults. `MaxFailures` 2 stands for 3 consecutive failures. A write of the run state is a
transaction on what was read, and a failed read is replaced by a recovery marker (`Unknown`), as in the code;
a refused replacement (`RefusedWrite`) ends the run as failed; a crashed run's lease counts as free. The writer of the
report swallows its error (`core/research_agent.py:3603`), so `Publish` may leave the earlier report of the day, none, or a
part of the new one; `unwritten` is the history of the runs it happened to. Such a run still completes, fulfilled, if there
is a report at all, and is bound to that text. Reports that
cannot be hashed are out. A run's lease ends when `perform_research` returns, before its report is hashed and bound:
with `overlap` a single run of the company may publish in between, and the batch's run is bound to a report
that is not its own. So `ExistingTruthful` is of commands without `overlap`, which is the operator's doing and not the code's;
the instance with `overlap` is there for what holds all the same. The other exception it names is the code's doing: what
an `unwritten` run is bound to is left alone by later batches although no run of this request wrote it whole, against
`cli_batch_runtime.py:137`, "only when its owning run fulfilled this exact request" (section 5).

`Scraping`: `setting` (tiers, slots, budget, `--browser-headed`) is chosen at the start and stays; `job[w]` follows `scrape_url` of one thread; `host` is `HostState` with counters read and
written in separate steps; `headed` is the environment variable with each thread's saved value. A page
is a choice of outcomes (`Answers`), a page time-out may happen at any choice. `Threshold` and `MaxSame`
2 stand for 3, two threads for three, one host. The egress proxy is on, so each visible call is a window of
its own. The token bucket and the backoff only delay; the persisted cooldown, link discovery, the
cache and the browsers are out.

## 3. Runs

Components that share no state are checked side by side: the MC module chooses a *scenario* at the
start, and the component it names moves while the variables of the others rest. Every scenario is
explored in full. Where the MC module states several claims about one subject, one property
conjoins their named parts.

| Run | Instance and scenarios | Properties and their parts |
|---|---|---|
| `controller` | 2 jobs, 2 owners, both surfaces, progress 0..1, any report in six stages, saves fail, crash anywhere, journal damaged from outside; a second store that is not damaged | `MemoryMatchesJournal`, `ActiveJobIsOwn`, `OnlyItsRequestOverturns`, `DamageIsLeftAlone`; `UndamagedImplementsContract`: the second store implements `JobContract` |
| `controller_lease` | 2 controllers, up to 2 co-hosted servers in each, 3 jobs, a crash in either | `WorkIsLeased`, `OrphansAreSettled`, `WrittenUnderLease` |
| `supervisor` | MCP surface. *failures*: 1 job, saves and cleanups may fail; *bad worker*: 1 job, crash (1, -9), garbled or late events; *two jobs*: 2 jobs in a row (`TwoInARow`) | `WorkersAccounted` (`TerminalAfterExit`, `NoOrphan`), `OutcomeTruthful`, `ReportsHonest` (`AnswerHonest`, `CleanStop`), `OutcomeIsFinal` |
| `job_waits` | A2A surface. *supervisor*: 1 job, fair; *status*: 2 long-polls; *stream*: 1 job, 2 cancel requests, fair; *two streams*: 2 jobs | `ActiveIsServed`, `CancelTakesEffect`, `WaitsEnd` (`StartSettles`, `ShutdownEnds`), `UnchangedIsTrue`, `FinalEventsSound` (`NothingAfterFinal`, `FinalIsTrue`), `ClientsHear` (`ChangeIsAnswered`, `FinalIsSent`) |
| `deployment` | *executions*: 2 executions of 2 jobs, one of them with a failing store; *refusing*, *queueing*: 2 replicas, 1 job, 1 execution, a queue that refuses or works | `ExitsSound` (`ExitCodeTruthful`, `LeavesManifest`), `JobTableSound` (`KeyMeansInputs`, `SuccessIsCommitted`), `QueuedIsServed`, `CommitOnce`, `QueueingSettles` (`StuckJobsSettle`) |
| `model_calls` | *limited*, *legacy*: a breaker asked by `check` or `can_execute`, 2 callers; *day*: 2 threads, 4 models; *midnight*: 2 threads, 2 models, 2 days | `CircuitSound` (`CountsConsecutive`, `OpensOnStreak`, `ClosesOnTrial`), `FallbackSound` (`RefusedOnce`, `RaisesOnlyWhenUnavailable`; within a day), `ServiceGoesOn` (`Recovers`, `ExecutionEnds`) |
| `pending_jobs` | *records*: 2 processes, 2 jobs, symmetric, every kind of fault; *usage*: 3 threads of 2 processes, 2 costs, an older file with a record that is there once more each of the two times it grows | `RecordsFound`, `RemovedAreGone`, `UsageSound` (`ChargedOnce`, `FlushedIsSaved`, `ImportedOnce`, `ReceiptsTruthful`, `NothingForgotten`) |
| `recovery` | *job*: one job in three flows, its creations answered or not, fair; *outputs*: 3 outputs, at most one interrupt | `OneInteraction` (`StartedAtMostOnce`), `OutputsKept` (`RestoredAfterFailure`, `NothingLost`, `DoneMeansAll`), `NothingGoesEarly` (`RecordOutlivesNeed`, `StoreKeptWhileRunning`), `EverythingGoes` (`StoreGoes`, `RecordSettles`) |
| `command_line` | leases: *deaths*: 3 processes of one host, of which one may die, whichever (they differ in nothing); *pid reused*: one dies and a third process gets its pid, an unlink may be refused; *two tasks*: 2 of one process and one on another host with the same pid, *claims again*: 2 of one process with two leases each, a read or unlink refused in both; *strategy*: 3 platforms, 2 at a time, and a YAML strategy, without a refresh; 1 platform and 3 YAML strategies, in series; 2 platforms and a YAML strategy, with a refresh; *report*: 2 sources, 1 section, 2 runs; 3 sources, quotas of 1; a part of 3 sections, one of 1, 2 threads; *batch*: 1 company, an unwritten report and a death; 1 company whose single runs overlap, a refused write and a death; 3 companies without explicit platforms whose run states may be unreadable; *scraping*: 2 threads, 2 pilot pages and 2 more; a browser and a stealth tier with a budget of 1 window; a browser with none, and with `--browser-headed`; 2 plain tiers under one slot | `ExclusiveUntilOvertaken` (`OneOwner`, `OwnerHasLease`), `LeaseSound` (these in every instance, `NothingLeft`, `RefusedForCause`, `RemovedByRight`), `StrategySound` (`OutcomeTruthful`, `SkippedAtObservedCeiling`, `RefreshKeepsBudget`, `OverrunOneDocument`), `BatchSound` (`ExistingTruthful`, `SummaryComplete`, `PaysOnce`, `KeepsRecord`), `ScrapingSound` (`WindowsInvited`, `AskedIsShown`, `SkippedForCause`, `SlotsAccounted`), `ReportSound` (`CitationsStable`, `ReportInOrder`, `GateHonest`) |
| `supervisor_overwrite` | 1 A2A job | `OutcomeIsFinal` **fails** (5.1) |
| `lease_reclaimed` | 3 processes of one host, one dies | `OneOwner` **fails** (5.2) |
| `popup_budget` | 2 threads, 1 tier, 1 window | `WindowsWithinBudget` **fails** (5.3) |

A scenario in brackets or after a semicolon is where a claim is checked; where it is left out it
does not hold, and section 5 says why. A claim that holds up to some event says so with a history
variable or a counter, so that one instance checks it with the event and without: `refused`
(`QueuedIsServed`), `misread` (`RecordsFound`), `unheard` (`OneInteraction`), `overtaken` and `unread`
(`ExclusiveUntilOvertaken`, `LeaseSound`), `unwritten` (`BatchSound`), `trial` (`CircuitSound`), `interrupts`
(`OutputsKept`), `today` (`FallbackSound`), `Troubled` (`ExitsSound`).

*Bounds.* The store holds one job and admits a second only after the first has its outcome, so one job
suffices for every race inside a job and two for what crosses jobs (start lock, stale records,
streams of a replaced job). Leases, manifests, event flags, environment variables and marks are
contended for pairwise, so two actors suffice; three processes or tasks are used where one has
to die or to hold while two compete. The event pipe holds two events, so that it fills. Thresholds are 2
where the code has 3 (or a configured number): the least number at which "one short" and "one too
many" differ. Three artifacts let the middle rename fail. A part with more
sections than threads makes writers queue; one section more in the next part reads what the first left. Every wait may expire at any time, which stands
for all values of the time-outs. The fault classes of one component are separate scenarios: their
product exceeds what TLC does in minutes. Faults, crashes and retries are counted (`MaxFaults`,
`MaxCrashes`, `MaxRetries`, ...), the counters that count what the code bounds have the code's bound.

*Deadlock* checking is off where the program stops: servers shut down, commands end, executions
exit. It is on in `controller`, `controller_lease`, `model_calls` and `pending_jobs`.

*Fairness.* Stated only where progress is claimed, and only of what the code's scheduling gives. Event
loops and threads run every task that can go on; bounded waits and polls expire; the kernel
delivers SIGKILL; a lock or a semaphore that is free again and again is got (strong fairness of the
steps that take one). Of the outside: the provider's job ends and its polls are answered at last; the
queue of the scenario *queueing* works; a call to a model ends, and some probe of a
half-open circuit succeeds. Nothing is assumed of clients, of the research itself, of a worker that was
asked to stop, or of SIGTERM. In `job_waits` saves and process-group cleanups succeed: the monitor
retries a failing cleanup for ever, so nothing can be promised otherwise. `StuckJobsSettle` needs a
reconciler that looks again and again.

*What `ActiveIsServed` does not say.* On the MCP surface a job whose approval cannot be saved, or whose
request is cancelled while it waits for the start lock, stays active without a worker until
shutdown or restart.

## 4. Proofs

| Module | Theorems | Properties of runs they state |
|---|---|---|
| `JobControllerProofs` | `TypeCorrect`, `Inductive`, `MemoryAgrees`, `RestartReconciles`, `CompletionRecorded`, `OutcomesAreFinal`, `McpOutcomesAreFinal`, `DamageSurvives`, `Refinement` | `MemoryMatchesJournal`, `ActiveJobIsOwn`, `OnlyItsRequestOverturns`, `DamageIsLeftAlone`; `Refinement` is `UndamagedImplementsContract` |
| `ControllerLeaseProofs` | `Invariance`, `TypeCorrect`, `HostsServed`, `WorkersKeepLease`, `OneSupervisor`, `JournalOwned`, `OrphansSettled`, `WritesAreLeased`, `WorkLeased` | `OrphansAreSettled`, `WrittenUnderLease`, `WorkIsLeased` |
| `JobSupervisorProofs` | `Invariance`, `EveryWorkerAccounted`, `OutcomesTruthful`, `SurfacesKnown`, `StopsCleanly`, `ReportsAreHonest`, `OutcomesFinal`, `ActiveJobsServed` | `WorkersAccounted`, `OutcomeTruthful`, `ReportsHonest`, `OutcomeIsFinal`, `ActiveIsServed` |
| `JobClientsProofs` | of `A2AStream`: `StreamsAreSound`; of `StatusWait`: `UnchangedIsSaidTruly` | `FinalEventsSound`, `UnchangedIsTrue` |
| `ControlPlaneProofs` | of `CloudRunner`: `RunnerTypeCorrect`, `ExitsAreSound`, `CommitsAreFinal`; of `ControlPlane`: `TableIsSound`, `QueuedJobsServed`, `DeployedExits` | `ExitsSound`, `CommitOnce`, `JobTableSound`, `QueuedIsServed` |
| `SharedFilesProofs` | of `PendingJobs`: `PendingTypeCorrect`, `RemovedStayGone`, `RecordsAreFound`; of `UsageHistory`: `HistoryIsSum` | `RemovedAreGone`, `RecordsFound`, `UsageSound` |
| `RecoveryProofs` | of `DeepResearch`: `ResearchTypeCorrect`, `NeedsAreMet`, `StartedOnce`; of `RecoveredOutputs`: `OutputsAreKept`; of `CircuitBreaker`: `CircuitIsSound`; of `ModelFallback`: `FallbackIsSound` | `NothingGoesEarly`, `OneInteraction`, `OutputsKept`, `CircuitSound`, `FallbackSound` |
| `CommandLineProofs` | of `ResumeLease`: `LeaseTypeCorrect`, `OwnersExcludeEachOther`; of `FastRun`: `ReportsAreSound`, `CitationsKeepTheirSource`, `GatesAreHonest`; of `StrategyPhase`: `StrategyIsSound`; of `Scraping`: `ScrapingIsSound`; of `BatchResearch`: `BatchIsSound` | `ExclusiveUntilOvertaken`, `ReportSound`, `StrategySound`, `ScrapingSound`, `BatchSound` |

All hold for every value of the constants that satisfies the modules' named assumptions (sentinels are
not members of the sets they stand beside, bounds are naturals, snapshots are job records). Where a
proof module joins several components, the assumption of each is a premise of its theorems. Every
inductive invariant was first checked by TLC on the instance of its component's run.

*Controller.* A status query answers from memory, a restart from the file, so every claim about the file
needs `MemoryMatchesJournal`; that needs `persisted` and `journal` to agree while the store is in use,
because rollback restores the one from the other; `ActiveJobIsOwn` needs the `loaded` phase between
reload and reconcile; `CompletionIffTerminal` of the file needs it of memory and of what the store
writes. `IInv` is their conjunction with the type invariant. `Refinement` shows that an undamaged
controller starts like `JobContract` and that each of its steps is one of the contract's or a stutter, the A2A request's
late write included. `OutcomesAreFinal` says that this write of a stale object is the only step that replaces an outcome;
`RequestInv` (what an open request holds is of the job on disk, and may be stale only where A2A is served) gives
`McpOutcomesAreFinal`: on the MCP surface alone no step does.

*Supervisor.* Every actor of `JobSupervisor` decides by something another may have changed, so no property is
inductive alone. `IInv` says for each job what goes together: the caller's place in `start` with the lock and with the
worker it created (`CallerSound`), the shutdown with the calls it ends (`ServerSound`), process, handle and
registered exit (`WorkerSound`), the monitor's place with what it may assume (`MonitorSound`), the events in the pipe with
what the worker did (`EvidenceSound`), the record with all of these (`OutcomeSound`), and that memory is the
journal (`Agreed`). `EveryWorkerAccounted` and `OutcomesTruthful` follow from it on every surface, whatever fails; the latter is of "completed"
and "cancelled", since every other end is recorded as "failed", which claims nothing.
The others need what a step may change: `OutcomeStays` (a recorded outcome is left alone) and `Lives` (a
worker confirmed gone is not created again). `OutcomeStays` is false where an A2A caller holds a job object the store has replaced
(5.1), so `ReportsAreHonest` and `OutcomesFinal` are of the MCP surface; `ActiveJobsServed` is of
the A2A surface with a journal that can be saved, because on MCP a failed approval leaves an active job behind (end
of section 3). `StopsCleanly` needs neither premise.

*Controller lease.* The invariant ties each phase to the lease and to the workers: whoever hosts
servers, stops, or has a worker not yet recorded holds the lease, and the journal is what it has in memory.

*Job clients.* A final event is sent in two steps with an `await` between them. `LockIsSenders` says
that whoever is between them holds the lifecycle lock, `SentOnce` that something final has been sent only
if it is marked or on its way, `SentTruly` and `RequestTrue` that what is said of a job is its outcome, which
does not change. `UnchangedIsSaidTruly` needs only types: a waiter reads the version and decides in one step.

*Runner.* `ExitCodeTruthful` needs to know what an execution has *seen*: `Knows` ties its step to the
manifest it has read or created, `Backed` says what manifest stands behind its exit code. That a manifest
is left (`LeavesManifest`) is proved of the executions outside `Troubled`, as it is checked.

*Control plane.* A handler writes back the copy it has read, however old. `CopySound` says what of it stays right: its
job has a record with the same inputs, and the status about to be written claims no more than the
manifest (`Intends`). `JobSound` ties a job's record to the answers about it, to its messages and to its manifest. Both
rest on three facts about steps: records keep their inputs (`RecordsStay`), manifests stay
(`Stable`), an execution keeps its job (`RunsStay`). The premise `ControlPlaneAssumption` says that "no record" is not a record and the bounds are naturals.

*Record files.* `Mutex` puts one process under the lock; `Buffers` says what the holder has read is what
the files still hold; `SeenAreSaved` and `SavedOnce` tie a listing in progress, which takes no lock, to the
files. `RemovedStayGone` and `RecordsAreFound` hold whatever fails; the second speaks of records as
long as no registry was misread.

*Deep research.* `ClientKnows` and `ResumeKnows` say what the two processes may rely on at each of their steps:
that the one interaction with a record is the client's, and that a resume goes on to remove the record
only when its outputs are written or there are none to come. `RecordNames` says that a running job whose
store is needed is known by its record, `CleanerKnows` that what a clean-up read earlier is no older than the
store it deletes. `ToldOfAll`: while no answer was lost, no interaction is unknown.

*Recovered outputs.* Artifacts are moved one by one, so `Stands` says of each artifact how it lies before
(`Before`), at (`During`) and after (`After`) its turn, on the way forward and on the way back. `OutputsFound` is the step
that turns: whatever failed, the roll-back finds every artifact in one of three states.

*Circuit breaker.* `CircuitInv` adds to `CountsConsecutive` what the probes of a half-open circuit are, and `TrialCounts`:
each success counted is of a call of the trial or of a caller that was out when it began and no longer is.

*Failover.* `InChain` keeps a thread's place inside the chain. `FirstDay` says what a thread `Remembers` until the
first midnight: refusals and calls lie behind it only where there is a mark or it is about to set one, and
it has passed over nothing but what is marked or has no key. `MarksStay` is what makes that survive the others' steps.
It is of an execution's own refusals and of marks set before it began: a thread that has selected a provider when another
marks it still calls it.

*Workspace lease.* Everything holds until a reclaim overtakes another (`~overtaken => Rest`): whose token is on disk
(`Holders`), that what is about to be reclaimed is of a dead process (`Judged`), what a release goes by (`Releasers`), and
that of two tasks of one process one is outside the calls (`OneCall`, `Workers`). Processes die and are born in it, with any
pids, and reads and unlinks are refused. Without `overtaken` the theorem is false: that is 5.2.

*Usage history.* `Mutex` puts one thread of one process between the locks; `Buffers` says what a thread is about to
write is the history as it is, plus its own records or the older file's; `Counted` that the records a
tracker takes for saved are in the history once and the rest are not, except while a save
stands between its replacement and its count; `RecordsDiffer` that no two trackers hold one record. Death
empties a tracker, which only makes the premises weaker.

*Research run.* `CitationsStable` needs to know where nothing has been numbered yet (`NothingGiven`): the filter
may drop sources only there. `Accepted` carries the quotas through the two pools, `Prefixes` the lists
given out; `Appended`, `Filtered` and `Enriched` say what the three changes of the list do to it. `GateInv` adds that a
document is shipped only at the end. `ReportInOrder` needs three things of a run that is still writing. `PartsWritten`:
the writers of parts that are done have ended, those of later parts have not begun, and the current part's that
have ended are in the queue of results once each, so that as many results as sections mean that no section is
missing (`AllEnded`, by the pigeonhole principle). `SharedContext`: what the writers of the part were given is the
report without this part. `NoSummaryYet`: nothing stands before the first section while sections are added. What a
list keeps of another is stated by the positions that are kept (`Choices`, `Picked`) and the order by
the positions in the plan (`Precedes`), since the provers cannot induct over the library's recursive `SelectSeq`.

*Strategy stage.* `OutcomeTruthful` needs `StrategyRecords`: a refresh that reached the provider is recorded as
completed or failed, never as skipped. `SkippedAtObservedCeiling` needs `StrategySpend`: whatever order the workers write the hook in, it never shows more
than the ledger and the refreshes come to (the mutant that adds to it instead breaks just that). `OverrunOneDocument` needs
`StrategySerial`: with one platform the spend a worker compares is the spend as it is.

*Scraping.* `SlotsHeld` counts the threads in a call. `FailuresHeld` counts the threads whose failure is not yet charged:
a counter plus these is at most what really failed, so a lost update only delays a skip. `AskedHeld` and
`NoneWanted` say what every saved value of the variable is. The pilot's parts need `OnePage`: then a
window is owed to the retry about to be made (`PilotHeld`), and no update of a counter is lost, so a
tier that worked has more attempts than failures (`CountersExact`).

*Batches.* A step of a run is one of four kinds: it opens a run (`Opens`), publishes (`Published`), writes a state (`Recorded`) or leaves all
runs alone (`Rests`). `RunsApart` keeps each process to a run that nobody vouches for, `StatesRead` says how far an
unspoilt run state is, which is why nothing in it is forgotten (`KeepsRecord`). `ReportsOwned` says that a report a
running process has not yet published is bound to by nobody; with `ReportHeld` (without `overlap` the batch's
report stands until it is bound, if it was written) it gives `BoundToOwn`: a run of the batch's request that is bound to a
report wrote it, unless it is `unwritten`, so what covers a report is true of it. `VouchedCovered` and `VouchedStands` are
`PaysOnce` over time: a report that was vouched for, or that a run vouched for is bound to, is covered, and no company that is
still planned has one. `RowsInTurn` says that the rows without a
result are those still to come and the failures in a row are the last results, so that a stopped batch has
accounted for every row; `RowAdvances` is the step.

The lemmas about the operators of `ResearchJob` and `JobStore` (what a merged snapshot, a new job, a
termination or a save yields) carry the data; each preservation proof then has one step per action.

*Only model-checked*: of `ResumeLease`, what `LeaseSound` says beyond
`ExclusiveUntilOvertaken`; and every liveness property
(`CancelTakesEffect`, `WaitsEnd`, `ClientsHear`, `QueueingSettles`, `ServiceGoesOn`, `EverythingGoes`): liveness under
fairness is outside what the prover does.

## 5. Findings

**5.1 An outcome is replaced** (`supervisor_overwrite`). `terminalize_prelaunch_job`
(`a2a/prelaunch.py:31`) decides by the job object its caller holds. Once a worker has reported, the store
holds another. An A2A start that is abandoned while the worker's first events are in the pipe goes:
the child is killed; the monitor reads the events, replaces the store's object, observes the exit and
commits the outcome; the handler finds its own object not terminal, fails it and writes it over
the committed record. `job_store.py:305` says "Terminal states are immutable".

**5.2 Two owners of one folder** (`lease_reclaimed`). Between reading a record whose process has ended
and unlinking the name (`core/workspace.py:340`), another process may publish its own lease under that
name; the unlink removes it and a second process claims the folder. `core/workspace.py:502`: "Hold exclusive
publication ownership for one company target."

**5.3 More windows than the budget** (`popup_budget`). A thread that saves `PRIMR_BROWSER_HEADED`
(`data/scraping/orchestrator.py:274`) while another's paid retry has it set shows a window of its own
without a unit, and restores the variable after the other has cleared it. `docs/CONFIG.md:207` calls the
budget "a single shared counter" for the run.

Observed while modelling, reproduced by the models at some time, and not kept as runs. The
properties above are stated so that they do not claim the opposite:

* `deploy/runner.py:769`: artifacts are uploaded before the manifest is tried for, so a redelivered
  execution replaces files that a committed manifest lists with their checksums (`storage.py:117`).
* `deploy/control_plane/api.py:682`: approval writes the record it read back as QUEUED after a
  cancellation was answered; `api.py:512`: two submissions both pass the count of active jobs.
* `mcp_server/job_store.py:864`: a waiter may miss a change that another waiter clears, and hears of it at the
  five-second poll only.
* `utils/circuit_breaker.py:266`: a success of a call made before the trial counts towards closing; `:558`: with a half-open limit below the success threshold the circuit never
  closes; line 683: `can_execute` does not apply the limit at all.
* `pipeline/model_breaker.py:312-368`: the table of marks is shared by threads without a lock (a scan
  may raise, a fresh mark may be deleted); across midnight an execution gives up with models untried.
* `a2a/executor.py:543`: a stream whose job was replaced in the store gets no final event; `:493`: a
  cancelled start is reported as failed; `lifecycle_events.py:53`: the first of two cancel requests to end
  lets progress through again; `job_process.py:603`: a canceller may be told "failed" of a cancelled job.
* `ai/deep_research.py:595`: the direct client deletes the store of a job that still runs; `:1937`: a
  creation whose answer was lost is repeated; `core/cli_recovery.py:629`: a record may name a store that
  is gone, and is then kept for good; `:151`: an interrupt between a rename and its note loses the
  earlier output.
* `ai/job_persistence.py:169`: a registry that cannot be read is replaced by one with the new job alone;
  `:109`: a torn receipt hides all others; `:258`: records are gone although the caller is told they are not.
* `core/workspace.py:335`: a lease of a dead process is refused while its pid is in use again, even by the process that
  claims, although line 191 speaks of "a verified live process"; `:428`: a lease whose record could not be read at its release
  is not remembered, and its own process is refused as active. `RefusedForCause` and `NothingLeft` name both.
* `utils/run_budget.py:170`: a worker that observed less may overwrite the spend another observed;
  `core/vendor_research.py:298`: a fresh copy that is reused counts as a failed vendor;
  `core/fast_run_strategy.py:174`: a light refresh is charged the price of a full one.
* `core/cli_batch_runtime.py:600`: without `--platform` no completed run of a detected platform matches;
  `:728`: a report is hashed after the company's lease was released; `core/run_state_io.py:93`: a run state
  that cannot be read is replaced.
* `core/research_agent.py:2056` and `core/fast_run_summary.py:106`: a resumed run whose report is incomplete replaces
  the Markdown but leaves a Word document an earlier run of the day has made; and a run whose Markdown cannot be
  written is completed by the one an earlier run left, and a batch binds it to that text and leaves it alone from then on
  (`cli_batch_runtime.py:137`).
* `data/scraping/models.py:149`: a tier with a success may be skipped after all when its counter lost an
  update; two threads may both retry one tier, as check and mark are two steps.

Of liveness only what the runs name is claimed. That a stale lease is reclaimed in the end, and that the
strategy stage and batches terminate, was observed during development and is not a run.
