# Specifications of agent-notes

agent-notes is a PostgreSQL-backed coordination store for coding agents: work
items kept as an operation log with a cache, a review gate, leases, delegated
reviews, a mailbox with wakes, a dispatcher that runs requests, memories in
tiers, and an installer that wires all of it into the agents' harnesses. Every
process (CLI, hook, dispatcher, trigger loop) is a client of the same database,
or of files that a user also edits; nothing else is shared. What is hard in it is
therefore what several short transactions do to the same rows, what a process
that dies between two of them leaves behind, and what a log and its cache, or a
manifest and the disk, say about each other.

## Inventory

| Part | State | Operations | Hard behaviour | What makes it correct |
|---|---|---|---|---|
| Lifecycle (`core/lifecycle.py`) | constants | `transition_for`, `rank` | aliases of legacy states | only workflow moves; the lattice never completes work silently |
| Kernel (`core/kernel.py`) | `op_log` | `commit_op`, fold | ops of several types on one item, seals | cache = fold of the log |
| Verifier (`core/verifier.py`) | none (reads the log) | status walk, completion check | its own reconstruction of the status | what it calls clean was reviewed |
| Work-item engine (`core/work_item/_native.py`, `_seal.py`) | `work_items` row | file, update, close, force-close, attest, review, claim, release, heartbeat, delete | concurrent commands, regista-era rows without a chain | a command changes only what it wrote an op for |
| Independence gate (`_independence.py`) | none (reads the log) | `check`, implementers, resets | several routes out of review, force, bounces, attempts | no approval by one of the authors without an acknowledgement |
| Leases (schema 702) | `work_item_leases` | claim, heartbeat, release, sweep | `now()` older than the lock, sweep against heartbeat | a running lease is not taken over |
| Delegated review (`_delegated_review.py`, `_review_journal.py`) | `review_delegation_attempts` | plan, run, validate, apply | crash between steps, retry under the same key, stale reviews | an attempt is reviewed once, applied once, and only to what was reviewed |
| Mailbox (`core/messaging.py`, `hooks/`, `dispatcher/wake.py`) | `agent_messages` | send, claim, release, await, prune, wake | concurrent readers, a claim held while the answer is written | a message is shown or expires, and only once without a fault |
| Sessions (`core/messaging.py`, `hooks/`) | `agent_sessions` | register, heartbeat, policy, adopt, reap | reads of a hook against writes of another process | policy and project are what was last asked for |
| Dispatcher (`dispatcher/service.py`, `jobs.py`) | jobs in memory, advisory lock | claim, run, answer, recover, drain | failover while jobs run, lost connection | one answer to a request, eventually one, and a true one |
| Curation (`core/memory_curation.py`) | notices | judge, post, retire | a run that dies, two runs at once | findings that recur are noticed again |
| Memory (`core/memory_model.py`, `cli/memory.py`) | `memories` | add with its gate, supersede, update, delete, recall | the gate looks before the transaction that writes | one live row per name; duplicates are declared; no lost update |
| Cross-project index (`core/cross_project.py`) | `cross_project_ops`, its cache | export, ingest, rebuild, ready view | late, repeated, reordered, cut exports; open transactions | a copy shows a state its item really had, and never goes back |
| Trigger loop (`trigger_loop.py`, `_cross_project.py`) | links, events, buffer | request, wait, link, unlink, close, flush | loop dies, channels down or not set, one link command in three transactions | who depends on a closed item and has a channel is woken, by one POST |
| Breadcrumbs (`core/bc_files.py`, `git_reconcile.py`) | files, vocabulary | sync, prune, reconcile | people move the items between read and write | an import does not revive what was dismissed |
| Registry (`cli/__init__.py`, `core/checkouts.py`) | `projects`, `project_checkouts` | init, checkout add / scan, heal | commands that look and write later, spellings of a path | a directory changes hands only behind a command's back |
| Migrations (`scripts/migrate.py`, `schema/*.sql`) | schema, table of applied files | `--all`, `--file` | death between file and record, swallowed errors, upgrades | success means complete; nothing gets stuck; newest view stands |
| Harness installer (`cli/harness.py`) | manifest, files, settings | install, upgrade, uninstall | user edits and deaths at any moment | the user's stays, nothing leaks, installed is installed |
| The rest | | search, embeddings, event bridge, config, rendering, Paseo client | | see "What is not modelled" |

The parts meet in the database: commands call the engine, the engine appends to
the log and folds it into the row, the gate and the verifier read the log,
triggers notify the mailbox's waiters and the dispatcher, and the dispatcher
starts processes that run commands again.

## How the modules fit together

```
Lifecycle ─┬─ OpLog ─┬─ WorkItem ─── ReviewDelegation ── ReviewDelegationProofs
           │         │     └──────── WorkItemProofs ─────────┘
           │         ├─ OpLogProofs ── WorkItemProofs, CrossProjectProofs
           │         └─ Federation ──┐
           │  Leases ── WorkItem     ├─ CrossProjectProofs
           │         TriggerLoop ────┘
           └─ Breadcrumbs ─┐
         Migrations ───────┤
         Registry ─────────┼─ SetupProofs
         Harness ──────────┘
Requests ── DispatcherJobs ── DispatcherJobsProofs
Mailbox, Sessions, Curation ── MessagingProofs
Memory ── MemoryProofs

abstract specifications:   Leases (of WorkItem), Requests (of DispatcherJobs),
                           NameTable (of Memory), LaggingCopy (of Federation)
```

A line is EXTENDS. Each composition adds the state of the lower parts to its own
and runs their operations unchanged: `WorkItem` puts the lease beside the log and
the row, `ReviewDelegation` puts the journal and the jobs beside the item. The
`MC` modules give the constants small values for TLC. `Schema` is the migration
files themselves, and only TLC reads it: `Migrations` and its proofs take any
list of files that satisfies their assumptions, which TLC evaluates on this one.

Four modules are abstract specifications that a detailed one is shown to
implement, each by a run and by a theorem. `Leases` says what may happen to a
lease and nothing about items; `Requests` what the mailbox promises somebody who
sends a request; there the detailed module extends the abstract one and shares
its variables. `NameTable` is a table from slots to the row that answers to the
name, and `LaggingCopy` a value that shows some earlier state of another and
never goes back; they are instantiated WITH a mapping from the rows of
`memories`, and from the logs, files and caches of two databases.

Four conventions hold in all modules.

- A transaction whose reads and writes happen under a row lock is one step.
  Where code reads before the lock, or lets go of it, the step is split there. That
  the lock is taken first is read from the code: no property would notice a
  `lock_row` that is missing.
- PostgreSQL's `now()` is the start of the transaction, not of the statement.
- A variable marked "history" records what happened for a property to speak of;
  no guard reads it.
- An operator whose name or comment says what it gets wrong (`SealOpsStale`,
  `ClaimSteals`, `KeepOrphan`'s `ForgetOrphan`, ...) is no part of any
  specification. It is the definition that follows it with one plausible mistake,
  kept to show that the property named for it in `PROJECT.json` notices.

## The modules and the code

`PROJECT.json` ("map") gives the source lines of every definition. The tables name
the actions.

### Work items: `Lifecycle`, `OpLog`, `Leases`, `WorkItem`

`Lifecycle` is the vocabulary of `core/lifecycle.py`: states, aliases of the
legacy ones, the workflow's transitions. `OpLog` is `core/kernel.py`'s fold and
`core/verifier.py`'s walk, both as functions of a set of ops. An op keeps its
lamport, its id, author and lineage, status, content and diagnostic keys. Title,
body, kind and severity are one content value, because `set_field` overwrites each
of them in the same way; diagnostic keys are the set of those present, because it
merges them. `WorkItem` is one row of `work_items` (`row`), its chain in `op_log`
(`log`), the lamport counter (`seq`) and its lease. One item is enough: no command
of the engine reads or writes two.

| Code (`_native.py` unless named) | Action |
|---|---|
| the first statement of a command's transaction, before `lock_row` | `Start1` |
| `file_work_item`, `update_work_item` | `FileWorkItem`, `UpdateWorkItem` |
| `close_work_item`, `close_work_item_force` | `CloseWorkItem`, `CloseWorkItemForce` |
| `attest_gate_waiver`, `review_transition` | `AttestGateWaiver`, `ReviewTransition` |
| `claim_work_item`, `release_work_item`, `heartbeat_work_item`, `delete_work_item` | `Claim`, `Release`, `Heartbeat`, `DeleteWorkItem` |
| `sweep_expired_leases` (schema 702), run by `work-item requeue-expired` | `SweepExpired` |
| any refusal or failure (rollback) | `Refused` |
| the commands of `cli/work_items.py`, with the arguments each lets through | `FileCommand` to `RequeueCommand`, the disjuncts of `ItemCommand` |
| `verify_cache`, `verify_gate_integrity` (`verifier.py`) | `CacheVerified`, `GateVerified`, which the properties speak of |
| `_seal.py` `seal` | `SealOps`, part of update, close, review, claim and release |
| `_independence.py` `check` | `Check`, part of every gated status change |

The item starts unfiled, or as one of three shapes the regista era left behind: a
row without a chain, a row whose chain stopped early, a row whose chain ends in a
tombstone.

### Delegated review: `ReviewDelegation`

`WorkItem` with the journal `review_delegation_attempts` (`attempt`, by idempotency
key: entity, revisions, model and digest of the prompt) and the memory of the jobs
(`job`). A job reads the item, plans its attempt, marks it running, runs the
reviewer with no transaction open, and records the result; each is a transaction
of its own, with commands on the item, other jobs and the death of the process in
between. A reply's code is kept as far as it says how far the job came: refused before
a plan, in conflict, failed in review, failed otherwise, or with a verdict.

| Code | Action |
|---|---|
| `_work_item_request` (`dispatcher/review_job.py`), `prepare_review` | `ReadItem`, `PrepareRefuses` |
| `plan_attempt`, `mark_running` (`_review_journal.py`) | `PlanAttempt`, `MarkRunning` |
| the rest of `evaluate_and_record`: a verdict, an expected failure, any other error | `ReviewSucceeds`, `ReviewFails`, `JobRaises` |
| what a job answers before it has planned an attempt: a bad payload, no item, no capture, or an error | `JobRefuses` |
| the end of the process | `JobDies` |
| `review_transition --attempt`, `attempt_reviewer`, `consume_attempt` | `ApplyAttempt` |

### Requests: `Requests`, `DispatcherJobs`

`DispatcherJobs` is any number of processes that run as dispatcher of one VM. In
the database: `request` and `replies`, `rowLock` (FOR UPDATE on a request while it is
answered), `vmLock` (the advisory lock, which lives and dies with the LISTEN
connection) and `expired`. In memory: the place of each main thread (`pc`), its jobs
(`job`, `active`, `unposted`), its flags (`dirty`, `stopping`), the snapshot
`answer_unreplied` goes by (`busy`) and what it has still to post (`todo`).

| Code | Action |
|---|---|
| `run`, `_connect` (which takes the VM lock) | `Start`, `Connect`, `Reconnect` |
| `tick`, the sweep, the wait for notifications | `Tick`, `Sweep`, `Listen`, `Notice` |
| `answer_unreplied` | `Snapshot`, `AnswerUnreplied`, `UnrepliedPosted`, `UnrepliedFailed`, `Orphaned`, `AnsweredAll` |
| `poll_requests` | `PollRequests` |
| `_run_job`, `execute_request`, `post_reply`, `_job_done` | `FinishJob`, `PostReply`, `ReplyPosted`, `ReplyFailed`, `KeepReply`, `LeaveActive`, `JobDone` |
| `answer_request` (`core/messaging.py`) | `LockRequest`, then `CommitAnswer` or `FailAnswer` |
| SIGTERM and `_drain` | `Sigterm`, `Drain`, `Exit` |
| the world | `Submit`, `Expire`, `Prune`, `DropConnection`, `QueryFails`, `Crash` |

Only statements that use the LISTEN connection notice that it is gone, so a
dispatcher whose connection was dropped goes on running its jobs while another
one takes the lock, and both answer. What a handler computes is a verdict after
any time.

### Mailbox and wakes, sessions, curation: `Mailbox`, `Sessions`, `Curation`

`Mailbox` has the rows of `agent_messages` (`box`, `claimed`, `expired`, `holder` for the
row lock), the processes that read them (`reader`), the loop guard (`count`, the lock on
it `counting`, and the turns it really let pass, `woken`), what Paseo says of a session
(`busy`), the dispatcher's wake (`wake`, `pending`, `settled`), and how often each message
was shown (`shown`). A reader keeps its transaction open until its output is
written, and other readers skip what it locked; the dispatcher commits its claim
first and releases it when the send fails.

| Code | Action |
|---|---|
| `send_message`, expiry, `prune` | `Send`, `Expire`, `Prune` |
| `deliver`, `respond`, `finish_held` (`hooks/common.py`), `msg inbox --claim`, `msg await` | `PromptHook`, `CmdMsgInbox` or `CmdMsgAwait`, then `Write`, `CommitHeld` |
| `wake_allowed`, `claim_wake` of the Stop hook, `next_wakeable`, `bump_auto_continue` | `StopLook`, `StopPass`, `StopClaim`, `StopCount`, `Write`, `CommitHeld` |
| a kill or an error anywhere in those | `FailRead` |
| `note_human_prompt` (resets the guard) | `HumanPrompt` |
| `schedule_wake`, `process_wakes`, `Waker.wake`, `claim_message`, `release_claims` | `ScheduleWake`, `WakeLook`, `WakeInspect`, `WakeClaim`, `WakeMiss`, `WakeSkipped`, `WakeSend`, `WakeSendFails`, `WakeRelease`, `WakeCount`, `WakeBreaks` |

`Sessions` is `agent_sessions` and the processes that read it before they write it:
`HookStart` and `HookBeat` (the hooks), `CommandAs` and `CommandHere` (commands that act
for a session named or found by directory, be it `MsgCommand` or `CmdSessionPolicy`),
`WakeLooks` and `Adopt` (the
dispatcher's `set_paseo`), `Register`, `SetPolicy`, `Ages`, `Reap`. `Curation` is
`post_curation_notices`: `Report`, `Judge`, `List`, `Post`, `Retire` for one project at a
time, `Sweep` and `RetireStale` for the projects whose findings are gone, and `RunDies`.

### Memory: `Memory`, `NameTable`

The rows of one workspace in tiers (repo, VM, global), and the commands of several
writers: `AddStart`, `Revision`, `Gate`, `Select`, `Insert` are the reads and the
transaction of `add` in the order of the code (`cmd_mem_add`, `add_memory`), with the
writer's answer to the gate (`Gate` looks for duplicates and for the `--related` names
at once, the code in two transactions); `UpdateLock`, `MarkLock`, `EditWrite` are `update_memory` and
`mark_gaps_filed`; `Delete`, `Rollback`, `Abort`. `AddCommand`, `UpdateCommand` and `DeleteCommand`
are the CLI's. `Winner` is what `cmd_mem_recall` shows for a name, whatever each tier's
search found, and `SearchMemoryComposed` what `search_memory_composed` ranks: the most
specific row of each name.

### Other databases: `Federation`, `LaggingCopy`, `TriggerLoop`

`Federation` has the log of another project and the transactions still open on it,
its exports (files), and this database's `cross_project_ops` and
`cross_project_work_items`: `Command`, `File`, `Commit`, `Rollback`, `Export`, `Ingest`, `Rebuild`.
`TriggerLoop` has one item that others depend on, the links to it (two tables), its
events, and the loop: `LinkEdge`, `LinkMirror`, `LinkEvent` (the transactions of
`add_cross_project_link`), `LinkDies`, `LinkAdd` and `Unlink` (`link add`, `link remove`),
`Request`, `Wait`, `Close`, `Update`, and
`Listen`, `Take`, `Flush`, `Arrives`, `Dropped`, `Dies` of the loop. `Target` is a
project's `wake_channel` or the loop's default, a constant: `register_project` and
`update_project_registry` can set the column, but no command has them do it. `Route`
passes over whoever has no target, as the code does.

### Setting up: `Schema`, `Migrations`, `Breadcrumbs`, `Registry`, `Harness`

`Schema` lists each migration file as what it needs, creates, drops and (re)defines.
`Migrations` runs any such list: `Begin`, `IsApplied`, `RunFile`, `RunFails`,
`RecordApplied`, `Finish`, `Crash` of a migrator, and `RunSingle` (`--file`).

`Breadcrumbs` has the items and what the files and the commits say of them: `Sync`,
`Import`, `PruneOne`, `EndSync` (`bc_files.py`, `breadcrumb sync`), `Reconcile`, `Look`,
`CloseOne` (`git_reconcile.py`), and for everybody else `FileByhand`, `UpdateByhand`,
`DeleteByhand` (the commands of `cli/breadcrumbs.py`) and `CommitLands`.

`Registry` has `projects.repo_root` and each machine's `project_checkouts`: `InitRepo`,
`RegisterProject`, `AddCheckout`, `Scan`, `Resolve`, `Heal`, `Match`, `Upsert`, `Dies`.
`MatchKey` says which spellings of a directory a machine takes for one. `AddCheckout`
takes any path for any machine, as the command does.

`Harness` is one harness of one user: the files, hook groups, variables and plugin on
disk, the manifest, and the run in progress with what it holds (the manifest it
read, the settings it loaded, the files left to do). Install: `InstallStart`,
`InstallSkill`, `InstallAgent`, `KeepOrphan`, `WireBlock`, `LoadSettings`, `SaveClaude` /
`SaveOpencode` / `SaveHooks`, `InstallPlugin`, `WirePlugin`, `WriteManifest`. Uninstall:
`UninstallStart`, `UninstallLoad`, `Unwire...`, `RemoveBlock`, `UnregisterPlugin`,
`RemovePlugin`, `RemoveFile`, `UninstallManifest`. `BreaksOff` is death or an exception
between any two; `User...` is the user; `Upgrade` another release. A file that is read,
changed and written back is one step, and `WireBlock` makes one of two: hermes' `.env` is
rewritten to retire variables (`harness.py:1414`) and again to wire them (`:1257`), with
neither a death nor an edit of the user in between here.

## What the runs show

There are twelve runs: nine pass, three end with a counterexample that a
document or test contradicts. Four passing runs join parts that share no state
(`setup`, `database`, `messaging`, `delivery`): each behaviour moves one part while
the others stay where they start, so that such a run explores the sum of the
parts' states and not their product. Nothing is lost, because no action of one
part reads a variable of another.

**gate** (`ApproverIndependent`, `CleanMeansReviewed`). Two agents of different
vendors and a human, no force. The independence check looks at a window of the log
that resets move; `ApproverIndependent` says what that is for, in terms of the log
alone: whoever approved without an acknowledgement did none of the work since the
last bounce, by any of the routes out of review (`review`, `update`, `close`) and by
aliases of a status. `CleanMeansReviewed` relates the verifier to the gate: what the
degraded-completion detector lets pass as complete really was passed and accepted
with evidence after its last bounce. Six ops are the shortest log in which an item
is filed, submitted, bounced, submitted again, passed and accepted.

**item** (`LeaseMatchesLog`, `NoUngatedExit`, `NoSilentRevert`, `StaysInStep`, `LeaseSpec`,
`LiveLeaseKept`). Every command, forced or not, by an agent of a known vendor and one
that reports no model, over all three regista-era shapes of a claimed row and of one in
review, with leases of one and a clock of two instants (enough for a lease to expire
and for a `now()` to be old). A command changes in the row what it wrote an op for;
folding an incomplete chain never takes the row back (legacy rows have another
content than the chain's create and a diagnostic key it lacks, so a revert of any
field shows); once the log reproduces the row, every command keeps it so. A command
that waited for the row lock compares the lease with a `now()` of before it waited,
and never takes over a lease that runs. Four ops let a legacy row be sealed and
then moved into and out of review.

**review** (`OneReviewer`, `AppliedAsReviewed`, `ReviewerDidNoWork`, `ReplyMatchesJournal`,
`AppliedOnce`). One agent with its own vendor among the models it can ask and
another vendor, two contents with different prompts, two interchangeable jobs. Five
lamports hold a create, a submission, a bounce, a new submission and one pass with an
attempt, planned before the bounce or after it; or a create, a submission, a pass and an
edit or a bounce that comes after it. Of two jobs on one attempt one runs the reviewer;
what an attempt approves is what its reviewer was shown; the model behind an
approval did none of the work since the last bounce; the requester is told what the
journal says; an attempt is used once; and one that is recorded as running is in the
hands of a job, unless that job died or raised.

**disp** (`NeverInterruptsItself`, `VerdictNotLost`, `PromiseSpec`, `EventuallyAnswered`). Two
processes, two requests of which one may expire, one slot, one attempt at a post.
Two processes and one request are the smallest instance in which a failover happens
while the job runs; two requests compete for the slot. The action constraint
`FewUpsets` allows two upsets (a fault, or the expiry) of any kind at any moment while
there is one request, and one when there are two; everything that follows an upset is
explored. The safety properties are proved without any such bound.

**memory** (`DuplicatesDeclared`, `KeysKept`, `RecallMostSpecific`, `ImplementsNameTable`).
Two writers, two names, two topics, two tiers, three rows, one of which is edited in
place, and one attribute that both may set. `MCAsks` leaves out adds that ask for less than another does: answers to the
gate in the last tier about rows above it, and reflections in the last tier.
A recall shows for a name what a composed search shows.
The gate reads before the transaction that inserts, so another writer's fact may
slip past; `excused` names those pairs and no others.

**setup** (`TheirsStand`, `NothingLeaks`, `InstalledMeansInstalled`, `MovedUnseen`). The five
harnesses with a skill, an agent, a hook and two variables, two releases of which the
second changes two texts, drops the agent and retires a variable, and an edit by
the user (two for codex, whose runs are short) at any moment of a run; runs die
between any two writes, any number of times. And two projects on two machines, one
of which spells paths in two ways, a repository inside a directory, two commands at
once, three in all: one to register, one that looked before, one that writes after.

**database** (`SuccessMeansAllRan`, `ViewsCurrent`, `NeverStuck`, `CompletedBeforeReady`,
`DismissedStays`, `ImplementsLaggingCopy`). The schema's own files, by two migrators,
from the release that ended with the search view to the present one, with one upset
(a swallowed error, a file run by hand, a run beside a run). Two syncs and
reconciles over a file that says new and one that says resolved. Two items of
another project, four ops, two exports of any part.

**messaging** (`ClaimMeansShown`, `OnceWithoutFault`, `OverrunBounded`, `PolicyFollows`,
`RecurrenceIsPosted`, `MovedInFull`). A prompt hook, a Stop hook and the dispatcher
race for three messages of one session, and of what the dispatcher claimed each fault
leaves at most one message unshown; a limit of two leaves one for another
reader, and a cap of one is reached. A session that two projects' directories and
two Paseo agents compete for: it changes its project by a session start, or by a
heartbeat that found no row and located the session in full; heartbeats that knew it,
commands and wakes never move it, however late they write. Two curation runs over one project with two kinds of
findings and three notices: a finding, after a clean run the same finding again, and
one notice from the run that overlaps.

**delivery** (`OnePostPerClosing`, `DependentsWoken`, `EventuallyShown`). Everything that
must arrive in the end: two sessions, one with hooks and one that awaits, and two
messages, one addressed and one to the inbox both match; one item with two dependents
in other projects, two events, one death of the loop. One dependent has a wake channel
of its own and is linked by `wi link-cross`, by `link add` or by both; the other is
linked by `link add` and has none, so that it is passed over. There is no default
target. `Crossing` bounds for whom `link-cross` and `wait` are called.

The runs end where their bounds do, so `memory`, `setup`, `database` and `messaging`
do not look for deadlock: a bounded number of commands, ops, rows or notices runs
out. The others do.

*Fairness.* Only `disp` and `delivery` assume any.

- A dispatcher that ended is started again: systemd does so when it failed
  (`Restart=on-failure`, `deploy/agent-notes-dispatch.service:18`), whoever stopped it
  otherwise. Main thread and workers are scheduled (weak fairness of `MainStep`,
  `JobStep`); a handler has a timeout. A sweep comes due every `sweep_interval`, however
  often the loop is busy with something else (strong fairness of `Sweep`). Nothing is
  assumed of notifications. Faults are bounded, so "eventually" is after the last.
- `ReaderStep` of each reader: sessions keep prompting or waiting, and a process that
  was not killed goes on. `WakeStep`: the dispatcher ends the wake it began. Nobody is
  obliged to schedule a wake.
- The trigger loop, while it is up, takes what it was notified of, flushes, and each
  POST ends one way or the other. Nothing restarts it (there is no unit for it), so a
  wake may be lost to its death. `DependentsWoken` says of dependents that have a
  target, by either table: a recorded fault loses a wake, the item's deletion or the
  removal of the link makes it void, nothing else does. It says nothing of dependents
  without a target, who are skipped in silence.

In `delivery` a part that stays at its start owes nothing: none of its fair actions
is enabled there.

## What is proved

Every safety invariant and action property of the passing runs is a theorem, for
every value of the constants that satisfies the modules' named assumptions; so are
the four refinements. `CleanMeansReviewed` is about a world without force, and its
theorems assume `TRUE \notin Forces`, as its run does; none of the others narrows a
constant.

The assumptions are few: that marker values are not data; that durations are
positive; in `Mailbox`, that the readers are finitely many (their number bounds the
overrun); in `Registry`, that `MatchKey` and `Under` fit together as a path's parts do
(`TreeAssumption`, in the proofs' lemmas); in `Harness`, that files, hooks and
variables have different names and that no release ships what a user writes; in
`Migrations`, that a file's needs are created before it and not dropped between
(`NeedsAssumption`). TLC evaluates all of them on the runs' instances, and
`NeedsAssumption` on the schema's own files.

| Proofs | Theorems | Argument |
|---|---|---|
| `WorkItemProofs` | `LeaseTypeCorrect`, `LeaseNowIsPast`, `RunningLeaseKept` | `now()` is never ahead of the clock, so a lease that looks expired to a transaction has expired |
| | `ItemImplementsLease`, `ItemLeaseKept`, `LeaseIsLogged` | each command changes the lease as `Leases` allows |
| | `ApprovalsIndependent` | `LogOK`, and `StepAppends`: every command leaves the log alone or appends ops above every lamport in it, signed by its process, approving only what `Check` returned for the log before it |
| | `HistoryIsAppended` | `StepAppends` again: no command edits history or files an op into its past |
| | `RowStaysInStep`, `NothingRevertsSilently`, `ReviewExitsAreGated` | `ItemOK`, and the fold of a log with new ops on top (below) |
| | `CleanIsReviewed` | `ReviewOK`: the row follows the verifier's walk (below) |
| `ReviewDelegationProofs` | `ReviewedOnce`, `ReplyIsTrue`, `UsedOnce` | `JournalInvariant`: a job that launched took the row out of "planned", jobs that launched have different keys, a reply agrees with the row, a row names an op only when spent; for `ReviewedOnce` also `Manned`: a row is marked running by the job that launches, and another job's step leaves it to that job |
| | `AppliedWhatWasReviewed`, `ReviewerIsIndependent` | `SeenInvariant`: what a job remembers of the item stands as long as the revision it read does, so a row usable at the gate still shows the prompt it was planned for |
| | `DelegationKeepsRow`, `DelegationKeepsLease`, `DelegatedIsReviewed` | `ItemOrVerdict`: a step of the composition is one of the item's, or a verdict with evidence, about which the item's lemmas say the same |
| | `GateCoversAll`, `DelegationKeepsHistory` | an op appended above the log changes nothing of who worked before an older one, so an approval once true stays true; those without an attempt are the item's (`OthersStand`), those with one are `ReviewerIsIndependent`'s |
| `DispatcherJobsProofs` | `DispatcherTypeCorrect`, `OneReplyEver`, `DispatcherKeepsPromise` | a transaction that answers finds its row claimed and unanswered until it commits; what is in a dispatcher's hands was claimed |
| | `NeverInterruptsOwnJob`, `VerdictsAreKept` | `Own`: a job is active until its reply is posted or kept, and the snapshot a recovery goes by contains all active jobs |
| | `NoSlotLeaks`, `GoneLeavesAll` | `Held`: what is active is a running job's, and what ended let go of locks, slots and replies; `FewJobs`: a slot is taken only below `max_jobs` |
| `MessagingProofs` | `MailboxTypeCorrect`, `ClaimedIsShown`, `ShownOnce` | a locked row is unclaimed; what a reader took is locked by it; without a fault what was shown is claimed or about to be, by its reader; for `ClaimedIsShown` also `Left`: claims that nobody has shown, has in hand or may give back, by cardinality at most the faults |
| | `OverrunIsBounded` | `Loops`: turns counted, about to be, or lost to a fault, plus hooks past the cap, by cardinality of the hooks at each place |
| | `PolicyStands`, `FullMoves`, `RecurrenceStands` | what a caller read before its write is still allowed when it writes |
| `MemoryProofs` | `MemoryIsNameTable`, `NamesUnique`, `UpdatesKeepKeys` | one active row per slot; an edit that read a row holds its lock |
| | `DuplicatesAreDeclared`, `RecallsMostSpecific` | `Gated`: whoever is past the gate has an answer that is true of the table at present but for excused pairs |
| `CrossProjectProofs` | `CopiesLag`, `ReadyMeansCompleted` | `FedInv`: ops of an item commit in the order of their lamports, so each export, index and cache holds a prefix of its log, whose fold is a row it has had |
| | `OnePostStands` | both wakes of a closing enter the buffer in one step, and no event is taken twice |
| | `OwedIsHandedOn` | each step of the loop moves what a dependent with a target is owed on, from queue to buffer to post, or records what it dropped |
| `SetupProofs` | `MigrationsTypeCorrect`, `SuccessIsComplete`, `NewestVersionStands`, `NeverStuckStands` | what a migrator passed has run; without an upset, files run in order but for the untracked ones, and these are the same in every pass |
| | `DismissedItemStays`, `MovesAreUnseen` | what a command holds is what it read; a row met by a command stays unless another command was there |
| | `UsersFilesStand`, `NothingIsLeaked`, `InstalledStands` | the installer (below) |

**The fold.** `OpLog`'s fold is a recursive function over lamports. An induction over
it cannot be given to the provers as such, as the library's induction theorems take
an operator. `OpLogProofs` goes another way: every nonempty set of naturals has a
least element (`NatMin`, from the well-foundedness of `<`), so two folds that differ
somewhere differ first at some lamport, and there one step of the definition
refutes it. From this: a fold depends only on the ops at or below its lamport,
and ops above a log change the fold by themselves only.

**Reviewed completions.** `CleanMeansReviewed` relates two readings of the log: the
verifier's, which walks the statuses and never sees the row, and the gate's, which goes
by the row. `OpLogProofs` shows by the same argument that the walk is where the last
create or status op left it (`WalkIsSeen`), and that a transition is one status op
(`TransitionIsMove`). `ReviewOK` then says how the readings meet. Over the log
(`ReviewLog`): the create comes before whatever moves the item; an op that moves it to
`in_human_review` has its evidence, and so has one that leaves a review state upward in
the walk; a bounce stands where the walk is in progress. Over the row (`ReviewRow`): the
row has the status of the last move, unless the log has not moved since an open
create, as a regista-era log has not; a row ahead of its log is of that kind. That
exception is why a seal that writes a stub, or an attestation that folds an old log back
over the row, does no harm: nothing is gated from open. `Sealed` is what all sealing
commands have in common, so that the step is proved once (`SealedReviewed`). TLC
checked each part on `gate`'s instance, and on one with all commands and regista-era rows
as deep as it got in five minutes.

**The installer.** Four invariants are inductive together with the types.
`Order` says which steps come after which and what a run holds there (the manifest it
read is the one on disk; an undisturbed copy of the settings equals them).
`TheirsKept` says that what the user keeps stands, and that whatever is on record under
that name, in any manifest at hand, is another text: hence the hash never matches
and the file is never taken for the tool's. `Found` says that what the tool put down
is on record, or in the run's hands to be recorded. `SoFar` says what an undisturbed
run has done by each step. TLC checked all four on `setup`'s instance before they were
proved. None of them is weaker than the property it is for, and each property
follows from one of them without the others.

**What only TLC checks.** Liveness under fairness (`EventuallyAnswered`,
`EventuallyShown`, `DependentsWoken`), which is beyond the prover; and that the
instances' assumptions hold. What liveness rests on is proved where it is a matter of
safety: a message claimed and unshown is a fault's (`ClaimedIsShown`), news that a dependent
with a target is owed is never dropped without a fault (`OwedIsHandedOn`), a verdict worked out is kept
(`VerdictsAreKept`), a slot is never leaked (`NoSlotLeaks`). That the steps which remain are
taken in the end is what TLC adds.

## Where code and documentation differ

Three runs are meant to fail; each checks a sentence of the repository.

- **bounce_from_review**. `review reject` and `review request-changes` are accepted on
  an item that is open, deferred or blocked, because `review_transition`
  (`_native.py:590`) asks only whether the resulting move is one of the workflow's.
  The gate counts it as a bounce and forgets the implementers, who can then pass
  their own work as independent. `_independence.py:5` and `cli/work_items.py:626`
  speak of a bounce out of review.
- **import_reopens**. `bc_files.py:197` leaves alone what is closed or deferred, and
  `close` completes an item as done. A file that still says new reopens it;
  `tests/test_bc_files.py:106` is named `test_sync_does_not_reopen_closed_item`.
- **prune_listed**. A file whose import is refused does not count as seen
  (`bc_files.py:203`), and `--prune` deletes its item; the docstring (`:121`) says it
  deletes what is not present in the files.

Others met while modelling, which no run is about.

*Work items and reviews.*
- `attest_gate_waiver` folds without sealing first (`_native.py:475`, `519`) and takes a
  regista-era row back to where its chain stopped; `tests/test_native_seal.py:4` says
  that every mutation seals. `NoSilentRevert` excepts it.
- `update` compares diagnostic keys with the row's while the fold merges them
  (`_native.py:194`): importing a subset again writes one more op each time.
- A refusal tells the user to request a fresh review (`_independence.py:302`). If the
  prompt, the revision and the model are those of the stale attempt, the new request
  has the same key and is refused as a conflict.
- An attempt whose job died while it was `running`, or raised an error other than the
  expected ones, stays `running`, and later requests with its key conflict.
- `update --append-body` reads the body in one transaction and writes it with the addition
  in another (`cli/work_items.py:112`, `cli/breadcrumbs.py:121`): of two appends at once
  one is lost.
- `reconcile_entity` reads the log before it locks the row (`kernel.py:553`); only tests
  call it.

*Messages, wakes, sessions.*
- After a failed send `release_claims` is tried once (`wake.py:177`). If it fails too, or
  the process dies first, the row stays claimed by the dispatcher and no reader is
  ever shown the message; `docs/dispatcher.md:73` promises it is released.
- `plans/025:416` reads as if the cap on automatic turns were exact. The dispatcher and
  the Stop hook check it and count later (`wake.py:144`, `180`); `OverrunBounded` is the
  bound that holds.
- A claimed request that expires while no dispatcher runs gets no "interrupted" reply
  (`service.py:439`); `docs/dispatcher.md:91` mentions no exception.
- A reaped session loses its explicit policy and its distrust (`messaging.py:330`, `406`).
  A heartbeat moves a known session's directory and not its project; one that found no
  row (`hooks/common.py:351`) locates the session in full and overwrites, so if a session
  start elsewhere registered the row in between, the heartbeat moves it back. A command found by
  directory registers its own agent on another's session; commands in a dead session's
  directory keep it alive; `set_paseo` may overwrite a newer agent.

*Cross-project.*
- "Wake each blocked dependent project" (`trigger_loop.py:13`): one whose project has no
  `wake_channel` is skipped without a word when there is no default target (`:209`,
  `:246`), and the same holds of requests and links (`:110`, `:145`). The column is
  NULL unless it is set by hand. `link add` emits no event.
- No closing in another database wakes anyone. `update --status done` and a review's
  accept emit `item.status_changed`, not `item.closed`, and wake nobody either.
- "Events carry op_id; dedupe at the receiver" (`trigger_loop.py:31`): the id is fresh for
  each event, and a mirrored link gives two wakes in a POST. "A lost wake is
  recovered by `events --since` on the next SessionStart": nothing reads it there.
- `wait` wakes nobody, though `_cross_project.py:119` says so. Leaving `conn.notifies` may
  drop the rest of a packet. A link command that dies halfway leaves an edge without
  its mirror; `link remove` leaves the edge.
- An identifier filed again under a new entity makes every later rebuild fail, though
  the cache is said to be rebuildable (`701_work_log_cross_project.sql:8`). A blocker
  deleted upstream holds for ever; a link to nothing does not hold.

*Setting up.*
- `migrate.py:8` calls a rerun idempotent. A rerun runs the files before 600 again, of
  which 100 re-creates legacy tables; two migrators at once may leave an older view.
- The installer takes a variable the user changed for its own (`harness.py:1121`, `1674`)
  and its uninstall deletes it. A run that died before the manifest leaves files that
  nothing claims later. Settings saved by another tool while a run holds them are
  lost. `.env` comments are dropped (hermes); hooks of a dropped event stay.
- `checkout add` is said to "move it deliberately" (`cli/__init__.py:175`,
  `checkouts.py:64`), but it refuses with a conflict, and nothing removes a checkout.
  Two spellings registered at once both stay, and the row read first decides whose
  directory it is. Two projects may share a `repo_root`. `init` may print "Nothing was
  changed" after it registered workspace and project.
- `reconcile --apply` closes an item in review once a commit is noted, which a comment in
  `cli/breadcrumbs.py` says it cannot, and closes a reopened item again each time. The
  list that `--prune` goes by is read after the files, so an item filed meanwhile is
  deleted. An identifier filed meanwhile ends the sync with a uniqueness error.

*Memory.* Two adds may fork a chain (`memory_model.py:141`); the gate sees the five
nearest only (`cli/memory.py:839`); `update` is not gated, and an add in a parent tier is
not compared with its children; wikilinks swallow database errors inside the
transaction (`memory_model.py:317`).

*OpenCode's plugin* (`integrations/opencode/index.js`, not modelled): messages claimed by
its prompt hook are lost when the server restarts, when the CLI times out after
the claim committed, or when a map passes 512 entries and is cleared.

## What is not modelled

| Part | Why |
|---|---|
| Hash chains, signatures, policy checks of the verifier | pure functions of single ops, and no interleaving |
| Blobs and the events a commit emits | written with their op and never changed |
| `reconcile_entity` and the merge of two replicas | no command of the program calls them |
| Notices, anonymous readers, the check of who may wake whom | claim nothing; a function of three rows |
| Orientation, outage markers and payload formats of the hooks | rendering |
| Paseo, git, the reviewer's subprocess | external; their outcomes are choices of the actions that call them |
| Links between notes, the change log, NOTIFY | single statements beside another command's transaction |
| Memory's embeddings, ranking, hygiene reports | reads; what a search returns of a tier is any subset, what a report finds any digest |
| What a migration does to the data in its tables | `Migrations` is about what exists, not about rows |
| `--dry-run`, manifests from before hashes, comments of hermes' files | write nothing, or one-time conversions |
| Event bridge | the trigger loop's LISTEN, batch and POST without its lookups |
| Search, transports, configuration, command line, web view, `doctor` | no state that several processes change |

## Plan

The modules named above are written, checked and proved about. What is left:

1. `EventBridge`, if it grows lookups or retries of its own.
2. Replicas, when a command calls `reconcile_entity`: two copies of a chain that went
   apart and exchanged everything agree.

## Running

```
tlc -workers 2 -config MCGate.cfg MCWorkItem.tla
tlapm WorkItemProofs.tla
```

`PROJECT.json` lists every run with its module and configuration, the lines of code
each definition models, the mistakes each property was shown to notice, the hazards
with the properties that watch them, and the theorems.
