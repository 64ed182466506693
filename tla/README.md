# BlastRadius: TLA+ models

BlastRadius compares two versions of a Terraform configuration, finds the attack
paths from the Internet to sensitive data that a change opens, and decides
whether the change may be merged. It is an analysis engine, a command line and a
FastAPI server with a job queue and a GitHub App. The modules here model

* the server's concurrent core: who may write the database, what happens to
  accepted analyses, to webhook deliveries and to what is published on a pull
  request, over crashes, handovers between processes and lost answers;
* the organization that owns the analyses: its projects, plans, policies, usage,
  members, invitations, connected repositories, retention, and the row locks
  under which they change;
* the gate from end to end: from Terraform text or a plan, through parsers,
  rules, graph, bounded search and comparison, to a decision, an exit code and
  the files that report it, on refs that move and disks that fail.

Paths are relative to `src/blastradius/` unless they start with `docs/`.

## Inventory

| Component | State it keeps | Operations | Modelled in |
| --- | --- | --- | --- |
| Service lease `server/lease.py`, fenced sessions `server/db.py`, lifespan `server/app.py:178-325` | advisory locks 481936024 (session) and 481936025 (transaction); `lost`, `pid`; `db.fence`, `db.lease_healthy`; the `starting` event | `acquire`, `healthy`, `fence`, `release`; `session`; start, wait thread, shutdown | `FencedWriter`, `ServiceLease` |
| Analysis queue `server/jobs.py`, routes `server/app.py:689-755` | `Analysis` rows; a bounded semaphore; a thread pool; events `persistence_failed`, `draining`, `stopping` | `recover`, `reserve`, `submit`, `_run`, `finish`, `drain`; create and delete an analysis | `Jobs` |
| GitHub deliveries `server/github_service.py:106-639` | `GitHubDelivery` rows; the `active` set and its lock; one control worker; slots of the analysis queue | `receive`, `dispatch_pending`, `dispatch`, `_claim`, `_run`, `recover`, `shutdown` | `GitHubDelivery` |
| GitHub runs and publication `github_service.py:641-762`, `server/github_publish.py` | `GitHubRun` rows with `check_id`, `check_uncertain`, `comment_uncertain`; checks and comments at GitHub | `process`, `publish`, `summary`, `current`, `active` | `GitHubPublish` |
| GitHub connections `server/github_routes.py`, `github_service.py:497-522, 582-586` | installations, repository connections; what GitHub grants | register, connect, disconnect, lifecycle events, refused deliveries | `Connections` |
| Workspace `server/lifecycle.py:315-415`, `server/quotas.py`, `server/plans.py`, `server/admin.py:16-41`; retention `server/persistence.py` | organizations with a plan and a policy, projects, usage counters, analyses by age | routes on projects and policies, `create_analysis`, `_claim` and the admission in `process`, `assign_plan`, `cleanup` | `Workspace` |
| Members and invitations `server/lifecycle.py:50-88, 196-313` | memberships, invitations | change and remove a member, invite, revoke, accept | `Members` |
| Product events `server/events.py`, `server/beta.py:109-208`, migration 0006 | a bounded event table and its counter | `record_event`, `terminal_events`, the triggers, `cleanup_commercial`, and the transactions of analyses around them | `Events` |
| Parsers `parser/` | none | directories and plans to configurations, coverage diagnostics | `Parsers`, `Terraform` |
| Rules `security/rules.py`, graph `graph/graph_builder.py`, score `security/risk_score.py` | the attack graph of a configuration | findings, `_add_edge`, `build_graph`, `score_analysis` | `Terraform`, `AttackGraph` |
| Search `graph/attack_paths.py` | predecessors, a queue, a stack, four budgets | `analyze` | `AttackPaths` |
| Comparison `graph/diff_engine.py`, decision `security/decision.py`, policy `policy.py`, alerts `sarif.py` | two results, their difference | `compare`, `decide`, loading and finding a policy file | `Verdict`, `LocalGate` |
| Repair and simulation `security/remediation.py`, `security/hcl_edit.py`, `simulation.py` | none | edits of Terraform text, advice | `Remediation` |
| Command line `cli.py`, git `gitsource.py`, delivery of reports `actions_output.py`, `github_context.py`, `github_pr.py` | a run from its arguments to its exit code; pinned commits, files | `run`, `prepare_comparison`, `materialize`, `deliver_success`, `deliver_error`, `publish_report` | `LocalGate` |
| Worker process `server/worker.py`, `server/analysis.py`, `server/results.py` | a scratch directory | one analysis, its answer and its validation | `LocalGate`; its protocol is a step of `Jobs` |
| Login, rate limits, beta intake, operator, administration | sessions, buckets, rows | single transactions | not modelled |
| Reports, demos, Streamlit, web frontend, schema | presentation, start-up data | | not modelled |

How they interact. The lifespan acquires the lease (or waits for it in a thread
while HTTP is already served behind a fence that refuses every session), then
runs `jobs.recover()` and `github.recover()`, then starts the dispatcher. Every
transaction except webhook intake goes through `db.session()`, which checks the
lease before the body and before COMMIT. GitHub tasks reserve the slots of the
analysis queue, store results with `jobs.finish()` and end in `publish()`, whose
provider calls no fence protects. Shutdown sets `draining`, closes both
executors, waits until a deadline, sets `stopping`, and releases the lease.
An analysis, on the command line or in a worker process of the server, parses
two configurations, builds their graphs, searches each with `analyze()`, and
gives the results to `compare()` and `decide()`; what the server knows of it is
the answer of the worker, which `results.py` validates again.

A row lock serialises what concerns one organization. `lock_org()` takes it, and
`authorized_org()` then expires every object the session has loaded, so that a
route decides on what it reads under the lock. Objects loaded before the lock by
code that calls `lock_org()` itself stay as they were. Events of GitHub
installations do not take it. Every transaction that records a product event
also takes the one commercial row, whatever else it holds by then.

What is hard:

* two processes of one service at a time, the older of which may not know that
  it has been superseded, and may be dead while its transactions commit;
* memory (semaphores, sets, executors) that has to agree with rows;
* a commit or a POST whose answer is lost, and a POST that lands late;
* recovery that runs beside requests, in batches that can be cut short;
* shutdown that overtakes a request between its claim and its submission;
* rows read before a lock, or answers of GitHub got before it, and used after
  it, by transactions that do not refresh everything they have read;
* row locks taken in several orders, foreign keys and triggers included;
* budgets that end one of two searches in the middle, before the results are
  subtracted from each other;
* one fact read in several files: by the coverage checks and by the rules, by the
  parser and by the text edits, by the verdict and by the decision;
* git refs that move between the commands that read them, and reports of several
  files of which some cannot be written;
* clean-up code on many paths (slots, the active set), each of which has to be
  taken exactly once.

What makes each component correct:

* lease: a transaction body runs only in the last process that acquired, and no
  process finishes acquiring while an older body runs; a replacement settles;
* queue: slots balance; a terminal row is final; every unfinished row has a
  thread or a reported failure; a graceful exit leaves nothing unfinished;
* deliveries: slots balance; attempts bound the claims through any crash loop;
  payloads outlive everything that still needs them; a delivery settles;
* publication: one check per run, one comment per pull request, success only
  for a SAFE result, a charge once per run;
* organization: an analysis is judged under a policy that was in force, a version
  names one rule set, starts are paid and within the plan, an owner remains, an
  invitation admits once, a revoked connection stays revoked until it is
  connected again, cleanup deletes what is expired, all of it and nothing else;
* events: the counter is exact and bounded, an end is recorded once, and no rows
  but the commercial one close a circle of waiting;
* engine: every reported path exists, a result not marked truncated is complete,
  a reachable target is never silent; SAFE is sound whatever ran out, a new
  exposure blocks whatever ran out, and a remediation is never held against a
  change;
* gate: what is called complete is exact, a pass is earned by the pinned commits
  under the trusted rules, no file of a failed run claims a pass, a repair repairs.

## Modules

| Layer | Modules |
| --- | --- |
| one writer | `FencedWriter` (abstract), `ServiceLease` (implements it) |
| queues on the writer | `Jobs`, `GitHubDelivery`, `GitHubPublish` (each an `INSTANCE` of `FencedWriter`) |
| one organization | `Members`, `Connections`, `Workspace` (extends both) |
| row locks | `Events` |
| engine | `AttackGraph`, `AttackPaths`, `Verdict` |
| Terraform | `Terraform` (extends `AttackGraph`), `Parsers`, `Landscape`, `Remediation` |
| the gate | `LocalGate` (extends `Verdict`, `Landscape`, `Remediation`) |
| theorems | `ServiceLeaseProofs`, `JobsProofs`, `GitHubDeliveryProofs`, `GitHubPublishProofs`, `WorkspaceProofs`, `EventsProofs`, `LandscapeProofs`, `LocalGateProofs` (extends `LandscapeProofs`) |
| for TLC | `MCServiceLease`, `MCJobs`, `MCGitHubDelivery`, `MCGitHubPublish`, `MCWorkspace`, `MCEvents`, `MCLocalGate` |

`FencedWriter` is the abstract specification of the lease: a `writer` that
changes at most once per process, and commits (`FencedCommit`) that only the
writer makes. `ServiceLease` implements it: `FencedWriterSpec` is checked by TLC
and proved. `Jobs`, `GitHubDelivery` and `GitHubPublish` instantiate it and write
each fenced transaction as one `FencedCommit`. They are modelled apart:
`GitHubDelivery` knows `process()` by its outcomes, `GitHubPublish` is its inside,
and the slots that other analyses occupy appear to `GitHubDelivery` only as "queue
full" at any time (`DispatchNothing`). `Workspace` takes each transaction of the
writer as a step or, where rows are read before the lock, as two; it knows an
analysis by its project, age and policy, and leaves its execution to `Jobs`.

A member of `Process` is one run of the server program: a restart is another
member. In `Jobs` processes are numbered in the order in which they acquire the
lease, and in `Workspace` identifiers are handed out in a fixed order; both only
name things. History variables (`writer`, `retired`, `author`, `claims`, `billed`,
`moments`, `torn`, `grounds`) are named where they are declared.

### ServiceLease

`proc[p]` is where the lifespan of p is. `TryLock` is
`pg_try_advisory_lock(481936024)`, `Acquired` the end of `acquire()`: the
exclusive lock 481936025 was granted, which needs every shared holder to have
ended, and the fence is wired. `Begin`, `Admit`, `Enter`, `Seal` and `Commit`
are the steps of `db.session()`: shared lock, owner check, body, second fence,
COMMIT. `Admit` waits behind a queued exclusive request, as PostgreSQL's lock
queue does. `SessionDropped` is the server reaping p's lock connection;
`Crash` leaves the connections and a sent COMMIT alive. `PollError` and the
error outcomes of a probe need `DbErrors`.

### Jobs

`task[j]` follows analysis j from the request thread (`reserved`, `committed`,
`undispatched`) through the executor (`queued`, `claiming`, `executing`,
`finishing`, `crashed`, `releasing`). `free[p]` is the semaphore. Every
transaction has three outcomes: it commits, it fails without effect, or its
effect stays and its acknowledgement is lost; each of the three attempts of
`finish()` is a step. `Look` and `Claim` are the read and the commit of `_run()`,
which takes no row lock. `limbo` is a row whose creation was committed but
answered with an error. `Scene` says which processes are still to come, which
analyses, whether requests are served while recovery runs (which is so after a
lease wait) and whether transactions fail.

### GitHubDelivery

`calls[p]` are the `dispatch()` calls in progress, by a request thread or by the
dispatcher; several may concern one delivery. The lock is implicit: `handing`
is the claim whose task has not been submitted yet, and the steps that need the
lock ask for `Unlocked`. `queue`, `running`, `stage` are the single control
worker. Deliveries are distinct bodies, so a redelivery is the same member.

### GitHubPublish

One pull request; `Run` are the identities (head, base, policy ...) under which
it was analysed. `stage[p]` names the next transaction or provider call of the
worker of p. The provider is `checks`, `shown`, `comments`, and `lateChecks`
and `lateComments`, the POSTs whose client gave up and that may land at any
later time. Reads before a mutation (`current()`, `active()`) belong to the
step before and may fail at any time (`ProviderFails`), so nothing depends on
when the head moves.

### Workspace, Members, Connections

One organization. A route that goes through `authorized_org()` is one action,
because the lock and the refreshed objects make it one; `Look` is the read
before the lock of `create_analysis` and of `_claim()`, and `seen` what it read.
`AdmitHttp` looks again (`session.refresh(project)`); `Claim` uses the project it
has seen with the organization that `lock_org()` reloads. `Process` is
`active()`, `AdmitGitHub` the transaction of `process()` that charges the quota and
inserts the row with the policy of the claim. `Choose` and `Cleanup` are the
two looks of `cleanup()`. `Entitled` is the table of `plans.py`; `GiveUp` is every
error answer, a full queue and a provider failure included. The history variable
`moments` collects the policies in force since a request's first read, and
`torn` remembers who captured another. On SQLite, `BEGIN IMMEDIATE` makes `Look`
and what follows it one step; the model is that of PostgreSQL.

In `Members`, `FindInvitation` is the read of `accept_invite` before the lock and
`Accept` what it does under it. A route reads the clock more than once; here it
stands still during a step.

In `Connections`, connect is `BeginConnect`, `Verify` (three calls of GitHub, of
which the last answer counts), `Reread` and `Connect`; while it is locked, nothing
of the organization commits, but `Lifecycle` (the handler of an event) and
`RevokeRefused` (a delivery that GitHub refused) do. The provider moves by itself,
and its events are handled late and in any order. `grounds` says of a connection in
use whether GitHub approved it after, or only before, the last revocation of its
repository.

### Events

The transactions that record product events or delete them, taken apart into row
locks: `Program` lists the steps of each, and a step that stands for a loop of
`recover()` or `cleanup()` unfolds turn by turn, in the order of the identifiers
(`Iterate`). `Trim` is the look of `record_event()` at the counter, which puts the
deletion of the oldest events before the insertion. A step of an analysis that is
gone, or no longer wanted, is passed over (`Skip`), and so are all later ones of that
analysis. `Take` locks one row of a statement, `Blockers` is PostgreSQL's conflict of FOR UPDATE, an update without a key, and the
KEY SHARE of foreign keys. A transaction's writes become visible at `Commit`;
`Abort` is a lock timeout or a deadlock victim, after which `finish()` tries again
with `worker_failed`. `Drop` fires the trigger that counts.

### AttackGraph, AttackPaths, Verdict

A configuration is the set of its findings: the edges that the rules justify,
with their risk. `BuildGraph` adds them in the order of `build_graph()`, with the
worst finding kept on an edge and the limit of `_add_edge()`, as a function of how
many candidates it has looked at; `Score` is `score_analysis()`. `RulesAssumption`
says what kinds of nodes the rules connect. `SimplePaths` is not code: it defines what the search is
held against.

`AttackPaths` is `analyze()`. `step` says which of its loops runs, and an action
is one turn: `VisitBreadth` of the first loop, `TakeTarget` of the loop over the
targets (with the shortest witness from the predecessors), and `RunOut`,
`Backtrack`, `SkipVisited`, `EmitPath`, `SkipDeep` and `Descend` of the
depth-first loop. Node ids are ordered by `NodeOrder`, as `sorted()` does.

`Verdict` runs two searches one after the other, as `analyze_input` does, and
then `compare()` and `decide()`, which are operators: `VerdictOf` and `Decide`
read the same `diff`; `SarifLevels` is the third table over it.

### Terraform, Parsers, Landscape, Remediation

A resource is a record of attributes; an attribute value lists its strings, each a
reference, a literal, an expression nobody resolves, or null (a function, of
positions in a text and of addresses in a plan).
`Gap` is what `coverage.py` diagnoses, `Findings` what `rules.py` and
`graph_builder.py` make of the same record. `ParseDirectory` and `ParsePlan` are the
two parsers; the second recovers the links of a plan from its configuration block
or from ids, names and ARNs (`IdentityIndex`). `SaferConfig`, `Simulated` and
`Advice` are the edits and the advice, on the text of the blocks.

`Landscape` is external: two security groups, an instance with a role, two
buckets, the edges that AWS makes of them (`TrueEdges`), and 34 styles in which a
Terraform file, and 18 in which a plan, can express the same landscape. The engine
is held against the landscape, never against another reading of the text.

### LocalGate

One command, or one worker process, from its arguments to its exit code. `W` is
what it was called with and what the repository holds. `Pin...`, `Materialize` and
`ReadBasePolicy` are separate git processes between which `MoveRef` may run; the
analyses are those of `Verdict`. Reports are written file by file, any write may
fail, and `DeliverError` then overwrites what it can. The "action" form is the workflow
of `docs/github-action.yml`: `publish_report` posts the comment file after a check
of the head. Job summaries and the files of SARIF and JSON are members of
`Artifact`. On graphs built by hand, `Verdict` runs alone (stage "engine").

## Runs

| Run | Instance | Question |
| --- | --- | --- |
| `Lease` | 2 processes, 2 transaction slots, database errors | who is inside a transaction; does a replacement settle; is the lease a `FencedWriter` |
| `LeaseWaitThread` | 2 processes, 1 slot, database errors | does a replacement settle when a poll fails (violated) |
| `Jobs` | 2 slots, 1 worker, batches of 1; scenes: a handover with 2 analyses, a failing server with 2, a handover between failing servers that serve early | slots, finality, orphans, selective recovery, graceful exit, does accepted work settle |
| `JobsEarly` | a handover with requests during recovery | does recovery spare fresh work (violated) |
| `DeliverySafety` | 2 processes, 1 delivery, 2 attempts, database errors; beside it, without servers, 3 transactions of `Events` on 3 analyses of 2 organizations, an event table of 2 | slots and the bound on claims; the event counter, and who may wait in a circle |
| `DeliveryLive` | 1 process, 2 deliveries, one an installation event, 1 slot | does a delivery settle |
| `DeliveryPayload` | 1 process, 1 delivery, 2 attempts | does the payload last (violated) |
| `PublishSafety` | 2 processes, 2 runs | checks, comments, conclusions, charges |
| `GateSafety` | the engine alone: 11 nodes, 7 findings that vary, changes of at most 2, 4 policies; end to end: 7 changes of a landscape in 34 styles of source and 18 of plans, by command line, workflow and worker | paths, budgets, verdict and decision; exactness, the pass, the report, the repair |
| `GateJson` | git comparisons of a root with a .tf.json file | is the file diagnosed (violated) |
| `WorkspaceSafety` | 3 plans; five kinds of behaviours: 3 edits of policies, 2 days that pass, 2 projects, 2 people with 2 invitations, a repository connected while GitHub moves twice | policies captured, versions, limits, charges, owners, invitations, retention, revocations |
| `WorkspacePolicy` | the same | does a claim capture a policy that was in force (violated) |

Why the bounds are enough. The handover properties need an owner and a
successor while the first still runs; that a third one changes nothing for the
lease is what the proofs say, for any number. Slot
accounting needs two holders or a full queue; batches of one make a recovery of
two rows interruptible, as 100 does for many. The attempts of a terminal write
are the code's three; `MaxAttempts` is 2 instead of 3, so that exhaustion after
a crash loop is reached by two processes. `MaxRearms` bounds redeliveries by
GitHub, the only unbounded input of the queue.

`Events` runs any three of ten transactions (`MCWorks`), all there are around an
analysis, on analyses in the order and the reverse order of their organizations:
a circle of two or three. An event table of two is full at once.

The landscape of the engine in `GateSafety` has two routes to each of two markers,
a dead end for each target, a bucket with and without a tag, and a cycle that no
rule produces but that `analyze()` accepts. Its budgets are scaled down (13 edges,
4 paths, 4 per target, depth 5, work 40) until each of them ends some search and
spares others; the code's 20000, 500, 25, 32 and 100000 appear only as these
constants. All 128 baselines and all changes of up to two findings are tried.
End to end, a style is one respect in which a text differs from the plain one
(a variable for a CIDR, a policy elsewhere, names shared by two resources of a
plan ...), and the worlds (`MCWorlds`) give every form of the command its policy
files and directories; a ref moves once.

`Workspace` draws the bounds of a behaviour from five (`MCBounds`): one edits
policies three times, enough to set, replace and clear on two levels, with one
project; one lets two days pass, the longest retention of the instance, with two
analyses; one has two projects at the limits of their plans; one has two people,
one who may be invited, two invitations and two visitors who hold one each while
they wait; one has a connection. They meet only in the plan. One request that
waits is enough, because everything else is a step that may overtake it; `Batch`
is 1, so that two expired analyses need two rounds of `cleanup()`.
`CHECK_DEADLOCK FALSE` is set everywhere because the instances end: every
process has run and is down, every bound is used up.

### What the violated runs show

* `LeaseWaitThread`: `wait_for_lease` (`server/app.py:247-250`) catches only
  `RuntimeError`. When `lease.acquire()` raises an SQLAlchemy error the thread
  ends; the process stays up, never ready, and its deadline is never checked.
* `JobsEarly`: after a lease wait, requests are admitted from the moment
  `acquire()` wires the fence, before `jobs.recover()` has looked at the rows;
  recovery then fails what they queued as `server_restarted`.
* `DeliveryPayload`: the `finally` clause of `dispatch()`
  (`server/github_service.py:480-482`) removes the delivery from `active` even
  when an earlier call handed its task off. The sweep takes the running delivery
  for an orphan, a second claim or a close follows, and the first task's
  finalisation writes RETRYABLE over a closed row that has no payload any more.
* `GateJson`: `list_terraform_files()` and `materialize()`
  (`gitsource.py:94-145`) leave `.tf.json` files out of the snapshots, so nothing
  diagnoses them and the comparison is complete, contrary to `docs/coverage.md:7-8`.
* `WorkspacePolicy`: `_claim()` (`server/github_service.py:535-540`) loads the
  project, waits for the row of the organization, and combines the old project
  with the new organization. Two edits during the wait (an override for the
  project, then a default for the organization) make the delivery capture the
  organization's default, which the override has hidden from its first moment.

### Divergences without a run

Met while modelling; where a property concerns them, it says so or leaves the case
to its assumption.

* While a marker is reachable, `analyze()` searches paths to markers only. A change
  that opens another route to an instance that was reachable before, at a risk
  below CRITICAL, adds no path, no resource and no point to the score: it is SAFE,
  although `security/decision.py:11-13` sends new non-critical paths to review.
* `_run()` reads its row without a lock (`server/jobs.py:235-238`): when requests
  are served during recovery, RUNNING may overwrite FAILED, and the end is recorded
  twice (`docs/beta-api.md:266-267`); SQLite's BEGIN IMMEDIATE prevents it.
  `TerminalIsFinal` excepts this case.
* A connect that GitHub approved before a repository was removed commits after the
  event was handled (`server/github_routes.py:210-273`): the connection is active
  until the next delivery, although `docs/github.md:95-98` asks for an explicit
  reconnection. `RevocationLasts` counts it as "stale" grounds.
* Transactions that hold an organization and ask for the commercial row, and ones
  that hold that row and ask for a key share of the organization
  (`server/events.py:59-76`, `server/jobs.py:173-186`), can deadlock on PostgreSQL;
  when `finish()` is the victim, a finished analysis becomes `worker_failed`.
* `_link_attribute` (`parser/plan_parser.py:302-331`) keeps the references of an
  attribute and drops literal members beside them, and takes the first of several
  for a scalar, without a diagnostic (`docs/coverage.md:56-57`).
* The pattern `arn:aws:s3:::data*` is not matched as a grant on objects
  (`security/rules.py:228-244`); two different admin port ranges of one source
  count as one finding.
* `hcl_edit.py:28, 66`: the expression for `cidr_blocks` also matches the tail of
  `ipv6_cidr_blocks`, and only the first list of a block is rewritten. The
  landscape has one address family.
* `write_plan()` and `simulate()` copy `.tf` files only: a `.tf.json` file is dropped.
* `--comment-file` is written before later steps may fail and is not rewritten by
  `deliver_error` (`docs/cli.md:32`).
* `docs/architecture.md:110` and `docs/limitations.md:15` say that GitHub
  deliveries need redelivery after a restart, while `recover()` re-arms them.

## Fairness

* Lease: a wait thread polls and looks at its deadline (a loop with
  `stop_wait.wait(1)`); a granted lock request returns; transactions end
  (statement and lock timeouts, or the server reaping the connection); TCP
  keepalives end the session of a dead owner (`KEEPALIVES`). Nothing makes an
  owner exit, or a probe fail. `WaitersSettle` excepts a wait thread that died
  of a database error, the case of `LeaseWaitThread`.
* Jobs: recovery and the threads of a live process run; executions end
  (`job_timeout_seconds`), transactions end. Processes need not crash, shut
  down, or be started.
* Deliveries: the dispatcher polls (`DISPATCH_POLL_SECONDS`), its calls and the
  worker return. Strong fairness of a claim says that the queue is not full
  each time a call looks; the other analyses that fill it end. A retry is due
  after its backoff.
* Workspace: somebody runs `cleanup()` again and again, the retention thread
  (`BR_RETENTION_SWEEP_SECONDS`) or the operator's timer. Days need not pass and
  plans need not change.

## Proofs

Each theorem holds for every value of the constants: any number of processes,
analyses, deliveries, people and transactions, any graph, order of nodes, budget,
policy and landscape. What the constants must satisfy are the assumptions that the
modules name, and TLC evaluates on the runs. `Spec => []IInv`, or its like, is
the first theorem of every module; the others follow from it.

| Module | Theorems (the property, where the name differs) |
| --- | --- |
| `ServiceLeaseProofs` | `TypeCorrect`, `FencingIsSafe` (`OnlyWriterInBody`), `HolderIsLastAcquirer`, `LeaseKeepsPromise` (`Spec => FencedWriterSpec`) |
| `JobsProofs` | `TypeCorrect`, `SlotsAreCounted` (`SlotsMatchHolders`), `NothingIsOrphaned` (`NoOrphan`), `RecoveryIsSelective` (`LateHttpSparesFreshWork`), `OutcomesAreFinal` (`TerminalIsFinal`), `ExitsSettle` (`GracefulExitSettles`) |
| `GitHubDeliveryProofs` | `TypeCorrect`, `SlotsAreThoseOfTasks` (`SlotsMatchTasks`), `CrashLoopsEnd` (`ClaimsBounded`) |
| `GitHubPublishProofs` | `TypeCorrect`, `PublishesOnce` (`PublishedOnce`), `SuccessMeansSafe` (`SuccessIsEarned`), `PublicationShows` (`PublishedIsVisible`), `ChargesOnce` (`BilledOnce`) |
| `WorkspaceProofs` | `TypeCorrect`, `OwnersRemain`, `RevocationsLast`, `VersionsNameRules`, `UploadsAreLicit`, `CleanupSpares` (`CleanupSparesVisible`), `InvitationsAdmitOnce`, `PlanIsKept` (`WithinPlan`) |
| `EventsProofs` | `EventsTypeCorrect` (`EventsTypeOK`), `LedgerExact` (`LedgerHolds`), `CirclesAreKnown` (`CirclesNeedLedger`) |
| `LandscapeProofs` | the lemmas `FindingsBound` and `CompleteExact`, about every landscape and style, and `RepairFinds` and `CompleteEdited`, about every edit of a text |
| `LocalGateProofs`, search | `TypeCorrect`, `PathsReal` and `GatePathsReal` (`PathsAreReal`), `BudgetsHonest` and `GateBudgetsHonest` (`BudgetsAreHonest`) |
| `LocalGateProofs`, decision | `VerdictTypes`, `SoundAlone` and `GateIsSound` (`DecisionIsSound`), `AgreeAlone` and `GateAgrees` (`VerdictAgrees`) |
| `LocalGateProofs`, run | `LastWord` (`LastWordHolds`), `RunInvariant`, `CompletenessIsExact` (`CompleteIsExact`), `PassesAreEarned` (`PassIsEarned`), `GateTypes` (`GateTypeOK`), `RemediesHold` (`RemedyHolds`) |

The arguments, and why the properties need more than themselves:

* Lease. `OnlyWriterInBody` is not inductive: that the owner check admits only the
  writer needs that a holder of the session lock which is past `acquire()` is the
  writer (`OwnerIsWriter`), which needs that a process between the lock and the end
  of `acquire()` is the holder and that the drain leaves no older body behind. The
  refinement maps every variable to itself: `Acquired` is `Takeover`, `Commit` is
  `FencedCommit`, everything else stutters.
* Jobs. `NoOrphan` needs to know where the thread of each unfinished row can be
  (`PlaceInv`), how a row can be left without one (`OrphanInv`), and that recovery
  leaves no row of an earlier process (`RecoveredInv`) although it works in batches: a
  short batch is the last because the unfinished rows are finitely many (`OpenInv`).
  What `_run()` has read when it writes RUNNING is `ClaimInv`. The semaphore is right
  because whoever releases a slot is one of its holders (`SlotInv`).
* Deliveries. Attempts go down as well as up, and two tasks may work on one delivery,
  so `ClaimsBounded` counts what no attempt pays for: a recovery takes an attempt
  back only from a row that does not say `server_restarted`, and then says so
  (`AttemptInv`, `InterruptInv`), and a takeover leaves at most one more claim unpaid
  (`ForgiveInv`). Tasks that a shutdown cancels keep their slots, so that the equation
  of `SlotsMatchTasks` becomes an inequality there (`SlotInv`).
* Publication. A check or comment is sent only where none exists and none is under
  way, which the row shows from before the first POST (`CheckInv`, `CommentInv`): also
  a superseded process sends what it had begun. What it may still send was computed
  from rows that no longer change (`JobInv`, `TellInv`).
* Workspace. Three modules share a step, so every effect is stated once and used by
  each invariant. What is counted is finite (`SeatsInv`, `ActiveInv`); what a waiting
  request may capture was in force while it waited (`WaitingInv`); and among all
  policies that are stored, captured or seen there is none above the current version
  and one for each version (`NamesInv`).
* Events. A step of a transaction is right because of what earlier steps of it did,
  and of what the others cannot have done since. The first is `LocalInv`, about the
  whole list of steps that are left: each has the row it relies on, or a step before
  it will get it (`Secure`), whatever is passed over; what has been written has its
  locks (`Effects`); an end is still to be recorded at most once (`EndsOnce`); only
  deletions come between the look at the counter and the insertion (`InsertsNear`).
  The second is `LockInv`. Together they make the holder of the commercial row the
  only one with insertions or counted deletions, so that a commit changes no event
  another one relies on (`CommitApart`): the counter that was read stays true until
  the insertion (`RoomInv`), the counts add up (`NumberInv`, `DroppedInv`,
  `CountInv`), and an analysis found unfinished is so until its end is committed
  (`OpenInv`, `EndedInv`).
* Circles of waiting. Which row a transaction asks for next is a matter of the whole
  list again, so two more invariants are about it, for transactions that do not have
  the commercial row. One about a single analysis waits for nothing else once it has
  a lock: it takes one row first and then, before any other, the commercial one
  (`Calm`). One that deletes takes organizations one by one in their order, analyses
  only of an organization it has or is to get first (`Rising`), and events only of
  such analyses; that the events of two of these are never the same needs to know
  who may see which event, and is an invariant over all of them (`FarInv`). So in a
  circle without the commercial row and without `recover()`, whoever blocks another
  one deletes, and all of these wait for organizations, each for a later one than it
  has. One of finitely many waits for the last (`GreatestOf`), and who has that one
  does not wait in the circle.
* Search. `SearchInv` (the tree of predecessors, the queue, the stack, the budgets)
  makes every path real. That none is missing is `HonestInv`: each simple path to the
  target is reported, or runs through the part of the stack that is untried, or the
  result is marked (`EnumInv`); and the queue holds at most two levels of the
  breadth-first pass (`LevelInv`), so that a target within the depth has a witness
  within the depth. The paths of the reference `SimplePaths` and the reachable set
  are recursive functions; what they compute is proved by a least counterexample
  (`LeastOf`, `Iterates`).
* Decision. Lemmas about the graph come first: what `BuildGraph` makes of a
  configuration, that a larger configuration has no smaller risk on an edge, and
  that the score falls as risks grow (`FewerScoreHigher`). `Outcome` collects what
  is known of the result of a finished search; that a safe change opens nothing
  (`SafeOpens`), that exposure blocks (`ExposureBlocks`) and that a remediation
  passes (`RemediationPasses`) are lemmas about two outcomes. `ExposureBlocks` needs
  `RulesAssumption`: nothing leads on from sensitive data, and only buckets lead
  there.
* Landscapes. A style is a member of a small set and a landscape is not, so that a
  proof goes through the attributes and not through the texts. A resource `Reads` a
  block when it takes over what the block says or less, and both parsers make only
  such resources, of every block unless something is diagnosed (`Faithful`). So a
  rule can find nothing but what some landscape has (`FindingsBound`). A link of a
  resource without a `Gap` is the block's own, whatever the plan recovered it from:
  the candidates of an id, a name or an ARN are the addresses that bear it, and one
  that two addresses bear is a gap. With that, each kind of finding is compared with
  the edges of AWS once, for all styles (`InstanceExact`, `AccessExact`,
  `ContainsExact`, `ControlExact`, `PolicyExact`, `AclExact`), which makes
  `CompleteExact`.
* Runs. `RunInv` holds at every stage what a run has chosen so far: the base is
  never the pinned head, the root and the rules come from the trusted side
  (`TrustInv`), the texts are those of the pinned commits (`InputInv`), the graphs
  are of those texts (`SidesInv`), and an exit code of 0 or 1 is that of the decision
  (`StageInv`). `PassIsEarned` then is `CompleteIsExact` on both sides, with
  `DecisionIsSound` between them: an administrative port or a path to data that the
  pinned change opens is a finding of the head and not of the base, hence a path or
  an edge of the comparison, hence no pass. Of `GateTypeOK`, what a policy file
  yields is `ValuesInv`, and that graphs have all that the rules found is
  `FindingsBound`.
* Repair. An edited text is the old one block by block, apart from the CIDR blocks of
  ingress rules and canned ACLs (`EditsAre`), so that everything a rule finds
  without these is found in both (`InnerKept`). What is left are the findings of
  open ports and public ACLs: restricting makes fewer (`RepairFinds`), and no gap
  appears that was not there (`CompleteEdited`). So an edited text is read like one
  of the landscape that was meant, and exact for the same reason as any complete one
  (`EditsLead`). That each repaired group, and each bucket that stays open, is
  named by an advice of high severity needs that the graph has dropped no edge
  (`NoneDropped`) and, for a bucket, that a path to it is among those the search
  counts as critical.
* Reports. `TellInv` says of every stage between the decision and the end that an
  artifact says what it should or is in `left`; that a worker's answer is never
  refused follows from `Compared` and `Decide` alone (`NeverRefused`).

Assumptions that the proofs asked for: a node order that names every node once
(`GraphAssumption`), the kinds above (`RulesAssumption`), a placeholder that is no
row, rule or role (`WorkspaceAssumption`, `MembersAssumption`), an organization
that sees some repository (`ConnectionsAssumption`), and finitely many threads
(`EventsAssumption`: infinitely many could wait for each other with no circle that
closes), resource types that are never diagnosed apart from those that are
(`TerraformAssumption`), findings of landscapes among the candidates
(`LandscapeAssumption`), and runs that are called as the program can be called
(`WorldAssumption`: a given policy or directory is one, a worker is given none).
`CompletenessIsExact` and `PassesAreEarned` have a hypothesis of their own,
`CopiedWorlds`: no repository that git compares has a root in `.tf.json` form. It is
exactly the case that run `GateJson` shows to be wrong; the worlds of `GateSafety`
satisfy the hypothesis and `.tf.json` files are among their directories that are
analyzed without git. `RemediesHold` has the hypothesis `AllEdgesFit`: the edges that
the rules can find in any landscape, of which there are ten, fit into
`MaxGraphEdges`, which is 13 in the runs and 20 000 in the code
(`MAX_GRAPH_EDGES`). A graph at its limit drops edges, and with them the advice.

Only model-checked:

* liveness under fairness, and what speaks of ENABLED: outside the prover's reach;
* the properties of violated runs, of which there is nothing to prove.

## Plan

1. The SQLite variant of the lease, as a second implementation of
   `FencedWriter` or as the place where it fails to be one.
2. `JobManager.submit()` failing after the work item was queued, as an outcome of
   `Submit` in `Jobs`.

## Not modelled

Login, rate limits, beta intake, the operator's reports and administration are
single transactions on tables that nothing modelled here reads; what of them
records events behaves as the transactions of `Events` do. The schema is
declarative. Markdown, explanations, severities and wording, demos, the Streamlit
application and the web frontend present results. The scratch directories of
analyses, and the limits the operating system puts on a worker, are left out; so
are lexing and the exact syntax of Terraform expressions. Of modelled components:
deleting a whole organization while its work runs, counting exports, descriptive
fields of projects, the request budget of the provider client, the limit of two
publication passes, rebilling after the end of a month, and the `broad_iam`
simulation, on which no kind of finding depends.
