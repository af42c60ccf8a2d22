# AI Code Guard: TLA+ models

AI Code Guard is a linter for TypeScript and Python written in TypeScript.  Most
of its lines are rules: pure functions of a syntax tree, covered by tables of
cases in its tests.  What is hard is around them: the linter **publishes its
results as a set of files that tools and people read while it may be killed**,
it **runs review agents as child processes** for minutes at a time, **several
linter processes may work on one project**, and it **keeps caches and a Python
worker alive**.  These parts talk through the file system and through signals,
so that every step of one process can fall between two steps of another.  This
directory models them.

Paths below are relative to the repository's `src/core/support/task/` unless
they say otherwise.

## Inventory

| Component | State | Operations | Modelled in |
|---|---|---|---|
| Task publication (`task_batch_replacement.ts`, `task_batch_replacement_snapshot.ts`, `publication/`) | the rules directory and three documents of the task workspace; a transaction directory with the backups and a journal | replace: begin, back up, write, commit, clean; rollback; recovery | `TaskPublication` |
| Publication lock (`task_publication_lock.ts`, `publication/task_publication_owner.ts`, `publication/task_publication_recovery_claim.ts`) | the lock directory with an owner file and a recovery claim | acquire, recover an abandoned lock, begin, release | `PublicationLock` |
| Review run lock (`review-agent/review_run_lock.ts`, `review_run_lock_recovery.ts`, `review_recovery_claim.ts`, `review_abandoned_agent_cleanup.ts`) | lock directory with owner and registered agents, retired locks, the recovery claim | try_acquire, takeover, termination of orphans, release | `ReviewRunLock` |
| Review agent process (`review_agent_process.ts`, `review-agent/review_agent_process_state.ts`) | a child process, its group, two timers, a lifecycle record | run_async; error, close, timeout and escalation callbacks | `ReviewAgentProcess` |
| Architecture review run (`task_review_agent.ts`, `task_review.ts`, `review-agent/dialogue/`, `review-agent/review_agent_files.ts`, `resolved_review_archive.ts`, `../cli_architecture_review.ts`, `../report_status.ts`) | review notes, completion and failure marker, source identity, archive | decide, reset, run stages in parallel, certify, status, report | `ReviewRun` |
| Lint execution cache (`../../cache/lint_execution_cache*.ts`, `../../cache/project_source_snapshot.ts`, `../../cache/cache_directory_tree.ts`) | one record per project: a result under the identity of its inputs | look up, prepare (with attempts), serve, analyze, write | `LintExecutionCache` |
| Python AST worker (`../../python-ast-worker*.mjs`, `../../python_ast_data.ts`, `external/python_ast_worker_session.mjs`, `src/python-bridge/python_bridge_entrypoint.py`) | a child process, a pipe pair, a batch counter, leases | open and close sessions; begin and complete a batch, whole or split; the loop of the Python process | `PythonWorker` |
| File violation cache and global analysis cache (`src/linting/orchestration/runtime/file_analysis_cache.ts`, `../global_analysis_cache.ts`, `FileLinter`, `LintRunAnalysis`) | records keyed by texts and configuration | clean, look up, analyze, write | `AnalysisCaches` |
| AST disk cache and Python batch cache (`../../cache/ast_disk_cache.ts`, `ContextSourceRecordCache`, `PythonAstBatchCache`) | records of syntax trees | clean, look up, parse, write | `AstCaches` |
| Module exports (`TypeScriptModuleExports` with its module records and resolution) | a map of answers, shared by all resolvers of a run | resolve an export, resolve a local name | `ModuleExports` |
| Composition analysis (`CompositionComponents`, `CompositionChain`, `CompositionAnalyzer` in `src/linting/orchestration/runtime/composition/components/`) | stacks of three traversals, what a search has found, a memo that searches share | group the classes that depend on each other, search the longest chain of each group, report | `CompositionDepth` |
| CLI and lint run | none that outlives a step | the order in which the above are called | in each of them |
| Discovery, project graph, parser and model, rules, metrics, Python bridge, documents, io boundary, tools | none that outlives a step, or none at all | | not modelled |

How they interact.  A run of the linter first produces its violations (through
the caches and the worker), then decides on a review (`ReviewRun`); a review
takes the review lock (`ReviewRunLock`), starts one agent per stage
(`ReviewAgentProcess`) that registers itself in the lock directory, and leaves
notes and a marker.  At its end the run takes the publication lock
(`PublicationLock`) and replaces the task workspace (`TaskPublication`).  The
only shared state between processes is the file system; between the parts of a
process, callbacks of the event loop.

What is hard: crashes between any two file system operations of a publication
and of its recovery; looking at a path and acting on it in two steps, while
other processes act on it; a timeout, an escalation and a close event that come
in any order; sources that are edited while agents review them.  The full list,
each at its line, is under `hazards` in `PROJECT.json`.

What makes each component correct:

- *Task publication*: the four artifacts change as a whole or not at all, seen
  from whoever takes the lock next; and the next run can always go on.
- *Publication lock*: as long as the lock keeps processes apart (see disagreement
  2), what a killed process has left to restore is restored before anybody publishes
  again; and whatever the killed leave in the lock, a process alone is refused only
  by a failing operation of its own or by a transaction that has lost its journal
  (disagreement 1).  Never, apart or not, does a takeover touch the transaction of a
  process that lives.
- *Review run lock*: as long as the lock keeps reviews and takeovers apart (see
  disagreements 3 and 4), the agents of a dead run are killed before the next one
  starts, and the agents of a live run are not; the debris of dead processes never
  locks the living out.
- *Review agent process*: every promise settles, once, with success only for an
  exit with 0 in time, and not before a timed-out group was killed.
- *Review run*: a completion marker, and a successful exit, stand for a review
  of exactly these sources by all stages.
- *Lint execution cache*: a served result is the one a fresh analysis of the
  same inputs gives.
- *Python AST worker*: a response is accepted only for its own request, every
  call returns, and the worker lives as long as somebody has a lease on it.
- *File, global and AST caches*: whatever other runs write and remove, a run
  reports what an analysis of its own snapshot gives.
- *Module exports*: an answer is a declaration the re-exports lead to, a cycle
  hides none, and asking again does not change it.
- *Composition analysis*: the groups are the strongly connected components, what
  is remembered of one search is true for the next, and a class whose longest
  chain is above the limit is told from one whose chain is not.

## Modules

| Module | What it is |
|---|---|
| `AtomicPublication` | what a publication promises: all artifacts of a run at once |
| `TaskPublication` | `TaskBatchReplacement.replace`, its rollback and the recovery, one file system operation per step |
| `TaskPublicationProofs` | its inductive invariant and the refinement of `AtomicPublication`, proved |
| `PublicationLock` | `TaskPublicationLock` under contention |
| `PublicationLockProofs` | its inductive invariant and its properties, proved |
| `ReviewRunLock` | `ReviewRunLock`, `ReviewRunLockRecovery`, `ReviewRecoveryClaim` and the cleanup of agents, under contention |
| `ReviewAgentProcess` | `ReviewAgentProcess.run_async` and its callbacks |
| `ReviewRun` | the architecture review over several runs |
| `ReviewProofs` | the inductive invariants and the safety properties of `ReviewRun` and of `ReviewRunLock`, proved |
| `LintExecutionCache` | `ProjectLintSession.cached_analysis` with the lookup, the preparation and the record, against edits of the project |
| `LintExecutionCacheProofs` | its inductive invariant and its properties, proved |
| `PythonWorker` | the Python process, its pipes and deadlines, the sessions that share it and the batches of an analysis |
| `ChildProcessProofs` | the inductive invariants and the safety properties of `ReviewAgentProcess` and of `PythonWorker`, proved |
| `AnalysisCaches` | the caches of violations, per file and of the project, under several runs and edits |
| `AnalysisCachesProofs` | its inductive invariant and its properties, proved |
| `AstCaches` | the records of syntax trees of both languages, under the same |
| `AstCachesProofs` | its inductive invariant and its properties, proved |
| `ModuleExports` | the search for the declaration behind an export, with the cache of its answers |
| `CompositionDepth` | how deep classes are nested: components, the search for the longest chain, its memo and its bound |
| `ProjectAnalysisProofs` | the inductive invariants of `ModuleExports` and of `CompositionDepth` and all safety properties of both, proved |
| `MC*` | instances for TLC: small sets, symmetry |

### How state and actions correspond to the code

`map` in `PROJECT.json` names the lines of every definition.  In short:

**TaskPublication.**  `ws` is the workspace, `backup[t]` the transaction
directory of run `t`, `journal[t]` and `existed[t]` the phase and the list of
existing paths in its journal file, `owner`/`named` the owner file of the lock.
`pc` walks through `acquire` (`AcquireLock` … `OwnerIsDead`), the recovery
(`RemoveStaleClaim` … `Restored`), `begin_transaction` (`MakeTransaction`,
`WriteJournal`, `NameTransaction`), `stage` (`BackUp`, `MakeRules`,
`BeginWrite`, `EndWrite`), `Commit`, and the removals.  `restore` is one piece
of code called from the rollback and from the recovery, and one set of actions
here; `purpose` says on whose behalf.  Each action of `Fail` is one of the
handlers an exception can reach: `restore_failure` with and without a snapshot,
`cleanup_transaction`, `finish_recovery`; `Crash` is everything that leaves the
lock behind.  Runs follow each other here; overlap is the subject of
`PublicationLock`.

**PublicationLock.**  Every process has a `pc` and steps through the same code,
with `Begin`, `Commit`/`Rollback`, the removal of the transaction and `Release` for
the publication in between.  `claims` has the directories inside the lock: the claim
(`Recovery`) and the one each process stages its claim in, each with what its owner
file names.  `txn[p]` is the transaction directory of `p` by what its journal says;
`"bare"` has lost the journal.  A look (`LookForOwner`, `ReadOwner`, `CheckLive`,
`LookForClaim`, `Inspect`, `AssertOwner`) and the act that follows it are separate
steps.  A recursive removal is the listing (`ListLock`, `BeginsClaimRemoval`), a step
for the owner file (`UnlinkOwner`) and two for each listed directory (`UnlinkClaim`
its file, `RemoveClaim` itself), in any order, and at last the directory
(`RemoveDirectory`); `RemovalFails` where something has appeared since.  A claim whose
file has been unlinked is stale to `LookForClaim`, as it is to `stale_claim`.
`finish_recovery` may throw at each of its steps: for an owner that has changed
(`AssertOwner`), a transaction without a journal (`RejectJournal`), a failing
operation (`RecoveryFails`); then it removes whatever is at the path of the claim
(`drop_claim`).  Three history variables serve the properties: `contended` has the
processes that ran beside another one, `faulted` those whose recovery met a failing
operation, and `apart` says that no two live processes were under the lock
(`Occupies`) at once so far.

**ReviewRunLock.**  The same style; `path` is the lock directory with its owner
and its registered agents, `stale[p]` the directory that `p` has renamed away.
`TerminateAgents` kills what is registered in the directory a takeover
finalizes.  A review has one agent here.  `apart` is a history variable: no two
live processes have held the lock (`Holding`), or recovered it (`Recovering`), at
once so far.

**ReviewAgentProcess.**  One action per callback: `ErrorEvent`, `CloseEvent`,
`TimeoutEvent`, `EscalationEvent`.  `Complete` is
`ReviewAgentProcessState.complete`.  The leader, its group and a descendant
that left the group are the environment.

**ReviewRun.**  `StartRun` is the decision of `CliArchitectureReview`, followed by
the reset of the two markers (two steps), the stages with their dialogues
(`Following` is the retry logic of `ReviewAgentDialogue`), `StagesSettle`
(`Promise.allSettled`), `EndsUncertified`/`SourceChanged`/`Certify`
(`complete_review`), `Status` and `Report`.  A note is absent, open, open with a
bad size, or resolved.

**LintExecutionCache.**  `disk` is the project, `record` the record file.  A run
walks through `lookup`, `ignore` and `directories_current`
(`LintExecutionCacheLookup`), `discover`, then the attempts of
`prepare_for_inputs`: `BeginSnapshot` and `ReadSource` (`ProjectSourceSnapshot`),
`ReadConfig`, `Fingerprint`, `Directories` (`LintExecutionCacheContext`) and
`Confirm`/`InputsChanged`/`InputsUnstable`; at last `Serve`, or `Miss`,
`Analyze`, `Write`.  Inputs that were reused from the record (`r \notin
complete`) skip the snapshot and the confirmation, and are prepared in full
after a miss, which does not look at the cache again (`missed`).  `Edit` changes
any file between any two of these steps.

**PythonWorker.**  `thread` and `pc` are the one synchronous call the host is in:
an analysis (`BeginAnalysis` … `EndAnalysis`) or a close (`WriteExit`,
`ReadExit`).  A split batch is sent by `StartBatch`, the work on the TypeScript
files lies in between (`ParseTypeScript`, which may throw), `CompleteBatch` reads
the response and `Validate` compares the ids; a whole batch is `BeginBatch`,
`WriteBatch`, `ReadBatch`.  `SendFails` and `ReceiveFails` are the deadlines and
the errors of the transport, after which it removes its worker.  `WorkerAnswers`
and `WorkerInputEnds` are the loop of the Python process; `WorkerDies`,
`WorkerStalls`, `Reap` and `Killed` what may happen to the two processes.

**AnalysisCaches** and **AstCaches.**  A run is `Begin`, the reads of its snapshot
(`ReadSource`, `ReadConfig`, `ReadRuntime`), then one action per loop or, where
other runs can come between, per element of it: `CleanFiles`, `LintFiles`,
`CachedFile`/`UncachedFile`, `OpenGlobal`, `CleanGlobal`,
`CachedGlobal`/`CollectGlobal`, `WriteGlobal`; `PreparePython`, `CachedAsts`,
`WriteTypeScript`, `CleanPython`, `CompletePython`.  `cached_analysis` reads the
sources before the configuration and `direct_analysis` after it; `Begin` chooses.

**ModuleExports.**  `stack` holds the calls of `file_for` and `exported_symbol` that
are open, each with the alternatives it has still to try; `Exports`, `Locals` and
`Defaults` list them in the order of the code.  `Asked` is a question of a
resolver of either policy; `Opens`, `FindsDeclaration`, `Recalls`, `Skips`,
`Enters` and `Returns` are what may become of the first alternative.

**CompositionDepth.**  One step is one turn of a loop: `StartsPostorder` …
`EndsPostorder` are `CompositionComponents.postorder`, `StartsComponent` …
`EndsComponents` are `components_from` and what picks the sources.  `StartsChain`
is the memo's fast way or a new search, `CachedDependency`, `CycleDependency`,
`BoundedDependency` and `EntersDependency` the four cases of
`append_dependency_frame`, `CompletesFrame` the end of a frame; `AppendsName`
puts the chain together and `Reports` compares its length with the limit.
`Longest` is what all this is for, in one recursive function.  `Only` filters a
sequence; it stands for `SelectSeq`, whose argument is an operator, so that
nothing can be proved of it here.

### Abstractions

- Contents are the run that wrote them, a source identity is the content it is
  the digest of; process identity checks (`task_publication_owner.ts`) are
  liveness of a process that is not recycled.
- The artifacts of a publication are visited in any order; the code visits them
  in a fixed one, so the model has more behaviours.
- In `PublicationLock`, a process that has ended its publication keeps its process
  id alive, as a linter does that goes on to report.  Reading a claim and asking
  whether its process lives is one step.  An operation that throws outside of
  `finish_recovery`, the removals and the looks ends its process where it stands,
  which is a process that takes no further step.  The directory a lock is staged in
  is nobody else's and left out, and so is `owner.next`; a journal is there before the
  transaction is named.  The failures of a rollback are in `TaskPublication`.
- An agent writes the notes of its own stage only, as the hook policies see to.
- The source identity of a review is taken in one step.
- The project of `LintExecutionCache` is one directory, a content hash is the
  content, `Config` is what the resolution takes from `tsconfig.json`; a
  discovery and a listing are one step each.  File times only make the lookup
  refuse more, which `IgnoreFilesCurrent` may do at will.  Beside the manifest,
  a run also reads scripts and JSON files that are no inputs
  (`lint_project_context_creator.ts:167`); `Manifest` stands for them too.
- A frame of `PythonWorker` is the id of its batch, written and read whole or not
  at all.  The sessions have equal arguments, as all of a run have, and so share
  one worker.  Descriptors that are used again after a close are left out, and so
  is which error a close reports.
- In `AnalysisCaches` and `AstCaches` a content hash is the content, a record is
  replaced by one rename, violations and trees are what they are computed from.
  A removal of stale records takes any part of them: an error ends it, and other
  removals go on.
- The files of `ModuleExports` do not change while a resolver is used (it reads
  each once); a specifier is the list of files it may stand for; an answer that
  is found unwinds the whole stack in one step.

- In `CompositionDepth` a frame keeps the dependencies that are left instead of an
  index, `active` is read off the frames, and a class is pushed once as the
  predecessor of another one however often it depends on it.
  `complete_missing_frame` and a key without a node do not occur:
  `ClassDependencyMap` (`global-analysis/class_dependency_map.ts:94`) yields keys
  of the graph only.

## Runs

| Run | Instance | Shows |
|---|---|---|
| `task_publication` | 3 runs, 2 artifacts, 2 crashes or failures, fair | `UnownedIsWhole`, `PublishesAtomically`, `RecoversAndPublishes` |
| `task_publication_partial` | 2 runs, 1 crash | the journal may be deleted before the rest of a committed transaction: `CleansPartiallyDeleted` is violated |
| `publication_lock` | 3 processes, 2 killed, recoveries that may fail | `AloneAcquires`; `RestoredFirst` while `apart` |
| `review_run_lock` | 3 processes, 2 killed | `AloneAcquires`; `OrphansTerminated`, `LiveAgentsKept` while `apart` |
| `review_run` | 2 stages, 2 contents, 2 runs, 1 edit, fair | `CompletedIsCertified`, `FailedStageFailsRun`, `SuccessIsReviewed`, `ReviewEnds` |
| `review_agent_process` | 2 agents, fair | `TimeoutSettlesDead`, `SuccessIsGenuine`, `CompletesOnce`, `AgentSettles` |
| `lint_execution_cache` | 2 runs at once, 2 sources, 2 contents, 2 edits, 2 attempts | `ServesWhatItSaw`, `ServesFreshResults` |
| `python_worker` | 2 sessions, 3 batches, fair | `AnswersAreOwn`, `WorkerFollowsLeases`, `InStep`, `CallsReturn`, `NoOrphanWaits` |
| `analysis_caches` | 2 sequences of runs, a TypeScript and a Python source, 1 edit | `ResultsAreOfOwnSources`, `GlobalFollowsConfiguration` |
| `ast_caches` | the same with 2 edits | `AstsAreOwn` |
| `module_exports` | 75 programs of 5 files, 3 questions of both policies | `AnswersAreReachable`, `NothingIsMissed`, `AnswersStay` |
| `composition` | 3072 graphs of 4 classes, 486 of 6, a complete one of 6; limit 3; fair | `ComponentsAreStrong`, `MemoIsExact`, `SearchDecides`, `AnalysisEnds` |

Why the bounds are enough.  *Publication*: an artifact is either the rules
directory, which is made before it is written, or a document, which is not: two
artifacts are one of each.  Three runs let a crash be recovered by a run that
crashes, and that by another.  *Locks*: a look that is stale when it is used
takes an observer, the process it saw, and one that came in between, which may be
the one to suffer from it; two deaths kill an owner and its recoverer.  `apart` is
lost in three processes without a death, and what `RestoredFirst` excludes then
happens with one.  Four processes in the publication lock, where removals go entry by
entry, take TLC longer than a run should; the proofs are about any number.  *Review run*: one edit separates the content at the
start, at the end and at the next decision; two runs show what a marker does to
the next one; two stages show one failing beside one that does not.  *Cache*: a stale
result takes one run that makes the record, one that looks it up, and one edit in
between or during either; a second edit restores what the first changed, or
exhausts two attempts (the code has three).  The runs start with
`--skip-review`, the only case in which inputs are reused.  *Agents*
do not share state; two show that they do not.  *Worker*: one batch is dropped,
the next reads its answer, the third is begun behind that; two sessions are one
that leaves and one that stays.  *File, global and AST caches*: each of the two
processes runs again and again, so that one edit gives a record of before it, one
of after it and one that is made across it, and a run of either kind that looks
them up; what a run has read is any mixture of before and after.  The second edit
of `AstCaches` takes the project back, to records of before.
*Module exports*: a cycle of two modules in every combination of a way in
(`export *`, a name, a file on the disk, a script), a way back (five kinds of
export and import) and an end of the search (nothing, a name, an expression, a
default class); three questions are one that fills the cache, one of the other
policy, and one that is asked again.
*Composition*: of four classes three depend on each other in any way and the fourth
in six, which gives cycles of one to four classes, some that share a class and some
that follow each other, in ascending order of the dependencies but for one list; not
all graphs of four classes are among them, and `AnalysisEnds`, which is not proved, is
shown for these graphs only.  The
graphs of six are entered by two classes that nothing leads to, so that the second
search meets the memo of the first, and their orders vary; the complete one is
deep enough for the bound (limit + 2 frames).

Fairness.  `TaskPublication`: the live run goes on, `replace` is synchronous
code that waits for nobody.  `ReviewAgentProcess`: the event loop delivers an
event that is due, timers included; nothing is assumed of the agent, which may
run, fork and hold its pipes for ever.  `ReviewRun`: the run goes on and a
dialogue ends, which is what `AgentSettles` says of its agent; users and
crashes owe nothing.  `PythonWorker`: the host is not starved and each of its calls
ends by its deadline, and a Python process whose input has ended reads that end;
nothing is assumed of its answers.  `CompositionDepth`: a synchronous computation
goes on.  The two lock modules and the caches have
safety properties only: contenders may refuse each other for ever, as the code
lets them.

`CHECK_DEADLOCK FALSE` is said of programs that end; the runs of `AnalysisCaches`
and `AstCaches` follow each other for ever, and TLC looks for deadlocks there.

## Disagreements found

1. A crash during the recursive deletion of a **committed** transaction can
   leave its directory without its journal.  Every later run then throws
   ("Task publication transaction journal is unavailable",
   `task_publication_lock.ts:77`) until the lock is deleted by hand.  No
   document is lost.  `RecoversAndPublishes` and, in `PublicationLock`, `AloneAcquires`
   exclude this state (`Wedged`).
2. `recover_abandoned_lock` looks for the owner file and removes the directory in two
   steps (`task_publication_lock.ts:125`), and the removal goes entry by entry while a
   lock directory without an owner file is free to be removed by others.  So a
   process that is late removes the lock of a live owner: three processes suffice,
   none of them killed.  If the owner is killed then, nothing names its transaction any
   more, and the next process publishes without restoring it (three processes, one
   killed).  A claim whose file is being removed counts as stale
   (`task_publication_recovery_claim.ts:69`), and a removal may take the claim before the
   owner file: with four processes, one of them killed, two takeovers restore at once,
   although no operation fails.  `RestoredFirst` speaks of executions in which no two
   live processes have been under the lock at once so far (`apart`).
3. `stale_lock_path` (`review-agent/review_run_lock_recovery.ts:79`) renames
   whatever is at the lock path by then: two reviews can run at once.  The run
   that lost its lock may register its agent in the directory of the other one;
   with five processes, one of them killed, the record of an agent is lost so that
   nobody terminates it, or a takeover terminates the agent of a live run.
4. `remove_stale_claim` (`review-agent/review_recovery_claim.ts:45`) removes
   whatever claim is there by then: two takeovers can run at once.
   `OrphansTerminated` and `LiveAgentsKept` speak of executions in which neither
   3 nor 4 has happened so far (`apart`), wherever processes were killed.
5. README lines 245-246 say that resolved notes stay in the review directory;
   `resolved_review_archive.ts:45` moves them to an archive.
6. `LintExecutionCacheContext.identity` (`../../cache/lint_execution_cache_context.ts:163`)
   covers the inputs, the resolution options and the directory entries, while
   the analysis takes entry points from `pyproject.toml` as well: after an edit
   of that file alone, the result from before it is served.
   `ServesFreshResults` leaves the manifest out.
7. An analysis that throws between the two halves of a split batch
   (`../../python_ast_data.ts:77`, `lint_project_context_creator.ts:108`) leaves its
   response in the pipe.  `src/tests/core/test-fixture-bridge-reuse.test.ts:63`
   expects independent requests of a shared worker, but the next request then
   fails with another batch's id, and so does every one after it, until the worker
   is closed.  `AnswersAreOwn` shows that it fails and never takes the wrong
   answer; `InStep` names the condition.
8. The key of a file's record (`coding_rule_linter.ts:50`, `file_analysis_cache.ts:25`)
   covers the sources and the configuration, not the JavaScript files that the
   rules follow imports into.  `ResultsAreOfOwnSources` and `AstsAreOwn` leave
   `runtime` out for this reason.
9. The key of the global record leaves `pyproject.toml` out, which the rules on
   unused symbols read (`unused_symbol_rules.ts:151`,
   `python_project_entry_point_usages.ts:144`), as in 6.
10. The key of the global record takes `tsconfig.json` from the disk after the
    snapshot was analyzed (`lint_run_analysis.ts:69`): a run during which it is
    edited files a result of the old configuration under the new one.
    `GlobalFollowsConfiguration` speaks of runs during which nobody edits.
11. In a cycle of re-exports that leads to several declarations,
    `TypeScriptModuleExports` finds one that depends on what was asked before: the
    search for the first question cuts itself short where a second one does not.
    Each answer is reachable (`AnswersAreReachable`), and none changes
    (`AnswersStay`).

12. `CompositionChain.chain` puts the chain together from the states that a search
    leaves behind (`chain_next_key`, `composition_chain.ts:190`), and inside of
    a cycle a later part of the search replaces states an earlier one was
    computed from.  With `a: [a, c, d]`, `b: [b, a, d]`, `c: [d, a]`,
    `d: [b, a, c]` the depth of `a` is 5 and its chain `a, c, a`.
    `CompositionAnalyzer.class_violations` (`composition_analyzer.ts:71`) compares
    the length of the chain, so that a class that is nested too deeply may go
    unreported.  `SearchDecides` speaks of the depth, and of the chain where
    no cycle is reached.

One run shows a disagreement with a statement of the repository (1).  The
others came up while the modules were written; the properties are stated with the
conditions under which they hold.

A weaker one is kept out of the runs: a run during which `tsconfig.json`
is edited, after `ReadConfig` and before `Analyze`, files the result of the new
configuration under the old one.  `ServesFreshResults` speaks of records made
while nobody edits (`calmly`) for this reason; `ServesWhatItSaw` needs no such
condition, because the sources are analyzed from the snapshot they are
fingerprinted from.

## Proofs

Checked by `tlapm` for every value of the constants.

**TaskPublication** (`TaskPublicationProofs`), under `RunAssumption` (the names
of runs differ from the values for no content), `RulesAssumption` and
`FaultsAssumption`.  `UnownedIsWhole` is not inductive: it says nothing about
the states between two steps of a publication, and whether a recovery restores
the right thing depends on what the journal, the backups and the workspace have
to do with each other at each of them.  `Inv` says so, in five parts:

- `FreshInv`: a run that has not begun its transaction has left nothing behind
  that a recovery could take for its own;
- `OwnerInv`: the owner names a transaction only after its journal was written,
  and the journal lists what existed;
- `StageInv`: while staging, each artifact is untouched, moved to the backup, or
  new;
- `RestoreInv`: while restoring or removing, each artifact that was visited is
  as it was before;
- `DurableInv`: what a recovery *would* restore, `Durable`, is whole.

Then `Durable` is the refinement mapping: every step leaves it alone except
`Commit`, which changes it to the new batch at once.  That gives
`ImplementsAtomicPublication`, and `UnownedWorkspaceIsWhole` because with no
lock, `Durable` is the workspace.

**PublicationLock** (`PublicationLockProofs`), under `ProcAssumption` (the names of
processes differ from those of paths and from the values for no file), for any number
of processes and of deaths.  Neither property is inductive: `RestoredFirst` says
nothing of who is on the way to the lock with an old look at it, and `AloneAcquires`
looks at a process only when it has failed.  `PublicationInv` says

- `OwnersInv`: whoever the owner file or a claim names has got as far as to write it,
  and has not removed it yet;
- `SeenInv`: who takes over has read an owner and found it killed, and a transaction
  it has read of stays named;
- `TransactionInv`: which transaction a live process has at each of its steps; one that
  is prepared is one that is being staged or rolled back;
- `ApartInv`: while `apart`, at most one live process is under the lock, it finds the
  owner file as it left it, what it removes names nothing that is still to be restored,
  and a prepared transaction is that of the owner;
- `AloneInv`: what a process that nobody contends with finds at each of its steps,
  whatever the killed ones left: the owner is the one it read, what it removes is on its
  list, and it drops its claim only for a lost journal or a failing operation.

`RestoredFirst` follows from `ApartInv`: who begins is the owner, and a prepared
transaction that is named is that of the owner, so that of no killed process.
`AloneAcquires` is the last part of `AloneInv`.  `TakeoversSpareTheLiving` needs neither
condition: by `SeenInv` a takeover only works on what a killed process has left.

**ReviewRunLock** (`ReviewProofs`), under `ProcAssumption`.  Whether an orphan is
found depends on where the record of an agent can be: in the lock directory, or in
one that a takeover has moved aside and that the next takeover lists.  `Inv` says

- `NamesInv`: who is named in a directory, or in the claim, has written it;
- `ApartInv`: while `apart`, at most one directory is aside and the takeover has it
  on its list or in its hands (`StaleInv`); the directory of a live holder is its
  own, even if it is aside (`HolderInv`); every running agent with a record is in
  one of the two, and that of a live process only in its own (`AgentsInv`);
- `SoloInv`: what a process that nobody contends with finds at each of its steps.

None of `StaleInv`, `HolderInv` and `AgentsInv` survives a step without the others,
nor without `apart`: two holders write in one directory, two takeovers have two
aside.

**ReviewRun** (`ReviewProofs`), under the assumptions of the module.  The property
`CompletedIsCertified` looks at the marker only, which a killed run may leave at
any step.  `ReviewInv` adds that the marker agrees with the last verdict
(`MarkerInv`), that a run asks for a certificate only when each stage it selected
has passed (`StagesInv`), and what is known when the status is computed: whether a
stage failed, and that a run which found no review due found the project certified
(`StatusInv`).

**LintExecutionCache** (`LintExecutionCacheProofs`), under the assumptions of the
module on paths, contents and projects to start from.  Neither property speaks of
a record before it is served, nor of a snapshot before it is complete.  `Inv` says

- `SnapshotInv`: a complete snapshot has the texts of its inputs and no others, and
  the identity, as far as it has been taken, agrees with it;
- `RecordInv`: the result in a record is that of the texts in its own identity, and
  in a record of a calm run that of its configuration and its directories too, and
  its inputs are what a discovery finds in these directories;
- `CalmInv`: what a run without edits has read is what is on the disk.

Who serves a record has found its own identity in it, hence `ServesWhatItSaw`; a
calm run has found that of the disk, hence `ServesFreshResults`.

**ReviewAgentProcess** (`ChildProcessProofs`), with no assumption.  `AgentInv` ties the timers
to the recorded failures (`TimersInv`) and says that the lifecycle has completed
exactly when the pipes have closed and, after a timeout, the escalation has
finished as well (`SettledInv`); `CompletesOnce` alone is not inductive because
nothing else keeps the close event and the escalation from both completing.

**PythonWorker** (`ChildProcessProofs`), under `SessionAssumption` (finitely many
sessions) and `BatchAssumption`.  None of the properties is inductive.  `Inv` adds

- `LeaseInv`: the counter of leases is the number of open sessions, and a stretch
  is run by one of them unless it closes the worker of none; without it nothing
  says that a worker which is removed was nobody's;
- `FrameInv`: the acknowledgement of an exit is never in the pipe for a batch;
- `BatchInv`: an id that is to be sent was given to no batch before;
- `StepInv`: as long as no batch was dropped, the two pipes hold at most the one
  frame the running call waits for, and a batch between its halves is pending.

**AnalysisCaches** (`AnalysisCachesProofs`) and **AstCaches** (`AstCachesProofs`),
under the assumptions of the modules on their paths, contents and bounds.  The
properties speak of one run; what makes them hold is that *every* record, of
whatever run and project, holds what its key says: `FilesInv`, `GlobalsInv`,
`RecordInv`.  A run that finds a record under its own key then finds its own
result.  `LintedInv`, `OverallInv` and `ParsedInv` add that a run has no results
as long as it reads, so that a later read cannot change what they are of.  The
global key takes the configuration from the disk; `CalmInv` says that this is the
one of the snapshot as long as nobody edits.

**ModuleExports** (`ProjectAnalysisProofs`), under the assumptions of the module on
its programs and on `None`.  The search is right about an export only at its end,
and about the question only together with all calls that are open.  `Inv` says

- `FramesInv`: what a call has tried has led to exports that were entered;
- `ChainInv`: every closed set around an outer call or the question contains the
  exports of the inner ones, and these differ;
- `LeftInv`: an export that was entered is still open or has no declaration, and
  leads to exports that were entered;
- `CacheInv`, `ToldInv`: what is cached or told is reachable.

When the question ends without an answer nothing is open, so that `visited` is the
closed set without a declaration that `NothingIsMissed` asks for.  A
declaration that is found is in every closed set around the innermost call and by
`ChainInv` around each outer one, which is why all of them may cache it.

`AnswersStay` compares two searches for one question, with other questions in
between that fill the cache.  In a cycle the later one takes another course than
the first, and may come to other exports; what it finds must not differ.
`AnswersInv` adds what they have in common:

- `SettledInv`: an answer is that of the first alternative of its question that
  leads to a declaration: each one before it leads to a closed set without a
  declaration, and its own export is cached with this answer;
- `FreshInv`: no export is searched that is cached, so that a cache entry is never
  replaced;
- `BottomInv`: the question has gone through its alternatives in their order, and
  those it is done with lead to no declaration.

Two answers that are settled at different alternatives would make one of these
both barren and, by `CacheInv`, the way to a declaration (`SettledOnce`).

**CompositionDepth** (`ProjectAnalysisProofs`), under `OrderAssumption`,
`NothingAssumption` (what is not there is not a state), `GraphAssumption` (a
dependency is a class of the graph) and `DepthAssumption`.
`CompositionComponents` is Kosaraju's algorithm with stacks of its own, and what
it rests on is never written down in the code; `ClassesInv` does that:

- `SeenInv`, `EdgesInv`, `PathInv`: a class that was seen is in the order or is
  expanded on the stack, once; what it depends on was seen or is above it; and an
  expanded class reaches all that is above it;
- `ToppedInv`, then `OrderInv`: all that a class of the order reaches is in the
  order, and the last of it is of the class's own component, unless one of that
  component is still expanded;
- `PartsInv`, `BegunInv`: the components before the last are whole, disjoint, and
  hold every class of the order that was begun with;
- `PartInv`: the last component is a part of that of its first class (`Root`), and
  what leads to it is in it, in an earlier component, or on the stack.

A class that leads to the root's component and is not of it has its own component
further on in the order (`LeadsToRoot`), which is therefore whole already; so
nothing foreign enters the part, and when the stack is empty the part is all
(`PartIsWhole`).  That the sources suffice follows from the order too: of the
classes that lead to a given one, the component of the last has nothing leading to
it (`SourceAbove`).  `SearchInv` adds the shape of the search: the classes on the
stack differ, and each frame waits for the class above it.

`MemoIsExact` and `SearchDecides` compare the search with `Longest`, which is a
recursive function of the path so far.  That there is one such function is proved
first, by the least number of classes off the path for which there would be none
(`RightExists`); from then on only its equation is used (`ChainStep`: `Chain(k, b)`
is 1 for a class on the path `b`, else one more than the longest chain that goes on).
`DepthInv` is what the search keeps to:

- `KeptInv`: the memo has all that a class of it depends on, so all that the class
  reaches; its depth is the length of the longest chain on any path that avoids
  these, and its `next` is one less deep;
- `AnswersKept`: what this search has found is in the memo or is contextual;
- `StackInv` (`LevelInv` of each frame): nothing is kept of the classes on the
  stack; the depth of a frame is reached by a chain that goes on from the path to it,
  and is that of the longest through the dependencies it is done with, **or** some
  frame above is so deep that the chain of the search is over the limit in any case
  (`Deep`); a frame that was told of no cycle has its depth from the memo
  (`CleanInv`);
- `PendingInv`: the same of what was just found for the frame on top;
- `NamesInv`: the same of the class that the search began with.

The disjunct `Deep` is what the bound on chains through cycles rests on:
`append_bounded_dependency` leaves a dependency out only when the path alone is over
the limit, and that reaches the first frame with every frame that is completed
(`TooLong(depth, i)` becomes `TooLong(depth + 1, i - 1)`).  What a frame was not told
of a cycle for is kept, because all that its class depends on is in the memo and
the class itself is not: none of them leads back to it.

Only model-checked: `RecoversAndPublishes`, `AgentSettles`, `ReviewEnds`,
`CallsReturn`, `NoOrphanWaits` and `AnalysisEnds`.  These are liveness under
fairness, which is out of reach of the prover; every invariant that a run checks is
a theorem.

## Not modelled, and why

The rules, parser, model, metrics, project graph and the
Python bridge are pure functions of texts, over data that no model checker
enumerates; their tests are tables of cases.  Reports and task documents are
wording.  The io boundary has one call per operation; the operations are the
steps of the modules.  The development tools are sequential scripts.  The count of the
dependencies of one constructor is the size of a set.  Process
ids that the system gives to another process, pipes held by a process that left
its group, and sources edited back and forth during a review are outside of the
models.

## Plan

1. Done: `TaskPublication` with `AtomicPublication`, `PublicationLock`,
   `ReviewRunLock`, `ReviewAgentProcess`, `ReviewRun`, `LintExecutionCache`;
   proofs for the first and the fourth.
2. Done: `PythonWorker` with its proofs, `AnalysisCaches`, `AstCaches`,
   `ModuleExports`, `CompositionDepth`; proofs for `AnalysisCaches`, `AstCaches`
   and `ModuleExports`.
3. Done: proofs for `PublicationLock`, `ReviewRunLock`, `ReviewRun`,
   `LintExecutionCache` and `CompositionDepth`.
4. A composition of `ReviewRun` with `ReviewRunLock` for two runs at once.
