# Quor: a verification project

Quor runs a developer's command, filters its output through a list of stages
and prints the shorter text; it also keeps what the filter hid, records what it
saved, and answers an MCP client about a repository it has indexed. This
directory models the parts of it whose correctness depends on order: threads,
processes that share a database, failures half way, and lists of stages that
act on one another's results. TLC checks the models on small instances, TLAPS
proves the theorems for every value of the constants.

Paths below are relative to the repository, `quor/` being the Python package.

## 1. Inventory

### One dispatch, from end to end

`quor/engine/dispatcher.py` owns a dispatch, and each dispatch is a process of
its own. In order: run the command (timeout 124, not found 127), sweep the
tee, resolve the effective configuration, stop there in bypass mode, look the
filter up in the registry, initialise plugins, run the PRE_FILTER plugins, the
filter (which runs the pipeline) and the POST_FILTER plugins, tee the raw
output, add the concise instruction, tear plugins down, record the telemetry,
scan for secrets, show an onboarding tip, write. Every step fails open: an
exception becomes a warning and the text as it was. What survives between
dispatches is on disk: the tracking database, `tee_state.db`, the caches and
the small state files of a repository. They are what concurrent processes share.

### Components

| Component | State | Operations | What is hard | What makes it correct |
|---|---|---|---|---|
| Tracking writer `tracking/db.py` | queue, worker thread, open transaction, database file | `record`, `flush`, `close`; connect, schema retries, staging, batch commit, interval commit | callers and worker interleave; commits fail; `flush` times out; the process is killed | a `flush` that answered True covers all earlier records; no record is lost in silence; every record is committed in time and in order |
| Pipeline engine `pipeline/engine.py`, `mask.py` | the mask (a decision per line), the results | `execute`, `trace`, early exit, PROTECT enforcement | a stage raises, skips, brings lines back, changes the line count; the early exit drops stages unrun | the exit cannot be seen in the output; one result per stage; protected lines stay |
| Built-in stages `pipeline/stages/*` | none | 17 `apply` functions | each is written for fresh lines, and meets lines other stages have decided | protected lines survive, counts add up, budgets hold, nothing vanishes without a trace |
| Tee `pipeline/tee.py` | rows by content hash, throttle stamp, failure count, switch | write, sweep, status, success, failure, reset, show | every step is a transaction of some process; the count is read outside the transaction that writes it | what a footer names can be shown; a tee that cannot write turns itself off |
| Repository intelligence cache `pipeline/repo_profile/intel*.py` | five JSON files | full rebuild, diff, incremental refresh, force | files change during the build; crash between two saves; two builders | a call returns facts of the repository as it is |
| MCP server `mcp/server.py`, `session_dedup.py` | LRU of 20 digests, lazy tracking writer | `compress_context`, `get_repo_context`, resources, prompt | the digest is noted before the content is shown; calls run in threads | "unchanged" is said only of what was asked for recently; one writer per session |
| Launcher `mcp/launcher.py` | none | preflight, repair, recheck, hand-off | each repair may fail, or claim success | the server runs only in an environment that passed |
| Filter registry `filters/registry.py`, `trust.py` | filters by tier, trusted hashes | `find`, `apply` | tiers, invalid patterns, abort conditions, never-expand guard | an answer never costs more than the raw output |
| Dispatcher `engine/dispatcher.py` | the memoised configuration, the plugin context | the sequence above | each step may fail, the configuration may change, the user may interrupt | one answer always, recorded as written; plugins torn down; one configuration |
| Plugins `plugins/registry.py`, `pipeline/plugin_loader.py` | plugins by tier, disabled set, entry point cache | discover, register, init, run per category, shutdown | shadowing, failures, a cache that is stale | a plugin runs only after it started, and each one started is shut down |
| Configuration `config/*` | TOML files, environment | load, merge | precedence, fallbacks, files that raise | project over environment over user over default |
| Retention `prune_stale_invocations`, `intel_cleanup.py` | throttle stamps in a second database | throttled deletes | two databases, two processes, crash in between | a stamp is left only by a sweep that swept; the oldest cache goes first |
| Nudge and tips `nudge.py`, `onboarding.py` | small JSON files and a counter | read-modify-write | concurrent processes, directories that vanish | the count is true, and the tip bounded, for processes that follow each other |
| Repository graph `repo_profile/graph.py`, `graph_distance.py`, `tiered_collapse.py` | none | walk, edges, distances, tiers | resolution of imports and types in seven languages, unreachable files | edges lead where the files say; distances are shortest; tiers cover the neighbourhood |
| Search `repo_profile/search.py`, `query_extract.py` | none | evidence, ranking, merge, terms | ties, limits per query | the strongest evidence counts, a shorter list is a beginning of a longer one |
| AST summaries `pipeline/ast_summarize/*` | none | bodies, symbols, relationships, import blocks | line ranges from tree positions, nested declarations | signatures and imports stay; what leaves the text is in a block |
| Git diff enrichment `git_diff_enrich.py`, `structural_diff_python.py` | none | classify the command, fetch two versions, match declarations, render | five phases consume the declarations; the versions must be the diff's | every declaration is told once and truly |
| Structured data and projection `structured_data/*`, `projection/*` | none | ranges of JSON, YAML and TOML arrays; cleaning of JSON values | ranges from positions of three parsers | a range holds what it counts and nothing else |
| Command rewriting `rewrite/*` | none | lexer, splitting, classification | quoting, compound commands, redirections | the rewritten command is the same with `quor` in front of what is known |
| Analytics `quor/analytics`, queries of `db.py` | none | reports, trace summary | scopes by path prefix, passthrough and synthesis rows | reports are views of the same rows and add up |
| Secret scan, orphan sweep, content type, document extraction, profile and dashboard, CLI | none, or read-only | detection, heuristics, printing | little | not a matter of state |

`PROJECT.json` lists each with the reason for its status, and under `hazards`
the places where this code can go wrong in ways a test would hardly reach.

### How they interact

The dispatcher calls the registry, which calls `Pipeline.execute`, which calls
the stages: one thread, one mask passed along. The tee and the retention
passes are shared by all processes through SQLite (write-ahead log, one writer
at a time). The tracking writer has one worker thread per process; the MCP
server keeps one alive for its whole session and shares it between its request
threads, a CLI dispatch opens and closes one. The repository cache is read and
written by the MCP server and by CLI commands without a lock: each file is
replaced atomically, the five files are not. The graph is a function of the
facts that cache holds, the search reads it, and the tiers of a context are
rendered from it with the AST summaries of the files on disk. Diff enrichment
is the built-in plugin of the PRE_FILTER category.

## 2. Modules

    TrackingDB ----------> DurableLog         (refinement)
        |-- MCTrackingDB, TrackingDBProofs
    Masks <- Pipeline <- PipelineContract <- MCPipeline, PipelineProofs
                 |-- StagePipeline <- MCStages, PipelineProofs
    Stages <---------|
    Tee <- MCTee, TeeProofs
    RepoIntelCache <- MCRepoIntelCache, RepoIntelProofs
    Config, FilterRegistry, Plugins <- Dispatch <- MCDispatch, DispatchProofs
    McpServer <- MCMcpServer, McpProofs
    SharedState <- MCSharedState, SharedStateProofs
    OperatorTheorems <- PipelineProofs, TeeProofs, DispatchProofs, TrackingDBProofs,
                        RepoIntelProofs
    Analytics, RepoGraph, RepoSearch <- AlgorithmCases <- TrackingDBProofs, RepoIntelProofs
    AlgorithmCases, Rewrite, AstSummaries, StructuralDiff, StructuredData
        <- MCAlgorithms -> MCSources, MCDocuments

**TrackingDB** is `TrackingDB._worker` and the three calls of the clients.
`queue` is the `SimpleQueue`; a record is its number in the order of the
`record()` calls; `staged` is the open SQLite transaction and `committed` the
file. One action is one iteration of the worker's loop: `StageRecord` and
`StageAndCommit` (INSERT, and commit when `pending` reaches `_BATCH_MAX_SIZE`),
`AnswerFlush`, `Stop`, `CommitOnInterval` (`queue.Empty`), and their failures:
`StageFails` and `BatchCommitFails` are caught in the loop, and the second
leaves `pending` and `deadline` where they were and the transaction open or
rolled back; `UnguardedCommitFails` is one of the three commits outside the
`try`, which ends the thread. `SchemaApplied`, `SchemaLocked` and
`ConnectFails` are `_connect` with its retries. `AnswerFlush` leaves `pending`
and `deadline` alone, as the code does. `age` is an observer. `Kill` ends the
process between any two steps.

**DurableLog** is what the writer promises: records are accepted, then stored
or given up, and an acknowledgement names a prefix all of which is settled.

**Masks** holds `LineMask`, `ContentMask` and `_enforce_protect`, **Pipeline**
is `Pipeline.execute`: `EarlyExit`, `SkipStage` (`can_handle` is False),
`ApplyStage`, `RaiseStage`. `Outcomes(e, m)` is what stage `e` may return for
mask `m`, so the engine is checked and proved over any stages. `full` is the
mask of the same run with `early_exit=False`, moved by the same steps and, once
the exit is taken, by `ShadowStage`: the early exit is right when nobody can
tell the two apart. **PipelineContract** states what the exit asks of a stage
it may drop.

**Stages** gives `apply` of each stage type as an operator on masks, over lines
that are records of what the stages tell apart (what the line says, its shape,
location, number, size in tokens, ANSI skin, and what stages appended). A
pattern is the set of bodies it matches. **StagePipeline** puts those stages
into the engine: the texts they read and write, and what a run of them promises.

**Tee** has a process per dispatch. Each SQLite transaction is an action;
between two of them any other process may run. `BeginDispatch` reads the clock
and the throttle, `Sweep` deletes with that clock, `CheckStatus` reads the
switch, `WriteTee` or `WriteFails`, then `RecordSuccess` and `ShowFooter`, or
`ReadFailures` and `RecordFailure` (the counter is read in a statement of its
own before the transaction that writes it). `promised` and `evicted` observe
which footers went out and which rows the ceiling took.

**RepoIntelCache** is `ensure_repo_intelligence` of several processes at once.
`disk` is the five cache files, `own[b]` what builder `b` holds, `pc[b]` where
it is. The reads of a cache file (`LoadProfile`, ...), the visits of a
repository file by a loop (`DiffFile`, `ParseFile`, `FingerprintFile`) and the
writes of a cache file (`SaveState`, ..., `SaveIntel`) are actions, in the order
of the code, so edits, other builders and a crash come between any two.
`Added`, `Modified`, `Gone` and `Renamed` are the diff (a path that went and one
that came with the same content are a rename, the first with the first and so
on), `Relocate` moves the facts of a renamed file without parsing it, `CheckIntel` is the backfill of a
cache hit. A file has a content and a stamp (size and mtime, which no two writes
share); its facts depend on its content and on the language of its path.
`Shown` is the staleness check of `_repo_context_block`. `Write`, `Delete`,
`Move` and `Damage` are the user, and the retention pass, which may take the
whole directory.

**Config**, **FilterRegistry** and **Plugins** hold no state: `load_user_config`
and the merges as functions of what the files set (a file may be absent or
raise), `find` and `apply` over filters and texts reduced to a length, marks
and whose work is in them, the registry of plugins as a sequence per tier, of which a category is the
places of its plugins in order of priority (`InCategory`).
**Dispatch** is `run_dispatch` inside the `try/finally` of `__main__`, a step
per call that can fail, loops over plugins one plugin at a time. A guarded step
has its failure as an alternative, an unguarded one ends in `raised`.
`EditConfig` changes the files and `Interrupt` leaves between any two steps.
`decided`, `live`, `down`, `ran` and `stored` observe. The pipeline inside the
filter step is any outcome (`Renders`): its own module says which.

**McpServer** is the launcher (`CheckImports`, `Repair`, `GiveUp`) and the
session it hands over to. A call is a thread: `Lookup` is the test of
`SessionDedupCache.seen` and `NoteMiss`/`NoteHit` the update after it, which
another thread may come between; `CheckDb`, `Acquire`, `Recheck`, `Build` and
`Release` are the double-checked lock of `_get_tracking_db`; `Work` is the body
of the tool with each of its outcomes (a full answer, an early one, an error).
Resources and the prompt take no part in the cache. `asked`, `shown`, `lost`
and `built` observe.

**SharedState** is what processes do to the small files: `PruneRead`,
`PruneDelete`, `PruneStamp` (the throttle and the rows are in two databases),
`OnboardRead`, `OnboardWrite`, `Nudge`, `LoadNudge`, `SaveShown`, `SaveCheck`,
and the retention of repository intelligence: `Map` lists the directories,
`Visit` takes one and may delete it, `Evict` removes the one touched longest
ago, `Swept` stamps. `Stop` ends a process between any two. The cutoff of a
prune is a day, because the comparison is one of texts of which only the date
is in one format.

The rest are pure definitions without variables, checked over inputs that grow
an element at a time (**MCAlgorithms**, with the inputs of **MCSources** and
**MCDocuments**). The inputs and properties of the three that do not recurse over
trees or characters are in **AlgorithmCases**, which the proofs share with the
run. **Analytics** is the queries behind `quor gain` and the trace
summary over rows. **Rewrite** is the lexer character by character and the
classifier over tokens. **RepoGraph** is the walk, the resolution of imports,
types and calls, the edges, `compute_hop_distances` and the tiers of a context;
**RepoSearch** the evidence, ranking and merge of a search and the extraction
of terms. **AstSummaries** is what each language module reads off a parse
tree: the body lines, the symbols, the relationships, the import statements and
the blocks they fold into; the trees are those the grammars return, reduced to
the nodes and fields the code asks for. **StructuralDiff** is which versions a
`git diff` command compares, the five phases that match the declarations of two
versions, and the summary that replaces the hunks. **StructuredData** is the
line ranges of long arrays in JSON, YAML and TOML, over documents laid out on
lines, and the cleaning of JSON values.

## 3. Runs

| Run | Instance | Question |
|---|---|---|
| `tracking` | 3 records, 2 flushes, 1 close, batches of 2, interval 2, 2 schema attempts | do the promises of `flush` and `close` hold through every interleaving, failure and kill, does the writer implement the log, and does every record and flush get an answer |
| `pipeline` | masks of up to 2 lines over 2 texts, lists of up to 3 stages: a droppable one bound by the contract, the same with `preserve_patterns`, and a plugin that may do anything | is the early exit invisible, do results match, do their totals cover what is hidden, does PROTECT stand |
| `stages` | every list of 2 configured built-in stages over every content of up to 3 lines of a suitable family | the same exit over the real stages, protected lines, counts and budgets |
| `stages_inline` | `strip_lines`, `remove_ansi` with `strip_inline`, 2 lines | does `remove_ansi` belong on the list of droppable stages (no) |
| `tee` | 2 processes, 2 contents of sizes 1 and 2, ceiling 2, window 1, clock to 3, 2 failures to disable, 1 death, 1 reset | does a footer keep its promise, does a sweep take only what it must, do count and switch agree |
| `intel` | 2 builders, 3 calls, 2 paths, a content that parses and one that does not, 2 changes, one crash, damaged file or change under a builder | is what a call returns, what stays in the cache and what is shown of a file true of the repository |
| `dispatch` | 2 commands, 3 outputs, 5 sets of configuration files of which one is edited once, 2 environments, 4 filters in 3 tiers, 3 sets of installed packages, a stale entry point cache, an interrupt | is what is written what was recorded and no dearer than the raw output, do plugins come down, does one configuration decide, does a dispatch fail open |
| `mcp` | 2 threads, 3 contents, a cache of 2, 4 calls, a checkout or not, `uv` or not | is "unchanged" said only of what was asked for lately and answered, is there one writer, does every call return |
| `mcp_unshown` | the same with 5 calls | was what is called unchanged shown (not always) |
| `shared` | 2 processes, 2 repositories that do not fit together, 3 jobs, a clock of 4 with 2 units a day | does a stamp mean a sweep, do count and tip hold for processes one after the other, is the oldest cache evicted first |
| `algorithms` | each family of inputs up to its bound in `Bound`: 2 rows, 4 characters or tokens, 3 source facts, 5 edges over 4 files, 3 search entries, 2 items of a source file in each language, 2 statements on either side of a diff, 4 elements of an array, 6 TOML lines | do the algorithms agree with what they are for |
| `diff_quiet` | the same instance | is formatting-only always formatting (no) |

Why the bounds are enough. *Tracking*: a batch of 2 with 3 records has a full
batch, an incomplete one, and a record after either; two flushes can overtake
each other and be separated by a record; an interval of 2 has an armed deadline
that is neither new nor due. The proofs remove the bounds. *Pipeline*: the
argument is about one line and one stage at a time; 3 stages give an exit that
is followed by more than one dropped stage. *Stages*: a fault between stages
needs one stage to decide and one to meet the decision; three lines hold a run
with a line before or after it, which is what runs, budgets and import blocks
turn on. Integers have at most two digits. *Tee*: two contents fit the ceiling
one by one and not together; a clock of 3 has a throttled, a fresh and an
expired moment; a lost update takes two processes. *Intel*: a stale cache needs
a build, a change and a refresh, an overlap a second builder in the middle of
the first; two paths have a rename and its bystander, and two changes a rename
and an edit, or an edit and its undoing; one trouble is what the code has to
survive, and what two do together is what a full rebuild repairs. *Dispatch*:
one edit separates any two reads of the configuration; two plugins have one
that fails before and after another; an output is empty, below and above the
threshold. *Mcp*: 3 contents overflow a cache of 2, and two threads are all that
a race for the lock or for an entry takes. *Shared*: two processes lose an
update, and a clock of 4 has two days and a throttle that has run out.
*Algorithms*: the thresholds of the code (a name list, an inline module list, an
array) are constants with small values there: arrays collapse beyond 2 elements,
of which 1 is kept; a graph of 4 files has a path of 3 hops with a shortcut and
an unreachable file; a range is wrong at its ends, so one element on either side
is enough, and 2 neighbours share a line or have a comment between them. Two
statements of a diff are a function and the helper it gave, or a method and the
class it moved to.

Runs that say `CHECK_DEADLOCK FALSE` have programs that end: `execute` returns,
`close` joins the worker, clocks, calls and inputs are bounded. `dispatch` and
`mcp` check deadlock, with a step for the end.

Fairness. In `tracking` the worker thread is scheduled and time passes (`WF` on
`Worker` and `Tick`); nothing is asked of callers, and the properties excuse a
worker that is gone. `Worker` includes its failures: a failed INSERT settles the
record with a warning. In `mcp` a thread with a call goes on with it and so does
the launcher (`WF` on `Step` and `Launch`), and a thread that waits for a lock
freed again and again gets it in the end (`SF` on `Acquire`): Python's lock makes
no stronger promise, and without it two threads could starve a third.

## 4. Proofs

The theorems hold for every value of the constants that the ASSUME of the
module allows: any number of processes, threads, builders, records, files, any
limits and sizes. Every safety invariant and action property that a run checks
of a component with state is one of them, and so are the reports, the search and
the graph among the pure algorithms; the end of this section names the rest.
The method is the same everywhere. The properties are seldom inductive, so each
module states an `IInv` that adds what a process has read and not yet used, and
what a step under way still owes; `InitIInv` and the `Step...` lemmas show that
it holds and is kept, one case per action, and the theorem follows. TLC checked
each `IInv` as an invariant of the instance of the run before it was proved
(2,250,324 states for `Dispatch`, 3,905,892 for `RepoIntelCache`). A theorem
named `TypeCorrect` or `TypeIsInvariant` is the `TypeOK` of its module.

**TrackingDBProofs**: a `flush` which answered True is honest
(`FlushIsHonest`), a `close` whose worker stopped is honest
(`CloseAfterStopIsHonest`), order, deadlines and no silent loss
(`OrderAndDeadlines`), and the writer implements `DurableLog` (`Refinement`).
Assumed is only `TrackingAssumption`: the sizes are positive. That a flush
covers its records follows from where its Event stands in the queue. `IInv` adds
that the records in the queue are in order and behind everything staged or
settled, that every record behind an Event or the stop item is younger than what
it promises, that nothing lies beyond what was issued, and what the thread's
state says of the schema. A lemma on `Tail` and `Append` carries the queue
conjuncts.

The module also has the reports that are computed from the rows
(`ReportsAlwaysAddUp`). `ReportsOfAWindowAgree`: over any table, project and
window of days, the totals of `quor gain` are the sums over its parts. Each
report groups the rows by what its line shows, and the sum over all rows is the
sum over the groups of the sums in the group (`SumByFibres`).
`ReportsStayInTheProject`: rows of another project change none of them; the two
selections are one set. `SummariesEndAtTheOutput`: the stages of a trace take
together exactly what separates the input from the output, each grouped under
its type, because each begins where the one before it ended; a stage that failed
or was skipped took nothing. A row has sizes that are numbers (`Table`), and a
stage that ran leaves a number of tokens (`GivenStages`).

**PipelineProofs** has two parts. The first is about any texts, stages and
lists: the early exit is invisible (`EarlyExitInvisible`), results match stages
with early exits as a suffix (`ResultsInOrder`), the total of a trace covers
what the mask hides (`TotalsCover`), and no step of an unchanged line count
takes PROTECT away (`ProtectStands`). All but `TotalsCover` are read off one
invariant, which rests on `PipelineContract`: masks are closed under the stages, and a droppable stage,
given a mask with no line left to decide, keeps its line count, what it hides,
and the text of what it protects. The invariant is that before the exit both
runs are equal, and after it they agree on every decision that shows and on
every visible text, while the rest of the list stays droppable. The total is
inductive as it stands: a step appends a result and hides at most as many more
lines as the result says. What takes an argument is the sum, a recursive function
on the results, whose existence comes first (`RunningTotalExists`) and which a
longer list continues (`TotalsAgree`).

The second part is about the built-in stages as `Stages` defines them, with
`OnlyBuiltIn` (the outcome of an entry is what `apply` returns) as the
hypothesis on a run; patterns, limits, lists and masks are any. None of it uses
the contract.

- `DecidedLinesStand`: with no line left to decide and no `preserve_patterns`,
  each stage type of the code's "hand-audited" list returns the mask it was
  given. `BuiltInStagesKeepTheContract` follows: the contract above is not an
  assumption for them. `remove_ansi` with `strip_inline` is excepted in both, and
  `stages_inline` shows why.
- `ProtectedSurvives`: a protected line is in every later mask, with its text,
  in order, protected. Stages that keep the line count rebuild a mask from the
  places of the old one (`CarriedInPlace`, `CarriedOn`). The three that do not
  (`group_repeated`, `path_prefix_fold` and the AST summaries) replace runs of
  lines by pieces, and `PiecesCarry` says that pieces which each carry their own
  protected lines carry all of them when they are joined; the place of a line in
  the result is its offset in its piece and the length of the pieces before it
  (`FlattenPlaces`). `group_repeated` does so once per pattern (`GroupFold`).
  The texts are `LineTexts`, records over any bodies and directories that
  include what the stages themselves write.
- `CountsAddUp`: a fold writes a line with the number of lines it stands for, and
  the numbers in the output of any list of the folding stages add up to the lines
  of its input. Two hypotheses say what that needs. The lines given carry no
  count of their own, and the patterns of one `group_repeated` do not overlap:
  its passes run one after the other, so a later pattern that matches the line
  an earlier one wrote folds that line as one. `imports` and the AST summaries
  state other numbers and are not among these stages.
- `BudgetHolds`: `max_tokens` leaves no more KEEP text than its limit. The greedy
  choice passes over lines that do not fit and goes on; `SpenderExists` is its
  running account as a function on positions, `GreedyFits` that the account
  never exceeds the limit, `TailFits` the same from the other end
  (`SumMirrored`), and `KeptFits` joins them. With `both` the halves are at least
  a token each, so limits of 0 and 1 may be exceeded up to 2: the property says
  `2 * half` there.

**TeeProofs**, from `TeeAssumption` (finitely many contents of sizes of at least
1, limits that are numbers, a failure limit of at least 1): footers keep their
promise (`FootersHold`), a counter at its limit never stands beside an open
switch (`SwitchIsClosed`), and a step that removes rows takes what is past its
age and beyond that only the oldest, only down to the ceiling
(`SweepsTakeTheOldest`, an action property). `FooterInv` is the promise from the
write on, when nobody has been told yet: what a process wrote at `seen[p]` is
there or was evicted for as long as the window lasts from then; and no process
sweeps by a time still to come, without which a slow process could take what
another has just written. The eviction compares sums over sets of rows, by
`SumOfOneMore` and `SumIsMonotonic`.

**SharedStateProofs**, from `SharedAssumption` (a day has units, limits are
numbers): `StampsAreTrue`, `CountsAreTrue`, `TipsAreBounded` and
`OldestIsEvictedFirst`. `StampInv` extends the meaning of a stamp back to the
commit of the delete, with the time the process carries since its read, and
`Day` is monotonic, so a later clock moves no cutoff back. `CountInv`: until two
processes have met between read and write, the one between them knows the true
count and is alone there. `NudgeInv`: the same for each repository, with `disturbed` where two
nudges overlapped. A map began in the past (`MapInv`).

**McpProofs**, from `McpAssumption` (a cache of at least one entry):
`DatabaseIsBuiltOnce`, `ServerHasItsImports`, `MarkersHaveAnAnswer`,
`MarkersAreRecent`. `LockInv` is mutual exclusion of the locked region and what
a thread that builds has seen under the lock. `AnswerInv`: a digest in the cache
was answered, or belongs to a call that has noted it and has not returned.
`RecencyInv`: for each entry of the cache there is a mention in `asked` with the
same contents behind it, which is why a cache of `MaxSize` entries speaks of the
`MaxSize` contents asked for last although another thread may come between the
test and the update.

**DispatchProofs**, from `DispatchAssumption` (filters with an `on_empty` text
mark it as theirs, a captured text is nobody's work, the last resort of the
configuration answers something): `DispatchHasOneConfiguration`,
`RecordsAreDelivered`, `AdditionsAreFree`, `PluginsAreShutDown`,
`DispatchFailsOpen`. First come lemmas on what the registries return: a lookup
finds a filter of a tier, registration and removal keep every other plugin,
`InCategory` lists each enabled plugin of a category once. `ConfigInv` says
what has been read by each step and that no step puts another in its place;
`TextInv` carries the price of the text through plugins, filter, tee and
instruction (dearer than the raw output only by a plugin or an `on_empty`);
`EndInv` that what ran is known until it is written; `PluginInv` that the
initialised plugins and those still to initialise are the registered ones, and
likewise on the way down.

**RepoIntelProofs**, from `CacheAssumption` (at least one path, and `None` is
neither a content nor a fingerprint): `AnswersStayCurrent`,
`CacheRestsConsistent` and `ShownContextStaysTrue`, through any number of
overlapping builders, edits, damaged files and crashes. The theorems have a
hypothesis, `[]RenamesKeepTheLanguage`: no diff pairs two paths of different
languages. It is there because without it the claims are false (section 5: the
facts of a renamed file move with it, and no later call corrects them). Where
all paths have one language, as in the run, it always holds. The invariant has
five parts. `StampInv`: two fingerprints of one stamp anywhere (the repository,
`state.json`, a builder's memory) are of one content. `LoneInv`: which builder
runs alone. `MemoryInv`: what such a builder holds at each stage, table by
table, so that the tables it saves are the facts of the repository whichever
way it got them: loaded, relocated or parsed. `DiskInv`: the tables on disk
describe the state beside them, or somebody has saved the state and still owes
the table; this is the window in which a crash leaves a partial cache. `RebuildInv` is what a full rebuild leaves,
and `IntelInv` what an entry of `file_intelligence.json` says of every file of
its stamp.

The search over the cached entries (`SearchAlwaysFindsTheStrongest`), for any
entries, queries, filters, texts and limits: `ShorterSearchIsABeginning`,
`MergeLosesNothingStronger` and `TermsOfATextComeInOrder`. The rank of a match is
a tuple compared place by place, with the path last, so it is a strict total
order and the ranking lists every match once (`ListsAreComplete`). The merge
keeps the best of several answers, each cut at the limit before. A file that was
cut from the answer of its best query is missing there because the limit is full
of files at least as strong, and the merged list begins with files at least as
strong as those. The alphabetical order of paths is a constant;
`PathsAreOrdered`, which TLC evaluates, says that it is a strict total order.

The graph of the repository (`GraphIsAlwaysTrue`), for any files, whatever they
declare and import:

- `DistancesAreShortest`: `compute_hop_distances` gives each file the length of
  the shortest chain of imports in either direction, for any start and cap.
  `Searching` is the invariant of the loop: the queue is sorted by distance and
  spans at most one hop; every distance but the first is one more than that of a
  file nearby; all that is near a file that has left the queue has been met, no
  more than a hop further; and as many files have been met as have been visited
  or wait. The last of these shows that the queue is empty after as many visits
  as there are files, which is why the model may stop there. The rest gives,
  hop by hop, that the files met within `n` are the ball of radius `n`.
- `ContextIsTheNeighbourhood`: the tiers of a context are the files at 0, 1 and 2
  hops, each shown once.
- `EdgesLeadWhereFilesSay`: an import resolves to a file of the walk or to none
  (`TargetsAreFiles`, language by language), and a symbol of another file is
  reached along an import that binds its name (`BoundAlongAnImport`).
- `WalkOrderDoesNotMatter`: a walk backwards has the same paths, and the places
  of a declaration are the same up to a reflection (`ReversedCount`), so every
  file resolves as before.
- `GraphStaysInTheIndex` asks that no two files have one path. `FactsGiven` is
  the hypothesis of the two before it: the extractors return sequences, and a
  file has a path.

**OperatorTheorems** holds lemmas only. They are about the community operators
these proofs need, are true whatever the code does, and claim nothing of it by
themselves:
folds over sets, sums (over disjoint parts, by fibres, of differences) and running
totals, repeated steps, flattened sequences and the places of their elements,
lists in an order, `RemoveAt`. The library's
induction theorems take an operator as a parameter and cannot be instantiated by
the provers at hand; where an induction is short it is done here by a least
counterexample (`WFMin` over the naturals), on a recursive function whose
existence comes first.

Only model-checked:

- liveness and everything under fairness (`EveryRecordSettles`,
  `EveryFlushIsServed`, `CallsReturn`), which is out of the prover's reach;
- `SummariesKeepTheOutline` and `SummaryOfADiffIsTrue`, which recurse over trees
  and documents: `AstSummaries`, `StructuralDiff` and `StructuredData` hold
  `RECURSIVE` operators, and a module with those cannot be proved about at all;
- `RewriteIsFaithful`: what the lexer computes is an induction over the
  characters of a command, and its operators are strings put together of two
  characters (`cmd[i] \o cmd[i + 1]`), which the provers know nothing of;
- the expected violations, which are counterexamples.

## 5. Where code and text disagree

The runs that expect a violation, each with the line it refutes under
`findings`:

- `stages_inline`: `remove_ansi` with `strip_inline` sets a hidden line with
  inline codes back to KEEP, so dropping it changes the output.
- `mcp_unshown`: `compress_context` records the digest of a content before it
  reads the configuration and compresses. After a call that failed there, or
  beside one still at work, the same content is answered with "unchanged since
  last shown this session".
- `diff_quiet`: only declarations are compared, so a change of a module's own
  statements (`X = 1` to `X = 2`) is told as formatting-only and its hunk is
  gone.

Some more were found by runs that are not kept, with the property still in its
module where one is named:

- Tracking: `close()` answers True when the worker failed to connect
  (`CloseTrueMeansCaughtUp`).
- Stages: if an earlier stage hid the first import of a run, the others are
  hidden and the block never appears (`ImportsSurvive`).
- Tee: a failure count read before another process disabled the tee writes
  `disabled = 0` over it (`OnlyResetReenables`); when the database that refuses
  the write also refuses the count, the tee keeps trying (`FailingTeeStopsItself`
  needs that the count can be written now and then).
- Intelligence: a full rebuild fingerprints files after parsing them, so a
  change in between counts as seen, and every later call is a cache hit on stale
  facts until the file changes again; a refresh that dies between `save_state`
  and the tables leaves the same behind (`NeverPartiallyStale`; the kept
  properties hold with the observer `sound`: no call was disturbed or cut since a
  full rebuild that ran alone). A rename moves the facts of the old name:
  `a.py` renamed to `a.txt` stays indexed as Python, and the other way round is
  not indexed until it is edited.
- Retention: the age is compared as text, and only the dates of the two formats
  compare, so rows live up to a day longer than `max_age_days`
  (`NoRowOutlivesItsAge`).
- Dispatch: a plugin of a lower tier with the id of the built-in one is
  announced as shadowing it, and both run (`OnePluginPerId`); the configuration
  fallback raises out of a dispatch that "never raises" (`NeverRaises`).

Met while modelling, without a run:

- *Intelligence*: a cache hit that finds no `file_intelligence.json` may write
  it from the tables another builder is about to replace, with the new stamps
  (`ShownContextIsTrue` asks for the observer `apart`); a file that was only
  touched loses its context.
- *Stages*: `max_tokens` spends its limit on KEEP lines although PROTECT lines
  alone exceed it; `_apply_ast_summary` promotes hidden lines that match
  `preserve_patterns`; `path_prefix_fold` changes the line count, which the
  engine calls something that "should not occur", and `_enforce_protect` then
  looks away.
- *Tee*: a success can be recorded while the tee is disabled.
- *Dispatch*: plugins of the FILTER category never run; a plugin that returns no
  result undoes what the earlier ones of its category did.
- *MCP*: a hit refreshes the entry, so "the last 20 distinct contents" are the
  last asked for, not the last shown.
- *Nudge and tips*: "at most 5 times" fails when processes overlap or the
  directory is cleaned up; concurrent tips lose increments.
- *Analytics*: the top filters and read-hook counts of `gain` include synthesis
  rows; effectiveness is "High" when the grand total is negative.
- *Rewrite*: a lone `&` is dropped from a rewritten command; flags that ask a
  transparent prefix for structured output are not looked at.
- *Search and graph*: `merge_search` excludes after the limit of each query, and
  ties are possible where its comment says they are not; ambiguous types of one
  file are accepted; `compute_hop_distances` does not answer as its docstring
  says for a start that has no entry but is imported.
- *AST summaries*: the Rust docstring names top-level functions as callers, the
  code collects methods of `impl` blocks only. In Python, a body on the last
  line of a multi-line signature is hidden with it, a statement that shares a
  line with an import goes with the import block, and methods under an `if` in a
  class are compressed but neither symbols nor callers.
- *Structural diff*: a `def` moved into or out of an `if`, and class and function
  swapping places, are silent; "members changed, see below" has nothing below
  when only attributes changed; the working tree is read after the diff was
  captured; `git diff file.py` without `--` is taken for a revision; paths are
  those of the repository for `git show` and of the current directory for the
  working tree.
- *Structured data*: `toml_fmt.py:31` says of headers it does not recognise that
  "nothing is ever misread". A table with a quoted or indented header that
  follows the omitted blocks belongs to no header the scan knows, so it is hidden
  with them and counted nowhere (`TablesHoldWhatTheyCount` excuses such tables).
  A comment after a collapsed YAML sequence, or above the next TOML header, goes
  too. A projection of a projected array counts the placeholder as an element
  and loses the earlier count; "no genuinely distinct value is ever silently
  dropped" (`collapse.py:18`) is a statement about shapes: values that differ
  are omitted.

## 6. What the models leave out

- Power loss. The database runs with `synchronous=NORMAL`; the models have the
  death of the process, which loses no committed transaction.
- Regular expressions, timestamp formats, path syntax and the language
  grammars: a pattern is a set of bodies, a shape is a field, a tree is given.
  In `RelativeTimestamps` and `NumericRange` the cost of a text is given, not
  measured.
- An import is one line in `Stages`; statements over several lines are in
  `AstSummaries`.
- Token tracking of the trace view (`track_tokens`), which reads and never
  decides.
- The stamp of a tee row is taken with its insert. In the code it is read
  before SQLite grants the lock, so it may be older by the busy timeout,
  seconds against a window of days.
- `show_tee`, which reads a row, and the retry loop around `PRAGMA
  journal_mode`.
- In `RepoIntelCache`: `stat` and hash of one file are one step, and so is
  `build_profile`; a cache file that does not load is like one that is missing
  (only the banner differs); files over the size limit, a file without symbols
  next to one without facts, and the edges, importance and kinds computed from
  the facts are not told apart; two contents with one size and mtime are a
  documented limit of the code and do not occur.
- In `Dispatch`: `apply_filter_pipeline`, the entry of the MCP server, is the
  filter step alone. The TOML schema of filters, the trust store's subprocess and
  the wording of warnings are not modelled.
- In `McpServer`: the wording of the answers and the pruning of tool schemas.
- Not modelled at all: the repository profile, the dashboard and the explorer
  (heuristics over names, and rendering); the secret scan and the orphan sweep
  (detection only, or one best-effort loop); content type recognition (string
  tests); document extraction (third-party formats); session discovery (reads
  another program's transcripts); the commands of the CLI other than `doctor
  --reset-tee`, which parse and print.

## 7. Plan

The components with state are modelled and their safety is proved, and so are the
reports, the search and the graph. What is left:

1. The lexer of **Rewrite** as one step per character (a recursive function on
   positions), which would bring `RewriteIsFaithful` within reach of a proof.
2. The summaries of trees stay with TLC as long as an induction over trees cannot
   be instantiated; **StructuralDiff** could be proved up to its inputs, the
   declarations of two versions.
3. A hypothesis weaker than `RenamesKeepTheLanguage`: only renames whose facts
   are later read need to keep their language.
4. A run of the command line's entry points other than dispatch, with the
   database they open.
