# Formal model of bob-launcher

bob-launcher is a desktop launcher: a window with a query, a list of matches and
a list of actions, kept by one long-lived process.  The interface is
single-threaded; plugins search in shards on a thread pool.  What makes it hard
is the boundary between the two: results arrive after the user has moved on,
hash sets pass from thread to thread without locks, one flag and a handful of
timers stand for jobs that may outlive the window they were started from.

This directory holds TLA+ models of that behaviour, the configurations that
check them with TLC, and proofs checked by TLAPS.

## 1. Inventory

| Part | Source | State | Operations | Correct when |
|---|---|---|---|---|
| event counter | `events.c` | `_event` | `events_increment` (main thread), `events_ok` (any) | a stale search is never taken for the current one |
| source search | `data-sink-sources.c` | `SearchContext` (workers, sheets, set), one `PluginData` per shard | issue, shard task and its destroy function, last task, merge tasks, callback | only complete and current results are shown; each set has one owner and is destroyed once |
| hash sets, ownership | `hashset.c` 1-170, 342-380 | pool of recycled sets, reference to the sheets | create, handle, destroy, grab, return | a set is not reused while anyone still writes to it |
| hash sets, merge | `hashset.c` 172-307 | four buffers, counts, two barrier counters, size | merge task | the list is the best item of each hash, by score; no task hangs |
| result sheets | `result-container.c`, `hashset.c` 309-340 | sheets, queue of half full sheets, `hash_items` | insert, flush, return | no two shards share a sheet; nothing accepted is lost |
| function table | `result-container.c` 11-54 | `g_func_pairs` | `find_or_add_pair` | a slot number means the same pair for ever |
| panes and controller | `state.c`, `controller.c`, `scroll-controller.c`, `main-container.c` | per pane a list, a selection, a query and a cursor; the pane; the rows | every command, click and request; search, timer and clipboard callbacks | what is offered, shown and executed belongs together |
| plugin, action, target lists | `data-sink-plugins.c`, `data-sink-actions.c` | none | build a list for an id | the list is for the query and the chosen match |
| execution | `controller.c` 116-291 | flag, pointer, two timers, two classes, jobs | execute, timers, idle callbacks | the window freezes and thaws as one and never stays frozen |
| query editor | `state.c` 245-431, `query-container.c`, `utf8-utils.c` | text and cursor per pane, composed text, label | insert, delete, words, change of pane | the cursor is in the text; edits go where the label shows it |
| start-up, requests | `main.c`, `app.c` | two abstract sockets, ready byte, unit, window | become the service, start the unit or hand over; toggle, select, open | one service; everyone gets there or ends; the window is as asked |
| plugin loader | `plugin-loader.c`, `search-base.c`, `core/plugin/*.vala` | provider list, default list, connected signals, settings | load, enable, disable, provider and shard changes, shutdown | what a plugin offers is listed once, where it should be |
| scope launcher | `systemd-launcher.c`, `common-launcher.c`, `launch-context.c`, `systemd-scope.c` | child, shared D-Bus connection, scope job; files by handler | group files, fork, place in a scope, execute | each file reaches its handler, each program runs in its scope, no launch hangs |
| scope monitor | `dbus-scope-monitor.c` | names, owners, pending objects, table | D-Bus signals, introspection | the table agrees with the bus once all is handled |
| service start | `systemd_service*.c` | one D-Bus proxy, ready socket | start a unit, wait until it listens | no waiting for ever |
| one-time initialisation | `no-thread-init.c` | a word per location | enter, leave | initialised once, not used before |
| icon cache | `icon-cache-service.c` | tables by name and type, debounce timer | look up, file change, theme change | a stale entry is on its way out |
| result rows | `result-box.c`, `match-row*.c`, `description.c` | pool of rows, visible window | lay out, click, number, highlight | rows show the list the keys act on |
| matching | `fzy/match.c`, `string-utils.c`, `utf8-utils.c`, `highlight.c` | columns kept from the last text | score in three ways, positions, highlight | the best alignment, in each way |
| window, pointer | `launcher-window.c`, `drag*.c`, `*resize-handle.c` | visibility, drags | show, hide, drag | hidden means reset |
| key bindings | `keybindings.c` | table | look up | - |
| matches, drawing, settings | `file-match.c`, `css.c`, `*.vala`, ... | lazily computed values | - | - |
| thread pool and other wraps | not in the repository | external | `thread_pool_run` | every task runs |

How they interact:

- The main loop runs one handler at a time: GTK signals, idle callbacks (posted
  with `g_idle_add_full`) and timeouts.  Handlers call each other directly
  (`state_change_category` calls `controller_start_search`), so a handler is a
  composition and not a sequence of independent steps.
- `controller_start_search` raises the counter and, in the sources pane, posts
  one task per shard.  Each task carries a destroy function; the last one to run
  it decides between merging and dropping the set by reading the counter.
- Merge tasks meet at barriers inside pool threads; the last posts
  `update_ui_callback`, and `state_update_provider` admits the set or hands it
  back for destruction.
- `controller_execute` posts a job; the job answers by an idle callback, and
  finds out from one shared flag whether anyone still waits for it.

The hard behaviour: interleavings of shards, merge tasks and the main thread;
results, refreshes and clipboard texts that arrive late; lock-free tables and
queues; barriers with reused counters; tables and sheets that run out; one flag
for many jobs; processes that start at once; launches that share one connection;
caches against what they were filled from.  `PROJECT.json` lists each hazard at its line with the properties
that cover it, or why none does yet.

## 2. Modules

| Module | Models | State and actions against the code |
|---|---|---|
| `SearchContract` | what an asynchronous search promises, for any implementation | `live` searches, the one `shown`, whether the user is in the sources pane; a search may be issued, answered, or dropped when superseded |
| `SearchPipeline` | the workers' side, from issue to destruction | `owner` is who may touch a set; `task`, `workers`, `mergers` the tasks and counters of each search; `looping`, `queued`, `late` the finaliser's loop and the merge tasks that still touch the set; one action per task stage; the main thread reduced to what it does to the counter, the provider and the pane |
| `Panes` | the main thread in full, the workers reduced to what the contract allows | functions of `state.c` and `controller.c` are operators from a record `ui` to the next; an action is one handler and composes them as the code does |
| `Execution` | flag, pointer, timers and classes of `controller.c` | one action per function that touches them; the job is run / test the flag / post, three steps, since the flag may change in between |
| `ParallelMerge` | `merge_hashset_parallel` and its barrier | work between barriers is one step per task; arriving, loading, sleeping, storing and waking are steps of their own |
| `ResultSheets` | `result_container_insert`, flush and the sheet queue | every atomic operation is a step; plain writes go with the next one; `beyond` says that the queue was left |
| `FuncPairs` | `find_or_add_pair` | every 128-bit load or exchange of a slot is a step; so is the end of the process |
| `HashsetPool` | `grab_hashset_from_pool`, `return_hashset_to_pool` as create and destroy call them | every access to `pool_pos` or a place is a step of the main thread or of a destroyer |
| `OnceInit` | `g_once_init_enter`, `g_once_init_leave` | every access to the slot and every futex call is a step |
| `Startup` | `main`, the sockets and unit of `systemd_service*.c`, the requests of `app.c` | `pc` is where a process is in `main`; binding, listening, connecting, waiting for the ready byte, forking and sending are steps |
| `ScopeLaunch` | a launch from the fork to the program, `create_systemd_scope_lowlevel` | `wire` is the one socket all read from, `mail` what a process has read and not looked at; libdbus is modelled from how it is called |
| `OpenFiles` | `launch_files`, `launch_uris`, argument lists, `path:line:column` | an item is what the code tells apart about a URI; `groups` is keyed by the display name of the handler; one step per item grouped and per name launched |
| `ScopeMonitor` | the thread of `dbus-scope-monitor.c` and `on_dbus_event` | blocking calls split a handler where the bus can change in between; signals wait meanwhile |
| `PluginLoader` | `plugin-loader.c`, the settings of `search-base.c` | each action is a handler with every notification it sets off, in the order of the connections |
| `IconCache` | `icon-cache-service.c` | look-up, change on disk, report, timeout, change of theme |
| `QueryEditor` | edits of `state.c`, characters of `utf8-utils.c`, label of `query-container.c` | one action per command; the label is rebuilt where the code rebuilds it |
| `ResultRows` | `update_layout` of `result-box.c`, rows as handles for commands | a row is the event and index it remembers; search, move, click, number, enter and leave a pane |
| `FuzzyMatch` | `match_score`, `match_positions`, `match_score_column_major`, `highlight_calculate_positions` | operators with the recurrences of the code as folds; the actions walk from text to text as a caller does |

`MCSearchPipeline`, `MCPanes`, `MCMerge` and `MCPhantom` give bounds and values for one
module each.  `MCMemory`, `MCLaunch` and `MCDesk` put together several modules that share no
variable: a variable `part` chooses at the start which of them a behaviour is
about, so the state spaces add up instead of multiplying, and nothing passes
from one to another.  `Desk` is such a composition without the values, which are in
`MCDesk`.  The modules named `*Proofs` hold the proofs of section 5; each extends the
module its runs are about, so that run and theorem speak of the same definitions.

`SearchPipeline` and `Panes` each refine `SearchContract`, which is how the two
halves of the search compose: `Panes` may use any search the contract allows
(any number of late answers, in any order), `SearchPipeline` shows that the
workers do no worse.  In `SearchPipeline` the counter, the id of the provider and
the id of the front pane stand for the panes; `Panes` shows these move as
the pipeline assumes.  `ResultSheets` ends where `ParallelMerge` begins: with a
`hash_items` without holes, duplicates included.  `QueryEditor` and `ResultRows`
refine what `Panes` leaves arbitrary (the next query, the rows); which panes can be
entered is settled in `Panes`.  `OpenFiles` ends where `ScopeLaunch` begins.

Abstractions.  In `Panes` a query, a pair of functions and a match are model
values and an edit replaces the query by any other.  What a plugin finds, what a
regex matches, how lists are ranked and what an action does are arbitrary
choices.  Memory is sequentially consistent: the relaxed and acquire/release
accesses of the code are taken in program order, and reorderings that weaker
hardware allows are not explored.  Allocation failures are left out.

A `Faulty variant` or `mutant` in a module is a mutation of a definition, named
`<Definition>_<Fault>`; it is not part of any specification.  For every property of a
passing run there is one that breaks it.

## 3. Runs

| Run | Question | Bounds, and why they are enough |
|---|---|---|
| `pipeline` | Are answers complete, sets owned by one party and searches answered, whatever the main thread does? | 3 events, 2 shards, 2 merge threads. Three searches give a shown one, a stale one and a current one; two shards give a first and a last task, and two merge tasks one that is late. A query that selects none is included; one that selects a single shard is not (`SomeSelections`) |
| `panes` | Do the four panes stay consistent under every order of handlers? | 6 events: enough to walk through all panes and back with a late search, refresh or paste on the way; two plugins, one that refreshes; lists of zero, one and two matches; actions with and without target; two queries |
| `merge` | Is the merged list right, do the barriers hold? | 3 tasks over all seven barriers and the last arrival: one can be two steps ahead of another's wake-up. Lists of up to 3 items over 2 hashes and 2 scores, the first of the lower score (`FirstIsWorst`): chunks of one item and none, runs across a border; digits of base 2 and two passes per key instead of 256 and 4 |
| `memory` | Are table, sheets and pool right with concurrent use? | `FuncPairs`: 3 threads, 3 pairs, 2 slots, so two may want the same pair, and the table overflows. `ResultSheets`: 3 shards, 2 sheets of 3, 7 inserts, one more than fit, with fresh and returned sheets both running out and one shard more than the queue has places. `HashsetPool`: 3 sets, 2 destroyers, 2 places, so the pool is empty, in use and full. Symmetry under the names of threads and of pairs and sets, which is sound: the run has no liveness property |
| `launch` | Does everybody get what it waits for, and does the window freeze and thaw as one? | `Startup`: two processes and the unit, a backlog of 1, either fork may fail, a plugin may be unknown. `ScopeLaunch`: two launches in every mode, one signal about the job of somebody else; when that signal has come, the launches follow each other (`InTurnWithNoise`). `OnceInit`: 3 threads, one that initialises, one that waits and one that comes late. `Execution`: 3 jobs, one that is late, one that is current and one that is started in between |
| `desk` | Does what the process keeps agree with what it was taken from? | `ScopeMonitor`: 2 names, 2 connections, 3 events on the bus. `OpenFiles`: 3 applications, 2 of one name, 2 items of every kind. `PluginLoader`: 2 plugins, arrays of up to 2 providers, shard counts 1 and 2. `IconCache`: 2 entries, 3 changes each. `QueryEditor`: texts of up to 4 code points of a letter, a separator and a combining mark. `ResultRows`: boxes of 2 and 4 rows, lists of up to 6, 3 searches. `FuzzyMatch`: needles of 1 to 3 characters, every text of 4 over 4 characters, then texts of up to 5 that share a prefix with the last |
| `frozen` | (a finding) | 5 events |
| `score_zero` | (a finding) | 2 tasks, 3 items |
| `backspace` | (a finding) | as `desk` |
| `phantom` | (a finding) | one needle of 4, texts of up to 11 |
| `backtrace` | (a finding) | one needle of 3, every text of 5 over its characters |
| `scoped` | (a finding) | as `launch` |

`MaxEvent`, `MaxJobs`, `MaxInserts`, `MaxItems`, `MaxNoise`, `MaxChanges`, `MaxVersion`, `MaxLen`,
`MaxCursor`, `MaxSize` and `MaxText` bound what the code does not bound (or bounds far
higher).  Deadlock checking is off in every run: the program may rest when the
user does nothing, a merge, a search or a launch ends, and the bound on a
counter stops the rest.

What the runs show, by property:

- `CompleteAnswers`: shards skip and plugins cut short without leaving any mark
  when the counter moves.  A set is nevertheless complete once it is merged,
  because the decision reads the counter after all shards are done and the
  counter never returns.
- `OnlyLateTouches`: no shard task touches a set that was handed on, and a set
  destroyed without a merge is touched no more.  Of one that was merged the merge tasks
  but the last still compare with `merge_workers` and take their duplicates off the size,
  and the finaliser's loop reads `merge_workers` once more; this is all, and only
  after every merge task was queued.  That one of them may hit a set already destroyed
  (`astray`) is part of the model, which ends there (section 6).
- `NoLeak`, `SearchIsAnswered`: at any time each set will yet be the provider that is
  shown or end destroyed, so one that is replaced is destroyed (its mutant drops that);
  and an answer for each search that nobody overtakes.  Both speak of searches with at
  least one shard (section 6), until a late touch goes astray.
- `ImplementsContract` (twice): a late answer never takes the user out of another
  pane nor replaces a newer list.
- `ChoicesMatch`, `JobIsWhole`: the actions offered are those of the selected
  source, the target is for the selected action and the typed text, and that is
  what is executed.  `state_update_provider` guards this by comparing with the pane the
  user is *in*; comparing with the pane being replaced would not do (its mutant).
- `DisplayedAnswersQuery`: with no current search in flight the list is for the
  query and the plugin on the screen.  `InitialStateIsClean`, `PanesInv`: what
  three separate loops over the panes and the refresh timer must keep in step.
- `FrozenTogether`, `SomeoneThaws`, `Thaws`, `ExecutionInv`: keys, pointer, timers and
  classes agree although a late job may act on the flag of another; a frozen
  window has someone under way who thaws it; an error is shown as long as its timer
  runs.
- `MergedRight`, `MergeInv`, `MergeEnds`: the two-counter barrier is safe to reuse
  and loses no wake-up; the result is the reference list; the size may be
  published too large for a moment, never too small.
- `FuncPairsInv`, `SlotsAreFinal`, `ExitMeansTooMany`: no pair takes two slots, every
  answer is right and stays right, the process exits only when it must.
- `SheetsInv`: a sheet has one holder, copies into `hash_items` stay apart, every
  accepted match is listed once and fits.  The queue of half full sheets is left only by a
  search of which more shards found something than there are sheets (`QueueSuffices`);
  the code does not exclude it, the run reaches it, and the model ends there.
- `SetsHaveOneHolder`: the pool of sets keeps each set in one hand, up to the moment
  when main thread and destroyer meet in one place of the pool.  That they can
  is a defect (section 6); the property says that it is the only way.
- `StartedAsAsked`, `EveryoneLeaves`: on either way to a service the window ends as
  the command line asked, in spite of the extra toggle of the unit; no process
  waits for ever however many start or fail.  `Expected` states the three exceptions: an
  unknown plugin hides the window, a request whose sender could not be forked is never sent,
  and a plugin request may overtake the unit's toggle.
- `ScopedWhenAlone`, `LaunchSettles`: a launch that has the connection to itself runs
  in its scope and comes to an end, answered or not, unless its own signal was queued
  behind another message and thrown away.
- `OneInitialisation`, `NobodyStaysAsleep`: one registration, no lost wake-up.
- `TableMirrorsBus`: an application that registers late, changes its name's
  owner or leaves while the thread waits for an answer is neither missed nor kept.
- `OneLaunchPerName`: each name of an application gets one launch with just the items
  meant for applications of that name, in order, for each placeholder; the application
  is that of the first of them.  So an application opens just its own items unless
  another has the same display name (section 6).
- `OffersAreListed`: after any sequence of settings, activations and new offers no
  provider is searched twice, forgotten, or deaf to its settings.
- `StaleIsPending`: a look-up in the middle of a burst of changes does not survive it.
- `CursorInText`, `EditsWhereDrawn`: the cursors of cleared panes do no harm; what is
  typed goes where the label shows the cursor.
- `RowsShowTheWindow`: reused rows name the match they show.
- `ScoresAreBest`, `HighlightsAreWhole`: three ways to one score, against the
  maximum over all alignments; nothing half is highlighted.  Both are about short needles
  and texts (`Short`): see `phantom` and `backtrace` in section 6 for the others.

## 4. Fairness

- `SearchPipeline`: weak fairness of each stage of each task, of `UpdateUi` and
  of `Destroy`.  The pool runs every task it is given, plugins return, and the
  GLib main loop dispatches what was posted.  Handlers are not fair: the user
  need not do anything, which is why the answer is promised only for a search
  that is not overtaken.
- `Execution`: actions return, posted callbacks run.  Timers and user are not fair; the
  window thaws without them.
- `ParallelMerge`: each merge task has a thread (it takes part in barriers, so it
  must).  The pool is external; that it starts all tasks of one merge is an
  assumption, listed as a hazard.
- `Startup`: a started process and its forked child are scheduled, time limits run
  out, and a service accepts.  Nobody has to start or to quit anything.
- `ScopeLaunch`: forked processes run and their calls time out (libdbus gives every
  blocking call a limit), and systemd ends a job it has started.  Neither it nor
  an application need answer a call, and nothing is fair for the signals of
  others.
- `OnceInit`: threads run.
- The other modules state no liveness and need none.

## 5. Proofs

TLAPS proves, for all values of the constants under the assumptions named in the
modules:

| Module | Theorems | Assumptions on constants |
|---|---|---|
| `SearchPipelineProofs` | `PipelineCorrect`, from it `PipelineTyped`, `AnswersAreComplete`, `HandoverLeavesLateTouches`, `ProviderIsUnique`; the refinement `PipelineImplementsContract` | `PipelineAssumption`: finitely many shards, at least one merge thread |
| `PanesProofs` | `PanesCorrect`, `ChoicesStay`, `DisplayIsRight`, `InitialIsClean`, `JobsAreWhole`; the refinement `PanesImplementContract` | `PanesAssumption`: lists are sequences, there is a plugin and the empty query |
| `ParallelMergeProofs` | `TasksInLockStep`, `MergeInvariant`, `SizeSettles`; `MergeKeepsInv` and `MergeIsRight`, with the hypothesis that no score is 0 | `MergeAssumption`: at least one task; hashes and scores of two digits |
| `ResultSheetsProofs` | `SheetsCorrect` | `SheetsAssumption`: at least one sheet, of a size, finitely many shards; `NoneAssumption` |
| `MemoryProofs` | of the function table `TableCorrect`, `AnswersAreRight`, `SlotsStay` (an action property), `SlotsAreNotWasted`, `ExitIsJustified`; of the pool `OneHolderPerSet`; `MemoryIsItsParts` | `FuncPairsAssumption`: at least one slot, finitely many pairs, a free slot is no pair; `PoolAssumption`: the null pointer is no set, the main thread no destroyer |
| `LaunchProofs` | `InitialisedOnce`, `RequestFulfilled`, `OwnScopeWhenAlone`; `ExecutionCorrect`, `ExecutionFreezesTogether`, `ExecutionIsThawed`; `LaunchIsItsParts`, `LaunchTyped` | `StartAssumption`: the unit and nobody are no processes; `ScopeAssumption`: nobody is no launch |
| `PluginProofs` | `PluginsAreListed` | `PluginsAssumption`: no plugin is loaded twice, plugins offer providers of their own, none twice in one array, shard counts are numbers and 1 is one |
| `DeskProofs` | `StaleEntriesGo`, `CursorStaysInText`, `EditsGoWhereDrawn` (an action property), `TableFollowsBus`, `RowsShowWindow`, `FilesReachHandlers`; `DeskIsItsParts`, `DeskKeepsStep` | `BusAssumption`, `OpenAssumption`: nobody is no name, owner or application; `IconsAssumption`, `RowsAssumption`: the bounds are numbers and a box has a size; `QueryAssumption`: what is inserted is text |

The numbers that a run has to keep small are free in the theorems: searches,
shards, merge tasks, items, threads, sheets, sets, places, queries, plugins, lists,
processes, launches, names on the bus, files, rows and code points.  Fixed are what the
modules fix: four panes, two digits per sort key, two counters in the barrier, the three forms of a command line in `OpenFiles`.

`MemoryIsItsParts`, `LaunchIsItsParts` and `DeskIsItsParts` say that a behaviour of a
composition is one of each of its modules.  So what is proved of a module holds
of the specification that the run checks; `DeskKeepsStep` and `LaunchTyped` draw that
conclusion.

Why the invariants are what they are:

- `PipelineInv`.  It holds up to the moment a late touch goes astray, where the model ends.
  `CompleteAnswers` is not inductive: it needs that the last task
  is the last (`WorkersCount`: `workers` is the number of unfinished tasks), that
  nothing of a search was skipped while the counter stands at it
  (`NothingSkippedYet`), and that tasks exist only for shards of an issued search
  (`TasksAreShards`).  That an admitted search is newer than what it replaces,
  and is admitted only in the sources pane, is `FrontGuards`: a search that is
  still live was issued before the front pane was left, or is younger than the
  list in front.
- `PanesInv`.  That the choices match needs what a late answer may find: a list
  ahead of the pane is empty (`NothingAhead`), a search in flight is no newer than
  the counter and, outside the sources pane, older than the list in front
  (`SearchesAreOld`), and the current one is for what is typed (`SearchIsCurrent`).  Each operator for a function of `state.c` has
  a lemma that says what record it returns; the searches leave the panes `Settled`;
  every handler is then shown to keep the invariant and to do no more than
  the contract allows (`Moves`), so that the refinement needs no argument of its own
  about single handlers.
- `ExecutionInv` is already inductive: the conjuncts need each other only in
  `Finish`, where a job that finds the flag clear says nothing.  `SomeoneThaws`
  holds since the flag is raised before the job is posted.
- `ParallelMergeProofs!Inv` has three parts.  `BarrierInv`: the counter of the foremost
  barrier is the number of tasks that have arrived (`Gathering`) or was put
  back, and then all are behind it (`Open`), while the other counter is 0; so the two counters
  can take turns.  `DataInv` says of each segment what holds once a task has done
  its part (`Past`), of each buffer what holds once all have (`Over`) or none has
  (`Untouched`).  The step that matters is arithmetic about sets: a prefix sum is the
  size of a set, so the place that a task computes on its own is the rank of
  the item (`Placed`), ranks are one to one and onto, and a pass permutes its source
  stably (`PassSorts`).  Borders that moved past runs of equal hashes still share
  the places (`BorderSplit`), and no region cuts a run (`RunIsWhole`, `RegionEnds`), so
  one task's dropping does not move another's borders (`Deduplicated`).
  `SizeRight`: the size is what it should be but for the duplicates of tasks that
  have not subtracted theirs.
  `MergedRight` and `PublishedSize` are proved for scores other than 0: with 0 they are false,
  by the finding `score_zero`; `SizeSettles` needs no such hypothesis.
- `SheetsInv`.  A shard takes a sheet from the queue without a lock: each place is given to one
  shard, is empty until that shard stores its sheet, and no reader passes it before
  (`QueueInv`).  The writers' position is at most the number of shards that have ended, and
  a shard that returns a sheet has found something, which gives `QueueSuffices`.  A reservation in `hash_items`
  fits because each reserved place stands for an accepted match of its own, and
  accepted matches sit in distinct cells of the sheets (`AcceptedFit`); this is also why
  copies stay apart (`CopiesInv`) and nothing is listed twice (`EntriesInv`, `NamesInv`).
- `PoolInv`.  The kinds of holder exclude each other (`Kinds`); a place between the
  exchange and the store of a destroyer belongs to it alone (`PlacesInv`).  It holds
  until the main thread and a destroyer meet in one place (`raced`), which is the
  defect of section 6, and nothing is claimed afterwards.
- `FuncPairsInv`.  `NoDuplicates` needs to know what a thread has already passed:
  every slot below its index holds some other pair than the one it wants
  (`Passed`), and the table is filled from below without a gap (`Dense`), so
  that two threads that want the same pair meet at the same free slot and only
  one exchange succeeds.  `Full` relates the end of the process to the number of
  pairs asked for, through `asked`, a history variable.
- `OnceInv`: whoever has won the exchange is alone with the slot in progress
  (`WinnerInv`), and whoever is about to read it finds the type unless its first
  look fell into the initialisation (`ReadersInv`).
- `StartInv`.  A process started alone goes one of two ways (`Begun`): it becomes the
  service itself (`Direct`), and its request is still to be sent, waits or has been handled
  (`OwnRequest`); or it starts the unit (`ByUnit`), and the unit's toggle and the reversed
  request are each to be sent, waiting or handled, in either order (`BothRequests`).  In
  each case what is visible follows from who was handled last.  Where the second fork failed
  (`lost`) a request stays to be sent for ever.
- `ScopeInv`.  While a launch that shared the connection with nobody reads, nobody else
  does (`Apart`), and no message on the wire or in its mail can be mistaken (`AllGood`): none answers
  a later call than its last, what answers the call it waits in is about its own
  job, and a removal of its job that succeeded is one of a job that is done.
- `BusInv`.  The changes of a name on their way to the monitor form a chain that ends at its
  owner (`Chained`).  Each entry that the monitor holds or asks about is true or its end
  is on its way (`KnownRight`), and each owner of a name is where something will still
  find it (`UnderWay`): in the names to be scanned, in the question just asked, in a
  signal, or pending with its registration on its way.
- `RowsInv`.  After a layout the rows are a window of the list and all other rows
  are of older lists (`Shows`).  The next layout may move the window of the same list:
  rows that left it on one side take, in order, what was missing on the other, and
  these are equally many; the ranks of the rows then give their order (`Sort`).
- `QueryInv` adds to the property that the label is what `Render` makes of the state.
  Where a cursor stands is a sum over the code points before it; without marks it
  is their number.
- `IconsInv` needs no more than the types.
- `OpenInv`.  Before its launch a name holds the items meant for its applications, in their
  order (`Waits`), afterwards one launch with just these by the application of the first
  (`Served`).  A command line
  is taken apart into its placeholders (`CommandLines`, `ArgvCarries`).
- `PluginInv`.  A provider is wired if and only if it is in the search list, once, and is in
  the default list, once, if its flag says so besides (`Kept`); what a plugin offers
  is wired if and only if the plugin is enabled (`WiredIfEnabled`).  So each handler may be
  looked at as what it does to one set, `wired`; that sorting, removing and adding
  lists keep each element once is shown of `Arranged`, whose ranks are one to one and
  onto (`RankFacts`).

Induction over data is done by hand where it is needed, with a least counterexample or
a set of numbers closed under the successor (`Induct`), and with the existence of a
recursive function shown where the library defines one (`PartsExist`, `FlattenedEach`).

Only model-checked:

- `ScoresAreBest`, `HighlightsAreWhole` and `TypeOK` of `FuzzyMatch`, and so `Types` of run
  `desk`: all of that module is folds of the library, `FoldLeft` over an operator, and
  the library's theorems about them take an operator as a parameter.
- The refutations of section 6.
- All liveness (`SearchIsAnswered`, `NoLeak`, `Thaws`, `MergeEnds`, `EveryoneLeaves`,
  `LaunchSettles`, `NobodyStaysAsleep`): TLAPS does not reason about liveness under fairness or
  `ENABLED`.

## 6. Findings

- `frozen`: while a match is being executed the interface is meant to be frozen
  except for a few commands (`src/src/C/keybindings.h:50`), but the text of a paste requested
  before is appended and searched for when it arrives (`controller.c:385`).
- `score_zero`: duplicates get score 0 "so the items will appear last"
  (`hashset.c:269`).  A match whose plugin has a negative bonus may have score 0
  too, and the stable sort puts an earlier duplicate before it: the match falls
  off the list and an entry for sheet 0, item 0 takes its place.
- `backspace`: a combining mark counts as a character while it is the last code point
  (`utf8-utils.c:51`), and as a part of the one before once something follows.
  The cursor is then one character beyond the text, and Backspace, "to delete the
  character before the cursor" (`data/io.github.trbjo.bob.launcher.gschema.xml:153`), only moves it back.
- `phantom`: -1024 stands for "no match" and takes part in the arithmetic
  (`fzy/match.c`); three consecutive matches lift it above zero.  A needle of
  four characters can so score for a text where its last three stand together and
  the first does not precede them, more than any alignment is worth.  Shorter needles
  need long texts for it: `abc` in `xbca`, 224 times `x` and `bxc` scores too much, and no
  character is highlighted.  This is why `ScoresAreBest` and `HighlightsAreWhole` stop at
  three characters in texts of 100.
- `backtrace`: the walk back "to find the positions of optimal matching"
  (`fzy/match.c:382`) tests the best score up to a place where it means the score of
  a match at that place.  After a required match it can so forget that the one before is
  required too: of `ababc` the needle `abc` lights the first `a` and the last `bc`, worth
  576, and not the last three characters, worth 798.
- `scoped`: two launches at once read one socket, inherited over the fork, and count
  serials from the same number.  One takes the reply and the signal of the other and
  executes its program although its own scope failed, against "Everything
  launched gets its own scope" (`src/README.md:34`).

Seen while modelling and not stated as a run, since no line of the repository says
otherwise:

- A merge task that arrives at the last barrier but is not the last, and the loop of
  `finalize_search`, read `merge_workers` (`hashset.c:184`, `data-sink-sources.c:129`), and the
  task takes its duplicates off the size (`hashset.c:303`), when the set may already have
  been shown, replaced, destroyed and given to another search.
- Files whose handlers have the same display name are all opened by the handler of the
  first of them (`systemd-launcher.c:215`, `332`).
- When the second of the two forks at the start fails, the service comes up and its own
  request is never sent (`main.c:434`); a request for an unknown plugin hides the window,
  even one that is shown (`app.c:70`).
- A search of which more shards find something than there are sheets leaves the queue of
  half full sheets (`hashset.c:312`, `result-container.c:58`).
- A query that selects no plugin starts no task, so nobody finalises the search, its
  set is never destroyed and the previous results stay on the screen.
- `return_hashset_to_pool` moves the position before it stores the pointer: a grab in
  between takes what the place held before (`hashset.c:46`).
- A caller of `g_once_init_enter` that arrives during the initialisation takes
  `IN_PROGRESS` for an initialised slot (`no-thread-init.c:13`).
- After a return from a later pane, rows left over from two lists can show one match
  twice or out of order until the next search (`result-box.c:231`).
- The first column of `match_score_column_major` gives every row of the needle the
  score of a first character (`fzy/match.c:300`).
- A plugin that offers another array of providers leaves those of the old one
  listed; the default list is never sorted (`plugin-loader.c`).
- `common-launcher.c` opens all files with the handler of the first.
- A launch that finds another message queued in front of its `JobRemoved` drops the
  signal and waits without a limit (`systemd-scope.c:227`).

## 7. Not modelled, and why

- Drawing, style sheets, settings bindings, the animation of rows, drags and
  resizing: coordinates and colours handed to the toolkit, no behaviour a model
  would tell apart.
- `file-match.c` and the other matches: lazily computed values, formatting, I/O.
- The inside of the thread pool, the keyboard, the file monitor and libdbus, which
  are not in the repository; they are modelled from how they are called.
- Parsing of desktop files, environments, the content of D-Bus messages, the
  loading of shared objects, what the application builds while it starts.
- The table from keys to commands, the vectorised search for candidates and the
  folding of case: data.
- Weak memory; failures of allocation; the wrap-around of the 32-bit event counter
  (after two to the 31st key presses).

`PROJECT.json` gives the status of each component, and for each hazard without a property
the reason.

## 8. Plan

Done: the search path end to end (`SearchContract`, `SearchPipeline`, `Panes`,
`ResultSheets`, `ParallelMerge`), function table, execution, pool of sets, start-up,
launching, scope monitor, plugin loader, one-time initialisation, icon cache,
query, rows, scores.

Left to model: the pool of sets in one model with the merge (what the late subtraction and
the re-read of `merge_workers`, counted in `SearchPipeline`, do to the next user of a set); the queue of the thread pool
against several merges at once; drags and resizing.

Left to prove: every safety invariant and action property of a run is a theorem
but those of `FuzzyMatch`.  They would need the folds of that module replaced by recursive functions and,
for `ScoresAreBest`, an argument about optimal alignments by induction on both lengths.
