# A verification project for frePPLe

frePPLe is an engine for advanced planning and scheduling. A C++ library (`include/frepple`, `src`) holds the supply
network and the plan in memory and computes plans; a Django application (`contrib/django/freppledb`) stores the data in
a database, lets users edit it and starts the engine as a process. This directory holds TLA+ models of the core of both,
the TLC runs that check them on small instances, and theorems that TLAPS checks for every instance.

    tlasany M.tla                      parse a module
    tlc -config X.cfg MCxxx.tla        run one of the configurations below
    tlapm XxxProofs.tla                check the proofs of a component

Contents: 1 the system and its components, 2 the plan, 3 the modules and the runs, 4 the theorems, 5 disagreements
between code and comments, 6 what is not modelled.

## 1. The system

A planning run goes through these parts:

    web request -> execute_log (queue) -> worker process -> management command -> engine process
    engine:  load -> levels and clusters -> ThreadGroup: one callable per cluster
             callable: for each demand, solve(Demand) -> operations -> flows, loads -> buffers, resources -> operations ...
                       each decision is a command in the journal, and changes the timelines at once
                       commit or rollback; then the safety stock pass
             problems -> export of the plan to the database
    browser: data maintenance page -> requests for rows, posts of changes -> report.py -> the same database

The parts, the state each keeps, its operations, and what makes it correct. Parts marked * are modelled.

| Part | State | Operations and interactions | Hard behaviour; what must hold |
| --- | --- | --- | --- |
| * Worker pool, `ThreadGroup` (src/utils/actions.cpp) | stack of callables and counter under a lock, thread handles | the solver `add()`s a callable per cluster and calls `execute()`, which creates and joins threads | interleaving, refused threads, failing joins: each callable once, a return is complete, the group outlives its threads |
| * Journal, `CommandManager` (utils.h, src/utils/actions.cpp, src/model/actions.cpp) | list of bookmarks with parents and command lists, current bookmark | solver: `setBookmark`, `add`, `rollback(b)`, `commit` | nested trial plans: reverting restores exactly, committing loses nothing, no command refers to a freed object |
| * Planning of a demand (src/solver/solverdemand.cpp) | quantities and dates of the question and the best answer, two bookmarks | asks the delivery operation, accepts, refuses, coordinates, commits | retries, search, exceptions: books agree, nothing planned twice, it ends |
| * Timelines, `TimeLine` (include/frepple/timeline.h) | ordered list of events with stored totals, lists of bounds | flowplans and loadplans insert, move, erase; owners set bounds and calendars | incremental totals equal the sums; bounds are the ones asked for |
| * Task queue (contrib/django/freppledb/execute) | rows of `execute_log`, parameter 'Worker alive', log file | requests submit and cancel, a worker executes, the engine reports | lost updates, two workers, check-then-act: Done means done, every run ends, nothing waits forever |
| * Removal of excess, `OperatorDelete` (src/solver/operatordelete.cpp) | stack of buffers, position in a timeline | resizes and deletes the producers of excess | the walk changes the timeline it stands in: no new shortage, nothing forgotten |
| * Data maintenance page, `upload`, `grid` and jqGrid (common/static/js), common/report.py | rows, open cell, changed cells, selection, icons, dialog, requests under way; records | edit, select, sort, page, save, undo, copy, delete; load rows, apply changes | answers in any order, partial failures, dialogs that stay: changes are shown, guarded and stored as typed |
| * Guided tour, `tour` (frepple.js) | chapter, step, autoplay, timer | next, previous, play, close; leaves for the page of the step | timers nobody holds any more, pages that refuse to be left: autoplay goes on |
| Operation, flow and load solver | stack of states (solver.h), bookmarks | `checkOperation` loops over capacity, material, lead time | depth of recursion, returns that skip the rollback, progress of the loop |
| Buffer and procurement solver | position in a timeline | finds shortages, asks upstream, undoes attempts | reads a timeline that its own decisions change |
| Resource solver | position in a timeline | moves an operationplan to free capacity | termination of the search |
| Cluster loop and safety stock pass (solverplan.cpp) | journal, list of demands | sort, plan, commit per buffer | an exception empties the cluster under a journal that refers to it |
| Operationplans | lists per operation, owner and sub-operationplans, identifier counter | activate, deactivate, delete | links of removed members, unique identifiers |
| Operations and types | durations, quantities, sub-operations | `setOperationPlanParameters` | rounding, calendars |
| Demands | list of deliveries | add, remove, sort on reading | stale order after moves |
| Calendars | buckets with priority, effectivity | value at a date, iterator over changes | overlapping buckets |
| Setup matrices | rules by priority | setup operations, review of later ones | changes the timeline it walks over |
| Problem detection | flags per entity, global flag | recompute on reading | flag tested outside of the lock |
| Clusters and levels | number per entity, global flags | recompute on reading | flags tested outside of the lock |
| Pegging | stack | read-only traversal | cycles |
| Registry of names, `Tree` | red-black tree | insert, erase, rename | balance, unlocked rename |
| Dates, XML, Python, start-up | - | conversion, registration | - |
| Scenarios | status per database | copy, release | status read before a long copy |
| Load and export of plans, forms for one record, filters, reports, connectors | database tables | SQL, HTTP | - |

`PROJECT.json` lists the same parts with their sources ("components") and the hazards at their lines ("hazards").

## 2. The plan

Order: what plans are built on first, then what builds them, then what surrounds the engine.

1. Built: `ThreadGroup`, `CommandManager` with the abstract `PlanJournal`, `SolverDemand`, `TimeLine`,
   `PlanTimeLine` and `OperatorDelete`, `TaskQueue`, `WebPage` with `JqGrid` and `GuidedTour`; `ThreadGroupProofs`,
   `CommandManagerProofs`, `PlanJournalProofs`, `SolverDemandProofs`, `TimeLineProofs`,
   `TaskQueueProofs` and `WebPageProofs`.
2. The rest of `OperatorDelete`: the stack of upstream buffers, fixed and several flows, `scanExcess()`, and the safety stock pass around it with its commits
   (`SolverDemand` stops where that pass begins).
3. `CheckOperation`: the loop over capacity and material with its bookmarks and the stack of states; bounds on depth.
4. `OperationPlans`: lists, owners, identifiers; `DemandDelivery`: the list of deliveries and its sort.
5. `Levels` and `Problems`: the two computations that are repeated while flags say so, tested outside of their locks.
6. `Scenario`: copy, release and worker over the table of scenarios; `Calendar`, `SetupMatrix`, `Tree` as algorithms
   against a reference definition.

Theorem still worth proving: CommitKeepsTotal.

The parts meet in these places: `CommandManager` implements `PlanJournal`;
`SolverDemand` uses of the journal what `CommandManager` shows (Chained: bookmarks form a chain, so a place in a list
stands for one); `PlanTimeLine` extends `TimeLine` with the owners of timelines, and `OperatorDelete` lets a walk alternate
with the changes of `PlanTimeLine`; `WebPage` composes the grid of `JqGrid`, the tour of `GuidedTour` and a server.

## 3. Modules and runs

All runs together take about twelve minutes. State counts are of distinct states. CHECK_DEADLOCK FALSE stands where the program
may really stop: a pool that has returned, a queue that is empty, a user who changes nothing any more.

### ThreadGroup (runs `pool`, `pool_python`)

Correspondence: `main` is the place of the caller in `execute()`, `pc[t]` that of a thread in `wrapper()`, `worker` and
`created` its loop variable and array of handles, `countCallables` the stack and its counter, which change together under
the lock. Actions: `Add`, `SetMaxParallel`; `ExecuteInline` ... `WaitFails` for `execute()`, `WrapperInit`,
`SelectNextCallable`, `RunCallable`, `WrapperFinish` for `wrapper()`. `SelectNextCallable` is one step because the code
holds the lock; the test of `countCallables` in `WrapperInit` is a step of its own because it does not. Both branches of
HAVE_PTHREAD_H are in the model; on pthreads the handle of a refused thread is joined uninitialised, which ends in
`crashed` or an error. A callable that throws is caught by `wrapper()`, so it counts as executed.

`pool`: AtMostOnce, ReturnedMeansDone, GroupOutlivesThreads, PythonStateReleased, the inductive
strengthening PoolInv (types, Accounting, Phases and PythonStates), and Terminates, with 3 cores and up to 4 callables (21,604 states).
Three workers is the smallest number for which one can be created, one refused and one still run; four callables leave a
worker a second one to take. Fairness: weak fairness of the caller and of each thread, because the operating system
schedules threads and callables are finite computations. `unjoined` is the exception of a failed wait, the only end that
leaves threads behind.

`pool_python`: see section 5.

### CommandManager, PlanJournal (runs `journal`, `journal_drafts`)

Correspondence: an operationplan is its life cycle (`allocated`, `flowloads`, `listed`, `identified`, `delivery`) and one
quantity that stands for all a move changes. A command acts when it is constructed (`CreateOperationPlan`,
`DeleteOperationPlan`, `MoveOperationPlan`), is made permanent by `Settle` (commit) and undone by `Revert` (destructor).
`rollback(b)`, `rollback()` and `commit()` take one step per command, so that a state between two commands is a state of
the model. Bookmarks are numbered in list order; `IsChildOf` is reachability along parents. `trail` is history: the plan
after each command.

`journal`: two operationplans, two nested bookmarks and two commands of any kind, with consolidation (460,035 states).
PendingInv: the types, what keeps the journal together (JournalInv) and what is pending (section 4). RevertIsExact: the
plan between two operations is the one of the last decision that was not reverted. Chained: the bookmarks form a chain, so
a rollback reverts all that came after. NothingPending: no leftover of an empty journal. CommitKeepsTotal: a commit neither
loses nor duplicates quantity although activations merge operationplans; not so when a draft that was deleted again
(DraftDeleted) is among those that are merged, which `journal_drafts` shows. ImplementsJournal: the detailed journal
implements `PlanJournal`, a plan with nested savepoints; during a rollback or commit the mapping shows the plan the loop
will end with. Two commands and two bookmarks suffice for a rollback over a nested bookmark with a decision in each. The
symmetry of operationplans is sound: nothing names one.

A command deletes any operationplan that is listed, the drafts of the same journal among them: the constructor of the
delete command tests nothing. In the solver it happens in the safety stock pass, and when solve(Demand) is called again
before the first plan was committed (demand.cpp:86-99, solverplan.cpp:429-432). `journal_drafts`: see section 5.

`undoBookmark()` and `redoBookmark()` are not modelled: nothing in the repository calls them.

### SolverDemand (runs `demand`, `demand_exception`)

Correspondence: `pc` is the place in `SolverMRP::solve(Demand)`; `plan`, `q_qty`, `a_qty`, `next_date`, `range`, `best`,
`remainder` its local variables and the state it shares with the operation solver; `journal[i]` what is delivered of each
demand after the commands of the first i bookmarks. The operation is an arbitrary answer: any quantity up to the question (plus
`excess`, for lot sizes), any date; or an exception that leaves part of its work. `top` and `mark` are the two bookmarks
called topcommand; `top` becomes `Gone` when a commit frees it, or any later bookmark when its memory is used again. The
variable `solver` is the parameters of the solver, chosen from `Settings` at the beginning and kept.

`demand` (763,709 states) looks at five solvers. Replan (autocommit): one demand, every quantity and minimum shipment up to
four units, three dates. InLots: the same at two dates, with an operation that may answer one unit more than it was asked.
Incremental (no autocommit): two demands, two units, two dates, lots, exceptions anywhere, commits and rollbacks by the
user between. OnTime: plan type 2, which ends when the date offered is not the one that was asked. Failing: a replan of
two demands that share the journal, with exceptions anywhere. AnswerIsPlanned: what is planned, what is still wanted and
the answer at hand add up, so no refused or tried answer leaves anything behind. NeverOverplanned; RemainderIsShippable:
what is left to plan is a minimum shipment, but for a lot that the coordination run adds to the answer that was tested
(RestIsShippable, without that exception, is what the comment promises: section 5). NothingLeftPending: in autocommit mode
a demand that returns normally leaves nothing of its own in the journal, whatever other demands that failed have left
there. UncommittedIsUndone: a demand that fails before anything of it was committed leaves nothing of itself pending and
takes nothing from the others. SolveReturns under weak fairness of the planning thread, which is never suspended for good.
Four units are the smallest quantity for which the bisection has a proper middle; dates 0..2 let an answer be earlier
than, equal to and later than the question; two demands are what one's rollback could take from another.

An exception may come from the operation or from userexit_demand, which is called inside the try block of the handler
(line 39), so both are rolled back there. All settings have an iteration threshold of at least 1: with a threshold of 0
the search asks the largest quantity again and again when it is refused (162-172), which is not checked. `scanExcess()`
takes back the commands of excess production before a commit (313, 356, solverplan.cpp:452); it is left out, because
none of those is a delivery and `journal[i]` counts deliveries only.

`demand_exception`: Replan with exceptions, see section 5.

### TimeLine, PlanTimeLine (runs `timeline_calendar`, `timeline_buckets`) and OperatorDelete (run `timeline_excess`)

Correspondence: a timeline is a record; `Insert`, `Erase`, `Update` and `InsertChange` are operators on it, as the
functions are in the code, with `SwapNext`, `SwapPrev` and `Settle` for the walks of `update()`. `Link` keeps the inverted
comparison of the code. An event's number is its address, the last criterion of the order, so the address order of any
two events is part of the instance: the numbers of changes, minima and bucket starts are interleaved. `PlanTimeLine`
creates, moves and deletes flowplans and loadplans, and sets bounds and calendars, with the loop that erases only the
first event. `OperatorDelete` adds the walk of `OperatorDelete::solve(Buffer)`, as the safety stock pass calls it:
`fiter` is the iterator, `excess` the quantity still to be removed, `locked` the flowplans of locked operationplans, chosen
when the walk begins; `GetExcess` is `getExcess()`. `Begin`, `Skip`, `DeleteExcess`, `ResizeExcess` and `Return` are the
walk, one event a step; between two walks the plan changes by any step of `PlanTimeLine`, so a walk meets every plan that
those can make. `before` is history.

An operation has a size minimum, maximum and multiple (`lot`), and a lot of it produces `made` units into the buffer, so
made/lot is the quantity of its flow. `Smaller` is what the flowplan's setQuantity() returns, a quantity of the buffer;
`Resized` is what the flowplan gets when that quantity is then given to the operationplan as its own, which is the same
only when the flow has quantity 1. `Operations` says for each instance which operations there are, and each walk meets
those whose sizes allow the flowplans it finds.

`timeline_excess` (437,125 states): OnhandIsSum: all stored totals equal the sums they stand for after any sequence of
insertions, removals, moves and walks over events of every type. BoundsFollowCalendar: `getMin()` returns what was asked
for as long as no older event is left. NoNewShortage: at the end of every date the walk leaves the stock at its minimum or
where it was, if every operation produces a unit or more per unit of its size; a flow of less than that makes the walk
remove more than the excess. NothingLeft: when the walk is over, no producer that it could delete or shrink is left,
although deleting and shrinking move the events under it, if every operation produces a unit or less per unit of its
size; a flow of more than that makes the walk remove less, or the operationplan grow. Both conditions are needed: without either of them TLC
finds the property violated in this instance (section 5).
Both hold for timelines whose minima are those that were asked for (`Sound`); with a calendar that was replaced (section 5)
the walk counts with minima that nobody wants, and NothingLeft is violated. Two changes, two bucket starts and two minima at
three dates; quantities -2, 0, 2 and 4, so that an event of each sign can pass another of the same and the other sign, and
of the same size. Two sets of operations: Single (lots of two, flow 1) with Twofold (lots of one, flow 2), and Half (lots
of two, at least two of them, flow 1/2) with Single, so that a size may have to be rounded up, or stay, or is converted in
either direction. The two other runs have quantities -1..2. MaxEvent is empty: maxima run through the same code with t = 4.

### TaskQueue (runs `tasks`, `tasks_waiting`)

Correspondence: `row` is the table `execute_log` with a status, where "%" is any percentage, and the two times as
set or not; `pc[w]` and `job[w]` the place of a worker process in `frepple_runworker` and in the management command it
calls; `copy`, `engineCopy` and `cancel[t].copy` the Task objects of the command, of the engine (`global task` in
commands.py) and of a cancelling request. `Task.save()` writes every field, so each read and each save is a step, and a
save overwrites what others wrote. `stamp` says that 'Worker alive' is there and recent; while a worker lives
`CheckActive` may say yes or no, because the stamp is cut to whole seconds and renewed after the five seconds that make it
old, so that there are two workers at times. `logged` is the process whose id is in the log file, which `CancelTask`
kills. Task kinds: a planning run with a process of its own, a command that keeps its row (create model, backup, ...),
a dataset, whose command does not know the row, and a task that the worker does not recognize, as an extension may add one:
it is logged, and then closed like a task whose command has returned. An engine may make the plan ("ended"), exit with code
2 ("stopped", which frepple_run.py:155 accepts as a success) or come to any other end ("failed"). Its first
`logProgress()` reads the row in one step and saves it in another.

A worker may die at any time (`Crash`): its row, its stamp and its engine stay, the stamp lapses, and the engine lives on
as an orphan until it ends (`OrphanEnds`); the code has no recovery but that the next request launches another worker.

`tasks`: two tasks, hence up to two workers, and one incident, which is a cancellation or the death of a worker (259,270
states; with all sixteen pairs of kinds and two incidents ResultStands and the inductive invariant, which contains TypeOK
and DoneIsComplete, were checked once, 2,963,706 states). DoneIsComplete: Done is only written for what was carried out, or
is one of the two cases the code counts as a success without that (an unrecognized task, exit code 2), from whatever copy.
ResultStands: when neither a worker nor an engine, orphaned or not, holds the task, its result does not change but by a
cancellation accepted before. EveryRunEnds: a percentage never stays, unless the worker of the task died.
BusyWorkerDrains: a living worker takes what waits, and so does the one that the next request launches after a death.
Fairness: requests, workers and engines are scheduled, commands and engines come to an end, time passes (the stamp lapses);
nobody has to submit, to cancel or to die. Not modelled: `--continuous`, the status 'Canceling' (commands.py:54), which
nothing sets, so that of the repository's own scripts none exits with code 2, and the death of an engine or of the web server by itself.

`tasks_waiting`: see section 5.

### WebPage, JqGrid, GuidedTour (run `page`)

Correspondence: `JqGrid` is what jqGrid keeps of a table with one editable column, a record with the rows, the open cell
(`saved` is savedRow), the selection and the request for rows under way; its operators are the methods of the library:
`Populate`, `ReloadGrid`, `SortData`, `AddJSONData`, `SetSelection`, `EditCell`, `SaveCell`, `ChangedCells`. `GuidedTour`
is the object `tour` as far as it stays on one page. `WebPage` adds frepple.js (`upload`, and of `grid` the dialogs for
deleting and copying), the server, and the user. A callback of the browser runs to its end and is one action; the user's
click, the handling of a request by the server (`ServeLoad`, `ServeSave`, `ServeDelete`, `ServeCopy`) and the arrival of
the answer (`LoadArrives`, `Saved`, `DeletedOrCopied`, `Refused`) are steps of their own, in any order; requests and answers
get lost. `enabled`, `armed` and `marked` are the state of the icons and of the warning before the page is left; `edits`,
`stayed`, `announced` and `stale` are history: what the user typed and neither saved nor cancelled, that he was warned,
which records he was told would go, that records came or went unbeknown to the grid. `Leave` loads another page, with
everything but the database and the posts under way lost.

`page` (295,489 states): three records and their copies on pages of two, so that records move between pages; at most two
posts under way; five kinds of visit. A careful user (7 clicks, 2 texts) waits for answers, completes what is open, and
does not sort, turn pages or change the set of records with unsaved changes, since that is known to drop them (section 5);
a careless one (4 clicks, 1 text) does anything; the other visits start within a guided tour (3 or 4 clicks). Seven clicks
reach two edits with a save or an undo between them and a sort after. CarefulInv: the types, and what the page keeps to
for a careful user (section 4). UnsavedIsGuarded, of any user: a cell marked as changed can be saved and
cancelled, and the page is not left without a warning. ShownIsExpected, of a careful user: a quiet page shows what is stored,
but for marked cells, which show what was typed, and what is selected is visible. StoresWhatWasTyped: the database changes
only to what he typed last in that very record, and only announced records go; one step of several may fail, or the answer
be lost. AutoplayAdvances: from each step autoplay comes to the next one, across pages, unless stopped or the user refuses
to leave the page. Fairness: timers fire, and the script of the tour comes or fails; nobody has to click, no server to
answer. Hazards that only a careless user meets, cancelled edits that are sent before the rows are loaded again and a
selection that changes under an open dialog, are no violation of these properties but listed in section 5. Abstracted: one
editable column without editrules (no page has any), rows in the order of a column without equal values, no filters, no copies of copies, page numbers that are typed are at most the
number of records, and a step of the tour to another page is one step.

## 4. Theorems

`ThreadGroupProofs` (any number of cores and callables, both platforms; assumptions: the named ones of the module):
Inductive (PoolInv always holds), PlannedAtMostOnce, ReturnIsComplete, GroupOutlives. AtMostOnce is not inductive: that a
callable taken from the stack was not executed needs the account of all of them (Accounting: those up to countCallables
are untouched, each of the others executed or in the hands of one thread); that a return is complete needs that a thread
leaves `wrapper()` only when the stack is empty and that the caller joined one that was created (Phases). One lemma per
action shows that it preserves both, and the theorems follow by PTL. PythonReleased (PythonStateReleased) needs
PythonStates: a thread has a Python thread state exactly while it is in the wrapper and was told to make one, and the
caller, which keeps its own, is never told to.

`CommandManagerProofs` (any set of operationplans, numbers of bookmarks and commands, maximum size, with and without
consolidation): JournalCorrect, ChainedCorrect and RevertIsExactCorrect. RevertIsExact alone is
not inductive: a rollback is many steps, each of which needs that its command reverts exactly what it did. JournalInv has
five parts: TypeOK; Structure (the bookmarks in the list are 0..n and each is the parent of the next; where each loop
stands); Objects (a draft has one create command, before its delete commands); Snapshots (successive snapshots differ by
what the command between them reverts, and the last one is the plan); Deletions (a pending deletion is the only one of its
object). Snapshots and Deletions are suspended during a commit, which makes the snapshots obsolete command by command and
replaces them at its end. Lemmas about sequences and Max of an interval are stated once.

`PlanJournalProofs` (the same constants): PendingCorrect, NothingPendingCorrect, DeletedStaysAllocatedCorrect (where
activation merges nothing; with merging it is false, `journal_drafts`) and JournalImplementsPlanJournal. That an empty
journal leaves nothing pending says nothing of a journal with commands; PendingInv says for each of them what is in the
plan by half: who has no flowplans, no identifier or no place in the list of its operation is the object of a pending
create or delete command (Leftovers), of one delete command only (DeletedOnce), and without merging the objects of the
pending delete commands exist (DeletedExist).

The refinement maps the plan and the snapshots at the bookmarks to the abstract plan and its savepoints; initial states
map to initial states, and the proof has a lemma for each action that says which abstract step, or none, it is: a rollback is one step, at the moment its loop
starts, and its loop stutters; a commit is one step, at its end. Between the two the plan changes command by command, so
the invariant must say what those changes amount to: Settling keeps, for every operationplan, that it is what it was
when the commit began, or was merged into another one or has absorbed one.

`SolverDemandProofs` (any demands, quantities, minimum shipments, dates, lots and settings; a demand is planned once in a
complete replan): DemandTypes, BooksAgree, DemandNeverOverplanned and DemandRemainderIsShippable follow from one invariant,
DemandInvariant. AnswerIsPlanned looks at four places of the loop only; the invariant adds the others. Amounts orders the
quantities at each of them (nothing is asked beyond what is missing, an accepted answer leaves nothing or a minimum
shipment), which keeps what is delivered within its type. Books says what the journal holds, after the attempt and before
the bookmark of the loop, to which the next attempt goes back: without the second part a rollback would prove nothing.
DemandLeavesNothingPending and DemandFailureIsUndone assume nothing of the settings. The first (NothingLeftPending) is about
autocommit mode, where it matters, with exceptions: a demand that failed may have left something (`demand_exception`), so
what the invariant says is that a demand that is being planned adds to the journal only what it has under consideration,
and that all of that is committed at its return. The second (UncommittedIsUndone) rests on Since: until the first commit of
a demand the outer bookmark outlives every step, and from it on nothing differs for the other demands; Attempt
states what all those steps have in common.

`TaskQueueProofs` (any number of tasks, hence of workers, of any kinds, of cancellations and of deaths of workers): TypesCorrect,
DoneIsCompleteCorrect and ResultStandsCorrect. DoneIsComplete is not inductive, because every process saves a whole row
from its copy. CopiesInv adds what may be in those copies: that of a command is a running task until the command has
ended, and Done only after a task that counts as a success (CommandCopies, Accepted); that of an engine a percentage, while
its worker waits for it (EngineCopies); that of a request a task that was not over (CancelCopies). No bound on how many workers
process the queue at once is needed: two that took the same task save nothing that is not due. ResultStands follows, since
besides submission and cancellation only the worker that holds a task, and its engine, write its row; an engine whose
worker died still holds it (InHand), so a death needs no case of its own in CopiesInv beyond the orphan's copy.

`WebPageProofs` (any number of records, posts and clicks, any page size, any chapters, careful users and careless ones):
TypeCorrect and Guarded (UnsavedIsGuarded always holds). UnsavedIsGuarded is not inductive: an answer replaces the rows, and would mark cells under grey icons
if it could carry changed ones. PageInv adds that it cannot (CleanLoad): the rows of a request come from the server, and no
step marks them before they arrive.

CarefulCorrect, ShownCorrect and StoresCorrect are about the careful user: the page shows what he has to expect, and the
server stores what he typed and deletes what he was told. Both follow from Reliable. A page can be relied on when
nothing is replaced or posted but changes (Settled), and then it is Displayed: row by row the record asked for, with what
was typed in it or what is stored, marked if it was typed. To come back to that after an answer, the invariant keeps that
posts and requests for rows exclude each other (OneAtATime: a careful user waits), that a request starts with nothing
open, selected or unsaved and is answered with the page as it is stored (LoadedAfresh), that a post carries what is
still expected of its records (PostIsWanted), and that a dialog that is open was told the truth (DialogIsTrue). That an
edit changes one record needs that the keys of the rows differ: RankedSorts, a lemma
about the order the model gives to the rows of the server, whose ranks differ, so that an injection of a finite set into an
interval of its size is onto. Orphans of pages that were left are
excluded where they matter (`stale`, `Orphaned`), as the properties exclude them.

`TimeLineProofs` (any events of the four types, dates, quantities, values and operations, any number of loadplans and
flowplans; assumptions: the named ones, BucketsFirst = TRUE and OpenEnd = FALSE): SweepTypeCorrect, SumsCorrect,
BoundsCorrect, StockCorrect and NothingLeftCorrect, the last two for operations whose flows produce a unit or more, or
a unit or less, per unit of their size. The two constants are those of `timeline_excess`. They say that a bucketized resource has
its buckets before its loadplans and keeps them, and that no loadplan comes after the last bucket start; without the
second the code's insertion leaves the line out of order, which `timeline_buckets` shows, and without the first a new
bucket start finds loadplans whose totals it does not adjust. NothingLeftCorrect also assumes that the events are finitely
many, so that the iterator's end, a number below all of them, is none of them. Five arguments, each on the one before:

* Sums. `OnhandIsSum` compares a stored total with a sum over a set of events, and a walk adds a quantity to a stretch of
  stored totals. AddsUp relates each stored total to the one of the event before it, which is what one step of a walk
  can keep. That the chain of these relations is the sum is an induction along the line, done with the smallest place
  where the two differ (SmallestOf); that the sum of a finite set does not depend on the order it is taken in is proved
  the same way, over sizes of subsets.
* The timeline at rest, Good: the line is in the order of the events (InOrder), the stored totals add up (Totals; those of a
  bucket start again at its quantity), each list of bounds has exactly the events of its type in the line (Chained), and
  bounds and bucket starts have no quantity (NoWeight). `Insert`, `Erase` and `Update` take a good timeline to a good one. For
  `Update` this needs an invariant of the walk: the line is in order but for the event that walks, and the totals
  are those of a timeline in which it weighs what its old totals say. Each swap with a neighbour keeps it,
  and `Settle` ends it; that the walk ends at the right place is that it stops at the first neighbour it does not pass.
* The plan, PlanInv: OnhandIsSum and the bounds hold of every plan an owner can make, since flowplans and loadplans in
  the line are those that exist (PlansInLine), a buffer has no bucket starts and a bucketized resource none of its
  loadplans after the last (OwnerLine), and the list of a bound that is not stale is its one fixed value or the entries of
  its calendar, the latest first (BoundsHeld); the inverted comparison of `Link` gives this order as long as entries
  are added by rising date. BoundsFollowCalendar alone is not inductive, for it says nothing of dates and events. SweepInv
  adds the walk: its iterator is in the line, or at the end, because it leaves an event before that event is removed.
* The stock. At the end of a date it is the sum of the flowplans until then, so removing or shrinking one takes the same
  from all dates from its own on, and nothing from the others (LevelChanges). `getExcess()` looks at all events from the
  flowplan on, among them the last one of each later date, with the minimum that is valid there (MinimumSeen, which needs
  that the list has the latest minimum first: the property is about `Sound` timelines). So what is removed is no more
  than any of those dates has over its minimum (RemovalLeavesEnough), rounding to a lot included (SmallerIs), as long as the size that is set is not
  less than the one that was computed: NewSizeIs, for flows of a unit or more.
* The account of the walk, AccountInv. NothingLeft speaks only of the end of a walk, so it needs an invariant of its
  middle: what the walk still expects to remove is at least what is over the minimum at the end of the horizon (ExpectedIsLeft,
  OverMinFalls), and each flowplan the iterator has passed is done with: without excess, or locked, or of the smallest size
  its operation allows (DoneIn, for flows of a unit or less, which never remove less than was computed: NewSizeRest). That lasts because `getExcess()` of a flowplan never rises when another one is removed, shrinks or, by
  shrinking, changes places with events of its date (ExcessFalls), and a flowplan that was shrunk and keeps its place has
  less than one lot of excess left (DoneOnce); sizes stay ones the operation allows (NewSizeStays). A walk that comes to the
  end has passed all flowplans. One that ends early expects to remove nothing more, and no flowplan has more
  excess than is left at the end of the horizon (ExcessIsLeft). So nothing is left in either case (AccountIsSettled).

Only model-checked: liveness (Terminates, SolveReturns, EveryRunEnds, BusyWorkerDrains, AutoplayAdvances), which, with
ENABLED, is out of reach of the prover; and CommitKeepsTotal, a fold over all operationplans before and after a commit
of many steps.

## 5. Where code and comments disagree

With a run of their own ("findings" in `PROJECT.json`):

* `pool_python`, src/utils/actions.cpp:382. Whether a worker makes a Python thread state depends on how many callables
  are left when it starts; one that starts late runs a callable without.
* `journal_drafts`, src/model/operation.cpp:691. A draft that is created and deleted in one journal is merged into another
  operationplan and freed when its create command is committed, while its delete command still refers to it
  (model.h:5699 says that its memory is kept until then); its quantity is in the plan again.
* `demand_exception`, src/solver/solverdemand.cpp:376. With autocommit, the commit inside the planning loop frees the
  bookmark that the exception handler rolls back to.
* `timeline_calendar`, src/model/buffer.cpp:431. Replacing a calendar deletes only the first event of the previous one.
* `timeline_buckets`, include/frepple/timeline.h:442. Loadplans in the last bucket are inserted without regard for their
  dates, and `assert(check())` at the end of `insert()` fails.
* `tasks_waiting`, frepple_runworker.py:196. The parameter 'Worker alive' is never removed, since `self.database` does
  not exist and the error is swallowed: a task submitted within five seconds after the worker has left waits until
  somebody submits another one.

Named in the modules, and reproduced by checking the definition with the stated constants:

* RevertRestoresDelivery: reverting a deletion does not give the delivery back to its demand (model.h:5669).
* AcceptedIsShippable (224 and 305: an answer of a
  coordination run is accepted below the minimum shipment). RestIsShippable with an operation in lots (231 and 283: the
  remainder is tested before the coordination run, whose answer may be a lot larger). BestAnswerAccepted (331 and 340: a best answer of exactly the
  minimum shipment is dropped). UnconstrainedIsMet with a solver that is not constrained (333).
* NoNewShortage and NothingLeft of `OperatorDelete` without their conditions on flows: the new size of an operationplan is
  computed in units of the buffer and set in its own (operatordelete.cpp:230 and 248).
* Consistent with BucketsFirst = FALSE: a calendar of a bucketized resource that is set when there are loadplans.

Seen while reading, outside of what the modules state:

* Resizing an excess producer calls `setQuantity` with `execute` at its default (operatordelete.cpp:230), so the command
  that is created next stores the reduced quantity as the original one and its rollback ("Undo the changes.",
  model.h:5732) does not restore the plan. A producer with a flow of fixed quantity and less excess than that quantity
  makes setQuantity() throw "Unreachable code reached" (model.h:3796). Solving one buffer ("Delete upstream of a single buffer") pushes upstream buffers that nobody scans.
* The data maintenance page, doc/user-guide/data-maintenance.rst:12-17, to a user who does not wait or tidy up: sorting,
  turning pages, deleting and copying reload the grid and drop unsaved changes, the popup that offers to save before a
  sort does not hold the sort back; undo followed by a quick edit and save before the rows arrive sends the cancelled
  edits; a changed cell that is open again when the changes are saved is sent empty; cancelling between a save and its
  answer shows old values; the dialogs keep buttons of earlier uses, and deleting takes the selection of the moment, not
  the one that was announced; after a failed reload bold cells stay with grey icons.
* The guided tour: Next and Previous during autoplay leave two timers of which Stop and Close clear the last, so the
  other one may leave for another page after the tour was closed.

## 6. Not modelled

Section 1 lists the parts without a module, `PROJECT.json` the reason for each. Inside the modelled parts: operationplans
with sub-operationplans in the journal (src/model/actions.cpp:341 marks their moves as unfinished); the undo and redo of whole
bookmarks; log levels, constraint logging and `scanExcess()` of the demand solver; the tolerance ROUNDING_ERROR in comparisons of quantities (the unit of
an integer quantity is larger); `getFlow` of the timeline, default bounds of buffers without any event; the entries of
`OperatorDelete` for operations, resources and demands and its walk upstream, operations with several flows into a buffer, flows of fixed quantity or outside of their effective
dates;
the filters, forms and files of the web application; what management commands do to the data. By far the largest part of
the JavaScript in the repository is libraries of others (jQuery, jQuery UI, jqGrid, d3) and translated texts: of these only
what the data maintenance page uses of jqGrid and of dialogs is modelled, so the share of their lines that the modules
cover is small, and the core of the program, which is C++ and Python, is where the modules are.
