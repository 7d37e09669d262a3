# HiAppEvent, modelled in TLA+

HiAppEvent lets an OpenHarmony application write events, and lets observers in
the same process — *watchers* of the application and *processors*, which report
to some service — receive them, in real time or in batches, across restarts of
the process.  These modules model the native library
(`src/frameworks/native/libhiappevent`, `LH` below) and what its bindings for
JavaScript, ETS, Cangjie, C and C++ make of it, where the order of steps or the
treatment of unusual values matters.

Contents: [the system](#the-system), [the modules](#the-modules),
[the runs](#the-runs), [bounds](#bounds), [fairness](#fairness),
[proofs](#proofs), [disagreements found](#disagreements-found),
[what is not modelled](#what-is-not-modelled), [plan](#plan).

## The system

### Components

| Component | State | Operations | What makes it correct |
|---|---|---|---|
| Observer manager, timeout task (`LH/observer/app_event_observer_mgr.cpp`) | `isTimeoutTaskExist_`, one-shot timers, each observer's `currCond_` | `HandleEvents`, `HandleTimeout`, `HandleBackground`, `HandleClearUp` | one timeout task at a time, and who waits for a timer has one |
| Event delivery (manager, `app_event_observer.cpp`, processor proxy, NDK watcher, `cache/app_event_store.cpp`) | tables `events`, `event_observer_mapping`, `observers`; `watchers_`, `processors_`; `currCond_.row` | `HandleEvents`, `OnTrigger`, `OnReport`, `DeleteData`, registration, removal, `InitWatchers` | an event stays stored and mapped until its observer has taken it; nobody is given a batch twice; the last reader erases |
| Observer registry (manager, `cache/app_event_observer_dao.cpp`) | table `observers`, `processors_`, `isFirstAddProcessor_`, `isDbInit_`, the submitted init task | `AddProcessor`, `RemoveObserver` | one identity for one configuration, a sequence never names two, calls return |
| Database store (`cache/app_event_store.cpp`) | `dbStore_`, `dbMutex_`, the file | `ExecuteDbOperation`, `InitDbStore`, `CheckAndRepairDbStore` | a statement runs once, on an open store; only a damaged file is deleted |
| Custom event parameters (`InsertCustomEventParams`, DAO) | table `custom_event_params` | transactional insertion, ageing of rows an event of another run used | an event is packed with the parameters of its run |
| User information (`hiappevent_userinfo.cpp`, DAOs) | ids and properties in memory and tables, `userIdVersion_`, `userPropertyVersion_`; a copy in each processor proxy | `SetUserId`, `RemoveUserId`, `ClearData`, the proxies' `GetValidUserIds` | a proxy reports current ids |
| API statistics (`LH/stat`) | records in memory, table of backed-up records, two timers | record, back up, report, clear | every call is reported once |
| OS event listener (`observer/os_event_listener.cpp`) | directory of event files, inotify thread, set of listened events, `listener_` | scan at start, `HandleDirEvent`, `AddListenedEvents` | every file becomes one event |
| Writing and cleaning (`hiappevent_write.cpp`, `hiappevent_clean.cpp`, `cleaner/`) | file of the day, file-creation counter, quota | `WriteEvent`, `CheckStorageSpace`, `ClearData` | the quota is respected; clearing leaves no half state |
| Configuration (`hiappevent_config.cpp`) | quota, cached free size | parsing, `RefreshFreeSize` | only valid quotas are taken, and the answer says so |
| Module loader (`LH/load`) | loaded modules, registered processors, named configurations | load, register, create a proxy, unregister | no processor stays behind its module; configurations are in range |
| Verification, event pack (`hiappevent_verify.cpp`, `hiappevent_base.cpp`) | none | checks, cuts, escapes | what is logged is within the limits, and the result tells what was left out |
| Event policies (`LH/policy`) | attributes of directories with the run that set them, page switch status, crash library | `SetEventPolicy`, `RemoveEventConfig` | the process follows what is stored, and its answers tell what was |
| Facade, C interface | none | forwarding, parameter lists | |
| NDK interface (`frameworks/native/ndk`) | handle of a processor or watcher | forward to the manager, `RemoveWatcher` | a handle's result tells what happened |
| JavaScript, ETS, Cangjie bindings | environments, watchers and holders, tasks on an event loop, promises | convert, hand callbacks over, take packages | no callback after the environment is gone, nothing taken twice or forgotten, every promise settled |

### How they interact

* `HandleEvents` is called by the serial ffrt queue `AppEventQueue` that writes
  the application's events, and also by the OS listener's inotify thread and by
  the Cangjie binding on the caller's thread; `HandleTimeout` is called by a ffrt
  timer; registration and removal by any application thread.  So several
  threads are inside the manager at once, which the models take as given.
* The manager holds `watcherMutex_` / `processorMutex_` only to copy or to change
  the two maps; it then walks over a *snapshot* of shared pointers.  Each
  observer's condition has its own `condMutex_`, held by `OnTrigger` across the
  whole report, and a watcher's `OnEvents` has a mutex of its own.
* Every database statement is one call of `ExecuteDbOperation`: a shared lock in
  the normal case, an exclusive one for opening and repairing.  The shared lock
  serialises nothing, so statements of different threads interleave.
* The database, the log files, the directory of system events and the attributes of the
  policies survive the process; `InitWatchers` restores placeholders of the watchers,
  registration restores the rest.
* Each binding converts its arguments by itself, then calls the same verification
  and the same manager.  JavaScript and ETS hand callbacks over to an event loop and
  unmap through the ffrt queue; C and Cangjie call back on the delivering thread.

### What is hard here

Interleavings of those threads over snapshots, flags and rows; the time between
report, unmapping and erasing, in which the process may die; a wait of 500 ms that
gives up while its task goes on; error codes acted upon after the situation has
changed; statements that fail one by one; environments that go, and come back at the
same address; limits, cuts and escapes applied in a different order by six bindings.  `PROJECT.json` lists these hazards at
their lines, with the property that covers each or the reason why none does yet.

## The modules

| Module | Models | |
|---|---|---|
| `TimeoutTask` | the flag, the timer, and the walks of the four `Handle…` functions | `MCTimeoutTask`, `ObserverMgr_proofs` |
| `DeliveryPromise` | abstract: an at-least-once queue of (event, observer) pairs | |
| `EventDelivery` | events through the three tables and the observers; implements `DeliveryPromise` | `MCEventDelivery`, `Events_proofs` |
| `ObserverRegistry` | `AddProcessor` with its time limit, `RemoveObserver` | `MCObserverRegistry`, `ObserverMgr_proofs` |
| `DbStore` | the two lock phases of `ExecuteDbOperation` and the repair | `MCDbStore`, `Database_proofs` |
| `UserInfo` | ids and properties in tables, memory and the processors' caches | `MCUserInfo`, `UserInfo_proofs` |
| `ApiStats` | calls of APIs recorded, backed up, reported, cleared | `MCApiStats`, `ApiStats_proofs` |
| `OsEventListener` | directory, mask, listener, inotify thread and watchers of system events | `MCOsEventListener`, `OsEventListener_proofs` |
| `Storage` | log files, quota, ageing, `ClearData` | `MCStorage`, `Database_proofs` |
| `Verify` | names, parameters, events, custom parameters (operators only) | `Events_proofs` |
| `Writing` | from a call through one of six bindings to a line of the log; extends `Verify` | `MCWriting`, `Events_proofs` |
| `Watchers` | watchers, environments and holders of JavaScript, ETS, Cangjie and C | `MCWatchers`, `Watchers_proofs` |
| `ReportConfigs` | what each interface makes of a processor's configuration (operators only) | |
| `Settings` | policies, options and processors, set from several threads; extends `ReportConfigs` | `MCSettings`, `Settings_proofs` |

Each concrete module has one action per operation or per step between two lock
releases, and each names the function it models; `PROJECT.json` `map` gives the
lines.  A definition whose comment begins with *Mutant* is a variant that a
plausible mistake in the code would lead to; no specification uses it, it only
shows that a property notices the mistake.  Variables that the code does not have
are marked *history*: they record what happened, for a property to refer to.
`ObserverMgr_proofs` proves both modules of the observer manager, `Database_proofs` both
that work on the database, `Events_proofs` both on the way of an event of the application;
since a proof module extends what it is about, `TimeoutTask`, `DbStore` and `Writing`
have a prefix to their specification (`TTSpec`, `DBSpec`, `WSpec`) that keeps it apart
from that of the other.

**TimeoutTask.** `exist` is `isTimeoutTaskExist_`; `task[i]` is a timer that was
armed, then its handler; `walk[t]` is a thread in `HandleEvents`,
`HandleBackground` or `HandleClearUp`.  A walk has the snapshot still to visit
(`todo`), the observer just visited (`cur`, whose `HasTimeoutCondition` is read in
a critical section of its own) and `isNeedSend`.  An event's size is abstracted to
"may meet the size condition"; `row` and `elapsed` saturate at `Cap`, above every
condition, where one more changes nothing the code tells apart.

**EventDelivery.** `th[t].pc` is the place of a thread in `HandleEvents`
(`insert`, `map`, `send`), in the processing of a batch (`report`, `unmap`,
`purge`, `erase`, `receive`, `reset`), in a registration (`startup`, `publish`) or
in a removal (`rmmap` … `rmseq`).  Rows of the three tables are sets; an event is
its sequence and a kind that filters tell apart.  Each database statement may
fail (`Fault`), each report may (`ReportMayFail`).  What differs from the code:
an observer is identified by its database row, so that one which is removed and
added again is another observer; calls for *one* observer do not overlap
(`NobodyBusyWith`; their overlap is `ObserverRegistry`'s subject); the queries of
a registration do not fail; `TriggerBatch` visits one processor for each call of
the timeout or background walk, whose order over the processors has no effect on
the tables.  A processor's timeout and background conditions are reduced to "some
time, if `row > 0`", which is what `TimeoutTask` looks at closely.

**ObserverRegistry.** A configuration is its name and hash.  `call[t]` is a
caller, `initTask[t]` the task that the first `AddProcessor` submits and that
outlives the caller's wait.  `given` is SQLite's AUTOINCREMENT counter.

**DbStore.** `use[t]` is an `ExecuteDbOperation`: `begin`, `shared` (shared lock
held), `write` (between the locks, with the result of the first attempt),
`unique`.  A file has an identity, so that "the same path, another database" is
visible.  What the RdbStore library and the disk do is external: results are any
that the code tells apart, and a damaged file may or may not make a statement
report corruption.

**UserInfo.** `rows`, `memory` and `version` are the tables, the two maps of `UserInfo`
and its two versions; a row has its sequence, and `given` is SQLite's AUTOINCREMENT
counter of each table; `cache` is what a processor proxy took over under the version
it had read (`OnEvents`, then `GetValid` under `mutex_`).  A set is `QueryValue`,
`StoreValue`, `SetInMemory`; a removal `DeleteRows`, `EraseInMemory`: no lock spans
them.  `ClearMemory` starts the versions again, `ClearTable` empties one table after
the other.  `misfit` marks caches from before a `ClearData` or a `SetReportConfig`,
which may meet their version again with other values (`hiappevent_userinfo.cpp:229`);
`disturbed` marks names for which calls overlapped or failed half way.

**ApiStats.** `memory` and `table` count how often each metric (error code, duration,
success) is held; a backup inserts row by row (`InsertApiMetricInfo`, `InsertFails`),
a report aggregates and clears (`ReportStats`, `Clear`).  `mut_` is `pc # "idle"`.  A
cost is narrowed to an `int` as the code does (`Narrow`).  Sums over the rows are numbers
of units, pairs of a row and a number up to its weight times its count (`SumOver`,
`Total`): for a set that is counted, disjoint parts add up without an induction.

**OsEventListener.** The system (external) writes a file for each event that the
attribute of the directory (`mask`) asks for.  `adder` is the thread in `AddWatcher`
with its steps up to `PublishWatcher`; `thread` is the inotify thread; `history` is
`historyEvents_`.  `RemoveObserver` narrows the mask or takes the directory away.
Calls of `AddWatcher` follow each other: their overlap is the registry's subject.

**Storage.** Writers hold one of two mutexes, the native one or Cangjie's.
`CheckStorageSpace` measures when the counter says so, then removes files oldest first
(`ClearLogSpace`) and ages the tables (`DeleteHistoryEvent`,
`DeleteUnusedEventMapping`, `DeleteUnusedParams`).  `ClearData` takes no mutex.  An
event is one unit long and a line of a file is its day and its place there, so that the files' size
is a number of lines; the database's size is the most rows it ever had, since the file does
not shrink.

**Verify, Writing.** A name is a sequence of classes of characters, a string is its
length, the number of characters that escaping doubles and how often it was escaped; the
limits of `hiappevent_verify.cpp:40-57` are constants, scaled down.  A list of parameters is a
function on the places that they had among the arguments, so that a parameter that is
dropped leaves its place empty and a value in the log can be compared with the one given; the
order is a set of pairs of places (`ParseRecord`), which for ETS is that of the names in a
`std::map`.  The loops of the code, which keep the codes and names met so far, become
what they compute of that order: the last problem, the first problem, the names met before
a place, the first so many.  `Writing` converts
as each binding does (`Build`), verifies, and writes at once, by the ffrt queue
(`RunQueue`) or by asynchronous work (`RunAsync`, `Complete`).  `Rewrite` and
`AddParam` are an application that uses an `Event` object again.  A behaviour writes one
sample event in every way or sets custom parameters.  `custom` has a row for each
parameter that was inserted, with the place it had among its call's arguments, since the
table has no unique key.  `InsertCustomEventParams` looks neither at the result of
`BeginTransaction` nor at those of `QueryParamkeys` and `Commit`: `QueryParamkeys` here
returns any part of the stored keys, `BeginFails` lets other calls come between the query
and `StoreUnguarded`, and a failed `Commit` is one of the outcomes in which nothing is
stored.  RdbStore transactions are taken to exclude one another, which that library
has to see to; a repair of the database in between is `DbStore`'s subject.

**Watchers.** The manager's part is coarse; what each binding does is not.  `objs` are
watcher objects, which keep the environment they were made in and its generation;
`records`, `hooked` are `napiEnvWatcherRecords_` and `envs_`, which know addresses
only; `loop` are the tasks posted to an environment, `unmaps` those of the ffrt queue.
`BuiltFilters` is what each binding makes of the filters it is given, `PackageOf` what
its holders take.

**ReportConfigs, Settings.** A field of a configuration is good, bad, of a wrong type
or absent.  `Settings` has a caller's program counter through a pack of policies
(`ConfigPageSwitch` … `SaveCpuItem`), configuration items (`SetConfigurationItem`) and
processors (`Load`, `CreateProcessorProxy`, `RegisterObserver`, `EraseProcessor`), each of
which remembers what it was made of (`given`); `os` is the thread that handles an event of an
earlier run and takes its setting away.  `range` are the threads whose `errno` may be `ERANGE`:
a quota too large for `strtoull` and a cut-off size too large for `strtoul` set it, and so does an
attribute that does not fit into the 255 bytes of its buffer (the value `"long"`); both
numbers are refused when the thread comes with it, and any other call may overwrite it.
`library` is whether the crash library is there, whose function is a weak symbol: without it
APP_CRASH's items fail after their minidump setting has been stored.  Whatever reads or stores
an attribute may fail (`Fault`, and `FailIn` where the caller may be refused for it): the first use of
the policies then tells the library nothing (`InitMiniDumpConfig`), the page switch status is
computed without the switch (`GetCurSysPageSwitchStatus`), the event gets no log.  The
result of the library's own call is ignored, as in the code.  Two policy objects of
APP_CRASH are built and both look at the minidump setting; the model has one look,
which fails if both do.

## The runs

| Run | Shows |
|---|---|
| `timeout_task` | in every interleaving of an event thread and the timer the flag is up exactly while one timer is armed or handled, there are never two, and an observer waiting while a timer is armed is served, although every walk works on a snapshot |
| `delivery_steady` | two threads, two processors, one watcher that may be removed, no failures: mapped events are stored, a batch holds no event that was reported already, `row` covers the backlog at rest, and, until the watcher is removed, the last observer to give an event up erases it |
| `delivery_faults` | with a crash, a failing statement, failing reports and removal, `EventDelivery` implements `DeliveryPromise` for the processor |
| `registry_concurrent` | two threads, timeouts, failures, a restart: a sequence never names two configurations; a configuration has one row, and memory agrees with the database, unless two calls for it overlap or a query fails; calls return although no wait has to time out, also when two threads both believe to be the first |
| `dbstore` | three threads, damage, failing opens and deletions: a statement runs once, on a store nobody replaces meanwhile, which is the file on disk; noticed damage is repaired; a healthy file is lost in one way only, to an error that is older than the file |
| `user_info` | a processor's cache holds the values of its version or of a later one, never older ones, although both are read in separate steps; at rest tables and memory agree, so that a restart changes nothing |
| `api_stats` | reports, table and memory together hold every recorded call once, up to what a crash loses and a failure repeats; the numbers of a report agree with each other; in the end nothing is held back |
| `os_events` | an event the system wrote for a known watcher is in its file, in the history, mapped or delivered, through restarts and removals; no file waits unnoticed but one written between scan and watch; the listener asks for what its watchers need |
| `storage` | the log files exceed the quota by less than a period and one event for each thread; at rest no event is without mapping or the reverse, unless `ClearData` overlapped or something failed, and ageing keeps the parameters of stored events |
| `writing` | whatever is given through whichever binding, a line holds valid, different, uncut-or-cut-to-limit parameters, escaped once; zero, positive and negative results mean what `README.md:59` of the repository says; the bindings agree; custom parameters are all or none, within the limit and never a stored key again, but for the steps of the database that failed unseen; every call ends |
| `watchers` | what the filters ask for stays mapped until a callback or a package took it; a callback finds its environment alive or its context cleared; JavaScript's `onTrigger` has its holder; packages do not overlap; received events are unmapped in the end |
| `settings` | the page switch status and the crash library follow what is stored; an event of an earlier run takes away nothing this run has set; no processor works with a value out of range or half of the list it was given; none outlives its registration; answers tell what became of a call, with and without the crash library |

Each property names its exceptions, which are behaviours of the code and not of the
model, and are discussed under [disagreements found](#disagreements-found).  The type
invariant of a module is the first conjunct of the first invariant of its run
(`TimeoutTask` and `EventDelivery` have it proved only).

`CHECK_DEADLOCK FALSE` stands in the configurations where the model comes to
rest because a bound is used up (events, sequences, calls, files); with the bounds
removed the application can always call again.  `CallsReturn`, `ArmedTimerServes`,
`DamageIsRepaired`, `EverythingReported`, `EveryCallEnds` and `PostedIsUnmapped` say
where something must not stop.

## Bounds

* `TimeoutTask`: two observers, one with row condition 2 and timeout 2, one that
  triggers on size and background, so that each kind of observer can meet the
  other in one walk; one thread of events beside the timer, since liveness allows no
  symmetry (two threads make 1.4 million states, which hold the properties too and
  take four minutes; that any number of threads does is the theorem's subject);
  two task identities, which suffices to see a second task appear; `Cap` above
  both conditions.  No bound on the number of events is needed.
* `EventDelivery`: two threads with three events, or with one processor, two events, one
  crash and one failing statement.  Several events make a batch that is older than
  the event being delivered, and two threads make the overlaps the code has to
  withstand: two observers giving up one event, a report during an insertion, a
  removal during a walk.  `QueryLimit` stands for the 100 rows of
  `QueryEvents`; `delivery_faults` sets it to 1 so that a backlog exceeds it,
  `delivery_steady` sets it above the backlog, because `RowCoversBacklog` does
  not hold otherwise (a hazard recorded in `PROJECT.json`).
* `ObserverRegistry`: three sequences, one restart, two threads, two
  configurations: a row can be inserted, removed and replaced by one of another
  configuration while a thread holds the old sequence.
* `DbStore`: up to seven files, which is never reached, and two damages with three
  threads, so that one thread can hold an outdated error while two others repair
  and fail.
* `UserInfo`: one name, two values and three calls, clears, reconfigurations and
  restarts together: two overlapping sets and one more operation that meets them; two threads at
  one processor, so that an old reader can overwrite a newer cache.  The kinds (ids and
  properties) do not influence each other but for `ClearData`, which has both.
* `ApiStats`: two calls of one API, two faults and a crash: a backup of two rows that fails after
  the first, and a clear that fails too.  `IntMax` is 7, and a cost of 9 overflows it.
* `OsEventListener`: three events of two names, one malformed; two watchers with
  different filters; four calls of `AddWatcher`, so that both can be added again after the
  restart.
* `Storage`: a quota of 1 and a period of 2 make cleaning due after every second event;
  two days give two files; three events with one reserved make ageing delete; one
  `ClearData`, failure or restart.
* `Writing`: limits of one to three, and thirteen events just inside and just outside each of
  them (`MCEvents`), among them a list of strings whose fault lies beyond what the C library
  copies; two calls, so that two bindings, or two sets of custom parameters, meet, the second
  of which may not see the keys of the first.
* `Watchers`: four watchers, one for each binding, of which a behaviour adds two, or one twice;
  one event that passes a later filter only; one environment that goes and comes back.
* `Settings`: two calls, one OS event, one restart, one failure; packs, configurations and
  options with one of each problem, alone, first or last (`MCPacks`, `MCConfigs`): among them a
  cut-off size too large beside a good one in another pack, a quota too large, and a switch too
  long to be read back, so that each number meets the `errno` of the others.  The two threads
  are interchangeable (`SYMMETRY`); the run checks no liveness.

## Fairness

* `TimeoutTask!TTFairSpec`: weak fairness of each thread's and each task's next
  step.  A call runs to its end as the scheduler and the mutexes of the platform
  allow, and an armed ffrt timer fires.  Nobody is obliged to write events.
* `ObserverRegistry!FairSpec`: the same for a call and for a submitted task, but
  not for `WaitTimesOut`: calls return even if every wait is patient.
* `DbStore!DBFairSpec`: weak fairness of an operation's steps.  The `std::shared_mutex`
  of libc++, which OpenHarmony builds with, lets a writer *enter* and keeps new
  readers out from then on; the model has this as a step of its own (`AskUnique`),
  and assumes strong fairness among several writers.  No safety property depends
  on it.
* `ApiStats`: the delayed report task and the writing queue run, and a task goes on once
  it runs (`api_stats_timer.cpp` schedules it again each time); a restarted process uses an
  API again.  Nobody is obliged to call one.
* `Writing`: the ffrt queue, the workers and the JavaScript thread go on, and the timer of
  the free size repeats; nothing obliges the device to have room.
* `Watchers`: some thread, loop or queue that has work goes on.  This is weak fairness of their
  disjunction only: all their work is finite between two events, so none is left over.

## Proofs

TLAPS checks these theorems for all sets of observers, threads and kinds of
event, configurations, watchers, filters and so on, and all values of the bounds, under the
named assumptions the modules make on their constants and nothing else.  Where a theorem
has a hypothesis of its own, the table says so.

| Module | Theorem | Says |
|---|---|---|
| `ObserverMgr_proofs` | `TimeoutTypeCorrect` | types; no walk leaves its snapshot |
| | `AtMostOneTimeoutTask` | at most one timeout task, and the flag tells whether there is one |
| | `TypeCorrect` | types of `ObserverRegistry`; no more sequences are given than there is room for |
| | `SequenceNamesOne` | a sequence names one configuration for ever |
| | `OneRowEach` | a configuration has one row until calls for it overlap or a query for it fails |
| | `ProcessorsHaveRows` | until then, and with no call under way, a processor in memory has its row |
| `Events_proofs` | `TypeCorrect` | types |
| | `PendingStored` | no event is erased while an observer is mapped to it |
| | `ReportedOnce` | while no statement fails and the process does not die: no batch holds an event that was reported to its processor before |
| | `LastErases` | under the same hypothesis, and until somebody is removed: whoever gives an event up last erases it |
| | `RowCovers` | under the same hypothesis, if reports succeed and what waits for a processor fits one query: its `row` covers the events that wait for it |
| | `DeliversAtLeastOnce` | if no watcher is removed, the mapping table is an at-least-once queue for every processor |
| | `LinesStayValid` | types of `Writing`; a line of an event written once has few enough parameters, valid and different names, and values that were given with these names, escaped once and within the limits |
| | `ResultsAreHonest` | what is in the log was answered with zero or more, and with zero exactly when nothing is missing |
| | `BindingsDoAgree` | arguments that every binding can take leave the same parameters in the log through all six |
| | `CustomStoredWhole` | custom parameters are stored for a call that reports success only and are not taken away; all of a call or none, unless its `BeginTransaction` failed; within the limit of the event and no key that is stored already, unless that or `QueryParamkeys` failed |
| `Database_proofs` | `DBTypeCorrect` | types of `DbStore` |
| | `OperationRunsOnce` | a statement is not executed twice |
| | `OpenStoreOnDisk`, `StoreStaysOpen`, `WorksOnTheFile` | the open store is the file on disk, and no reader loses it; the third is their conjunction, the invariant of the run |
| | `OnlyOldErrorsHarm` | a healthy file is lost only to an error older than it |
| | `QuotaIsHeld` | types of `Storage`; until a file cannot be removed or written, the log exceeds the quota by less than a period and one event for each thread |
| | `TablesDoAgree` | at rest stored and mapped events are the same, unless a `ClearData` overlapped or something failed; ageing keeps the parameters of stored events |
| `UserInfo_proofs` | `TypeCorrect` | types, with any number of calls |
| | `CachesAreNotOlder` | a cache holds the values of its version or of a later one |
| | `RestartsKeep` | table and memory agree about a name no calls overlapped for |
| `OsEventListener_proofs` | `TypeCorrect` | types |
| | `OwedEventsAreKept` | an event owed to a watcher is in its file, in the history, mapped or delivered |
| | `NoFileUnnoticed` | no file waits unnoticed but one written between scan and watch |
| | `ListenerIsForWatchers` | the listener asks for what live watchers want, and serves somebody |
| `Watchers_proofs` | `TakenOrMappedHolds` | types; what a watcher's filters ask for stays mapped until it has been taken |
| | `EnvsOfCallbacksHolds` | a callback of JavaScript finds its environment there or its context cleared |
| | `TriggeredWithHolderHolds` | `onTrigger` of JavaScript is passed its holder |
| | `PackagesAreDisjointHolds` | no event comes in two packages of one thread's holders |
| `ApiStats_proofs` | `TypeCorrect` | types; a backup has stored no more than memory holds, and which tasks are armed |
| | `BooksAreKept` | reports, table and memory hold every recorded call once, up to what a crash loses and a failure repeats |
| | `ReportsHonest` | the numbers of a report agree with each other |
| `Settings_proofs` | `FollowsWhatIsStored` | types; at rest the page switch status and the crash library follow what is stored, until calls overlap, a switch cannot be read, or the library is not told, or told something else, what is stored |
| | `OwnSettingsHold` | an event of an earlier run takes away nothing this run has set, but a switch stored between the look and the removal |
| | `ConfigsHoldRange` | no processor works with a value out of range, or with a list that lacks some of the elements it was given, as far as its interface checks |
| | `AddedHaveModule` | the manager keeps no processor its module has taken back, unless the two crossed |
| | `AnswersAreTrue` | after success what the call set is stored and its configuration items in force; a refusal has one of five reasons |

**TimeoutTask.** `TTTypeOK /\ OneTimeoutTask` is inductive as it stands: the flag is
set together with the timer under `isTimeoutTaskExistMutex_`, and `HandleTimeout`
is the only one that clears it, when its own task ends.

**EventDelivery.** `PendingEventsStored` alone is not inductive, because erasing
takes three statements.  `IInv` adds what the threads know in between:

* `DataOK`: what a thread is about to erase is mapped to nobody *now*, although it
  looked at the mapping in an earlier statement; and what it is about to unmap
  for a processor has been reported to it;
* `Fresh`: an event that is stored and not yet mapped is in nobody's mapping, batch or list of
  events to erase, since everybody finds events through the mapping.  It is
  what lets `DataOK` survive `InsertEventMapping`, the only action that adds rows;
* `Contiguous`, `Known`, `Distinct`: sequences are handed out one after another, whatever
  is in the database has one, and two threads never insert the same event, hence a new
  sequence is fresh;
* `LocalOK`: what each place of a thread says of its observer.

`NextIInv` has a lemma for each action; the lemmas `ReturnStep`, `NextStep`,
`MoveStep`, `BatchStep` and `CallStep` say once what the five ways to
change a thread's record preserve.

`ReportedOnce` and `LastErases` rest on `OInv`, which is inductive together with `IInv`.
`LInv` says that a thread in a batch holds `condMutex_` of its processor and that only one
thread adds or removes a processor at a time; `AckedOK`, that an event which is
reported and still mapped is about to be unmapped under that same lock, so that no other
thread can query it (`BatchOK`); `ErasedOK` with `NamedOK`, that an event which somebody took
and nobody is mapped to any more is about to be erased by some thread, the one whose
look at the mapping was the last.  The hypothesis `faults = 0 /\ crashes = 0` is needed: when the unmapping
fails, or the process dies before it, the code reports again.

`RowCovers` rests on `CInv`.  `row` is increased after the mapping was inserted, and set to 0
after a report, so that it is below the backlog again and again.  `CountedAt` says
when: somebody serves the processor, and then has every event that is not counted in his hand;
or a walk has still to visit it, whose event is not counted yet (`Waits`).  The hypotheses that
reports succeed and that a backlog fits one query are needed, since `row` is reset after a
refused report and after a batch of the newest 100, while events stay: the second is a
hazard in `PROJECT.json`, the first is why `delivery_steady` has no failing report.

**Refinement.** `DeliversAtLeastOnce` maps `InsertEventMapping` to the promise's
`Publish` (which needs `Fresh`), `OnReport` to `Acknowledge`, `DeleteEventMapping` to `Forget`
(which needs `DataOK`), `DeleteMappingOfObserver` to `Withdraw`, and every other step to
a stutter.  It assumes `Removable \cap Watchers = {}`, from which
`KeepsSeqs` follows: no observer's sequence becomes 0, so that no deletion from the mapping
leaves the observer out of its predicate.

**DbStore.** `IInv` adds to the types the exclusion that the two-phase lock
gives (`Exclusion`), that the shared phase runs on the open store
(`OnOpenStore`), how often a statement has run at each place (`RunsOnce`), and
`BlameIsOld`: an operation that carries a corruption saw it in a file no younger
than the present one, and if in the present one, then that is damaged still.

**ObserverRegistry.** `KnownOK` collects everybody who knows a sequence (rows, processors,
calls about to publish or remove, and the tasks that outlive their callers) and says that two
who know the same one mean the same configuration.  `SeenOK` and `OverlapOK` say what a call
that is still alone knows of the table: who is about to insert has seen that there is
no row, who holds a sequence has its row; a call and the task it waits for are the only
two that may work on one configuration.  `RoomOK` bounds the sequences by those that insert (`Takers`).

**UserInfo.** `PastOK`, `ReadOK` and `CacheOK` place what a reporter read between the
version it read first and the present one.  `AloneOK` says that the calls for an undisturbed name
exclude one another and `ClearData`; `OneRowOK` and `AgreeOK` give its row and its value
in memory at each place of such a call, `ClearOK` at each place of a `ClearData`; `GivenOK` makes
the sequence of a new row a new one.

**OsEventListener.** `KeptOK` follows an owed event from its file into the history
or the mapping, of which one must have it before the file goes; `MemoryOK`, `CallOK` and `OwedOK` say
whom an event can be owed to, before and after `InitWatchers`; `ListenerOK` says how far the listener is and which
files have been seen by then; `ServeOK`, that a half started listener comes from a failure.

**Watchers.** `NamesOK` says that a name is added by one thread at a time and that `watchers_`
agrees with its row; `RefsOK`, that an object somebody may still call is not destroyed, has its
sequence (`SeqOK`), its holder or a thread that is making it (`HolderOK`), and, for
JavaScript, its environment (`EnvOK`), which `HooksOK` ties to the cleanup hooks; `TasksOK` says the same of the tasks
posted to a loop.  `TakenOK`, `UnmapsOK` and `OwedOK` follow an event through the mapping, the
callback and the package.  The part of it that is not about steps is `FiltersWiden`: what the
application's filter lets through, the filters that JavaScript, ETS and C make of it do as well.
It rests on `FiltersAssumption` (an event has one of the four types, a filter has
names and types), and is false of Cangjie's, hence `Narrowed`.  The lemmas `ObjectsStay`, `TasksStay`, `EventsStay`
and `SentStep` say what the parts that an action leaves alone need.

**Storage.** `BInv` says that a writer from its measurement to its append holds the mutex of its
binding (`MutexOK`).  The quota needs more, since Cangjie's writer does not exclude the native
one: `QInv` counts what each is about to append (`Coming`) and how many events the native
one may still append before its counter makes it clean (`Owed`).  `FilesOK` is the bound with
these; `CleanerOK` says how far the size that a cleaner measured can have fallen behind, for
all files and for those it will not remove; `CleanersOK`, that of two who clean at once the one
that measured last knows the size.  All of it holds while nothing failed, which is a hypothesis
of `QuotaHolds`: a file that cannot be removed stays.  `TInv` says at each place of an insertion and of
a `ClearData` which of events and mapping has already gone: an event without mapping
is about to be mapped (`Awaited`), a mapping without event about to be removed (`Mapped`).

**ApiStats.** `AInv` is an equation (`Balance`) for every API and each kind of number a report gives:
what was written, dropped and waits in the queue, with table, memory and what a crash lost, is
what was recorded, with what a failure made count twice and what is in two places at the
moment (`Copies`).  It needs from `TasksOK` that a backup never stored more than memory
holds, since memory goes on growing only when no backup runs.  The lemmas about sums give
each law by a bijection or a disjoint union of units: `TotalPlus`, `TotalMonotonic`,
`TotalConstant`, `SumUnion`, `SumRenamed`, `TotalByErrCode`; `ReportsOfTable` says that the reports
made of a table hold its sums.  APIs, costs and outcomes are assumed finite: a table has
finitely many rows.

**Settings.** A thread's record says how far its call is: the policies still to come are the
rest of its pack (`PackOK`, `IsRest`), of the present one the items not yet dealt with
(`ItemsLeft`).  `Calm` holds until two calls overlap, or one meets the OS thread: then one at a time is busy (`AloneOK`), the
page switch status is what is stored except between the store and the assignment (`StatusOK`), the crash
library has the stored setting except while one is being applied, which has been stored by then (`DumpOK`), what has been
dealt with is stored (`SavedOK`) and the configuration items dealt with are in force (`InForceOK`).  `astray` takes
the status and the library out of these where a failure or `setEventConfig` did; determining the
status anew, or applying a minidump setting, brings them back.  `Reason` says why a policy
can have been refused by then: an `errno` counts only once APP_CRASH, the one policy with a
number, has been dealt with.  The rest holds however calls overlap: `OsOK`, that the OS thread is
about to remove only what this run has not set, but for what overtook it; `LoadOK`, that a
configuration is in range and its lists whole from the check on (`ConfigByRange`); `RegisteredOK`.  `SettingsAssumption` says that a
pack names a policy once, which the code has from a JSON object or a map.

**Writing.** `WInv` says of a call whose event is still to be written that the pack it
points to is `PackOf(binding, event)`, the outcome of conversion and verification, and its result
`CodeOf(binding, event)`, unless the `Event` object was used again (`ObjectOK`, `Settled`); of a
line, that it holds that pack (`LineOK`); of a call that is to store custom parameters, that the pack
has the names it was given (`Stores`).  `QueueOK` makes a queued call wait in one place.  What is
left is about `PackOf` and `CodeOf` for every argument.  An order is `Linear` on the
places: for the place numbers that is immediate, for the names of ETS it needs `BeforeTransitive` and
`BeforeTotal`, and that an object has a key once.  Since places are finite, a set of problems has a
first and a last (`EarliestExists`, `LatestExists`), which makes `LastProblemIs` and
`FirstAreFew` (the first *n* places are *n*) provable.  `ConvertParamIs` and `BuildIs` say what
each of the six conversions makes of a value: what it keeps has the name, size and strings given, or, in C, more
of them than a line may have (`Faithful`, `Shortened`).  `VerifyParamsIs`, `KeptOnce` and
`CheckParamsNumIs` say what the verification keeps: for each name the first acceptable
parameter.  `PackIsValid`, `CodeIsHonest` and `PackOfAnyBinding` put these together, one for each
invariant.  `CustomStoredWhole` rests on `BuildCustomIs`, that a conversion which ends early also ends
the call, and `InsertIs`, that the keys counted are at least those inserted and, if the keys read
are all there are, none of them is stored; for a call without a transaction only the bound for
its own parameters is left.
`ArgumentsAssumption` says what can be given: only an array has a size, only a string or an
array of strings has strings, none of them escaped yet.

What the prover does not reach stays with TLC: the liveness properties
(`ArmedTimerServes`, `CallsReturn`, `DamageIsRepaired`, `EverythingReported`,
`EveryCallEnds`, `PostedIsUnmapped`), for it knows neither fairness nor `ENABLED`.  Every other
property of a run is a theorem.  The library's induction theorems take an operator as a
parameter, which the provers cannot instantiate; where an argument needed an induction it was replaced by
the least element of a set (`WFMin`), by a bijection, by the extremal element of a finite linear
order, or by carrying the claim through the steps of the specification itself.

## Disagreements found

The models contain these behaviours, and the properties of the runs name them as
exceptions or are stated so that they do not forbid them.  `OM` is
`LH/observer/app_event_observer_mgr.cpp`.

The code against a comment, a header or a document:

* *Lost wake-up.* `OM:454-455` says "timeout condition > 0 and the current event row > 0,
  send timeout task".  `HandleTimeout` computes `isNeedSend` without the mutex and clears
  `isTimeoutTaskExist_` later (`OM:471`): an event counted in between finds the flag up and
  sends no task, and its observer waits with `row > 0` and no timer until another event.
* *Calls after removal.* `hiappevent.h:610`: "The watcher will stop receiving app events after
  it is removed."  `HandleEvents` (`OM:441`) walks over a snapshot and calls a watcher whose
  removal has returned.
* *Result of a removal.* `hiappevent.h:614-615`: "Returns 0 if remove watcher is successful, and
  returns a negative integer if remove fail."  `NdkAppEventWatcherProxy::RemoveWatcher`
  (`ndk_app_event_watcher_proxy.cpp:97`) drops the manager's result and returns 0.
* *Old events.* `OM:121`: "send old events to watcher where init".  `AddWatcher` (`OM:308`) reads
  them before it replaces the placeholder: an event mapped to the placeholder in between is
  sent neither then nor later, until the watcher is added again.
* *Unique hash.* `app_event_observer_dao.cpp:89`: "the hash code is unique, so get only the
  first".  `isDbInit_` is set before the first call's task has inserted its row: a retry after
  the time limit (`OM:333`) inserts another.
* *Removed processors.* `app_event_processor_mgr.h:54` says that 0 means success or no such
  processor.  `RemoveObserver` (`OM:392`) looks in memory only: a processor of an earlier
  run, which `GetProcessorSeqs` lists, stays, and 0 is returned.
* *Old errors.* `app_event_store.h:83` promises to check and repair.  The code acts on an
  error code from before the exclusive lock (`app_event_store.cpp:268`): of two threads
  that saw one corruption, the second deletes the new database.
* *Results of a write.* `README.md:59` of the repository says that a positive result means the event is written
  without what is invalid.  Cangjie refuses it (`CallCj`); ETS answers 0 and writes nothing
  when a value has a type it cannot convert or the parameters are undefined (`CallEts`,
  `BadArgs`).

What the properties leave open, or what was seen beside them:

* *Writing.* An `Event` object written twice, or changed while queued, shares its pack with
  the queue (`app_event.cpp:84-87`): its strings are escaped twice and the parameter added
  later is logged unverified (`reused`).  The C library copies `MAX_SIZE_OF_LIST_PARAM + 1`
  elements of a longer array (`hiappevent_c.cpp:68-69`), before any string is measured: a list of strings with
  a string too long beyond these is written cut, while every other binding drops it
  (`BindingsAgree` excepts such lists).  Cangjie passes values of an unknown type over
  also when it sets custom parameters, and stores the others with success
  (`CustomIsAllOrNothing` does not count them).  When `QueryParamkeys` fails
  (`app_event_store.cpp:370`) the limit counts the new keys only and stored keys are inserted once
  more; when `BeginTransaction` fails (`:367`), two calls may both count before either inserts,
  and a later failure leaves a part; a failed `Commit` (`:402`) answers success and stores nothing
  (`failed`).  Custom parameters given twice pass, since the set of names stays
  empty.  When the asynchronous work of JavaScript cannot be queued the promise is never
  settled (`napi_hiappevent_write.cpp:96`).  An empty array and a NaN make a line that is
  not JSON; the models have no text.
* *User information.* `ClearData` starts the versions at 0 again (`hiappevent_userinfo.cpp:229`):
  a processor that cached version *n* keeps its old ids when the version reaches *n* once more
  (`misfit`).
* *System events.* The history is mapped and sent with `watcherMutex_` held (`OM:559`): a C
  callback that adds or removes a watcher then waits for itself.  A failing
  `QueryWatchers` uses up the `call_once` of `InitWatchers` (`OM:269-275`): the placeholders
  are not restored in that run.  When `StartListening` fails `listener_` stays.
* *Watchers.* Cangjie never unmaps what `onReceive` took, so that it comes again; the names of its filters
  run together (`CjFilters`); its `OnTrigger` before `InitHolder` dereferences null
  (`CjOnTrigger`).  ETS may trigger before its holder is made when it was added off the main thread.
  An event larger than the size of a holder blocks it, and a holder keeps its sequence when its watcher
  is removed and added again.  JavaScript throws for a bad condition and adds the watcher all the same; an
  NDK watcher whose only filter was refused accepts everything, and C does not learn the
  result of the manager.  A hook that cannot be added leaves a dead environment in use
  (`deaf`), and a task that cannot be posted is only logged.
* *Settings.* The status of a page switch is looked up without regard to the run, so that of several old
  events the first only gets the log.  The minidump setting takes effect with the first
  policy or system event of a run; when it cannot be read then (`app_crash_policy.cpp:183-193`), nobody
  hears of it and minidumps are not collected although that is stored, until a policy tells the
  library again (`astray`).  `setEventConfig` for APP_CRASH tells the crash library
  and stores nothing (`astray` as well).  Without the crash library the items of APP_CRASH are
  refused, while the switch and the minidump setting given with them are stored (`app_crash_policy.cpp:125`).  A minidump setting that could not be stored beside
  another item that was answers success.  `errno` is cleared neither before a quota is
  parsed (`hiappevent_config.cpp:149`) nor before a cut-off size (`app_crash_policy.cpp:56`), so
  that a number too large in one of them, or an attribute too long to be read, makes the next
  valid one fail (`range`).  A switch that cannot be read when the status is determined counts as
  off, and the call answers success (`astray`).  `SetConfigName` replaces earlier settings
  of an NDK processor.  The number of custom configurations is not checked in the file, nor the ranges of
  numbers in ETS.
* *Not in a model.* Two callers may pass the once-a-minute test of
  `HiAppEventReportFrameworkMemAnomaly` together (`hiappevent_c.cpp:329-363`), for it is
  read and stored in two steps.

## What is not modelled

* `DestroyDbStore`, used by tests only, and the upgrade of database versions.
* The text of events and of their conditions, files and directories, the parsing of JSON: formatting and I/O, whose
  results are choices of the models where the code tells them apart.
* `MainThreadJank`, which passes values to the Watchdog library, and what the crash
  library, the storage manager and the system's event writer do: external.
* `ModuleLoader::Unload`, which has no caller, and the lifetime of C handles that an application
  destroys while it uses them, which the interface forbids.
* The limits themselves: `Verify` has them as constants, so that numbers such as 1000
  and 8192 are not checked.
* Failing queries of a registration in `EventDelivery`; the composition of `DbStore` with
  the modules above it (sequences start again after a repair while observers hold old ones), whose state space
  neither TLC nor a proof of this size reaches; liveness of delivery, which fails with the lost wake-up.
* Runs of `AtLeastOnce`, and its theorem, do not remove watchers: the sequence of a removed
  NDK watcher is set to 0 during `OnEvents`, and `DeleteData` then unmaps the event for
  everybody.  `Watchers` has this, and `TakenOrMapped` excepts it (`lost`).

## Plan

1. Done: `TimeoutTask`, `EventDelivery` with `DeliveryPromise`, `ObserverRegistry`,
   `DbStore`, and their proofs.
2. Done: `UserInfo`, `ApiStats`, `OsEventListener`, `Storage`, `Verify`, `Writing`,
   `Watchers`, `ReportConfigs`, `Settings`.
3. Done: the proofs of every invariant and action property that a run checks.
4. A composition of `DbStore` with the registry, small enough to check; failing queries in
   `EventDelivery`.
