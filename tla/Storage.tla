-------------------------------- MODULE Storage --------------------------------
(* The storage of an application's events: the log file of each day, the tables    *)
(* events, event_observer_mapping and custom_event_params, the quota that cleaning *)
(* keeps, and ClearData.                                                           *)
(*                                                                                 *)
(* Events are written by worker threads of the bindings, one at a time under the   *)
(* mutex of hiappevent_write.cpp, and by the Cangjie binding under a mutex of its  *)
(* own: two writers may measure, clean and append at the same time.  ClearData     *)
(* takes neither mutex.  An event is one unit long in a file; if there is an       *)
(* observer it wants every event and takes none.                                   *)
EXTENDS Naturals, FiniteSets, FiniteSetsExt

CONSTANTS
    Threads,
    Days,           \* 1..Days: the dates in the names of the log files
    Quotas,         \* sizes an application may configure
    MaxLog,         \* bound: events in the log files
    Period,         \* EVENT_COUNT_OF_CHECK_SPACE
    Reserved,       \* RESERVED_NUM
    ReservedOs,     \* RESERVED_NUM_OS
    TriggerAging,   \* runs with parameters from which on ageing deletes some
    KeepRuns,       \* the newest of them, kept
    MaxEvents,      \* bound: events stored in the database
    MaxTroubles     \* bound: calls of ClearData, operations that fail and restarts, together

ASSUME StorageAssumption ==
    /\ IsFiniteSet(Threads) /\ Threads # {}
    /\ {Days, Period} \subseteq Nat \ {0}
    /\ Quotas \subseteq Nat /\ Quotas # {}
    /\ {Reserved, ReservedOs, TriggerAging, KeepRuns} \subseteq Nat
    /\ {MaxLog, MaxEvents, MaxTroubles} \subseteq Nat

VARIABLES
    today,
    logs,       \* size of the log file of each day, 0 if there is none
    events,     \* table events
    mapping,    \* table event_observer_mapping: sequences
    params,     \* runs with rows in custom_event_params
    peak,       \* the most rows the database held: its file does not shrink
    run,        \* the running id of the process
    eventCount, \* g_eventCount, -1 written as Period
    quota,      \* set before the first event
    watched,    \* whether there is an observer
    owner,      \* owner of each writer's mutex
    op,         \* what each thread is doing
    given,      \* AUTOINCREMENT of events
    clears, faults, crashes,
    torn        \* history: a clear overlapped an insertion, or a step of either failed

tableVars == <<events, mapping, params, peak, given>>
settings == <<quota, watched>>
boundVars == <<clears, faults, crashes>>
vars == <<today, logs, tableVars, run, eventCount, settings, owner, op, boundVars, torn>>

Writers == {"native", "cj"}
Idle == [pc |-> "idle", by |-> "native", size |-> 0, todo |-> {}, seq |-> 0]
\* The events in the log files, by day and place.
Lines == {l \in (1..Days) \X (1..MaxLog) : l[2] <= logs[l[1]]}
LogSize == Cardinality(Lines)
Seqs(E) == {e.seq : e \in E}
AtRest == \A t \in Threads : op[t] = Idle

TypeOK ==
    /\ today \in 1..Days
    /\ logs \in [1..Days -> 0..MaxLog]
    /\ events \subseteq [seq : 1..MaxEvents, os : BOOLEAN, run : Nat, params : BOOLEAN]
    /\ mapping \subseteq 1..MaxEvents
    /\ params \subseteq 0..MaxTroubles
    /\ {peak, given} \subseteq 0..MaxEvents
    /\ run = crashes
    /\ eventCount \in 0..Period
    /\ quota \in Quotas /\ watched \in BOOLEAN
    /\ owner \in [Writers -> SUBSET Threads] /\ \A w \in Writers : Cardinality(owner[w]) <= 1
    /\ op \in [Threads -> [pc : {"idle", "lock", "shrink", "age", "agemap", "ageparams", "append",
                                 "insert", "map", "events", "params", "mapping", "logs"},
                           by : Writers, size : Nat, todo : SUBSET (1..Days), seq : 0..MaxEvents]]
    /\ {clears, faults, crashes} \subseteq 0..MaxTroubles

Init ==
    /\ today = 1
    /\ logs = [d \in 1..Days |-> 0]
    /\ events = {} /\ mapping = {} /\ params = {} /\ peak = 0 /\ given = 0
    /\ run = 0
    /\ eventCount = Period
    /\ quota \in Quotas /\ watched \in BOOLEAN
    /\ owner = [w \in Writers |-> {}]
    /\ op = [t \in Threads |-> Idle]
    /\ clears = 0 /\ faults = 0 /\ crashes = 0
    /\ torn = FALSE

At(t, pc) == op[t].pc = pc
Goto(t, pc) == op' = [op EXCEPT ![t].pc = pc]
Return(t) == op' = [op EXCEPT ![t] = Idle]
Trouble == clears + faults + crashes < MaxTroubles
Fault == Trouble /\ faults' = faults + 1
Unlock(t) == owner' = [w \in Writers |-> owner[w] \ {t}]

--------------------------------------------------------------------------------
(* WriteEvent, and HiWriteEvent of the Cangjie binding.                            *)

\* What is disabled, or refused for want of space on the device, does not come here.
WriteEvent(t, w) ==
    /\ op[t] = Idle
    /\ op' = [op EXCEPT ![t] = [Idle EXCEPT !.pc = "lock", !.by = w]]
    /\ UNCHANGED <<today, logs, tableVars, run, eventCount, settings, owner, boundVars,
                   torn>>

\* Mutant: the counter is compared with the number it is reduced by.
DueLate(w) == w = "cj" \/ eventCount = Period

\* Whether CheckStorageSpace measures: at the first event, and at the Period-th since the last
\* cleaning; the Cangjie binding measures always.
Due(w) == w = "cj" \/ eventCount = Period \/ eventCount >= Period - 1

\* eventCount = (++eventCount) % Period, where Period stands for -1.
Counted(n) == IF n = Period THEN 0 ELSE (n + 1) % Period

\* Under the writer's mutex.  While the storage is not full the counter stays as it is, and the
\* size is measured for every event.
CheckStorageSpace(t) ==
    LET w == op[t].by
        size == LogSize + peak IN
    /\ At(t, "lock")
    /\ owner[w] = {}
    /\ owner' = [owner EXCEPT ![w] = {t}]
    /\ IF ~Due(w) THEN
            /\ eventCount' = Counted(eventCount)
            /\ Goto(t, "append")
       ELSE IF size <= quota THEN
            /\ Goto(t, "append")
            /\ UNCHANGED eventCount
       ELSE /\ eventCount' = IF w = "native" THEN Counted(eventCount) ELSE eventCount
            /\ op' = [op EXCEPT ![t].pc = "shrink", ![t].size = size,
                                ![t].todo = {d \in 1..Days : logs[d] > 0}]
    /\ UNCHANGED <<today, logs, tableVars, run, settings, boundVars, torn>>

\* AppEventLogCleaner::ClearSpace: files are removed, oldest first, until the size it started
\* from is within the quota; a file that cannot be removed is passed over.
ClearLogSpace(t) ==
    LET d == Min(op[t].todo) IN
    /\ At(t, "shrink")
    /\ op[t].todo # {} /\ op[t].size > quota
    /\ \/ /\ logs' = [logs EXCEPT ![d] = 0]
          /\ op' = [op EXCEPT ![t].todo = @ \ {d}, ![t].size = @ - Min({@, logs[d]})]
          /\ UNCHANGED faults
       \/ /\ Fault
          /\ op' = [op EXCEPT ![t].todo = @ \ {d}]
          /\ UNCHANGED logs
    /\ UNCHANGED <<today, tableVars, run, eventCount, settings, owner, clears, crashes, torn>>

\* AppEventDbCleaner::ClearSpace, if the files were not enough.
EndOfLogs(t) ==
    /\ At(t, "shrink")
    /\ op[t].todo = {} \/ op[t].size <= quota
    /\ Goto(t, IF op[t].size <= quota THEN "append" ELSE "age")
    /\ UNCHANGED <<today, logs, tableVars, run, eventCount, settings, owner, boundVars,
                   torn>>

Newest(E, n) == {e \in E : Cardinality({f \in E : f.seq > e.seq}) < n}
Of(os) == {e \in events : e.os = os}

\* ClearHistoryData: a statement that fails ends it.
DeleteHistoryEvent(t) ==
    /\ At(t, "age")
    /\ \/ /\ events' = Newest(Of(FALSE), Reserved) \cup Newest(Of(TRUE), ReservedOs)
          /\ Goto(t, "agemap")
          /\ UNCHANGED faults
       \/ Fault /\ Goto(t, "append") /\ UNCHANGED events
    /\ UNCHANGED <<today, logs, mapping, params, peak, given, run, eventCount, settings, owner,
                   clears, crashes, torn>>

\* Mutant: the mapping of deleted events is kept.
KeepMapping == mapping

UsedMapping == mapping \cap Seqs(events)

DeleteUnusedEventMapping(t) ==
    /\ At(t, "agemap")
    /\ \/ /\ mapping' = UsedMapping
          /\ Goto(t, "ageparams")
          /\ UNCHANGED <<faults, torn>>
       \/ Fault /\ Goto(t, "append") /\ torn' = TRUE /\ UNCHANGED mapping
    /\ UNCHANGED <<today, logs, events, params, peak, given, run, eventCount, settings, owner,
                   clears, crashes>>

\* The runs whose parameters go: not the newest, not the current one, none with an event.
UnusedRuns ==
    {r \in params : Cardinality({s \in params : s > r}) >= KeepRuns} \
        ({run} \cup {e.run : e \in events})

DeleteUnusedParams(t) ==
    /\ At(t, "ageparams")
    /\ params' = IF Cardinality(params) < TriggerAging THEN params ELSE params \ UnusedRuns
    /\ Goto(t, "append")
    /\ UNCHANGED <<today, logs, events, mapping, peak, given, run, eventCount, settings, owner,
                   boundVars, torn>>

\* WriteEventToFile.  The native writer unlocks before HandleEvents, Cangjie's after it; an
\* event that is not written is not handled.
Append(t) ==
    /\ At(t, "append")
    /\ watched => given < MaxEvents
    /\ \/ /\ LogSize < MaxLog
          /\ logs' = [logs EXCEPT ![today] = @ + 1]
          /\ Goto(t, "insert")
          /\ IF op[t].by = "native" THEN Unlock(t) ELSE UNCHANGED owner
          /\ UNCHANGED faults
       \/ Fault /\ Return(t) /\ Unlock(t) /\ UNCHANGED logs
    /\ UNCHANGED <<today, tableVars, run, eventCount, settings, clears, crashes,
                   torn>>

Clearing == \E t \in Threads : op[t].pc \in {"events", "params", "mapping", "logs"}
NewEvent(os, r) == [seq |-> given + 1, os |-> os, run |-> r, params |-> r \in params]
Insert(e) ==
    /\ given < MaxEvents
    /\ given' = given + 1
    /\ events' = events \cup {e}
    /\ peak' = Max({peak, Cardinality(events')})

\* HandleEvents stores the event, then its mapping, if there is an observer.
NoObserver(t) ==
    /\ At(t, "insert")
    /\ ~watched
    /\ Return(t)
    /\ Unlock(t)
    /\ UNCHANGED <<today, logs, tableVars, run, eventCount, settings, boundVars, torn>>

StoreEventsToDb(t) ==
    /\ At(t, "insert")
    /\ watched
    /\ Insert(NewEvent(FALSE, run))
    /\ op' = [op EXCEPT ![t].pc = "map", ![t].seq = given + 1]
    /\ torn' = (torn \/ Clearing)
    /\ UNCHANGED <<today, logs, mapping, params, run, eventCount, settings, owner, boundVars>>

StoreEventMappingToDb(t) ==
    /\ At(t, "map")
    /\ \/ mapping' = mapping \cup {op[t].seq} /\ UNCHANGED faults
       \/ Fault /\ UNCHANGED mapping
    /\ torn' = (torn \/ Clearing \/ faults' # faults \/ op[t].seq \notin Seqs(events))
    /\ Return(t)
    /\ Unlock(t)
    /\ UNCHANGED <<today, logs, events, params, peak, given, run, eventCount, settings, clears,
                   crashes>>

\* An event of the system, of this run or an earlier one, stored by the listener.
HandleOsEvent(r) ==
    /\ r <= run
    /\ watched
    /\ ~Clearing
    /\ Insert(NewEvent(TRUE, r))
    /\ mapping' = mapping \cup {given + 1}
    /\ UNCHANGED <<today, logs, params, run, eventCount, settings, owner, op, boundVars,
                   torn>>

\* SetEventParam stores parameters of the current run.
SetEventParam ==
    /\ run \notin params
    /\ params' = params \cup {run}
    /\ UNCHANGED <<today, logs, events, mapping, peak, given, run, eventCount, settings, owner, op,
                   boundVars, torn>>

--------------------------------------------------------------------------------
(* ClearData: one table after the other, whatever fails, then the log files.       *)

ClearData(t) ==
    /\ op[t] = Idle
    /\ Trouble
    /\ clears' = clears + 1
    /\ Goto(t, "events")
    /\ torn' = (torn \/ \E s \in Threads : op[s].pc = "map")
    /\ UNCHANGED <<today, logs, tableVars, run, eventCount, settings, owner, faults, crashes>>

ClearTable(t, pc, next, table) ==
    /\ At(t, pc)
    /\ Goto(t, next)
    /\ \/ table' = {} /\ UNCHANGED <<faults, torn>>
       \/ Fault /\ torn' = TRUE /\ UNCHANGED table
    /\ UNCHANGED <<today, logs, peak, given, run, eventCount, settings, owner, clears, crashes>>

DeleteEvents(t) == ClearTable(t, "events", "params", events) /\ UNCHANGED <<mapping, params>>
DeleteCustomEventParams(t) == ClearTable(t, "params", "mapping", params) /\ UNCHANGED <<events, mapping>>
DeleteEventMapping(t) == ClearTable(t, "mapping", "logs", mapping) /\ UNCHANGED <<events, params>>

ClearLogs(t) ==
    /\ At(t, "logs")
    /\ logs' = [d \in 1..Days |-> 0]
    /\ Return(t)
    /\ UNCHANGED <<today, tableVars, run, eventCount, settings, owner, boundVars, torn>>

--------------------------------------------------------------------------------

NextDay ==
    /\ today < Days
    /\ today' = today + 1
    /\ UNCHANGED <<logs, tableVars, run, eventCount, settings, owner, op, boundVars,
                   torn>>

Crash ==
    /\ Trouble
    /\ crashes' = crashes + 1
    /\ run' = run + 1
    /\ torn' = (torn \/ ~AtRest)
    /\ eventCount' = Period
    /\ owner' = [w \in Writers |-> {}]
    /\ op' = [t \in Threads |-> Idle]
    /\ UNCHANGED <<today, logs, tableVars, settings, clears, faults>>

Step(t) ==
    \/ CheckStorageSpace(t)
    \/ ClearLogSpace(t)
    \/ EndOfLogs(t)
    \/ DeleteHistoryEvent(t)
    \/ DeleteUnusedEventMapping(t)
    \/ DeleteUnusedParams(t)
    \/ Append(t)
    \/ NoObserver(t)
    \/ StoreEventsToDb(t)
    \/ StoreEventMappingToDb(t)
    \/ DeleteEvents(t)
    \/ DeleteCustomEventParams(t)
    \/ DeleteEventMapping(t)
    \/ ClearLogs(t)

Next ==
    \/ \E t \in Threads :
        \/ \E w \in Writers : WriteEvent(t, w)
        \/ ClearData(t)
        \/ Step(t)
    \/ \E r \in 0..MaxTroubles : HandleOsEvent(r)
    \/ SetEventParam
    \/ NextDay
    \/ Crash

Spec == Init /\ [][Next]_vars

--------------------------------------------------------------------------------
(* Properties.                                                                     *)

\* However writers overlap, the log files exceed the quota by at most the events of one period
\* and one for each other thread, which may have measured before and append later; unless a
\* file cannot be removed or written.
QuotaHolds == TypeOK /\ (LogSize < quota + Period + Cardinality(Threads) \/ faults > 0)

\* Ageing keeps the parameters an event had when it was stored as long as the event is stored.
ParamsServeEvents == \A e \in events : e.params => e.run \in params \/ clears > 0

\* At rest the stored events are the mapped ones: none is left that no observer will take, and
\* no mapping without its event; unless ClearData overlapped the storing of an event, a
\* statement of either failed, or the process ended half way.  And the parameters of the
\* events are there.
TablesAgree == (AtRest => torn \/ Seqs(events) = mapping) /\ ParamsServeEvents
================================================================================
