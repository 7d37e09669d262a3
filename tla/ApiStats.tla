------------------------------- MODULE ApiStats -------------------------------
(* How often the APIs of a kit were called: calls are collected in memory           *)
(* (ApiStatsAggregator), backed up in table api_stats (ApiStatsStorage) every 10 s *)
(* and reported as events every 60 s (ApiStatsManager, ApiStatsTimer).  A report   *)
(* backs up, reads the table, hands one event per API to the writing queue and     *)
(* clears the table.  mut_ serialises all of it with AddRecord, but each row is an *)
(* operation of its own that may fail, and the process may stop between any two.   *)
EXTENDS Integers, FiniteSets, Sequences, SequencesExt, FiniteSetsExt

CONSTANTS
    Apis,       \* kit and name of an API
    Costs,      \* times a call may take
    Outcomes,   \* whether a call succeeds, with its error code
    IntMax,     \* largest int: the cost is narrowed to it
    MaxCalls,   \* bound: calls of an API
    MaxFaults,  \* bound: failing database operations
    MaxCrashes  \* bound: restarts of the process

ASSUME ApiStatsAssumption ==
    /\ Costs \subseteq Nat
    /\ Outcomes \subseteq BOOLEAN \X Int
    /\ {IntMax, MaxCalls, MaxFaults, MaxCrashes} \subseteq Nat
    /\ IsFiniteSet(Apis) /\ IsFiniteSet(Costs) /\ IsFiniteSet(Outcomes)

VARIABLES
    memory,     \* apiMetricsMap_: how often each metric of an API was recorded
    updated,    \* updatedAfterLastBackup_
    table,      \* table api_stats
    armed,      \* delayed tasks of the timer
    running,    \* what holds mut_: the constructor, a backup or a report
    pc,         \* how far it is
    stored,     \* rows the running backup has inserted
    queue,      \* events submitted to the writing queue
    written,    \* what the events written sum up to, for each API
    calls, faults, crashes,
    added,      \* history: calls recorded
    lost,       \* history: calls a crash has lost
    dropped,    \* history: what the events sum up to that a crash has dropped from the queue
    twice       \* history: calls that a failure or a crash made count once more

vars == <<memory, updated, table, armed, running, pc, stored, queue, written, calls, faults,
          crashes, added, lost, dropped, twice>>

\* static_cast<int> of a 64 bit cost: beyond IntMax it becomes another number.
Narrow(cost) == ((cost + IntMax + 1) % (2 * IntMax + 2)) - IntMax - 1

ErrCodes == {o[2] : o \in Outcomes}
Metric(outcome, duration) ==
    [errCode |-> outcome[2], duration |-> duration, successful |-> outcome[1]]
Metrics == {Metric(o, d) : o \in Outcomes, d \in {Narrow(c) : c \in Costs} \cap Nat}
Keys == Apis \X Metrics
Empty == [k \in Keys |-> 0]
Plus(f, g) == [k \in Keys |-> f[k] + g[k]]
Minus(f, g) == [k \in Keys |-> f[k] - g[k]]
One(k) == [Empty EXCEPT ![k] = 1]

\* A sum is the number of its units: of n[k] for each k, or of weight[m] for each of the f[k]
\* times that metric m was recorded.
SumOver(K, n) == Cardinality(UNION {{k} \X (1..n[k]) : k \in K})
Total(f, weight) ==
    Cardinality(UNION {{k} \X ((1..f[k]) \X (1..weight[k[2]])) : k \in DOMAIN f})

Kinds == {"calls", "successes", "time"}
Weight(kind) ==
    [m \in Metrics |-> CASE kind = "calls" -> 1
                         [] kind = "successes" -> IF m.successful THEN 1 ELSE 0
                         [] kind = "time" -> m.duration]
WeightOfError(e) == [m \in Metrics |-> IF m.errCode = e THEN 1 ELSE 0]

\* Calls, successful calls and time, for each API.
Sums == [Apis \X Kinds -> Nat]
None == [x \in Apis \X Kinds |-> 0]
AddSums(s, t) == [x \in Apis \X Kinds |-> s[x] + t[x]]
Of(api, f) == [k \in {q \in DOMAIN f : q[1] = api} |-> f[k]]
SumsOf(f) == [x \in Apis \X Kinds |-> Total(Of(x[1], f), Weight(x[2]))]
SumsOfReport(r) ==
    [x \in Apis \X Kinds |-> IF x[1] # r.api THEN 0
                             ELSE CASE x[2] = "calls" -> r.callTimes
                                    [] x[2] = "successes" -> r.successTimes
                                    [] x[2] = "time" -> r.totalCostTime]
SumsOfReports(q) ==
    [x \in Apis \X Kinds |-> SumOver(DOMAIN q, [i \in DOMAIN q |-> SumsOfReport(q[i])[x]])]

Reports == [api : Apis, callTimes : Nat, successTimes : Nat, totalCostTime : Nat,
            maxCostTime : Nat, minCostTime : Nat, errorCodeNum : [ErrCodes -> Nat]]

TypeOK ==
    /\ {memory, table, stored, added, lost, twice} \subseteq [Keys -> Nat]
    /\ updated \in BOOLEAN
    /\ armed \subseteq {"backup", "report"}
    /\ running \in {"none", "constructor", "backup", "report"}
    /\ pc \in {"down", "idle", "backup", "query", "clear"}
    /\ queue \in Seq(Reports)
    /\ {written, dropped} \subseteq Sums
    /\ <<calls, faults, crashes>> \in (0..MaxCalls) \X (0..MaxFaults) \X (0..MaxCrashes)

Init ==
    /\ memory = Empty
    /\ updated = FALSE
    /\ table = Empty
    /\ armed = {}
    /\ running = "none"
    /\ pc = "down"
    /\ stored = Empty
    /\ queue = <<>>
    /\ written = None
    /\ dropped = None
    /\ calls = 0 /\ faults = 0 /\ crashes = 0
    /\ added = Empty /\ lost = Empty /\ twice = Empty

--------------------------------------------------------------------------------
(* Recording a call.                                                               *)

timerVars == <<armed, running, pc, stored>>
storeVars == <<table, queue, written, faults, crashes, lost, dropped, twice>>

\* Mutant: a call that repeats an earlier one is not added.
RecordDistinct(k) ==
    /\ memory' = [memory EXCEPT ![k] = 1]
    /\ updated' = TRUE
    /\ added' = Plus(added, One(k))

Record(k) ==
    /\ memory' = Plus(memory, One(k))
    /\ updated' = TRUE
    /\ added' = Plus(added, One(k))

\* A cost that has become negative is refused: nothing changes.  The first call constructs
\* the manager.
ProcessApiMetric(api, m) ==
    /\ pc = "idle"
    /\ m.duration >= 0
    /\ Record(<<api, m>>)

WriteApiEndMetric(api, cost, outcome) ==
    /\ calls < MaxCalls
    /\ calls' = calls + 1
    /\ ProcessApiMetric(api, Metric(outcome, Narrow(cost)))
    /\ UNCHANGED <<timerVars, storeVars>>

--------------------------------------------------------------------------------
(* The timer.                                                                      *)

\* Mutant: a task is not scheduled again.
UnlockOnce ==
    /\ armed' = armed \cup IF running = "constructor" THEN {"backup", "report"} ELSE {}
    /\ running' = "none"
    /\ pc' = "idle"
    /\ stored' = Empty

\* The task that ran is scheduled again; the constructor starts both.
Unlock ==
    /\ armed' = armed \cup IF running = "constructor" THEN {"backup", "report"} ELSE {running}
    /\ running' = "none"
    /\ pc' = "idle"
    /\ stored' = Empty

\* The constructor reports what an earlier process left, before the timers start.
Construct ==
    /\ pc = "down"
    /\ running' = "constructor"
    /\ pc' = "query"
    /\ UNCHANGED <<memory, updated, armed, stored, calls, added, storeVars>>

\* A delayed task runs; a backup with nothing new to store changes nothing.
ExecuteCallback(task) ==
    /\ pc = "idle"
    /\ task \in armed
    /\ task = "backup" => updated
    /\ armed' = armed \ {task}
    /\ running' = task
    /\ pc' = IF updated THEN "backup" ELSE "query"
    /\ UNCHANGED <<memory, updated, stored, calls, added, storeVars>>

\* A backup is over, on its own or as the first part of a report.
AfterBackup ==
    IF running = "backup" THEN Unlock
    ELSE pc' = "query" /\ stored' = Empty /\ UNCHANGED <<armed, running>>

InsertApiMetricInfo(k) ==
    /\ pc = "backup"
    /\ stored[k] < memory[k]
    /\ table' = Plus(table, One(k))
    /\ IF Plus(stored, One(k)) = memory
       THEN memory' = Empty /\ updated' = FALSE /\ AfterBackup
       ELSE stored' = Plus(stored, One(k)) /\ UNCHANGED <<memory, updated, armed, running, pc>>
    /\ UNCHANGED <<queue, written, calls, faults, crashes, added, lost, dropped, twice>>

Fault == faults < MaxFaults /\ faults' = faults + 1

\* The rows inserted so far stay, and the next backup stores them again.
InsertFails ==
    /\ pc = "backup"
    /\ Fault
    /\ twice' = Plus(twice, stored)
    /\ AfterBackup
    /\ UNCHANGED <<memory, updated, table, queue, written, calls, crashes, added, lost, dropped>>

\* Mutant: a report lists the errors of the successful calls only.
AggregateSuccessful(api, f) ==
    LET of == Of(api, f)
        costs == {k[2].duration : k \in {q \in DOMAIN of : of[q] > 0}} IN
    [api |-> api,
     callTimes |-> Total(of, Weight("calls")),
     successTimes |-> Total(of, Weight("successes")),
     totalCostTime |-> Total(of, Weight("time")),
     maxCostTime |-> Max(costs),
     minCostTime |-> Min(costs),
     errorCodeNum |-> [e \in ErrCodes |->
        Total(of, [m \in Metrics |-> IF m.errCode = e /\ m.successful THEN 1 ELSE 0])]]

\* What is reported of the calls f of one API.
Aggregate(api, f) ==
    LET of == Of(api, f)
        costs == {k[2].duration : k \in {q \in DOMAIN of : of[q] > 0}} IN
    [api |-> api,
     callTimes |-> Total(of, Weight("calls")),
     successTimes |-> Total(of, Weight("successes")),
     totalCostTime |-> Total(of, Weight("time")),
     maxCostTime |-> Max(costs),
     minCostTime |-> Min(costs),
     errorCodeNum |-> [e \in ErrCodes |-> Total(of, WeightOfError(e))]]

AggregateStats(f) ==
    LET apis == {api \in Apis : \E k \in DOMAIN f : k[1] = api /\ f[k] > 0} IN
    {Aggregate(api, f) : api \in apis}

\* ScheduleReport reads the table and submits a writing task for each API.
ReportStats ==
    /\ pc = "query"
    /\ queue' = queue \o SetToSeq(AggregateStats(table))
    /\ pc' = "clear"
    /\ UNCHANGED <<memory, updated, table, armed, running, stored, written, calls, faults,
                   crashes, added, lost, dropped, twice>>

QueryFails ==
    /\ pc = "query"
    /\ Fault
    /\ Unlock
    /\ UNCHANGED <<memory, updated, table, queue, written, calls, crashes, added, lost, dropped, twice>>

Clear ==
    /\ pc = "clear"
    /\ table' = Empty
    /\ Unlock
    /\ UNCHANGED <<memory, updated, queue, written, calls, faults, crashes, added, lost, dropped, twice>>

\* What was reported stays in the table and is reported again.
ClearFails ==
    /\ pc = "clear"
    /\ Fault
    /\ twice' = Plus(twice, table)
    /\ Unlock
    /\ UNCHANGED <<memory, updated, table, queue, written, calls, crashes, added, lost, dropped>>

--------------------------------------------------------------------------------
\* The writing task of an event.
WriteEvent ==
    /\ queue # <<>>
    /\ written' = AddSums(written, SumsOfReport(Head(queue)))
    /\ queue' = Tail(queue)
    /\ UNCHANGED <<memory, updated, table, calls, faults, crashes, added, lost, dropped,
                   twice, timerVars>>

\* Memory, delayed tasks and the queue are lost, the table stays.
Crash ==
    /\ pc # "down"
    /\ crashes < MaxCrashes
    /\ crashes' = crashes + 1
    /\ memory' = Empty
    /\ updated' = FALSE
    /\ armed' = {}
    /\ running' = "none"
    /\ pc' = "down"
    /\ stored' = Empty
    /\ queue' = <<>>
    /\ lost' = Plus(lost, Minus(memory, stored))
    /\ dropped' = AddSums(dropped, SumsOfReports(queue))
    /\ twice' = IF pc = "clear" THEN Plus(twice, table) ELSE twice
    /\ UNCHANGED <<table, written, calls, faults, added>>
--------------------------------------------------------------------------------
Next ==
    \/ \E api \in Apis, cost \in Costs, outcome \in Outcomes :
        WriteApiEndMetric(api, cost, outcome)
    \/ Construct
    \/ \E task \in armed : ExecuteCallback(task)
    \/ \E k \in Keys : InsertApiMetricInfo(k)
    \/ InsertFails
    \/ ReportStats
    \/ QueryFails
    \/ Clear
    \/ ClearFails
    \/ WriteEvent
    \/ Crash

\* The delayed tasks and the queue are run, and a task that runs goes on; a restarted
\* process uses the API again, and operations do not fail for ever.
Fairness ==
    /\ WF_vars(Construct)
    /\ WF_vars(ExecuteCallback("report"))
    /\ WF_vars(\E k \in Keys : InsertApiMetricInfo(k))
    /\ WF_vars(ReportStats)
    /\ WF_vars(Clear)
    /\ WF_vars(WriteEvent)

Spec == Init /\ [][Next]_vars /\ Fairness

--------------------------------------------------------------------------------
(* Properties.                                                                     *)

\* Whatever the memory or the table holds is the work of a task that is armed or running:
\* data recorded is always marked for the next backup, also after a failed one.
RecordedIsPending ==
    /\ Minus(memory, stored) # Empty => updated
    /\ pc = "idle" => armed = {"backup", "report"}

\* Rows that stand for calls still in memory or in events already handed over.
Copies == CASE pc = "backup" -> stored [] pc = "clear" -> table [] OTHER -> Empty

\* The books balance: what events say of calls, successes and time, with what the table
\* and the memory still hold, is what was recorded, less what crashes took from the memory,
\* and more what a backup failing part way, a failing clear or a crash before the clear
\* left in the table.  Nothing else is lost or counted twice, and nothing is forgotten.
CallsAccountedFor ==
    /\ TypeOK
    /\ RecordedIsPending
    /\ LET reported == AddSums(AddSums(written, dropped), SumsOfReports(queue))
           held == SumsOf(Minus(Plus(table, memory), Copies)) IN
       AddSums(AddSums(reported, held), SumsOf(lost)) = AddSums(SumsOf(added), SumsOf(twice))

\* Successes and errors agree with the calls, the time with the shortest and the longest call.
Honest(r) ==
    /\ r.successTimes <= r.callTimes
    /\ SumOver(ErrCodes, r.errorCodeNum) = r.callTimes
    /\ r.callTimes * r.minCostTime <= r.totalCostTime
    /\ r.totalCostTime <= r.callTimes * r.maxCostTime

\* The numbers of every event that waits to be written agree with each other.
ReportsAreHonest == \A i \in DOMAIN queue : Honest(queue[i])

\* In the end nothing is held back: memory, table and queue stay empty once no more calls
\* are recorded and operations no longer fail.
EverythingReported == <>[](memory = Empty /\ table = Empty /\ queue = <<>>)
================================================================================
