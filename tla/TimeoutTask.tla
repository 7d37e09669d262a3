------------------------------ MODULE TimeoutTask ------------------------------
(* The timeout task of AppEventObserverMgr.                                     *)
(*                                                                              *)
(* Every observer (watcher or processor) counts the events it has not yet been  *)
(* triggered for (currCond_.row) and may ask to be triggered after some time    *)
(* (triggerCond_.timeout).  HandleEvents, which any thread may run, arms a      *)
(* one-shot 30 second timer when an observer waits for its timeout and no       *)
(* timeout task exists; HandleTimeout, which a timer thread runs, advances      *)
(* every observer and either arms the next timer or declares the task gone.     *)
(* HandleBackground and HandleClearUp walk over the same observers.             *)
(*                                                                              *)
(* Each access to an observer is one critical section of its condMutex_, and    *)
(* one step here; the walks themselves hold no lock and interleave freely.      *)
EXTENDS Naturals

CONSTANTS
    Observers,      \* observer objects; one that is removed is never re-added
    Callers,        \* threads that call HandleEvents, HandleBackground, HandleClearUp
    Tasks,          \* identities for timeout tasks: an armed timer, then its handler
    RowCond,        \* triggerCond_.row of each observer, 0 for none
    SizeCond,       \* observers whose triggerCond_.size an event may meet
    TimeoutCond,    \* triggerCond_.timeout, in steps of TIMEOUT_STEP, 0 for none
    OnBackground,   \* observers with triggerCond_.onBackground
    RestoredRows,   \* rows that registration may leave from the events of an earlier run
    Cap             \* row and elapsed saturate here, above every condition

ASSUME TasksAssumption == Tasks # {}
ASSUME CondAssumption ==
    /\ RowCond \in [Observers -> Nat]
    /\ TimeoutCond \in [Observers -> Nat]
    /\ RestoredRows \subseteq Nat
    /\ Cap \in Nat
    /\ \A o \in Observers : RowCond[o] <= Cap /\ TimeoutCond[o] <= Cap

VARIABLES
    status,     \* "new", "registered" (in watchers_ or processors_) or "removed"
    row,        \* currCond_.row
    elapsed,    \* currCond_.timeout, in steps
    exist,      \* isTimeoutTaskExist_
    task,       \* timeout tasks: idle, armed, or a running HandleTimeout
    walk        \* what each thread does in the observer manager

ttVars == <<status, row, elapsed, exist, task, walk>>

Kinds == {"events", "background", "clear"}

\* A walk over a snapshot of the observers: the ones still to visit, the one whose
\* timeout condition is read next, and isNeedSend.
IdleTask == [pc |-> "idle", todo |-> {}, cur |-> {}, need |-> FALSE]
IdleCall == [pc |-> "idle", kind |-> "events", todo |-> {}, cur |-> {}, need |-> FALSE]

TaskStates == [pc : {"idle", "armed", "walk", "check", "decide"},
               todo : SUBSET Observers, cur : SUBSET Observers, need : BOOLEAN]
CallStates == [pc : {"idle", "walk", "check", "arm"}, kind : Kinds,
               todo : SUBSET Observers, cur : SUBSET Observers, need : BOOLEAN]

TTTypeOK ==
    /\ status \in [Observers -> {"new", "registered", "removed"}]
    /\ row \in [Observers -> Nat]
    /\ elapsed \in [Observers -> Nat]
    /\ exist \in BOOLEAN
    /\ task \in [Tasks -> TaskStates]
    /\ walk \in [Callers -> CallStates]

TTInit ==
    /\ status = [o \in Observers |-> "new"]
    /\ row = [o \in Observers |-> 0]
    /\ elapsed = [o \in Observers |-> 0]
    /\ exist = FALSE
    /\ task = [i \in Tasks |-> IdleTask]
    /\ walk = [t \in Callers |-> IdleCall]

--------------------------------------------------------------------------------
(* The observer's condition.                                                    *)

GetObservers == {o \in Observers : status[o] = "registered"}

MeetNumberCondition(curr, max) == max > 0 /\ curr >= max

HasTimeoutCondition(o) == TimeoutCond[o] > 0 /\ row[o] > 0

Bump(n) == IF n < Cap THEN n + 1 ELSE n

\* Mutant: the assignment replaces what earlier observers asked for.
LastNeed(need, visited) == \E o \in visited : HasTimeoutCondition(o)

\* isNeedSend |= observer->HasTimeoutCondition()
IsNeedSend(need, visited) == need \/ \E o \in visited : HasTimeoutCondition(o)

ResetCondition(o) ==
    /\ row' = [row EXCEPT ![o] = 0]
    /\ elapsed' = [elapsed EXCEPT ![o] = 0]

\* An event is counted; one of the conditions triggers and resets the observer.
ProcessEvent(o) ==
    \/ /\ MeetNumberCondition(Bump(row[o]), RowCond[o]) \/ o \in SizeCond
       /\ ResetCondition(o)
    \/ /\ ~MeetNumberCondition(Bump(row[o]), RowCond[o])
       /\ row' = [row EXCEPT ![o] = Bump(@)]
       /\ UNCHANGED elapsed

ProcessTimeout(o) ==
    IF MeetNumberCondition(Bump(elapsed[o]), TimeoutCond[o]) /\ row[o] > 0
    THEN ResetCondition(o)
    ELSE /\ elapsed' = [elapsed EXCEPT ![o] = Bump(@)]
         /\ UNCHANGED row

ProcessBackground(o) ==
    IF o \in OnBackground /\ row[o] > 0
    THEN ResetCondition(o)
    ELSE UNCHANGED <<row, elapsed>>

--------------------------------------------------------------------------------
(* Registration.  The object is published with the rows that the stored events, *)
(* less what triggered while they were loaded, leave in its condition.          *)

RestoredRow(r) == r

Register(o) ==
    /\ status[o] = "new"
    /\ status' = [status EXCEPT ![o] = "registered"]
    /\ \E r \in RestoredRows : row' = [row EXCEPT ![o] = RestoredRow(r)]
    /\ UNCHANGED <<elapsed, exist, task, walk>>

Remove(o) ==
    /\ status[o] = "registered"
    /\ status' = [status EXCEPT ![o] = "removed"]
    /\ UNCHANGED <<row, elapsed, exist, task, walk>>

--------------------------------------------------------------------------------
(* HandleEvents, HandleBackground and HandleClearUp.                            *)

\* The walk works on a snapshot; when it is empty there is nothing to do.
Begin(t, kind) ==
    /\ walk[t].pc = "idle"
    /\ walk' = IF GetObservers = {} THEN walk
               ELSE [walk EXCEPT ![t] = [pc |-> "walk", kind |-> kind, todo |-> GetObservers,
                                         cur |-> {}, need |-> FALSE]]
    /\ UNCHANGED <<status, row, elapsed, exist, task>>

\* An event the observer's filter rejects, or one it takes in real time, is not counted.
SendEventsToObserver(t, o) ==
    /\ walk[t].pc = "walk"
    /\ walk[t].kind = "events"
    /\ o \in walk[t].todo
    /\ ProcessEvent(o) \/ UNCHANGED <<row, elapsed>>
    /\ walk' = [walk EXCEPT ![t].pc = "check", ![t].todo = @ \ {o}, ![t].cur = {o}]
    /\ UNCHANGED <<status, exist, task>>

CheckAfterSend(t) ==
    /\ walk[t].pc = "check"
    /\ walk' = [walk EXCEPT ![t].pc = IF walk[t].todo = {} THEN "arm" ELSE "walk",
                            ![t].cur = {},
                            ![t].need = IsNeedSend(@, walk[t].cur)]
    /\ UNCHANGED <<status, row, elapsed, exist, task>>

SendTimeoutTask ==
    \E i \in Tasks :
        /\ task[i].pc = "idle"
        /\ task' = [task EXCEPT ![i].pc = "armed"]

\* Mutant: the existing task is not looked at.
MayArmAnyway(t) == walk[t].need

MayArm(t) == walk[t].need /\ ~exist

\* Under isTimeoutTaskExistMutex_.
ArmTimeoutTask(t) ==
    /\ walk[t].pc = "arm"
    /\ IF MayArm(t)
       THEN SendTimeoutTask /\ exist' = TRUE
       ELSE UNCHANGED <<task, exist>>
    /\ walk' = [walk EXCEPT ![t] = IdleCall]
    /\ UNCHANGED <<status, row, elapsed>>

\* The last observer of a walk ends it.
Visited(c, o) ==
    IF c.todo = {o} THEN IdleCall ELSE [c EXCEPT !.todo = c.todo \ {o}]

HandleBackground(t, o) ==
    /\ walk[t].pc = "walk"
    /\ walk[t].kind = "background"
    /\ o \in walk[t].todo
    /\ ProcessBackground(o)
    /\ walk' = [walk EXCEPT ![t] = Visited(walk[t], o)]
    /\ UNCHANGED <<status, exist, task>>

HandleClearUp(t, o) ==
    /\ walk[t].pc = "walk"
    /\ walk[t].kind = "clear"
    /\ o \in walk[t].todo
    /\ ResetCondition(o)
    /\ walk' = [walk EXCEPT ![t] = Visited(walk[t], o)]
    /\ UNCHANGED <<status, exist, task>>

--------------------------------------------------------------------------------
(* HandleTimeout, the callback of the one-shot timer.                           *)

FireTimeoutTask(i) ==
    /\ task[i].pc = "armed"
    /\ task' = [task EXCEPT ![i] = [pc |-> IF GetObservers = {} THEN "decide" ELSE "walk",
                                    todo |-> GetObservers, cur |-> {}, need |-> FALSE]]
    /\ UNCHANGED <<status, row, elapsed, exist, walk>>

TimeoutObserver(i, o) ==
    /\ task[i].pc = "walk"
    /\ o \in task[i].todo
    /\ ProcessTimeout(o)
    /\ task' = [task EXCEPT ![i].pc = "check", ![i].todo = @ \ {o}, ![i].cur = {o}]
    /\ UNCHANGED <<status, exist, walk>>

CheckAfterTimeout(i) ==
    /\ task[i].pc = "check"
    /\ task' = [task EXCEPT ![i].pc = IF task[i].todo = {} THEN "decide" ELSE "walk",
                            ![i].cur = {},
                            ![i].need = IsNeedSend(@, task[i].cur)]
    /\ UNCHANGED <<status, row, elapsed, exist, walk>>

\* The next timer is armed without the mutex and the flag stays up; or the flag is
\* cleared under the mutex.  isNeedSend was computed before, under no lock.
DecideTimeoutTask(i) ==
    /\ task[i].pc = "decide"
    /\ IF task[i].need
       THEN /\ task' = [task EXCEPT ![i] = [IdleTask EXCEPT !.pc = "armed"]]
            /\ UNCHANGED exist
       ELSE /\ task' = [task EXCEPT ![i] = IdleTask]
            /\ exist' = FALSE
    /\ UNCHANGED <<status, row, elapsed, walk>>

--------------------------------------------------------------------------------
StepWalk(t) ==
    \/ CheckAfterSend(t)
    \/ ArmTimeoutTask(t)
    \/ \E o \in Observers :
        SendEventsToObserver(t, o) \/ HandleBackground(t, o) \/ HandleClearUp(t, o)

StepTask(i) ==
    \/ FireTimeoutTask(i)
    \/ CheckAfterTimeout(i)
    \/ DecideTimeoutTask(i)
    \/ \E o \in Observers : TimeoutObserver(i, o)

TTNext ==
    \/ \E o \in Observers : Register(o) \/ Remove(o)
    \/ \E t \in Callers : (\E kind \in Kinds : Begin(t, kind)) \/ StepWalk(t)
    \/ \E i \in Tasks : StepTask(i)

TTSpec == TTInit /\ [][TTNext]_ttVars

\* A call once begun runs to its end, a timer once armed fires and its handler runs
\* to its end; nothing obliges anyone to write an event or to register.
TTFairness ==
    /\ \A t \in Callers : WF_ttVars(StepWalk(t))
    /\ \A i \in Tasks : WF_ttVars(StepTask(i))

TTFairSpec == TTSpec /\ TTFairness

--------------------------------------------------------------------------------
(* Properties.                                                                  *)

Outstanding(i) == task[i].pc # "idle"

\* "There can be only one timeout task" (comment in HandleEvents), and the flag tells
\* the truth about it: it is up exactly while a timer is armed or its handler runs.
\* Were it up with no task left, no timer would ever be armed again.
OneTimeoutTask ==
    /\ \A i, j \in Tasks : Outstanding(i) /\ Outstanding(j) => i = j
    /\ exist <=> \E i \in Tasks : Outstanding(i)

\* Whoever waits for its timeout when a timer is armed is served: the timer keeps being
\* re-armed by HandleTimeout until the observer triggers, is reset or is removed.
Waiting(o) == status[o] = "registered" /\ HasTimeoutCondition(o)

ArmedTimerServes ==
    \A o \in Observers :
        (Waiting(o) /\ \E i \in Tasks : task[i].pc = "armed") ~> ~Waiting(o)
================================================================================
