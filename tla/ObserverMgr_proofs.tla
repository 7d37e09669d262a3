-------------------------- MODULE ObserverMgr_proofs ---------------------------
(* Machine-checked proofs about the observer manager: its timeout task              *)
(* (TimeoutTask) and the registration of observers (ObserverRegistry), for any      *)
(* threads, observers, tasks, trigger conditions, configurations and bounds, with   *)
(* or without timeouts and failures.                                                *)
EXTENDS TimeoutTask, ObserverRegistry, FiniteSetTheorems, TLAPS

--------------------------------------------------------------------------------
(* TimeoutTask.                                                                     *)


\* Resetting or counting keeps the counters of currCond_ natural numbers.
LEMMA ConditionSteps ==
    ASSUME TTTypeOK, NEW o \in Observers,
           ProcessEvent(o) \/ ProcessTimeout(o) \/ ProcessBackground(o)
               \/ ResetCondition(o) \/ UNCHANGED <<row, elapsed>>
    PROVE  row' \in [Observers -> Nat] /\ elapsed' \in [Observers -> Nat]
<1>1. CASE ResetCondition(o)
  BY <1>1 DEF ResetCondition, TTTypeOK
<1>2. CASE UNCHANGED <<row, elapsed>>
  BY <1>2 DEF TTTypeOK
<1>3. \A n \in Nat : Bump(n) \in Nat
  BY DEF Bump
<1>4. CASE ProcessEvent(o)
  BY <1>1, <1>3, <1>4 DEF ProcessEvent, TTTypeOK
<1>5. CASE ProcessTimeout(o)
  BY <1>1, <1>3, <1>5 DEF ProcessTimeout, TTTypeOK
<1>6. CASE ProcessBackground(o)
  BY <1>1, <1>2, <1>6 DEF ProcessBackground
<1> QED
  BY <1>1, <1>2, <1>4, <1>5, <1>6

\* What a walk does to the record of a call or of a task keeps it a call or a task.
LEMMA CallSteps ==
    ASSUME NEW c \in CallStates, NEW o, NEW pc \in {"idle", "walk", "check", "arm"},
           NEW need \in BOOLEAN
    PROVE  /\ IdleCall \in CallStates
           /\ [c EXCEPT !.todo = @ \ {o}] \in CallStates
           /\ [c EXCEPT !.pc = pc, !.cur = {}, !.need = need] \in CallStates
           /\ o \in Observers =>
                [c EXCEPT !.pc = pc, !.todo = @ \ {o}, !.cur = {o}] \in CallStates
<1>1. IdleCall \in CallStates
  BY DEF IdleCall, CallStates, Kinds
<1>2. [c EXCEPT !.todo = @ \ {o}] \in CallStates
  BY DEF CallStates
<1>3. [c EXCEPT !.pc = pc, !.cur = {}, !.need = need] \in CallStates
  BY DEF CallStates
<1>4. o \in Observers =>
        [c EXCEPT !.pc = pc, !.todo = @ \ {o}, !.cur = {o}] \in CallStates
  BY DEF CallStates
<1> QED
  BY <1>1, <1>2, <1>3, <1>4

LEMMA TaskSteps ==
    ASSUME NEW c \in TaskStates, NEW o, NEW need \in BOOLEAN,
           NEW pc \in {"idle", "armed", "walk", "check", "decide"}
    PROVE  /\ IdleTask \in TaskStates
           /\ [IdleTask EXCEPT !.pc = "armed"] \in TaskStates
           /\ [c EXCEPT !.pc = pc] \in TaskStates
           /\ [c EXCEPT !.pc = pc, !.cur = {}, !.need = need] \in TaskStates
           /\ o \in Observers =>
                [c EXCEPT !.pc = pc, !.todo = @ \ {o}, !.cur = {o}] \in TaskStates
<1>1. IdleTask \in TaskStates /\ [IdleTask EXCEPT !.pc = "armed"] \in TaskStates
  BY DEF IdleTask, TaskStates
<1>2. [c EXCEPT !.pc = pc] \in TaskStates
  BY DEF TaskStates
<1>3. [c EXCEPT !.pc = pc, !.cur = {}, !.need = need] \in TaskStates
  BY DEF TaskStates
<1>4. o \in Observers =>
        [c EXCEPT !.pc = pc, !.todo = @ \ {o}, !.cur = {o}] \in TaskStates
  BY DEF TaskStates
<1> QED
  BY <1>1, <1>2, <1>3, <1>4

LEMMA NeedIsBoolean ==
    \A need \in BOOLEAN : \A S : IsNeedSend(need, S) \in BOOLEAN
BY DEF IsNeedSend

\* Every variable keeps its type: no walk leaves its snapshot, no counter its range.
THEOREM TimeoutTypeCorrect == TTSpec => []TTTypeOK
<1>1. TTInit => TTTypeOK
  <2>1. IdleTask \in TaskStates /\ IdleCall \in CallStates
    BY DEF IdleTask, TaskStates, IdleCall, CallStates, Kinds
  <2>2. TTInit => exist \in BOOLEAN
    BY DEF TTInit
  <2> QED
    BY <2>1, <2>2 DEF TTInit, TTTypeOK
<1>2. TTTypeOK /\ [TTNext]_ttVars => TTTypeOK'
  <2> SUFFICES ASSUME TTTypeOK, [TTNext]_ttVars
               PROVE  TTTypeOK'
    OBVIOUS
  <2> USE DEF TTTypeOK
  <2>1. ASSUME NEW o \in Observers, Register(o)
        PROVE  TTTypeOK'
    <3>1. PICK r \in RestoredRows : row' = [row EXCEPT ![o] = r]
      BY <2>1 DEF Register, RestoredRow
    <3>2. r \in Nat
      BY CondAssumption
    <3> QED
      BY <2>1, <3>1, <3>2 DEF Register
  <2>2. ASSUME NEW o \in Observers, Remove(o)
        PROVE  TTTypeOK'
    BY <2>2 DEF Remove
  <2>3. ASSUME NEW t \in Callers, NEW kind \in Kinds, Begin(t, kind)
        PROVE  TTTypeOK'
    <3>1. [pc |-> "walk", kind |-> kind, todo |-> GetObservers, cur |-> {}, need |-> FALSE]
            \in CallStates
      BY DEF CallStates, GetObservers
    <3> QED
      BY <2>3, <3>1 DEF Begin
  <2>4. ASSUME NEW t \in Callers, NEW o \in Observers, SendEventsToObserver(t, o)
        PROVE  TTTypeOK'
    <3>1. row' \in [Observers -> Nat] /\ elapsed' \in [Observers -> Nat]
      BY <2>4, ConditionSteps DEF SendEventsToObserver
    <3> DEFINE next == [walk[t] EXCEPT !.pc = "check", !.todo = @ \ {o}, !.cur = {o}]
    <3>2. walk' = [walk EXCEPT ![t] = next]
      BY <2>4 DEF SendEventsToObserver
    <3>3. next \in CallStates
      BY CallSteps DEF Visited
    <3> HIDE DEF next
    <3>4. walk' \in [Callers -> CallStates]
      BY <3>2, <3>3
    <3> QED
      BY <2>4, <3>1, <3>4 DEF SendEventsToObserver
  <2>5. ASSUME NEW t \in Callers, CheckAfterSend(t)
        PROVE  TTTypeOK'
    <3>1. IsNeedSend(walk[t].need, walk[t].cur) \in BOOLEAN
      BY NeedIsBoolean DEF CallStates
    <3> DEFINE next == [walk[t] EXCEPT !.pc = IF walk[t].todo = {} THEN "arm" ELSE "walk",
                                      !.cur = {},
                                      !.need = IsNeedSend(walk[t].need, walk[t].cur)]
    <3>2. walk' = [walk EXCEPT ![t] = next]
      BY <2>5 DEF CheckAfterSend
    <3>3. next \in CallStates
      BY <3>1, CallSteps
    <3> HIDE DEF next
    <3>4. walk' \in [Callers -> CallStates]
      BY <3>2, <3>3
    <3> QED
      BY <2>5, <3>4 DEF CheckAfterSend
  <2>6. ASSUME NEW t \in Callers, ArmTimeoutTask(t)
        PROVE  TTTypeOK'
    <3>1. walk' \in [Callers -> CallStates] /\ exist' \in BOOLEAN
      BY <2>6, CallSteps DEF ArmTimeoutTask
    <3>2. task' \in [Tasks -> TaskStates]
      <4>1. CASE MayArm(t)
        <5>1. PICK i \in Tasks : task' = [task EXCEPT ![i] = [task[i] EXCEPT !.pc = "armed"]]
          BY <2>6, <4>1 DEF ArmTimeoutTask, SendTimeoutTask
        <5> QED
          BY <5>1, TaskSteps
      <4>2. CASE ~MayArm(t)
        BY <2>6, <4>2 DEF ArmTimeoutTask
      <4> QED
        BY <4>1, <4>2
    <3> QED
      BY <2>6, <3>1, <3>2 DEF ArmTimeoutTask
  <2>7. ASSUME NEW t \in Callers, NEW o \in Observers, HandleBackground(t, o)
        PROVE  TTTypeOK'
    <3>1. row' \in [Observers -> Nat] /\ elapsed' \in [Observers -> Nat]
      BY <2>7, ConditionSteps DEF HandleBackground
    <3> DEFINE next == Visited(walk[t], o)
    <3>2. walk' = [walk EXCEPT ![t] = next]
      BY <2>7 DEF HandleBackground
    <3>3. next \in CallStates
      BY CallSteps DEF Visited
    <3> HIDE DEF next
    <3>4. walk' \in [Callers -> CallStates]
      BY <3>2, <3>3
    <3> QED
      BY <2>7, <3>1, <3>4 DEF HandleBackground
  <2>8. ASSUME NEW t \in Callers, NEW o \in Observers, HandleClearUp(t, o)
        PROVE  TTTypeOK'
    <3>1. row' \in [Observers -> Nat] /\ elapsed' \in [Observers -> Nat]
      BY <2>8, ConditionSteps DEF HandleClearUp
    <3> DEFINE next == Visited(walk[t], o)
    <3>2. walk' = [walk EXCEPT ![t] = next]
      BY <2>8 DEF HandleClearUp
    <3>3. next \in CallStates
      BY CallSteps DEF Visited
    <3> HIDE DEF next
    <3>4. walk' \in [Callers -> CallStates]
      BY <3>2, <3>3
    <3> QED
      BY <2>8, <3>1, <3>4 DEF HandleClearUp
  <2>9. ASSUME NEW i \in Tasks, FireTimeoutTask(i)
        PROVE  TTTypeOK'
    <3>1. [pc |-> IF GetObservers = {} THEN "decide" ELSE "walk",
           todo |-> GetObservers, cur |-> {}, need |-> FALSE] \in TaskStates
      BY DEF TaskStates, GetObservers
    <3> QED
      BY <2>9, <3>1 DEF FireTimeoutTask
  <2>10. ASSUME NEW i \in Tasks, NEW o \in Observers, TimeoutObserver(i, o)
         PROVE  TTTypeOK'
    <3>1. row' \in [Observers -> Nat] /\ elapsed' \in [Observers -> Nat]
      BY <2>10, ConditionSteps DEF TimeoutObserver
    <3> DEFINE next == [task[i] EXCEPT !.pc = "check", !.todo = @ \ {o}, !.cur = {o}]
    <3>2. task' = [task EXCEPT ![i] = next]
      BY <2>10 DEF TimeoutObserver
    <3>3. next \in TaskStates
      BY TaskSteps
    <3> HIDE DEF next
    <3>4. task' \in [Tasks -> TaskStates]
      BY <3>2, <3>3
    <3> QED
      BY <2>10, <3>1, <3>4 DEF TimeoutObserver
  <2>11. ASSUME NEW i \in Tasks, CheckAfterTimeout(i)
         PROVE  TTTypeOK'
    <3>1. IsNeedSend(task[i].need, task[i].cur) \in BOOLEAN
      BY NeedIsBoolean DEF TaskStates
    <3> DEFINE next == [task[i] EXCEPT !.pc = IF task[i].todo = {} THEN "decide" ELSE "walk",
                                      !.cur = {},
                                      !.need = IsNeedSend(task[i].need, task[i].cur)]
    <3>2. task' = [task EXCEPT ![i] = next]
      BY <2>11 DEF CheckAfterTimeout
    <3>3. next \in TaskStates
      BY <3>1, TaskSteps
    <3> HIDE DEF next
    <3>4. task' \in [Tasks -> TaskStates]
      BY <3>2, <3>3
    <3> QED
      BY <2>11, <3>4 DEF CheckAfterTimeout
  <2>12. ASSUME NEW i \in Tasks, DecideTimeoutTask(i)
         PROVE  TTTypeOK'
    BY <2>12, TaskSteps DEF DecideTimeoutTask
  <2>13. CASE UNCHANGED ttVars
    BY <2>13 DEF ttVars
  <2> QED
    BY <2>1, <2>2, <2>3, <2>4, <2>5, <2>6, <2>7, <2>8, <2>9, <2>10, <2>11, <2>12, <2>13
    DEF TTNext, StepWalk, StepTask
<1> QED
  BY <1>1, <1>2, PTL DEF TTSpec

--------------------------------------------------------------------------------
\* The steps that leave every task outstanding or not as it was, and the flag alone,
\* keep the invariant.
LEMMA SameOutstanding ==
    ASSUME OneTimeoutTask, exist' = exist,
           \A i \in Tasks : (task'[i].pc # "idle") <=> (task[i].pc # "idle")
    PROVE  OneTimeoutTask'
BY DEF OneTimeoutTask, Outstanding

\* There is at most one timeout task, and isTimeoutTaskExist_ is true exactly while there
\* is one: HandleEvents and HandleTimeout agree on it although only HandleEvents tests the
\* flag under its mutex and HandleTimeout re-arms without it.
THEOREM AtMostOneTimeoutTask == TTSpec => []OneTimeoutTask
<1>1. TTInit => OneTimeoutTask
  BY DEF TTInit, OneTimeoutTask, Outstanding, IdleTask
<1>2. TTTypeOK /\ OneTimeoutTask /\ [TTNext]_ttVars => OneTimeoutTask'
  <2> SUFFICES ASSUME TTTypeOK, OneTimeoutTask, [TTNext]_ttVars
               PROVE  OneTimeoutTask'
    OBVIOUS
  <2>1. ASSUME UNCHANGED <<task, exist>>
        PROVE  OneTimeoutTask'
    BY <2>1 DEF OneTimeoutTask, Outstanding
  <2>2. ASSUME NEW o \in Observers, Register(o) \/ Remove(o)
        PROVE  OneTimeoutTask'
    BY <2>1, <2>2 DEF Register, Remove
  <2>3. ASSUME NEW t \in Callers, NEW kind \in Kinds, Begin(t, kind)
        PROVE  OneTimeoutTask'
    BY <2>1, <2>3 DEF Begin
  <2>4. ASSUME NEW t \in Callers, NEW o \in Observers,
               SendEventsToObserver(t, o) \/ HandleBackground(t, o) \/ HandleClearUp(t, o)
        PROVE  OneTimeoutTask'
    BY <2>1, <2>4 DEF SendEventsToObserver, HandleBackground, HandleClearUp
  <2>5. ASSUME NEW t \in Callers, CheckAfterSend(t)
        PROVE  OneTimeoutTask'
    BY <2>1, <2>5 DEF CheckAfterSend
  <2>6. ASSUME NEW t \in Callers, ArmTimeoutTask(t)
        PROVE  OneTimeoutTask'
    <3>1. CASE MayArm(t)
      \* The flag is down, so no task is outstanding and the new one is alone.
      <4>1. \A i \in Tasks : ~Outstanding(i)
        BY <3>1 DEF MayArm, OneTimeoutTask
      <4>2. PICK j \in Tasks : task' = [task EXCEPT ![j].pc = "armed"]
        BY <2>6, <3>1 DEF ArmTimeoutTask, SendTimeoutTask
      <4>3. exist' = TRUE
        BY <2>6, <3>1 DEF ArmTimeoutTask
      <4>4. \A i \in Tasks : (task'[i].pc # "idle") <=> i = j
        BY <4>1, <4>2 DEF Outstanding, TTTypeOK
      <4> QED
        BY <4>3, <4>4 DEF OneTimeoutTask, Outstanding
    <3>2. CASE ~MayArm(t)
      BY <2>1, <2>6, <3>2 DEF ArmTimeoutTask
    <3> QED
      BY <3>1, <3>2
  <2>7. ASSUME NEW i \in Tasks, FireTimeoutTask(i)
        PROVE  OneTimeoutTask'
    BY <2>7, SameOutstanding DEF FireTimeoutTask, TTTypeOK
  <2>8. ASSUME NEW i \in Tasks, NEW o \in Observers, TimeoutObserver(i, o)
        PROVE  OneTimeoutTask'
    BY <2>8, SameOutstanding DEF TimeoutObserver, TTTypeOK
  <2>9. ASSUME NEW i \in Tasks, CheckAfterTimeout(i)
        PROVE  OneTimeoutTask'
    <3> DEFINE pc == IF task[i].todo = {} THEN "decide" ELSE "walk"
    <3>1. task'[i].pc = pc /\ task[i].pc = "check"
      BY <2>9 DEF CheckAfterTimeout, TTTypeOK, TaskStates
    <3>2. \A j \in Tasks : j # i => task'[j] = task[j]
      BY <2>9 DEF CheckAfterTimeout, TTTypeOK
    <3>3. pc # "idle"
      OBVIOUS
    <3> HIDE DEF pc
    <3>4. \A j \in Tasks : (task'[j].pc # "idle") <=> (task[j].pc # "idle")
      BY <3>1, <3>2, <3>3
    <3>5. exist' = exist
      BY <2>9 DEF CheckAfterTimeout
    <3> QED
      BY <3>4, <3>5, SameOutstanding
  <2>10. ASSUME NEW i \in Tasks, DecideTimeoutTask(i)
         PROVE  OneTimeoutTask'
    <3>1. CASE task[i].need
      BY <2>10, <3>1, SameOutstanding DEF DecideTimeoutTask, IdleTask, TTTypeOK
    <3>2. CASE ~task[i].need
      \* i was the only outstanding task, and it ends as the flag goes down.
      <4>1. \A j \in Tasks : Outstanding(j) => i = j
        BY <2>10 DEF DecideTimeoutTask, OneTimeoutTask, Outstanding
      <4>2. \A j \in Tasks : task'[j].pc = "idle"
        BY <2>10, <3>2, <4>1 DEF DecideTimeoutTask, IdleTask, Outstanding, TTTypeOK
      <4>3. exist' = FALSE
        BY <2>10, <3>2 DEF DecideTimeoutTask
      <4> QED
        BY <4>2, <4>3 DEF OneTimeoutTask, Outstanding
    <3> QED
      BY <3>1, <3>2
  <2>11. CASE UNCHANGED ttVars
    BY <2>1, <2>11 DEF ttVars
  <2> QED
    BY <2>2, <2>3, <2>4, <2>5, <2>6, <2>7, <2>8, <2>9, <2>10, <2>11
    DEF TTNext, StepWalk, StepTask
<1> QED
  BY <1>1, <1>2, TimeoutTypeCorrect, PTL DEF TTSpec

--------------------------------------------------------------------------------
(* ObserverRegistry.                                                                *)


CallPcs == {"idle", "lookup", "choose", "claim", "wait", "waitInit",
            "query", "store", "publish", "delete", "forget"}
TaskPcs == {"idle", "query", "opened", "store", "done"}

Calls == States(CallPcs)
TaskRecords == States(TaskPcs)

\* A call or a task works on one configuration, and has no sequence at first.
Single(s) ==
    IF s.pc = "idle" THEN s = Idle ELSE \E c \in Configs : s.config = {c}

ShapeOK ==
    \A t \in Threads :
        /\ Single(call[t]) /\ Single(initTask[t])
        /\ call[t].pc \in {"lookup", "choose", "claim"} => call[t].seq = 0

\* A task belongs to the call that waits for it; a thread that is about to submit one has
\* none left, because it has found isFirstAddProcessor_ still set.
TaskOK ==
    \A t \in Threads :
        /\ call[t].pc = "wait" =>
                initTask[t].pc # "idle" /\ initTask[t].config = call[t].config
        /\ call[t].pc = "claim" => initTask[t].pc = "idle"
        /\ initTask[t].pc # "idle" => ~first

\* Calls and tasks that may insert a row, each of which has a sequence left to take.
Takers ==
    ({1} \X {t \in Threads :
                call[t].pc \in {"lookup", "choose", "claim", "waitInit", "query", "store"}})
        \cup ({2} \X {t \in Threads : initTask[t].pc \in {"query", "opened", "store"}})

RoomOK == IsFiniteSet(Busy) /\ given + Cardinality(Takers) <= MaxSeq

\* Whoever knows a configuration by its sequence: the rows, the processors, the calls that
\* are to publish or to remove one, and the tasks that have found or made one.
CallHolds(t) ==
    IF call[t].pc \in {"publish", "delete", "forget"} THEN {call[t].seq} \X call[t].config ELSE {}
TaskHolds(t) ==
    IF initTask[t].seq # 0 THEN {initTask[t].seq} \X initTask[t].config ELSE {}
CallsHold == UNION {CallHolds(t) : t \in Threads}
TasksHold == UNION {TaskHolds(t) : t \in Threads}
Known == table \cup processors \cup CallsHold \cup TasksHold

KnownOK ==
    /\ \A h \in Known : h \in (1..given) \X Configs
    /\ \A h, g \in Known : h[1] = g[1] => h[2] = g[2]

\* Two that work on one configuration have disturbed each other, except a call and the task
\* it waits for.
OverlapOK ==
    \A t, u \in Threads : \A c \in Configs :
        \/ c \in disturbed
        \/ /\ t # u => ~(c \in call[t].config /\ c \in call[u].config)
           /\ t # u => ~(c \in initTask[t].config /\ c \in initTask[u].config)
           /\ c \in call[t].config /\ c \in initTask[u].config => t = u /\ call[t].pc = "wait"

\* Who is about to insert a row knows that there is none, and who holds a sequence knows that
\* its row is there.
Undisturbed(C) == C \cap disturbed = {}

SeenOK ==
    \A t \in Threads :
        /\ Undisturbed(call[t].config) =>
            /\ call[t].pc = "store" => RowsOf(call[t].config) = {}
            /\ call[t].pc = "publish" => {call[t].seq} \X call[t].config \subseteq table
        /\ Undisturbed(initTask[t].config) =>
            /\ \/ initTask[t].pc = "store"
               \/ initTask[t].pc = "opened" /\ initTask[t].seq = 0
               => RowsOf(initTask[t].config) = {}
            /\ initTask[t].seq # 0 =>
                    {initTask[t].seq} \X initTask[t].config \subseteq table

\* A processor has its row, unless a removal is between the two.
LiveOK ==
    \A q \in processors :
        \/ q[2] \in disturbed
        \/ q \in table
        \/ \E t \in Threads : call[t].pc = "forget" /\ call[t].seq = q[1]

IInv ==
    /\ TypeOK /\ ShapeOK /\ TaskOK /\ RoomOK /\ KnownOK /\ OverlapOK
    /\ UniqueUnlessDisturbed /\ SeenOK /\ LiveOK

--------------------------------------------------------------------------------
(* Records.                                                                        *)

LEMMA BoundsAreNat == MaxSeq \in Nat /\ MaxCrashes \in Nat
BY RegistryAssumption

LEMMA TypesOf ==
    TypeOK <=> /\ table \subseteq Seqs \X Configs
               /\ given \in 0..MaxSeq
               /\ processors \subseteq Seqs \X Configs
               /\ first \in BOOLEAN /\ dbInit \in BOOLEAN
               /\ call \in [Threads -> Calls] /\ initTask \in [Threads -> TaskRecords]
               /\ crashes \in 0..MaxCrashes
               /\ gone \subseteq Seqs /\ disturbed \subseteq Configs
BY DEF TypeOK, Calls, CallPcs, TaskRecords, TaskPcs

LEMMA IdleIs ==
    /\ Idle \in Calls /\ Idle \in TaskRecords
    /\ Idle.pc = "idle" /\ Idle.config = {} /\ Idle.seq = 0
BY BoundsAreNat DEF Idle, Calls, CallPcs, TaskRecords, TaskPcs, States

LEMMA GotoStep ==
    ASSUME call \in [Threads -> Calls], NEW t \in Threads, NEW pc \in CallPcs, Goto(t, pc)
    PROVE  /\ call' \in [Threads -> Calls]
           /\ call'[t].pc = pc /\ call'[t].config = call[t].config /\ call'[t].seq = call[t].seq
           /\ \A u \in Threads \ {t} : call'[u] = call[u]
BY DEF Goto, Calls, States

LEMMA ReturnStep ==
    ASSUME call \in [Threads -> Calls], NEW t \in Threads, Return(t)
    PROVE  /\ call' \in [Threads -> Calls] /\ call'[t] = Idle
           /\ \A u \in Threads \ {t} : call'[u] = call[u]
BY IdleIs DEF Return

LEMMA TaskStep ==
    ASSUME initTask \in [Threads -> TaskRecords], NEW t \in Threads, NEW pc \in TaskPcs,
           NEW seq \in 0..MaxSeq, initTask' = [initTask EXCEPT ![t].pc = pc, ![t].seq = seq]
    PROVE  /\ initTask' \in [Threads -> TaskRecords]
           /\ initTask'[t].pc = pc /\ initTask'[t].config = initTask[t].config
           /\ initTask'[t].seq = seq
           /\ \A u \in Threads \ {t} : initTask'[u] = initTask[u]
BY DEF TaskRecords, States

--------------------------------------------------------------------------------
(* The database.                                                                   *)

\* A query that finds no row says so, and one that fails disturbs the configuration.
LEMMA QueryGives ==
    ASSUME table \subseteq Seqs \X Configs, disturbed \subseteq Configs,
           NEW c \in Configs, NEW seq \in Nat, QueryResult({c}, seq)
    PROVE  /\ disturbed \subseteq disturbed' /\ disturbed' \subseteq Configs
           /\ \/ seq # 0 /\ <<seq, c>> \in table /\ disturbed' = disturbed
              \/ seq = 0 /\ (\A r \in table : r[2] # c) /\ disturbed' = disturbed
              \/ seq = 0 /\ c \in disturbed'
<1>1. CASE seq \in QuerySeq({c}) /\ UNCHANGED disturbed
  <2>1. CASE RowsOf({c}) = {}
    BY <1>1, <2>1 DEF QuerySeq, RowsOf
  <2>2. CASE RowsOf({c}) # {}
    <3>1. PICK q \in RowsOf({c}) : seq = q[1]
      BY <1>1, <2>2 DEF QuerySeq
    <3>2. q \in table /\ q[2] = c /\ q \in Seqs \X Configs
      BY <3>1 DEF RowsOf
    <3>3. q = <<seq, c>> /\ seq # 0
      BY <3>1, <3>2, BoundsAreNat DEF Seqs
    <3> QED
      BY <1>1, <3>2, <3>3
  <2> QED
    BY <2>1, <2>2
<1>2. CASE seq = 0 /\ disturbed' = disturbed \cup {c}
  BY <1>2
<1> QED
  BY <1>1, <1>2 DEF QueryResult

LEMMA InsertGives ==
    ASSUME given \in Nat, NEW C, NEW c, C = {c}, InsertObserver(C)
    PROVE  table' = table \cup {<<given + 1, c>>} /\ given' = given + 1
BY DEF InsertObserver, NextSeq

--------------------------------------------------------------------------------
(* Room for the sequences.                                                         *)

LEMMA TakersAreBusy == Takers \subseteq Busy
BY DEF Takers, Busy

LEMMA TakersFinite == RoomOK => IsFiniteSet(Takers) /\ Cardinality(Takers) \in Nat
BY TakersAreBusy, FS_Subset, FS_CardinalityType DEF RoomOK

\* Nobody new takes a sequence.
LEMMA RoomKept ==
    ASSUME RoomOK, given \in Nat, NEW x, Busy' \subseteq Busy \cup {x},
           Takers' \subseteq Takers, given' = given
    PROVE  RoomOK'
<1>1. IsFiniteSet(Busy')
  BY FS_AddElement, FS_Subset DEF RoomOK
<1>2. Cardinality(Takers') \in Nat /\ Cardinality(Takers') <= Cardinality(Takers)
  BY TakersFinite, FS_Subset, FS_CardinalityType
<1> QED
  BY <1>1, <1>2, TakersFinite, BoundsAreNat DEF RoomOK

\* A new call has room by its guard.
LEMMA RoomForCall ==
    ASSUME RoomOK, given \in Nat, NEW x, Busy' \subseteq Busy \cup {x},
           Takers' \subseteq Takers \cup {x}, given' = given,
           given + Cardinality(Busy) < MaxSeq
    PROVE  RoomOK'
<1>1. IsFiniteSet(Busy')
  BY FS_AddElement, FS_Subset DEF RoomOK
<1>2. Cardinality(Takers) <= Cardinality(Busy) /\ Cardinality(Busy) \in Nat
  BY TakersAreBusy, FS_Subset, FS_CardinalityType DEF RoomOK
<1>3. Cardinality(Takers') \in Nat /\ Cardinality(Takers') <= Cardinality(Takers) + 1
  <2>1. /\ IsFiniteSet(Takers \cup {x})
        /\ Cardinality(Takers \cup {x}) =
            IF x \in Takers THEN Cardinality(Takers) ELSE Cardinality(Takers) + 1
    BY TakersFinite, FS_AddElement
  <2>2. Cardinality(Takers') <= Cardinality(Takers \cup {x}) /\ IsFiniteSet(Takers')
    BY <2>1, FS_Subset
  <2> QED
    BY <2>1, <2>2, TakersFinite, FS_CardinalityType
<1>4. given + Cardinality(Takers') <= MaxSeq
  BY <1>2, <1>3, TakersFinite, BoundsAreNat
<1> QED
  BY <1>1, <1>4 DEF RoomOK

\* A call leaves its place to the task it submits.
LEMMA RoomHandedOver ==
    ASSUME RoomOK, given \in Nat, NEW x \in Takers, NEW y, Busy' \subseteq Busy \cup {y},
           Takers' \subseteq (Takers \ {x}) \cup {y}, given' = given
    PROVE  RoomOK'
<1>1. IsFiniteSet(Busy')
  BY FS_AddElement, FS_Subset DEF RoomOK
<1> DEFINE rest == Takers \ {x}
<1>2. IsFiniteSet(rest) /\ Cardinality(rest) = Cardinality(Takers) - 1 /\ Cardinality(rest) \in Nat
  BY TakersFinite, FS_RemoveElement, FS_CardinalityType
<1>3. /\ IsFiniteSet(rest \cup {y})
      /\ Cardinality(rest \cup {y}) = IF y \in rest THEN Cardinality(rest) ELSE Cardinality(rest) + 1
  BY <1>2, FS_AddElement
<1>4. Cardinality(Takers') \in Nat /\ Cardinality(Takers') <= Cardinality(rest \cup {y})
  BY <1>3, FS_Subset, FS_CardinalityType
<1> HIDE DEF rest
<1> QED
  BY <1>1, <1>2, <1>3, <1>4, TakersFinite, BoundsAreNat DEF RoomOK

\* Who is to take a sequence finds one left, and is done.
LEMMA RoomTaken ==
    ASSUME RoomOK, given \in Nat, NEW x \in Takers
    PROVE  /\ given + 1 <= MaxSeq
           /\ Busy' \subseteq Busy /\ Takers' \subseteq Takers \ {x} /\ given' = given + 1
              => RoomOK'
<1>1. /\ IsFiniteSet(Takers \ {x}) /\ Cardinality(Takers \ {x}) = Cardinality(Takers) - 1
      /\ Cardinality(Takers \ {x}) \in Nat
  BY TakersFinite, FS_RemoveElement, FS_CardinalityType
<1>2. given + 1 <= MaxSeq
  BY <1>1, TakersFinite, BoundsAreNat DEF RoomOK
<1>3. ASSUME Busy' \subseteq Busy, Takers' \subseteq Takers \ {x}, given' = given + 1
      PROVE  RoomOK'
  <2>1. IsFiniteSet(Busy')
    BY <1>3, FS_Subset DEF RoomOK
  <2>2. Cardinality(Takers') \in Nat /\ Cardinality(Takers') <= Cardinality(Takers \ {x})
    BY <1>1, <1>3, FS_Subset, FS_CardinalityType
  <2> QED
    BY <1>1, <1>3, <2>1, <2>2, TakersFinite, BoundsAreNat DEF RoomOK
<1> QED
  BY <1>2, <1>3

--------------------------------------------------------------------------------
(* What is known by a sequence.                                                    *)

\* What a call and a task hold is known.
LEMMA HeldIsKnown ==
    /\ table \subseteq Known /\ processors \subseteq Known
    /\ \A t \in Threads : CallHolds(t) \subseteq Known /\ TaskHolds(t) \subseteq Known
<1>1. ASSUME NEW t \in Threads PROVE CallHolds(t) \subseteq Known /\ TaskHolds(t) \subseteq Known
  <2>1. CallHolds(t) \subseteq CallsHold
    BY DEF CallsHold
  <2>2. TaskHolds(t) \subseteq TasksHold
    BY DEF TasksHold
  <2> QED
    BY <2>1, <2>2 DEF Known
<1> QED
  BY <1>1 DEF Known

\* A thread that does not move holds what it held.
LEMMA OthersHold ==
    ASSUME NEW u \in Threads
    PROVE  /\ call'[u] = call[u] => CallHolds(u)' = CallHolds(u)
           /\ initTask'[u] = initTask[u] => TaskHolds(u)' = TaskHolds(u)
BY DEF CallHolds, TaskHolds

\* A step of t adds at most X to what is known.
LEMMA KnownAfter ==
    ASSUME NEW X, NEW t \in Threads,
           table' \subseteq Known \cup X, processors' \subseteq Known \cup X,
           CallHolds(t)' \subseteq Known \cup X, TaskHolds(t)' \subseteq Known \cup X,
           \A u \in Threads \ {t} : call'[u] = call[u] /\ initTask'[u] = initTask[u]
    PROVE  Known' \subseteq Known \cup X
<1>1. \A u \in Threads : CallHolds(u)' \subseteq Known \cup X /\ TaskHolds(u)' \subseteq Known \cup X
  BY OthersHold, HeldIsKnown
<1>2. CallsHold' \subseteq Known \cup X
  BY <1>1 DEF CallsHold
<1>3. TasksHold' \subseteq Known \cup X
  BY <1>1 DEF TasksHold
<1> QED
  BY <1>2, <1>3 DEF Known

\* Nothing new is known.
LEMMA KnownKept ==
    ASSUME KnownOK, Known' \subseteq Known, given' = given PROVE KnownOK'
BY DEF KnownOK

\* A new sequence is known to nobody.
LEMMA KnownNew ==
    ASSUME KnownOK, given \in Nat, given' = given + 1, NEW c \in Configs,
           Known' \subseteq Known \cup {<<given + 1, c>>}
    PROVE  KnownOK'
<1>1. \A h \in Known : h[1] # given + 1 /\ h[1] \in 1..(given + 1)
  BY DEF KnownOK
<1>2. \A h \in Known' : h \in (1..(given + 1)) \X Configs
  BY DEF KnownOK
<1>3. \A h, g \in Known' : h[1] = g[1] => h[2] = g[2]
  BY <1>1 DEF KnownOK
<1> QED
  BY <1>2, <1>3 DEF KnownOK

--------------------------------------------------------------------------------
LEMMA InitIInv == Init => IInv
<1> SUFFICES ASSUME Init PROVE IInv
  OBVIOUS
<1>0. /\ call \in [Threads -> Calls] /\ initTask \in [Threads -> TaskRecords]
      /\ \A t \in Threads : call[t] = Idle /\ initTask[t] = Idle
      /\ table = {} /\ processors = {} /\ given = 0
      /\ first \in BOOLEAN /\ dbInit \in BOOLEAN /\ crashes = 0 /\ gone = {} /\ disturbed = {}
  BY IdleIs DEF Init
<1>1. TypeOK
  BY <1>0, BoundsAreNat DEF TypeOK, Calls, CallPcs, TaskRecords, TaskPcs
<1>2. ShapeOK /\ TaskOK
  BY <1>0, IdleIs DEF ShapeOK, TaskOK, Single
<1>3. Busy = {} /\ Takers = {}
  BY <1>0, IdleIs DEF Busy, Takers
<1>4. RoomOK
  BY <1>0, <1>3, FS_EmptySet, BoundsAreNat DEF RoomOK
<1>5. Known = {}
  BY <1>0, IdleIs DEF Known, CallsHold, TasksHold, CallHolds, TaskHolds
<1>6. KnownOK
  BY <1>5 DEF KnownOK
<1>7. OverlapOK /\ SeenOK
  BY <1>0, IdleIs DEF OverlapOK, SeenOK
<1>8. UniqueUnlessDisturbed /\ LiveOK
  BY <1>0 DEF UniqueUnlessDisturbed, LiveOK
<1> QED
  BY <1>1, <1>2, <1>4, <1>6, <1>7, <1>8 DEF IInv

LEMMA NextIInv == IInv /\ [Next]_vars => IInv'
<1> SUFFICES ASSUME IInv, [Next]_vars PROVE IInv'
  OBVIOUS
<1>0. /\ TypeOK /\ ShapeOK /\ TaskOK /\ RoomOK /\ KnownOK /\ OverlapOK
      /\ UniqueUnlessDisturbed /\ SeenOK /\ LiveOK
  BY DEF IInv
<1>t. /\ table \subseteq Seqs \X Configs /\ given \in 0..MaxSeq /\ given \in Nat
      /\ processors \subseteq Seqs \X Configs
      /\ first \in BOOLEAN /\ dbInit \in BOOLEAN
      /\ call \in [Threads -> Calls] /\ initTask \in [Threads -> TaskRecords]
      /\ crashes \in 0..MaxCrashes
      /\ gone \subseteq Seqs /\ disturbed \subseteq Configs
  BY <1>0, TypesOf, BoundsAreNat
<1>k. 0 \in 0..MaxSeq /\ Seqs = 1..MaxSeq /\ \A n \in 0..given : n \in 0..MaxSeq
  BY <1>t, BoundsAreNat DEF Seqs
<1> USE IdleIs
<1>1. ASSUME NEW t \in Threads, NEW c \in Configs, AddProcessor(t, c) PROVE IInv'
  <2>0. /\ call[t].pc = "idle" /\ given + Cardinality(Busy) < MaxSeq
        /\ call' \in [Threads -> Calls]
        /\ call'[t].pc = "lookup" /\ call'[t].config = {c} /\ call'[t].seq = 0
        /\ \A u \in Threads \ {t} : call'[u] = call[u]
        /\ disturbed \subseteq disturbed' /\ disturbed' \subseteq Configs
        /\ \A u \in Threads : c \in call[u].config \cup initTask[u].config => c \in disturbed'
        /\ UNCHANGED <<table, given, processors, first, dbInit, initTask, crashes, gone>>
    <3>1. [pc |-> "lookup", config |-> {c}, seq |-> 0] \in Calls
      BY <1>k DEF Calls, CallPcs, States
    <3> QED
      BY <1>t, <1>1, <3>1 DEF AddProcessor, Disturb
  <2>1. TypeOK'
    BY <1>t, <2>0 DEF TypeOK, Calls, CallPcs, TaskRecords, TaskPcs
  <2>2. ShapeOK'
    BY <1>0, <1>t, <2>0 DEF ShapeOK, Single
  <2>3. TaskOK'
    BY <1>0, <1>t, <2>0 DEF TaskOK
  <2>4. RoomOK'
    <3>1. Busy' \subseteq Busy \cup {<<1, t>>} /\ Takers' \subseteq Takers \cup {<<1, t>>}
      BY <2>0 DEF Busy, Takers
    <3> QED
      BY <1>0, <1>t, <2>0, <3>1, RoomForCall
  <2>5. KnownOK'
    <3>1. /\ table' \subseteq Known /\ processors' \subseteq Known
          /\ CallHolds(t)' \subseteq Known /\ TaskHolds(t)' \subseteq Known
      BY <1>0, <1>t, <2>0, HeldIsKnown DEF CallHolds, TaskHolds
    <3>2. \A u \in Threads \ {t} : call'[u] = call[u] /\ initTask'[u] = initTask[u]
      BY <2>0
    <3>3. Known' \subseteq Known \cup {}
      BY <3>1, <3>2, KnownAfter
    <3> QED
      BY <1>0, <2>0, <3>3, KnownKept
  <2>6. OverlapOK'
    BY <1>0, <1>t, <2>0 DEF OverlapOK
  <2>7. UniqueUnlessDisturbed'
    BY <1>0, <1>t, <2>0 DEF UniqueUnlessDisturbed
  <2>8. SeenOK'
    BY <1>0, <1>t, <2>0 DEF SeenOK, RowsOf, Undisturbed
  <2>9. LiveOK'
    BY <1>0, <1>t, <2>0 DEF LiveOK
  <2> QED
    BY <2>1, <2>2, <2>3, <2>4, <2>5, <2>6, <2>7, <2>8, <2>9 DEF IInv
<1>2. ASSUME NEW t \in Threads, NEW seq \in Seqs, RemoveObserver(t, seq) PROVE IInv'
  <2>1. CASE \E q \in processors : q[1] = seq
    <3>c. PICK c \in Configs : <<seq, c>> \in processors
      BY <1>t, <2>1
    <3>d. {q[2] : q \in {p \in processors : p[1] = seq}} = {c}
      <4>1. \A q \in processors : q[1] = seq => q[2] = c
        BY <1>0, <3>c, HeldIsKnown DEF KnownOK
      <4> QED
        BY <3>c, <4>1
    <3>e. [pc |-> "delete", config |-> {c}, seq |-> seq] \in Calls
      BY <1>k DEF Calls, CallPcs, States
    <3>f. /\ call[t].pc = "idle"
          /\ call' = [call EXCEPT ![t] = [pc |-> "delete", config |-> {c}, seq |-> seq]]
          /\ Disturb({c})
          /\ UNCHANGED <<table, given, processors, first, dbInit, initTask, crashes, gone>>
      BY <1>2, <2>1, <3>d DEF RemoveObserver
    <3>0. /\ call[t].pc = "idle"
          /\ call' \in [Threads -> Calls]
          /\ call'[t].pc = "delete" /\ call'[t].config = {c} /\ call'[t].seq = seq
          /\ \A u \in Threads \ {t} : call'[u] = call[u]
          /\ disturbed \subseteq disturbed' /\ disturbed' \subseteq Configs
          /\ \A u \in Threads : c \in call[u].config \cup initTask[u].config => c \in disturbed'
          /\ UNCHANGED <<table, given, processors, first, dbInit, initTask, crashes, gone>>
      BY <1>t, <3>e, <3>f DEF Disturb
    <3>1. TypeOK'
      BY <1>t, <3>0 DEF TypeOK, Calls, CallPcs, TaskRecords, TaskPcs
    <3>2. ShapeOK'
      BY <1>0, <1>t, <3>0 DEF ShapeOK, Single
    <3>3. TaskOK'
      BY <1>0, <1>t, <3>0 DEF TaskOK
    <3>4. RoomOK'
      <4>1. Busy' \subseteq Busy \cup {<<1, t>>} /\ Takers' \subseteq Takers
        BY <3>0 DEF Busy, Takers
      <4> QED
        BY <1>0, <1>t, <3>0, <4>1, RoomKept
    <3>5. KnownOK'
      <4>1. /\ table' \subseteq Known /\ processors' \subseteq Known
            /\ CallHolds(t)' \subseteq Known /\ TaskHolds(t)' \subseteq Known
        BY <1>0, <1>t, <3>0, <3>c, HeldIsKnown DEF CallHolds, TaskHolds
      <4>2. \A u \in Threads \ {t} : call'[u] = call[u] /\ initTask'[u] = initTask[u]
        BY <3>0
      <4>3. Known' \subseteq Known \cup {}
        BY <4>1, <4>2, KnownAfter
      <4> QED
        BY <1>0, <3>0, <4>3, KnownKept
    <3>6. OverlapOK'
      BY <1>0, <1>t, <3>0 DEF OverlapOK
    <3>7. UniqueUnlessDisturbed'
      BY <1>0, <1>t, <3>0 DEF UniqueUnlessDisturbed
    <3>8. SeenOK'
      BY <1>0, <1>t, <3>0 DEF SeenOK, RowsOf, Undisturbed
    <3>9. LiveOK'
      BY <1>0, <1>t, <3>0 DEF LiveOK
    <3> QED
      BY <3>1, <3>2, <3>3, <3>4, <3>5, <3>6, <3>7, <3>8, <3>9 DEF IInv
  <2>2. CASE ~ \E q \in processors : q[1] = seq
    <3>0. /\ gone' \subseteq Seqs
          /\ UNCHANGED <<table, given, processors, first, dbInit, initTask, crashes, call, disturbed>>
      BY <1>t, <1>2, <2>2 DEF RemoveObserver
    <3>1. TypeOK'
      BY <1>t, <3>0 DEF TypeOK, Calls, CallPcs, TaskRecords, TaskPcs
    <3>2. ShapeOK'
      BY <1>0, <1>t, <3>0 DEF ShapeOK, Single
    <3>3. TaskOK'
      BY <1>0, <1>t, <3>0 DEF TaskOK
    <3>4. RoomOK'
      <4>1. Busy' \subseteq Busy \cup {<<1, t>>} /\ Takers' \subseteq Takers
        BY <3>0 DEF Busy, Takers
      <4> QED
        BY <1>0, <1>t, <3>0, <4>1, RoomKept
    <3>5. KnownOK'
      <4>1. /\ table' \subseteq Known /\ processors' \subseteq Known
            /\ CallHolds(t)' \subseteq Known /\ TaskHolds(t)' \subseteq Known
        BY <1>0, <1>t, <3>0, HeldIsKnown DEF CallHolds, TaskHolds
      <4>2. \A u \in Threads \ {t} : call'[u] = call[u] /\ initTask'[u] = initTask[u]
        BY <3>0
      <4>3. Known' \subseteq Known \cup {}
        BY <4>1, <4>2, KnownAfter
      <4> QED
        BY <1>0, <3>0, <4>3, KnownKept
    <3>6. OverlapOK'
      BY <1>0, <1>t, <3>0 DEF OverlapOK
    <3>7. UniqueUnlessDisturbed'
      BY <1>0, <1>t, <3>0 DEF UniqueUnlessDisturbed
    <3>8. SeenOK'
      BY <1>0, <1>t, <3>0 DEF SeenOK, RowsOf, Undisturbed
    <3>9. LiveOK'
      BY <1>0, <1>t, <3>0 DEF LiveOK
    <3> QED
      BY <3>1, <3>2, <3>3, <3>4, <3>5, <3>6, <3>7, <3>8, <3>9 DEF IInv
  <2> QED
    BY <2>1, <2>2
<1>3. ASSUME NEW t \in Threads, InitTaskQuery(t) PROVE IInv'
  <2>p. PICK seq \in 0..given :
        /\ initTask[t].pc = "query"
        /\ QueryResult(initTask[t].config, seq)
        /\ initTask' = [initTask EXCEPT ![t].pc = "opened", ![t].seq = seq]
        /\ UNCHANGED <<table, given, processors, first, dbInit, call, crashes, gone>>
    BY <1>3 DEF InitTaskQuery
  <2>c. PICK c \in Configs : initTask[t].config = {c}
    BY <1>0, <2>p DEF ShapeOK, Single
  <2>0. /\ initTask[t].pc = "query" /\ initTask[t].config = {c}
        /\ initTask' \in [Threads -> TaskRecords]
        /\ initTask'[t].pc = "opened" /\ initTask'[t].config = {c} /\ initTask'[t].seq = seq
        /\ \A u \in Threads \ {t} : initTask'[u] = initTask[u]
        /\ disturbed \subseteq disturbed' /\ disturbed' \subseteq Configs
        /\ \/ seq # 0 /\ <<seq, c>> \in table /\ disturbed' = disturbed
           \/ seq = 0 /\ (\A r \in table : r[2] # c) /\ disturbed' = disturbed
           \/ seq = 0 /\ c \in disturbed'
        /\ UNCHANGED <<table, given, processors, first, dbInit, call, crashes, gone>>
    <3>1. /\ initTask' \in [Threads -> TaskRecords]
          /\ initTask'[t].pc = "opened" /\ initTask'[t].config = {c} /\ initTask'[t].seq = seq
          /\ \A u \in Threads \ {t} : initTask'[u] = initTask[u]
      BY <1>t, <1>k, <2>p, <2>c, TaskStep DEF TaskPcs
    <3>2. QueryResult({c}, seq)
      BY <2>p, <2>c
    <3> QED
      BY <1>t, <2>p, <2>c, <3>1, <3>2, QueryGives
  <2>1. TypeOK'
    BY <1>t, <2>0 DEF TypeOK, Calls, CallPcs, TaskRecords, TaskPcs
  <2>2. ShapeOK'
    BY <1>0, <1>t, <2>0 DEF ShapeOK, Single
  <2>3. TaskOK'
    BY <1>0, <1>t, <2>0 DEF TaskOK
  <2>4. RoomOK'
    <3>1. Busy' \subseteq Busy \cup {<<1, t>>} /\ Takers' \subseteq Takers
      BY <2>0 DEF Busy, Takers
    <3> QED
      BY <1>0, <1>t, <2>0, <3>1, RoomKept
  <2>5. KnownOK'
    <3>1. /\ table' \subseteq Known /\ processors' \subseteq Known
          /\ CallHolds(t)' \subseteq Known /\ TaskHolds(t)' \subseteq Known
      BY <1>0, <1>t, <2>0, HeldIsKnown DEF CallHolds, TaskHolds
    <3>2. \A u \in Threads \ {t} : call'[u] = call[u] /\ initTask'[u] = initTask[u]
      BY <2>0
    <3>3. Known' \subseteq Known \cup {}
      BY <3>1, <3>2, KnownAfter
    <3> QED
      BY <1>0, <2>0, <3>3, KnownKept
  <2>6. OverlapOK'
    BY <1>0, <1>t, <2>0 DEF OverlapOK
  <2>7. UniqueUnlessDisturbed'
    BY <1>0, <1>t, <2>0 DEF UniqueUnlessDisturbed
  <2>8. SeenOK'
    BY <1>0, <1>t, <2>0 DEF SeenOK, RowsOf, Undisturbed
  <2>9. LiveOK'
    BY <1>0, <1>t, <2>0 DEF LiveOK
  <2> QED
    BY <2>1, <2>2, <2>3, <2>4, <2>5, <2>6, <2>7, <2>8, <2>9 DEF IInv
<1>4. ASSUME NEW t \in Threads, InitTaskOpened(t) PROVE IInv'
  <2>0. /\ initTask[t].pc = "opened"
        /\ initTask' \in [Threads -> TaskRecords]
        /\ initTask'[t].pc = (IF initTask[t].seq = 0 THEN "store" ELSE "done")
        /\ initTask'[t].config = initTask[t].config /\ initTask'[t].seq = initTask[t].seq
        /\ \A u \in Threads \ {t} : initTask'[u] = initTask[u]
        /\ dbInit' = TRUE
        /\ UNCHANGED <<table, given, processors, first, call, crashes, gone, disturbed>>
    BY <1>t, <1>4 DEF InitTaskOpened, SetDbInit, TaskRecords, TaskPcs, States
  <2>1. TypeOK'
    BY <1>t, <2>0 DEF TypeOK, Calls, CallPcs, TaskRecords, TaskPcs
  <2>2. ShapeOK'
    BY <1>0, <1>t, <2>0 DEF ShapeOK, Single
  <2>3. TaskOK'
    BY <1>0, <1>t, <2>0 DEF TaskOK
  <2>4. RoomOK'
    <3>1. Busy' \subseteq Busy \cup {<<1, t>>} /\ Takers' \subseteq Takers
      BY <2>0 DEF Busy, Takers
    <3> QED
      BY <1>0, <1>t, <2>0, <3>1, RoomKept
  <2>5. KnownOK'
    <3>1. /\ table' \subseteq Known /\ processors' \subseteq Known
          /\ CallHolds(t)' \subseteq Known /\ TaskHolds(t)' \subseteq Known
      BY <1>0, <1>t, <2>0, HeldIsKnown DEF CallHolds, TaskHolds
    <3>2. \A u \in Threads \ {t} : call'[u] = call[u] /\ initTask'[u] = initTask[u]
      BY <2>0
    <3>3. Known' \subseteq Known \cup {}
      BY <3>1, <3>2, KnownAfter
    <3> QED
      BY <1>0, <2>0, <3>3, KnownKept
  <2>6. OverlapOK'
    BY <1>0, <1>t, <2>0 DEF OverlapOK
  <2>7. UniqueUnlessDisturbed'
    BY <1>0, <1>t, <2>0 DEF UniqueUnlessDisturbed
  <2>8. SeenOK'
    BY <1>0, <1>t, <2>0 DEF SeenOK, RowsOf, Undisturbed
  <2>9. LiveOK'
    BY <1>0, <1>t, <2>0 DEF LiveOK
  <2> QED
    BY <2>1, <2>2, <2>3, <2>4, <2>5, <2>6, <2>7, <2>8, <2>9 DEF IInv
<1>5. ASSUME NEW t \in Threads, InitTaskStore(t) PROVE IInv'
  <2>c. initTask[t].pc = "store" /\ \E c \in Configs : initTask[t].config = {c}
    BY <1>0, <1>5 DEF InitTaskStore, ShapeOK, Single
  <2>d. PICK c \in Configs : initTask[t].config = {c}
    BY <2>c
  <2>r. <<2, t>> \in Takers
    BY <2>c DEF Takers
  <2>n. given + 1 \in 0..MaxSeq /\ given + 1 \in Seqs
    BY <1>0, <1>t, <2>r, RoomTaken, BoundsAreNat DEF Seqs
  <2>1. CASE InsertObserver(initTask[t].config) /\ initTask' = [initTask EXCEPT ![t].pc = "done", ![t].seq = NextSeq]
    <3>0. /\ initTask[t].pc = "store" /\ initTask[t].config = {c}
          /\ initTask' \in [Threads -> TaskRecords]
          /\ initTask'[t].pc = "done" /\ initTask'[t].config = {c} /\ initTask'[t].seq = given + 1
          /\ \A u \in Threads \ {t} : initTask'[u] = initTask[u]
          /\ table' = table \cup {<<given + 1, c>>} /\ given' = given + 1
          /\ UNCHANGED <<processors, first, dbInit, call, crashes, gone, disturbed>>
      <4>1. table' = table \cup {<<given + 1, c>>} /\ given' = given + 1
        BY <1>t, <2>1, <2>d, InsertGives
      <4>2. initTask' = [initTask EXCEPT ![t].pc = "done", ![t].seq = given + 1]
        BY <2>1 DEF NextSeq
      <4> QED
        BY <1>t, <1>5, <2>c, <2>d, <2>n, <4>1, <4>2, TaskStep DEF InitTaskStore, TaskPcs
    <3>1. TypeOK'
      BY <1>t, <3>0, <2>n DEF TypeOK, Calls, CallPcs, TaskRecords, TaskPcs
    <3>2. ShapeOK'
      BY <1>0, <1>t, <3>0 DEF ShapeOK, Single
    <3>3. TaskOK'
      BY <1>0, <1>t, <3>0 DEF TaskOK
    <3>4. RoomOK'
      <4>1. Busy' \subseteq Busy /\ Takers' \subseteq Takers \ {<<2, t>>}
        BY <3>0 DEF Busy, Takers
      <4> QED
        BY <1>0, <1>t, <2>r, <3>0, <4>1, RoomTaken
    <3>5. KnownOK'
      <4>1. /\ table' \subseteq Known \cup {<<given + 1, c>>} /\ processors' \subseteq Known
            /\ CallHolds(t)' \subseteq Known \cup {<<given + 1, c>>}
            /\ TaskHolds(t)' \subseteq Known \cup {<<given + 1, c>>}
        BY <1>0, <1>t, <3>0, HeldIsKnown DEF CallHolds, TaskHolds
      <4>2. \A u \in Threads \ {t} : call'[u] = call[u] /\ initTask'[u] = initTask[u]
        BY <3>0
      <4>3. Known' \subseteq Known \cup {<<given + 1, c>>}
        BY <4>1, <4>2, KnownAfter
      <4> QED
        BY <1>0, <1>t, <3>0, <4>3, KnownNew
    <3>6. OverlapOK'
      BY <1>0, <1>t, <3>0 DEF OverlapOK
    <3>7. UniqueUnlessDisturbed'
      BY <1>0, <1>t, <3>0 DEF UniqueUnlessDisturbed, SeenOK, RowsOf, Undisturbed
    <3>8. SeenOK'
      BY <1>0, <1>t, <3>0 DEF SeenOK, RowsOf, Undisturbed, OverlapOK, ShapeOK, Single
    <3>9. LiveOK'
      BY <1>0, <1>t, <3>0 DEF LiveOK
    <3> QED
      BY <3>1, <3>2, <3>3, <3>4, <3>5, <3>6, <3>7, <3>8, <3>9 DEF IInv
  <2>2. CASE initTask' = [initTask EXCEPT ![t].pc = "done"] /\ UNCHANGED <<table, given>>
    <3>0. /\ initTask[t].pc = "store" /\ initTask[t].config = {c}
          /\ initTask' \in [Threads -> TaskRecords]
          /\ initTask'[t].pc = "done" /\ initTask'[t].config = {c}
          /\ initTask'[t].seq = initTask[t].seq
          /\ \A u \in Threads \ {t} : initTask'[u] = initTask[u]
          /\ UNCHANGED <<table, given, processors, first, dbInit, call, crashes, gone, disturbed>>
      BY <1>t, <1>5, <2>2, <2>c, <2>d DEF InitTaskStore, TaskRecords, TaskPcs, States
    <3>1. TypeOK'
      BY <1>t, <3>0 DEF TypeOK, Calls, CallPcs, TaskRecords, TaskPcs
    <3>2. ShapeOK'
      BY <1>0, <1>t, <3>0 DEF ShapeOK, Single
    <3>3. TaskOK'
      BY <1>0, <1>t, <3>0 DEF TaskOK
    <3>4. RoomOK'
      <4>1. Busy' \subseteq Busy \cup {<<1, t>>} /\ Takers' \subseteq Takers
        BY <3>0 DEF Busy, Takers
      <4> QED
        BY <1>0, <1>t, <3>0, <4>1, RoomKept
    <3>5. KnownOK'
      <4>1. /\ table' \subseteq Known /\ processors' \subseteq Known
            /\ CallHolds(t)' \subseteq Known /\ TaskHolds(t)' \subseteq Known
        BY <1>0, <1>t, <3>0, HeldIsKnown DEF CallHolds, TaskHolds
      <4>2. \A u \in Threads \ {t} : call'[u] = call[u] /\ initTask'[u] = initTask[u]
        BY <3>0
      <4>3. Known' \subseteq Known \cup {}
        BY <4>1, <4>2, KnownAfter
      <4> QED
        BY <1>0, <3>0, <4>3, KnownKept
    <3>6. OverlapOK'
      BY <1>0, <1>t, <3>0 DEF OverlapOK
    <3>7. UniqueUnlessDisturbed'
      BY <1>0, <1>t, <3>0 DEF UniqueUnlessDisturbed
    <3>8. SeenOK'
      BY <1>0, <1>t, <3>0 DEF SeenOK, RowsOf, Undisturbed
    <3>9. LiveOK'
      BY <1>0, <1>t, <3>0 DEF LiveOK
    <3> QED
      BY <3>1, <3>2, <3>3, <3>4, <3>5, <3>6, <3>7, <3>8, <3>9 DEF IInv
  <2> QED
    BY <1>5, <2>1, <2>2 DEF InitTaskStore
<1>6. ASSUME NEW t \in Threads, TakeInitResult(t) PROVE IInv'
  <2>i. initTask[t].pc = "done" /\ initTask[t] \in TaskRecords
    BY <1>t, <1>6 DEF TakeInitResult
  <2>j. initTask[t].seq \in 0..MaxSeq
    BY <2>i DEF TaskRecords, States
  <2>k. /\ initTask' \in [Threads -> TaskRecords] /\ initTask'[t] = Idle
        /\ \A u \in Threads \ {t} : initTask'[u] = initTask[u]
    BY <1>t, <1>6 DEF TakeInitResult
  <2>1. CASE call[t].pc = "wait" /\ initTask[t].seq # 0
    <3>0. /\ initTask[t].pc = "done" /\ call[t].pc = "wait" /\ initTask[t].seq # 0
          /\ call' \in [Threads -> Calls]
          /\ call'[t].pc = "publish" /\ call'[t].config = call[t].config
          /\ call'[t].seq = initTask[t].seq
          /\ initTask[t].config = call[t].config
          /\ \A u \in Threads \ {t} : call'[u] = call[u]
          /\ initTask' \in [Threads -> TaskRecords] /\ initTask'[t] = Idle
          /\ \A u \in Threads \ {t} : initTask'[u] = initTask[u]
          /\ UNCHANGED <<table, given, processors, first, dbInit, crashes, gone, disturbed>>
      <4>1. call' = [call EXCEPT ![t].pc = "publish", ![t].seq = initTask[t].seq]
        BY <1>6, <2>1 DEF TakeInitResult
      <4>2. initTask[t].config = call[t].config
        BY <1>0, <2>1 DEF TaskOK
      <4>3. /\ call' \in [Threads -> Calls]
            /\ call'[t].pc = "publish" /\ call'[t].config = call[t].config
            /\ call'[t].seq = initTask[t].seq
            /\ \A u \in Threads \ {t} : call'[u] = call[u]
        BY <1>t, <2>j, <4>1 DEF Calls, CallPcs, States
      <4> QED
        BY <1>6, <2>1, <2>i, <2>k, <4>2, <4>3 DEF TakeInitResult
    <3>1. TypeOK'
      BY <1>t, <3>0 DEF TypeOK, Calls, CallPcs, TaskRecords, TaskPcs
    <3>2. ShapeOK'
      BY <1>0, <1>t, <3>0 DEF ShapeOK, Single
    <3>3. TaskOK'
      BY <1>0, <1>t, <3>0 DEF TaskOK
    <3>4. RoomOK'
      <4>1. Busy' \subseteq Busy \cup {<<1, t>>} /\ Takers' \subseteq Takers
        BY <3>0 DEF Busy, Takers
      <4> QED
        BY <1>0, <1>t, <3>0, <4>1, RoomKept
    <3>5. KnownOK'
      <4>1. /\ table' \subseteq Known /\ processors' \subseteq Known
            /\ CallHolds(t)' \subseteq Known /\ TaskHolds(t)' \subseteq Known
        BY <1>0, <1>t, <3>0, HeldIsKnown DEF CallHolds, TaskHolds
      <4>2. \A u \in Threads \ {t} : call'[u] = call[u] /\ initTask'[u] = initTask[u]
        BY <3>0
      <4>3. Known' \subseteq Known \cup {}
        BY <4>1, <4>2, KnownAfter
      <4> QED
        BY <1>0, <3>0, <4>3, KnownKept
    <3>6. OverlapOK'
      BY <1>0, <1>t, <3>0 DEF OverlapOK
    <3>7. UniqueUnlessDisturbed'
      BY <1>0, <1>t, <3>0 DEF UniqueUnlessDisturbed
    <3>8. SeenOK'
      BY <1>0, <1>t, <3>0 DEF SeenOK, RowsOf, Undisturbed
    <3>9. LiveOK'
      BY <1>0, <1>t, <3>0 DEF LiveOK
    <3> QED
      BY <3>1, <3>2, <3>3, <3>4, <3>5, <3>6, <3>7, <3>8, <3>9 DEF IInv
  <2>2. CASE ~(call[t].pc = "wait" /\ initTask[t].seq # 0)
    <3>0. /\ initTask[t].pc = "done"
          /\ call' \in [Threads -> Calls]
          /\ \/ call[t].pc = "wait" /\ call'[t] = Idle
             \/ call[t].pc # "wait" /\ call'[t] = call[t]
          /\ \A u \in Threads \ {t} : call'[u] = call[u]
          /\ initTask' \in [Threads -> TaskRecords] /\ initTask'[t] = Idle
          /\ \A u \in Threads \ {t} : initTask'[u] = initTask[u]
          /\ UNCHANGED <<table, given, processors, first, dbInit, crashes, gone, disturbed>>
      BY <1>t, <1>6, <2>2, <2>i, <2>k, ReturnStep DEF TakeInitResult
    <3>1. TypeOK'
      BY <1>t, <3>0 DEF TypeOK, Calls, CallPcs, TaskRecords, TaskPcs
    <3>2. ShapeOK'
      BY <1>0, <1>t, <3>0 DEF ShapeOK, Single
    <3>3. TaskOK'
      BY <1>0, <1>t, <3>0 DEF TaskOK
    <3>4. RoomOK'
      <4>1. Busy' \subseteq Busy \cup {<<1, t>>} /\ Takers' \subseteq Takers
        BY <3>0 DEF Busy, Takers
      <4> QED
        BY <1>0, <1>t, <3>0, <4>1, RoomKept
    <3>5. KnownOK'
      <4>1. /\ table' \subseteq Known /\ processors' \subseteq Known
            /\ CallHolds(t)' \subseteq Known /\ TaskHolds(t)' \subseteq Known
        BY <1>0, <1>t, <3>0, HeldIsKnown DEF CallHolds, TaskHolds
      <4>2. \A u \in Threads \ {t} : call'[u] = call[u] /\ initTask'[u] = initTask[u]
        BY <3>0
      <4>3. Known' \subseteq Known \cup {}
        BY <4>1, <4>2, KnownAfter
      <4> QED
        BY <1>0, <3>0, <4>3, KnownKept
    <3>6. OverlapOK'
      BY <1>0, <1>t, <3>0 DEF OverlapOK
    <3>7. UniqueUnlessDisturbed'
      BY <1>0, <1>t, <3>0 DEF UniqueUnlessDisturbed
    <3>8. SeenOK'
      BY <1>0, <1>t, <3>0 DEF SeenOK, RowsOf, Undisturbed
    <3>9. LiveOK'
      BY <1>0, <1>t, <3>0 DEF LiveOK
    <3> QED
      BY <3>1, <3>2, <3>3, <3>4, <3>5, <3>6, <3>7, <3>8, <3>9 DEF IInv
  <2> QED
    BY <2>1, <2>2
<1>7. ASSUME NEW t \in Threads, GetSeqFromProcessors(t) PROVE IInv'
  <2>0. /\ call[t].pc = "lookup"
        /\ call' \in [Threads -> Calls]
        /\ \/ call'[t] = Idle
           \/ call'[t].pc = "choose" /\ call'[t].config = call[t].config /\ call'[t].seq = call[t].seq
        /\ \A u \in Threads \ {t} : call'[u] = call[u]
        /\ UNCHANGED <<table, given, processors, first, dbInit, initTask, crashes, gone, disturbed>>
    BY <1>t, <1>7, GotoStep, ReturnStep DEF GetSeqFromProcessors, CallPcs
  <2>1. TypeOK'
    BY <1>t, <2>0 DEF TypeOK, Calls, CallPcs, TaskRecords, TaskPcs
  <2>2. ShapeOK'
    BY <1>0, <1>t, <2>0 DEF ShapeOK, Single
  <2>3. TaskOK'
    BY <1>0, <1>t, <2>0 DEF TaskOK
  <2>4. RoomOK'
    <3>1. Busy' \subseteq Busy \cup {<<1, t>>} /\ Takers' \subseteq Takers
      BY <2>0 DEF Busy, Takers
    <3> QED
      BY <1>0, <1>t, <2>0, <3>1, RoomKept
  <2>5. KnownOK'
    <3>1. /\ table' \subseteq Known /\ processors' \subseteq Known
          /\ CallHolds(t)' \subseteq Known /\ TaskHolds(t)' \subseteq Known
      BY <1>0, <1>t, <2>0, HeldIsKnown DEF CallHolds, TaskHolds
    <3>2. \A u \in Threads \ {t} : call'[u] = call[u] /\ initTask'[u] = initTask[u]
      BY <2>0
    <3>3. Known' \subseteq Known \cup {}
      BY <3>1, <3>2, KnownAfter
    <3> QED
      BY <1>0, <2>0, <3>3, KnownKept
  <2>6. OverlapOK'
    BY <1>0, <1>t, <2>0 DEF OverlapOK
  <2>7. UniqueUnlessDisturbed'
    BY <1>0, <1>t, <2>0 DEF UniqueUnlessDisturbed
  <2>8. SeenOK'
    BY <1>0, <1>t, <2>0 DEF SeenOK, RowsOf, Undisturbed
  <2>9. LiveOK'
    BY <1>0, <1>t, <2>0 DEF LiveOK
  <2> QED
    BY <2>1, <2>2, <2>3, <2>4, <2>5, <2>6, <2>7, <2>8, <2>9 DEF IInv
<1>8. ASSUME NEW t \in Threads, IsFirstAddProcessor(t) PROVE IInv'
  <2>0. /\ call[t].pc = "choose"
        /\ call' \in [Threads -> Calls]
        /\ call'[t].pc = (IF first THEN "claim" ELSE "waitInit")
        /\ call'[t].config = call[t].config /\ call'[t].seq = call[t].seq
        /\ \A u \in Threads \ {t} : call'[u] = call[u]
        /\ UNCHANGED <<table, given, processors, first, dbInit, initTask, crashes, gone, disturbed>>
    BY <1>t, <1>8, GotoStep DEF IsFirstAddProcessor, CallPcs
  <2>1. TypeOK'
    BY <1>t, <2>0 DEF TypeOK, Calls, CallPcs, TaskRecords, TaskPcs
  <2>2. ShapeOK'
    BY <1>0, <1>t, <2>0 DEF ShapeOK, Single
  <2>3. TaskOK'
    BY <1>0, <1>t, <2>0 DEF TaskOK
  <2>4. RoomOK'
    <3>1. Busy' \subseteq Busy \cup {<<1, t>>} /\ Takers' \subseteq Takers
      BY <2>0 DEF Busy, Takers
    <3> QED
      BY <1>0, <1>t, <2>0, <3>1, RoomKept
  <2>5. KnownOK'
    <3>1. /\ table' \subseteq Known /\ processors' \subseteq Known
          /\ CallHolds(t)' \subseteq Known /\ TaskHolds(t)' \subseteq Known
      BY <1>0, <1>t, <2>0, HeldIsKnown DEF CallHolds, TaskHolds
    <3>2. \A u \in Threads \ {t} : call'[u] = call[u] /\ initTask'[u] = initTask[u]
      BY <2>0
    <3>3. Known' \subseteq Known \cup {}
      BY <3>1, <3>2, KnownAfter
    <3> QED
      BY <1>0, <2>0, <3>3, KnownKept
  <2>6. OverlapOK'
    BY <1>0, <1>t, <2>0 DEF OverlapOK
  <2>7. UniqueUnlessDisturbed'
    BY <1>0, <1>t, <2>0 DEF UniqueUnlessDisturbed
  <2>8. SeenOK'
    BY <1>0, <1>t, <2>0 DEF SeenOK, RowsOf, Undisturbed
  <2>9. LiveOK'
    BY <1>0, <1>t, <2>0 DEF LiveOK
  <2> QED
    BY <2>1, <2>2, <2>3, <2>4, <2>5, <2>6, <2>7, <2>8, <2>9 DEF IInv
<1>9. ASSUME NEW t \in Threads, SubmitInitTask(t) PROVE IInv'
  <2>0. /\ call[t].pc = "claim"
        /\ call' \in [Threads -> Calls]
        /\ call'[t].pc = "wait" /\ call'[t].config = call[t].config /\ call'[t].seq = 0
        /\ \A u \in Threads \ {t} : call'[u] = call[u]
        /\ initTask' \in [Threads -> TaskRecords]
        /\ initTask'[t].pc = "query" /\ initTask'[t].config = call[t].config
        /\ initTask'[t].seq = 0
        /\ \A u \in Threads \ {t} : initTask'[u] = initTask[u]
        /\ first' = FALSE
        /\ UNCHANGED <<table, given, processors, dbInit, crashes, gone, disturbed>>
    <3>1. [call[t] EXCEPT !.pc = "query"] \in TaskRecords
      BY <1>t DEF Calls, TaskRecords, TaskPcs, States
    <3>2. /\ [call[t] EXCEPT !.pc = "query"].pc = "query"
          /\ [call[t] EXCEPT !.pc = "query"].config = call[t].config
          /\ [call[t] EXCEPT !.pc = "query"].seq = call[t].seq
      BY <1>t DEF Calls, States
    <3>3. call[t].pc = "claim" /\ Goto(t, "wait")
      BY <1>9 DEF SubmitInitTask
    <3>4. call[t].seq = 0
      BY <1>0, <3>3 DEF ShapeOK
    <3> QED
      BY <1>t, <1>9, <3>1, <3>2, <3>3, <3>4, GotoStep DEF SubmitInitTask, CallPcs
  <2>1. TypeOK'
    BY <1>t, <2>0 DEF TypeOK, Calls, CallPcs, TaskRecords, TaskPcs
  <2>2. ShapeOK'
    BY <1>0, <1>t, <2>0 DEF ShapeOK, Single
  <2>3. TaskOK'
    BY <1>0, <1>t, <2>0 DEF TaskOK
  <2>4. RoomOK'
    <3>1. /\ <<1, t>> \in Takers
          /\ Busy' \subseteq Busy \cup {<<2, t>>}
          /\ Takers' \subseteq (Takers \ {<<1, t>>}) \cup {<<2, t>>}
      BY <2>0 DEF Busy, Takers
    <3> QED
      BY <1>0, <1>t, <2>0, <3>1, RoomHandedOver
  <2>5. KnownOK'
    <3>1. /\ table' \subseteq Known /\ processors' \subseteq Known
          /\ CallHolds(t)' \subseteq Known /\ TaskHolds(t)' \subseteq Known
      BY <1>0, <1>t, <2>0, HeldIsKnown DEF CallHolds, TaskHolds
    <3>2. \A u \in Threads \ {t} : call'[u] = call[u] /\ initTask'[u] = initTask[u]
      BY <2>0
    <3>3. Known' \subseteq Known \cup {}
      BY <3>1, <3>2, KnownAfter
    <3> QED
      BY <1>0, <2>0, <3>3, KnownKept
  <2>6. OverlapOK'
    BY <1>0, <1>t, <2>0 DEF OverlapOK
  <2>7. UniqueUnlessDisturbed'
    BY <1>0, <1>t, <2>0 DEF UniqueUnlessDisturbed
  <2>8. SeenOK'
    BY <1>0, <1>t, <2>0 DEF SeenOK, RowsOf, Undisturbed
  <2>9. LiveOK'
    BY <1>0, <1>t, <2>0 DEF LiveOK
  <2> QED
    BY <2>1, <2>2, <2>3, <2>4, <2>5, <2>6, <2>7, <2>8, <2>9 DEF IInv
<1>10. ASSUME NEW t \in Threads, DbIsInit(t) PROVE IInv'
  <2>0. /\ call[t].pc = "waitInit"
        /\ call' \in [Threads -> Calls]
        /\ call'[t].pc = "query" /\ call'[t].config = call[t].config /\ call'[t].seq = call[t].seq
        /\ \A u \in Threads \ {t} : call'[u] = call[u]
        /\ UNCHANGED <<table, given, processors, first, dbInit, initTask, crashes, gone, disturbed>>
    BY <1>t, <1>10, GotoStep DEF DbIsInit, CallPcs
  <2>1. TypeOK'
    BY <1>t, <2>0 DEF TypeOK, Calls, CallPcs, TaskRecords, TaskPcs
  <2>2. ShapeOK'
    BY <1>0, <1>t, <2>0 DEF ShapeOK, Single
  <2>3. TaskOK'
    BY <1>0, <1>t, <2>0 DEF TaskOK
  <2>4. RoomOK'
    <3>1. Busy' \subseteq Busy \cup {<<1, t>>} /\ Takers' \subseteq Takers
      BY <2>0 DEF Busy, Takers
    <3> QED
      BY <1>0, <1>t, <2>0, <3>1, RoomKept
  <2>5. KnownOK'
    <3>1. /\ table' \subseteq Known /\ processors' \subseteq Known
          /\ CallHolds(t)' \subseteq Known /\ TaskHolds(t)' \subseteq Known
      BY <1>0, <1>t, <2>0, HeldIsKnown DEF CallHolds, TaskHolds
    <3>2. \A u \in Threads \ {t} : call'[u] = call[u] /\ initTask'[u] = initTask[u]
      BY <2>0
    <3>3. Known' \subseteq Known \cup {}
      BY <3>1, <3>2, KnownAfter
    <3> QED
      BY <1>0, <2>0, <3>3, KnownKept
  <2>6. OverlapOK'
    BY <1>0, <1>t, <2>0 DEF OverlapOK
  <2>7. UniqueUnlessDisturbed'
    BY <1>0, <1>t, <2>0 DEF UniqueUnlessDisturbed
  <2>8. SeenOK'
    BY <1>0, <1>t, <2>0 DEF SeenOK, RowsOf, Undisturbed
  <2>9. LiveOK'
    BY <1>0, <1>t, <2>0 DEF LiveOK
  <2> QED
    BY <2>1, <2>2, <2>3, <2>4, <2>5, <2>6, <2>7, <2>8, <2>9 DEF IInv
<1>11. ASSUME NEW t \in Threads, QueryObserverSeq(t) PROVE IInv'
  <2>p. PICK seq \in 0..given :
        /\ call[t].pc = "query"
        /\ QueryResult(call[t].config, seq)
        /\ call' = [call EXCEPT ![t].seq = seq, ![t].pc = IF seq = 0 THEN "store" ELSE "publish"]
        /\ UNCHANGED <<table, given, processors, first, dbInit, initTask, crashes, gone>>
    BY <1>11 DEF QueryObserverSeq
  <2>c. PICK c \in Configs : call[t].config = {c}
    BY <1>0, <2>p DEF ShapeOK, Single
  <2>0. /\ call[t].pc = "query" /\ call[t].config = {c}
        /\ call' \in [Threads -> Calls]
        /\ call'[t].pc = (IF seq = 0 THEN "store" ELSE "publish")
        /\ call'[t].config = {c} /\ call'[t].seq = seq
        /\ \A u \in Threads \ {t} : call'[u] = call[u]
        /\ disturbed \subseteq disturbed' /\ disturbed' \subseteq Configs
        /\ \/ seq # 0 /\ <<seq, c>> \in table /\ disturbed' = disturbed
           \/ seq = 0 /\ (\A r \in table : r[2] # c) /\ disturbed' = disturbed
           \/ seq = 0 /\ c \in disturbed'
        /\ UNCHANGED <<table, given, processors, first, dbInit, initTask, crashes, gone>>
    <3>1. /\ call' \in [Threads -> Calls]
          /\ call'[t].pc = (IF seq = 0 THEN "store" ELSE "publish")
          /\ call'[t].config = {c} /\ call'[t].seq = seq
          /\ \A u \in Threads \ {t} : call'[u] = call[u]
      BY <1>t, <1>k, <2>p, <2>c DEF Calls, CallPcs, States
    <3>2. QueryResult({c}, seq)
      BY <2>p, <2>c
    <3> QED
      BY <1>t, <2>p, <2>c, <3>1, <3>2, QueryGives
  <2>1. TypeOK'
    BY <1>t, <2>0 DEF TypeOK, Calls, CallPcs, TaskRecords, TaskPcs
  <2>2. ShapeOK'
    BY <1>0, <1>t, <2>0 DEF ShapeOK, Single
  <2>3. TaskOK'
    BY <1>0, <1>t, <2>0 DEF TaskOK
  <2>4. RoomOK'
    <3>1. Busy' \subseteq Busy \cup {<<1, t>>} /\ Takers' \subseteq Takers
      BY <2>0 DEF Busy, Takers
    <3> QED
      BY <1>0, <1>t, <2>0, <3>1, RoomKept
  <2>5. KnownOK'
    <3>1. /\ table' \subseteq Known /\ processors' \subseteq Known
          /\ CallHolds(t)' \subseteq Known /\ TaskHolds(t)' \subseteq Known
      BY <1>0, <1>t, <2>0, HeldIsKnown DEF CallHolds, TaskHolds
    <3>2. \A u \in Threads \ {t} : call'[u] = call[u] /\ initTask'[u] = initTask[u]
      BY <2>0
    <3>3. Known' \subseteq Known \cup {}
      BY <3>1, <3>2, KnownAfter
    <3> QED
      BY <1>0, <2>0, <3>3, KnownKept
  <2>6. OverlapOK'
    BY <1>0, <1>t, <2>0 DEF OverlapOK
  <2>7. UniqueUnlessDisturbed'
    BY <1>0, <1>t, <2>0 DEF UniqueUnlessDisturbed
  <2>8. SeenOK'
    BY <1>0, <1>t, <2>0 DEF SeenOK, RowsOf, Undisturbed
  <2>9. LiveOK'
    BY <1>0, <1>t, <2>0 DEF LiveOK
  <2> QED
    BY <2>1, <2>2, <2>3, <2>4, <2>5, <2>6, <2>7, <2>8, <2>9 DEF IInv
<1>12. ASSUME NEW t \in Threads, StoreObserverToDb(t) PROVE IInv'
  <2>c. call[t].pc = "store" /\ \E c \in Configs : call[t].config = {c}
    BY <1>0, <1>12 DEF StoreObserverToDb, ShapeOK, Single
  <2>d. PICK c \in Configs : call[t].config = {c}
    BY <2>c
  <2>r. <<1, t>> \in Takers
    BY <2>c DEF Takers
  <2>n. given + 1 \in 0..MaxSeq /\ given + 1 \in Seqs
    BY <1>0, <1>t, <2>r, RoomTaken, BoundsAreNat DEF Seqs
  <2>1. CASE InsertObserver(call[t].config) /\ call' = [call EXCEPT ![t].pc = "publish", ![t].seq = NextSeq]
    <3>0. /\ call[t].pc = "store" /\ call[t].config = {c}
          /\ call' \in [Threads -> Calls]
          /\ call'[t].pc = "publish" /\ call'[t].config = {c} /\ call'[t].seq = given + 1
          /\ \A u \in Threads \ {t} : call'[u] = call[u]
          /\ table' = table \cup {<<given + 1, c>>} /\ given' = given + 1
          /\ UNCHANGED <<processors, first, dbInit, initTask, crashes, gone, disturbed>>
      <4>1. table' = table \cup {<<given + 1, c>>} /\ given' = given + 1
        BY <1>t, <2>1, <2>d, InsertGives
      <4>2. call' = [call EXCEPT ![t].pc = "publish", ![t].seq = given + 1]
        BY <2>1 DEF NextSeq
      <4>3. /\ call' \in [Threads -> Calls]
            /\ call'[t].pc = "publish" /\ call'[t].config = call[t].config
            /\ call'[t].seq = given + 1
            /\ \A u \in Threads \ {t} : call'[u] = call[u]
        BY <1>t, <2>n, <4>2 DEF Calls, CallPcs, States
      <4> QED
        BY <1>12, <2>c, <2>d, <4>1, <4>3 DEF StoreObserverToDb
    <3>1. TypeOK'
      BY <1>t, <3>0, <2>n DEF TypeOK, Calls, CallPcs, TaskRecords, TaskPcs
    <3>2. ShapeOK'
      BY <1>0, <1>t, <3>0 DEF ShapeOK, Single
    <3>3. TaskOK'
      BY <1>0, <1>t, <3>0 DEF TaskOK
    <3>4. RoomOK'
      <4>1. Busy' \subseteq Busy /\ Takers' \subseteq Takers \ {<<1, t>>}
        BY <3>0 DEF Busy, Takers
      <4> QED
        BY <1>0, <1>t, <2>r, <3>0, <4>1, RoomTaken
    <3>5. KnownOK'
      <4>1. /\ table' \subseteq Known \cup {<<given + 1, c>>} /\ processors' \subseteq Known
            /\ CallHolds(t)' \subseteq Known \cup {<<given + 1, c>>}
            /\ TaskHolds(t)' \subseteq Known \cup {<<given + 1, c>>}
        BY <1>0, <1>t, <3>0, HeldIsKnown DEF CallHolds, TaskHolds
      <4>2. \A u \in Threads \ {t} : call'[u] = call[u] /\ initTask'[u] = initTask[u]
        BY <3>0
      <4>3. Known' \subseteq Known \cup {<<given + 1, c>>}
        BY <4>1, <4>2, KnownAfter
      <4> QED
        BY <1>0, <1>t, <3>0, <4>3, KnownNew
    <3>6. OverlapOK'
      BY <1>0, <1>t, <3>0 DEF OverlapOK
    <3>7. UniqueUnlessDisturbed'
      BY <1>0, <1>t, <3>0 DEF UniqueUnlessDisturbed, SeenOK, RowsOf, Undisturbed
    <3>8. SeenOK'
      BY <1>0, <1>t, <3>0 DEF SeenOK, RowsOf, Undisturbed, OverlapOK, ShapeOK, Single
    <3>9. LiveOK'
      BY <1>0, <1>t, <3>0 DEF LiveOK
    <3> QED
      BY <3>1, <3>2, <3>3, <3>4, <3>5, <3>6, <3>7, <3>8, <3>9 DEF IInv
  <2>2. CASE Return(t) /\ UNCHANGED <<table, given>>
    <3>0. /\ call[t].pc = "store" /\ call[t].config = {c}
          /\ call' \in [Threads -> Calls] /\ call'[t] = Idle
          /\ \A u \in Threads \ {t} : call'[u] = call[u]
          /\ UNCHANGED <<table, given, processors, first, dbInit, initTask, crashes, gone, disturbed>>
      BY <1>t, <1>12, <2>2, <2>c, <2>d, ReturnStep DEF StoreObserverToDb
    <3>1. TypeOK'
      BY <1>t, <3>0 DEF TypeOK, Calls, CallPcs, TaskRecords, TaskPcs
    <3>2. ShapeOK'
      BY <1>0, <1>t, <3>0 DEF ShapeOK, Single
    <3>3. TaskOK'
      BY <1>0, <1>t, <3>0 DEF TaskOK
    <3>4. RoomOK'
      <4>1. Busy' \subseteq Busy \cup {<<1, t>>} /\ Takers' \subseteq Takers
        BY <3>0 DEF Busy, Takers
      <4> QED
        BY <1>0, <1>t, <3>0, <4>1, RoomKept
    <3>5. KnownOK'
      <4>1. /\ table' \subseteq Known /\ processors' \subseteq Known
            /\ CallHolds(t)' \subseteq Known /\ TaskHolds(t)' \subseteq Known
        BY <1>0, <1>t, <3>0, HeldIsKnown DEF CallHolds, TaskHolds
      <4>2. \A u \in Threads \ {t} : call'[u] = call[u] /\ initTask'[u] = initTask[u]
        BY <3>0
      <4>3. Known' \subseteq Known \cup {}
        BY <4>1, <4>2, KnownAfter
      <4> QED
        BY <1>0, <3>0, <4>3, KnownKept
    <3>6. OverlapOK'
      BY <1>0, <1>t, <3>0 DEF OverlapOK
    <3>7. UniqueUnlessDisturbed'
      BY <1>0, <1>t, <3>0 DEF UniqueUnlessDisturbed
    <3>8. SeenOK'
      BY <1>0, <1>t, <3>0 DEF SeenOK, RowsOf, Undisturbed
    <3>9. LiveOK'
      BY <1>0, <1>t, <3>0 DEF LiveOK
    <3> QED
      BY <3>1, <3>2, <3>3, <3>4, <3>5, <3>6, <3>7, <3>8, <3>9 DEF IInv
  <2> QED
    BY <1>12, <2>1, <2>2 DEF StoreObserverToDb
<1>13. ASSUME NEW t \in Threads, Publish(t) PROVE IInv'
  <2>p. call[t].pc = "publish"
    BY <1>13 DEF Publish
  <2>c. PICK c \in Configs : call[t].config = {c}
    BY <1>0, <2>p DEF ShapeOK, Single
  <2>k. <<call[t].seq, c>> \in Known
    BY <2>p, <2>c, HeldIsKnown DEF CallHolds
  <2>s. call[t].seq \in Seqs
    BY <1>0, <1>t, <2>k, BoundsAreNat DEF KnownOK, Seqs
  <2>0. /\ call[t].pc = "publish" /\ call[t].config = {c}
        /\ processors' \subseteq Seqs \X Configs
        /\ processors' \subseteq processors \cup {<<call[t].seq, c>>}
        /\ call' \in [Threads -> Calls] /\ call'[t] = Idle
        /\ \A u \in Threads \ {t} : call'[u] = call[u]
        /\ UNCHANGED <<table, given, first, dbInit, initTask, crashes, gone, disturbed>>
    <3>1. processors' \subseteq processors \cup {<<call[t].seq, c>>}
      BY <1>13, <2>c DEF Publish, Without
    <3>2. {<<call[t].seq, c>>} \subseteq Seqs \X Configs
      BY <2>s
    <3>3. processors' \subseteq Seqs \X Configs
      BY <1>t, <3>1, <3>2
    <3> QED
      BY <1>t, <1>13, <2>c, <3>1, <3>3, ReturnStep DEF Publish
  <2>1. TypeOK'
    BY <1>t, <2>0 DEF TypeOK, Calls, CallPcs, TaskRecords, TaskPcs
  <2>2. ShapeOK'
    BY <1>0, <1>t, <2>0 DEF ShapeOK, Single
  <2>3. TaskOK'
    BY <1>0, <1>t, <2>0 DEF TaskOK
  <2>4. RoomOK'
    <3>1. Busy' \subseteq Busy \cup {<<1, t>>} /\ Takers' \subseteq Takers
      BY <2>0 DEF Busy, Takers
    <3> QED
      BY <1>0, <1>t, <2>0, <3>1, RoomKept
  <2>5. KnownOK'
    <3>1. /\ table' \subseteq Known /\ processors' \subseteq Known
          /\ CallHolds(t)' \subseteq Known /\ TaskHolds(t)' \subseteq Known
      BY <1>0, <1>t, <2>0, <2>k, HeldIsKnown DEF CallHolds, TaskHolds
    <3>2. \A u \in Threads \ {t} : call'[u] = call[u] /\ initTask'[u] = initTask[u]
      BY <2>0
    <3>3. Known' \subseteq Known \cup {}
      BY <3>1, <3>2, KnownAfter
    <3> QED
      BY <1>0, <2>0, <3>3, KnownKept
  <2>6. OverlapOK'
    BY <1>0, <1>t, <2>0 DEF OverlapOK
  <2>7. UniqueUnlessDisturbed'
    BY <1>0, <1>t, <2>0 DEF UniqueUnlessDisturbed
  <2>8. SeenOK'
    BY <1>0, <1>t, <2>0 DEF SeenOK, RowsOf, Undisturbed
  <2>9. LiveOK'
    BY <1>0, <1>t, <2>0 DEF LiveOK, SeenOK, Undisturbed
  <2> QED
    BY <2>1, <2>2, <2>3, <2>4, <2>5, <2>6, <2>7, <2>8, <2>9 DEF IInv
<1>14. ASSUME NEW t \in Threads, DeleteObserver(t) PROVE IInv'
  <2>p. call[t].pc = "delete"
    BY <1>14 DEF DeleteObserver
  <2>c. PICK c \in Configs : call[t].config = {c}
    BY <1>0, <2>p DEF ShapeOK, Single
  <2>k. <<call[t].seq, c>> \in Known
    BY <2>p, <2>c, HeldIsKnown DEF CallHolds
  <2>l. \A r \in table : r[1] = call[t].seq => r[2] = c
    BY <1>0, <2>k, HeldIsKnown DEF KnownOK
  <2>1. CASE table' = {r \in table : r[1] # call[t].seq} /\ Goto(t, "forget")
    <3>0. /\ call[t].pc = "delete" /\ call[t].config = {c}
          /\ table' \subseteq table
          /\ \A r \in table : r[1] # call[t].seq => r \in table'
          /\ call' \in [Threads -> Calls]
          /\ call'[t].pc = "forget" /\ call'[t].config = {c} /\ call'[t].seq = call[t].seq
          /\ \A u \in Threads \ {t} : call'[u] = call[u]
          /\ UNCHANGED <<given, processors, first, dbInit, initTask, crashes, gone, disturbed>>
      BY <1>t, <1>14, <2>p, <2>c, <2>1, GotoStep DEF DeleteObserver, CallPcs
    <3>1. TypeOK'
      BY <1>t, <3>0 DEF TypeOK, Calls, CallPcs, TaskRecords, TaskPcs
    <3>2. ShapeOK'
      BY <1>0, <1>t, <3>0 DEF ShapeOK, Single
    <3>3. TaskOK'
      BY <1>0, <1>t, <3>0 DEF TaskOK
    <3>4. RoomOK'
      <4>1. Busy' \subseteq Busy \cup {<<1, t>>} /\ Takers' \subseteq Takers
        BY <3>0 DEF Busy, Takers
      <4> QED
        BY <1>0, <1>t, <3>0, <4>1, RoomKept
    <3>5. KnownOK'
      <4>1. /\ table' \subseteq Known /\ processors' \subseteq Known
            /\ CallHolds(t)' \subseteq Known /\ TaskHolds(t)' \subseteq Known
        BY <1>0, <1>t, <3>0, HeldIsKnown DEF CallHolds, TaskHolds
      <4>2. \A u \in Threads \ {t} : call'[u] = call[u] /\ initTask'[u] = initTask[u]
        BY <3>0
      <4>3. Known' \subseteq Known \cup {}
        BY <4>1, <4>2, KnownAfter
      <4> QED
        BY <1>0, <3>0, <4>3, KnownKept
    <3>6. OverlapOK'
      BY <1>0, <1>t, <3>0 DEF OverlapOK
    <3>7. UniqueUnlessDisturbed'
      BY <1>0, <1>t, <3>0 DEF UniqueUnlessDisturbed
    <3>8. SeenOK'
      BY <1>0, <1>t, <3>0, <2>l DEF SeenOK, RowsOf, Undisturbed, OverlapOK, ShapeOK, Single
    <3>9. LiveOK'
      BY <1>0, <1>t, <3>0 DEF LiveOK
    <3> QED
      BY <3>1, <3>2, <3>3, <3>4, <3>5, <3>6, <3>7, <3>8, <3>9 DEF IInv
  <2>2. CASE Return(t) /\ UNCHANGED table
    <3>0. /\ call[t].pc = "delete" /\ call[t].config = {c}
          /\ call' \in [Threads -> Calls] /\ call'[t] = Idle
          /\ \A u \in Threads \ {t} : call'[u] = call[u]
          /\ UNCHANGED <<table, given, processors, first, dbInit, initTask, crashes, gone, disturbed>>
      BY <1>t, <1>14, <2>p, <2>c, <2>2, ReturnStep DEF DeleteObserver
    <3>1. TypeOK'
      BY <1>t, <3>0 DEF TypeOK, Calls, CallPcs, TaskRecords, TaskPcs
    <3>2. ShapeOK'
      BY <1>0, <1>t, <3>0 DEF ShapeOK, Single
    <3>3. TaskOK'
      BY <1>0, <1>t, <3>0 DEF TaskOK
    <3>4. RoomOK'
      <4>1. Busy' \subseteq Busy \cup {<<1, t>>} /\ Takers' \subseteq Takers
        BY <3>0 DEF Busy, Takers
      <4> QED
        BY <1>0, <1>t, <3>0, <4>1, RoomKept
    <3>5. KnownOK'
      <4>1. /\ table' \subseteq Known /\ processors' \subseteq Known
            /\ CallHolds(t)' \subseteq Known /\ TaskHolds(t)' \subseteq Known
        BY <1>0, <1>t, <3>0, HeldIsKnown DEF CallHolds, TaskHolds
      <4>2. \A u \in Threads \ {t} : call'[u] = call[u] /\ initTask'[u] = initTask[u]
        BY <3>0
      <4>3. Known' \subseteq Known \cup {}
        BY <4>1, <4>2, KnownAfter
      <4> QED
        BY <1>0, <3>0, <4>3, KnownKept
    <3>6. OverlapOK'
      BY <1>0, <1>t, <3>0 DEF OverlapOK
    <3>7. UniqueUnlessDisturbed'
      BY <1>0, <1>t, <3>0 DEF UniqueUnlessDisturbed
    <3>8. SeenOK'
      BY <1>0, <1>t, <3>0 DEF SeenOK, RowsOf, Undisturbed
    <3>9. LiveOK'
      BY <1>0, <1>t, <3>0 DEF LiveOK
    <3> QED
      BY <3>1, <3>2, <3>3, <3>4, <3>5, <3>6, <3>7, <3>8, <3>9 DEF IInv
  <2> QED
    BY <1>14, <2>1, <2>2 DEF DeleteObserver
<1>15. ASSUME NEW t \in Threads, DeleteProcessor(t) PROVE IInv'
  <2>p. call[t].pc = "forget"
    BY <1>15 DEF DeleteProcessor
  <2>c. PICK c \in Configs : call[t].config = {c}
    BY <1>0, <2>p DEF ShapeOK, Single
  <2>k. <<call[t].seq, c>> \in Known
    BY <2>p, <2>c, HeldIsKnown DEF CallHolds
  <2>s. call[t].seq \in Seqs
    BY <1>0, <1>t, <2>k, BoundsAreNat DEF KnownOK, Seqs
  <2>0. /\ call[t].pc = "forget" /\ call[t].config = {c}
        /\ processors' \subseteq processors
        /\ \A q \in processors' : q[1] # call[t].seq
        /\ gone' \subseteq Seqs
        /\ call' \in [Threads -> Calls] /\ call'[t] = Idle
        /\ \A u \in Threads \ {t} : call'[u] = call[u]
        /\ UNCHANGED <<table, given, first, dbInit, initTask, crashes, disturbed>>
    BY <1>t, <1>15, <2>c, <2>s, ReturnStep DEF DeleteProcessor, Without
  <2>1. TypeOK'
    BY <1>t, <2>0 DEF TypeOK, Calls, CallPcs, TaskRecords, TaskPcs
  <2>2. ShapeOK'
    BY <1>0, <1>t, <2>0 DEF ShapeOK, Single
  <2>3. TaskOK'
    BY <1>0, <1>t, <2>0 DEF TaskOK
  <2>4. RoomOK'
    <3>1. Busy' \subseteq Busy \cup {<<1, t>>} /\ Takers' \subseteq Takers
      BY <2>0 DEF Busy, Takers
    <3> QED
      BY <1>0, <1>t, <2>0, <3>1, RoomKept
  <2>5. KnownOK'
    <3>1. /\ table' \subseteq Known /\ processors' \subseteq Known
          /\ CallHolds(t)' \subseteq Known /\ TaskHolds(t)' \subseteq Known
      BY <1>0, <1>t, <2>0, HeldIsKnown DEF CallHolds, TaskHolds
    <3>2. \A u \in Threads \ {t} : call'[u] = call[u] /\ initTask'[u] = initTask[u]
      BY <2>0
    <3>3. Known' \subseteq Known \cup {}
      BY <3>1, <3>2, KnownAfter
    <3> QED
      BY <1>0, <2>0, <3>3, KnownKept
  <2>6. OverlapOK'
    BY <1>0, <1>t, <2>0 DEF OverlapOK
  <2>7. UniqueUnlessDisturbed'
    BY <1>0, <1>t, <2>0 DEF UniqueUnlessDisturbed
  <2>8. SeenOK'
    BY <1>0, <1>t, <2>0 DEF SeenOK, RowsOf, Undisturbed
  <2>9. LiveOK'
    BY <1>0, <1>t, <2>0 DEF LiveOK
  <2> QED
    BY <2>1, <2>2, <2>3, <2>4, <2>5, <2>6, <2>7, <2>8, <2>9 DEF IInv
<1>16. ASSUME NEW t \in Threads, WaitTimesOut(t) PROVE IInv'
  <2>0. /\ call[t].pc \in {"wait", "waitInit"}
        /\ call' \in [Threads -> Calls] /\ call'[t] = Idle
        /\ \A u \in Threads \ {t} : call'[u] = call[u]
        /\ UNCHANGED <<table, given, processors, first, dbInit, initTask, crashes, gone, disturbed>>
    BY <1>t, <1>16, ReturnStep DEF WaitTimesOut
  <2>1. TypeOK'
    BY <1>t, <2>0 DEF TypeOK, Calls, CallPcs, TaskRecords, TaskPcs
  <2>2. ShapeOK'
    BY <1>0, <1>t, <2>0 DEF ShapeOK, Single
  <2>3. TaskOK'
    BY <1>0, <1>t, <2>0 DEF TaskOK
  <2>4. RoomOK'
    <3>1. Busy' \subseteq Busy \cup {<<1, t>>} /\ Takers' \subseteq Takers
      BY <2>0 DEF Busy, Takers
    <3> QED
      BY <1>0, <1>t, <2>0, <3>1, RoomKept
  <2>5. KnownOK'
    <3>1. /\ table' \subseteq Known /\ processors' \subseteq Known
          /\ CallHolds(t)' \subseteq Known /\ TaskHolds(t)' \subseteq Known
      BY <1>0, <1>t, <2>0, HeldIsKnown DEF CallHolds, TaskHolds
    <3>2. \A u \in Threads \ {t} : call'[u] = call[u] /\ initTask'[u] = initTask[u]
      BY <2>0
    <3>3. Known' \subseteq Known \cup {}
      BY <3>1, <3>2, KnownAfter
    <3> QED
      BY <1>0, <2>0, <3>3, KnownKept
  <2>6. OverlapOK'
    BY <1>0, <1>t, <2>0 DEF OverlapOK
  <2>7. UniqueUnlessDisturbed'
    BY <1>0, <1>t, <2>0 DEF UniqueUnlessDisturbed
  <2>8. SeenOK'
    BY <1>0, <1>t, <2>0 DEF SeenOK, RowsOf, Undisturbed
  <2>9. LiveOK'
    BY <1>0, <1>t, <2>0 DEF LiveOK
  <2> QED
    BY <2>1, <2>2, <2>3, <2>4, <2>5, <2>6, <2>7, <2>8, <2>9 DEF IInv
<1>17. ASSUME Crash PROVE IInv'
  <2>0. /\ crashes' \in 0..MaxCrashes /\ processors' = {} /\ first' = TRUE /\ dbInit' = FALSE
        /\ call' \in [Threads -> Calls] /\ initTask' \in [Threads -> TaskRecords]
        /\ \A u \in Threads : call'[u] = Idle /\ initTask'[u] = Idle
        /\ UNCHANGED <<table, given, gone, disturbed>>
    BY <1>t, <1>17, BoundsAreNat DEF Crash
  <2>1. TypeOK'
    BY <1>t, <2>0 DEF TypeOK, Calls, CallPcs, TaskRecords, TaskPcs
  <2>2. ShapeOK'
    BY <1>0, <1>t, <2>0 DEF ShapeOK, Single
  <2>3. TaskOK'
    BY <1>0, <1>t, <2>0 DEF TaskOK
  <2>4. RoomOK'
    <3>1. Busy' \subseteq Busy \cup {0} /\ Takers' \subseteq Takers
      BY <2>0 DEF Busy, Takers
    <3> QED
      BY <1>0, <1>t, <2>0, <3>1, RoomKept
  <2>5. KnownOK'
    <3>1. CallsHold' = {} /\ TasksHold' = {}
      BY <2>0 DEF CallsHold, TasksHold, CallHolds, TaskHolds
    <3>2. Known' \subseteq Known
      BY <2>0, <3>1 DEF Known
    <3> QED
      BY <1>0, <2>0, <3>2, KnownKept
  <2>6. OverlapOK'
    BY <1>0, <1>t, <2>0 DEF OverlapOK
  <2>7. UniqueUnlessDisturbed'
    BY <1>0, <1>t, <2>0 DEF UniqueUnlessDisturbed
  <2>8. SeenOK'
    BY <1>0, <1>t, <2>0 DEF SeenOK, RowsOf, Undisturbed
  <2>9. LiveOK'
    BY <1>0, <1>t, <2>0 DEF LiveOK
  <2> QED
    BY <2>1, <2>2, <2>3, <2>4, <2>5, <2>6, <2>7, <2>8, <2>9 DEF IInv
<1>18. ASSUME UNCHANGED vars PROVE IInv'
  <2>1. TypeOK' /\ ShapeOK' /\ TaskOK'
    BY <1>0, <1>18 DEF vars, TypeOK, ShapeOK, Single, TaskOK
  <2>2. RoomOK'
    BY <1>0, <1>18 DEF vars, RoomOK, Busy, Takers
  <2>3. Known' = Known
    <3>1. CallsHold' = CallsHold /\ TasksHold' = TasksHold
      BY <1>18 DEF vars, CallsHold, TasksHold, CallHolds, TaskHolds
    <3> QED
      BY <1>18, <3>1 DEF vars, Known
  <2>4. KnownOK'
    BY <1>0, <1>18, <2>3, KnownKept DEF vars
  <2>5. OverlapOK' /\ UniqueUnlessDisturbed'
    BY <1>0, <1>18 DEF vars, OverlapOK, UniqueUnlessDisturbed
  <2>6. SeenOK' /\ LiveOK'
    BY <1>0, <1>18 DEF vars, SeenOK, Undisturbed, RowsOf, LiveOK
  <2> QED
    BY <2>1, <2>2, <2>4, <2>5, <2>6 DEF IInv
<1> QED
  BY <1>1, <1>2, <1>3, <1>4, <1>5, <1>6, <1>7, <1>8, <1>9, <1>10, <1>11, <1>12, <1>13, <1>14, <1>15, <1>16, <1>17, <1>18 DEF Next, StepInit, StepCall

LEMMA Invariance == Spec => []IInv
BY InitIInv, NextIInv, PTL DEF Spec

\* The variables have their types: in particular the observers table never hands out more
\* sequences than the guard of AddProcessor leaves room for.
THEOREM TypeCorrect == Spec => []TypeOK
<1>1. IInv => TypeOK
  BY DEF IInv
<1> QED
  BY <1>1, Invariance, PTL

\* A sequence names one configuration for ever: whatever calls, removals, timeouts, failures
\* and restarts come between, the row of a processor, the entry in processors_ and what a
\* call is about to publish never give one sequence to two configurations.  It rests on
\* AUTOINCREMENT: whatever is known by its sequence lies below the last one given.
THEOREM SequenceNamesOne == Spec => []IdNamesOneConfig
<1>1. IInv => IdNamesOneConfig
  <2> SUFFICES ASSUME IInv PROVE TypeOK /\ \A h, g \in Holdings : h[1] = g[1] => h[2] = g[2]
    BY DEF IdNamesOneConfig
  <2>1. \A u \in Threads :
            call[u].pc = "publish" => {call[u].seq} \X call[u].config \subseteq Known
    BY HeldIsKnown DEF CallHolds
  <2>2. Holdings \subseteq Known
    BY <2>1, HeldIsKnown DEF Holdings
  <2> QED
    BY <2>2 DEF IInv, KnownOK
<1> QED
  BY <1>1, Invariance, PTL

\* A configuration has one row in the observers table as long as no query for it fails and
\* no two calls for it overlap, the tasks included that outlive the 500 ms of their callers.
THEOREM OneRowEach == Spec => []UniqueUnlessDisturbed
<1>1. IInv => UniqueUnlessDisturbed
  BY DEF IInv
<1> QED
  BY <1>1, Invariance, PTL

\* When no call is under way, a processor in memory that no overlap or failed query
\* disturbed has its row in the observers table.
THEOREM ProcessorsHaveRows == Spec => []LiveHasRow
<1>1. IInv => LiveHasRow
  BY DEF IInv, LiveOK, LiveHasRow
<1> QED
  BY <1>1, Invariance, PTL
================================================================================
