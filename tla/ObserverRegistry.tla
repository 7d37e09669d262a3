----------------------------- MODULE ObserverRegistry -----------------------------
(* How AppEventObserverMgr gives a processor its identity.                         *)
(*                                                                                 *)
(* A processor is identified by the row of the observers table that carries its    *)
(* name and the hash of its configuration.  AddProcessor looks for it in memory,   *)
(* then in the database, inserts it when it is in neither and publishes it in      *)
(* processors_.  The first call opens the database from a task of its own and      *)
(* waits for it no longer than 500 ms; the other calls wait as long for the first  *)
(* one's task.  RemoveObserver deletes row and processor again.                    *)
(*                                                                                 *)
(* No lock is held across these steps, and a call that gave up waiting leaves its  *)
(* task running.                                                                   *)
EXTENDS Naturals, FiniteSets

CONSTANTS
    Threads,        \* threads that call AddProcessor and RemoveObserver
    Configs,        \* configurations, identified by name and hash
    MaxSeq,         \* bound: sequences the observers table hands out
    MaxCrashes,     \* bound: restarts of the process
    MayTimeOut,     \* whether a wait may exceed TIMEOUT_LIMIT_FOR_ADDPROCESSOR
    MayFail         \* whether database operations may fail

ASSUME RegistryAssumption ==
    /\ MaxSeq \in Nat
    /\ MaxCrashes \in Nat
    /\ MayTimeOut \in BOOLEAN
    /\ MayFail \in BOOLEAN

VARIABLES
    table,      \* table observers: pairs <<seq, config>>
    given,      \* sequences given so far (sqlite_sequence)
    processors, \* processors_: pairs <<seq, config>>, at most one for a seq
    first,      \* isFirstAddProcessor_
    dbInit,     \* isDbInit_
    call,       \* what each thread does
    initTask,   \* the ADD_PROCESSOR_TASK each thread submitted
    crashes,
    gone,       \* history: sequences for which a removal returned 0
    disturbed   \* history: configurations two calls overlapped for, or a query failed for

vars == <<table, given, processors, first, dbInit, call, initTask, crashes, gone, disturbed>>

Seqs == 1..MaxSeq

Idle == [pc |-> "idle", config |-> {}, seq |-> 0]

States(pcs) == [pc : pcs, config : SUBSET Configs, seq : 0..MaxSeq]

TypeOK ==
    /\ table \subseteq Seqs \X Configs
    /\ given \in 0..MaxSeq
    /\ processors \subseteq Seqs \X Configs
    /\ first \in BOOLEAN
    /\ dbInit \in BOOLEAN
    /\ call \in [Threads -> States({"idle", "lookup", "choose", "claim", "wait", "waitInit",
                                    "query", "store", "publish", "delete", "forget"})]
    /\ initTask \in [Threads -> States({"idle", "query", "opened", "store", "done"})]
    /\ crashes \in 0..MaxCrashes
    /\ gone \subseteq Seqs
    /\ disturbed \subseteq Configs

Init ==
    /\ table = {}
    /\ given = 0
    /\ processors = {}
    /\ first = TRUE
    /\ dbInit = FALSE
    /\ call = [t \in Threads |-> Idle]
    /\ initTask = [t \in Threads |-> Idle]
    /\ crashes = 0
    /\ gone = {}
    /\ disturbed = {}

--------------------------------------------------------------------------------
(* Database and memory.                                                            *)

\* Mutant: INTEGER PRIMARY KEY without AUTOINCREMENT.
NextFreeSeq ==
    1 + Cardinality({s \in Seqs : \E r \in table : s <= r[1]})

\* AUTOINCREMENT: a sequence is never handed out again.
NextSeq == given + 1

RowsOf(C) == {r \in table : r[2] \in C}

\* Mutant: the cursor is moved past the first row.
QuerySecondSeq(C) ==
    {r[1] : r \in {q \in RowsOf(C) : Cardinality({p \in RowsOf(C) : p[1] < q[1]}) = 1}}
        \cup IF Cardinality(RowsOf(C)) < 2 THEN {0} ELSE {}

\* QueryObserverSeq: the first row of the name and hash, 0 when there is none.
QuerySeq(C) ==
    {r[1] : r \in {q \in RowsOf(C) : \A p \in RowsOf(C) : q[1] <= p[1]}}
        \cup IF RowsOf(C) = {} THEN {0} ELSE {}

\* What InitObserverFromDb makes of it; a query that fails yields a negative number, which
\* is treated like 0.
QueryResult(C, seq) ==
    \/ seq \in QuerySeq(C) /\ UNCHANGED disturbed
    \/ MayFail /\ seq = 0 /\ disturbed' = disturbed \cup C

InsertObserver(C) ==
    /\ table' = table \cup ({NextSeq} \X C)
    /\ given' = IF NextSeq > given THEN NextSeq ELSE given

\* Mutant: the entry is not erased.
Kept(seq) == processors

Without(seq) == {q \in processors : q[1] # seq}

Return(t) == call' = [call EXCEPT ![t] = Idle]

Goto(t, pc) == call' = [call EXCEPT ![t].pc = pc]

--------------------------------------------------------------------------------
(* AddProcessor.                                                                   *)

\* Calls and tasks that may still take a sequence.
Busy == ({1} \X {t \in Threads : call[t].pc # "idle"})
            \cup ({2} \X {t \in Threads : initTask[t].pc # "idle"})

\* A call, or a task that an earlier call left behind, is busy with one of C already.
Disturb(C) ==
    disturbed' = disturbed \cup
        {c \in C : \E t \in Threads : c \in call[t].config \cup initTask[t].config}

AddProcessor(t, c) ==
    /\ call[t].pc = "idle"
    /\ given + Cardinality(Busy) < MaxSeq
    /\ call' = [call EXCEPT ![t] = [pc |-> "lookup", config |-> {c}, seq |-> 0]]
    /\ Disturb({c})
    /\ UNCHANGED <<table, given, processors, first, dbInit, initTask, crashes, gone>>

GetSeqFromProcessors(t) ==
    /\ call[t].pc = "lookup"
    /\ IF \E q \in processors : q[2] \in call[t].config THEN Return(t) ELSE Goto(t, "choose")
    /\ UNCHANGED <<table, given, processors, first, dbInit, initTask, crashes, gone, disturbed>>

\* isFirstAddProcessor_ is read in one step and cleared in another.
IsFirstAddProcessor(t) ==
    /\ call[t].pc = "choose"
    /\ Goto(t, IF first THEN "claim" ELSE "waitInit")
    /\ UNCHANGED <<table, given, processors, first, dbInit, initTask, crashes, gone, disturbed>>

SubmitInitTask(t) ==
    /\ call[t].pc = "claim"
    /\ first' = FALSE
    /\ initTask' = [initTask EXCEPT ![t] = [call[t] EXCEPT !.pc = "query"]]
    /\ Goto(t, "wait")
    /\ UNCHANGED <<table, given, processors, dbInit, crashes, gone, disturbed>>

InitTaskQuery(t) ==
    /\ initTask[t].pc = "query"
    /\ \E seq \in 0..given :
        /\ QueryResult(initTask[t].config, seq)
        /\ initTask' = [initTask EXCEPT ![t].pc = "opened", ![t].seq = seq]
    /\ UNCHANGED <<table, given, processors, first, dbInit, call, crashes, gone>>

\* Mutant: nobody is told.
ForgetDbInit == UNCHANGED dbInit

SetDbInit == dbInit' = TRUE

\* Other calls go ahead before this one's row is inserted.
InitTaskOpened(t) ==
    /\ initTask[t].pc = "opened"
    /\ SetDbInit
    /\ initTask' = [initTask EXCEPT ![t].pc = IF initTask[t].seq = 0 THEN "store" ELSE "done"]
    /\ UNCHANGED <<table, given, processors, first, call, crashes, gone, disturbed>>

InitTaskStore(t) ==
    /\ initTask[t].pc = "store"
    /\ \/ /\ InsertObserver(initTask[t].config)
          /\ initTask' = [initTask EXCEPT ![t].pc = "done", ![t].seq = NextSeq]
       \/ /\ MayFail
          /\ initTask' = [initTask EXCEPT ![t].pc = "done"]
          /\ UNCHANGED <<table, given>>
    /\ UNCHANGED <<processors, first, dbInit, call, crashes, gone, disturbed>>

\* The promise is kept for a caller that still waits; sequence 0 is a failure.
TakeInitResult(t) ==
    /\ initTask[t].pc = "done"
    /\ initTask' = [initTask EXCEPT ![t] = Idle]
    /\ IF call[t].pc = "wait"
       THEN IF initTask[t].seq = 0
            THEN Return(t)
            ELSE call' = [call EXCEPT ![t].pc = "publish", ![t].seq = initTask[t].seq]
       ELSE UNCHANGED call
    /\ UNCHANGED <<table, given, processors, first, dbInit, crashes, gone, disturbed>>

\* The caller gives up after 500 ms.
WaitTimesOut(t) ==
    /\ MayTimeOut
    /\ \/ call[t].pc = "wait"
       \/ call[t].pc = "waitInit" /\ ~dbInit
    /\ Return(t)
    /\ UNCHANGED <<table, given, processors, first, dbInit, initTask, crashes, gone, disturbed>>

DbIsInit(t) ==
    /\ call[t].pc = "waitInit"
    /\ dbInit
    /\ Goto(t, "query")
    /\ UNCHANGED <<table, given, processors, first, dbInit, initTask, crashes, gone, disturbed>>

QueryObserverSeq(t) ==
    /\ call[t].pc = "query"
    /\ \E seq \in 0..given :
        /\ QueryResult(call[t].config, seq)
        /\ call' = [call EXCEPT ![t].seq = seq,
                                ![t].pc = IF seq = 0 THEN "store" ELSE "publish"]
    /\ UNCHANGED <<table, given, processors, first, dbInit, initTask, crashes, gone>>

StoreObserverToDb(t) ==
    /\ call[t].pc = "store"
    /\ \/ /\ InsertObserver(call[t].config)
          /\ call' = [call EXCEPT ![t].pc = "publish", ![t].seq = NextSeq]
       \/ /\ MayFail
          /\ Return(t)
          /\ UNCHANGED <<table, given>>
    /\ UNCHANGED <<processors, first, dbInit, initTask, crashes, gone, disturbed>>

Publish(t) ==
    /\ call[t].pc = "publish"
    /\ processors' = Without(call[t].seq) \cup ({call[t].seq} \X call[t].config)
    /\ Return(t)
    /\ UNCHANGED <<table, given, first, dbInit, initTask, crashes, gone, disturbed>>

--------------------------------------------------------------------------------
(* RemoveObserver, with a sequence that AddProcessor or GetProcessorSeqs returned. *)

\* A sequence that is not in memory is not looked for in the database.
RemoveObserver(t, seq) ==
    /\ call[t].pc = "idle"
    /\ seq \in 1..given \ gone
    /\ IF \E q \in processors : q[1] = seq
       THEN LET C == {q[2] : q \in {p \in processors : p[1] = seq}}
            IN  /\ call' = [call EXCEPT ![t] = [pc |-> "delete", config |-> C, seq |-> seq]]
                /\ Disturb(C)
                /\ UNCHANGED gone
       ELSE /\ gone' = gone \cup {seq}
            /\ UNCHANGED <<call, disturbed>>
    /\ UNCHANGED <<table, given, processors, first, dbInit, initTask, crashes>>

DeleteObserver(t) ==
    /\ call[t].pc = "delete"
    /\ \/ /\ table' = {r \in table : r[1] # call[t].seq}
          /\ Goto(t, "forget")
       \/ /\ MayFail
          /\ Return(t)
          /\ UNCHANGED table
    /\ UNCHANGED <<given, processors, first, dbInit, initTask, crashes, gone, disturbed>>

DeleteProcessor(t) ==
    /\ call[t].pc = "forget"
    /\ processors' = Without(call[t].seq)
    /\ gone' = gone \cup {call[t].seq}
    /\ Return(t)
    /\ UNCHANGED <<table, given, first, dbInit, initTask, crashes, disturbed>>

Crash ==
    /\ crashes < MaxCrashes
    /\ crashes' = crashes + 1
    /\ processors' = {}
    /\ first' = TRUE
    /\ dbInit' = FALSE
    /\ call' = [t \in Threads |-> Idle]
    /\ initTask' = [t \in Threads |-> Idle]
    /\ UNCHANGED <<table, given, gone, disturbed>>

StepInit(t) ==
    InitTaskQuery(t) \/ InitTaskOpened(t) \/ InitTaskStore(t) \/ TakeInitResult(t)

StepCall(t) ==
    \/ GetSeqFromProcessors(t) \/ IsFirstAddProcessor(t) \/ SubmitInitTask(t)
    \/ DbIsInit(t) \/ QueryObserverSeq(t) \/ StoreObserverToDb(t)
    \/ Publish(t) \/ DeleteObserver(t) \/ DeleteProcessor(t)

Next ==
    \/ Crash
    \/ \E t \in Threads :
        \/ \E c \in Configs : AddProcessor(t, c)
        \/ \E seq \in Seqs : RemoveObserver(t, seq)
        \/ StepInit(t)
        \/ StepCall(t)
        \/ WaitTimesOut(t)

Spec == Init /\ [][Next]_vars

\* A call and a submitted task run to their end; no wait has to time out.
Fairness == \A t \in Threads : WF_vars(StepCall(t)) /\ WF_vars(StepInit(t))

FairSpec == Spec /\ Fairness

--------------------------------------------------------------------------------
(* Properties.                                                                     *)

\* A sequence names one configuration for ever, in the database, in memory and in the
\* hands of a call that is about to publish it: a row that is removed while somebody
\* still holds its sequence is not replaced by another one with the same sequence.
Holdings ==
    table \cup processors
        \cup UNION {{call[t].seq} \X call[t].config :
                        t \in {u \in Threads : call[u].pc = "publish"}}

IdNamesOneConfig == TypeOK /\ \A h, g \in Holdings : h[1] = g[1] => h[2] = g[2]

\* A configuration has one row, across restarts, removals, timeouts and failing
\* insertions, as long as
\* no query fails and no two calls for the configuration overlap (tasks included that
\* outlive their callers), whatever calls for other configurations do meanwhile.
UniqueUnlessDisturbed ==
    \A q, r \in table : q[2] = r[2] /\ q[2] \notin disturbed => q = r

\* Then also, when the manager is at rest, a processor in memory has its row in the
\* database, so that what is mapped to it is found again after a restart.
LiveHasRow ==
    (\A t \in Threads : call[t].pc = "idle") =>
        \A q \in processors : q[2] \notin disturbed => q \in table

\* No AddProcessor or RemoveObserver waits for ever, not even when no wait times out: the
\* first call's task always opens the database for the others.
CallsReturn == \A t \in Threads : call[t].pc # "idle" ~> call[t].pc = "idle"
================================================================================
