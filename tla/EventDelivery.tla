----------------------------- MODULE EventDelivery -----------------------------
(* The way of an event from AppEventObserverMgr::HandleEvents through the       *)
(* database to the observers, and out of the database again.                    *)
(*                                                                              *)
(* Three tables survive a crash: events, event_observer_mapping (which observer *)
(* still needs which event) and observers.  In memory an observer counts the    *)
(* events of its next batch.  A processor is given a batch from the database    *)
(* when its row condition, a timer, the background or its start-up triggers it, *)
(* and a real-time event directly; what OnReport accepts is unmapped, and an    *)
(* event is erased once nobody is mapped to it.  A watcher with an onReceive    *)
(* callback (the NDK's) takes every event in real time and is unmapped first.   *)
(*                                                                              *)
(* Database calls, OnReport and the callbacks are separate steps: dbMutex_ is   *)
(* held in shared mode by ordinary operations and serialises none of them.      *)
EXTENDS Naturals, FiniteSets

CONSTANTS
    Processors, Watchers,   \* observers, identified by their row in the observers table
    None,                   \* observer sequence 0; also "no observer", "no kind"
    Threads,                \* threads inside the observer manager
    Kinds,                  \* kinds of event that filters and real-time configs tell apart
    Wants,                  \* kinds that VerifyEvent accepts, for each observer
    RealTime,               \* kinds that IsRealTimeEvent accepts, for each processor
    RowCond,                \* triggerCond_.row of each processor, 0 for none
    OnStartup,              \* processors with triggerCond_.onStartup
    Removable,              \* observers the application may remove
    QueryLimit,             \* MAX_SIZE_ON_EVENTS = MAX_SIZE_OF_INIT
    ReportMayFail,          \* whether OnReport may return an error
    MaxEvents, MaxCrashes, MaxFaults    \* bounds on events, crashes, failing DB operations

Observers == Processors \cup Watchers
Seqs == 1..MaxEvents

ASSUME ObserversAssumption ==
    /\ Processors \cap Watchers = {}
    /\ None \notin Observers \cup Kinds \cup Threads
    /\ Removable \subseteq Observers
    /\ OnStartup \subseteq Processors
ASSUME ConfigAssumption ==
    /\ Wants \in [Observers -> SUBSET Kinds]
    /\ RealTime \in [Processors -> SUBSET Kinds]
    /\ RowCond \in [Processors -> Nat]
    /\ ReportMayFail \in BOOLEAN
ASSUME BoundsAssumption ==
    MaxEvents \in Nat /\ MaxCrashes \in Nat /\ MaxFaults \in Nat /\ QueryLimit \in Nat \ {0}

VARIABLES
    events,         \* table events: sequence numbers of its rows
    kindOf,         \* the kind of each event ever inserted
    mapping,        \* table event_observer_mapping: pairs <<event, observer>>
    observers,      \* table observers
    live,           \* watchers_ and processors_
    stub,           \* watchers_ entries InitWatchers restored, not yet added again
    zeroed,         \* removed NDK watchers whose sequence was set to 0
    removed,        \* observers whose row is gone; added again they get a new one
    row,            \* currCond_.row of each processor
    condMutex,      \* the thread that holds condMutex_ of each processor
    th,             \* what each thread does
    begun, crashes, faults,     \* how much of the bounds is used
    acked           \* history: pairs <<event, observer>> reported with success or received

db == <<events, kindOf, mapping, observers>>
mem == <<live, stub, zeroed, removed, row, condMutex>>
vars == <<db, mem, th, begun, crashes, faults, acked>>

Pcs == {"idle", "insert", "map", "send", "report", "unmap", "purge", "erase", "receive",
        "reset", "startup", "publish", "rmmap", "rmrow", "rmmem", "rmseq"}
Modes == {"none", "real", "trigger", "startup", "receive", "replay"}

ThreadStates ==
    [pc : Pcs, mode : Modes, seq : 0..MaxEvents, kind : Kinds \cup {None},
     todo : SUBSET Observers, stubs : SUBSET Watchers, cur : Observers \cup {None},
     batch : SUBSET (0..MaxEvents), del : SUBSET (0..MaxEvents)]

TypeOK ==
    /\ events \subseteq Seqs
    /\ kindOf \in [Seqs -> Kinds \cup {None}]
    /\ mapping \subseteq (0..MaxEvents) \X (Observers \cup {None})
    /\ observers \subseteq Observers
    /\ live \subseteq Observers
    /\ stub \subseteq Watchers
    /\ zeroed \subseteq Watchers
    /\ removed \subseteq Observers
    /\ row \in [Processors -> Nat]
    /\ condMutex \in [Processors -> Threads \cup {None}]
    /\ th \in [Threads -> ThreadStates]
    /\ begun \in 0..MaxEvents
    /\ crashes \in 0..MaxCrashes
    /\ faults \in 0..MaxFaults
    /\ acked \subseteq (0..MaxEvents) \X Observers

IdleThread ==
    [pc |-> "idle", mode |-> "none", seq |-> 0, kind |-> None, todo |-> {}, stubs |-> {},
     cur |-> None, batch |-> {}, del |-> {}]

Init ==
    /\ events = {}
    /\ kindOf = [e \in Seqs |-> None]
    /\ mapping = {}
    /\ observers = {}
    /\ live = {}
    /\ stub = {}
    /\ zeroed = {}
    /\ removed = {}
    /\ row = [p \in Processors |-> 0]
    /\ condMutex = [p \in Processors |-> None]
    /\ th = [t \in Threads |-> IdleThread]
    /\ begun = 0
    /\ crashes = 0
    /\ faults = 0
    /\ acked = {}

--------------------------------------------------------------------------------
(* Operations of the database.                                                  *)

\* Sequences are handed out in order and never again, whatever is deleted.
NextSeq == 1 + Cardinality({e \in Seqs : kindOf[e] # None})

GetSeq(o) == IF o \in zeroed THEN None ELSE o

EventsOf(o) == {e \in events : <<e, o>> \in mapping}

\* ORDER BY event_seq DESC LIMIT QueryLimit
QueryEvents(o) ==
    {e \in EventsOf(o) : Cardinality({f \in EventsOf(o) : f > e}) < QueryLimit}

\* Mutant: the observer is left out of the predicate.
MappingRowsOfEvents(o, E) == {m \in mapping : m[1] \in E}

\* An observer sequence of 0 leaves the observer out of the predicate.
MappingRows(o, E) == {m \in mapping : m[1] \in E /\ (GetSeq(o) = None \/ m[2] = o)}

\* Mutant: no look at the other observers.
EveryEvent(E) == E

\* Mutant: an event of the batch that somebody still needs keeps all of them.
AllOrNothing(E) == IF \E m \in mapping : m[1] \in E THEN {} ELSE E

UnusedEvents(E) == {e \in E : \A o \in Observers \cup {None} : <<e, o>> \notin mapping}

\* Some database operation may fail.
Fault ==
    /\ faults < MaxFaults
    /\ faults' = faults + 1

Goto(t, pc) == th' = [th EXCEPT ![t].pc = pc]

\* The walk of HandleEvents goes on, or ends, after the observer it was busy with.
NextObserver(t, o) ==
    th' = [th EXCEPT ![t] = IF th[t].todo \subseteq {o} THEN IdleThread
                            ELSE [th[t] EXCEPT !.pc = "send", !.mode = "none", !.cur = None,
                                               !.todo = th[t].todo \ {o},
                                               !.batch = {}, !.del = {}]]

--------------------------------------------------------------------------------
(* HandleEvents.                                                                *)

HandleEvents(t, k) ==
    /\ th[t].pc = "idle"
    /\ live # {}
    /\ begun < MaxEvents
    /\ begun' = begun + 1
    /\ th' = [th EXCEPT ![t] = [IdleThread EXCEPT !.pc = "insert", !.kind = k,
                                                  !.todo = live, !.stubs = stub]]
    /\ UNCHANGED <<db, mem, crashes, faults, acked>>

\* A failed insertion leaves the event with sequence 0, and is only logged.
InsertEvent(t) ==
    /\ th[t].pc = "insert"
    /\ \/ /\ NextSeq <= MaxEvents     \* follows from begun <= MaxEvents
          /\ events' = events \cup {NextSeq}
          /\ kindOf' = [kindOf EXCEPT ![NextSeq] = th[t].kind]
          /\ th' = [th EXCEPT ![t].pc = "map", ![t].seq = NextSeq]
          /\ UNCHANGED faults
       \/ /\ Fault
          /\ Goto(t, "map")
          /\ UNCHANGED <<events, kindOf>>
    /\ UNCHANGED <<mapping, observers, mem, begun, crashes, acked>>

InsertEventMapping(t) ==
    /\ th[t].pc = "map"
    /\ \/ /\ mapping' = mapping \cup
                {<<th[t].seq, GetSeq(o)>> : o \in {w \in th[t].todo : th[t].kind \in Wants[w]}}
          /\ UNCHANGED faults
       \/ /\ Fault
          /\ UNCHANGED mapping
    /\ Goto(t, "send")
    /\ UNCHANGED <<events, kindOf, observers, mem, begun, crashes, acked>>

\* The snapshot lists the watchers before the processors.
MayVisit(t, o) ==
    /\ th[t].pc = "send"
    /\ o \in th[t].todo
    /\ o \in Processors => th[t].todo \cap Watchers = {}

\* The filter rejects the event, or the entry is InitWatchers' placeholder, whose
\* conditions and callbacks are empty.
SkipObserver(t, o) ==
    /\ MayVisit(t, o)
    /\ th[t].kind \notin Wants[o] \/ o \in th[t].stubs
    /\ NextObserver(t, o)
    /\ UNCHANGED <<db, mem, begun, crashes, faults, acked>>

\* mutex_ of the watcher is held for the whole of OnEvents.
SendToWatcher(t, w) ==
    /\ MayVisit(t, w)
    /\ w \in Watchers \ th[t].stubs
    /\ th[t].kind \in Wants[w]
    /\ \A u \in Threads : ~(th[u].mode = "receive" /\ th[u].cur = w)
    /\ th' = [th EXCEPT ![t].pc = "unmap", ![t].mode = "receive", ![t].cur = w,
                        ![t].batch = {th[t].seq}]
    /\ UNCHANGED <<db, mem, begun, crashes, faults, acked>>

SendRealTime(t, p) ==
    /\ MayVisit(t, p)
    /\ p \in Processors
    /\ th[t].kind \in Wants[p] \cap RealTime[p]
    /\ th' = [th EXCEPT ![t].pc = "report", ![t].mode = "real", ![t].cur = p,
                        ![t].batch = {th[t].seq}]
    /\ UNCHANGED <<db, mem, begun, crashes, faults, acked>>

\* Mutant: condMutex_ is released before the callback, not after it.
DoNotLock(t, p) == UNCHANGED condMutex

LockCond(t, p) == condMutex' = [condMutex EXCEPT ![p] = t]

\* OnTrigger: an empty batch, or one that cannot be read, is not reported, and the
\* condition is reset all the same.
OnTrigger(t, p, mode, batch) ==
    IF batch = {}
    THEN /\ row' = [row EXCEPT ![p] = 0]
         /\ IF mode = "startup" THEN Goto(t, "publish") ELSE NextObserver(t, p)
         /\ UNCHANGED condMutex
    ELSE /\ LockCond(t, p)
         /\ th' = [th EXCEPT ![t].pc = "report", ![t].mode = mode, ![t].cur = p,
                             ![t].batch = batch]
         /\ UNCHANGED row

Trigger(t, p, mode) ==
    \/ OnTrigger(t, p, mode, QueryEvents(p)) /\ UNCHANGED faults
    \/ OnTrigger(t, p, mode, {}) /\ Fault

ProcessEvent(t, p) ==
    /\ MayVisit(t, p)
    /\ p \in Processors
    /\ th[t].kind \in Wants[p] \ RealTime[p]
    /\ condMutex[p] = None
    /\ IF RowCond[p] > 0 /\ row[p] + 1 >= RowCond[p]
       THEN Trigger(t, p, "trigger")
       ELSE /\ row' = [row EXCEPT ![p] = @ + 1]
            /\ NextObserver(t, p)
            /\ UNCHANGED <<condMutex, faults>>
    /\ UNCHANGED <<db, live, stub, zeroed, removed, begun, crashes, acked>>

\* ProcessTimeout or ProcessBackground finds the condition of a processor met.
TriggerBatch(t, p) ==
    /\ th[t].pc = "idle"
    /\ p \in live
    /\ condMutex[p] = None
    /\ row[p] > 0
    /\ Trigger(t, p, "trigger")
    /\ UNCHANGED <<db, live, stub, zeroed, removed, begun, crashes, acked>>

--------------------------------------------------------------------------------
(* OnEvents: report, unmap, erase; a watcher is unmapped before it receives.    *)

AfterBatch(t) ==
    IF th[t].mode = "real" THEN NextObserver(t, th[t].cur)
    ELSE Goto(t, IF th[t].mode \in {"receive", "replay"} THEN "receive" ELSE "reset")

OnReport(t) ==
    /\ th[t].pc = "report"
    /\ \/ /\ acked' = acked \cup (th[t].batch \X {th[t].cur})
          /\ Goto(t, "unmap")
       \/ /\ ReportMayFail
          /\ AfterBatch(t)
          /\ UNCHANGED acked
    /\ UNCHANGED <<db, mem, begun, crashes, faults>>

DeleteEventMapping(t) ==
    /\ th[t].pc = "unmap"
    /\ \/ /\ mapping' = mapping \ MappingRows(th[t].cur, th[t].batch)
          /\ Goto(t, "purge")
          /\ UNCHANGED faults
       \/ /\ Fault
          /\ AfterBatch(t)
          /\ UNCHANGED mapping
    /\ UNCHANGED <<events, kindOf, observers, mem, begun, crashes, acked>>

QueryExistEvent(t) ==
    /\ th[t].pc = "purge"
    /\ \/ /\ th' = [th EXCEPT ![t].pc = "erase", ![t].del = UnusedEvents(th[t].batch)]
          /\ UNCHANGED faults
       \/ /\ Fault
          /\ AfterBatch(t)
    /\ UNCHANGED <<db, mem, begun, crashes, acked>>

DeleteEvent(t) ==
    /\ th[t].pc = "erase"
    /\ \/ /\ events' = events \ th[t].del
          /\ UNCHANGED faults
       \/ /\ Fault
          /\ UNCHANGED events
    /\ AfterBatch(t)
    /\ UNCHANGED <<kindOf, mapping, observers, mem, begun, crashes, acked>>

OnReceive(t) ==
    /\ th[t].pc = "receive"
    /\ acked' = acked \cup (th[t].batch \X {th[t].cur})
    /\ IF th[t].mode = "replay" THEN Goto(t, "publish") ELSE NextObserver(t, th[t].cur)
    /\ UNCHANGED <<db, mem, begun, crashes, faults>>

\* The end of a critical section of condMutex_ that called OnTrigger.
ResetCondition(t) ==
    /\ th[t].pc = "reset"
    /\ row' = [row EXCEPT ![th[t].cur] = 0]
    /\ condMutex' = [condMutex EXCEPT ![th[t].cur] = None]
    /\ IF th[t].mode = "startup" THEN Goto(t, "publish") ELSE NextObserver(t, th[t].cur)
    /\ UNCHANGED <<db, live, stub, zeroed, removed, begun, crashes, faults, acked>>

--------------------------------------------------------------------------------
(* Registration.                                                                *)

Registering(t) == th[t].mode \in {"startup", "replay"}
Removing(t) == th[t].pc \in {"rmmap", "rmrow", "rmmem", "rmseq"}

\* Calls for one observer do not overlap.
NobodyBusyWith(o) ==
    \A t \in Threads : th[t].cur = o => ~(Registering(t) \/ Removing(t))

CallFor(o, pc, mode, batch) ==
    [IdleThread EXCEPT !.pc = pc, !.mode = mode, !.cur = o, !.batch = batch]

\* An observer that is not in the database gets a row.
StoreObserver(t, o) ==
    /\ th[t].pc = "idle"
    /\ NobodyBusyWith(o)
    /\ o \notin observers \cup removed
    /\ observers' = observers \cup {o}
    /\ th' = [th EXCEPT ![t] =
            CallFor(o, "publish", IF o \in Watchers THEN "replay" ELSE "startup", {})]
    /\ UNCHANGED <<events, kindOf, mapping, mem, begun, crashes, faults, acked>>

\* The stored events of a processor are counted; a processor in memory is not added again.
InitProcessorFromDb(t, p) ==
    /\ th[t].pc = "idle"
    /\ NobodyBusyWith(p)
    /\ p \in observers \ live
    /\ row' = [row EXCEPT ![p] = Cardinality(QueryEvents(p))]
    /\ th' = [th EXCEPT ![t] = CallFor(p, "startup", "startup", {})]
    /\ UNCHANGED <<db, live, stub, zeroed, removed, condMutex, begun, crashes, faults, acked>>

ProcessStartup(t) ==
    /\ th[t].pc = "startup"
    /\ IF th[t].cur \in OnStartup /\ row[th[t].cur] > 0
       THEN Trigger(t, th[t].cur, "startup")
       ELSE Goto(t, "publish") /\ UNCHANGED <<row, condMutex, faults>>
    /\ UNCHANGED <<db, live, stub, zeroed, removed, begun, crashes, acked>>

\* A watcher in watchers_, a placeholder or not, is found by its name unless its sequence
\* is 0; the stored events are delivered to the object that will replace it.
InitWatcherFromDb(t, w) ==
    /\ th[t].pc = "idle"
    /\ NobodyBusyWith(w)
    /\ w \in live \ zeroed
    /\ LET batch == {e \in QueryEvents(w) : kindOf[e] \in Wants[w]}
       IN  th' = [th EXCEPT ![t] =
                    CallFor(w, IF batch = {} THEN "publish" ELSE "unmap", "replay", batch)]
    /\ UNCHANGED <<db, mem, begun, crashes, faults, acked>>

\* Under watcherMutex_ or processorMutex_.
Publish(t) ==
    /\ th[t].pc = "publish"
    /\ live' = live \cup {th[t].cur}
    /\ stub' = stub \ {th[t].cur}
    /\ th' = [th EXCEPT ![t] = IdleThread]
    /\ UNCHANGED <<db, zeroed, removed, row, condMutex, begun, crashes, faults, acked>>

--------------------------------------------------------------------------------
(* Removal.                                                                     *)

RemoveObserver(t, o) ==
    /\ th[t].pc = "idle"
    /\ NobodyBusyWith(o)
    /\ o \in Removable \cap live
    /\ th' = [th EXCEPT ![t] = CallFor(o, "rmmap", "none", {})]
    /\ UNCHANGED <<db, mem, begun, crashes, faults, acked>>

\* RemoveWatcher of the NDK ignores what RemoveObserver returns; its object keeps the
\* sequence only if it is a placeholder, which no handle refers to.
AfterRemoval(t) ==
    IF th[t].cur \in Watchers \ stub
    THEN Goto(t, "rmseq")
    ELSE th' = [th EXCEPT ![t] = IdleThread]

\* When it fails, the observer stays as it is.
DeleteMappingOfObserver(t) ==
    /\ th[t].pc = "rmmap"
    /\ \/ /\ mapping' = {m \in mapping : m[2] # th[t].cur}
          /\ Goto(t, "rmrow")
          /\ UNCHANGED faults
       \/ /\ Fault
          /\ AfterRemoval(t)
          /\ UNCHANGED mapping
    /\ UNCHANGED <<events, kindOf, observers, mem, begun, crashes, acked>>

DeleteObserverRow(t) ==
    /\ th[t].pc = "rmrow"
    /\ \/ /\ observers' = observers \ {th[t].cur}
          /\ removed' = removed \cup {th[t].cur}
          /\ Goto(t, "rmmem")
          /\ UNCHANGED faults
       \/ /\ Fault
          /\ AfterRemoval(t)
          /\ UNCHANGED <<observers, removed>>
    /\ UNCHANGED <<events, kindOf, mapping, live, stub, zeroed, row, condMutex,
                   begun, crashes, acked>>

DeleteFromMemory(t) ==
    /\ th[t].pc = "rmmem"
    /\ live' = live \ {th[t].cur}
    /\ stub' = stub \ {th[t].cur}
    /\ AfterRemoval(t)
    /\ UNCHANGED <<db, zeroed, removed, row, condMutex, begun, crashes, faults, acked>>

SetSeqZero(t) ==
    /\ th[t].pc = "rmseq"
    /\ zeroed' = zeroed \cup {th[t].cur}
    /\ th' = [th EXCEPT ![t] = IdleThread]
    /\ UNCHANGED <<db, live, stub, removed, row, condMutex, begun, crashes, faults, acked>>

--------------------------------------------------------------------------------
\* The process dies; InitWatchers of the next one restores the watchers of the database.
Crash ==
    /\ crashes < MaxCrashes
    /\ crashes' = crashes + 1
    /\ live' = observers \cap Watchers
    /\ stub' = observers \cap Watchers
    /\ zeroed' = {}
    /\ row' = [p \in Processors |-> 0]
    /\ condMutex' = [p \in Processors |-> None]
    /\ th' = [t \in Threads |-> IdleThread]
    /\ UNCHANGED <<db, removed, begun, faults, acked>>

StepThread(t) ==
    \/ InsertEvent(t) \/ InsertEventMapping(t)
    \/ OnReport(t) \/ DeleteEventMapping(t) \/ QueryExistEvent(t) \/ DeleteEvent(t)
    \/ OnReceive(t) \/ ResetCondition(t)
    \/ ProcessStartup(t) \/ Publish(t)
    \/ DeleteMappingOfObserver(t) \/ DeleteObserverRow(t)
    \/ DeleteFromMemory(t) \/ SetSeqZero(t)
    \/ \E w \in Watchers : SendToWatcher(t, w)
    \/ \E p \in Processors : SendRealTime(t, p) \/ ProcessEvent(t, p)
    \/ \E o \in Observers : SkipObserver(t, o)

CallThread(t) ==
    \/ \E k \in Kinds : HandleEvents(t, k)
    \/ \E p \in Processors : TriggerBatch(t, p) \/ InitProcessorFromDb(t, p)
    \/ \E w \in Watchers : InitWatcherFromDb(t, w)
    \/ \E o \in Observers : StoreObserver(t, o) \/ RemoveObserver(t, o)

Next ==
    \/ Crash
    \/ \E t \in Threads : StepThread(t) \/ CallThread(t)

Spec == Init /\ [][Next]_vars

--------------------------------------------------------------------------------
(* Properties.                                                                  *)

Quiescent == \A t \in Threads : th[t].pc = "idle"

\* An event that some observer is still mapped to is not deleted from the events table,
\* whichever observers report it, and give it up, at the same time (DeleteData).
PendingEventsStored == \A m \in mapping : m[1] # 0 => m[1] \in events

\* The mapping table is an at-least-once queue for every processor: nothing but a
\* successful OnReport, or the removal of the processor, takes an event off it, crashes,
\* failing database calls and failing reports included.
Promise == INSTANCE DeliveryPromise WITH
    pending <- {m \in mapping : m[1] # 0 /\ m[2] \in Processors},
    acked <- {m \in acked : m[1] # 0 /\ m[2] \in Processors}
AtLeastOnce == Promise!Spec

\* condMutex_ is held until the reported events are unmapped, so that no thread picks up
\* in its own batch an event that another one has just reported.  (Real-time events are
\* reported under no lock.)
BatchReportedOnce ==
    \A t \in Threads :
        th[t].pc = "report" /\ th[t].mode # "real" =>
            \A e \in th[t].batch :
                <<e, th[t].cur>> \in acked => kindOf[e] \in RealTime[th[t].cur]

\* currCond_.row never forgets an event: with nobody inside the manager, the row of a
\* processor covers the events that wait for it in the database, so that its next timer,
\* background or start-up does find row > 0.
RowCoversBacklog ==
    Quiescent =>
        \A p \in Processors \cap live : Cardinality(EventsOf(p)) <= row[p]

\* The last observer that gives up an event deletes it, even when several do so at once.
\* (A removal takes the mapping of its observer only, and leaves the events to the cleaner.)
LastOneErases ==
    Quiescent /\ removed = {} =>
        \A e \in events :
            (\E o \in Observers : <<e, o>> \in acked) => \E o \in Observers : <<e, o>> \in mapping
================================================================================
