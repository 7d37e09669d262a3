-------------------------------- MODULE Watchers --------------------------------
(* What each binding does with the events of its watchers: JavaScript ("js"), ETS       *)
(* ("ets"), Cangjie ("cj") and the C interface ("ndk").                                  *)
(*                                                                                       *)
(* The observer manager calls OnEvents or OnTrigger of a watcher object from the thread  *)
(* that delivers an event, or from the thread that adds the watcher.  JavaScript and ETS *)
(* post a task to the thread of the environment and unmap the events by another task     *)
(* once the callback returned; the C interface unmaps them and calls back at once;       *)
(* Cangjie calls back at once and unmaps nothing.  A holder takes stored events in       *)
(* packages.  JavaScript environments come and go: a manager keeps, for each, raw        *)
(* pointers to the watchers whose callbacks must be given up with it.                    *)
(*                                                                                       *)
(* The manager's own steps (the tables, the listener, the conditions) are those of       *)
(* ObserverRegistry, OsEventListener and EventDelivery and are coarser here: a trigger   *)
(* condition is one row, and one name is added by one thread at a time.                  *)
EXTENDS Naturals, Sequences, FiniteSets, SequencesExt

CONSTANTS
    Watchers,       \* names of watchers
    Binding,        \* the binding each is added through
    Wrong,          \* what is wrong with the arguments each is added with, or "nothing"
    Filters,        \* appEventFilters of each: a sequence of names and types
    Attributes,     \* name and type of the events, by sequence number
    Sizes,          \* length of the events' text
    Envs, Main,     \* environments, each with its thread; Main is the application's
    AddedBy,        \* the environments that add each watcher
    TakeRow, TakeSize,      \* setRow and setSize of the holders; 0 when not called
    MaxCalls, MaxFaults, MaxCrashes, MaxEnvs  \* bounds

Events == 1..Len(Attributes)
Seqs == 1..MaxCalls
Objects == 1..MaxCalls
Io == "io"          \* the thread that handles events
Threads == Envs \cup {Io}
AllTypes == 0..7    \* BIT_ALL_TYPES
DefaultRow == 1     \* DEFAULT_ROW_NUM

ASSUME WatchersAssumption ==
    /\ Binding \in [Watchers -> {"js", "ets", "cj", "ndk"}]
    /\ Wrong \in [Watchers -> {"nothing", "name", "filters", "timeout", "callback"}]
    /\ Main \in Envs /\ Io \notin Envs
    /\ AddedBy \in [Watchers -> SUBSET Envs]
    /\ {TakeRow, TakeSize, MaxCalls, MaxFaults, MaxCrashes, MaxEnvs} \subseteq Nat /\ MaxEnvs > 0
\* The types of an event are FAULT = 1 to BEHAVIOR = 4; filters have any bits.
ASSUME FiltersAssumption ==
    /\ Len(Attributes) \in Nat
    /\ \A e \in Events : Attributes[e].type \in 1..4
    /\ \A w \in Watchers : \A i \in DOMAIN Filters[w] :
            Filters[w][i] = [names |-> Filters[w][i].names, types |-> Filters[w][i].types]

VARIABLES
    inserted,   \* how many events are in table events so far
    mapped,     \* table event_observer_mapping: pairs <<event, sequence of an observer>>
    rows,       \* table observers: the sequence of each watcher, 0 for none
    lastSeq,    \* the sequences handed out
    watchers,   \* watchers_: the object of each watcher, 0 for none
    restored,   \* watchers_ entries made by InitWatchers, not added again yet
    objs,       \* the watcher objects of this process, in the order of their creation
    destroyed,  \* those whose destructor has run
    records,    \* napiEnvWatcherRecords_
    hooked,     \* envs_: addresses of environments that were given a cleanup hook
    envs,       \* each environment: how often made, whether it is there, whether it has the hook
    loop,       \* tasks posted to the thread of each environment
    unmaps,     \* tasks of DeleteEventMappingAsync in the ffrt queue
    th,         \* what each thread does
    held,       \* the holder used by each thread: its watcher and sequence
    zeroing,    \* NDK watchers whose RemoveWatcher has still to call SetSeq(0)
    calls,      \* calls of AddWatcher and of the holders' constructor
    faults, crashes,
    owed,       \* history: pairs the application's filters ask for
    received,   \* history: pairs passed to onReceive with success
    taken,      \* history: <<event, sequence, thread>> returned in a package
    repeated,   \* history: those returned twice to one thread
    lost,       \* history: pairs lost for a known reason
    deaf,       \* history: environments gone whose hook was never added
    bare        \* history: objects whose onTrigger was called with no holder

tableVars == <<inserted, mapped, rows, lastSeq>>
managerVars == <<watchers, restored, objs, destroyed>>
envVars == <<records, hooked, envs, deaf>>
taskVars == <<loop, unmaps>>
boundVars == <<calls, faults, crashes>>
bookVars == <<owed, received, taken, repeated, lost, bare>>
vars == <<tableVars, managerVars, envVars, taskVars, th, held, zeroing, boundVars, bookVars>>

Idle == [pc |-> "idle", obj |-> 0, todo |-> {}, events |-> {}]
NoHolder == [of |-> {}, seq |-> 0]
Pairs(E, s) == E \X {s}
B(n) == Binding[objs[n].watcher]

TypeOK ==
    /\ inserted \in 0..Len(Attributes)
    /\ {mapped, owed, received, lost} \subseteq SUBSET (Events \X Seqs)
    /\ rows \in [Watchers -> 0..MaxCalls] /\ lastSeq \in 0..MaxCalls
    /\ watchers \in [Watchers -> 0..Len(objs)]
    /\ restored \subseteq Watchers
    /\ \A n \in DOMAIN objs : objs[n] \in
            [watcher : Watchers, receives : BOOLEAN, env : Envs, gen : 1..MaxEnvs,
             row : 0..MaxCalls, seq : 0..MaxCalls, open : BOOLEAN, holder : {"none", "null", "set"}]
    /\ {destroyed, records, zeroing, bare} \subseteq SUBSET (DOMAIN objs)
    /\ {hooked} \subseteq SUBSET Envs
    /\ envs \in [Envs -> [gen : 1..MaxEnvs, there : BOOLEAN, hook : BOOLEAN]]
    /\ \A t \in Threads : th[t].pc \in {"idle", "send", "call", "publish", "record", "holder", "take"}
    /\ {calls, faults, crashes} \subseteq Nat

Init ==
    /\ inserted = 0 /\ mapped = {} /\ rows = [w \in Watchers |-> 0] /\ lastSeq = 0
    /\ watchers = [w \in Watchers |-> 0] /\ restored = {} /\ objs = <<>> /\ destroyed = {}
    /\ records = {} /\ hooked = {} /\ deaf = {}
    /\ envs = [t \in Envs |-> [gen |-> 1, there |-> TRUE, hook |-> FALSE]]
    /\ loop = [t \in Envs |-> <<>>] /\ unmaps = {}
    /\ th = [t \in Threads |-> Idle]
    /\ held = [t \in Envs |-> NoHolder]
    /\ zeroing = {}
    /\ calls = 0 /\ faults = 0 /\ crashes = 0
    /\ owed = {} /\ received = {} /\ taken = {} /\ repeated = {} /\ lost = {} /\ bare = {}

Fault == faults < MaxFaults /\ faults' = faults + 1
Goto(t, pc) == th' = [th EXCEPT ![t].pc = pc]

\* Object n has had its events; the last one ends the delivery, and a thread that adds a
\* watcher goes on to publish it.
Sent(t, n) ==
    LET c == th[t]
        next == IF t # Io THEN [Idle EXCEPT !.pc = "publish", !.obj = n]
                ELSE IF c.todo = {n} THEN Idle
                ELSE [c EXCEPT !.pc = "send", !.obj = 0, !.todo = c.todo \ {n}] IN
    th' = [th EXCEPT ![t] = next]
EnvOf(n) == <<objs[n].env, objs[n].gen>>
EnvIs(t) == <<t, envs[t].gen>>
Free(t) == envs[t].there /\ th[t] = Idle

--------------------------------------------------------------------------------
(* The filters of a watcher.                                                             *)

EveryTypeIfNone(f) == IF f.types = {} THEN [f EXCEPT !.types = AllTypes] ELSE f

\* VerifyIsValidEventType lets fault, statistic, security and behavior through.
JsFilter(f) == EveryTypeIfNone([f EXCEPT !.types = @ \cap 1..4])

EtsFilter(f) == EveryTypeIfNone(f)

\* The set of names is made once for all filters, and grows from one to the next.
CjFilters(F) ==
    [i \in DOMAIN F |->
        EveryTypeIfNone([F[i] EXCEPT !.names = UNION {F[j].names : j \in 1..i}])]

\* A mask of 0 is kept: it asks for every type.
NdkFilter(f) == f

BuiltFilters(w) ==
    CASE Binding[w] = "js"  -> [i \in DOMAIN Filters[w] |-> JsFilter(Filters[w][i])]
      [] Binding[w] = "ets" -> [i \in DOMAIN Filters[w] |-> EtsFilter(Filters[w][i])]
      [] Binding[w] = "cj"  -> CjFilters(Filters[w])
      [] Binding[w] = "ndk" -> [i \in DOMAIN Filters[w] |-> NdkFilter(Filters[w][i])]

IsValidEvent(f, e) ==
    /\ f.names = {} \/ Attributes[e].name \in f.names
    /\ f.types = {} \/ Attributes[e].type \in f.types

VerifyEvent(F, e) == F = <<>> \/ \E i \in DOMAIN F : IsValidEvent(F[i], e)

--------------------------------------------------------------------------------
(* An event arrives.                                                                     *)

\* Objects that watchers_ names, and the sequences events are mapped to.
Live == {watchers[w] : w \in Watchers} \ {0}
Mappable ==
    {<<w, rows[w]>> : w \in restored} \cup {<<objs[n].watcher, objs[n].seq>> : n \in Live}

HandleEvents ==
    LET e == inserted + 1 IN
    /\ th[Io] = Idle
    /\ e \in Events
    /\ inserted' = e
    /\ mapped' = mapped \cup
            {<<e, m[2]>> : m \in {k \in Mappable : k[2] # 0 /\ VerifyEvent(BuiltFilters(k[1]), e)}}
    /\ owed' = owed \cup
            {<<e, m[2]>> : m \in {k \in Mappable : k[2] = rows[k[1]] /\ VerifyEvent(Filters[k[1]], e)}}
    /\ th' = IF Live = {} THEN th
             ELSE [th EXCEPT ![Io] = [Idle EXCEPT !.pc = "send", !.todo = Live, !.events = {e}]]
    /\ UNCHANGED <<rows, lastSeq, managerVars, envVars, taskVars, held, zeroing, boundVars,
                   received, taken, repeated, lost, bare>>

--------------------------------------------------------------------------------
(* SendEventsToObserver, and OnEvents and OnTrigger of the bindings.                     *)

\* Thread t has events for object n, which handles them as it was made to.
Sends(t, n, binding, receives) ==
    /\ th[t].pc = "send"
    /\ n \in th[t].todo
    /\ B(n) = binding
    /\ objs[n].receives = receives

EventsFor(t, n) == {e \in th[t].events : VerifyEvent(BuiltFilters(objs[n].watcher), e)}

\* Callbacks are passed the events in groups of one name.
ByName(E) == {{e \in E : Attributes[e].name = k} : k \in {Attributes[e].name : e \in E}}

JsEventGroups(E) == ByName(E)
EtsEventGroups(E) == ByName(E)
CjEventGroups(E) == ByName(E)
NdkEventGroups(E) == ByName(E)

GotGroups(G, s) == received' = received \cup Pairs(UNION G, s)

\* The events of an object that accepts none are not sent to it.
SkipObserver(t, n) ==
    /\ th[t].pc = "send"
    /\ n \in th[t].todo
    /\ EventsFor(t, n) = {}
    /\ Sent(t, n)
    /\ UNCHANGED <<tableVars, managerVars, envVars, taskVars, held, zeroing, boundVars, bookVars>>

Receive(t, n) == [what |-> "receive", obj |-> n, seq |-> objs[n].seq, events |-> EventsFor(t, n),
                  holder |-> "none"]
Trigger(n) == [what |-> "trigger", obj |-> n, seq |-> 0, events |-> {}, holder |-> "none"]

\* Post a task to the thread of environment v; napi_send_event may fail, which is only logged.
Post(v, task) ==
    \/ loop' = [loop EXCEPT ![v] = Append(@, task)] /\ UNCHANGED faults
    \/ Fault /\ UNCHANGED loop

\* A cleared context, or one that was never set, makes OnEvents and OnTrigger return.
JsOnEvents(t, n) ==
    /\ Sends(t, n, "js", TRUE) /\ EventsFor(t, n) # {}
    /\ Sent(t, n)
    /\ IF objs[n].open THEN Post(objs[n].env, Receive(t, n)) ELSE UNCHANGED <<loop, faults>>
    /\ UNCHANGED <<tableVars, managerVars, envVars, unmaps, held, zeroing, calls, crashes, bookVars>>

\* Mutant: the holder is read when the task is posted.
JsOnTriggerCapturing(t, n) ==
    /\ Sends(t, n, "js", FALSE) /\ EventsFor(t, n) # {}
    /\ Sent(t, n)
    /\ IF objs[n].open
       THEN Post(objs[n].env, [Trigger(n) EXCEPT !.what = "captured", !.holder = objs[n].holder])
       ELSE UNCHANGED <<loop, faults>>
    /\ UNCHANGED <<tableVars, managerVars, envVars, unmaps, held, zeroing, calls, crashes, bookVars>>

JsOnTrigger(t, n) ==
    /\ Sends(t, n, "js", FALSE) /\ EventsFor(t, n) # {}
    /\ Sent(t, n)
    /\ IF objs[n].open THEN Post(objs[n].env, Trigger(n)) ELSE UNCHANGED <<loop, faults>>
    /\ UNCHANGED <<tableVars, managerVars, envVars, unmaps, held, zeroing, calls, crashes, bookVars>>

\* Everything of ETS runs on the main event runner, which never goes.
EtsOnEvents(t, n) ==
    /\ Sends(t, n, "ets", TRUE) /\ EventsFor(t, n) # {}
    /\ Sent(t, n)
    /\ Post(Main, Receive(t, n))
    /\ UNCHANGED <<tableVars, managerVars, envVars, unmaps, held, zeroing, calls, crashes, bookVars>>

EtsOnTrigger(t, n) ==
    /\ Sends(t, n, "ets", FALSE) /\ EventsFor(t, n) # {}
    /\ Sent(t, n)
    /\ Post(Main, Trigger(n))
    /\ UNCHANGED <<tableVars, managerVars, envVars, unmaps, held, zeroing, calls, crashes, bookVars>>

\* Called on the delivering thread; an allocation that fails drops the call.  No unmapping.
CjOnEvents(t, n) ==
    /\ Sends(t, n, "cj", TRUE) /\ EventsFor(t, n) # {}
    /\ Sent(t, n)
    /\ \/ GotGroups(CjEventGroups(EventsFor(t, n)), objs[n].seq) /\ UNCHANGED faults
       \/ Fault /\ UNCHANGED received
    /\ UNCHANGED <<tableVars, managerVars, envVars, taskVars, held, zeroing, calls, crashes,
                   owed, taken, repeated, lost, bare>>

\* The process ends, with whatever it holds in memory.
ProcessEnds ==
    /\ crashes < MaxCrashes
    /\ crashes' = crashes + 1
    /\ watchers' = [w \in Watchers |-> 0]
    /\ restored' = {w \in Watchers : rows[w] # 0}
    /\ objs' = <<>> /\ destroyed' = {} /\ records' = {} /\ hooked' = {} /\ deaf' = {}
    /\ envs' = [t \in Envs |-> [envs[t] EXCEPT !.there = TRUE, !.hook = FALSE]]
    /\ loop' = [t \in Envs |-> <<>>] /\ unmaps' = {}
    /\ th' = [t \in Threads |-> Idle]
    /\ held' = [t \in Envs |-> NoHolder]
    /\ zeroing' = {} /\ bare' = {}
    /\ lost' = lost \cup
            UNION {Pairs(th[t].events, objs[th[t].obj].row) : t \in {v \in Threads : th[v].pc = "call"}}
    /\ UNCHANGED <<tableVars, calls, faults, owed, received, taken, repeated>>

\* holder->GetID() before InitHolder dereferences a null pointer.
CjOnTrigger(t, n) ==
    /\ Sends(t, n, "cj", FALSE) /\ EventsFor(t, n) # {}
    /\ \/ /\ objs[n].holder = "set"
          /\ Sent(t, n)
          /\ UNCHANGED <<tableVars, managerVars, envVars, taskVars, held, zeroing, boundVars, bookVars>>
       \/ objs[n].holder # "set" /\ ProcessEnds

\* The mutex of an NDK watcher is held until its callback returns.
NdkBusy(n) == \E t \in Threads : th[t].pc = "call" /\ th[t].obj = n

\* DeleteData: sequence 0 leaves the observer out of the predicate.
Unmapped(s, E) == {p \in mapped : p[1] \in E /\ (s = 0 \/ p[2] = s)}

\* The events are unmapped, whether that succeeds or not, before the callback.
NdkOnEvents(t, n) ==
    LET E == EventsFor(t, n)
        gone == Unmapped(objs[n].seq, E) IN
    /\ Sends(t, n, "ndk", TRUE) /\ E # {}
    /\ ~NdkBusy(n)
    /\ \/ mapped' = mapped \ gone /\ UNCHANGED faults
       \/ Fault /\ UNCHANGED mapped
    /\ lost' = IF objs[n].seq = 0 THEN lost \cup gone ELSE lost
    /\ th' = [th EXCEPT ![t].pc = "call", ![t].obj = n]
    /\ UNCHANGED <<inserted, rows, lastSeq, managerVars, envVars, taskVars, held, zeroing, calls, crashes,
                   owed, received, taken, repeated, bare>>

NdkCallback(t) ==
    /\ th[t].pc = "call"
    /\ GotGroups(NdkEventGroups(EventsFor(t, th[t].obj)), objs[th[t].obj].row)
    /\ Sent(t, th[t].obj)
    /\ UNCHANGED <<tableVars, managerVars, envVars, taskVars, held, zeroing, boundVars,
                   owed, taken, repeated, lost, bare>>

NdkOnTrigger(t, n) ==
    /\ Sends(t, n, "ndk", FALSE) /\ EventsFor(t, n) # {}
    /\ ~NdkBusy(n)
    /\ Sent(t, n)
    /\ UNCHANGED <<tableVars, managerVars, envVars, taskVars, held, zeroing, boundVars, bookVars>>

--------------------------------------------------------------------------------
(* The tasks posted to an environment, and the ffrt queue.                               *)

\* Mutant: the events are unmapped whether or not the callback succeeded.
ReceiveThenForget(t) ==
    LET task == Head(loop[t]) IN
    /\ Free(t) /\ loop[t] # <<>> /\ task.what = "receive"
    /\ loop' = [loop EXCEPT ![t] = Tail(@)]
    /\ unmaps' = unmaps \cup {[seq |-> task.seq, events |-> task.events]}
    /\ \/ GotGroups({task.events}, task.seq) /\ UNCHANGED faults
       \/ Fault /\ UNCHANGED received
    /\ UNCHANGED <<tableVars, managerVars, envVars, th, held, zeroing, calls, crashes,
                   owed, taken, repeated, lost, bare>>

\* Mutant: no unmapping is submitted.
ReceiveOnly(t) ==
    LET task == Head(loop[t]) IN
    /\ Free(t) /\ loop[t] # <<>> /\ task.what = "receive"
    /\ loop' = [loop EXCEPT ![t] = Tail(@)]
    /\ GotGroups({task.events}, task.seq)
    /\ UNCHANGED <<tableVars, managerVars, envVars, unmaps, th, held, zeroing, boundVars,
                   owed, taken, repeated, lost, bare>>

\* onReceiveWork: a callback that throws leaves the events mapped.
CallOnReceive(t) ==
    LET task == Head(loop[t])
        groups == IF B(task.obj) = "js" THEN JsEventGroups(task.events)
                  ELSE EtsEventGroups(task.events) IN
    /\ Free(t) /\ loop[t] # <<>> /\ task.what = "receive"
    /\ loop' = [loop EXCEPT ![t] = Tail(@)]
    /\ \/ /\ GotGroups(groups, task.seq)
          /\ unmaps' = unmaps \cup {[seq |-> task.seq, events |-> task.events]}
          /\ UNCHANGED faults
       \/ Fault /\ UNCHANGED <<received, unmaps>>
    /\ UNCHANGED <<tableVars, managerVars, envVars, th, held, zeroing, calls, crashes,
                   owed, taken, repeated, lost, bare>>

\* onTriggerWork reads the holder from the context when it runs.
CallOnTrigger(t) ==
    LET task == Head(loop[t])
        holder == IF task.what = "captured" THEN task.holder ELSE objs[task.obj].holder IN
    /\ Free(t) /\ loop[t] # <<>> /\ task.what # "receive"
    /\ loop' = [loop EXCEPT ![t] = Tail(@)]
    /\ bare' = IF holder = "none" THEN bare \cup {task.obj} ELSE bare
    /\ UNCHANGED <<tableVars, managerVars, envVars, unmaps, th, held, zeroing, boundVars,
                   owed, received, taken, repeated, lost>>

DeleteEventMappingAsync(task) ==
    /\ task \in unmaps
    /\ unmaps' = unmaps \ {task}
    /\ \/ mapped' = mapped \ Unmapped(task.seq, task.events) /\ UNCHANGED faults
       \/ Fault /\ UNCHANGED mapped
    /\ UNCHANGED <<inserted, rows, lastSeq, managerVars, envVars, loop, th, held, zeroing, calls, crashes,
                   bookVars>>

--------------------------------------------------------------------------------
(* AddWatcher and RemoveWatcher.                                                         *)

Known(w) == watchers[w] # 0 \/ w \in restored
BeingAdded(w) == \E t \in Envs : th[t].obj # 0 /\ objs[th[t].obj].watcher = w

InsertObserver(w, r) == [rows EXCEPT ![w] = r]

\* The object is built; the manager gives it the row of its name, and the events stored for
\* it, or a new row.  A failure of the manager leaves the object to its destructor.
AddWatcher(t, w, receives) ==
    LET n == Len(objs) + 1
        old == {p[1] : p \in {q \in mapped : q[2] = rows[w]}}
        Object(s) == [watcher |-> w, receives |-> receives, env |-> t, gen |-> envs[t].gen,
                      row |-> s, seq |-> s, open |-> TRUE, holder |-> "none"] IN
    /\ Free(t)
    /\ t \in AddedBy[w]
    /\ calls < MaxCalls
    /\ ~BeingAdded(w)
    /\ (Known(w) <=> rows[w] # 0)
    /\ calls' = calls + 1
    /\ \/ /\ ~Known(w)
          /\ lastSeq' = lastSeq + 1
          /\ rows' = InsertObserver(w, lastSeq')
          /\ objs' = Append(objs, Object(lastSeq'))
          /\ th' = [th EXCEPT ![t] = [Idle EXCEPT !.pc = "publish", !.obj = n]]
          /\ UNCHANGED faults
       \/ /\ Known(w)
          /\ objs' = Append(objs, Object(rows[w]))
          /\ th' = [th EXCEPT ![t] = [pc |-> "send", obj |-> n, todo |-> {n}, events |-> old]]
          /\ UNCHANGED <<lastSeq, rows, faults>>
       \/ /\ Fault
          /\ objs' = Append(objs, Object(0))
          /\ UNCHANGED <<lastSeq, rows, th>>
    /\ UNCHANGED <<inserted, mapped, watchers, restored, destroyed, envVars, taskVars, held, zeroing,
                   crashes, bookVars>>

\* JavaScript throws for a timeout below 0, and adds the watcher without one.
JsRefuses == {"name", "filters", "callback"}

JsAddWatcher(t, w, receives) ==
    Binding[w] = "js" /\ Wrong[w] \notin JsRefuses /\ AddWatcher(t, w, receives)

EtsRefuses == {"name", "filters"}

EtsAddWatcher(t, w, receives) ==
    Binding[w] = "ets" /\ Wrong[w] \notin EtsRefuses \cup {"timeout"} /\ AddWatcher(t, w, receives)

CjRefuses == {"name", "filters", "timeout"}

CjAddWatcher(t, w, receives) ==
    Binding[w] = "cj" /\ Wrong[w] \notin CjRefuses /\ AddWatcher(t, w, receives)

\* The setters of an NDK watcher refuse for themselves; the watcher is added as they left it.
NdkAddWatcher(t, w, receives) ==
    Binding[w] = "ndk" /\ AddWatcher(t, w, receives)

Publish(t) ==
    LET n == th[t].obj
        next == IF B(n) = "ndk" THEN Idle
                ELSE [th[t] EXCEPT !.pc = IF B(n) = "js" THEN "record" ELSE "holder"] IN
    /\ th[t].pc = "publish"
    /\ watchers' = [watchers EXCEPT ![objs[n].watcher] = n]
    /\ restored' = restored \ {objs[n].watcher}
    /\ th' = [th EXCEPT ![t] = next]
    /\ UNCHANGED <<tableVars, objs, destroyed, envVars, taskVars, held, zeroing, boundVars, bookVars>>

\* The first record of an environment calls its cleanup hook; without one the next tries again.
AddEnvWatcherRecord(t) ==
    /\ th[t].pc = "record"
    /\ records' = records \cup {th[t].obj}
    /\ \/ t \in hooked /\ UNCHANGED <<hooked, envs, faults>>
       \/ /\ t \notin hooked
          /\ hooked' = hooked \cup {t}
          /\ envs' = [envs EXCEPT ![t].hook = TRUE]
          /\ UNCHANGED faults
       \/ t \notin hooked /\ Fault /\ UNCHANGED <<hooked, envs>>
    /\ Goto(t, "holder")
    /\ UNCHANGED <<tableVars, managerVars, deaf, taskVars, held, zeroing, calls, crashes, bookVars>>

\* Making a holder looks its sequence up by name: the constructor of JavaScript's is passed
\* the sequence and does not read it.
CreateHolder(t) ==
    LET n == th[t].obj
        s == rows[objs[n].watcher] IN
    /\ th[t].pc = "holder"
    /\ \/ /\ objs' = [objs EXCEPT ![n].holder = "set"]
          /\ held' = [held EXCEPT ![t] = [of |-> {objs[n].watcher}, seq |-> s]]
          /\ UNCHANGED faults
       \/ Fault /\ objs' = [objs EXCEPT ![n].holder = "null"] /\ UNCHANGED held
    /\ th' = [th EXCEPT ![t] = Idle]
    /\ UNCHANGED <<tableVars, watchers, restored, destroyed, envVars, taskVars, zeroing, calls, crashes,
                   bookVars>>

\* RemoveObserver erases the row, its mappings and the watcher; the NDK then sets its sequence
\* to 0, in a step of its own.
RemoveWatcher(w) ==
    LET s == IF watchers[w] # 0 THEN objs[watchers[w]].row ELSE rows[w] IN
    /\ Known(w)
    /\ rows' = [rows EXCEPT ![w] = 0]
    /\ mapped' = {p \in mapped : p[2] # s}
    /\ owed' = {p \in owed : p[2] # s}
    /\ watchers' = [watchers EXCEPT ![w] = 0]
    /\ restored' = restored \ {w}
    /\ zeroing' = IF watchers[w] # 0 /\ Binding[w] = "ndk" THEN zeroing \cup {watchers[w]} ELSE zeroing
    /\ UNCHANGED <<inserted, lastSeq, objs, destroyed, envVars, taskVars, th, held, boundVars,
                   received, taken, repeated, lost, bare>>

SetSeq0(n) ==
    /\ n \in zeroing
    /\ zeroing' = zeroing \ {n}
    /\ objs' = [objs EXCEPT ![n].seq = 0]
    /\ UNCHANGED <<tableVars, watchers, restored, destroyed, envVars, taskVars, th, held, boundVars, bookVars>>

\* watchers_, a list of observers or a call still holds the object.
Referenced(n) ==
    \/ n \in Live \cup zeroing
    \/ \E t \in Threads : n \in th[t].todo \/ n = th[t].obj

\* The last reference to a JavaScript object is gone: its destructor takes its record away.
RemoveEnvWatcherRecord(n) ==
    /\ n \in DOMAIN objs \ destroyed
    /\ B(n) = "js" /\ ~Referenced(n)
    /\ destroyed' = destroyed \cup {n}
    /\ records' = records \ {n}
    /\ UNCHANGED <<tableVars, watchers, restored, objs, hooked, envs, deaf, taskVars, th, held, zeroing,
                   boundVars, bookVars>>

--------------------------------------------------------------------------------
(* Environments.                                                                         *)

\* Mutant: the set of hooked environments keeps one that is gone.
KeepEnv(t) == UNCHANGED hooked

ForgetEnv(t) == hooked' = hooked \ {t}

\* OnEnvRemove: the watchers recorded for the environment lose their contexts.
OnEnvRemove(t) ==
    LET gone == {n \in records : objs[n].env = t} IN
    /\ objs' = [n \in DOMAIN objs |-> IF n \in gone THEN [objs[n] EXCEPT !.open = FALSE] ELSE objs[n]]
    /\ records' = records \ gone
    /\ ForgetEnv(t)

\* An environment goes, with its thread, the tasks posted to it and the hook, if it has one;
\* one that added no JavaScript watcher concerns nobody here.
EnvRemove(t) ==
    /\ t # Main
    /\ Free(t)
    /\ \E n \in DOMAIN objs : B(n) = "js" /\ EnvOf(n) = EnvIs(t)
    /\ envs' = [envs EXCEPT ![t].there = FALSE]
    /\ loop' = [loop EXCEPT ![t] = <<>>]
    /\ held' = [held EXCEPT ![t] = NoHolder]
    /\ IF envs[t].hook THEN OnEnvRemove(t) /\ UNCHANGED deaf
       ELSE /\ deaf' = IF t \in hooked THEN deaf ELSE deaf \cup {EnvIs(t)}
            /\ UNCHANGED <<objs, records, hooked>>
    /\ UNCHANGED <<tableVars, watchers, restored, destroyed, unmaps, th, zeroing, boundVars, bookVars>>

\* A new one may have the address of one that is gone.
EnvCreate(t) ==
    /\ ~envs[t].there
    /\ envs[t].gen < MaxEnvs
    /\ envs' = [envs EXCEPT ![t] = [gen |-> @.gen + 1, there |-> TRUE, hook |-> FALSE]]
    /\ UNCHANGED <<tableVars, managerVars, records, hooked, deaf, taskVars, th, held, zeroing, boundVars,
                   bookVars>>

--------------------------------------------------------------------------------
(* Holders.                                                                              *)

\* new AppEventPackageHolder(name), or the watcher an NDK application takes from.
NewHolder(t, w) ==
    /\ Free(t)
    /\ t \in AddedBy[w]
    /\ calls < MaxCalls
    /\ calls' = calls + 1
    /\ rows[w] # 0
    /\ held' = [held EXCEPT ![t] = [of |-> {w}, seq |-> rows[w]]]
    /\ UNCHANGED <<tableVars, managerVars, envVars, taskVars, th, zeroing, faults, crashes, bookVars>>

\* QueryEvents: the newest first, at most limit of them when it is not 0.
Newest(s, limit) ==
    LET E == {p[1] : p \in {q \in mapped : q[2] = s}} IN
    {e \in E : limit = 0 \/ Cardinality({f \in E : f > e}) < limit}

\* From the newest on, while the total stays within size; one that does not fit ends it.
Fitting(E, size) ==
    {e \in E : FoldSet(LAMBDA f, total : total + Sizes[f], 0, {f \in E : f >= e}) <= size}

JsTakeNext(s) ==
    IF TakeSize # 0 /\ TakeRow = 0 THEN Fitting(Newest(s, 0), TakeSize)
    ELSE Newest(s, IF TakeRow = 0 THEN DefaultRow ELSE TakeRow)

EtsTakeNext(s) == JsTakeNext(s)

\* Cangjie's has no rows: 512 KB, or the size set.
CjTakeNext(s) == IF TakeSize = 0 THEN Newest(s, 0) ELSE Fitting(Newest(s, 0), TakeSize)

NdkTakeWatcherData(s) == Newest(s, TakeRow)

PackageOf(w, s) ==
    CASE Binding[w] = "js"  -> JsTakeNext(s)
      [] Binding[w] = "ets" -> EtsTakeNext(s)
      [] Binding[w] = "cj"  -> CjTakeNext(s)
      [] Binding[w] = "ndk" -> NdkTakeWatcherData(s)

TakeNext(t) ==
    LET s == held[t].seq
        E == UNION {PackageOf(w, s) : w \in held[t].of} IN
    /\ Free(t)
    /\ E # {}
    /\ th' = [th EXCEPT ![t] = [Idle EXCEPT !.pc = "take", !.events = E]]
    /\ UNCHANGED <<tableVars, managerVars, envVars, taskVars, held, zeroing, boundVars, bookVars>>

Packaged(t) == {<<e, held[t].seq, t>> : e \in th[t].events}

\* Mutant: the package is returned even if the events could not be unmapped.
ReturnAnyway(t) ==
    /\ th[t].pc = "take"
    /\ \/ mapped' = mapped \ Pairs(th[t].events, held[t].seq) /\ UNCHANGED faults
       \/ Fault /\ UNCHANGED mapped
    /\ repeated' = repeated \cup (taken \cap Packaged(t))
    /\ taken' = taken \cup Packaged(t)
    /\ th' = [th EXCEPT ![t] = Idle]
    /\ UNCHANGED <<inserted, rows, lastSeq, managerVars, envVars, taskVars, held, zeroing,
                   calls, crashes, owed, received, lost, bare>>

\* The package is returned if its events could be unmapped.
ReturnPackage(t) ==
    /\ th[t].pc = "take"
    /\ \/ /\ mapped' = mapped \ Pairs(th[t].events, held[t].seq)
          /\ repeated' = repeated \cup (taken \cap Packaged(t))
          /\ taken' = taken \cup Packaged(t)
          /\ UNCHANGED faults
       \/ Fault /\ UNCHANGED <<mapped, repeated, taken>>
    /\ th' = [th EXCEPT ![t] = Idle]
    /\ UNCHANGED <<inserted, rows, lastSeq, managerVars, envVars, taskVars, held, zeroing,
                   calls, crashes, owed, received, lost, bare>>

--------------------------------------------------------------------------------

OnEvents(t, n) ==
    JsOnEvents(t, n) \/ EtsOnEvents(t, n) \/ CjOnEvents(t, n) \/ NdkOnEvents(t, n)

OnTrigger(t, n) ==
    JsOnTrigger(t, n) \/ EtsOnTrigger(t, n) \/ CjOnTrigger(t, n) \/ NdkOnTrigger(t, n)

ManagerStep(t) ==
    NdkCallback(t) \/ \E n \in DOMAIN objs : OnEvents(t, n) \/ OnTrigger(t, n) \/ SkipObserver(t, n)
LoopStep(t) == CallOnReceive(t) \/ CallOnTrigger(t)
CallStep(t) == Publish(t) \/ AddEnvWatcherRecord(t) \/ CreateHolder(t) \/ ReturnPackage(t)
QueueStep == \E task \in unmaps : DeleteEventMappingAsync(task)
Run ==
    \/ \E t \in Threads : ManagerStep(t)
    \/ \E t \in Envs : LoopStep(t) \/ CallStep(t)
    \/ QueueStep

Next ==
    \/ HandleEvents
    \/ Run
    \/ \E t \in Envs, w \in Watchers, receives \in BOOLEAN :
            \/ JsAddWatcher(t, w, receives) \/ EtsAddWatcher(t, w, receives)
            \/ CjAddWatcher(t, w, receives) \/ NdkAddWatcher(t, w, receives)
    \/ \E w \in Watchers : RemoveWatcher(w)
    \/ \E n \in DOMAIN objs : SetSeq0(n) \/ RemoveEnvWatcherRecord(n)
    \/ \E t \in Envs : EnvRemove(t) \/ EnvCreate(t)
    \/ \E t \in Envs, w \in Watchers : NewHolder(t, w)
    \/ \E t \in Envs : TakeNext(t)
    \/ ProcessEnds

\* Some thread with work goes on with it: a loop with the tasks posted to it, a call with what
\* it began, the ffrt queue with its tasks.  All of it is finite, so that nothing is left over.
Fairness == WF_vars(Run)

Spec == Init /\ [][Next]_vars /\ Fairness

--------------------------------------------------------------------------------
(* Properties.                                                                           *)

\* What no filter of a Cangjie watcher lets through once the names have run together.
Narrowed ==
    {p \in owed : \E w \in Watchers :
        Binding[w] = "cj" /\ rows[w] = p[2] /\ ~VerifyEvent(BuiltFilters(w), p[1])}

\* Every event the filters of a watcher ask for stays mapped to it until its callback took
\* it or a package carried it, through environments that go, callbacks that throw, tasks that
\* cannot be posted, re-registrations and restarts.  Exceptions: the Cangjie filters, and
\* what the NDK unmaps first, which a crash loses, or unmaps with the sequence 0 of a
\* watcher being removed, for every observer.
TakenOrMapped ==
    /\ TypeOK
    /\ \A p \in owed :
           \/ p \in mapped \cup received \cup lost \cup Narrowed
           \/ \E t \in Envs : <<p[1], p[2], t>> \in taken
           \/ \E t \in Threads : th[t].pc = "call" /\ p[1] \in th[t].events /\ p[2] = objs[th[t].obj].row

\* Whoever may still call a JavaScript watcher finds its environment there or its context
\* cleared, though a new environment may have the old one's address; and the records never
\* name a destroyed watcher.  Exception: an environment whose hook could not be added.
EnvsOfCallbacks ==
    /\ records \cap destroyed = {}
    /\ \A n \in DOMAIN objs \ destroyed :
            Referenced(n) /\ B(n) = "js" /\ objs[n].open =>
                \/ envs[objs[n].env].there /\ envs[objs[n].env].gen = objs[n].gen
                \/ EnvOf(n) \in deaf

\* onTrigger of a JavaScript watcher is passed its holder, even if the event came while
\* AddWatcher had published the watcher and not made the holder.
TriggeredWithHolder == \A n \in bare : B(n) # "js"

\* No event comes in two packages of one thread's holders.
PackagesAreDisjoint == repeated = {}

\* An event posted to the loop of an environment is unmapped in the end, if nothing fails and
\* no environment goes: its callback runs, behind whatever else the loop has to do, and the
\* unmapping after it.
PostedIsUnmapped ==
    \A p \in Events \X Seqs :
        (\E t \in Envs : \E i \in DOMAIN loop[t] : p \in Pairs(loop[t][i].events, loop[t][i].seq))
            ~> \/ p \notin mapped
               \/ faults > 0 \/ crashes > 0
               \/ \E t \in Envs : ~envs[t].there \/ envs[t].gen > 1
================================================================================
