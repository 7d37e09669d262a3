---------------------------- MODULE Watchers_proofs ----------------------------
(* Machine-checked proofs about Watchers, for any watchers, filters, events,    *)
(* environments and bounds.                                                     *)
EXTENDS Watchers, TLAPS

--------------------------------------------------------------------------------
(* Types.                                                                       *)

Pcs == {"idle", "send", "call", "publish", "record", "holder", "take"}
ThreadRecords ==
    [pc : Pcs, obj : 0..MaxCalls, todo : SUBSET Objects, events : SUBSET Events]
ObjectRecords ==
    [watcher : Watchers, receives : BOOLEAN, env : Envs, gen : 1..MaxEnvs,
     row : 0..MaxCalls, seq : 0..MaxCalls, open : BOOLEAN, holder : {"none", "null", "set"}]
TaskRecords ==
    [what : {"receive", "trigger"}, obj : Objects, seq : 0..MaxCalls, events : SUBSET Events,
     holder : {"none"}]
Tasks(t) == {loop[t][i] : i \in DOMAIN loop[t]}

TablesOK ==
    /\ inserted \in 0..Len(Attributes) /\ mapped \subseteq (1..inserted) \X Seqs
    /\ rows \in [Watchers -> 0..MaxCalls] /\ lastSeq \in 0..MaxCalls
    /\ {owed, received, lost} \subseteq SUBSET (Events \X Seqs)
    /\ {calls, faults, crashes} \subseteq Nat /\ calls <= MaxCalls /\ lastSeq <= calls
    /\ unmaps \subseteq [seq : Seqs, events : SUBSET Events]

MemoryOK ==
    /\ objs \in Seq(ObjectRecords) /\ Len(objs) <= calls
    /\ watchers \in [Watchers -> 0..Len(objs)] /\ restored \subseteq Watchers
    /\ destroyed \subseteq DOMAIN objs /\ records \subseteq DOMAIN objs
    /\ zeroing \subseteq DOMAIN objs /\ bare \subseteq DOMAIN objs
    /\ hooked \subseteq Envs
    /\ envs \in [Envs -> [gen : 1..MaxEnvs, there : BOOLEAN, hook : BOOLEAN]]
    /\ th \in [Threads -> ThreadRecords]
    /\ held \in [Envs -> [of : SUBSET Watchers, seq : 0..MaxCalls]]
    /\ loop \in [Envs -> Seq(TaskRecords)]

--------------------------------------------------------------------------------
(* Objects and environments.                                                    *)

\* A thread that adds a watcher has its object to itself until it is published, and the
\* environment does not go meanwhile; the thread that handles events has a list of objects.
PlaceOK(t) ==
    LET c == th[t] IN
    /\ c.obj # 0 => c.obj \in DOMAIN objs
    /\ c.pc = "call" => c.obj # 0 /\ B(c.obj) = "ndk" /\ c.obj \in c.todo
    /\ IF t = Io
       THEN c.pc \in {"idle", "send", "call"} /\ (c.pc # "call" => c.obj = 0)
       ELSE /\ c.pc \in {"idle", "take"} <=> c.obj = 0
            /\ c.todo = IF c.pc \in {"send", "call"} THEN {c.obj} ELSE {}
            /\ c.pc \in {"record", "holder"} => B(c.obj) # "ndk"
            /\ c.obj # 0 => envs[t].there /\ EnvOf(c.obj) = EnvIs(t)

Unpublished(t) == th[t].obj # 0 /\ th[t].pc \in {"send", "call", "publish"}

\* A name is added by one thread at a time, and what watchers_ has of it agrees with its row.
NamesOK ==
    /\ \A t, u \in Envs : th[t].obj # 0 /\ th[u].obj # 0 /\ t # u =>
            objs[th[t].obj].watcher # objs[th[u].obj].watcher
    /\ \A t \in Envs : Unpublished(t) =>
            /\ th[t].obj \notin Live \cup zeroing
            /\ objs[th[t].obj].seq = objs[th[t].obj].row
            /\ rows[objs[th[t].obj].watcher] \in {0, objs[th[t].obj].row}
    /\ \A w \in Watchers : watchers[w] # 0 =>
            /\ objs[watchers[w]].watcher = w /\ watchers[w] \notin zeroing
            /\ objs[watchers[w]].seq = objs[watchers[w]].row
            /\ rows[w] \in {0, objs[watchers[w]].row}
    /\ \A w \in restored : rows[w] # 0 /\ watchers[w] = 0

HooksOK == \A t \in Envs : t \in hooked <=> envs[t].hook /\ envs[t].there

\* An object somebody may still call has its sequence, which only the NDK sets to 0; it has a
\* holder as soon as the thread that adds it is done; and if it is JavaScript's and its context
\* is not cleared, its environment is there and knows it, or will when it is recorded.
SeqOK(n) ==
    /\ objs[n].row # 0
    /\ objs[n].seq = objs[n].row \/ (B(n) = "ndk" /\ objs[n].seq = 0)
    /\ n \in zeroing => B(n) = "ndk"

HolderOK(n) ==
    B(n) # "ndk" /\ objs[n].holder = "none" => th[objs[n].env].obj = n

EnvOK(n) ==
    B(n) = "js" /\ objs[n].open =>
        \/ EnvOf(n) \in deaf
        \/ /\ EnvOf(n) = EnvIs(objs[n].env) /\ envs[objs[n].env].there
           /\ n \in records \/ (th[objs[n].env].obj = n /\ th[objs[n].env].pc # "holder")

RefsOK ==
    /\ records \cap destroyed = {}
    /\ \A n : n # 0 /\ Referenced(n) =>
            n \in DOMAIN objs \ destroyed /\ SeqOK(n) /\ HolderOK(n) /\ EnvOK(n)

\* A trigger that waits for JavaScript's thread finds a holder, or the thread is making it.
TaskOK(t, k) ==
    /\ k.obj \in DOMAIN objs
    /\ k.what = "receive" => k.seq # 0
    /\ k.what = "trigger" /\ B(k.obj) = "js" =>
            objs[k.obj].holder # "none" \/ th[t].obj = k.obj

TasksOK ==
    /\ \A t \in Envs : \A k \in Tasks(t) : TaskOK(t, k)
    /\ \A n \in bare : B(n) # "js"

--------------------------------------------------------------------------------
(* Events.                                                                      *)

\* What has been taken is not mapped any more, and what a thread is about to return it has
\* not returned before.
TakenOK ==
    /\ repeated = {}
    /\ \A e, s, t : <<e, s, t>> \in taken => e \in 1..inserted /\ <<e, s>> \notin mapped
    /\ \A t \in Envs : th[t].pc = "take" =>
            th[t].events \subseteq 1..inserted /\ Packaged(t) \cap taken = {}

\* What will be unmapped has been received.
UnmapsOK == \A k \in unmaps : Pairs(k.events, k.seq) \subseteq received

Called(p) ==
    \E t \in Threads :
        th[t].pc = "call" /\ p[1] \in EventsFor(t, th[t].obj) /\ p[2] = objs[th[t].obj].row

OwedOK ==
    \A p \in owed :
        \/ p \in mapped \cup received \cup lost \cup Narrowed
        \/ \E t \in Envs : <<p[1], p[2], t>> \in taken
        \/ Called(p)

ObjectsOK == (\A t \in Threads : PlaceOK(t)) /\ NamesOK /\ HooksOK /\ RefsOK
EventsOK == TakenOK /\ UnmapsOK /\ OwedOK

IInv == TablesOK /\ MemoryOK /\ ObjectsOK /\ TasksOK /\ EventsOK

--------------------------------------------------------------------------------
(* Filters, groups and packages.                                                *)

\* What a filter of the application lets through, the filters three bindings make of it do.
LEMMA FiltersWiden ==
    ASSUME NEW w \in Watchers, Binding[w] # "cj", NEW e \in Events, VerifyEvent(Filters[w], e)
    PROVE  VerifyEvent(BuiltFilters(w), e)
<1>1. PICK F : F = BuiltFilters(w)
  OBVIOUS
<1>2. Binding[w] \in {"js", "ets", "ndk"}
  BY WatchersAssumption
<1>3. /\ \A i \in DOMAIN Filters[w] : F[i] = CASE Binding[w] = "js" -> JsFilter(Filters[w][i])
                                             [] Binding[w] = "ets" -> EtsFilter(Filters[w][i])
                                             [] OTHER -> NdkFilter(Filters[w][i])
      /\ DOMAIN F = DOMAIN Filters[w]
      /\ F = [i \in DOMAIN Filters[w] |-> F[i]]
  <2>1. CASE Binding[w] = "js"
    BY <1>1, <2>1 DEF BuiltFilters
  <2>2. CASE Binding[w] = "ets"
    BY <1>1, <2>2 DEF BuiltFilters
  <2>3. CASE Binding[w] = "ndk"
    BY <1>1, <2>3 DEF BuiltFilters
  <2> QED
    BY <1>2, <2>1, <2>2, <2>3
<1>4. CASE Filters[w] = <<>>
  <2>1. DOMAIN F = {}
    BY <1>3, <1>4
  <2>2. F = <<>>
    BY <1>3, <2>1
  <2> QED
    BY <1>1, <2>2 DEF VerifyEvent
<1>5. ASSUME NEW i \in DOMAIN Filters[w], IsValidEvent(Filters[w][i], e)
      PROVE  IsValidEvent(F[i], e)
  <2>1. PICK f : f = Filters[w][i] /\ f = [names |-> f.names, types |-> f.types]
    BY FiltersAssumption
  <2>2. Attributes[e].type \in 1..4 /\ 1..4 \subseteq AllTypes
    BY FiltersAssumption DEF AllTypes
  <2>3. CASE Binding[w] = "js"
    <3>1. PICK g : g = [names |-> f.names, types |-> f.types \cap 1..4]
      OBVIOUS
    <3>2. g = [f EXCEPT !.types = @ \cap 1..4] /\ g.names = f.names /\ g.types = f.types \cap 1..4
      BY <2>1, <3>1
    <3>3. F[i] = EveryTypeIfNone(g)
      BY <1>3, <2>1, <2>3, <3>2 DEF JsFilter
    <3>4. CASE g.types = {}
      <4>1. F[i].names = f.names /\ F[i].types = AllTypes
        BY <3>1, <3>2, <3>3, <3>4 DEF EveryTypeIfNone
      <4> QED
        BY <1>5, <2>1, <2>2, <4>1 DEF IsValidEvent
    <3>5. CASE g.types # {}
      <4>1. F[i] = g
        BY <3>3, <3>5 DEF EveryTypeIfNone
      <4> QED
        BY <1>5, <2>1, <2>2, <3>2, <3>5, <4>1 DEF IsValidEvent
    <3> QED
      BY <3>4, <3>5
  <2>4. CASE Binding[w] = "ets"
    <3>1. F[i] = EveryTypeIfNone(f)
      BY <1>3, <2>1, <2>4 DEF EtsFilter
    <3>2. F[i].names = f.names /\ (F[i].types = f.types \/ F[i].types = AllTypes)
      BY <2>1, <3>1 DEF EveryTypeIfNone
    <3> QED
      BY <1>5, <2>1, <2>2, <3>2 DEF IsValidEvent
  <2>5. CASE Binding[w] = "ndk"
    BY <1>3, <1>5, <2>5 DEF NdkFilter
  <2> QED
    BY <1>2, <2>3, <2>4, <2>5
<1> QED
  BY <1>1, <1>3, <1>4, <1>5 DEF VerifyEvent

LEMMA GroupsCover == ASSUME NEW E PROVE UNION ByName(E) = E
BY DEF ByName

\* A package comes from the mapping.
LEMMA PackageIsMapped ==
    ASSUME NEW w, Binding[w] \in {"js", "ets", "cj", "ndk"}, NEW s, NEW e \in PackageOf(w, s)
    PROVE  \E p \in mapped : p[1] = e /\ p[2] = s
<1>1. ASSUME NEW limit, NEW f \in Newest(s, limit) PROVE \E p \in mapped : p[1] = f /\ p[2] = s
  BY <1>1 DEF Newest
<1>2. ASSUME NEW E, NEW size PROVE Fitting(E, size) \subseteq E
  BY DEF Fitting
<1>3. \E limit : PackageOf(w, s) \subseteq Newest(s, limit)
  <2>1. \E limit : JsTakeNext(s) \subseteq Newest(s, limit)
    BY <1>2 DEF JsTakeNext
  <2>2. \E limit : EtsTakeNext(s) \subseteq Newest(s, limit)
    BY <2>1 DEF EtsTakeNext
  <2>3. \E limit : CjTakeNext(s) \subseteq Newest(s, limit)
    BY <1>2 DEF CjTakeNext
  <2>4. \E limit : NdkTakeWatcherData(s) \subseteq Newest(s, limit)
    BY DEF NdkTakeWatcherData
  <2> QED
    BY <2>1, <2>2, <2>3, <2>4 DEF PackageOf
<1> QED
  BY <1>1, <1>3

--------------------------------------------------------------------------------
(* Facts used everywhere.                                                       *)

LEMMA Constants ==
    /\ MaxCalls \in Nat /\ MaxFaults \in Nat /\ MaxCrashes \in Nat /\ MaxEnvs \in Nat /\ MaxEnvs > 0
    /\ Len(Attributes) \in Nat /\ Main \in Envs /\ Io \notin Envs
    /\ \A w \in Watchers : Binding[w] \in {"js", "ets", "cj", "ndk"}
    /\ 0 \notin Objects /\ 0 \notin Seqs /\ Objects \subseteq 0..MaxCalls
BY WatchersAssumption, FiltersAssumption DEF Objects, Seqs

LEMMA MappedFacts == ASSUME TablesOK PROVE mapped \subseteq Events \X Seqs
BY Constants DEF TablesOK, Events

LEMMA IdleFacts ==
    /\ Idle \in ThreadRecords
    /\ Idle.pc = "idle" /\ Idle.obj = 0 /\ Idle.todo = {} /\ Idle.events = {}
BY Constants DEF Idle, ThreadRecords, Pcs

LEMMA ObjectFacts ==
    ASSUME MemoryOK, TablesOK
    PROVE  /\ Len(objs) \in Nat /\ Len(objs) <= MaxCalls /\ DOMAIN objs = 1..Len(objs)
           /\ DOMAIN objs \subseteq Objects /\ 0 \notin DOMAIN objs
           /\ Live \subseteq DOMAIN objs
           /\ \A n \in DOMAIN objs : objs[n] \in ObjectRecords /\ B(n) \in {"js", "ets", "cj", "ndk"}
           /\ \A t \in Threads : th[t] \in ThreadRecords
<1>1. Len(objs) \in Nat /\ Len(objs) <= MaxCalls /\ DOMAIN objs = 1..Len(objs)
  BY Constants DEF MemoryOK, TablesOK
<1>2. Live \subseteq DOMAIN objs
  BY <1>1 DEF Live, MemoryOK
<1>3. \A n \in DOMAIN objs : objs[n] \in ObjectRecords
  BY DEF MemoryOK
<1>4. \A n \in DOMAIN objs : B(n) \in {"js", "ets", "cj", "ndk"}
  BY <1>3, Constants DEF B, ObjectRecords
<1> QED
  BY <1>1, <1>2, <1>3, <1>4, Constants DEF Objects, MemoryOK

LEMMA InvParts ==
    ASSUME IInv
    PROVE  /\ TablesOK /\ MemoryOK /\ ObjectsOK /\ TasksOK /\ EventsOK
           /\ NamesOK /\ HooksOK /\ RefsOK /\ TakenOK /\ UnmapsOK /\ OwedOK
           /\ \A t \in Threads : PlaceOK(t) /\ th[t] \in ThreadRecords
BY DEF IInv, ObjectsOK, EventsOK, MemoryOK

\* Who is in a list, or published, or being added, is referenced.
LEMMA RefFacts ==
    ASSUME IInv
    PROVE  /\ \A n \in Live \cup zeroing : n # 0 /\ Referenced(n)
           /\ \A t \in Threads : \A n \in th[t].todo : n # 0 /\ Referenced(n)
           /\ \A t \in Threads : Referenced(th[t].obj)
<1>1. 0 \notin Live \cup zeroing
  BY InvParts, ObjectFacts DEF MemoryOK
<1>2. \A t \in Threads : 0 \notin th[t].todo
  BY InvParts, Constants DEF ThreadRecords
<1> QED
  BY <1>1, <1>2 DEF Referenced

LEMMA MappableFacts ==
    ASSUME IInv, NEW k \in Mappable
    PROVE  /\ k[1] \in Watchers /\ k[2] \in 0..MaxCalls
           /\ k[2] = rows[k[1]] => k[2] # 0
<1>0. TablesOK /\ MemoryOK /\ NamesOK /\ RefsOK
  BY InvParts
<1>1. CASE \E w \in restored : k = <<w, rows[w]>>
  BY <1>0, <1>1 DEF NamesOK, TablesOK, MemoryOK
<1>2. CASE \E n \in Live : k = <<objs[n].watcher, objs[n].seq>>
  <2>1. PICK w \in Watchers : watchers[w] # 0 /\ k = <<objs[watchers[w]].watcher, objs[watchers[w]].seq>>
    BY <1>2 DEF Live
  <2>2. watchers[w] \in Live
    BY <2>1 DEF Live
  <2>3. objs[watchers[w]] \in ObjectRecords
    BY <1>0, <2>2, ObjectFacts
  <2>4. objs[watchers[w]].seq # 0
    BY <1>0, <2>1, <2>2, RefFacts DEF NamesOK, RefsOK, SeqOK
  <2> QED
    BY <2>1, <2>3, <2>4 DEF ObjectRecords
<1> QED
  BY <1>1, <1>2 DEF Mappable

OthersStay(t) == \A u \in Threads \ {t} : th'[u] = th[u]

\* How the thread goes on that has passed an object its events.
SentTo(t, d) ==
    /\ d \in ThreadRecords /\ th' = [th EXCEPT ![t] = d] /\ th'[t] = d /\ OthersStay(t)
    /\ d.todo \subseteq th[t].todo
    /\ t \in Envs => d.pc = "publish" /\ d.obj = th[t].obj /\ d.todo = {} /\ d.events = {}
    /\ t = Io => d.pc \in {"idle", "send"} /\ d.obj = 0 /\ d.events \subseteq th[t].events

LEMMA SentFacts ==
    ASSUME IInv, NEW t \in Threads, NEW n \in th[t].todo, Sent(t, n), th[t].pc \in {"send", "call"}
    PROVE  \E d : SentTo(t, d)
<1>0. /\ th \in [Threads -> ThreadRecords] /\ PlaceOK(t) /\ th[t] \in ThreadRecords
      /\ Threads = Envs \cup {Io}
  BY InvParts DEF MemoryOK, Threads
<1>a. PICK X : X = IF t # Io THEN [Idle EXCEPT !.pc = "publish", !.obj = n]
                   ELSE IF th[t].todo = {n} THEN Idle
                   ELSE [th[t] EXCEPT !.pc = "send", !.obj = 0, !.todo = th[t].todo \ {n}]
  OBVIOUS
<1>b. th' = [th EXCEPT ![t] = X]
  BY <1>a DEF Sent
<1>c. ASSUME X \in ThreadRecords PROVE th'[t] = X /\ OthersStay(t)
  BY <1>0, <1>b DEF OthersStay
<1>1. CASE t # Io
  <2>1. n = th[t].obj /\ t \in Envs /\ n \in 0..MaxCalls
    BY <1>0, <1>1 DEF PlaceOK, ThreadRecords
  <2>a. X = [Idle EXCEPT !.pc = "publish", !.obj = n]
    BY <1>a, <1>1
  <2>2. X = [pc |-> "publish", obj |-> n, todo |-> {}, events |-> {}]
    BY <2>a DEF Idle
  <2>3. /\ X \in ThreadRecords /\ X.pc = "publish" /\ X.obj = n /\ X.todo = {} /\ X.events = {}
    BY <2>1, <2>2 DEF ThreadRecords, Pcs
  <2> QED
    BY <1>b, <1>c, <1>1, <2>1, <2>3 DEF SentTo
<1>2. CASE t = Io /\ th[t].todo = {n}
  <2>1. X = Idle
    BY <1>a, <1>2
  <2> QED
    BY <1>b, <1>c, <1>2, <2>1, IdleFacts, Constants DEF SentTo
<1>3. CASE t = Io /\ th[t].todo # {n}
  <2>1. X = [th[t] EXCEPT !.pc = "send", !.obj = 0, !.todo = th[t].todo \ {n}]
    BY <1>a, <1>3
  <2>2. PICK c \in ThreadRecords : c = th[t]
    BY <1>0
  <2>3. X = [pc |-> "send", obj |-> 0, todo |-> c.todo \ {n}, events |-> c.events]
    BY <2>1, <2>2 DEF ThreadRecords
  <2>4. X \in ThreadRecords
    BY <2>2, <2>3, Constants DEF ThreadRecords, Pcs
  <2>5. X.pc = "send" /\ X.obj = 0 /\ X.todo = th[t].todo \ {n} /\ X.events = th[t].events
    BY <2>2, <2>3
  <2> QED
    BY <1>b, <1>c, <1>3, <2>4, <2>5, Constants DEF SentTo
<1> QED
  BY <1>1, <1>2, <1>3

\* A task is added at the end, or the first one is taken off.
LEMMA TasksAppended ==
    ASSUME MemoryOK, NEW v \in Envs, NEW k \in TaskRecords, loop' = [loop EXCEPT ![v] = Append(@, k)]
    PROVE  /\ loop' \in [Envs -> Seq(TaskRecords)]
           /\ \A t \in Envs : Tasks(t)' \subseteq Tasks(t) \cup (IF t = v THEN {k} ELSE {})
<1>0. loop \in [Envs -> Seq(TaskRecords)]
  BY DEF MemoryOK
<1>1. PICK s : s = loop[v] /\ s \in Seq(TaskRecords)
  BY <1>0
<1>a. Append(s, k) \in Seq(TaskRecords)
  BY <1>1
<1>2. PICK r : r = Append(s, k) /\ r \in Seq(TaskRecords)
  BY <1>a
<1>3. \A i \in DOMAIN r : r[i] = k \/ (i \in DOMAIN s /\ r[i] = s[i])
  BY <1>1, <1>2
<1>4. loop' = [loop EXCEPT ![v] = r]
  BY <1>1, <1>2
<1>5. loop' \in [Envs -> Seq(TaskRecords)] /\ loop'[v] = r /\ \A t \in Envs \ {v} : loop'[t] = loop[t]
  BY <1>0, <1>2, <1>4
<1>6. \A t \in Envs : Tasks(t)' \subseteq Tasks(t) \cup (IF t = v THEN {k} ELSE {})
  BY <1>1, <1>3, <1>5 DEF Tasks
<1> QED
  BY <1>5, <1>6

LEMMA TasksTaken ==
    ASSUME MemoryOK, NEW v \in Envs, loop[v] # <<>>, loop' = [loop EXCEPT ![v] = Tail(@)]
    PROVE  /\ loop' \in [Envs -> Seq(TaskRecords)]
           /\ Head(loop[v]) \in Tasks(v)
           /\ \A t \in Envs : Tasks(t)' \subseteq Tasks(t)
<1>0. loop \in [Envs -> Seq(TaskRecords)]
  BY DEF MemoryOK
<1>1. PICK s : s = loop[v] /\ s \in Seq(TaskRecords) /\ s # <<>>
  BY <1>0
<1>a. Tail(s) \in Seq(TaskRecords)
  BY <1>1
<1>2. PICK r : r = Tail(s) /\ r \in Seq(TaskRecords)
  BY <1>a
<1>3. 1 \in DOMAIN s /\ Head(s) = s[1] /\ \A i \in DOMAIN r : i + 1 \in DOMAIN s /\ r[i] = s[i + 1]
  BY <1>1, <1>2
<1>4. loop' = [loop EXCEPT ![v] = r]
  BY <1>1, <1>2
<1>5. loop' \in [Envs -> Seq(TaskRecords)] /\ loop'[v] = r /\ \A t \in Envs \ {v} : loop'[t] = loop[t]
  BY <1>0, <1>2, <1>4
<1>6. \A t \in Envs : Tasks(t)' \subseteq Tasks(t)
  BY <1>1, <1>3, <1>5 DEF Tasks
<1>7. Head(loop[v]) \in Tasks(v)
  BY <1>1, <1>3 DEF Tasks
<1> QED
  BY <1>5, <1>6, <1>7

--------------------------------------------------------------------------------
(* What a step leaves as it was.                                                *)

LEMMA ThreadSet ==
    ASSUME MemoryOK, NEW t \in Threads, NEW d \in ThreadRecords, th' = [th EXCEPT ![t] = d]
    PROVE  th' \in [Threads -> ThreadRecords] /\ th'[t] = d /\ OthersStay(t)
BY DEF MemoryOK, OthersStay

\* Thread u goes on with the objects it has, or with a list of those published.
Adding == {"send", "call", "publish"}
Moves(u) ==
    /\ th'[u].todo \subseteq th[u].todo \cup Live
    /\ th'[u].obj \in th[u].todo \cup {0, th[u].obj}
    /\ u \in Envs =>
            /\ th'[u].obj = th[u].obj
            /\ th'[u].pc \in Adding => th[u].pc \in Adding
            /\ th'[u].pc = "holder" => th[u].pc = "holder"

LEMMA ObjectsStay ==
    ASSUME IInv, UNCHANGED <<rows, managerVars, envVars, zeroing>>,
           \A u \in Threads : Moves(u) /\ PlaceOK(u)'
    PROVE  ObjectsOK'
<1>0. /\ NamesOK /\ HooksOK /\ RefsOK /\ MemoryOK /\ TablesOK /\ Threads = Envs \cup {Io}
      /\ UNCHANGED <<rows, watchers, restored, objs, destroyed, records, hooked, envs, deaf, zeroing>>
  BY InvParts DEF Threads, managerVars, envVars
<1>1. Live' = Live /\ \A n : B(n)' = B(n) /\ EnvOf(n)' = EnvOf(n)
  BY <1>0 DEF Live, B, EnvOf
<1>2. \A u \in Envs : th'[u].obj = th[u].obj /\ (Unpublished(u)' => Unpublished(u))
  BY <1>0 DEF Moves, Unpublished, Adding
<1>3. NamesOK'
  <2>1. \A t, u \in Envs : th'[t].obj # 0 /\ th'[u].obj # 0 /\ t # u =>
            objs'[th'[t].obj].watcher # objs'[th'[u].obj].watcher
    BY <1>0, <1>2 DEF NamesOK
  <2>2. \A t \in Envs : Unpublished(t)' =>
            /\ th'[t].obj \notin Live' \cup zeroing'
            /\ objs'[th'[t].obj].seq = objs'[th'[t].obj].row
            /\ rows'[objs'[th'[t].obj].watcher] \in {0, objs'[th'[t].obj].row}
    BY <1>0, <1>1, <1>2 DEF NamesOK
  <2> QED
    BY <1>0, <2>1, <2>2 DEF NamesOK
<1>4. HooksOK'
  BY <1>0 DEF HooksOK
<1>5. ASSUME NEW n, n # 0, Referenced(n)' PROVE Referenced(n)
  BY <1>0, <1>1, <1>5 DEF Referenced, Moves
<1>6. RefsOK'
  <2> SUFFICES ASSUME NEW n, n # 0, Referenced(n)'
               PROVE  n \in DOMAIN objs' \ destroyed' /\ SeqOK(n)' /\ HolderOK(n)' /\ EnvOK(n)'
    BY <1>0 DEF RefsOK
  <2>1. n \in DOMAIN objs \ destroyed /\ SeqOK(n) /\ HolderOK(n) /\ EnvOK(n)
    BY <1>0, <1>5 DEF RefsOK
  <2>2. objs[n].env \in Envs
    BY <1>0, <2>1, ObjectFacts DEF ObjectRecords
  <2>3. SeqOK(n)'
    BY <1>0, <1>1, <2>1 DEF SeqOK
  <2>4. HolderOK(n)'
    BY <1>0, <1>1, <1>2, <2>1, <2>2 DEF HolderOK
  <2>5. EnvIs(objs[n].env)' = EnvIs(objs[n].env)
    BY <1>0 DEF EnvIs
  <2>6. EnvOK(n)'
    BY <1>0, <1>1, <1>2, <2>1, <2>2, <2>5 DEF EnvOK, Moves
  <2> QED
    BY <1>0, <2>1, <2>3, <2>4, <2>6
<1> QED
  BY <1>3, <1>4, <1>6 DEF ObjectsOK

\* A thread that stays where it is.
LEMMA Stays ==
    ASSUME IInv, NEW u \in Threads, th'[u] = th[u]
    PROVE  Moves(u)
BY DEF Moves

LEMMA PlaceStays ==
    ASSUME NEW u \in Threads, PlaceOK(u), th'[u] = th[u], objs' = objs, envs' = envs
    PROVE  PlaceOK(u)'
<1>1. B(th[u].obj)' = B(th[u].obj) /\ EnvOf(th[u].obj)' = EnvOf(th[u].obj) /\ EnvIs(u)' = EnvIs(u)
  BY DEF B, EnvOf, EnvIs
<1> QED
  BY <1>1 DEF PlaceOK

\* Objects keep what they are, and a holder once they have it.
ObjectsGrow ==
    /\ DOMAIN objs \subseteq DOMAIN objs'
    /\ \A n \in DOMAIN objs : B(n)' = B(n) /\ (objs[n].holder # "none" => objs'[n].holder # "none")

LEMMA TasksStay ==
    ASSUME IInv, ObjectsGrow,
           \A t \in Envs : \/ th[t].obj \in {0, th'[t].obj}
                           \/ B(th[t].obj) # "js"
                           \/ objs'[th[t].obj].holder # "none",
           \A t \in Envs : \A k \in Tasks(t)' : k \in Tasks(t) \/ TaskOK(t, k)',
           \A n \in bare' : n \in bare \/ B(n)' # "js"
    PROVE  TasksOK'
<1>0. TasksOK /\ MemoryOK /\ 0 \notin DOMAIN objs
  BY InvParts, ObjectFacts
<1>1. ASSUME NEW t \in Envs, NEW k \in Tasks(t)' PROVE TaskOK(t, k)'
  <2> SUFFICES ASSUME k \in Tasks(t) PROVE TaskOK(t, k)'
    BY <1>1
  <2>1. TaskOK(t, k)
    BY <1>0 DEF TasksOK
  <2> QED
    BY <1>0, <2>1 DEF TaskOK, ObjectsGrow
<1>2. \A n \in bare' : B(n)' # "js"
  BY <1>0 DEF TasksOK, ObjectsGrow, MemoryOK
<1> QED
  BY <1>1, <1>2 DEF TasksOK

\* Events move from the mapping to where the history has them.
LEMMA EventsStay ==
    ASSUME IInv, UNCHANGED <<inserted, owed, taken, repeated>>, mapped' \subseteq mapped,
           \A w \in Watchers : rows[w] # 0 => rows'[w] = rows[w],
           received \subseteq received', lost \subseteq lost',
           \A p \in mapped \ mapped' : p \in received' \cup lost' \/ Called(p)',
           \A p \in owed : Called(p) => Called(p)' \/ p \in received',
           \A k \in unmaps' : k \in unmaps \/ Pairs(k.events, k.seq) \subseteq received',
           \A u \in Envs : th'[u].pc = "take" => th'[u] = th[u] /\ held'[u] = held[u]
    PROVE  EventsOK'
<1>0. TablesOK /\ TakenOK /\ UnmapsOK /\ OwedOK
  BY InvParts
<1>1. TakenOK'
  <2>1. \A t \in Envs : th'[t].pc = "take" => Packaged(t)' = Packaged(t)
    BY DEF Packaged
  <2> QED
    BY <1>0, <2>1 DEF TakenOK
<1>2. UnmapsOK'
  BY <1>0 DEF UnmapsOK, Pairs
<1>3. \A p \in Narrowed : p \in Narrowed'
  <2> SUFFICES ASSUME NEW p \in Narrowed PROVE p \in Narrowed'
    OBVIOUS
  <2>1. PICK w \in Watchers : /\ Binding[w] = "cj" /\ rows[w] = p[2]
                              /\ ~VerifyEvent(BuiltFilters(w), p[1])
    BY DEF Narrowed
  <2>2. p[2] # 0 /\ p \in owed
    BY <1>0 DEF Narrowed, TablesOK, Seqs
  <2> QED
    BY <2>1, <2>2 DEF Narrowed
<1>4. OwedOK'
  BY <1>0, <1>3 DEF OwedOK
<1> QED
  BY <1>1, <1>2, <1>4 DEF EventsOK

\* Calls stay when their threads and what they call do.
LEMMA CalledStays ==
    ASSUME NEW p, NEW u \in Threads, th[u].pc = "call", th'[u] = th[u],
           p[1] \in EventsFor(u, th[u].obj), p[2] = objs[th[u].obj].row,
           objs'[th[u].obj].row = objs[th[u].obj].row,
           objs'[th[u].obj].watcher = objs[th[u].obj].watcher
    PROVE  Called(p)'
BY DEF Called, EventsFor

--------------------------------------------------------------------------------
(* An object has had its events.                                                *)

LEMMA EventsForFacts ==
    ASSUME IInv, NEW t \in Threads, NEW n
    PROVE  EventsFor(t, n) \subseteq th[t].events /\ EventsFor(t, n) \subseteq Events
BY InvParts DEF EventsFor, ThreadRecords

LEMMA SentStep ==
    ASSUME IInv, NEW t \in Threads, NEW n \in th[t].todo, Sent(t, n), th[t].pc \in {"send", "call"},
           UNCHANGED <<tableVars, managerVars, envVars, unmaps, held, zeroing, calls, crashes,
                       owed, taken, repeated, lost, bare>>,
           faults' \in Nat, received \subseteq received', received' \subseteq Events \X Seqs,
           th[t].pc = "call" =>
               Pairs(EventsFor(t, th[t].obj), objs[th[t].obj].row) \subseteq received',
           \/ loop' = loop
           \/ \E v \in Envs : \E k \in TaskRecords :
                  loop' = [loop EXCEPT ![v] = Append(@, k)] /\ TaskOK(v, k)
    PROVE  IInv'
<1>0. /\ TablesOK /\ MemoryOK /\ Threads = Envs \cup {Io}
      /\ \A u \in Threads : PlaceOK(u) /\ th[u] \in ThreadRecords
      /\ UNCHANGED <<inserted, mapped, rows, lastSeq, watchers, restored, objs, destroyed, records,
                     hooked, envs, deaf>>
  BY InvParts DEF Threads, tableVars, managerVars, envVars
<1>1. PICK d : SentTo(t, d)
  BY SentFacts
<1>2. th' \in [Threads -> ThreadRecords]
  BY <1>0, <1>1 DEF SentTo, MemoryOK
<1>3. loop' \in [Envs -> Seq(TaskRecords)]
      /\ \A u \in Envs : \A k \in Tasks(u)' : k \in Tasks(u) \/ TaskOK(u, k)
  <2>1. CASE loop' = loop
    BY <1>0, <2>1 DEF MemoryOK, Tasks
  <2>2. CASE loop' # loop
    <3>1. PICK v \in Envs : \E k \in TaskRecords :
              loop' = [loop EXCEPT ![v] = Append(@, k)] /\ TaskOK(v, k)
      BY <2>2
    <3>2. PICK k \in TaskRecords : loop' = [loop EXCEPT ![v] = Append(@, k)] /\ TaskOK(v, k)
      BY <3>1
    <3>3. /\ loop' \in [Envs -> Seq(TaskRecords)]
          /\ \A u \in Envs : Tasks(u)' \subseteq Tasks(u) \cup (IF u = v THEN {k} ELSE {})
      BY <1>0, <3>2, TasksAppended
    <3> QED
      BY <3>2, <3>3
  <2> QED
    BY <2>1, <2>2
<1>4. TablesOK'
  BY <1>0 DEF TablesOK
<1>5. MemoryOK'
  BY <1>0, <1>2, <1>3 DEF MemoryOK
<1>6. /\ t \in Envs => /\ d.obj = th[t].obj /\ th[t].obj # 0
                       /\ th[t].pc \in Adding /\ d.pc \in Adding
      /\ t = Io => d.obj = 0
  BY <1>0, <1>1 DEF SentTo, PlaceOK, Adding
<1>7. ASSUME NEW u \in Threads PROVE Moves(u) /\ PlaceOK(u)'
  <2>1. CASE u # t
    <3>1. th'[u] = th[u]
      BY <1>1, <2>1 DEF SentTo, OthersStay
    <3> QED
      BY <1>0, <3>1, Stays, PlaceStays
  <2>2. CASE u = t
    <3>1. Moves(t)
      BY <1>0, <1>1, <1>6 DEF SentTo, Moves, Adding
    <3>2. EnvOf(d.obj)' = EnvOf(d.obj) /\ EnvIs(t)' = EnvIs(t)
      BY <1>0, <1>1, <1>6 DEF EnvOf, EnvIs
    <3>3. PlaceOK(t)'
      BY <1>0, <1>1, <1>6, <3>2, ZenonT(40) DEF SentTo, PlaceOK
    <3> QED
      BY <2>2, <3>1, <3>3
  <2> QED
    BY <2>1, <2>2
<1>8. ObjectsOK'
  BY <1>0, <1>7, ObjectsStay
<1>9. TasksOK'
  <2>1. ObjectsGrow
    BY <1>0 DEF ObjectsGrow, B
  <2>2. \A u \in Envs : th'[u].obj = th[u].obj
    BY <1>0, <1>7 DEF Moves
  <2>3. \A u \in Envs : \A k \in Tasks(u)' : k \in Tasks(u) \/ TaskOK(u, k)'
    BY <1>0, <1>3, <2>2 DEF TaskOK, B
  <2> QED
    BY <2>1, <2>2, <2>3, TasksStay
<1>10. ASSUME NEW p \in owed, Called(p) PROVE Called(p)' \/ p \in received'
  <2>1. PICK u \in Threads : /\ th[u].pc = "call" /\ p[1] \in EventsFor(u, th[u].obj)
                             /\ p[2] = objs[th[u].obj].row
    BY <1>10 DEF Called
  <2>2. CASE u # t
    <3>1. th'[u] = th[u]
      BY <1>1, <2>2 DEF SentTo, OthersStay
    <3> QED
      BY <1>0, <2>1, <3>1, CalledStays
  <2>3. CASE u = t
    BY <1>0, <2>1, <2>3 DEF Pairs, TablesOK
  <2> QED
    BY <2>2, <2>3
<1>11. \A u \in Envs : th'[u].pc = "take" => th'[u] = th[u] /\ held'[u] = held[u]
  BY <1>0, <1>1 DEF SentTo, OthersStay
<1>12. EventsOK'
  BY <1>0, <1>10, <1>11, EventsStay
<1> QED
  BY <1>4, <1>5, <1>8, <1>9, <1>12 DEF IInv

--------------------------------------------------------------------------------
(* SendEventsToObserver and the bindings.                                       *)

\* An object in a thread's list is there, with its sequence and its binding.
LEMMA InList ==
    ASSUME IInv, NEW t \in Threads, NEW n \in th[t].todo
    PROVE  /\ n \in DOMAIN objs /\ n \in Objects /\ objs[n] \in ObjectRecords
           /\ SeqOK(n) /\ HolderOK(n) /\ objs[n].env \in Envs /\ objs[n].seq \in 0..MaxCalls
<1>1. n \in DOMAIN objs /\ SeqOK(n) /\ HolderOK(n)
  BY InvParts, RefFacts DEF RefsOK
<1>2. objs[n] \in ObjectRecords /\ n \in Objects
  BY <1>1, InvParts, ObjectFacts
<1> QED
  BY <1>1, <1>2 DEF ObjectRecords

LEMMA ReceiveFits ==
    ASSUME IInv, NEW t \in Threads, NEW n \in th[t].todo, B(n) # "ndk", NEW v \in Envs
    PROVE  Receive(t, n) \in TaskRecords /\ TaskOK(v, Receive(t, n))
<1>1. EventsFor(t, n) \in SUBSET Events
  BY EventsForFacts
<1>2. objs[n].seq # 0
  BY InList DEF SeqOK
<1> QED
  BY <1>1, <1>2, InList DEF Receive, TaskRecords, TaskOK

LEMMA TriggerFits ==
    ASSUME IInv, NEW t \in Threads, NEW n \in th[t].todo, NEW v \in Envs,
           B(n) = "js" => v = objs[n].env
    PROVE  Trigger(n) \in TaskRecords /\ TaskOK(v, Trigger(n))
<1>1. Trigger(n) \in TaskRecords
  BY InList, Constants DEF Trigger, TaskRecords
<1>2. TaskOK(v, Trigger(n))
  BY InList DEF Trigger, TaskOK, HolderOK
<1> QED
  BY <1>1, <1>2

\* A callback's groups are the events the thread has for the object.
LEMMA CallbackReceives ==
    ASSUME IInv, NEW t \in Threads, NEW n, NEW s \in Seqs, NEW G,
           UNION G \subseteq EventsFor(t, n), GotGroups(G, s)
    PROVE  received \subseteq received' /\ received' \subseteq Events \X Seqs
BY InvParts, EventsForFacts DEF GotGroups, Pairs, TablesOK

LEMMA PostStep ==
    ASSUME IInv, NEW t \in Threads, NEW n \in th[t].todo, th[t].pc = "send", Sent(t, n),
           UNCHANGED <<tableVars, managerVars, envVars, unmaps, held, zeroing, calls, crashes, bookVars>>,
           \/ UNCHANGED <<loop, faults>>
           \/ \E v \in Envs : \E k \in TaskRecords : TaskOK(v, k) /\ Post(v, k)
    PROVE  IInv'
<1>1. faults \in Nat /\ received \subseteq Events \X Seqs
  BY InvParts DEF TablesOK
<1>2. UNCHANGED <<owed, received, taken, repeated, lost, bare>>
  BY DEF bookVars
<1>3. faults' \in Nat
  BY <1>1 DEF Post, Fault
<1>4. \/ loop' = loop
      \/ \E v \in Envs : \E k \in TaskRecords :
             loop' = [loop EXCEPT ![v] = Append(@, k)] /\ TaskOK(v, k)
  BY DEF Post
<1> QED
  BY <1>1, <1>2, <1>3, <1>4, SentStep

LEMMA SkipStep ==
    ASSUME IInv, NEW t \in Threads, NEW n, SkipObserver(t, n)
    PROVE  IInv'
BY PostStep DEF SkipObserver, taskVars, boundVars

LEMMA JsOnEventsStep ==
    ASSUME IInv, NEW t \in Threads, NEW n, JsOnEvents(t, n)
    PROVE  IInv'
<1>1. n \in th[t].todo /\ th[t].pc = "send" /\ B(n) = "js" /\ Sent(t, n)
  BY DEF JsOnEvents, Sends
<1>2. objs[n].env \in Envs
  BY <1>1, InList
<1>3. Receive(t, n) \in TaskRecords /\ TaskOK(objs[n].env, Receive(t, n))
  BY <1>1, <1>2, ReceiveFits
<1> QED
  BY <1>1, <1>2, <1>3, PostStep DEF JsOnEvents

LEMMA JsOnTriggerStep ==
    ASSUME IInv, NEW t \in Threads, NEW n, JsOnTrigger(t, n)
    PROVE  IInv'
<1>1. n \in th[t].todo /\ th[t].pc = "send" /\ Sent(t, n)
  BY DEF JsOnTrigger, Sends
<1>2. objs[n].env \in Envs
  BY <1>1, InList
<1>3. Trigger(n) \in TaskRecords /\ TaskOK(objs[n].env, Trigger(n))
  BY <1>1, <1>2, TriggerFits
<1> QED
  BY <1>1, <1>2, <1>3, PostStep DEF JsOnTrigger

LEMMA EtsOnEventsStep ==
    ASSUME IInv, NEW t \in Threads, NEW n, EtsOnEvents(t, n)
    PROVE  IInv'
<1>1. n \in th[t].todo /\ th[t].pc = "send" /\ B(n) = "ets" /\ Sent(t, n)
  BY DEF EtsOnEvents, Sends
<1>2. Receive(t, n) \in TaskRecords /\ TaskOK(Main, Receive(t, n))
  BY <1>1, ReceiveFits, Constants
<1> QED
  BY <1>1, <1>2, PostStep, Constants DEF EtsOnEvents

LEMMA EtsOnTriggerStep ==
    ASSUME IInv, NEW t \in Threads, NEW n, EtsOnTrigger(t, n)
    PROVE  IInv'
<1>1. n \in th[t].todo /\ th[t].pc = "send" /\ B(n) = "ets" /\ Sent(t, n)
  BY DEF EtsOnTrigger, Sends
<1>2. Trigger(n) \in TaskRecords /\ TaskOK(Main, Trigger(n))
  BY <1>1, TriggerFits, Constants
<1> QED
  BY <1>1, <1>2, PostStep, Constants DEF EtsOnTrigger

LEMMA CjOnEventsStep ==
    ASSUME IInv, NEW t \in Threads, NEW n, CjOnEvents(t, n)
    PROVE  IInv'
<1>1. n \in th[t].todo /\ th[t].pc = "send" /\ B(n) = "cj" /\ Sent(t, n)
  BY DEF CjOnEvents, Sends
<1>2. objs[n].seq \in Seqs
  BY <1>1, InList, Constants DEF SeqOK, Seqs
<1>3. faults \in Nat /\ received \subseteq Events \X Seqs
  BY InvParts DEF TablesOK
<1>4. /\ UNCHANGED <<loop, tableVars, managerVars, envVars, unmaps, held, zeroing, calls, crashes,
                     owed, taken, repeated, lost, bare>>
      /\ \/ GotGroups(CjEventGroups(EventsFor(t, n)), objs[n].seq) /\ UNCHANGED faults
         \/ Fault /\ UNCHANGED received
  BY DEF CjOnEvents, taskVars
<1>5. received \subseteq received' /\ received' \subseteq Events \X Seqs
  <2>1. UNION CjEventGroups(EventsFor(t, n)) \subseteq EventsFor(t, n)
    BY GroupsCover DEF CjEventGroups
  <2> QED
    BY <1>2, <1>3, <1>4, <2>1, CallbackReceives
<1>6. faults' \in Nat
  BY <1>3, <1>4 DEF Fault
<1> QED
  BY <1>1, <1>4, <1>5, <1>6, SentStep

LEMMA NdkCallbackStep ==
    ASSUME IInv, NEW t \in Threads, NdkCallback(t)
    PROVE  IInv'
<1>1. /\ th[t].pc = "call" /\ Sent(t, th[t].obj) /\ th[t].obj \in th[t].todo
      /\ UNCHANGED <<tableVars, managerVars, envVars, taskVars, held, zeroing, boundVars,
                     owed, taken, repeated, lost, bare>>
      /\ GotGroups(NdkEventGroups(EventsFor(t, th[t].obj)), objs[th[t].obj].row)
  BY InvParts DEF NdkCallback, PlaceOK
<1>2. objs[th[t].obj].row \in Seqs
  BY <1>1, InList, Constants DEF SeqOK, Seqs, ObjectRecords
<1>3. UNION NdkEventGroups(EventsFor(t, th[t].obj)) = EventsFor(t, th[t].obj)
  BY GroupsCover DEF NdkEventGroups
<1>4. received \subseteq received' /\ received' \subseteq Events \X Seqs
  BY <1>1, <1>2, <1>3, CallbackReceives
<1>5. Pairs(EventsFor(t, th[t].obj), objs[th[t].obj].row) \subseteq received'
  BY <1>1, <1>3 DEF GotGroups
<1>6. faults' \in Nat /\ UNCHANGED <<loop, unmaps, calls, crashes>>
  BY <1>1, InvParts DEF TablesOK, boundVars, taskVars
<1> QED
  BY <1>1, <1>4, <1>5, <1>6, SentStep

LEMMA NdkOnTriggerStep ==
    ASSUME IInv, NEW t \in Threads, NEW n, NdkOnTrigger(t, n)
    PROVE  IInv'
BY PostStep DEF NdkOnTrigger, Sends, taskVars, boundVars

LEMMA NdkOnEventsStep ==
    ASSUME IInv, NEW t \in Threads, NEW n, NdkOnEvents(t, n)
    PROVE  IInv'
<1>0. /\ TablesOK /\ MemoryOK /\ Threads = Envs \cup {Io}
      /\ \A u \in Threads : PlaceOK(u) /\ th[u] \in ThreadRecords
      /\ n \in th[t].todo /\ th[t].pc = "send" /\ B(n) = "ndk"
      /\ UNCHANGED <<managerVars, envVars, inserted, rows, lastSeq, watchers, restored, objs, destroyed, records, hooked,
                     envs, deaf, loop, unmaps, held, zeroing, calls, crashes, owed, received, taken,
                     repeated, bare>>
  BY InvParts DEF NdkOnEvents, Sends, Threads, managerVars, envVars, taskVars
<1>1. /\ mapped' \subseteq mapped
      /\ mapped \ mapped' \subseteq Unmapped(objs[n].seq, EventsFor(t, n))
      /\ lost \subseteq lost' /\ lost' \subseteq lost \cup mapped /\ faults' \in Nat
      /\ objs[n].seq = 0 => mapped \ mapped' \subseteq lost'
  BY <1>0 DEF NdkOnEvents, Unmapped, Fault, TablesOK
<1>2. PICK c \in ThreadRecords : c = th[t]
  BY <1>0
<1>a. PICK d : d = [c EXCEPT !.pc = "call", !.obj = n]
  OBVIOUS
<1>3. d = [pc |-> "call", obj |-> n, todo |-> c.todo, events |-> c.events]
  BY <1>2, <1>a DEF ThreadRecords
<1>4. d \in ThreadRecords
  BY <1>0, <1>2, <1>3, InList, Constants DEF ThreadRecords, Pcs
<1>5. th' = [th EXCEPT ![t] = d]
  <2>1. th' = [th EXCEPT ![t].pc = "call", ![t].obj = n]
    BY DEF NdkOnEvents
  <2> QED
    BY <1>0, <1>2, <1>a, <2>1 DEF MemoryOK
<1>6. th' \in [Threads -> ThreadRecords] /\ th'[t] = d /\ OthersStay(t)
  BY <1>0, <1>4, <1>5, ThreadSet
<1>7. TablesOK'
  BY <1>0, <1>1, MappedFacts DEF TablesOK
<1>8. MemoryOK'
  BY <1>0, <1>6 DEF MemoryOK
<1>9. t \in Envs => th[t].obj = n /\ n # 0
  <2>1. n # 0
    BY <1>0, InList, Constants
  <2>2. t \in Envs => t # Io /\ t \in Threads
    BY Constants
  <2> QED
    BY <1>0, <2>1, <2>2 DEF PlaceOK
<1>10. ASSUME NEW u \in Threads PROVE Moves(u) /\ PlaceOK(u)'
  <2>1. CASE u # t
    <3>1. th'[u] = th[u]
      BY <1>6, <2>1 DEF OthersStay
    <3> QED
      BY <1>0, <3>1, Stays, PlaceStays
  <2>2. CASE u = t
    <3>1. Moves(t)
      BY <1>0, <1>2, <1>3, <1>6, <1>9 DEF Moves, Adding
    <3>2. EnvOf(n)' = EnvOf(n) /\ EnvIs(t)' = EnvIs(t) /\ B(n)' = B(n)
      BY <1>0 DEF EnvOf, EnvIs, B
    <3>3. n \in DOMAIN objs' /\ n # 0
      BY <1>0, InList, Constants
    <3>a. /\ th'[t].pc = "call" /\ th'[t].obj = n /\ th'[t].todo = th[t].todo
          /\ B(th[t].obj)' = B(n) \/ t = Io
      BY <1>0, <1>2, <1>3, <1>6, <1>9, <3>2
    <3>4. PlaceOK(t)'
      <4>1. CASE t = Io
        BY <1>0, <3>a, <3>2, <3>3, <4>1 DEF PlaceOK
      <4>2. CASE t # Io
        BY <1>0, <1>9, <3>a, <3>2, <3>3, <4>2 DEF PlaceOK
      <4> QED
        BY <4>1, <4>2
    <3> QED
      BY <2>2, <3>1, <3>4
  <2> QED
    BY <2>1, <2>2
<1>11. ObjectsOK'
  BY <1>0, <1>10, ObjectsStay
<1>12. TasksOK'
  <2>1. ObjectsGrow
    BY <1>0 DEF ObjectsGrow, B
  <2>2. \A u \in Envs : th'[u].obj = th[u].obj
    BY <1>0, <1>10 DEF Moves
  <2>3. \A u \in Envs : Tasks(u)' = Tasks(u)
    BY <1>0 DEF Tasks
  <2> QED
    BY <1>0, <2>1, <2>2, <2>3, TasksStay
<1>13. ASSUME NEW p \in owed, Called(p) PROVE Called(p)'
  <2>1. PICK u \in Threads : /\ th[u].pc = "call" /\ p[1] \in EventsFor(u, th[u].obj)
                             /\ p[2] = objs[th[u].obj].row
    BY <1>13 DEF Called
  <2>2. th'[u] = th[u]
    BY <1>0, <1>6, <2>1 DEF OthersStay
  <2> QED
    BY <1>0, <2>1, <2>2, CalledStays
<1>14. ASSUME NEW p \in mapped \ mapped' PROVE p \in lost' \/ Called(p)'
  <2>1. CASE objs[n].seq = 0
    BY <1>1, <2>1
  <2>2. CASE objs[n].seq # 0
    <3>1. p[1] \in EventsFor(t, n) /\ p[2] = objs[n].row
      BY <1>0, <1>1, <2>2, InList DEF SeqOK, Unmapped
    <3>2. p[1] \in EventsFor(t, n)'
      BY <1>0, <1>2, <1>3, <1>6, <3>1 DEF EventsFor
    <3> QED
      BY <1>0, <1>3, <1>6, <3>1, <3>2 DEF Called
  <2> QED
    BY <2>1, <2>2
<1>15. \A u \in Envs : th'[u].pc = "take" => th'[u] = th[u] /\ held'[u] = held[u]
  BY <1>0, <1>3, <1>6 DEF OthersStay
<1>16. EventsOK'
  BY <1>0, <1>1, <1>13, <1>14, <1>15, EventsStay
<1> QED
  BY <1>7, <1>8, <1>11, <1>12, <1>16 DEF IInv

--------------------------------------------------------------------------------
(* Tasks and holders.                                                           *)

LEMMA StillObjects ==
    ASSUME IInv, UNCHANGED <<rows, managerVars, envVars, zeroing, th>>
    PROVE  ObjectsOK' /\ \A p \in owed : Called(p) => Called(p)'
<1>0. UNCHANGED <<objs, envs>>
  BY DEF managerVars, envVars
<1>1. \A u \in Threads : Moves(u) /\ PlaceOK(u)'
  BY <1>0, InvParts, Stays, PlaceStays
<1>2. \A p : Called(p) => Called(p)'
  BY <1>0, CalledStays DEF Called
<1> QED
  BY <1>1, <1>2, ObjectsStay

LEMMA StillTasks ==
    ASSUME IInv, UNCHANGED <<objs, th>>, \A t \in Envs : Tasks(t)' \subseteq Tasks(t),
           \A n \in bare' : n \in bare \/ B(n)' # "js"
    PROVE  TasksOK'
<1>1. ObjectsGrow
  BY DEF ObjectsGrow, B
<1> QED
  BY <1>1, TasksStay

LEMMA CallOnReceiveStep ==
    ASSUME IInv, NEW t \in Envs, CallOnReceive(t)
    PROVE  IInv'
<1>0. /\ TablesOK /\ MemoryOK /\ TasksOK
      /\ UNCHANGED <<inserted, mapped, rows, lastSeq, managerVars, envVars, th, held, zeroing, calls,
                     crashes, owed, taken, repeated, lost, bare>>
      /\ UNCHANGED <<watchers, restored, objs, destroyed, records, hooked, envs, deaf>>
      /\ loop[t] # <<>> /\ loop' = [loop EXCEPT ![t] = Tail(@)]
  BY InvParts DEF CallOnReceive, tableVars, managerVars, envVars
<1>1. /\ loop' \in [Envs -> Seq(TaskRecords)]
      /\ Head(loop[t]) \in Tasks(t)
      /\ \A u \in Envs : Tasks(u)' \subseteq Tasks(u)
  BY <1>0, TasksTaken
<1>2. PICK k : k = Head(loop[t])
  OBVIOUS
<1>3. k \in TaskRecords /\ TaskOK(t, k)
  BY <1>0, <1>1, <1>2 DEF TasksOK, Tasks, MemoryOK
<1>4. k.what = "receive"
  BY <1>2 DEF CallOnReceive
<1>5. k.seq \in Seqs /\ k.events \in SUBSET Events
  BY <1>3, <1>4, Constants DEF TaskOK, TaskRecords, Seqs
<1>6. \/ /\ received' = received \cup Pairs(k.events, k.seq)
         /\ unmaps' = unmaps \cup {[seq |-> k.seq, events |-> k.events]}
         /\ UNCHANGED faults
      \/ Fault /\ UNCHANGED <<received, unmaps>>
  <2>1. \/ /\ GotGroups(IF B(k.obj) = "js" THEN JsEventGroups(k.events) ELSE EtsEventGroups(k.events), k.seq)
           /\ unmaps' = unmaps \cup {[seq |-> k.seq, events |-> k.events]}
           /\ UNCHANGED faults
        \/ Fault /\ UNCHANGED <<received, unmaps>>
    BY <1>2 DEF CallOnReceive
  <2>2. UNION JsEventGroups(k.events) = k.events /\ UNION EtsEventGroups(k.events) = k.events
    BY GroupsCover DEF JsEventGroups, EtsEventGroups
  <2> QED
    BY <2>1, <2>2 DEF GotGroups
<1>7. /\ received \subseteq received' /\ received' \subseteq Events \X Seqs /\ faults' \in Nat
      /\ unmaps' \subseteq [seq : Seqs, events : SUBSET Events]
      /\ \A m \in unmaps' : m \in unmaps \/ Pairs(m.events, m.seq) \subseteq received'
  BY <1>0, <1>5, <1>6 DEF TablesOK, Fault, Pairs
<1>8. TablesOK'
  BY <1>0, <1>7 DEF TablesOK
<1>9. MemoryOK'
  BY <1>0, <1>1 DEF MemoryOK
<1>10. ObjectsOK' /\ \A p \in owed : Called(p) => Called(p)'
  BY <1>0, StillObjects
<1>11. TasksOK'
  BY <1>0, <1>1, StillTasks
<1>12. EventsOK'
  BY <1>0, <1>7, <1>10, EventsStay
<1> QED
  BY <1>8, <1>9, <1>10, <1>11, <1>12 DEF IInv

\* A thread that runs a task is adding nothing, so that the trigger has its holder.
LEMMA CallOnTriggerStep ==
    ASSUME IInv, NEW t \in Envs, CallOnTrigger(t)
    PROVE  IInv'
<1>0. /\ TablesOK /\ MemoryOK /\ TasksOK
      /\ UNCHANGED <<inserted, mapped, rows, lastSeq, managerVars, envVars, unmaps, th, held, zeroing, calls,
                     faults, crashes, owed, received, taken, repeated, lost>>
      /\ UNCHANGED <<watchers, restored, objs, destroyed, records, hooked, envs, deaf>>
      /\ loop[t] # <<>> /\ loop' = [loop EXCEPT ![t] = Tail(@)] /\ th[t].obj = 0
  BY InvParts, IdleFacts DEF CallOnTrigger, tableVars, managerVars, envVars, boundVars, Free
<1>1. /\ loop' \in [Envs -> Seq(TaskRecords)]
      /\ Head(loop[t]) \in Tasks(t)
      /\ \A u \in Envs : Tasks(u)' \subseteq Tasks(u)
  BY <1>0, TasksTaken
<1>2. PICK k : k = Head(loop[t])
  OBVIOUS
<1>3. k \in TaskRecords /\ TaskOK(t, k)
  BY <1>0, <1>1, <1>2 DEF TasksOK, Tasks, MemoryOK
<1>4. k.what = "trigger"
  BY <1>2, <1>3 DEF CallOnTrigger, TaskRecords
<1>5. bare' = IF objs[k.obj].holder = "none" THEN bare \cup {k.obj} ELSE bare
  BY <1>2, <1>4 DEF CallOnTrigger
<1>6. k.obj \in DOMAIN objs /\ (objs[k.obj].holder = "none" => B(k.obj) # "js")
  BY <1>0, <1>3, <1>4, ObjectFacts DEF TaskOK
<1>7. bare' \subseteq DOMAIN objs' /\ \A n \in bare' : n \in bare \/ B(n)' # "js"
  BY <1>0, <1>5, <1>6 DEF MemoryOK, B
<1>8. TablesOK'
  BY <1>0 DEF TablesOK
<1>9. MemoryOK'
  BY <1>0, <1>1, <1>7 DEF MemoryOK
<1>10. ObjectsOK' /\ \A p \in owed : Called(p) => Called(p)'
  BY <1>0, StillObjects
<1>11. TasksOK'
  BY <1>0, <1>1, <1>7, StillTasks
<1>12. EventsOK'
  BY <1>0, <1>10, EventsStay
<1> QED
  BY <1>8, <1>9, <1>10, <1>11, <1>12 DEF IInv

LEMMA QueueStepKeeps ==
    ASSUME IInv, NEW k \in unmaps, DeleteEventMappingAsync(k)
    PROVE  IInv'
<1>0. /\ TablesOK /\ MemoryOK /\ TasksOK /\ UnmapsOK
      /\ UNCHANGED <<inserted, rows, lastSeq, managerVars, envVars, loop, th, held, zeroing, calls,
                     crashes, owed, received, taken, repeated, lost, bare>>
      /\ UNCHANGED <<watchers, restored, objs, destroyed, records, hooked, envs, deaf>>
      /\ unmaps' \subseteq unmaps
  BY InvParts DEF DeleteEventMappingAsync, managerVars, envVars, bookVars
<1>1. k.seq \in Seqs /\ k.seq # 0
  BY <1>0, Constants DEF TablesOK
<1>2. mapped' \subseteq mapped /\ faults' \in Nat
  BY <1>0 DEF DeleteEventMappingAsync, Fault, TablesOK
<1>3. mapped \ mapped' \subseteq received
  <2>1. mapped \ mapped' \subseteq {p \in mapped : p[1] \in k.events /\ p[2] = k.seq}
    BY <1>1 DEF DeleteEventMappingAsync, Unmapped
  <2>2. \A p \in mapped : p = <<p[1], p[2]>>
    BY <1>0 DEF TablesOK
  <2> QED
    BY <1>0, <2>1, <2>2 DEF UnmapsOK, Pairs
<1>4. TablesOK'
  BY <1>0, <1>2 DEF TablesOK
<1>5. MemoryOK'
  BY <1>0 DEF MemoryOK
<1>6. ObjectsOK' /\ \A p \in owed : Called(p) => Called(p)'
  BY <1>0, StillObjects
<1>7. TasksOK'
  BY <1>0, StillTasks DEF Tasks
<1>8. EventsOK'
  BY <1>0, <1>2, <1>3, <1>6, EventsStay
<1> QED
  BY <1>4, <1>5, <1>6, <1>7, <1>8 DEF IInv

LEMMA NewHolderStep ==
    ASSUME IInv, NEW t \in Envs, NEW w \in Watchers, NewHolder(t, w)
    PROVE  IInv'
<1>0. /\ TablesOK /\ MemoryOK
      /\ UNCHANGED <<tableVars, managerVars, envVars, taskVars, th, zeroing, faults, crashes, bookVars>>
      /\ UNCHANGED <<inserted, mapped, rows, lastSeq, watchers, restored, objs, destroyed, records,
                     hooked, envs, deaf, loop, unmaps, owed, received, taken, repeated, lost, bare>>
      /\ calls' = calls + 1 /\ calls < MaxCalls /\ th[t] = Idle
      /\ held' = [held EXCEPT ![t] = [of |-> {w}, seq |-> rows[w]]]
  BY InvParts DEF NewHolder, Free, tableVars, managerVars, envVars, taskVars, bookVars
<1>1. TablesOK'
  BY <1>0, Constants DEF TablesOK
<1>2. held' \in [Envs -> [of : SUBSET Watchers, seq : 0..MaxCalls]]
  BY <1>0 DEF MemoryOK, TablesOK
<1>3. MemoryOK'
  BY <1>0, <1>2, ObjectFacts, SMTT(20) DEF MemoryOK, TablesOK
<1>4. ObjectsOK' /\ \A p \in owed : Called(p) => Called(p)'
  BY <1>0, StillObjects
<1>5. TasksOK'
  BY <1>0, StillTasks DEF Tasks
<1>6. \A u \in Envs : th'[u].pc = "take" => th'[u] = th[u] /\ held'[u] = held[u]
  BY <1>0, IdleFacts DEF MemoryOK
<1>7. EventsOK'
  BY <1>0, <1>4, <1>6, EventsStay
<1> QED
  BY <1>1, <1>3, <1>4, <1>5, <1>7 DEF IInv

\* A thread that is idle, or about to return a package, becomes the other.
LEMMA HolderMoves ==
    ASSUME IInv, NEW t \in Envs, NEW d \in ThreadRecords, th' = [th EXCEPT ![t] = d],
           th[t].pc \in {"idle", "take"}, d.pc \in {"idle", "take"}, d.obj = 0, d.todo = {},
           UNCHANGED <<rows, managerVars, envVars, zeroing, loop, bare>>
    PROVE  /\ th' \in [Threads -> ThreadRecords] /\ th'[t] = d /\ OthersStay(t)
           /\ ObjectsOK' /\ TasksOK' /\ \A p \in owed : Called(p) => Called(p)'
<1>0. /\ TablesOK /\ MemoryOK /\ Threads = Envs \cup {Io} /\ t \in Threads /\ t # Io
      /\ \A u \in Threads : PlaceOK(u) /\ th[u] \in ThreadRecords
      /\ UNCHANGED <<objs, envs, watchers>>
  BY InvParts, Constants DEF Threads, managerVars, envVars
<1>1. th' \in [Threads -> ThreadRecords] /\ th'[t] = d /\ OthersStay(t)
  BY <1>0, ThreadSet
<1>2. th[t].obj = 0
  BY <1>0 DEF PlaceOK
<1>3. ASSUME NEW u \in Threads PROVE Moves(u) /\ PlaceOK(u)'
  <2>1. CASE u # t
    <3>1. th'[u] = th[u]
      BY <1>1, <2>1 DEF OthersStay
    <3> QED
      BY <1>0, <3>1, Stays, PlaceStays
  <2>2. CASE u = t
    BY <1>0, <1>1, <1>2, <2>2 DEF Moves, PlaceOK, Adding
  <2> QED
    BY <2>1, <2>2
<1>4. ObjectsOK'
  BY <1>3, ObjectsStay
<1>5. TasksOK'
  <2>1. ObjectsGrow
    BY <1>0 DEF ObjectsGrow, B
  <2>2. \A u \in Envs : th'[u].obj = th[u].obj
    BY <1>0, <1>3 DEF Moves
  <2>3. \A u \in Envs : Tasks(u)' = Tasks(u)
    BY DEF Tasks
  <2> QED
    BY <2>1, <2>2, <2>3, TasksStay
<1>6. ASSUME NEW p \in owed, Called(p) PROVE Called(p)'
  <2>1. PICK u \in Threads : /\ th[u].pc = "call" /\ p[1] \in EventsFor(u, th[u].obj)
                             /\ p[2] = objs[th[u].obj].row
    BY <1>6 DEF Called
  <2>2. th'[u] = th[u]
    BY <1>1, <2>1 DEF OthersStay
  <2> QED
    BY <1>0, <2>1, <2>2, CalledStays
<1> QED
  BY <1>1, <1>4, <1>5, <1>6

\* What a package takes is mapped, and so has not been taken before.
LEMMA TakeNextStep ==
    ASSUME IInv, NEW t \in Envs, TakeNext(t)
    PROVE  IInv'
<1>0. /\ TablesOK /\ MemoryOK /\ TakenOK /\ th[t] = Idle
      /\ UNCHANGED <<tableVars, managerVars, envVars, taskVars, held, zeroing, boundVars, bookVars>>
      /\ UNCHANGED <<inserted, mapped, rows, lastSeq, watchers, restored, objs, destroyed, records,
                     hooked, envs, deaf, loop, unmaps, calls, faults, crashes, owed, received, taken,
                     repeated, lost, bare>>
  BY InvParts DEF TakeNext, Free, tableVars, managerVars, envVars, taskVars, boundVars, bookVars
<1>1. PICK s, E : /\ s = held[t].seq /\ E = UNION {PackageOf(w, s) : w \in held[t].of}
                  /\ th' = [th EXCEPT ![t] = [Idle EXCEPT !.pc = "take", !.events = E]]
  BY DEF TakeNext
<1>2. ASSUME NEW e \in E PROVE <<e, s>> \in mapped
  <2>1. PICK w \in held[t].of : e \in PackageOf(w, s)
    BY <1>1
  <2>2. w \in Watchers
    BY <1>0 DEF MemoryOK
  <2>3. \E p \in mapped : p[1] = e /\ p[2] = s
    BY <2>1, <2>2, Constants, PackageIsMapped
  <2> QED
    BY <1>0, <2>3 DEF TablesOK
<1>3. E \subseteq 1..inserted /\ E \subseteq Events
  BY <1>0, <1>2, MappedFacts DEF TablesOK
<1>4. PICK d : d = [Idle EXCEPT !.pc = "take", !.events = E]
  OBVIOUS
<1>5. d = [pc |-> "take", obj |-> 0, todo |-> {}, events |-> E]
  BY <1>4 DEF Idle
<1>6. d \in ThreadRecords
  BY <1>3, <1>5, Constants DEF ThreadRecords, Pcs
<1>7. /\ th' \in [Threads -> ThreadRecords] /\ th'[t] = d /\ OthersStay(t)
      /\ ObjectsOK' /\ TasksOK' /\ \A p \in owed : Called(p) => Called(p)'
  BY <1>0, <1>1, <1>4, <1>5, <1>6, IdleFacts, HolderMoves
<1>8. TablesOK'
  BY <1>0 DEF TablesOK
<1>9. MemoryOK'
  BY <1>0, <1>7 DEF MemoryOK
<1>10. TakenOK'
  <2>1. \A u \in Envs \ {t} : Packaged(u)' = Packaged(u) /\ th'[u] = th[u]
    BY <1>0, <1>7, InvParts DEF Packaged, OthersStay, Threads
  <2>2. Packaged(t)' = {<<e, s, t>> : e \in E}
    BY <1>0, <1>1, <1>5, <1>7 DEF Packaged
  <2>3. Packaged(t)' \cap taken = {}
    BY <1>0, <1>2, <2>2 DEF TakenOK
  <2>4. th'[t].events \subseteq 1..inserted'
    BY <1>0, <1>3, <1>5, <1>7
  <2>5. \A u \in Envs \ {t} : th'[u].pc = "take" =>
            th'[u].events \subseteq 1..inserted' /\ Packaged(u)' \cap taken' = {}
    BY <1>0, <2>1 DEF TakenOK
  <2>6. repeated' = {} /\ \A e, q, u : <<e, q, u>> \in taken' =>
                             e \in 1..inserted' /\ <<e, q>> \notin mapped'
    BY <1>0 DEF TakenOK
  <2>7. \A u \in Envs : th'[u].pc = "take" =>
            th'[u].events \subseteq 1..inserted' /\ Packaged(u)' \cap taken' = {}
    BY <1>0, <2>3, <2>4, <2>5
  <2> QED
    BY <2>6, <2>7 DEF TakenOK
<1>11. UnmapsOK'
  BY <1>0, InvParts DEF UnmapsOK
<1>12. OwedOK'
  <2>1. Narrowed' = Narrowed
    BY <1>0 DEF Narrowed
  <2> QED
    BY <1>0, <1>7, <2>1, InvParts DEF OwedOK
<1> QED
  BY <1>7, <1>8, <1>9, <1>10, <1>11, <1>12 DEF IInv, EventsOK

LEMMA ReturnPackageStep ==
    ASSUME IInv, NEW t \in Envs, ReturnPackage(t)
    PROVE  IInv'
<1>0. /\ TablesOK /\ MemoryOK /\ TakenOK /\ th[t].pc = "take"
      /\ th' = [th EXCEPT ![t] = Idle]
      /\ UNCHANGED <<inserted, rows, lastSeq, managerVars, envVars, taskVars, held, zeroing,
                     calls, crashes, owed, received, lost, bare>>
      /\ UNCHANGED <<watchers, restored, objs, destroyed, records, hooked, envs, deaf, loop, unmaps>>
  BY InvParts DEF ReturnPackage, managerVars, envVars, taskVars
<1>1. /\ th' \in [Threads -> ThreadRecords] /\ th'[t] = Idle /\ OthersStay(t)
      /\ ObjectsOK' /\ TasksOK' /\ \A p \in owed : Called(p) => Called(p)'
  BY <1>0, IdleFacts, HolderMoves
<1>2. PICK E, s : E = th[t].events /\ s = held[t].seq /\ Packaged(t) = {<<e, s, t>> : e \in E}
  BY DEF Packaged
<1>3. E \subseteq 1..inserted /\ Packaged(t) \cap taken = {}
  BY <1>0, <1>2 DEF TakenOK
<1>4. \/ /\ mapped' = mapped \ Pairs(E, s) /\ repeated' = repeated
         /\ taken' = taken \cup Packaged(t) /\ faults' = faults
      \/ mapped' = mapped /\ repeated' = repeated /\ taken' = taken /\ faults' = faults + 1
  <2>1. \/ /\ mapped' = mapped \ Pairs(th[t].events, held[t].seq)
           /\ repeated' = repeated \cup (taken \cap Packaged(t))
           /\ taken' = taken \cup Packaged(t)
           /\ UNCHANGED faults
        \/ Fault /\ UNCHANGED <<mapped, repeated, taken>>
    BY DEF ReturnPackage
  <2> QED
    BY <1>2, <1>3, <2>1 DEF Fault
<1>5. mapped' \subseteq mapped /\ faults' \in Nat
  BY <1>0, <1>4 DEF TablesOK
<1>6. TablesOK'
  BY <1>0, <1>5 DEF TablesOK
<1>7. MemoryOK'
  BY <1>0, <1>1 DEF MemoryOK
<1>8. \A e, q, u : <<e, q, u>> \in taken' \ taken =>
          e \in E /\ q = s /\ u = t /\ <<e, q>> \notin mapped'
  BY <1>2, <1>4 DEF Pairs
<1>9. TakenOK'
  <2>1. \A e, q, u : <<e, q, u>> \in taken' => e \in 1..inserted' /\ <<e, q>> \notin mapped'
    BY <1>0, <1>3, <1>5, <1>8 DEF TakenOK
  <2>2. ASSUME NEW u \in Envs, th'[u].pc = "take"
        PROVE  th'[u].events \subseteq 1..inserted' /\ Packaged(u)' \cap taken' = {}
    <3>1. u # t /\ th'[u] = th[u]
      BY <1>1, <2>2, IdleFacts DEF OthersStay, Threads
    <3>2. Packaged(u)' = Packaged(u)
      BY <1>0, <3>1 DEF Packaged
    <3>3. Packaged(u) \cap Packaged(t) = {}
      BY <3>1 DEF Packaged
    <3> QED
      BY <1>0, <1>4, <2>2, <3>1, <3>2, <3>3 DEF TakenOK
  <2> QED
    BY <1>0, <1>4, <2>1, <2>2 DEF TakenOK
<1>10. UnmapsOK'
  BY <1>0, InvParts DEF UnmapsOK
<1>11. OwedOK'
  <2>1. Narrowed' = Narrowed
    BY <1>0 DEF Narrowed
  <2>2. ASSUME NEW p \in mapped \ mapped' PROVE <<p[1], p[2], t>> \in taken'
    <3>1. p = <<p[1], p[2]>> /\ p[1] \in E /\ p[2] = s
      BY <1>4, <1>0, <2>2 DEF Pairs, TablesOK
    <3> QED
      BY <1>2, <1>4, <2>2, <3>1
  <2>3. taken \subseteq taken'
    BY <1>4
  <2>4. OwedOK
    BY InvParts
  <2> SUFFICES ASSUME NEW p \in owed
               PROVE  \/ p \in mapped' \cup received' \cup lost' \cup Narrowed'
                      \/ \E u \in Envs : <<p[1], p[2], u>> \in taken'
                      \/ Called(p)'
    BY <1>0 DEF OwedOK
  <2> QED
    BY <1>0, <1>1, <2>1, <2>2, <2>3, <2>4 DEF OwedOK
<1> QED
  BY <1>1, <1>6, <1>7, <1>9, <1>10, <1>11 DEF IInv, EventsOK

--------------------------------------------------------------------------------
(* An event arrives.                                                            *)

\* The new event is mapped to everyone whose filters, as the binding made them, accept it:
\* where that differs from what the application asked for, the names have run together.
LEMMA HandleEventsStep ==
    ASSUME IInv, HandleEvents
    PROVE  IInv'
<1>0. /\ TablesOK /\ MemoryOK /\ TakenOK /\ Io \in Threads /\ Threads = Envs \cup {Io}
      /\ \A u \in Threads : PlaceOK(u) /\ th[u] \in ThreadRecords
      /\ th[Io] = Idle
      /\ UNCHANGED <<rows, lastSeq, managerVars, envVars, taskVars, held, zeroing, boundVars,
                     received, taken, repeated, lost, bare>>
      /\ UNCHANGED <<watchers, restored, objs, destroyed, records, hooked, envs, deaf, loop, unmaps,
                     calls, faults, crashes>>
  BY InvParts DEF HandleEvents, Threads, managerVars, envVars, taskVars, boundVars
<1>1. PICK e : e = inserted + 1 /\ e \in Events /\ inserted' = e
  BY DEF HandleEvents
<1>2. /\ mapped' = mapped \cup
            {<<e, m[2]>> : m \in {k \in Mappable : k[2] # 0 /\ VerifyEvent(BuiltFilters(k[1]), e)}}
      /\ owed' = owed \cup
            {<<e, m[2]>> : m \in {k \in Mappable : k[2] = rows[k[1]] /\ VerifyEvent(Filters[k[1]], e)}}
      /\ th' = IF Live = {} THEN th
               ELSE [th EXCEPT ![Io] = [Idle EXCEPT !.pc = "send", !.todo = Live, !.events = {e}]]
  BY <1>1 DEF HandleEvents
<1>3. inserted \in Nat /\ inserted' \in 0..Len(Attributes) /\ e \notin 1..inserted
      /\ e \in 1..inserted' /\ 1..inserted \subseteq 1..inserted'
  BY <1>0, <1>1, Constants DEF TablesOK, Events
<1>4. \A m \in Mappable : m[2] # 0 => m[2] \in Seqs
  BY MappableFacts DEF Seqs
<1>5. mapped' \subseteq (1..inserted') \X Seqs
  BY <1>0, <1>2, <1>3, <1>4 DEF TablesOK
<1>6. owed' \subseteq Events \X Seqs
  BY <1>0, <1>1, <1>2, <1>4, MappableFacts DEF TablesOK
<1>7. TablesOK'
  BY <1>0, <1>3, <1>5, <1>6 DEF TablesOK
<1>8. th' \in [Threads -> ThreadRecords] /\ OthersStay(Io)
      /\ \/ th'[Io] = th[Io]
         \/ /\ th'[Io].pc = "send" /\ th'[Io].obj = 0 /\ th'[Io].todo = Live
  <2>1. CASE Live = {}
    BY <1>0, <1>2, <2>1 DEF MemoryOK, OthersStay
  <2>2. CASE Live # {}
    <3>1. PICK d : d = [Idle EXCEPT !.pc = "send", !.todo = Live, !.events = {e}]
      OBVIOUS
    <3>2. d = [pc |-> "send", obj |-> 0, todo |-> Live, events |-> {e}]
      BY <3>1 DEF Idle
    <3>3. d \in ThreadRecords
      BY <1>0, <1>1, <3>2, Constants, ObjectFacts DEF ThreadRecords, Pcs
    <3>4. th' = [th EXCEPT ![Io] = d]
      BY <1>2, <2>2, <3>1
    <3> QED
      BY <1>0, <3>2, <3>3, <3>4, ThreadSet
  <2> QED
    BY <2>1, <2>2
<1>9. MemoryOK'
  BY <1>0, <1>8 DEF MemoryOK
<1>10. ASSUME NEW u \in Threads PROVE Moves(u) /\ PlaceOK(u)'
  <2>1. CASE th'[u] = th[u]
    BY <1>0, <2>1, Stays, PlaceStays
  <2>2. CASE th'[u] # th[u]
    <3>1. u = Io /\ u \notin Envs
      BY <1>8, <2>2, Constants DEF OthersStay
    <3> QED
      BY <1>0, <1>8, <2>2, <3>1 DEF Moves, PlaceOK
  <2> QED
    BY <2>1, <2>2
<1>11. ObjectsOK'
  BY <1>0, <1>10, ObjectsStay
<1>12. \A u \in Envs : th'[u] = th[u]
  BY <1>0, <1>8, Constants DEF OthersStay
<1>13. TasksOK'
  <2>1. ObjectsGrow
    BY <1>0 DEF ObjectsGrow, B
  <2> QED
    BY <1>0, <1>12, <2>1, TasksStay DEF Tasks
<1>14. TakenOK'
  <2>1. \A p \in mapped' : p \in mapped \/ p[1] = e
    BY <1>2
  <2>2. \A u \in Envs : Packaged(u)' = Packaged(u)
    BY <1>0, <1>12 DEF Packaged
  <2>3. \A f, s, t : <<f, s, t>> \in taken' => f \in 1..inserted' /\ <<f, s>> \notin mapped'
    BY <1>0, <1>3, <2>1 DEF TakenOK
  <2> QED
    BY <1>0, <1>3, <1>12, <2>2, <2>3 DEF TakenOK
<1>15. UnmapsOK'
  BY <1>0, InvParts DEF UnmapsOK
<1>16. OwedOK'
  <2>1. ASSUME NEW p \in owed
        PROVE  \/ p \in mapped' \cup received' \cup lost' \cup Narrowed'
               \/ \E t \in Envs : <<p[1], p[2], t>> \in taken'
               \/ Called(p)'
    <3>1. p \in Narrowed => p \in Narrowed'
      BY <1>0, <1>2 DEF Narrowed
    <3>2. Called(p) => Called(p)'
      <4> SUFFICES ASSUME Called(p) PROVE Called(p)'
        OBVIOUS
      <4>1. PICK u \in Threads : /\ th[u].pc = "call" /\ p[1] \in EventsFor(u, th[u].obj)
                                 /\ p[2] = objs[th[u].obj].row
        BY DEF Called
      <4>2. th'[u] = th[u]
        BY <1>0, <1>12, <4>1, IdleFacts
      <4> QED
        BY <1>0, <4>1, <4>2, CalledStays
    <3> QED
      BY <1>0, <1>2, <3>1, <3>2, InvParts DEF OwedOK
  <2>2. ASSUME NEW k \in Mappable, k[2] = rows[k[1]], VerifyEvent(Filters[k[1]], e)
        PROVE  <<e, k[2]>> \in mapped' \cup Narrowed'
    <3>1. k[1] \in Watchers /\ k[2] # 0
      BY <2>2, MappableFacts
    <3>2. CASE VerifyEvent(BuiltFilters(k[1]), e)
      BY <1>2, <3>1, <3>2
    <3>3. CASE ~VerifyEvent(BuiltFilters(k[1]), e)
      <4>1. Binding[k[1]] = "cj"
        BY <1>1, <2>2, <3>1, <3>3, FiltersWiden
      <4>2. <<e, k[2]>> \in owed'
        BY <1>2, <2>2
      <4> QED
        BY <1>0, <2>2, <3>1, <3>3, <4>1, <4>2 DEF Narrowed
    <3> QED
      BY <3>2, <3>3
  <2>3. ASSUME NEW p \in owed' \ owed PROVE p \in mapped' \cup Narrowed'
    <3>1. PICK k \in Mappable : k[2] = rows[k[1]] /\ VerifyEvent(Filters[k[1]], e) /\ p = <<e, k[2]>>
      BY <1>2, <2>3
    <3> QED
      BY <2>2, <3>1
  <2> QED
    BY <2>1, <2>3 DEF OwedOK
<1> QED
  BY <1>7, <1>9, <1>11, <1>13, <1>14, <1>15, <1>16 DEF IInv, EventsOK

--------------------------------------------------------------------------------
(* A watcher is added.                                                          *)

LEMMA AddedObject ==
    ASSUME IInv, NEW o \in ObjectRecords, objs' = Append(objs, o)
    PROVE  /\ objs' \in Seq(ObjectRecords) /\ Len(objs') = Len(objs) + 1
           /\ DOMAIN objs' = DOMAIN objs \cup {Len(objs) + 1}
           /\ Len(objs) + 1 \notin DOMAIN objs /\ Len(objs) + 1 # 0
           /\ objs'[Len(objs) + 1] = o
           /\ \A n \in DOMAIN objs : objs'[n] = objs[n]
<1>1. objs \in Seq(ObjectRecords) /\ Len(objs) \in Nat /\ DOMAIN objs = 1..Len(objs)
  BY InvParts, ObjectFacts DEF MemoryOK
<1>2. PICK s : s = objs /\ s \in Seq(ObjectRecords)
  BY <1>1
<1>3. Append(s, o) \in Seq(ObjectRecords) /\ Len(Append(s, o)) = Len(s) + 1
  BY <1>2
<1>4. DOMAIN objs' = 1..(Len(objs) + 1)
  BY <1>1, <1>2, <1>3
<1>5. objs'[Len(objs) + 1] = o /\ \A n \in DOMAIN objs : objs'[n] = objs[n]
  BY <1>1, <1>2
<1> QED
  BY <1>1, <1>2, <1>3, <1>4, <1>5

\* Thread t makes an object of w, which it goes on to publish if the manager accepted it.
Makes(t, w, o, d) ==
    /\ o \in ObjectRecords /\ d \in ThreadRecords
    /\ o.watcher = w /\ o.env = t /\ o.gen = envs[t].gen /\ o.seq = o.row
    /\ objs' = Append(objs, o)
    /\ th' = [th EXCEPT ![t] = d]
    /\ \/ d = Idle
       \/ /\ d.obj = Len(objs) + 1 /\ o.row # 0 /\ rows'[w] = o.row
          /\ \/ d.pc = "publish" /\ d.todo = {}
             \/ d.pc = "send" /\ d.todo = {Len(objs) + 1}
    /\ \/ rows' = rows
       \/ rows[w] = 0 /\ ~Known(w) /\ rows' = [rows EXCEPT ![w] = o.row]

LEMMA MakesObjects ==
    ASSUME IInv, NEW t \in Envs, NEW w \in Watchers, NEW o, NEW d, Makes(t, w, o, d),
           Free(t), ~BeingAdded(w), UNCHANGED <<watchers, restored, destroyed, envVars, zeroing>>
    PROVE  /\ ObjectsOK' /\ ObjectsGrow
           /\ th' \in [Threads -> ThreadRecords] /\ th'[t] = d /\ OthersStay(t)
           /\ \A p \in owed : Called(p) => Called(p)'
<1>0. /\ TablesOK /\ MemoryOK /\ NamesOK /\ HooksOK /\ RefsOK
      /\ t \in Threads /\ Threads = Envs \cup {Io} /\ t # Io
      /\ \A u \in Threads : PlaceOK(u) /\ th[u] \in ThreadRecords
      /\ th[t] = Idle /\ envs[t].there
      /\ UNCHANGED <<watchers, restored, destroyed, records, hooked, envs, deaf, zeroing>>
  BY InvParts, Constants DEF Threads, envVars, Free
<1>1. PICK n : n = Len(objs) + 1
  OBVIOUS
<1>2. /\ DOMAIN objs' = DOMAIN objs \cup {n} /\ n \notin DOMAIN objs /\ n # 0 /\ objs'[n] = o
      /\ \A m \in DOMAIN objs : objs'[m] = objs[m]
  BY <1>1, AddedObject DEF Makes
<1>3. th' \in [Threads -> ThreadRecords] /\ th'[t] = d /\ OthersStay(t)
  BY <1>0, ThreadSet DEF Makes
<1>4. \A m \in DOMAIN objs : B(m)' = B(m) /\ EnvOf(m)' = EnvOf(m)
  BY <1>2 DEF B, EnvOf
<1>5. ObjectsGrow
  BY <1>2, <1>4 DEF ObjectsGrow
<1>6. \A u : EnvIs(u)' = EnvIs(u)
  BY <1>0 DEF EnvIs
<1>7. Live' = Live /\ Live \cup zeroing \subseteq DOMAIN objs
  BY <1>0, ObjectFacts DEF Live, MemoryOK
<1>8. \A u \in Threads : th[u].todo \subseteq DOMAIN objs /\ th[u].obj \in DOMAIN objs \cup {0}
  BY <1>0, InList DEF PlaceOK
<1>9. d = Idle \/ /\ d.obj = n /\ o.row # 0 /\ rows'[w] = o.row
                  /\ d.pc \in {"publish", "send"} /\ d.todo = IF d.pc = "send" THEN {n} ELSE {}
  BY <1>1 DEF Makes
<1>10. \A u \in Threads \ {t} : th'[u] = th[u]
  BY <1>3 DEF OthersStay
<1>11. EnvOf(n)' = EnvIs(t)
  BY <1>0, <1>2 DEF EnvOf, EnvIs, Makes
<1>12. ASSUME NEW u \in Threads PROVE PlaceOK(u)'
  <2>1. CASE u # t
    <3>1. th'[u] = th[u] /\ (th[u].obj # 0 => B(th[u].obj)' = B(th[u].obj) /\ EnvOf(th[u].obj)' = EnvOf(th[u].obj))
      BY <1>4, <1>8, <1>10, <2>1
    <3>2. PlaceOK(u)
      BY <1>0
    <3>3. th[u].pc \in {"record", "holder"} /\ u \in Envs => th[u].obj # 0
      BY <3>2, Constants DEF PlaceOK
    <3> QED
      BY <1>0, <1>2, <1>6, <3>1, <3>2, <3>3, Constants DEF PlaceOK
  <2>2. CASE u = t
    <3>1. CASE d = Idle
      BY <1>0, <1>3, <2>2, <3>1, IdleFacts DEF PlaceOK
    <3>2. CASE d # Idle
      BY <1>0, <1>2, <1>3, <1>6, <1>9, <1>11, <2>2, <3>2 DEF PlaceOK
    <3> QED
      BY <3>1, <3>2
  <2> QED
    BY <2>1, <2>2
<1>13. \A u \in Envs : th[u].obj # 0 => th'[u] = th[u] /\ objs[th[u].obj].watcher # w
  BY <1>0, <1>10, IdleFacts DEF BeingAdded
<1>14. \A u \in Envs : th'[u].obj # 0 => \/ u # t /\ th[u].obj # 0 /\ th'[u] = th[u]
                                               /\ objs'[th'[u].obj] = objs[th[u].obj]
                                               /\ objs[th[u].obj].watcher # w
                                         \/ u = t /\ d # Idle /\ th'[u].obj = n /\ objs'[th'[u].obj] = o
  BY <1>0, <1>2, <1>3, <1>8, <1>9, <1>10, <1>13, IdleFacts
<1>15. \A v \in Watchers : v # w \/ Known(w) => rows'[v] = rows[v]
  BY <1>0 DEF Makes, TablesOK
<1>16. o.watcher = w /\ o.seq = o.row /\ o.env = t
  BY DEF Makes
<1>17. NamesOK'
  <2>1. ASSUME NEW u \in Envs, NEW v \in Envs, th'[u].obj # 0, th'[v].obj # 0, u # v
        PROVE  objs'[th'[u].obj].watcher # objs'[th'[v].obj].watcher
    BY <1>0, <1>14, <1>16, <2>1 DEF NamesOK
  <2>2. ASSUME NEW u \in Envs, Unpublished(u)'
        PROVE  /\ th'[u].obj \notin Live' \cup zeroing'
               /\ objs'[th'[u].obj].seq = objs'[th'[u].obj].row
               /\ rows'[objs'[th'[u].obj].watcher] \in {0, objs'[th'[u].obj].row}
    <3>1. CASE u # t
      <4>1. th'[u].obj # 0 /\ th'[u].pc \in {"send", "call", "publish"}
        BY <2>2 DEF Unpublished
      <4>2. Unpublished(u)
        BY <1>14, <3>1, <4>1 DEF Unpublished
      <4>3. objs[th[u].obj].watcher \in Watchers
        BY <1>0, <1>8, <1>14, <3>1, <4>1, ObjectFacts DEF ObjectRecords
      <4> QED
        BY <1>0, <1>7, <1>14, <1>15, <3>1, <4>1, <4>2, <4>3 DEF NamesOK
    <3>2. CASE u = t
      BY <1>0, <1>2, <1>7, <1>9, <1>14, <1>16, <2>2, <3>2 DEF Unpublished
    <3> QED
      BY <3>1, <3>2
  <2>3. \A v \in Watchers : watchers'[v] # 0 =>
            /\ objs'[watchers'[v]].watcher = v /\ watchers'[v] \notin zeroing'
            /\ objs'[watchers'[v]].seq = objs'[watchers'[v]].row
            /\ rows'[v] \in {0, objs'[watchers'[v]].row}
    <3>1. \A v \in Watchers : watchers[v] # 0 => watchers[v] \in DOMAIN objs /\ rows'[v] = rows[v]
      BY <1>7, <1>15 DEF Live, Known
    <3> QED
      BY <1>0, <1>2, <3>1 DEF NamesOK
  <2>4. \A v \in restored' : rows'[v] # 0 /\ watchers'[v] = 0
    BY <1>0, <1>15 DEF NamesOK, Known, MemoryOK
  <2> QED
    BY <2>1, <2>2, <2>3, <2>4 DEF NamesOK
<1>18. HooksOK'
  BY <1>0 DEF HooksOK
<1>19. RefsOK'
  <2> SUFFICES ASSUME NEW m, m # 0, Referenced(m)'
               PROVE  m \in DOMAIN objs' \ destroyed' /\ SeqOK(m)' /\ HolderOK(m)' /\ EnvOK(m)'
    BY <1>0 DEF RefsOK
  <2>1. CASE m # n
    <3>1. Referenced(m)
      BY <1>0, <1>3, <1>7, <1>9, <1>10, <2>1, IdleFacts DEF Referenced
    <3>2. m \in DOMAIN objs \ destroyed /\ SeqOK(m) /\ HolderOK(m) /\ EnvOK(m)
      BY <1>0, <3>1 DEF RefsOK
    <3>3. objs'[m] = objs[m] /\ B(m)' = B(m) /\ EnvOf(m)' = EnvOf(m) /\ objs[m].env \in Envs
      BY <1>2, <1>4, <1>0, <3>2, ObjectFacts DEF ObjectRecords
    <3>4. th[objs[m].env].obj = m => th'[objs[m].env] = th[objs[m].env]
      BY <1>13, <3>3
    <3>5. SeqOK(m)'
      BY <1>0, <3>2, <3>3 DEF SeqOK
    <3>6. HolderOK(m)'
      BY <3>2, <3>3, <3>4 DEF HolderOK
    <3>7. EnvIs(objs[m].env)' = EnvIs(objs[m].env)
      BY <1>0, <3>3 DEF EnvIs
    <3>8. EnvOK(m)'
      BY <1>0, <3>2, <3>3, <3>4, <3>7 DEF EnvOK
    <3> QED
      BY <1>0, <1>2, <3>2, <3>5, <3>6, <3>8
  <2>2. CASE m = n
    <3>1. d # Idle
      BY <1>0, <1>2, <1>3, <1>7, <1>8, <1>10, <2>2, IdleFacts DEF Referenced
    <3>2. n \in DOMAIN objs' \ destroyed'
      BY <1>0, <1>2 DEF MemoryOK
    <3>3. SeqOK(n)'
      BY <1>0, <1>2, <1>7, <1>9, <1>16, <3>1 DEF SeqOK
    <3>4. HolderOK(n)'
      BY <1>2, <1>3, <1>9, <1>16, <3>1 DEF HolderOK
    <3>5. EnvIs(t)' = EnvIs(t)
      BY <1>6
    <3>6. EnvOK(n)'
      BY <1>0, <1>2, <1>3, <1>9, <1>11, <1>16, <3>1, <3>5 DEF EnvOK
    <3> QED
      BY <2>2, <3>2, <3>3, <3>4, <3>6
  <2> QED
    BY <2>1, <2>2
<1>20. ASSUME NEW p \in owed, Called(p) PROVE Called(p)'
  <2>1. PICK u \in Threads : /\ th[u].pc = "call" /\ p[1] \in EventsFor(u, th[u].obj)
                             /\ p[2] = objs[th[u].obj].row
    BY <1>20 DEF Called
  <2>2. th'[u] = th[u] /\ th[u].obj \in DOMAIN objs
    BY <1>0, <1>8, <1>10, <2>1, IdleFacts DEF PlaceOK
  <2> QED
    BY <1>2, <2>1, <2>2, CalledStays
<1> QED
  BY <1>3, <1>5, <1>12, <1>17, <1>18, <1>19, <1>20 DEF ObjectsOK

\* The object takes the row of its name, or a new row if there is none.
LEMMA AddWatcherMakes ==
    ASSUME IInv, NEW t \in Envs, NEW w \in Watchers, NEW receives \in BOOLEAN, AddWatcher(t, w, receives)
    PROVE  /\ \E o, d : Makes(t, w, o, d) /\ d.pc # "take"
           /\ rows' \in [Watchers -> 0..MaxCalls] /\ lastSeq' \in 0..MaxCalls /\ lastSeq' <= calls'
           /\ faults' \in Nat /\ calls' = calls + 1 /\ calls' <= MaxCalls
           /\ \A v \in Watchers : rows[v] # 0 => rows'[v] = rows[v]
<1>0. /\ TablesOK /\ MemoryOK /\ Free(t) /\ calls < MaxCalls /\ calls' = calls + 1
      /\ (Known(w) <=> rows[w] # 0)
      /\ Len(objs) \in Nat /\ Len(objs) <= calls /\ lastSeq <= calls /\ calls \in Nat
      /\ rows \in [Watchers -> 0..MaxCalls] /\ lastSeq \in Nat /\ faults \in Nat /\ MaxCalls \in Nat
      /\ envs[t].gen \in 1..MaxEnvs
  <2>1. TablesOK /\ MemoryOK /\ Free(t) /\ calls < MaxCalls /\ calls' = calls + 1
        /\ (Known(w) <=> rows[w] # 0)
    BY InvParts DEF AddWatcher
  <2>2. Len(objs) \in Nat /\ Len(objs) <= calls /\ envs[t].gen \in 1..MaxEnvs
    BY <2>1, ObjectFacts DEF MemoryOK
  <2> QED
    BY <2>1, <2>2, Constants, SMTT(20) DEF TablesOK
<1>1. PICK n : n = Len(objs) + 1 /\ n \in Objects
  BY <1>0 DEF Objects
<1>2. DEFINE Object(s) == [watcher |-> w, receives |-> receives, env |-> t, gen |-> envs[t].gen,
                           row |-> s, seq |-> s, open |-> TRUE, holder |-> "none"]
<1>3. \A s \in 0..MaxCalls : /\ Object(s) \in ObjectRecords /\ Object(s).watcher = w
                             /\ Object(s).env = t /\ Object(s).gen = envs[t].gen
                             /\ Object(s).seq = Object(s).row /\ Object(s).row = s
  BY <1>0 DEF ObjectRecords
<1>4. CASE /\ ~Known(w)
           /\ lastSeq' = lastSeq + 1
           /\ rows' = InsertObserver(w, lastSeq')
           /\ objs' = Append(objs, Object(lastSeq'))
           /\ th' = [th EXCEPT ![t] = [Idle EXCEPT !.pc = "publish", !.obj = n]]
           /\ UNCHANGED faults
  <2>1. PICK s : s = lastSeq + 1 /\ s \in 0..MaxCalls /\ s # 0 /\ s <= calls'
    BY <1>0
  <2>2. PICK d : d = [Idle EXCEPT !.pc = "publish", !.obj = n]
    OBVIOUS
  <2>3. d = [pc |-> "publish", obj |-> n, todo |-> {}, events |-> {}]
    BY <2>2 DEF Idle
  <2>4. d \in ThreadRecords
    BY <1>1, <2>3, Constants DEF ThreadRecords, Pcs
  <2>5. rows' = [rows EXCEPT ![w] = s] /\ rows[w] = 0
    BY <1>0, <1>4, <2>1 DEF InsertObserver
  <2>6. rows'[w] = s /\ rows' \in [Watchers -> 0..MaxCalls]
        /\ \A v \in Watchers : rows[v] # 0 => rows'[v] = rows[v]
    BY <1>0, <2>1, <2>5
  <2>a. PICK o : o = Object(s)
    OBVIOUS
  <2>b. /\ o \in ObjectRecords /\ o.watcher = w /\ o.env = t /\ o.gen = envs[t].gen
        /\ o.seq = o.row /\ o.row = s
    BY <1>3, <2>1, <2>a
  <2>c. objs' = Append(objs, o)
    BY <1>0, <1>4, <2>1, <2>a
  <2>d. th' = [th EXCEPT ![t] = d] /\ ~Known(w)
    BY <1>4, <2>2
  <2>e. rows[w] = 0 /\ rows' = [rows EXCEPT ![w] = o.row] /\ o.row # 0 /\ rows'[w] = o.row
    BY <2>1, <2>5, <2>6, <2>b
  <2>f. d.obj = Len(objs) + 1 /\ d.pc = "publish" /\ d.todo = {}
    BY <1>1, <2>3
  <2>7. Makes(t, w, o, d)
    BY <2>4, <2>b, <2>c, <2>d, <2>e, <2>f DEF Makes
  <2> QED
    BY <1>0, <1>4, <2>1, <2>3, <2>6, <2>7
<1>5. CASE /\ Known(w)
           /\ objs' = Append(objs, Object(rows[w]))
           /\ th' = [th EXCEPT ![t] = [pc |-> "send", obj |-> n, todo |-> {n},
                                       events |-> {p[1] : p \in {q \in mapped : q[2] = rows[w]}}]]
           /\ UNCHANGED <<lastSeq, rows, faults>>
  <2>1. PICK s : s = rows[w] /\ s \in 0..MaxCalls /\ s # 0
    BY <1>0, <1>5
  <2>2. PICK d : d = [pc |-> "send", obj |-> n, todo |-> {n},
                      events |-> {p[1] : p \in {q \in mapped : q[2] = rows[w]}}]
    OBVIOUS
  <2>3. {p[1] : p \in {q \in mapped : q[2] = rows[w]}} \subseteq Events
    BY <1>0, MappedFacts
  <2>4. d \in ThreadRecords
    BY <1>1, <2>2, <2>3, Constants DEF ThreadRecords, Pcs
  <2>5. Makes(t, w, Object(s), d)
    BY <1>1, <1>3, <1>5, <2>1, <2>2, <2>4 DEF Makes
  <2> QED
    BY <1>0, <1>5, <2>2, <2>5
<1>6. CASE /\ Fault
           /\ objs' = Append(objs, Object(0))
           /\ UNCHANGED <<lastSeq, rows, th>>
  <2>1. th' = [th EXCEPT ![t] = Idle]
    BY <1>0, <1>6 DEF Free, MemoryOK
  <2>a. PICK o : o = Object(0)
    OBVIOUS
  <2>b. o \in ObjectRecords /\ o.watcher = w /\ o.env = t /\ o.gen = envs[t].gen /\ o.seq = o.row
    BY <1>0, <1>3, <2>a
  <2>2. Makes(t, w, o, Idle)
    BY <1>6, <2>1, <2>a, <2>b, IdleFacts DEF Makes
  <2> QED
    BY <1>0, <1>6, <2>2, IdleFacts DEF Fault
<1>7. \/ /\ ~Known(w)
         /\ lastSeq' = lastSeq + 1
         /\ rows' = InsertObserver(w, lastSeq')
         /\ objs' = Append(objs, Object(lastSeq'))
         /\ th' = [th EXCEPT ![t] = [Idle EXCEPT !.pc = "publish", !.obj = n]]
         /\ UNCHANGED faults
      \/ /\ Known(w)
         /\ objs' = Append(objs, Object(rows[w]))
         /\ th' = [th EXCEPT ![t] = [pc |-> "send", obj |-> n, todo |-> {n},
                                     events |-> {p[1] : p \in {q \in mapped : q[2] = rows[w]}}]]
         /\ UNCHANGED <<lastSeq, rows, faults>>
      \/ /\ Fault
         /\ objs' = Append(objs, Object(0))
         /\ UNCHANGED <<lastSeq, rows, th>>
  BY <1>1 DEF AddWatcher
<1> QED
  BY <1>4, <1>5, <1>6, <1>7

LEMMA AddWatcherStep ==
    ASSUME IInv, NEW t \in Envs, NEW w \in Watchers, NEW receives \in BOOLEAN, AddWatcher(t, w, receives)
    PROVE  IInv'
<1>0. /\ TablesOK /\ MemoryOK /\ TasksOK /\ Free(t) /\ ~BeingAdded(w) /\ th[t] = Idle
      /\ UNCHANGED <<inserted, mapped, watchers, restored, destroyed, envVars, taskVars, held, zeroing,
                     crashes, bookVars>>
      /\ UNCHANGED <<records, hooked, envs, deaf, loop, unmaps, owed, received, taken, repeated, lost, bare>>
  BY InvParts DEF AddWatcher, Free, envVars, taskVars, bookVars
<1>1. /\ rows' \in [Watchers -> 0..MaxCalls] /\ lastSeq' \in 0..MaxCalls /\ lastSeq' <= calls'
      /\ faults' \in Nat /\ calls' = calls + 1 /\ calls' <= MaxCalls
      /\ \A v \in Watchers : rows[v] # 0 => rows'[v] = rows[v]
  BY AddWatcherMakes
<1>2. PICK o, d : Makes(t, w, o, d) /\ d.pc # "take"
  BY AddWatcherMakes
<1>3. /\ objs' \in Seq(ObjectRecords) /\ Len(objs') = Len(objs) + 1
      /\ DOMAIN objs \subseteq DOMAIN objs'
  BY <1>2, AddedObject DEF Makes
<1>4. /\ ObjectsOK' /\ ObjectsGrow
      /\ th' \in [Threads -> ThreadRecords] /\ th'[t] = d /\ OthersStay(t)
      /\ \A p \in owed : Called(p) => Called(p)'
  BY <1>0, <1>2, MakesObjects
<1>5. TablesOK'
  BY <1>0, <1>1 DEF TablesOK
<1>6. MemoryOK'
  <2>1. Len(objs) \in Nat /\ Len(objs) <= calls /\ calls \in Nat /\ Len(objs') <= calls'
    BY <1>0, <1>1, <1>3, ObjectFacts, SMTT(20) DEF MemoryOK, TablesOK
  <2>2. watchers' \in [Watchers -> 0..Len(objs')]
    BY <1>0, <1>3, <2>1 DEF MemoryOK
  <2>3. destroyed' \subseteq DOMAIN objs' /\ records' \subseteq DOMAIN objs'
        /\ zeroing' \subseteq DOMAIN objs' /\ bare' \subseteq DOMAIN objs'
    BY <1>0, <1>3 DEF MemoryOK
  <2> QED
    BY <1>0, <1>3, <1>4, <2>1, <2>2, <2>3 DEF MemoryOK
<1>7. TasksOK'
  <2>1. \A u \in Envs : th[u].obj \in {0, th'[u].obj}
    BY <1>0, <1>4, IdleFacts DEF OthersStay, Threads
  <2> QED
    BY <1>0, <1>4, <2>1, TasksStay DEF Tasks
<1>8. \A u \in Envs : th'[u].pc = "take" => th'[u] = th[u] /\ held'[u] = held[u]
  BY <1>0, <1>2, <1>4 DEF OthersStay, Threads
<1>9. EventsOK'
  BY <1>0, <1>1, <1>4, <1>8, EventsStay
<1> QED
  BY <1>4, <1>5, <1>6, <1>7, <1>9 DEF IInv

--------------------------------------------------------------------------------
(* The watcher is published, recorded for its environment and given a holder.   *)

\* Thread t, done with one part of adding its watcher, goes on to the next.
LEMMA AddingThread ==
    ASSUME IInv, NEW t \in Envs, th[t].pc \in {"publish", "record", "holder"},
           NEW d \in ThreadRecords, th' = [th EXCEPT ![t] = d],
           d.pc \in {"idle", "record", "holder"}
    PROVE  /\ th[t].obj \in DOMAIN objs /\ th[t].obj # 0 /\ th[t].todo = {}
           /\ envs[t].there /\ EnvOf(th[t].obj) = EnvIs(t) /\ objs[th[t].obj].env = t
           /\ Referenced(th[t].obj)
           /\ th' \in [Threads -> ThreadRecords] /\ th'[t] = d
           /\ \A u \in Threads \ {t} : th'[u] = th[u]
           /\ \A u \in Envs \ {t} : th'[u] = th[u] /\ u \in Threads
           /\ t \in Threads /\ t # Io
           /\ (\A n \in DOMAIN objs : /\ objs'[n].row = objs[n].row
                                      /\ objs'[n].watcher = objs[n].watcher)
              => \A p \in owed : Called(p) => Called(p)'
<1>0. /\ MemoryOK /\ t \in Threads /\ t # Io /\ Threads = Envs \cup {Io} /\ PlaceOK(t)
      /\ \A u \in Threads : PlaceOK(u)
  BY InvParts, Constants DEF Threads
<1>1. th' \in [Threads -> ThreadRecords] /\ th'[t] = d /\ OthersStay(t)
  BY <1>0, ThreadSet
<1>2. th[t].obj \in DOMAIN objs /\ th[t].obj # 0 /\ th[t].todo = {} /\ envs[t].there
      /\ EnvOf(th[t].obj) = EnvIs(t)
  BY <1>0 DEF PlaceOK
<1>3. ASSUME \A n \in DOMAIN objs : objs'[n].row = objs[n].row /\ objs'[n].watcher = objs[n].watcher,
             NEW p \in owed, Called(p)
      PROVE  Called(p)'
  <2>1. PICK u \in Threads : /\ th[u].pc = "call" /\ p[1] \in EventsFor(u, th[u].obj)
                             /\ p[2] = objs[th[u].obj].row
    BY <1>3 DEF Called
  <2>2. th'[u] = th[u] /\ th[u].obj \in DOMAIN objs
    BY <1>0, <1>1, <2>1 DEF OthersStay, PlaceOK
  <2> QED
    BY <1>3, <2>1, <2>2, CalledStays
<1> QED
  BY <1>0, <1>1, <1>2, <1>3, RefFacts DEF OthersStay, EnvOf, EnvIs

\* Where a thread stands that adds a watcher, or that stays where it is.
LEMMA PlacedAdding ==
    ASSUME NEW t \in Envs, t # Io, th'[t].pc \in {"record", "holder"}, th'[t].todo = {},
           NEW n \in DOMAIN objs', n # 0, th'[t].obj = n, B(n)' # "ndk", envs'[t].there,
           EnvOf(n)' = EnvIs(t)'
    PROVE  PlaceOK(t)'
<1>1. B(th[t].obj)' # "ndk" /\ EnvOf(th[t].obj)' = EnvIs(t)'
  BY DEF B, EnvOf
<1> QED
  BY <1>1 DEF PlaceOK

LEMMA PlacedSame ==
    ASSUME NEW u \in Threads, PlaceOK(u), th'[u] = th[u], DOMAIN objs \subseteq DOMAIN objs',
           \A m \in DOMAIN objs : /\ objs'[m].watcher = objs[m].watcher
                                 /\ objs'[m].env = objs[m].env /\ objs'[m].gen = objs[m].gen,
           u \in Envs /\ th[u].obj # 0 =>
                (envs[u].there => envs'[u].there) /\ envs'[u].gen = envs[u].gen
    PROVE  PlaceOK(u)'
<1>1. th[u].obj \in DOMAIN objs => /\ B(th[u].obj)' = B(th[u].obj)
                                  /\ EnvOf(th[u].obj)' = EnvOf(th[u].obj)
  BY DEF B, EnvOf
<1>2. th[u].obj # 0 /\ u \in Envs => EnvIs(u)' = EnvIs(u)
  BY DEF EnvIs
<1>3. th[u].obj # 0 => th[u].obj \in DOMAIN objs
  BY DEF PlaceOK
<1>4. CASE u = Io
  BY <1>1, <1>3, <1>4 DEF PlaceOK
<1>5. CASE u # Io
  <2>1. u \in Envs
    BY <1>5 DEF Threads
  <2>2. CASE th[u].obj = 0
    <3>1. th[u].pc \in {"idle", "take"} /\ th[u].todo = {}
      BY <1>5, <2>2 DEF PlaceOK
    <3> QED
      BY <1>5, <2>2, <3>1 DEF PlaceOK
  <2>3. CASE th[u].obj # 0
    BY <1>1, <1>2, <1>3, <1>5, <2>1, <2>3 DEF PlaceOK
  <2> QED
    BY <2>2, <2>3
<1> QED
  BY <1>4, <1>5

LEMMA PublishStep ==
    ASSUME IInv, NEW t \in Envs, Publish(t)
    PROVE  IInv'
<1>0. /\ TablesOK /\ MemoryOK /\ TasksOK /\ NamesOK /\ HooksOK /\ RefsOK /\ th[t].pc = "publish"
      /\ Threads = Envs \cup {Io}
      /\ \A u \in Threads : PlaceOK(u) /\ th[u] \in ThreadRecords
      /\ UNCHANGED <<tableVars, objs, destroyed, envVars, taskVars, held, zeroing, boundVars, bookVars>>
      /\ UNCHANGED <<inserted, mapped, rows, lastSeq, records, hooked, envs, deaf, loop, unmaps, calls,
                     faults, crashes, owed, received, taken, repeated, lost, bare>>
  BY InvParts DEF Publish, Threads, tableVars, envVars, taskVars, boundVars, bookVars
<1>1. PICK n : n = th[t].obj
  OBVIOUS
<1>2. PICK w : w = objs[n].watcher
  OBVIOUS
<1>3. watchers' = [watchers EXCEPT ![w] = n] /\ restored' = restored \ {w}
  BY <1>1, <1>2 DEF Publish
<1>4. PICK d : /\ d = IF B(n) = "ndk" THEN Idle
                      ELSE [th[t] EXCEPT !.pc = IF B(n) = "js" THEN "record" ELSE "holder"]
  OBVIOUS
<1>5. th' = [th EXCEPT ![t] = d]
  BY <1>1, <1>4 DEF Publish
<1>6. t \in Threads /\ th[t] \in ThreadRecords
  BY <1>0
<1>7. /\ d \in ThreadRecords /\ d.todo = IF B(n) = "ndk" THEN {} ELSE th[t].todo
      /\ d.obj = IF B(n) = "ndk" THEN 0 ELSE n
      /\ d.pc \in {"idle", "record", "holder"} /\ (d.pc = "idle" <=> B(n) = "ndk")
      /\ B(n) = "js" => d.pc = "record"
  <2>1. CASE B(n) = "ndk"
    BY <1>4, <2>1, IdleFacts
  <2>2. CASE B(n) # "ndk"
    <3>1. PICK c \in ThreadRecords : c = th[t]
      BY <1>6
    <3>2. PICK k : k = IF B(n) = "js" THEN "record" ELSE "holder"
      OBVIOUS
    <3>3. d = [c EXCEPT !.pc = k]
      BY <1>4, <2>2, <3>1, <3>2
    <3>4. d = [pc |-> k, obj |-> c.obj, todo |-> c.todo, events |-> c.events]
      BY <3>3 DEF ThreadRecords
    <3> QED
      BY <1>1, <2>2, <3>1, <3>2, <3>4 DEF ThreadRecords, Pcs
  <2> QED
    BY <2>1, <2>2
<1>8. /\ n \in DOMAIN objs /\ n # 0 /\ th[t].todo = {} /\ envs[t].there /\ EnvOf(n) = EnvIs(t)
      /\ objs[n].env = t /\ Referenced(n)
      /\ th' \in [Threads -> ThreadRecords] /\ th'[t] = d
      /\ \A u \in Threads \ {t} : th'[u] = th[u]
      /\ \A u \in Envs \ {t} : th'[u] = th[u] /\ u \in Threads
      /\ t \in Threads /\ t # Io
  BY <1>0, <1>1, <1>5, <1>7, AddingThread
<1>9. \A p \in owed : Called(p) => Called(p)'
  BY <1>0, <1>5, <1>7, AddingThread
<1>10. w \in Watchers /\ n \in 0..Len(objs)
  BY <1>2, <1>8, InvParts, ObjectFacts DEF ObjectRecords
<1>11. /\ n \notin Live \cup zeroing /\ objs[n].seq = objs[n].row /\ rows[w] \in {0, objs[n].row}
  BY <1>0, <1>1, <1>2, <1>8 DEF NamesOK, Unpublished
<1>12. watchers' \in [Watchers -> 0..Len(objs)] /\ watchers'[w] = n
       /\ \A v \in Watchers \ {w} : watchers'[v] = watchers[v]
  BY <1>0, <1>3, <1>10 DEF MemoryOK
<1>13. Live' \subseteq Live \cup {n}
  BY <1>12 DEF Live
<1>14. \A m : B(m)' = B(m) /\ EnvOf(m)' = EnvOf(m) /\ EnvIs(m)' = EnvIs(m)
  BY <1>0 DEF B, EnvOf, EnvIs
<1>15. TablesOK'
  BY <1>0 DEF TablesOK
<1>16. MemoryOK'
  BY <1>0, <1>3, <1>8, <1>12 DEF MemoryOK
<1>17. ASSUME NEW u \in Threads PROVE PlaceOK(u)'
  <2>1. CASE u # t
    BY <1>0, <1>8, <2>1, PlaceStays
  <2>2. CASE u = t
    <3>1. CASE B(n) = "ndk"
      BY <1>0, <1>7, <1>8, <2>2, <3>1 DEF PlaceOK
    <3>2. CASE B(n) # "ndk"
      <4>1. th'[t].obj = n
        BY <1>7, <1>8, <3>2
      <4>2. B(n)' = B(n) /\ EnvOf(n)' = EnvIs(t)' /\ n \in DOMAIN objs' /\ envs'[t].there
        BY <1>0, <1>8 DEF B, EnvOf, EnvIs
      <4>3. th'[t].pc \in {"record", "holder"} /\ th'[t].todo = {}
        BY <1>7, <1>8, <3>2
      <4> QED
        BY <1>8, <2>2, <3>2, <4>1, <4>2, <4>3, PlacedAdding
    <3> QED
      BY <3>1, <3>2
  <2> QED
    BY <2>1, <2>2
<1>18. NamesOK'
  <2>1. \A u \in Envs : th'[u].obj # 0 => th'[u].obj = th[u].obj
    BY <1>1, <1>7, <1>8
  <2>2. ASSUME NEW u \in Envs, Unpublished(u)'
        PROVE  Unpublished(u) /\ th'[u] = th[u] /\ th[u].obj # n
    <3>1. u # t
      BY <1>7, <1>8, <2>2 DEF Unpublished
    <3> QED
      BY <1>0, <1>1, <1>8, <2>2, <3>1 DEF Unpublished, NamesOK
  <2>3. \A u, v \in Envs : th'[u].obj # 0 /\ th'[v].obj # 0 /\ u # v =>
            objs'[th'[u].obj].watcher # objs'[th'[v].obj].watcher
    BY <1>0, <2>1 DEF NamesOK
  <2>4. \A u \in Envs : Unpublished(u)' =>
            /\ th'[u].obj \notin Live' \cup zeroing'
            /\ objs'[th'[u].obj].seq = objs'[th'[u].obj].row
            /\ rows'[objs'[th'[u].obj].watcher] \in {0, objs'[th'[u].obj].row}
    BY <1>0, <1>13, <2>2 DEF NamesOK
  <2>5. \A v \in Watchers : watchers'[v] # 0 =>
            /\ objs'[watchers'[v]].watcher = v /\ watchers'[v] \notin zeroing'
            /\ objs'[watchers'[v]].seq = objs'[watchers'[v]].row
            /\ rows'[v] \in {0, objs'[watchers'[v]].row}
    BY <1>0, <1>2, <1>11, <1>12 DEF NamesOK
  <2>6. \A v \in restored' : rows'[v] # 0 /\ watchers'[v] = 0
    BY <1>0, <1>3, <1>12 DEF NamesOK, MemoryOK
  <2> QED
    BY <2>3, <2>4, <2>5, <2>6 DEF NamesOK
<1>19. HooksOK'
  BY <1>0 DEF HooksOK
<1>20. RefsOK'
  <2> SUFFICES ASSUME NEW m, m # 0, Referenced(m)'
               PROVE  m \in DOMAIN objs' \ destroyed' /\ SeqOK(m)' /\ HolderOK(m)' /\ EnvOK(m)'
    BY <1>0 DEF RefsOK
  <2>1. Referenced(m)
    BY <1>0, <1>7, <1>8, <1>13 DEF Referenced
  <2>2. m \in DOMAIN objs \ destroyed /\ SeqOK(m) /\ HolderOK(m) /\ EnvOK(m)
    BY <1>0, <2>1 DEF RefsOK
  <2>3. objs[m].env \in Envs
    BY <2>2, InvParts, ObjectFacts DEF ObjectRecords
  <2>4. B(m) # "ndk" /\ th[objs[m].env].obj = m => th'[objs[m].env].obj = m
    BY <1>1, <1>7, <1>8, <2>3
  <2>5. B(m) = "js" /\ th[objs[m].env].obj = m /\ th[objs[m].env].pc # "holder" =>
            th'[objs[m].env].pc # "holder"
    BY <1>1, <1>7, <1>8, <2>3
  <2>6. SeqOK(m)'
    BY <1>0, <1>14, <2>2 DEF SeqOK
  <2>7. HolderOK(m)'
    BY <1>0, <1>14, <2>2, <2>4 DEF HolderOK
  <2>8. EnvIs(objs[m].env)' = EnvIs(objs[m].env)
    BY <1>0 DEF EnvIs
  <2>9. EnvOK(m)'
    BY <1>0, <1>14, <2>2, <2>4, <2>5, <2>8 DEF EnvOK
  <2> QED
    BY <1>0, <2>2, <2>6, <2>7, <2>9
<1>21. TasksOK'
  <2>1. ObjectsGrow
    BY <1>0 DEF ObjectsGrow, B
  <2>2. \A u \in Envs : th[u].obj \in {0, th'[u].obj} \/ B(th[u].obj) # "js"
    BY <1>1, <1>7, <1>8
  <2> QED
    BY <1>0, <2>1, <2>2, TasksStay DEF Tasks
<1>22. \A u \in Envs : th'[u].pc = "take" => th'[u] = th[u] /\ held'[u] = held[u]
  BY <1>0, <1>7, <1>8
<1>23. EventsOK'
  BY <1>0, <1>9, <1>22, EventsStay
<1> QED
  BY <1>15, <1>16, <1>17, <1>18, <1>19, <1>20, <1>21, <1>23 DEF IInv, ObjectsOK

\* The hook is there for a record as long as the environment is, if it could be added.
LEMMA AddEnvWatcherRecordStep ==
    ASSUME IInv, NEW t \in Envs, AddEnvWatcherRecord(t)
    PROVE  IInv'
<1>0. /\ TablesOK /\ MemoryOK /\ TasksOK /\ NamesOK /\ HooksOK /\ RefsOK /\ th[t].pc = "record"
      /\ Threads = Envs \cup {Io}
      /\ \A u \in Threads : PlaceOK(u) /\ th[u] \in ThreadRecords
      /\ UNCHANGED <<tableVars, managerVars, deaf, taskVars, held, zeroing, calls, crashes, bookVars>>
      /\ UNCHANGED <<inserted, mapped, rows, lastSeq, watchers, restored, objs, destroyed, loop, unmaps,
                     owed, received, taken, repeated, lost, bare>>
  BY InvParts DEF AddEnvWatcherRecord, Threads, tableVars, managerVars, taskVars, bookVars
<1>1. PICK n : n = th[t].obj /\ records' = records \cup {n}
  BY DEF AddEnvWatcherRecord
<1>2. /\ \/ t \in hooked /\ UNCHANGED <<hooked, envs, faults>>
         \/ /\ t \notin hooked
            /\ hooked' = hooked \cup {t}
            /\ envs' = [envs EXCEPT ![t].hook = TRUE]
            /\ UNCHANGED faults
         \/ t \notin hooked /\ Fault /\ UNCHANGED <<hooked, envs>>
      /\ Goto(t, "holder")
  BY DEF AddEnvWatcherRecord
<1>3. PICK c \in ThreadRecords : c = th[t]
  BY <1>0
<1>4. PICK d : d = [c EXCEPT !.pc = "holder"]
  OBVIOUS
<1>5. d = [pc |-> "holder", obj |-> c.obj, todo |-> c.todo, events |-> c.events]
  BY <1>4 DEF ThreadRecords
<1>6. d \in ThreadRecords /\ d.pc = "holder" /\ d.obj = n /\ d.todo = th[t].todo
  BY <1>1, <1>3, <1>5 DEF ThreadRecords, Pcs
<1>7. th' = [th EXCEPT ![t] = d]
  BY <1>0, <1>2, <1>3, <1>4 DEF Goto, MemoryOK
<1>8. /\ n \in DOMAIN objs /\ n # 0 /\ th[t].todo = {} /\ envs[t].there /\ EnvOf(n) = EnvIs(t)
      /\ objs[n].env = t /\ Referenced(n)
      /\ th' \in [Threads -> ThreadRecords] /\ th'[t] = d
      /\ \A u \in Threads \ {t} : th'[u] = th[u]
      /\ \A u \in Envs \ {t} : th'[u] = th[u] /\ u \in Threads
      /\ t \in Threads /\ t # Io
  <2>1. th[t].pc \in {"publish", "record", "holder"} /\ d.pc \in {"idle", "record", "holder"}
    BY <1>0, <1>6
  <2>2. /\ th[t].obj \in DOMAIN objs /\ th[t].obj # 0 /\ th[t].todo = {} /\ envs[t].there
        /\ EnvOf(th[t].obj) = EnvIs(t) /\ objs[th[t].obj].env = t /\ Referenced(th[t].obj)
    BY <1>6, <1>7, <2>1, AddingThread
  <2>3. /\ th' \in [Threads -> ThreadRecords] /\ th'[t] = d
        /\ \A u \in Threads \ {t} : th'[u] = th[u]
        /\ \A u \in Envs \ {t} : th'[u] = th[u] /\ u \in Threads
        /\ t \in Threads /\ t # Io
    BY <1>6, <1>7, <2>1, AddingThread
  <2> QED
    BY <1>1, <2>2, <2>3
<1>9. \A p \in owed : Called(p) => Called(p)'
  BY <1>0, <1>6, <1>7, AddingThread
<1>10. /\ envs' \in [Envs -> [gen : 1..MaxEnvs, there : BOOLEAN, hook : BOOLEAN]]
       /\ \A u \in Envs : envs'[u].gen = envs[u].gen /\ envs'[u].there = envs[u].there
       /\ \A u \in Envs : u \in hooked' <=> envs'[u].hook /\ envs'[u].there
       /\ hooked' \subseteq Envs /\ faults' \in Nat
  <2>1. CASE envs' = envs /\ hooked' = hooked
    BY <1>0, <1>2, <2>1 DEF MemoryOK, HooksOK, TablesOK, Fault
  <2>2. CASE hooked' = hooked \cup {t} /\ envs' = [envs EXCEPT ![t].hook = TRUE]
    <3>1. PICK g : g = envs[t] /\ g \in [gen : 1..MaxEnvs, there : BOOLEAN, hook : BOOLEAN]
      BY <1>0 DEF MemoryOK
    <3>2. PICK h : h = [g EXCEPT !.hook = TRUE]
      OBVIOUS
    <3>a. h = [gen |-> g.gen, there |-> g.there, hook |-> TRUE]
      BY <3>1, <3>2
    <3>3. h \in [gen : 1..MaxEnvs, there : BOOLEAN, hook : BOOLEAN]
          /\ h.gen = g.gen /\ h.there = g.there /\ h.hook
      BY <3>1, <3>a
    <3>4. envs' = [envs EXCEPT ![t] = h]
      BY <1>0, <2>2, <3>1, <3>2 DEF MemoryOK
    <3>5. /\ envs' \in [Envs -> [gen : 1..MaxEnvs, there : BOOLEAN, hook : BOOLEAN]]
          /\ envs'[t] = h /\ \A u \in Envs \ {t} : envs'[u] = envs[u]
      BY <1>0, <3>3, <3>4 DEF MemoryOK
    <3>6. \A u \in Envs : envs'[u].gen = envs[u].gen /\ envs'[u].there = envs[u].there
      BY <3>1, <3>3, <3>5
    <3>7. \A u \in Envs : u \in hooked' <=> envs'[u].hook /\ envs'[u].there
      BY <1>0, <1>8, <2>2, <3>3, <3>5, <3>6 DEF HooksOK
    <3>8. faults' \in Nat
      BY <1>0, <1>2 DEF TablesOK, Fault
    <3> QED
      BY <1>0, <2>2, <3>5, <3>6, <3>7, <3>8 DEF MemoryOK
  <2> QED
    BY <1>2, <2>1, <2>2
<1>11. \A m : B(m)' = B(m) /\ EnvOf(m)' = EnvOf(m)
  BY <1>0 DEF B, EnvOf
<1>12. \A u \in Envs : EnvIs(u)' = EnvIs(u)
  BY <1>10 DEF EnvIs
<1>13. Live' = Live
  BY <1>0 DEF Live
<1>14. TablesOK'
  BY <1>0, <1>10 DEF TablesOK
<1>15. MemoryOK'
  BY <1>0, <1>1, <1>8, <1>10 DEF MemoryOK
<1>16. ASSUME NEW u \in Threads PROVE PlaceOK(u)'
  <2>1. CASE u # t
    BY <1>0, <1>8, <1>10, <2>1, PlacedSame
  <2>2. CASE u = t
    <3>1. th[t].pc = "record" => B(n) # "ndk"
      BY <1>0, <1>1, <1>8 DEF PlaceOK
    <3>2. B(n)' # "ndk" /\ EnvOf(n)' = EnvIs(t)' /\ n \in DOMAIN objs' /\ envs'[t].there
      BY <1>0, <1>8, <1>10, <1>11, <1>12, <3>1
    <3> QED
      BY <1>6, <1>8, <2>2, <3>2, PlacedAdding
  <2> QED
    BY <2>1, <2>2
<1>17. \A u \in Envs : th'[u].obj = th[u].obj /\ (Unpublished(u)' => Unpublished(u))
  BY <1>0, <1>1, <1>6, <1>8 DEF Unpublished
<1>18. NamesOK'
  <2>1. \A u, v \in Envs : th'[u].obj # 0 /\ th'[v].obj # 0 /\ u # v =>
            objs'[th'[u].obj].watcher # objs'[th'[v].obj].watcher
    BY <1>0, <1>17 DEF NamesOK
  <2>2. \A u \in Envs : Unpublished(u)' =>
            /\ th'[u].obj \notin Live' \cup zeroing'
            /\ objs'[th'[u].obj].seq = objs'[th'[u].obj].row
            /\ rows'[objs'[th'[u].obj].watcher] \in {0, objs'[th'[u].obj].row}
    BY <1>0, <1>13, <1>17 DEF NamesOK
  <2> QED
    BY <1>0, <2>1, <2>2 DEF NamesOK
<1>19. HooksOK'
  BY <1>10 DEF HooksOK
<1>20. RefsOK'
  <2>1. n \notin destroyed
    BY <1>0, <1>8 DEF RefsOK
  <2> SUFFICES ASSUME NEW m, m # 0, Referenced(m)'
               PROVE  m \in DOMAIN objs' \ destroyed' /\ SeqOK(m)' /\ HolderOK(m)' /\ EnvOK(m)'
    BY <1>0, <1>1, <2>1 DEF RefsOK
  <2>2. Referenced(m)
    BY <1>0, <1>1, <1>6, <1>8, <1>13 DEF Referenced
  <2>3. m \in DOMAIN objs \ destroyed /\ SeqOK(m) /\ HolderOK(m) /\ EnvOK(m)
    BY <1>0, <2>2 DEF RefsOK
  <2>4. objs[m].env \in Envs
    BY <2>3, InvParts, ObjectFacts DEF ObjectRecords
  <2>5. SeqOK(m)'
    BY <1>0, <1>11, <2>3 DEF SeqOK
  <2>6. HolderOK(m)'
    BY <1>0, <1>11, <1>17, <2>3, <2>4 DEF HolderOK
  <2>7. EnvIs(objs[m].env)' = EnvIs(objs[m].env)
    BY <1>0, <1>10, <2>4 DEF EnvIs
  <2>8. m \in records /\ m # n => m \in records'
    BY <1>1
  <2>9. EnvOK(m)'
    BY <1>0, <1>1, <1>8, <1>10, <1>11, <2>3, <2>4, <2>7 DEF EnvOK
  <2> QED
    BY <1>0, <2>3, <2>5, <2>6, <2>9
<1>21. TasksOK'
  <2>1. ObjectsGrow
    BY <1>0 DEF ObjectsGrow, B
  <2> QED
    BY <1>0, <1>17, <2>1, TasksStay DEF Tasks
<1>22. \A u \in Envs : th'[u].pc = "take" => th'[u] = th[u] /\ held'[u] = held[u]
  BY <1>0, <1>6, <1>8
<1>23. EventsOK'
  BY <1>0, <1>9, <1>22, EventsStay
<1> QED
  BY <1>14, <1>15, <1>16, <1>18, <1>19, <1>20, <1>21, <1>23 DEF IInv, ObjectsOK

LEMMA CreateHolderStep ==
    ASSUME IInv, NEW t \in Envs, CreateHolder(t)
    PROVE  IInv'
<1>0. /\ TablesOK /\ MemoryOK /\ TasksOK /\ NamesOK /\ HooksOK /\ RefsOK /\ th[t].pc = "holder"
      /\ Threads = Envs \cup {Io}
      /\ \A u \in Threads : PlaceOK(u) /\ th[u] \in ThreadRecords
      /\ th' = [th EXCEPT ![t] = Idle]
      /\ UNCHANGED <<tableVars, watchers, restored, destroyed, envVars, taskVars, zeroing, calls, crashes,
                     bookVars>>
      /\ UNCHANGED <<inserted, mapped, rows, lastSeq, records, hooked, envs, deaf, loop, unmaps,
                     owed, received, taken, repeated, lost, bare>>
  BY InvParts DEF CreateHolder, Threads, tableVars, envVars, taskVars, bookVars
<1>1. PICK n : n = th[t].obj
  OBVIOUS
<1>2. /\ n \in DOMAIN objs /\ n # 0 /\ th[t].todo = {} /\ envs[t].there /\ EnvOf(n) = EnvIs(t)
      /\ objs[n].env = t /\ Referenced(n)
      /\ th' \in [Threads -> ThreadRecords] /\ th'[t] = Idle
      /\ \A u \in Threads \ {t} : th'[u] = th[u]
      /\ \A u \in Envs \ {t} : th'[u] = th[u] /\ u \in Threads
      /\ t \in Threads /\ t # Io
  <2>1. th[t].pc \in {"publish", "record", "holder"}
    BY <1>0
  <2>2. /\ th[t].obj \in DOMAIN objs /\ th[t].obj # 0 /\ th[t].todo = {} /\ envs[t].there
        /\ EnvOf(th[t].obj) = EnvIs(t) /\ objs[th[t].obj].env = t /\ Referenced(th[t].obj)
    BY <1>0, <2>1, IdleFacts, AddingThread
  <2>3. /\ th' \in [Threads -> ThreadRecords] /\ th'[t] = Idle
        /\ \A u \in Threads \ {t} : th'[u] = th[u]
        /\ \A u \in Envs \ {t} : th'[u] = th[u] /\ u \in Threads
        /\ t \in Threads /\ t # Io
    BY <1>0, <2>1, IdleFacts, AddingThread
  <2> QED
    BY <1>1, <2>2, <2>3
<1>3. PICK h \in {"set", "null"} : objs' = [objs EXCEPT ![n].holder = h]
  BY <1>1 DEF CreateHolder
<1>4. PICK o : o = [objs[n] EXCEPT !.holder = h]
  OBVIOUS
<1>5. /\ o \in ObjectRecords /\ o.holder = h /\ o.watcher = objs[n].watcher /\ o.env = objs[n].env
      /\ o.gen = objs[n].gen /\ o.row = objs[n].row /\ o.seq = objs[n].seq /\ o.open = objs[n].open
  <2>1. PICK c \in ObjectRecords : c = objs[n]
    BY <1>2, InvParts, ObjectFacts
  <2>2. o = [watcher |-> c.watcher, receives |-> c.receives, env |-> c.env, gen |-> c.gen,
             row |-> c.row, seq |-> c.seq, open |-> c.open, holder |-> h]
    BY <1>4, <2>1 DEF ObjectRecords
  <2> QED
    BY <1>3, <2>1, <2>2 DEF ObjectRecords
<1>6. /\ objs' \in Seq(ObjectRecords) /\ Len(objs') = Len(objs) /\ DOMAIN objs' = DOMAIN objs
      /\ objs'[n] = o /\ \A m \in DOMAIN objs \ {n} : objs'[m] = objs[m]
  <2>1. objs' = [objs EXCEPT ![n] = o]
    BY <1>0, <1>2, <1>3, <1>4 DEF MemoryOK
  <2> QED
    BY <1>0, <1>2, <1>5, <2>1 DEF MemoryOK
<1>7. \A m \in DOMAIN objs : /\ objs'[m].watcher = objs[m].watcher /\ objs'[m].row = objs[m].row
                             /\ objs'[m].seq = objs[m].seq /\ objs'[m].open = objs[m].open
                             /\ objs'[m].env = objs[m].env /\ objs'[m].gen = objs[m].gen
                             /\ B(m)' = B(m) /\ EnvOf(m)' = EnvOf(m)
                             /\ objs'[m].holder = IF m = n THEN h ELSE objs[m].holder
  BY <1>5, <1>6 DEF B, EnvOf
<1>8. \A p \in owed : Called(p) => Called(p)'
  BY <1>0, <1>7, IdleFacts, AddingThread
<1>9. /\ held' \in [Envs -> [of : SUBSET Watchers, seq : 0..MaxCalls]] /\ faults' \in Nat
      /\ \A u \in Envs \ {t} : held'[u] = held[u]
  <2>1. objs[n].watcher \in Watchers
    BY <1>2, InvParts, ObjectFacts DEF ObjectRecords
  <2>2. rows[objs[n].watcher] \in 0..MaxCalls
    BY <1>0, <2>1 DEF TablesOK
  <2>3. \/ held' = [held EXCEPT ![t] = [of |-> {objs[n].watcher}, seq |-> rows[objs[n].watcher]]]
           /\ faults' = faults
        \/ held' = held /\ faults' = faults + 1
    BY <1>1 DEF CreateHolder, Fault
  <2>4. PICK r \in [of : SUBSET Watchers, seq : 0..MaxCalls] :
            r = [of |-> {objs[n].watcher}, seq |-> rows[objs[n].watcher]]
    BY <2>1, <2>2
  <2>5. CASE held' = [held EXCEPT ![t] = r] /\ faults' = faults
    BY <1>0, <2>4, <2>5 DEF MemoryOK, TablesOK
  <2>6. CASE held' = held /\ faults' = faults + 1
    BY <1>0, <2>6 DEF MemoryOK, TablesOK
  <2> QED
    BY <2>3, <2>4, <2>5, <2>6
<1>10. \A u \in Threads : EnvIs(u)' = EnvIs(u)
  BY <1>0 DEF EnvIs
<1>11. Live' = Live /\ Live \subseteq DOMAIN objs
  BY <1>0, ObjectFacts DEF Live
<1>12. TablesOK'
  BY <1>0, <1>9 DEF TablesOK
<1>13. MemoryOK'
  BY <1>0, <1>2, <1>6, <1>9 DEF MemoryOK
<1>14. ASSUME NEW u \in Threads PROVE PlaceOK(u)'
  <2>1. CASE u # t
    BY <1>0, <1>2, <1>6, <1>7, <2>1, PlacedSame
  <2>2. CASE u = t
    BY <1>2, <2>2, IdleFacts DEF PlaceOK
  <2> QED
    BY <2>1, <2>2
<1>15. \A u \in Envs : th'[u].obj # 0 => u # t /\ th'[u] = th[u] /\ th[u].obj \in DOMAIN objs
  BY <1>0, <1>2, IdleFacts DEF PlaceOK
<1>16. NamesOK'
  <2>1. \A u, v \in Envs : th'[u].obj # 0 /\ th'[v].obj # 0 /\ u # v =>
            objs'[th'[u].obj].watcher # objs'[th'[v].obj].watcher
    BY <1>0, <1>7, <1>15 DEF NamesOK
  <2>2. \A u \in Envs : Unpublished(u)' =>
            /\ th'[u].obj \notin Live' \cup zeroing'
            /\ objs'[th'[u].obj].seq = objs'[th'[u].obj].row
            /\ rows'[objs'[th'[u].obj].watcher] \in {0, objs'[th'[u].obj].row}
    BY <1>0, <1>7, <1>11, <1>15 DEF NamesOK, Unpublished
  <2>3. \A v \in Watchers : watchers'[v] # 0 =>
            /\ objs'[watchers'[v]].watcher = v /\ watchers'[v] \notin zeroing'
            /\ objs'[watchers'[v]].seq = objs'[watchers'[v]].row
            /\ rows'[v] \in {0, objs'[watchers'[v]].row}
    <3>1. \A v \in Watchers : watchers[v] # 0 => watchers[v] \in DOMAIN objs
      BY <1>11 DEF Live
    <3> QED
      BY <1>0, <1>7, <3>1 DEF NamesOK
  <2> QED
    BY <1>0, <2>1, <2>2, <2>3 DEF NamesOK
<1>17. HooksOK'
  BY <1>0 DEF HooksOK
<1>18. RefsOK'
  <2> SUFFICES ASSUME NEW m, m # 0, Referenced(m)'
               PROVE  m \in DOMAIN objs' \ destroyed' /\ SeqOK(m)' /\ HolderOK(m)' /\ EnvOK(m)'
    BY <1>0 DEF RefsOK
  <2>1. Referenced(m)
    BY <1>0, <1>2, <1>11, IdleFacts DEF Referenced
  <2>2. m \in DOMAIN objs \ destroyed /\ SeqOK(m) /\ HolderOK(m) /\ EnvOK(m)
    BY <1>0, <2>1 DEF RefsOK
  <2>3. objs[m].env \in Envs
    BY <2>2, InvParts, ObjectFacts DEF ObjectRecords
  <2>4. th[objs[m].env].obj = m /\ m # n => th'[objs[m].env] = th[objs[m].env]
    BY <1>1, <1>2, <2>3
  <2>5. SeqOK(m)'
    BY <1>0, <1>7, <2>2 DEF SeqOK
  <2>6. HolderOK(m)'
    BY <1>3, <1>7, <2>2, <2>4 DEF HolderOK
  <2>7. EnvIs(objs[m].env)' = EnvIs(objs[m].env)
    BY <1>0, <1>7, <2>2 DEF EnvIs
  <2>8. B(m) = "js" /\ th[objs[m].env].obj = m /\ th[objs[m].env].pc # "holder" => m # n
    BY <1>0, <1>2
  <2>9. EnvOK(m)'
    BY <1>0, <1>7, <2>2, <2>4, <2>7, <2>8 DEF EnvOK
  <2> QED
    BY <1>0, <1>6, <2>2, <2>5, <2>6, <2>9
<1>19. TasksOK'
  <2>1. ObjectsGrow
    BY <1>3, <1>6, <1>7 DEF ObjectsGrow
  <2>2. \A u \in Envs : th[u].obj \in {0, th'[u].obj} \/ objs'[th[u].obj].holder # "none"
    BY <1>1, <1>2, <1>3, <1>7
  <2> QED
    BY <1>0, <2>1, <2>2, TasksStay DEF Tasks
<1>20. \A u \in Envs : th'[u].pc = "take" => th'[u] = th[u] /\ held'[u] = held[u]
  BY <1>2, <1>9, IdleFacts
<1>21. EventsOK'
  BY <1>0, <1>8, <1>20, EventsStay
<1> QED
  BY <1>12, <1>13, <1>14, <1>16, <1>17, <1>18, <1>19, <1>21 DEF IInv, ObjectsOK

--------------------------------------------------------------------------------
(* A watcher is removed, and its object goes.                                   *)

LEMMA RemoveWatcherStep ==
    ASSUME IInv, NEW w \in Watchers, RemoveWatcher(w)
    PROVE  IInv'
<1>0. /\ TablesOK /\ MemoryOK /\ TasksOK /\ NamesOK /\ HooksOK /\ RefsOK /\ TakenOK /\ UnmapsOK /\ OwedOK
      /\ Threads = Envs \cup {Io}
      /\ \A u \in Threads : PlaceOK(u)
      /\ UNCHANGED <<inserted, lastSeq, objs, destroyed, envVars, taskVars, th, held, boundVars,
                     received, taken, repeated, lost, bare>>
      /\ UNCHANGED <<records, hooked, envs, deaf, loop, unmaps, calls, faults, crashes>>
  BY InvParts DEF RemoveWatcher, Threads, envVars, taskVars, boundVars
<1>1. PICK s : /\ s = IF watchers[w] # 0 THEN objs[watchers[w]].row ELSE rows[w]
               /\ mapped' = {p \in mapped : p[2] # s} /\ owed' = {p \in owed : p[2] # s}
  BY DEF RemoveWatcher
<1>2. /\ rows' = [rows EXCEPT ![w] = 0] /\ watchers' = [watchers EXCEPT ![w] = 0]
      /\ restored' = restored \ {w}
      /\ zeroing' = IF watchers[w] # 0 /\ Binding[w] = "ndk" THEN zeroing \cup {watchers[w]} ELSE zeroing
  BY DEF RemoveWatcher
<1>3. /\ rows' \in [Watchers -> 0..MaxCalls] /\ rows'[w] = 0
      /\ \A v \in Watchers \ {w} : rows'[v] = rows[v]
  BY <1>0, <1>2, Constants DEF TablesOK
<1>4. /\ watchers' \in [Watchers -> 0..Len(objs)] /\ watchers'[w] = 0
      /\ \A v \in Watchers \ {w} : watchers'[v] = watchers[v]
  BY <1>0, <1>2, ObjectFacts DEF MemoryOK
<1>5. watchers[w] # 0 => watchers[w] \in Live
  BY DEF Live
<1>6. /\ Live' \subseteq Live /\ Live \subseteq DOMAIN objs
      /\ zeroing' \subseteq zeroing \cup Live
  BY <1>0, <1>2, <1>4, <1>5, ObjectFacts DEF Live
<1>7. \A m : B(m)' = B(m) /\ EnvOf(m)' = EnvOf(m)
  BY <1>0 DEF B, EnvOf
<1>8. TablesOK'
  BY <1>0, <1>1, <1>3 DEF TablesOK
<1>9. MemoryOK'
  BY <1>0, <1>2, <1>4, <1>6 DEF MemoryOK
<1>10. \A u \in Threads : PlaceOK(u)'
  BY <1>0, PlaceStays
<1>11. NamesOK'
  <2>1. \A u, v \in Envs : th'[u].obj # 0 /\ th'[v].obj # 0 /\ u # v =>
            objs'[th'[u].obj].watcher # objs'[th'[v].obj].watcher
    BY <1>0 DEF NamesOK
  <2>2. ASSUME NEW u \in Envs, Unpublished(u)'
        PROVE  /\ th'[u].obj \notin Live' \cup zeroing'
               /\ objs'[th'[u].obj].seq = objs'[th'[u].obj].row
               /\ rows'[objs'[th'[u].obj].watcher] \in {0, objs'[th'[u].obj].row}
    <3>1. Unpublished(u)
      BY <1>0, <2>2 DEF Unpublished
    <3>2. th[u].obj \in DOMAIN objs
      BY <1>0, <3>1 DEF Unpublished, PlaceOK
    <3>3. objs[th[u].obj].watcher \in Watchers
      BY <3>2, InvParts, ObjectFacts DEF ObjectRecords
    <3> QED
      BY <1>0, <1>3, <1>6, <3>1, <3>3 DEF NamesOK
  <2>3. ASSUME NEW v \in Watchers, watchers'[v] # 0
        PROVE  /\ objs'[watchers'[v]].watcher = v /\ watchers'[v] \notin zeroing'
               /\ objs'[watchers'[v]].seq = objs'[watchers'[v]].row
               /\ rows'[v] \in {0, objs'[watchers'[v]].row}
    <3>1. v # w /\ watchers'[v] = watchers[v]
      BY <1>4, <2>3
    <3>2. watchers[v] # watchers[w]
      BY <1>0, <2>3, <3>1 DEF NamesOK
    <3> QED
      BY <1>0, <1>2, <1>3, <2>3, <3>1, <3>2 DEF NamesOK
  <2>4. \A v \in restored' : rows'[v] # 0 /\ watchers'[v] = 0
    BY <1>0, <1>2, <1>3, <1>4 DEF NamesOK, MemoryOK
  <2> QED
    BY <2>1, <2>2, <2>3, <2>4 DEF NamesOK
<1>12. HooksOK'
  BY <1>0 DEF HooksOK
<1>13. RefsOK'
  <2> SUFFICES ASSUME NEW m, m # 0, Referenced(m)'
               PROVE  m \in DOMAIN objs' \ destroyed' /\ SeqOK(m)' /\ HolderOK(m)' /\ EnvOK(m)'
    BY <1>0 DEF RefsOK
  <2>1. Referenced(m)
    BY <1>0, <1>6 DEF Referenced
  <2>2. m \in DOMAIN objs \ destroyed /\ SeqOK(m) /\ HolderOK(m) /\ EnvOK(m)
    BY <1>0, <2>1 DEF RefsOK
  <2>3. m \in zeroing' => B(m) = "ndk"
    <3>1. watchers[w] # 0 => objs[watchers[w]].watcher = w
      BY <1>0 DEF NamesOK
    <3> QED
      BY <1>2, <2>2, <3>1 DEF SeqOK, B
  <2>4. SeqOK(m)'
    BY <1>0, <1>7, <2>2, <2>3 DEF SeqOK
  <2>5. HolderOK(m)'
    BY <1>0, <1>7, <2>2 DEF HolderOK
  <2>6. EnvIs(objs[m].env)' = EnvIs(objs[m].env)
    BY <1>0 DEF EnvIs
  <2>7. EnvOK(m)'
    BY <1>0, <1>7, <2>2, <2>6 DEF EnvOK
  <2> QED
    BY <1>0, <2>2, <2>4, <2>5, <2>7
<1>14. TasksOK'
  BY <1>0, StillTasks DEF Tasks
<1>15. TakenOK'
  <2>1. \A u \in Envs : Packaged(u)' = Packaged(u)
    BY <1>0 DEF Packaged
  <2>2. \A f, q, t : <<f, q, t>> \in taken' => f \in 1..inserted' /\ <<f, q>> \notin mapped'
    BY <1>0, <1>1 DEF TakenOK
  <2> QED
    BY <1>0, <2>1, <2>2 DEF TakenOK
<1>16. UnmapsOK'
  BY <1>0 DEF UnmapsOK
<1>17. ASSUME NEW p \in Narrowed, p \in owed' PROVE p \in Narrowed'
  <2>1. PICK v \in Watchers : /\ Binding[v] = "cj" /\ rows[v] = p[2]
                              /\ ~VerifyEvent(BuiltFilters(v), p[1])
    BY DEF Narrowed
  <2>2. p[2] # 0 /\ p[2] # s
    BY <1>0, <1>1, <1>17, Constants DEF TablesOK
  <2>3. v # w
    BY <1>0, <1>1, <2>1, <2>2 DEF NamesOK
  <2> QED
    BY <1>3, <1>17, <2>1, <2>3 DEF Narrowed
<1>18. OwedOK'
  <2>1. \A p : Called(p) => Called(p)'
    BY <1>0, CalledStays DEF Called
  <2> SUFFICES ASSUME NEW p \in owed'
               PROVE  \/ p \in mapped' \cup received' \cup lost' \cup Narrowed'
                      \/ \E u \in Envs : <<p[1], p[2], u>> \in taken'
                      \/ Called(p)'
    BY DEF OwedOK
  <2>2. p \in owed /\ (p \in mapped => p \in mapped')
    BY <1>1
  <2> QED
    BY <1>0, <1>17, <2>1, <2>2 DEF OwedOK
<1> QED
  BY <1>8, <1>9, <1>10, <1>11, <1>12, <1>13, <1>14, <1>15, <1>16, <1>18 DEF IInv, ObjectsOK, EventsOK

\* The NDK's sequence is set to 0 once nobody else finds the object by its name.
LEMMA SetSeq0Step ==
    ASSUME IInv, NEW n \in DOMAIN objs, SetSeq0(n)
    PROVE  IInv'
<1>0. /\ TablesOK /\ MemoryOK /\ TasksOK /\ NamesOK /\ HooksOK /\ RefsOK
      /\ Threads = Envs \cup {Io}
      /\ \A u \in Threads : PlaceOK(u)
      /\ n \in zeroing /\ zeroing' = zeroing \ {n} /\ objs' = [objs EXCEPT ![n].seq = 0]
      /\ UNCHANGED <<tableVars, watchers, restored, destroyed, envVars, taskVars, th, held, boundVars, bookVars>>
      /\ UNCHANGED <<inserted, mapped, rows, lastSeq, records, hooked, envs, deaf, loop, unmaps, calls,
                     faults, crashes, owed, received, taken, repeated, lost, bare>>
  BY InvParts DEF SetSeq0, Threads, tableVars, envVars, taskVars, boundVars, bookVars
<1>1. PICK o : o = [objs[n] EXCEPT !.seq = 0]
  OBVIOUS
<1>2. /\ o \in ObjectRecords /\ o.holder = objs[n].holder /\ o.watcher = objs[n].watcher
      /\ o.env = objs[n].env /\ o.gen = objs[n].gen /\ o.row = objs[n].row /\ o.seq = 0
      /\ o.open = objs[n].open
  <2>1. PICK c \in ObjectRecords : c = objs[n]
    BY InvParts, ObjectFacts
  <2>2. o = [watcher |-> c.watcher, receives |-> c.receives, env |-> c.env, gen |-> c.gen,
             row |-> c.row, seq |-> 0, open |-> c.open, holder |-> c.holder]
    BY <1>1, <2>1 DEF ObjectRecords
  <2> QED
    BY <2>1, <2>2, Constants DEF ObjectRecords
<1>3. /\ objs' \in Seq(ObjectRecords) /\ Len(objs') = Len(objs) /\ DOMAIN objs' = DOMAIN objs
      /\ objs'[n] = o /\ \A m \in DOMAIN objs \ {n} : objs'[m] = objs[m]
  <2>1. objs' = [objs EXCEPT ![n] = o]
    BY <1>0, <1>1 DEF MemoryOK
  <2>2. objs \in Seq(ObjectRecords) /\ n \in DOMAIN objs /\ o \in ObjectRecords
    BY <1>0, <1>2 DEF MemoryOK
  <2> QED
    BY <2>1, <2>2
<1>4. \A m \in DOMAIN objs : /\ objs'[m].watcher = objs[m].watcher /\ objs'[m].row = objs[m].row
                             /\ objs'[m].open = objs[m].open /\ objs'[m].holder = objs[m].holder
                             /\ objs'[m].env = objs[m].env /\ objs'[m].gen = objs[m].gen
                             /\ B(m)' = B(m) /\ EnvOf(m)' = EnvOf(m)
                             /\ objs'[m].seq = IF m = n THEN 0 ELSE objs[m].seq
  BY <1>2, <1>3 DEF B, EnvOf
<1>5. Live' = Live /\ Live \subseteq DOMAIN objs
  BY <1>0, ObjectFacts DEF Live
<1>6. Referenced(n) /\ n # 0
  BY <1>0, RefFacts
<1>7. TablesOK'
  BY <1>0 DEF TablesOK
<1>8. MemoryOK'
  BY <1>0, <1>3 DEF MemoryOK
<1>9. \A u \in Threads : PlaceOK(u)'
  BY <1>0, <1>3, <1>4, PlacedSame
<1>10. NamesOK'
  <2>1. \A u \in Envs : th[u].obj # 0 => th[u].obj \in DOMAIN objs
    BY <1>0 DEF PlaceOK
  <2>2. \A u, v \in Envs : th'[u].obj # 0 /\ th'[v].obj # 0 /\ u # v =>
            objs'[th'[u].obj].watcher # objs'[th'[v].obj].watcher
    BY <1>0, <1>4, <2>1 DEF NamesOK
  <2>3. ASSUME NEW u \in Envs, Unpublished(u)'
        PROVE  /\ th'[u].obj \notin Live' \cup zeroing'
               /\ objs'[th'[u].obj].seq = objs'[th'[u].obj].row
               /\ rows'[objs'[th'[u].obj].watcher] \in {0, objs'[th'[u].obj].row}
    <3>1. Unpublished(u) /\ th[u].obj \in DOMAIN objs
      BY <1>0, <2>1, <2>3 DEF Unpublished
    <3>2. th[u].obj # n
      BY <1>0, <3>1 DEF NamesOK
    <3> QED
      BY <1>0, <1>4, <1>5, <3>1, <3>2 DEF NamesOK
  <2>4. ASSUME NEW v \in Watchers, watchers'[v] # 0
        PROVE  /\ objs'[watchers'[v]].watcher = v /\ watchers'[v] \notin zeroing'
               /\ objs'[watchers'[v]].seq = objs'[watchers'[v]].row
               /\ rows'[v] \in {0, objs'[watchers'[v]].row}
    <3>1. watchers[v] \in DOMAIN objs /\ watchers[v] # n
      BY <1>0, <1>5, <2>4 DEF NamesOK, Live
    <3> QED
      BY <1>0, <1>4, <2>4, <3>1 DEF NamesOK
  <2> QED
    BY <1>0, <2>2, <2>3, <2>4 DEF NamesOK
<1>11. HooksOK'
  BY <1>0 DEF HooksOK
<1>12. RefsOK'
  <2> SUFFICES ASSUME NEW m, m # 0, Referenced(m)'
               PROVE  m \in DOMAIN objs' \ destroyed' /\ SeqOK(m)' /\ HolderOK(m)' /\ EnvOK(m)'
    BY <1>0 DEF RefsOK
  <2>1. Referenced(m)
    BY <1>0, <1>5 DEF Referenced
  <2>2. m \in DOMAIN objs \ destroyed /\ SeqOK(m) /\ HolderOK(m) /\ EnvOK(m)
    BY <1>0, <2>1 DEF RefsOK
  <2>3. SeqOK(m)'
    BY <1>0, <1>4, <2>2 DEF SeqOK
  <2>4. objs'[m].env = objs[m].env
    BY <1>4, <2>2
  <2>5. HolderOK(m)'
    BY <1>0, <1>4, <2>2 DEF HolderOK
  <2>6. EnvIs(objs[m].env)' = EnvIs(objs[m].env)
    BY <1>0, <2>4 DEF EnvIs
  <2>7. EnvOK(m)'
    BY <1>0, <1>4, <2>2, <2>6 DEF EnvOK
  <2> QED
    BY <1>0, <1>3, <2>2, <2>3, <2>5, <2>7
<1>13. TasksOK'
  <2>1. ObjectsGrow
    BY <1>3, <1>4 DEF ObjectsGrow
  <2> QED
    BY <1>0, <2>1, TasksStay DEF Tasks
<1>14. ASSUME NEW p \in owed, Called(p) PROVE Called(p)'
  <2>1. PICK u \in Threads : /\ th[u].pc = "call" /\ p[1] \in EventsFor(u, th[u].obj)
                             /\ p[2] = objs[th[u].obj].row
    BY <1>14 DEF Called
  <2>2. th'[u] = th[u] /\ th[u].obj \in DOMAIN objs
    BY <1>0, <2>1 DEF PlaceOK
  <2> QED
    BY <1>4, <2>1, <2>2, CalledStays
<1>15. EventsOK'
  BY <1>0, <1>14, EventsStay
<1> QED
  BY <1>7, <1>8, <1>9, <1>10, <1>11, <1>12, <1>13, <1>15 DEF IInv, ObjectsOK

LEMMA RemoveEnvWatcherRecordStep ==
    ASSUME IInv, NEW n, RemoveEnvWatcherRecord(n)
    PROVE  IInv'
<1>0. /\ TablesOK /\ MemoryOK /\ TasksOK /\ NamesOK /\ HooksOK /\ RefsOK
      /\ Threads = Envs \cup {Io}
      /\ \A u \in Threads : PlaceOK(u)
      /\ n \in DOMAIN objs /\ ~Referenced(n)
      /\ destroyed' = destroyed \cup {n} /\ records' = records \ {n}
      /\ UNCHANGED <<tableVars, watchers, restored, objs, hooked, envs, deaf, taskVars, th, held, zeroing,
                     boundVars, bookVars>>
      /\ UNCHANGED <<inserted, mapped, rows, lastSeq, loop, unmaps, calls,
                     faults, crashes, owed, received, taken, repeated, lost, bare>>
  BY InvParts DEF RemoveEnvWatcherRecord, Threads, tableVars, taskVars, boundVars, bookVars
<1>1. \A m : B(m)' = B(m) /\ EnvOf(m)' = EnvOf(m)
  BY <1>0 DEF B, EnvOf
<1>2. Live' = Live
  BY <1>0 DEF Live
<1>3. TablesOK'
  BY <1>0 DEF TablesOK
<1>4. MemoryOK'
  BY <1>0 DEF MemoryOK
<1>5. \A u \in Threads : PlaceOK(u)'
  BY <1>0, PlaceStays
<1>6. NamesOK'
  BY <1>0, <1>2 DEF NamesOK, Unpublished
<1>7. HooksOK'
  BY <1>0 DEF HooksOK
<1>8. RefsOK'
  <2> SUFFICES ASSUME NEW m, m # 0, Referenced(m)'
               PROVE  m \in DOMAIN objs' \ destroyed' /\ SeqOK(m)' /\ HolderOK(m)' /\ EnvOK(m)'
    BY <1>0 DEF RefsOK
  <2>1. Referenced(m) /\ m # n
    BY <1>0, <1>2 DEF Referenced
  <2>2. m \in DOMAIN objs \ destroyed /\ SeqOK(m) /\ HolderOK(m) /\ EnvOK(m)
    BY <1>0, <2>1 DEF RefsOK
  <2>3. SeqOK(m)'
    BY <1>0, <1>1, <2>2 DEF SeqOK
  <2>4. HolderOK(m)'
    BY <1>0, <1>1, <2>2 DEF HolderOK
  <2>5. EnvIs(objs[m].env)' = EnvIs(objs[m].env)
    BY <1>0 DEF EnvIs
  <2>6. EnvOK(m)'
    BY <1>0, <1>1, <2>1, <2>2, <2>5 DEF EnvOK
  <2> QED
    BY <1>0, <2>1, <2>2, <2>3, <2>4, <2>6
<1>9. TasksOK'
  BY <1>0, StillTasks DEF Tasks
<1>10. \A p : Called(p) => Called(p)'
  BY <1>0, CalledStays DEF Called
<1>11. EventsOK'
  BY <1>0, <1>10, EventsStay
<1> QED
  BY <1>3, <1>4, <1>5, <1>6, <1>7, <1>8, <1>9, <1>11 DEF IInv, ObjectsOK

--------------------------------------------------------------------------------
(* Environments come and go, and the process ends.                              *)

LEMMA EnvRemoveStep ==
    ASSUME IInv, NEW t \in Envs, EnvRemove(t)
    PROVE  IInv'
<1>0. /\ TablesOK /\ MemoryOK /\ TasksOK /\ NamesOK /\ HooksOK /\ RefsOK
      /\ Threads = Envs \cup {Io} /\ t \in Threads
      /\ \A u \in Threads : PlaceOK(u)
      /\ envs[t].there /\ th[t] = Idle
      /\ UNCHANGED <<tableVars, watchers, restored, destroyed, unmaps, th, zeroing, boundVars, bookVars>>
      /\ UNCHANGED <<inserted, mapped, rows, lastSeq, calls, faults, crashes, owed, received, taken,
                     repeated, lost, bare>>
  BY InvParts DEF EnvRemove, Free, Threads, tableVars, boundVars, bookVars
<1>1. /\ envs' = [envs EXCEPT ![t].there = FALSE]
      /\ loop' = [loop EXCEPT ![t] = <<>>]
      /\ held' = [held EXCEPT ![t] = NoHolder]
      /\ IF envs[t].hook THEN OnEnvRemove(t) /\ UNCHANGED deaf
         ELSE /\ deaf' = IF t \in hooked THEN deaf ELSE deaf \cup {EnvIs(t)}
              /\ UNCHANGED <<objs, records, hooked>>
  BY DEF EnvRemove
<1>2. /\ envs' \in [Envs -> [gen : 1..MaxEnvs, there : BOOLEAN, hook : BOOLEAN]]
      /\ ~envs'[t].there /\ envs'[t].gen = envs[t].gen
      /\ \A u \in Envs \ {t} : envs'[u] = envs[u]
  <2>1. PICK g : g = envs[t] /\ g \in [gen : 1..MaxEnvs, there : BOOLEAN, hook : BOOLEAN]
    BY <1>0 DEF MemoryOK
  <2>2. PICK h : h = [g EXCEPT !.there = FALSE]
    OBVIOUS
  <2>3. h = [gen |-> g.gen, there |-> FALSE, hook |-> g.hook]
    BY <2>1, <2>2
  <2>4. h \in [gen : 1..MaxEnvs, there : BOOLEAN, hook : BOOLEAN] /\ h.gen = g.gen /\ ~h.there
    BY <2>1, <2>3
  <2>5. envs' = [envs EXCEPT ![t] = h]
    BY <1>0, <1>1, <2>1, <2>2 DEF MemoryOK
  <2> QED
    BY <1>0, <2>1, <2>4, <2>5 DEF MemoryOK
<1>3. /\ loop' \in [Envs -> Seq(TaskRecords)] /\ \A u \in Envs : Tasks(u)' \subseteq Tasks(u)
  BY <1>0, <1>1 DEF MemoryOK, Tasks
<1>4. /\ held' \in [Envs -> [of : SUBSET Watchers, seq : 0..MaxCalls]]
      /\ \A u \in Envs \ {t} : held'[u] = held[u]
  <2>1. NoHolder \in [of : SUBSET Watchers, seq : 0..MaxCalls]
    BY Constants DEF NoHolder
  <2> QED
    BY <1>0, <1>1, <2>1 DEF MemoryOK
<1>5. PICK gone : gone = IF envs[t].hook THEN {n \in records : objs[n].env = t} ELSE {}
  OBVIOUS
<1>6. /\ objs' = [n \in DOMAIN objs |-> IF n \in gone THEN [objs[n] EXCEPT !.open = FALSE] ELSE objs[n]]
      /\ records' = records \ gone
      /\ hooked' = hooked \ {t}
      /\ deaf' = IF envs[t].hook THEN deaf ELSE deaf \cup {EnvIs(t)}
  <2>1. CASE envs[t].hook
    BY <1>1, <1>5, <2>1 DEF OnEnvRemove, ForgetEnv
  <2>2. CASE ~envs[t].hook
    <3>1. t \notin hooked
      BY <1>0, <2>2 DEF HooksOK
    <3>2. objs = [n \in DOMAIN objs |-> objs[n]]
      BY <1>0 DEF MemoryOK
    <3> QED
      BY <1>1, <1>5, <2>2, <3>1, <3>2
  <2> QED
    BY <2>1, <2>2
<1>7. ASSUME NEW m \in DOMAIN objs
      PROVE  /\ objs'[m] \in ObjectRecords
             /\ objs'[m].watcher = objs[m].watcher /\ objs'[m].row = objs[m].row
             /\ objs'[m].seq = objs[m].seq /\ objs'[m].holder = objs[m].holder
             /\ objs'[m].env = objs[m].env /\ objs'[m].gen = objs[m].gen
             /\ objs'[m].open = IF m \in gone THEN FALSE ELSE objs[m].open
  <2>1. PICK c \in ObjectRecords : c = objs[m]
    BY InvParts, ObjectFacts
  <2>2. CASE m \notin gone
    BY <1>6, <2>1, <2>2
  <2>3. CASE m \in gone
    <3>1. objs'[m] = [c EXCEPT !.open = FALSE]
      BY <1>6, <2>1, <2>3
    <3>2. objs'[m] = [watcher |-> c.watcher, receives |-> c.receives, env |-> c.env, gen |-> c.gen,
                      row |-> c.row, seq |-> c.seq, open |-> FALSE, holder |-> c.holder]
      BY <3>1 DEF ObjectRecords
    <3> QED
      BY <2>1, <2>3, <3>2 DEF ObjectRecords
  <2> QED
    BY <2>2, <2>3
<1>8. /\ objs' \in Seq(ObjectRecords) /\ Len(objs') = Len(objs) /\ DOMAIN objs' = DOMAIN objs
  <2>1. DOMAIN objs = 1..Len(objs) /\ Len(objs) \in Nat
    BY <1>0, ObjectFacts
  <2>2. objs' \in [1..Len(objs) -> ObjectRecords]
    BY <1>6, <1>7, <2>1
  <2> QED
    BY <2>1, <2>2
<1>9. \A m \in DOMAIN objs : B(m)' = B(m) /\ EnvOf(m)' = EnvOf(m)
  BY <1>7 DEF B, EnvOf
<1>10. Live' = Live /\ Live \subseteq DOMAIN objs
  BY <1>0, ObjectFacts DEF Live
<1>11. TablesOK'
  BY <1>0 DEF TablesOK
<1>12. MemoryOK'
  <2>1. /\ watchers' \in [Watchers -> 0..Len(objs')] /\ restored' \subseteq Watchers
        /\ destroyed' \subseteq DOMAIN objs' /\ records' \subseteq DOMAIN objs'
        /\ zeroing' \subseteq DOMAIN objs' /\ bare' \subseteq DOMAIN objs' /\ hooked' \subseteq Envs
    BY <1>0, <1>6, <1>8 DEF MemoryOK
  <2> QED
    BY <1>0, <1>2, <1>3, <1>4, <1>8, <2>1 DEF MemoryOK
<1>13. \A u \in Envs : th[u].obj # 0 => u # t /\ th[u].obj \in DOMAIN objs
  BY <1>0, IdleFacts DEF PlaceOK
<1>14. \A u \in Threads : PlaceOK(u)'
  BY <1>0, <1>2, <1>7, <1>8, <1>13, PlacedSame
<1>15. NamesOK'
  <2>1. \A u, v \in Envs : th'[u].obj # 0 /\ th'[v].obj # 0 /\ u # v =>
            objs'[th'[u].obj].watcher # objs'[th'[v].obj].watcher
    <3>1. \A u \in Envs : th[u].obj # 0 => objs'[th[u].obj].watcher = objs[th[u].obj].watcher
      BY <1>7, <1>13
    <3> QED
      BY <1>0, <3>1 DEF NamesOK
  <2>2. \A u \in Envs : Unpublished(u)' =>
            /\ th'[u].obj \notin Live' \cup zeroing'
            /\ objs'[th'[u].obj].seq = objs'[th'[u].obj].row
            /\ rows'[objs'[th'[u].obj].watcher] \in {0, objs'[th'[u].obj].row}
    BY <1>0, <1>7, <1>10, <1>13, ZenonT(40) DEF NamesOK, Unpublished
  <2>3. \A v \in Watchers : watchers'[v] # 0 =>
            /\ objs'[watchers'[v]].watcher = v /\ watchers'[v] \notin zeroing'
            /\ objs'[watchers'[v]].seq = objs'[watchers'[v]].row
            /\ rows'[v] \in {0, objs'[watchers'[v]].row}
    <3>1. \A v \in Watchers : watchers[v] # 0 => watchers[v] \in DOMAIN objs
      BY <1>10 DEF Live
    <3>2. \A v \in Watchers : watchers[v] # 0 =>
              /\ objs'[watchers[v]].watcher = objs[watchers[v]].watcher
              /\ objs'[watchers[v]].seq = objs[watchers[v]].seq
              /\ objs'[watchers[v]].row = objs[watchers[v]].row
      BY <1>7, <3>1
    <3> QED
      BY <1>0, <3>2 DEF NamesOK
  <2> QED
    BY <1>0, <2>1, <2>2, <2>3 DEF NamesOK
<1>16. HooksOK'
  BY <1>0, <1>2, <1>6 DEF HooksOK
<1>17. RefsOK'
  <2> SUFFICES ASSUME NEW m, m # 0, Referenced(m)'
               PROVE  m \in DOMAIN objs' \ destroyed' /\ SeqOK(m)' /\ HolderOK(m)' /\ EnvOK(m)'
    BY <1>0, <1>6 DEF RefsOK
  <2>1. Referenced(m)
    BY <1>0, <1>10 DEF Referenced
  <2>2. m \in DOMAIN objs \ destroyed /\ SeqOK(m) /\ HolderOK(m) /\ EnvOK(m)
    BY <1>0, <2>1 DEF RefsOK
  <2>3. objs[m].env \in Envs
    BY <2>2, InvParts, ObjectFacts DEF ObjectRecords
  <2>4. SeqOK(m)'
    BY <1>0, <1>7, <1>9, <2>2 DEF SeqOK
  <2>5. HolderOK(m)'
    BY <1>0, <1>7, <1>9, <2>2 DEF HolderOK
  <2>6. EnvIs(objs[m].env)' = EnvIs(objs[m].env)
    <3>1. objs'[m].env = objs[m].env
      BY <1>7, <2>2
    <3>2. envs'[objs[m].env].gen = envs[objs[m].env].gen
      BY <1>2, <2>3
    <3> QED
      BY <3>1, <3>2 DEF EnvIs
  <2>7. EnvOK(m)'
    <3> SUFFICES ASSUME B(m)' = "js", objs'[m].open
                 PROVE  \/ EnvOf(m)' \in deaf'
                        \/ /\ EnvOf(m)' = EnvIs(objs[m].env)' /\ envs'[objs[m].env].there
                           /\ m \in records' \/ (th[objs[m].env].obj = m /\ th[objs[m].env].pc # "holder")
      BY <1>0, <1>7, <2>2 DEF EnvOK
    <3>1. B(m) = "js" /\ objs[m].open /\ m \notin gone /\ EnvOf(m)' = EnvOf(m)
      BY <1>7, <1>9, <2>2
    <3>2. CASE objs[m].env # t
      BY <1>2, <1>6, <2>2, <2>3, <2>6, <3>1, <3>2 DEF EnvOK
    <3>3. CASE objs[m].env = t
      <4>1. th[t].obj # m
        BY <1>0, IdleFacts
      <4>2. envs[t].hook => m \notin records
        BY <1>5, <3>1, <3>3
      <4> QED
        BY <1>6, <2>2, <3>1, <3>3, <4>1, <4>2 DEF EnvOK
    <3> QED
      BY <3>2, <3>3
  <2> QED
    BY <1>0, <1>8, <2>2, <2>4, <2>5, <2>7
<1>18. TasksOK'
  <2>1. ObjectsGrow
    BY <1>7, <1>8, <1>9 DEF ObjectsGrow
  <2> QED
    BY <1>0, <1>3, <2>1, TasksStay
<1>19. ASSUME NEW p \in owed, Called(p) PROVE Called(p)'
  <2>1. PICK u \in Threads : /\ th[u].pc = "call" /\ p[1] \in EventsFor(u, th[u].obj)
                             /\ p[2] = objs[th[u].obj].row
    BY <1>19 DEF Called
  <2>2. th'[u] = th[u] /\ th[u].obj \in DOMAIN objs
    BY <1>0, <2>1 DEF PlaceOK
  <2> QED
    BY <1>7, <2>1, <2>2, CalledStays
<1>20. \A u \in Envs : th'[u].pc = "take" => th'[u] = th[u] /\ held'[u] = held[u]
  BY <1>0, <1>4, IdleFacts
<1>21. EventsOK'
  BY <1>0, <1>19, <1>20, EventsStay
<1> QED
  BY <1>11, <1>12, <1>14, <1>15, <1>16, <1>17, <1>18, <1>21 DEF IInv, ObjectsOK

\* A new environment at the address of one that is gone: whoever had the old one open is deaf.
LEMMA EnvCreateStep ==
    ASSUME IInv, NEW t \in Envs, EnvCreate(t)
    PROVE  IInv'
<1>0. /\ TablesOK /\ MemoryOK /\ TasksOK /\ NamesOK /\ HooksOK /\ RefsOK
      /\ Threads = Envs \cup {Io}
      /\ \A u \in Threads : PlaceOK(u)
      /\ ~envs[t].there
      /\ UNCHANGED <<tableVars, managerVars, records, hooked, deaf, taskVars, th, held, zeroing, boundVars,
                     bookVars>>
      /\ UNCHANGED <<inserted, mapped, rows, lastSeq, watchers, restored, objs, destroyed, loop, unmaps,
                     calls, faults, crashes, owed, received, taken, repeated, lost, bare>>
  BY InvParts DEF EnvCreate, Threads, tableVars, managerVars, taskVars, boundVars, bookVars
<1>1. PICK h : h = [gen |-> envs[t].gen + 1, there |-> TRUE, hook |-> FALSE]
  OBVIOUS
<1>2. envs' = [envs EXCEPT ![t] = h] /\ envs[t].gen < MaxEnvs
  BY <1>0, <1>1 DEF EnvCreate, MemoryOK
<1>3. envs[t].gen \in 1..MaxEnvs
  BY <1>0 DEF MemoryOK
<1>4. h \in [gen : 1..MaxEnvs, there : BOOLEAN, hook : BOOLEAN] /\ ~h.hook
  BY <1>1, <1>2, <1>3, Constants
<1>5. /\ envs' \in [Envs -> [gen : 1..MaxEnvs, there : BOOLEAN, hook : BOOLEAN]]
      /\ ~envs'[t].hook /\ \A u \in Envs \ {t} : envs'[u] = envs[u]
  BY <1>0, <1>2, <1>4 DEF MemoryOK
<1>6. \A m : B(m)' = B(m) /\ EnvOf(m)' = EnvOf(m)
  BY <1>0 DEF B, EnvOf
<1>7. Live' = Live
  BY <1>0 DEF Live
<1>8. TablesOK'
  BY <1>0 DEF TablesOK
<1>9. MemoryOK'
  BY <1>0, <1>5 DEF MemoryOK
<1>10. th[t].obj = 0
  BY <1>0, Constants DEF PlaceOK
<1>11. \A u \in Threads : PlaceOK(u)'
  BY <1>0, <1>5, <1>10, PlacedSame
<1>12. NamesOK'
  BY <1>0, <1>7 DEF NamesOK, Unpublished
<1>13. HooksOK'
  BY <1>0, <1>5 DEF HooksOK
<1>14. RefsOK'
  <2> SUFFICES ASSUME NEW m, m # 0, Referenced(m)'
               PROVE  m \in DOMAIN objs' \ destroyed' /\ SeqOK(m)' /\ HolderOK(m)' /\ EnvOK(m)'
    BY <1>0 DEF RefsOK
  <2>1. Referenced(m)
    BY <1>0, <1>7 DEF Referenced
  <2>2. m \in DOMAIN objs \ destroyed /\ SeqOK(m) /\ HolderOK(m) /\ EnvOK(m)
    BY <1>0, <2>1 DEF RefsOK
  <2>3. objs[m].env \in Envs
    BY <2>2, InvParts, ObjectFacts DEF ObjectRecords
  <2>4. SeqOK(m)'
    BY <1>0, <1>6, <2>2 DEF SeqOK
  <2>5. HolderOK(m)'
    BY <1>0, <1>6, <2>2 DEF HolderOK
  <2>6. objs[m].env # t => EnvIs(objs[m].env)' = EnvIs(objs[m].env) /\ envs'[objs[m].env] = envs[objs[m].env]
    BY <1>0, <1>5, <2>3 DEF EnvIs
  <2>7. EnvOK(m)'
    BY <1>0, <1>6, <2>2, <2>6 DEF EnvOK
  <2> QED
    BY <1>0, <2>2, <2>4, <2>5, <2>7
<1>15. TasksOK'
  BY <1>0, StillTasks DEF Tasks
<1>16. \A p : Called(p) => Called(p)'
  BY <1>0, CalledStays DEF Called
<1>17. EventsOK'
  BY <1>0, <1>16, EventsStay
<1> QED
  BY <1>8, <1>9, <1>11, <1>12, <1>13, <1>14, <1>15, <1>17 DEF IInv, ObjectsOK

\* Memory is empty again; what an NDK callback had in hand is lost.
LEMMA ProcessEndsStep ==
    ASSUME IInv, ProcessEnds
    PROVE  IInv'
<1>0. /\ TablesOK /\ MemoryOK /\ TakenOK /\ OwedOK /\ Threads = Envs \cup {Io}
      /\ \A u \in Threads : PlaceOK(u) /\ th[u] \in ThreadRecords
      /\ UNCHANGED <<tableVars, calls, faults, owed, received, taken, repeated>>
      /\ UNCHANGED <<inserted, mapped, rows, lastSeq>>
      /\ crashes' = crashes + 1
  BY InvParts DEF ProcessEnds, Threads, tableVars
<1>1. /\ watchers' = [w \in Watchers |-> 0] /\ restored' = {w \in Watchers : rows[w] # 0}
      /\ objs' = <<>> /\ destroyed' = {} /\ records' = {} /\ hooked' = {} /\ deaf' = {}
      /\ loop' = [t \in Envs |-> <<>>] /\ unmaps' = {}
      /\ th' = [t \in Threads |-> Idle] /\ held' = [t \in Envs |-> NoHolder]
      /\ zeroing' = {} /\ bare' = {}
  BY DEF ProcessEnds
<1>2. \A n : n \notin Live' \/ n = 0
  BY <1>1 DEF Live
<1>3. /\ envs' \in [Envs -> [gen : 1..MaxEnvs, there : BOOLEAN, hook : BOOLEAN]]
      /\ \A t \in Envs : ~envs'[t].hook
  <2>1. envs' = [t \in Envs |-> [envs[t] EXCEPT !.there = TRUE, !.hook = FALSE]]
    BY DEF ProcessEnds
  <2>2. ASSUME NEW t \in Envs
        PROVE  /\ [envs[t] EXCEPT !.there = TRUE, !.hook = FALSE]
                      \in [gen : 1..MaxEnvs, there : BOOLEAN, hook : BOOLEAN]
               /\ ~[envs[t] EXCEPT !.there = TRUE, !.hook = FALSE].hook
    <3>1. PICK g : g = envs[t] /\ g \in [gen : 1..MaxEnvs, there : BOOLEAN, hook : BOOLEAN]
      BY <1>0 DEF MemoryOK
    <3>2. PICK h : h = [g EXCEPT !.there = TRUE, !.hook = FALSE]
      OBVIOUS
    <3>3. h = [gen |-> g.gen, there |-> TRUE, hook |-> FALSE]
      BY <3>1, <3>2
    <3> QED
      BY <3>1, <3>2, <3>3
  <2> QED
    BY <2>1, <2>2
<1>4. /\ lost \subseteq lost' /\ lost' \subseteq Events \X Seqs
      /\ \A u \in Threads : th[u].pc = "call" =>
             Pairs(th[u].events, objs[th[u].obj].row) \subseteq lost'
  <2>1. lost' = lost \cup UNION {Pairs(th[t].events, objs[th[t].obj].row) :
                                    t \in {v \in Threads : th[v].pc = "call"}}
    BY DEF ProcessEnds
  <2>2. ASSUME NEW u \in Threads, th[u].pc = "call"
        PROVE  Pairs(th[u].events, objs[th[u].obj].row) \subseteq Events \X Seqs
    <3>1. th[u].events \subseteq Events
      BY <1>0 DEF ThreadRecords
    <3>2. th[u].obj \in th[u].todo
      BY <1>0, <2>2 DEF PlaceOK
    <3>3. objs[th[u].obj].row \in Seqs
      BY <3>2, InList, Constants DEF SeqOK, Seqs, ObjectRecords
    <3> QED
      BY <3>1, <3>3 DEF Pairs
  <2> QED
    BY <1>0, <2>1, <2>2 DEF TablesOK
<1>5. TablesOK'
  BY <1>0, <1>1, <1>4 DEF TablesOK
<1>6. MemoryOK'
  <2>1. NoHolder \in [of : SUBSET Watchers, seq : 0..MaxCalls]
    BY Constants DEF NoHolder
  <2>2. objs' \in Seq(ObjectRecords) /\ Len(objs') = 0 /\ Len(objs') <= calls'
    BY <1>0, <1>1 DEF TablesOK
  <2>3. loop' \in [Envs -> Seq(TaskRecords)] /\ th' \in [Threads -> ThreadRecords]
        /\ held' \in [Envs -> [of : SUBSET Watchers, seq : 0..MaxCalls]]
        /\ watchers' \in [Watchers -> 0..Len(objs')]
    BY <1>1, <2>1, <2>2, IdleFacts
  <2> QED
    BY <1>1, <1>3, <2>2, <2>3 DEF MemoryOK
<1>7. \A u \in Threads : th'[u] = Idle
  BY <1>1
<1>8. \A u \in Threads : PlaceOK(u)'
  BY <1>7, IdleFacts DEF PlaceOK
<1>9. NamesOK'
  BY <1>0, <1>1, <1>7, IdleFacts DEF NamesOK, Unpublished
<1>10. HooksOK'
  BY <1>1, <1>3 DEF HooksOK
<1>11. RefsOK'
  BY <1>1, <1>2, <1>7, IdleFacts DEF RefsOK, Referenced
<1>12. TasksOK'
  <2>1. \A t \in Envs : Tasks(t)' = {}
    BY <1>1 DEF Tasks
  <2> QED
    BY <1>1, <2>1 DEF TasksOK
<1>13. TakenOK'
  BY <1>0, <1>7, IdleFacts DEF TakenOK
<1>14. UnmapsOK'
  BY <1>1 DEF UnmapsOK
<1>15. OwedOK'
  <2>1. Narrowed' = Narrowed
    BY <1>0 DEF Narrowed
  <2>2. ASSUME NEW p \in owed, Called(p) PROVE p \in lost'
    <3>1. PICK u \in Threads : /\ th[u].pc = "call" /\ p[1] \in EventsFor(u, th[u].obj)
                               /\ p[2] = objs[th[u].obj].row
      BY <2>2 DEF Called
    <3>2. p[1] \in th[u].events
      BY <3>1 DEF EventsFor
    <3>3. p = <<p[1], p[2]>>
      BY <1>0 DEF TablesOK
    <3> QED
      BY <1>4, <3>1, <3>2, <3>3 DEF Pairs
  <2> QED
    BY <1>0, <1>4, <2>1, <2>2 DEF OwedOK
<1> QED
  BY <1>5, <1>6, <1>8, <1>9, <1>10, <1>11, <1>12, <1>13, <1>14, <1>15 DEF IInv, ObjectsOK, EventsOK

LEMMA CjOnTriggerStep ==
    ASSUME IInv, NEW t \in Threads, NEW n, CjOnTrigger(t, n)
    PROVE  IInv'
BY PostStep, ProcessEndsStep DEF CjOnTrigger, Sends, taskVars, boundVars

--------------------------------------------------------------------------------
(* Every step, and the theorems.                                                *)

LEMMA InitIInv == ASSUME Init PROVE IInv
<1>0. /\ inserted = 0 /\ mapped = {} /\ rows = [w \in Watchers |-> 0] /\ lastSeq = 0
      /\ watchers = [w \in Watchers |-> 0] /\ restored = {} /\ objs = <<>> /\ destroyed = {}
      /\ records = {} /\ hooked = {} /\ deaf = {}
      /\ envs = [t \in Envs |-> [gen |-> 1, there |-> TRUE, hook |-> FALSE]]
      /\ loop = [t \in Envs |-> <<>>] /\ unmaps = {}
      /\ th = [t \in Threads |-> Idle] /\ held = [t \in Envs |-> NoHolder] /\ zeroing = {}
      /\ calls = 0 /\ faults = 0 /\ crashes = 0
      /\ owed = {} /\ received = {} /\ taken = {} /\ repeated = {} /\ lost = {} /\ bare = {}
  BY DEF Init
<1>1. /\ \A u \in Threads : th[u] = Idle
      /\ \A n : n \notin Live \/ n = 0
      /\ \A t \in Envs : Tasks(t) = {} /\ ~envs[t].hook
      /\ \A t \in Envs : t \in Threads
  BY <1>0 DEF Live, Tasks, Threads
<1>2. TablesOK
  BY <1>0, Constants DEF TablesOK
<1>3. MemoryOK
  <2>1. NoHolder \in [of : SUBSET Watchers, seq : 0..MaxCalls]
    BY Constants DEF NoHolder
  <2>2. objs \in Seq(ObjectRecords) /\ Len(objs) = 0 /\ Len(objs) <= calls
    BY <1>0
  <2>3. loop \in [Envs -> Seq(TaskRecords)] /\ th \in [Threads -> ThreadRecords]
        /\ held \in [Envs -> [of : SUBSET Watchers, seq : 0..MaxCalls]]
        /\ watchers \in [Watchers -> 0..Len(objs)]
    BY <1>0, <2>1, <2>2, IdleFacts
  <2>4. envs \in [Envs -> [gen : 1..MaxEnvs, there : BOOLEAN, hook : BOOLEAN]]
    BY <1>0, Constants
  <2> QED
    BY <1>0, <2>2, <2>3, <2>4 DEF MemoryOK
<1>4. \A u \in Threads : PlaceOK(u)
  BY <1>1, IdleFacts DEF PlaceOK
<1>5. NamesOK /\ HooksOK
  BY <1>0, <1>1, IdleFacts DEF NamesOK, HooksOK, Unpublished
<1>6. RefsOK
  BY <1>0, <1>1, IdleFacts DEF RefsOK, Referenced
<1>7. TasksOK
  BY <1>0, <1>1 DEF TasksOK
<1>8. TakenOK /\ UnmapsOK /\ OwedOK
  BY <1>0, <1>1, IdleFacts DEF TakenOK, UnmapsOK, OwedOK
<1> QED
  BY <1>2, <1>3, <1>4, <1>5, <1>6, <1>7, <1>8 DEF IInv, ObjectsOK, EventsOK

LEMMA StutterStep == ASSUME IInv, UNCHANGED vars PROVE IInv'
<1>0. /\ UNCHANGED <<inserted, mapped, rows, lastSeq, watchers, restored, objs, destroyed, records, hooked,
                     envs, deaf, loop, unmaps, th, held, zeroing, calls, faults, crashes, owed, received,
                     taken, repeated, lost, bare>>
      /\ UNCHANGED <<managerVars, envVars>>
  BY DEF vars, tableVars, managerVars, envVars, taskVars, boundVars, bookVars
<1>1. TablesOK' /\ MemoryOK'
  BY <1>0, InvParts DEF TablesOK, MemoryOK
<1>2. ObjectsOK' /\ \A p \in owed : Called(p) => Called(p)'
  BY <1>0, StillObjects
<1>3. TasksOK'
  BY <1>0, StillTasks DEF Tasks
<1>4. EventsOK'
  BY <1>0, <1>2, EventsStay
<1> QED
  BY <1>1, <1>2, <1>3, <1>4 DEF IInv

LEMMA NextIInv == ASSUME IInv, [Next]_vars PROVE IInv'
<1>1. CASE HandleEvents
  BY <1>1, HandleEventsStep
<1>2. ASSUME NEW t \in Threads, ManagerStep(t) PROVE IInv'
  <2>1. CASE NdkCallback(t)
    BY <2>1, NdkCallbackStep
  <2>2. ASSUME NEW n \in DOMAIN objs, OnEvents(t, n) PROVE IInv'
    BY <2>2, JsOnEventsStep, EtsOnEventsStep, CjOnEventsStep, NdkOnEventsStep DEF OnEvents
  <2>3. ASSUME NEW n \in DOMAIN objs, OnTrigger(t, n) PROVE IInv'
    BY <2>3, JsOnTriggerStep, EtsOnTriggerStep, CjOnTriggerStep, NdkOnTriggerStep DEF OnTrigger
  <2>4. ASSUME NEW n \in DOMAIN objs, SkipObserver(t, n) PROVE IInv'
    BY <2>4, SkipStep
  <2> QED
    BY <1>2, <2>1, <2>2, <2>3, <2>4 DEF ManagerStep
<1>3. ASSUME NEW t \in Envs, LoopStep(t) PROVE IInv'
  BY <1>3, CallOnReceiveStep, CallOnTriggerStep DEF LoopStep
<1>4. ASSUME NEW t \in Envs, CallStep(t) PROVE IInv'
  BY <1>4, PublishStep, AddEnvWatcherRecordStep, CreateHolderStep, ReturnPackageStep DEF CallStep
<1>5. CASE QueueStep
  BY <1>5, QueueStepKeeps DEF QueueStep
<1>6. ASSUME NEW t \in Envs, NEW w \in Watchers, NEW receives \in BOOLEAN,
             \/ JsAddWatcher(t, w, receives) \/ EtsAddWatcher(t, w, receives)
             \/ CjAddWatcher(t, w, receives) \/ NdkAddWatcher(t, w, receives)
      PROVE  IInv'
  <2>1. AddWatcher(t, w, receives)
    BY <1>6 DEF JsAddWatcher, EtsAddWatcher, CjAddWatcher, NdkAddWatcher
  <2> QED
    BY <2>1, AddWatcherStep
<1>7. ASSUME NEW w \in Watchers, RemoveWatcher(w) PROVE IInv'
  BY <1>7, RemoveWatcherStep
<1>8. ASSUME NEW n \in DOMAIN objs, SetSeq0(n) \/ RemoveEnvWatcherRecord(n) PROVE IInv'
  BY <1>8, SetSeq0Step, RemoveEnvWatcherRecordStep
<1>9. ASSUME NEW t \in Envs, EnvRemove(t) \/ EnvCreate(t) PROVE IInv'
  BY <1>9, EnvRemoveStep, EnvCreateStep
<1>10. ASSUME NEW t \in Envs, NEW w \in Watchers, NewHolder(t, w) PROVE IInv'
  BY <1>10, NewHolderStep
<1>11. ASSUME NEW t \in Envs, TakeNext(t) PROVE IInv'
  BY <1>11, TakeNextStep
<1>12. CASE ProcessEnds
  BY <1>12, ProcessEndsStep
<1>13. CASE UNCHANGED vars
  BY <1>13, StutterStep
<1>14. CASE Run
  BY <1>14, <1>2, <1>3, <1>4, <1>5 DEF Run
<1> QED
  BY <1>1, <1>14, <1>6, <1>7, <1>8, <1>9, <1>10, <1>11, <1>12, <1>13 DEF Next

LEMMA Invariance == Spec => []IInv
<1>1. Init => IInv
  BY InitIInv
<1>2. IInv /\ [Next]_vars => IInv'
  BY NextIInv
<1> QED
  BY <1>1, <1>2, PTL DEF Spec

\* The records, tables and threads have their types.
LEMMA Typed == ASSUME IInv PROVE TypeOK
<1>1. TablesOK /\ MemoryOK
  BY InvParts
<1>2. mapped \subseteq Events \X Seqs
  BY <1>1, MappedFacts
<1>3. \A t \in Threads : th[t].pc \in Pcs
  BY <1>1 DEF MemoryOK, ThreadRecords
<1>4. \A n \in DOMAIN objs : objs[n] \in ObjectRecords
  BY <1>1, ObjectFacts
<1> QED
  BY <1>1, <1>2, <1>3, <1>4 DEF TypeOK, TablesOK, MemoryOK, Pcs, ObjectRecords

\* What is owed is mapped to its observer until a callback or a package has it, whatever
\* environments, tasks, registrations and processes come and go (HandleEvents,
\* OnEvents, DeleteEventMappingAsync, TakeNext, AddWatcher and RemoveWatcher).
THEOREM TakenOrMappedHolds == Spec => []TakenOrMapped
<1>1. ASSUME IInv PROVE TakenOrMapped
  <2>1. \A p : Called(p) => \E t \in Threads : /\ th[t].pc = "call" /\ p[1] \in th[t].events
                                               /\ p[2] = objs[th[t].obj].row
    BY DEF Called, EventsFor
  <2>2. OwedOK
    BY <1>1, InvParts
  <2> QED
    BY <1>1, <2>1, <2>2, Typed DEF TakenOrMapped, OwedOK
<1>2. IInv => TakenOrMapped
  BY <1>1
<1> QED
  BY <1>2, Invariance, PTL

\* A JavaScript watcher that may still be called has its environment or no context: the cleanup
\* hook, the records and the destructor's removal of its record (OnEnvRemove,
\* AddEnvWatcherRecord, RemoveEnvWatcherRecord).
THEOREM EnvsOfCallbacksHolds == Spec => []EnvsOfCallbacks
<1>1. ASSUME IInv PROVE EnvsOfCallbacks
  <2>1. RefsOK /\ 0 \notin DOMAIN objs
    BY <1>1, InvParts, ObjectFacts
  <2> QED
    BY <2>1 DEF EnvsOfCallbacks, RefsOK, EnvOK, EnvOf, EnvIs
<1>2. IInv => EnvsOfCallbacks
  BY <1>1
<1> QED
  BY <1>2, Invariance, PTL

\* onTrigger of a JavaScript watcher has its holder: the thread that makes it does nothing else
\* before (CreateHolder and the loop's onTriggerWork).
THEOREM TriggeredWithHolderHolds == Spec => []TriggeredWithHolder
<1>1. IInv => TriggeredWithHolder
  BY InvParts DEF TriggeredWithHolder, TasksOK
<1> QED
  BY <1>1, Invariance, PTL

\* No event comes in two packages of one thread, though events are unmapped, and packages made
\* of what is mapped, in between (TakeNext and ReturnPackage).
THEOREM PackagesAreDisjointHolds == Spec => []PackagesAreDisjoint
<1>1. IInv => PackagesAreDisjoint
  BY InvParts DEF PackagesAreDisjoint, TakenOK
<1> QED
  BY <1>1, Invariance, PTL

================================================================================
