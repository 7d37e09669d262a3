----------------------------- MODULE Events_proofs -----------------------------
(* Machine-checked proofs about the way of an event: EventDelivery, for any     *)
(* observers, threads and bounds, and Writing, for any calls, arguments and     *)
(* limits.                                                                      *)
EXTENDS EventDelivery, Writing, FiniteSetTheorems, SequenceTheorems,
        NaturalsInduction, WellFoundedInduction, TLAPS

\* What the place of a thread says of the observer it is busy with.
LocalOK(c) ==
    /\ c.pc = "insert" => c.seq = 0 /\ c.kind \in Kinds
    /\ c.pc \in {"report", "reset", "startup"} => c.cur \in Processors
    /\ c.pc = "report" => c.mode \in {"real", "trigger", "startup"}
    /\ c.pc = "receive" => c.cur \in Watchers
    /\ c.pc \in {"unmap", "purge", "erase"} =>
        c.cur \in IF c.mode \in {"receive", "replay"} THEN Watchers ELSE Processors
    /\ c.pc \in {"publish", "rmmap", "rmrow", "rmmem"} => c.cur \in Observers
    /\ c.pc = "rmseq" => c.cur \in Watchers

Used(c) == c.batch \cup c.del

\* What a thread is about to erase is mapped to nobody, what it is about to take off
\* a processor's queue has been reported to it.
DataOK(c) ==
    /\ c.seq # 0 => kindOf[c.seq] # None
    /\ \A e \in Used(c) : e # 0 => kindOf[e] # None
    /\ c.pc = "erase" => \A m \in mapping : m[1] # 0 => m[1] \notin c.del
    /\ c.pc = "unmap" /\ c.cur \in Processors => c.batch \X {c.cur} \subseteq acked

\* Sequences are handed out one after another.
Contiguous ==
    \E n \in 0..MaxEvents : \A e \in Seqs : kindOf[e] # None <=> e <= n

\* An event whose mapping is still to be inserted is known to nobody else.
Fresh ==
    \A t \in Threads : th[t].pc = "map" /\ th[t].seq # 0 =>
        /\ th[t].seq \in events
        /\ \A m \in mapping : m[1] # th[t].seq
        /\ \A a \in acked : a[1] # th[t].seq
        /\ \A u \in Threads : th[t].seq \notin Used(th[u])

Distinct == \A t, u \in Threads : t # u /\ th[t].seq # 0 => th[u].seq # th[t].seq

Known ==
    /\ \A e \in events : kindOf[e] # None
    /\ \A a \in acked : a[1] # 0 => kindOf[a[1]] # None

JInv ==
    /\ Contiguous /\ Known /\ PendingEventsStored /\ Distinct /\ Fresh
    /\ \A t \in Threads : LocalOK(th[t]) /\ DataOK(th[t])

IInv == TypeOK /\ JInv

--------------------------------------------------------------------------------
(* Records of threads.                                                          *)

LEMMA IdleRecord ==
    /\ IdleThread \in ThreadStates
    /\ IdleThread.pc = "idle" /\ IdleThread.seq = 0 /\ Used(IdleThread) = {}
    /\ IdleThread.cur = None
<1>1. IdleThread \in ThreadStates
  BY BoundsAssumption DEF IdleThread, ThreadStates, Pcs, Modes
<1> QED
  BY <1>1 DEF IdleThread, Used

LEMMA MoveRecord ==
    ASSUME NEW c \in ThreadStates, NEW pc \in Pcs
    PROVE  /\ [c EXCEPT !.pc = pc] \in ThreadStates
           /\ [c EXCEPT !.pc = pc].pc = pc
           /\ [c EXCEPT !.pc = pc].seq = c.seq
           /\ [c EXCEPT !.pc = pc].cur = c.cur
           /\ [c EXCEPT !.pc = pc].mode = c.mode
           /\ [c EXCEPT !.pc = pc].batch = c.batch
           /\ [c EXCEPT !.pc = pc].del = c.del
<1>1. [c EXCEPT !.pc = pc] \in ThreadStates
  BY DEF ThreadStates
<1> QED
  BY <1>1 DEF ThreadStates

LEMMA CallRecord ==
    ASSUME NEW o \in Observers, NEW pc \in Pcs, NEW mode \in Modes,
           NEW E \in SUBSET (0..MaxEvents)
    PROVE  /\ CallFor(o, pc, mode, E) \in ThreadStates
           /\ CallFor(o, pc, mode, E).pc = pc
           /\ CallFor(o, pc, mode, E).mode = mode
           /\ CallFor(o, pc, mode, E).cur = o
           /\ CallFor(o, pc, mode, E).batch = E
           /\ CallFor(o, pc, mode, E).seq = 0
           /\ CallFor(o, pc, mode, E).del = {}
<1>1. IdleThread \in ThreadStates
  BY IdleRecord
<1>2. CallFor(o, pc, mode, E) \in ThreadStates
  BY <1>1 DEF CallFor, ThreadStates
<1>3. CallFor(o, pc, mode, E).pc = pc /\ CallFor(o, pc, mode, E).mode = mode
        /\ CallFor(o, pc, mode, E).cur = o /\ CallFor(o, pc, mode, E).batch = E
  BY DEF CallFor, IdleThread
<1>4. CallFor(o, pc, mode, E).seq = 0 /\ CallFor(o, pc, mode, E).del = {}
  BY DEF CallFor, IdleThread
<1> QED
  BY <1>2, <1>3, <1>4

\* What NextObserver makes of a thread.
NextRecord(c, o) ==
    IF c.todo \subseteq {o} THEN IdleThread
    ELSE [c EXCEPT !.pc = "send", !.mode = "none", !.cur = None,
                   !.todo = c.todo \ {o}, !.batch = {}, !.del = {}]

LEMMA NextRecordFacts ==
    ASSUME NEW c \in ThreadStates, NEW o
    PROVE  /\ NextRecord(c, o) \in ThreadStates
           /\ NextRecord(c, o).pc \in {"idle", "send"}
           /\ NextRecord(c, o).seq \in {0, c.seq}
           /\ Used(NextRecord(c, o)) = {}
<1>1. CASE c.todo \subseteq {o}
  BY <1>1, IdleRecord DEF NextRecord
<1>2. CASE ~(c.todo \subseteq {o})
  <2> DEFINE r == [c EXCEPT !.pc = "send", !.mode = "none", !.cur = None,
                            !.todo = c.todo \ {o}, !.batch = {}, !.del = {}]
  <2>1. r \in ThreadStates
    BY DEF ThreadStates, Pcs, Modes
  <2>2. r.pc = "send" /\ r.seq = c.seq /\ r.batch = {} /\ r.del = {}
    BY DEF ThreadStates
  <2>3. NextRecord(c, o) = r
    BY <1>2 DEF NextRecord
  <2> HIDE DEF r
  <2> QED
    BY <2>1, <2>2, <2>3 DEF Used
<1> QED
  BY <1>1, <1>2

--------------------------------------------------------------------------------
(* What steps do to the events.                                                 *)

Safe(e) == e # 0 => kindOf[e] # None /\ \A u \in Threads : th[u].pc = "map" => th[u].seq # e

\* The events of a thread, the one it has stored and mapped, and what is in the database
\* for an observer, may be handed on.
LEMMA SafeSources ==
    ASSUME IInv, NEW t \in Threads
    PROVE  /\ \A e \in Used(th[t]) : Safe(e)
           /\ th[t].pc # "map" => Safe(th[t].seq)
           /\ \A o : \A e \in QueryEvents(o) : e \in 1..MaxEvents /\ Safe(e)
<1> USE DEF IInv, JInv
<1>1. \A e \in Used(th[t]) : Safe(e)
  BY DEF Safe, DataOK, Fresh
<1>2. th[t].pc # "map" => Safe(th[t].seq)
  BY DEF Safe, DataOK, Distinct
<1>3. ASSUME NEW o, NEW e \in QueryEvents(o) PROVE e \in 1..MaxEvents /\ Safe(e)
  <2>1. e \in events /\ <<e, o>> \in mapping
    BY <1>3 DEF QueryEvents, EventsOf
  <2>2. <<e, o>>[1] = e
    OBVIOUS
  <2>3. e \in 1..MaxEvents /\ kindOf[e] # None
    BY <2>1 DEF TypeOK, Seqs, Known
  <2>4. \A u \in Threads : th[u].pc = "map" => th[u].seq # e
    <3> SUFFICES ASSUME NEW u \in Threads, th[u].pc = "map", th[u].seq = e PROVE FALSE
      OBVIOUS
    <3>1. th[u].seq # 0
      BY <2>3, BoundsAssumption
    <3> QED
      BY <2>1, <2>2, <3>1 DEF Fresh
  <2> QED
    BY <2>3, <2>4 DEF Safe
<1> QED
  BY <1>1, <1>2, <1>3

\* A step of a thread that neither stores an event nor its mapping.
LEMMA StepKeepsJInv ==
    ASSUME IInv, NEW t \in Threads, NEW next \in ThreadStates,
           th' = [th EXCEPT ![t] = next],
           th[t].pc # "map",
           kindOf' = kindOf, mapping' \subseteq mapping, events' \subseteq events,
           \A e \in events \ events' : th[t].pc = "erase" /\ e \in th[t].del,
           acked \subseteq acked', \A a \in acked' \ acked : a[1] \in th[t].batch,
           LocalOK(next), next.pc # "map", next.seq \in {0, th[t].seq},
           \A e \in Used(next) : Safe(e),
           next.pc = "erase" => \A m \in mapping' : m[1] # 0 => m[1] \notin next.del,
           next.pc = "unmap" /\ next.cur \in Processors =>
                next.batch \X {next.cur} \subseteq acked'
    PROVE  JInv'
<1>0. /\ th \in [Threads -> ThreadStates] /\ JInv /\ TypeOK
      /\ th'[t] = next /\ \A u \in Threads : u # t => th'[u] = th[u]
  BY DEF IInv, TypeOK
<1>1. Contiguous'
  BY <1>0 DEF JInv, Contiguous
<1>2. PendingEventsStored'
  BY <1>0 DEF JInv, PendingEventsStored, DataOK
<1>3. Known'
  BY <1>0 DEF JInv, Known, DataOK, Used
<1>4. Distinct'
  BY <1>0 DEF JInv, Distinct
<1>5. Fresh'
  <2> SUFFICES ASSUME NEW u \in Threads, th'[u].pc = "map", th'[u].seq # 0
               PROVE  /\ th[u].seq \in events'
                      /\ \A m \in mapping' : m[1] # th[u].seq
                      /\ \A a \in acked' : a[1] # th[u].seq
                      /\ \A v \in Threads : th[u].seq \notin Used(th'[v])
    BY <1>0 DEF Fresh
  <2>1. u # t /\ th'[u] = th[u]
    BY <1>0
  <2>2. /\ th[u].seq \in events /\ \A m \in mapping : m[1] # th[u].seq
        /\ \A a \in acked : a[1] # th[u].seq
        /\ \A v \in Threads : th[u].seq \notin Used(th[v])
    BY <1>0, <2>1 DEF JInv, Fresh
  <2>3. th[u].seq \notin Used(next)
    BY <2>1 DEF Safe
  <2> QED
    BY <1>0, <2>2, <2>3 DEF Used
<1>6. ASSUME NEW u \in Threads PROVE LocalOK(th[u])' /\ DataOK(th[u])'
  <2>1. CASE u = t
    <3>1. next.seq # 0 => kindOf[next.seq] # None
      BY <1>0 DEF JInv, DataOK
    <3>2. \A e \in Used(next) : e # 0 => kindOf[e] # None
      BY DEF Safe
    <3> QED
      BY <1>0, <2>1, <3>1, <3>2 DEF DataOK, LocalOK
  <2>2. CASE u # t
    BY <1>0, <2>2 DEF JInv, DataOK, LocalOK
  <2> QED
    BY <2>1, <2>2
<1> QED
  BY <1>1, <1>2, <1>3, <1>4, <1>5, <1>6 DEF JInv

--------------------------------------------------------------------------------
(* Steps by what they do to their thread.                                       *)

\* The type invariant without the threads.
MemOK ==
    /\ events \subseteq Seqs
    /\ kindOf \in [Seqs -> Kinds \cup {None}]
    /\ mapping \subseteq (0..MaxEvents) \X (Observers \cup {None})
    /\ observers \subseteq Observers
    /\ live \subseteq Observers
    /\ stub \subseteq Watchers
    /\ zeroed \subseteq Watchers
    /\ removed \subseteq Observers
    /\ row \in [Processors -> Nat]
    /\ condMutex \in [Processors -> Threads \cup {None}]
    /\ begun \in 0..MaxEvents
    /\ crashes \in 0..MaxCrashes
    /\ faults \in 0..MaxFaults
    /\ acked \subseteq (0..MaxEvents) \X Observers

LEMMA TypeOfParts == TypeOK <=> MemOK /\ th \in [Threads -> ThreadStates]
BY DEF TypeOK, MemOK

\* What StepKeepsJInv asks of the tables.
Shrinks(t) ==
    /\ th[t].pc # "map"
    /\ kindOf' = kindOf /\ mapping' \subseteq mapping /\ events' \subseteq events
    /\ \A e \in events \ events' : th[t].pc = "erase" /\ e \in th[t].del
    /\ acked \subseteq acked' /\ \A a \in acked' \ acked : a[1] \in th[t].batch

LEMMA ReturnStep ==
    ASSUME IInv, NEW t \in Threads, Shrinks(t), MemOK',
           th' = [th EXCEPT ![t] = IdleThread]
    PROVE  IInv'
<1>1. LocalOK(IdleThread)
  BY IdleRecord DEF LocalOK
<1>2. JInv'
  BY <1>1, IdleRecord, StepKeepsJInv DEF Shrinks
<1>3. th' \in [Threads -> ThreadStates]
  BY IdleRecord DEF IInv, TypeOK
<1> QED
  BY <1>2, <1>3 DEF IInv, TypeOK, MemOK

LEMMA NextStep ==
    ASSUME IInv, NEW t \in Threads, NEW o, Shrinks(t), MemOK', NextObserver(t, o)
    PROVE  IInv'
<1> DEFINE next == NextRecord(th[t], o)
<1>0. th[t] \in ThreadStates /\ th \in [Threads -> ThreadStates]
  BY DEF IInv, TypeOK
<1>1. th' = [th EXCEPT ![t] = next]
  BY DEF NextObserver, NextRecord
<1>2. /\ next \in ThreadStates /\ next.pc \in {"idle", "send"}
      /\ next.seq \in {0, th[t].seq} /\ Used(next) = {}
  BY <1>0, NextRecordFacts
<1> HIDE DEF next
<1>3. LocalOK(next)
  BY <1>2 DEF LocalOK
<1>4. JInv'
  BY <1>1, <1>2, <1>3, StepKeepsJInv DEF Shrinks
<1>5. th' \in [Threads -> ThreadStates]
  BY <1>0, <1>1, <1>2
<1> QED
  BY <1>4, <1>5 DEF IInv, TypeOK, MemOK

LEMMA MoveStep ==
    ASSUME IInv, NEW t \in Threads, Shrinks(t), MemOK',
           NEW pc \in Pcs, pc \notin {"insert", "map", "erase"}, Goto(t, pc),
           LocalOK([th[t] EXCEPT !.pc = pc]),
           pc = "unmap" /\ th[t].cur \in Processors => th[t].batch \X {th[t].cur} \subseteq acked'
    PROVE  IInv'
<1> DEFINE next == [th[t] EXCEPT !.pc = pc]
<1>0. th[t] \in ThreadStates /\ th \in [Threads -> ThreadStates]
  BY DEF IInv, TypeOK
<1>1. th' = [th EXCEPT ![t] = next]
  BY <1>0 DEF Goto, ThreadStates
<1>2. /\ next \in ThreadStates /\ next.pc = pc /\ next.seq = th[t].seq /\ next.cur = th[t].cur
      /\ next.batch = th[t].batch /\ next.del = th[t].del /\ LocalOK(next)
  BY <1>0, MoveRecord
<1> HIDE DEF next
<1>3. \A e \in Used(next) : Safe(e)
  BY <1>2, SafeSources DEF Used
<1>4. JInv'
  BY <1>1, <1>2, <1>3, StepKeepsJInv DEF Shrinks
<1>5. th' \in [Threads -> ThreadStates]
  BY <1>0, <1>1, <1>2
<1> QED
  BY <1>4, <1>5 DEF IInv, TypeOK, MemOK

\* A thread turns to an observer with a batch from a safe source.
LEMMA BatchStep ==
    ASSUME IInv, NEW t \in Threads, Shrinks(t), MemOK',
           NEW pc \in {"report", "unmap"}, NEW mode \in Modes, NEW o \in Observers,
           NEW E \in SUBSET (0..MaxEvents), \A e \in E : Safe(e),
           th' = [th EXCEPT ![t].pc = pc, ![t].mode = mode, ![t].cur = o, ![t].batch = E],
           pc = "report" => o \in Processors /\ mode \in {"real", "trigger", "startup"},
           pc = "unmap" => o \in Watchers /\ mode = "receive"
    PROVE  IInv'
<1> DEFINE next == [th[t] EXCEPT !.pc = pc, !.mode = mode, !.cur = o, !.batch = E]
<1>0. th[t] \in ThreadStates /\ th \in [Threads -> ThreadStates] /\ pc \in Pcs
  BY DEF IInv, TypeOK, Pcs
<1>1. th' = [th EXCEPT ![t] = next]
  BY <1>0 DEF ThreadStates
<1>2. /\ next \in ThreadStates /\ next.pc = pc /\ next.mode = mode /\ next.cur = o
      /\ next.batch = E /\ next.seq = th[t].seq /\ next.del = th[t].del
  <2>1. next \in ThreadStates
    BY <1>0 DEF ThreadStates
  <2>2. /\ next.pc = pc /\ next.mode = mode /\ next.cur = o /\ next.batch = E
        /\ next.seq = th[t].seq /\ next.del = th[t].del
    BY <1>0 DEF ThreadStates
  <2> QED
    BY <2>1, <2>2
<1> HIDE DEF next
<1>3. LocalOK(next)
  BY <1>2 DEF LocalOK
<1>4. \A e \in Used(next) : Safe(e)
  BY <1>2, SafeSources DEF Used
<1>5. o \in Watchers => o \notin Processors
  BY ObserversAssumption
<1>6. JInv'
  BY <1>1, <1>2, <1>3, <1>4, <1>5, StepKeepsJInv DEF Shrinks
<1>7. th' \in [Threads -> ThreadStates]
  BY <1>0, <1>1, <1>2
<1> QED
  BY <1>6, <1>7 DEF IInv, TypeOK, MemOK

\* A call for an observer begins.
LEMMA CallStep ==
    ASSUME IInv, NEW t \in Threads, Shrinks(t), MemOK',
           NEW pc \in {"startup", "publish", "unmap", "rmmap"}, NEW mode \in Modes,
           NEW o \in Observers, NEW E \in SUBSET (0..MaxEvents), \A e \in E : Safe(e),
           th' = [th EXCEPT ![t] = CallFor(o, pc, mode, E)],
           pc = "startup" => o \in Processors,
           pc = "unmap" => o \in Watchers /\ mode = "replay"
    PROVE  IInv'
<1> DEFINE next == CallFor(o, pc, mode, E)
<1>0. th \in [Threads -> ThreadStates] /\ pc \in Pcs
  BY DEF IInv, TypeOK, Pcs
<1>1. /\ next \in ThreadStates /\ next.pc = pc /\ next.mode = mode /\ next.cur = o
      /\ next.batch = E /\ next.seq = 0 /\ next.del = {}
  BY <1>0, CallRecord
<1>2. th' = [th EXCEPT ![t] = next]
  OBVIOUS
<1> HIDE DEF next
<1>3. LocalOK(next)
  BY <1>1 DEF LocalOK
<1>4. \A e \in Used(next) : Safe(e)
  BY <1>1 DEF Used
<1>5. o \in Watchers => o \notin Processors
  BY ObserversAssumption
<1>6. JInv'
  BY <1>1, <1>2, <1>3, <1>4, <1>5, StepKeepsJInv DEF Shrinks
<1>7. th' \in [Threads -> ThreadStates]
  BY <1>0, <1>1, <1>2
<1> QED
  BY <1>6, <1>7 DEF IInv, TypeOK, MemOK

\* A call that begins without events.
LEMMA EmptyCallStep ==
    ASSUME IInv, NEW t \in Threads, Shrinks(t), MemOK',
           NEW pc \in {"startup", "publish", "rmmap"}, NEW mode \in Modes,
           NEW o \in Observers,
           th' = [th EXCEPT ![t] = CallFor(o, pc, mode, {})],
           pc = "startup" => o \in Processors
    PROVE  IInv'
<1> DEFINE next == CallFor(o, pc, mode, {})
<1>0. th \in [Threads -> ThreadStates] /\ pc \in Pcs
  BY DEF IInv, TypeOK, Pcs
<1>1. /\ next \in ThreadStates /\ next.pc = pc /\ next.cur = o
      /\ next.batch = {} /\ next.seq = 0 /\ next.del = {}
  BY <1>0, CallRecord
<1>2. th' = [th EXCEPT ![t] = next]
  OBVIOUS
<1> HIDE DEF next
<1>3. LocalOK(next) /\ Used(next) = {}
  BY <1>1 DEF LocalOK, Used
<1>4. JInv'
  BY <1>1, <1>2, <1>3, StepKeepsJInv DEF Shrinks
<1>5. th' \in [Threads -> ThreadStates]
  BY <1>0, <1>1, <1>2
<1> QED
  BY <1>4, <1>5 DEF IInv, TypeOK, MemOK

\* A batch is done with.
LEMMA AfterBatchStep ==
    ASSUME IInv, NEW t \in Threads, Shrinks(t), MemOK', AfterBatch(t),
           th[t].pc \in {"report", "unmap", "purge", "erase"}
    PROVE  IInv'
<1>0. th[t] \in ThreadStates /\ LocalOK(th[t])
  BY DEF IInv, TypeOK, JInv
<1>1. CASE th[t].mode = "real"
  BY <1>1, NextStep DEF AfterBatch
<1>2. CASE th[t].mode \in {"receive", "replay"}
  <2>1. th[t].cur \in Watchers /\ Goto(t, "receive")
    BY <1>0, <1>2 DEF AfterBatch, LocalOK
  <2>2. "receive" \in Pcs
    BY DEF Pcs
  <2>3. LocalOK([th[t] EXCEPT !.pc = "receive"])
    BY <1>0, <2>1, <2>2, MoveRecord DEF LocalOK
  <2> QED
    BY <2>1, <2>2, <2>3, MoveStep
<1>3. CASE th[t].mode \notin {"real", "receive", "replay"}
  <2>1. th[t].cur \in Processors /\ Goto(t, "reset")
    BY <1>0, <1>3 DEF AfterBatch, LocalOK
  <2>2. "reset" \in Pcs
    BY DEF Pcs
  <2>3. LocalOK([th[t] EXCEPT !.pc = "reset"])
    BY <1>0, <2>1, <2>2, MoveRecord DEF LocalOK
  <2> QED
    BY <2>1, <2>2, <2>3, MoveStep
<1> QED
  BY <1>1, <1>2, <1>3

--------------------------------------------------------------------------------
(* HandleEvents.                                                                *)

LEMMA Parts ==
    ASSUME IInv
    PROVE  /\ MemOK /\ JInv /\ th \in [Threads -> ThreadStates]
           /\ \A t \in Threads : th[t] \in ThreadStates /\ LocalOK(th[t]) /\ DataOK(th[t])
BY TypeOfParts DEF IInv, JInv

\* MemOK is kept when nothing but the threads, and what stays in bounds, changes.
LEMMA StepHandleEvents ==
    ASSUME IInv, NEW t \in Threads, NEW k \in Kinds, HandleEvents(t, k)
    PROVE  IInv'
<1> DEFINE next == [IdleThread EXCEPT !.pc = "insert", !.kind = k, !.todo = live, !.stubs = stub]
<1>0. MemOK /\ th \in [Threads -> ThreadStates]
  BY Parts
<1>1. th' = [th EXCEPT ![t] = next] /\ th[t].pc = "idle" /\ UNCHANGED <<db, mem, crashes, faults, acked>>
        /\ begun < MaxEvents /\ begun' = begun + 1
  BY DEF HandleEvents
<1>2. next \in ThreadStates
  BY <1>0, IdleRecord, ZenonT(40) DEF MemOK, ThreadStates, Pcs
<1>3. next.pc = "insert" /\ next.seq = 0 /\ next.batch = {} /\ next.del = {} /\ next.kind = k
  BY DEF IdleThread
<1> HIDE DEF next
<1>4. Shrinks(t)
  BY <1>1 DEF Shrinks, db
<1>5. MemOK'
  BY <1>0, <1>1, BoundsAssumption DEF MemOK, db, mem
<1>6. LocalOK(next) /\ Used(next) = {}
  BY <1>3 DEF LocalOK, Used
<1>7. JInv'
  BY <1>1, <1>2, <1>3, <1>4, <1>6, StepKeepsJInv DEF Shrinks
<1>8. th' \in [Threads -> ThreadStates]
  BY <1>0, <1>1, <1>2
<1> QED
  BY <1>5, <1>7, <1>8 DEF IInv, TypeOK, MemOK

\* The sequence of a new event has not been used.
LEMMA NextSeqFresh ==
    ASSUME IInv, NextSeq <= MaxEvents
    PROVE  /\ NextSeq \in Seqs /\ NextSeq # 0 /\ kindOf[NextSeq] = None
           /\ \A e \in Seqs : e # NextSeq => (kindOf[e] # None <=> e <= NextSeq)
<1>1. PICK n \in 0..MaxEvents : \A e \in Seqs : kindOf[e] # None <=> e <= n
  BY DEF IInv, JInv, Contiguous
<1>2. {e \in Seqs : kindOf[e] # None} = 1..n
  BY <1>1, BoundsAssumption DEF Seqs
<1>3. Cardinality(1..n) = n
  BY FS_Interval
<1>4. Cardinality({e \in Seqs : kindOf[e] # None}) = n
  BY <1>2, <1>3, Zenon
<1>5. NextSeq = n + 1
  BY <1>4 DEF NextSeq
<1> QED
  BY <1>1, <1>5, BoundsAssumption DEF Seqs

LEMMA StepInsertEvent ==
    ASSUME IInv, NEW t \in Threads, InsertEvent(t)
    PROVE  IInv'
<1>0. MemOK /\ JInv /\ th[t] \in ThreadStates /\ LocalOK(th[t]) /\ th \in [Threads -> ThreadStates]
        /\ th[t].pc = "insert" /\ th[t].seq = 0
  BY Parts DEF InsertEvent, LocalOK
<1>1. UNCHANGED <<mapping, observers, mem, begun, crashes, acked>>
  BY DEF InsertEvent
<1>2. CASE NextSeq <= MaxEvents /\ events' = events \cup {NextSeq}
             /\ kindOf' = [kindOf EXCEPT ![NextSeq] = th[t].kind]
             /\ th' = [th EXCEPT ![t].pc = "map", ![t].seq = NextSeq] /\ UNCHANGED faults
  <2> DEFINE next == [th[t] EXCEPT !.pc = "map", !.seq = NextSeq]
             n == NextSeq
  <2>1. /\ n \in Seqs /\ n # 0 /\ kindOf[n] = None /\ n \in 0..MaxEvents
        /\ \A e \in Seqs : e # n => (kindOf[e] # None <=> e <= n)
    BY <1>2, NextSeqFresh, BoundsAssumption DEF Seqs
  <2> HIDE DEF n
  <2>2. th' = [th EXCEPT ![t] = next]
    BY <1>0, <1>2 DEF ThreadStates
  <2>3. next \in ThreadStates
    BY <1>0, <2>1, ZenonT(40) DEF ThreadStates, Pcs, n
  <2>4. next.pc = "map" /\ next.seq = n /\ next.batch = th[t].batch /\ next.del = th[t].del
    BY <1>0 DEF ThreadStates, n
  <2> HIDE DEF next
  <2>5. th' \in [Threads -> ThreadStates] /\ th'[t] = next /\ \A u \in Threads : u # t => th'[u] = th[u]
    BY <1>0, <2>2, <2>3
  <2>6. th[t].kind # None /\ th[t].kind \in Kinds
    BY <1>0, ObserversAssumption DEF LocalOK
  <2>7. /\ kindOf' \in [Seqs -> Kinds \cup {None}] /\ kindOf'[n] # None
        /\ \A e \in Seqs : e # n => kindOf'[e] = kindOf[e]
        /\ events' = events \cup {n}
    BY <1>0, <1>2, <2>1, <2>6 DEF MemOK, n
  <2>8. n \notin events /\ (\A m \in mapping : m[1] # n) /\ (\A a \in acked : a[1] # n)
    BY <1>0, <2>1 DEF JInv, Known, PendingEventsStored
  <2>9. \A u \in Threads : th[u].seq # n /\ n \notin Used(th[u])
    BY <1>0, <2>1 DEF JInv, DataOK
  <2>10. MemOK'
    BY <1>0, <1>1, <1>2, <2>1, <2>7 DEF MemOK, mem
  <2>11. Contiguous'
    BY <2>1, <2>7 DEF Contiguous
  <2>12. PendingEventsStored' /\ Known'
    <3>1. \A e : e \in events => e \in Seqs
      BY <1>0 DEF MemOK
    <3>2. \A a \in acked : a[1] # 0 => a[1] \in Seqs
      BY <1>0, BoundsAssumption DEF MemOK, Seqs
    <3> QED
      BY <1>0, <1>1, <2>1, <2>7, <3>1, <3>2 DEF JInv, PendingEventsStored, Known
  <2>13. Distinct'
    BY <1>0, <2>1, <2>4, <2>5, <2>9 DEF JInv, Distinct
  <2>14. Fresh'
    BY <1>0, <1>1, <2>4, <2>5, <2>7, <2>8, <2>9 DEF JInv, Fresh, Used
  <2>15. ASSUME NEW u \in Threads PROVE LocalOK(th[u])' /\ DataOK(th[u])'
    <3>1. /\ th[u].seq # 0 => th[u].seq \in Seqs
          /\ \A e \in Used(th[u]) : e # 0 => e \in Seqs
      BY <1>0, BoundsAssumption DEF ThreadStates, Used, Seqs
    <3>2. CASE u = t
      <4>1. LocalOK(next)
        BY <2>4 DEF LocalOK
      <4>2. \A e \in Used(th[t]) : e # 0 => kindOf'[e] # None
        BY <1>0, <2>7, <3>1, <3>2 DEF JInv, DataOK
      <4> QED
        BY <2>4, <2>5, <2>7, <3>2, <4>1, <4>2 DEF LocalOK, DataOK, Used
    <3>3. CASE u # t
      <4>1. th'[u] = th[u] /\ LocalOK(th[u]) /\ DataOK(th[u])
        BY <1>0, <2>5, <3>3 DEF JInv
      <4> QED
        BY <1>1, <2>7, <3>1, <4>1 DEF LocalOK, DataOK, Used
    <3> QED
      BY <3>2, <3>3
  <2> QED
    BY <2>5, <2>10, <2>11, <2>12, <2>13, <2>14, <2>15 DEF IInv, JInv, TypeOK, MemOK
<1>3. CASE Fault /\ Goto(t, "map") /\ UNCHANGED <<events, kindOf>>
  <2> DEFINE next == [th[t] EXCEPT !.pc = "map"]
  <2>1. th' = [th EXCEPT ![t] = next]
    BY <1>0, <1>3 DEF Goto, ThreadStates
  <2>2. next \in ThreadStates /\ next.pc = "map" /\ next.seq = 0
          /\ next.batch = th[t].batch /\ next.del = th[t].del
    <3>1. "map" \in Pcs
      BY DEF Pcs
    <3> QED
      BY <1>0, <3>1, MoveRecord
  <2> HIDE DEF next
  <2>3. th' \in [Threads -> ThreadStates] /\ th'[t] = next /\ \A u \in Threads : u # t => th'[u] = th[u]
    BY <1>0, <2>1, <2>2
  <2>4. MemOK'
    BY <1>0, <1>1, <1>3, BoundsAssumption DEF MemOK, mem, Fault
  <2>5. Contiguous' /\ PendingEventsStored' /\ Known'
    BY <1>0, <1>1, <1>3 DEF JInv, Contiguous, PendingEventsStored, Known
  <2>6. Distinct' /\ Fresh'
    BY <1>0, <1>1, <1>3, <2>2, <2>3 DEF JInv, Distinct, Fresh, Used
  <2>7. ASSUME NEW u \in Threads PROVE LocalOK(th[u])' /\ DataOK(th[u])'
    <3>1. CASE u = t
      BY <1>0, <1>3, <2>2, <2>3, <3>1 DEF JInv, LocalOK, DataOK, Used
    <3>2. CASE u # t
      <4>1. th'[u] = th[u] /\ LocalOK(th[u]) /\ DataOK(th[u])
        BY <1>0, <2>3, <3>2 DEF JInv
      <4> QED
        BY <1>1, <1>3, <4>1 DEF LocalOK, DataOK, Used
    <3> QED
      BY <3>1, <3>2
  <2> QED
    BY <2>3, <2>4, <2>5, <2>6, <2>7 DEF IInv, JInv, TypeOK, MemOK
<1> QED
  BY <1>2, <1>3 DEF InsertEvent

\* The rows that InsertEventMapping adds.
NewRows(c) == {<<c.seq, GetSeq(o)>> : o \in {w \in c.todo : c.kind \in Wants[w]}}

LEMMA NewRowsFacts ==
    ASSUME NEW c \in ThreadStates
    PROVE  /\ \A m \in NewRows(c) : m[1] = c.seq
           /\ NewRows(c) \subseteq (0..MaxEvents) \X (Observers \cup {None})
BY DEF NewRows, GetSeq, ThreadStates

LEMMA StepInsertEventMapping ==
    ASSUME IInv, NEW t \in Threads, InsertEventMapping(t)
    PROVE  IInv'
<1> DEFINE next == [th[t] EXCEPT !.pc = "send"]
           seq == th[t].seq
<1>0. /\ MemOK /\ JInv /\ th[t] \in ThreadStates /\ th \in [Threads -> ThreadStates]
      /\ th[t].pc = "map"
  BY Parts DEF InsertEventMapping
<1>1. /\ UNCHANGED <<events, kindOf, observers, mem, begun, crashes, acked>>
      /\ Goto(t, "send")
      /\ \/ mapping' = mapping \cup NewRows(th[t]) /\ UNCHANGED faults
         \/ mapping' = mapping /\ Fault
  BY DEF InsertEventMapping, NewRows
<1>2. th' = [th EXCEPT ![t] = next]
  BY <1>0, <1>1 DEF Goto, ThreadStates
<1>3. next \in ThreadStates /\ next.pc = "send" /\ next.seq = seq
        /\ next.batch = th[t].batch /\ next.del = th[t].del
  <2>1. "send" \in Pcs
    BY DEF Pcs
  <2> QED
    BY <1>0, <2>1, MoveRecord
<1> HIDE DEF next
<1>4. th' \in [Threads -> ThreadStates] /\ th'[t] = next /\ \A u \in Threads : u # t => th'[u] = th[u]
  BY <1>0, <1>2, <1>3
<1>5. \A m \in mapping' : m \in mapping \/ m[1] = seq
  BY <1>0, <1>1, NewRowsFacts
<1>6. MemOK'
  BY <1>0, <1>1, NewRowsFacts, BoundsAssumption DEF MemOK, mem, Fault
<1>7. seq # 0 => /\ seq \in events /\ \A u \in Threads : seq \notin Used(th[u])
                 /\ \A u \in Threads : u # t => th[u].seq # seq
  BY <1>0 DEF JInv, Fresh, Distinct
<1>8. Contiguous' /\ Known'
  BY <1>0, <1>1 DEF JInv, Contiguous, Known
<1>9. PendingEventsStored'
  BY <1>0, <1>1, <1>5, <1>7 DEF JInv, PendingEventsStored
<1>10. Distinct'
  BY <1>0, <1>3, <1>4 DEF JInv, Distinct
<1>11. Fresh'
  BY <1>0, <1>1, <1>3, <1>4, <1>5, <1>7 DEF JInv, Fresh, Used
<1>12. ASSUME NEW u \in Threads PROVE LocalOK(th[u])' /\ DataOK(th[u])'
  <2>1. CASE u = t
    BY <1>0, <1>1, <1>3, <1>4, <2>1 DEF JInv, LocalOK, DataOK, Used
  <2>2. CASE u # t
    <3>1. th'[u] = th[u] /\ LocalOK(th[u]) /\ DataOK(th[u])
      BY <1>0, <1>4, <2>2 DEF JInv
    <3>2. th[u].pc = "erase" => \A m \in mapping' : m[1] # 0 => m[1] \notin th[u].del
      BY <1>5, <1>7, <3>1 DEF DataOK, Used
    <3> QED
      BY <1>1, <3>1, <3>2 DEF LocalOK, DataOK, Used
  <2> QED
    BY <2>1, <2>2
<1> QED
  BY <1>4, <1>6, <1>8, <1>9, <1>10, <1>11, <1>12 DEF IInv, JInv, TypeOK, MemOK

\* A step that changes no table satisfies Shrinks.
LEMMA StutterShrinks ==
    ASSUME NEW t \in Threads, th[t].pc # "map", UNCHANGED <<db, acked>>
    PROVE  Shrinks(t)
BY DEF Shrinks, db

LEMMA StepSkipObserver ==
    ASSUME IInv, NEW t \in Threads, NEW o \in Observers, SkipObserver(t, o)
    PROVE  IInv'
<1>1. th[t].pc # "map" /\ NextObserver(t, o) /\ UNCHANGED <<db, mem, begun, crashes, faults, acked>>
  BY DEF SkipObserver, MayVisit
<1>2. Shrinks(t)
  BY <1>1, StutterShrinks
<1>3. MemOK'
  BY <1>1, Parts DEF MemOK, db, mem
<1> QED
  BY <1>1, <1>2, <1>3, NextStep

LEMMA StepSend ==
    ASSUME IInv, NEW t \in Threads,
           \/ \E w \in Watchers : SendToWatcher(t, w)
           \/ \E p \in Processors : SendRealTime(t, p)
    PROVE  IInv'
<1>0. th[t].pc = "send" /\ UNCHANGED <<db, mem, begun, crashes, faults, acked>>
  BY DEF SendToWatcher, SendRealTime, MayVisit
<1>1. Shrinks(t)
  BY <1>0, StutterShrinks
<1>2. MemOK'
  BY <1>0, Parts DEF MemOK, db, mem
<1>3. \A e \in {th[t].seq} : Safe(e)
  BY <1>0, SafeSources
<1>4. {th[t].seq} \in SUBSET (0..MaxEvents)
  BY Parts DEF ThreadStates
<1>5. "receive" \in Modes /\ "real" \in Modes
  BY DEF Modes
<1>6. CASE \E w \in Watchers : SendToWatcher(t, w)
  <2>1. PICK w \in Watchers :
            th' = [th EXCEPT ![t].pc = "unmap", ![t].mode = "receive", ![t].cur = w,
                             ![t].batch = {th[t].seq}]
    BY <1>6 DEF SendToWatcher
  <2>2. w \in Observers
    BY DEF Observers
  <2> QED
    BY <1>1, <1>2, <1>3, <1>4, <1>5, <2>1, <2>2, BatchStep
<1>7. CASE \E p \in Processors : SendRealTime(t, p)
  <2>1. PICK p \in Processors :
            th' = [th EXCEPT ![t].pc = "report", ![t].mode = "real", ![t].cur = p,
                             ![t].batch = {th[t].seq}]
    BY <1>7 DEF SendRealTime
  <2>2. p \in Observers
    BY DEF Observers
  <2> QED
    BY <1>1, <1>2, <1>3, <1>4, <1>5, <2>1, <2>2, BatchStep
<1> QED
  BY <1>6, <1>7

LEMMA StepTrigger ==
    ASSUME IInv, NEW t \in Threads, NEW p \in Processors, NEW mode \in {"trigger", "startup"},
           Trigger(t, p, mode), th[t].pc # "map",
           mode = "startup" => th[t].cur \in Observers,
           UNCHANGED <<db, live, stub, zeroed, removed, begun, crashes, acked>>
    PROVE  IInv'
<1>1. PICK E \in {{}, QueryEvents(p)} :
          OnTrigger(t, p, mode, E) /\ (UNCHANGED faults \/ Fault)
  BY DEF Trigger
<1>2. E \in SUBSET (0..MaxEvents) /\ \A e \in E : Safe(e)
  BY SafeSources
<1>3. Shrinks(t)
  BY StutterShrinks
<1>4. faults' \in 0..MaxFaults
  BY <1>1, Parts, BoundsAssumption DEF MemOK, Fault
<1>5. th[t] \in ThreadStates /\ MemOK
  BY Parts
<1>6. CASE E = {}
  <2>1. MemOK'
    BY <1>1, <1>4, <1>5, <1>6 DEF MemOK, OnTrigger, db
  <2>2. CASE mode = "startup"
    <3>1. Goto(t, "publish") /\ "publish" \in Pcs
      BY <1>1, <1>6, <2>2 DEF OnTrigger, Pcs
    <3>2. LocalOK([th[t] EXCEPT !.pc = "publish"])
      BY <1>5, <2>2, <3>1, MoveRecord DEF LocalOK
    <3> QED
      BY <1>3, <2>1, <3>1, <3>2, MoveStep
  <2>3. CASE mode # "startup"
    BY <1>1, <1>3, <1>6, <2>1, <2>3, NextStep DEF OnTrigger
  <2> QED
    BY <2>2, <2>3
<1>7. CASE E # {}
  <2>1. LockCond(t, p) /\ UNCHANGED row
          /\ th' = [th EXCEPT ![t].pc = "report", ![t].mode = mode, ![t].cur = p, ![t].batch = E]
    BY <1>1, <1>7 DEF OnTrigger
  <2>2. MemOK'
    BY <1>4, <1>5, <2>1 DEF MemOK, LockCond, db
  <2>3. p \in Observers /\ mode \in Modes
    BY DEF Observers, Modes
  <2> QED
    BY <1>2, <1>3, <2>1, <2>2, <2>3, BatchStep
<1> QED
  BY <1>6, <1>7

LEMMA StepProcessEvent ==
    ASSUME IInv, NEW t \in Threads, NEW p \in Processors,
           ProcessEvent(t, p) \/ TriggerBatch(t, p)
    PROVE  IInv'
<1>1. th[t].pc # "map" /\ UNCHANGED <<db, live, stub, zeroed, removed, begun, crashes, acked>>
  BY DEF ProcessEvent, TriggerBatch, MayVisit
<1>2. CASE Trigger(t, p, "trigger")
  BY <1>1, <1>2, StepTrigger
<1>3. CASE row' = [row EXCEPT ![p] = @ + 1] /\ NextObserver(t, p) /\ UNCHANGED <<condMutex, faults>>
  <2>1. MemOK'
    BY <1>1, <1>3, Parts DEF MemOK, db
  <2>2. Shrinks(t)
    BY <1>1, StutterShrinks
  <2> QED
    BY <1>3, <2>1, <2>2, NextStep
<1> QED
  BY <1>2, <1>3 DEF ProcessEvent, TriggerBatch

--------------------------------------------------------------------------------
(* OnEvents.                                                                    *)

LEMMA StepOnReport ==
    ASSUME IInv, NEW t \in Threads, OnReport(t)
    PROVE  IInv'
<1>0. /\ MemOK /\ th[t] \in ThreadStates /\ LocalOK(th[t])
      /\ th[t].pc = "report" /\ UNCHANGED <<db, mem, begun, crashes, faults>>
  BY Parts DEF OnReport
<1>1. CASE acked' = acked \cup (th[t].batch \X {th[t].cur}) /\ Goto(t, "unmap")
  <2>1. th[t].cur \in Processors /\ th[t].mode \in {"real", "trigger", "startup"}
    BY <1>0 DEF LocalOK
  <2>2. th[t].batch \subseteq 0..MaxEvents /\ th[t].cur \in Observers
    BY <1>0, <2>1 DEF ThreadStates, Observers
  <2>3. Shrinks(t)
    BY <1>0, <1>1 DEF Shrinks, db
  <2>4. MemOK'
    BY <1>0, <1>1, <2>2 DEF MemOK, db, mem
  <2>5. "unmap" \in Pcs
    BY DEF Pcs
  <2>6. LocalOK([th[t] EXCEPT !.pc = "unmap"])
    BY <1>0, <2>1, <2>5, MoveRecord DEF LocalOK
  <2> QED
    BY <1>1, <2>3, <2>4, <2>5, <2>6, MoveStep
<1>2. CASE AfterBatch(t) /\ UNCHANGED acked
  <2>1. Shrinks(t)
    BY <1>0, <1>2, StutterShrinks
  <2>2. MemOK'
    BY <1>0, <1>2 DEF MemOK, db, mem
  <2> QED
    BY <1>0, <1>2, <2>1, <2>2, AfterBatchStep
<1> QED
  BY <1>1, <1>2 DEF OnReport

LEMMA StepDeleteEventMapping ==
    ASSUME IInv, NEW t \in Threads, DeleteEventMapping(t)
    PROVE  IInv'
<1>0. /\ MemOK /\ th[t] \in ThreadStates /\ LocalOK(th[t]) /\ th[t].pc = "unmap"
      /\ UNCHANGED <<events, kindOf, observers, mem, begun, crashes, acked>>
      /\ mapping' \subseteq mapping
  BY Parts DEF DeleteEventMapping
<1>1. faults' \in 0..MaxFaults
  BY <1>0, BoundsAssumption DEF DeleteEventMapping, MemOK, Fault
<1>2. Shrinks(t)
  BY <1>0 DEF Shrinks
<1>3. MemOK'
  BY <1>0, <1>1 DEF MemOK, mem
<1>4. CASE Goto(t, "purge")
  <2>1. "purge" \in Pcs
    BY DEF Pcs
  <2>2. LocalOK([th[t] EXCEPT !.pc = "purge"])
    BY <1>0, <2>1, MoveRecord DEF LocalOK
  <2> QED
    BY <1>2, <1>3, <1>4, <2>1, <2>2, MoveStep
<1>5. CASE AfterBatch(t)
  BY <1>0, <1>2, <1>3, <1>5, AfterBatchStep
<1> QED
  BY <1>4, <1>5 DEF DeleteEventMapping

LEMMA StepQueryExistEvent ==
    ASSUME IInv, NEW t \in Threads, QueryExistEvent(t)
    PROVE  IInv'
<1>0. /\ MemOK /\ th[t] \in ThreadStates /\ LocalOK(th[t]) /\ th[t].pc = "purge"
      /\ UNCHANGED <<db, mem, begun, crashes, acked>> /\ th \in [Threads -> ThreadStates]
  BY Parts DEF QueryExistEvent
<1>1. Shrinks(t)
  BY <1>0, StutterShrinks
<1>2. faults' \in 0..MaxFaults
  BY <1>0, BoundsAssumption DEF QueryExistEvent, MemOK, Fault
<1>3. MemOK'
  BY <1>0, <1>2 DEF MemOK, db, mem
<1>4. CASE th' = [th EXCEPT ![t].pc = "erase", ![t].del = UnusedEvents(th[t].batch)]
  <2> DEFINE del == UnusedEvents(th[t].batch)
             next == [th[t] EXCEPT !.pc = "erase", !.del = del]
  <2>1. del \subseteq th[t].batch
    BY DEF UnusedEvents
  <2>2. \A m \in mapping : m[1] \notin del
    <3> SUFFICES ASSUME NEW m \in mapping, m[1] \in del PROVE FALSE
      OBVIOUS
    <3>1. m = <<m[1], m[2]>> /\ m[2] \in Observers \cup {None}
      BY <1>0 DEF MemOK
    <3> QED
      BY <3>1 DEF UnusedEvents
  <2> HIDE DEF del
  <2>3. th' = [th EXCEPT ![t] = next]
    BY <1>0, <1>4 DEF ThreadStates, del
  <2>4. next \in ThreadStates
    BY <1>0, <2>1 DEF ThreadStates, Pcs
  <2>5. /\ next.pc = "erase" /\ next.mode = th[t].mode /\ next.cur = th[t].cur
        /\ next.batch = th[t].batch /\ next.seq = th[t].seq /\ next.del = del
    BY <1>0 DEF ThreadStates
  <2> HIDE DEF next
  <2>6. LocalOK(next)
    BY <1>0, <2>5 DEF LocalOK
  <2>7. \A e \in Used(next) : Safe(e)
    BY <2>1, <2>5, SafeSources DEF Used
  <2>8. mapping' = mapping
    BY <1>0 DEF db
  <2>9. JInv'
    BY <1>1, <2>2, <2>3, <2>4, <2>5, <2>6, <2>7, <2>8, StepKeepsJInv DEF Shrinks
  <2>10. th' \in [Threads -> ThreadStates]
    BY <1>0, <2>3, <2>4
  <2> QED
    BY <1>3, <2>9, <2>10 DEF IInv, TypeOK, MemOK
<1>5. CASE AfterBatch(t)
  BY <1>0, <1>1, <1>3, <1>5, AfterBatchStep
<1> QED
  BY <1>4, <1>5 DEF QueryExistEvent

LEMMA StepDeleteEvent ==
    ASSUME IInv, NEW t \in Threads, DeleteEvent(t)
    PROVE  IInv'
<1>0. /\ MemOK /\ th[t].pc = "erase" /\ AfterBatch(t)
      /\ UNCHANGED <<kindOf, mapping, observers, mem, begun, crashes, acked>>
      /\ events' \in {events, events \ th[t].del}
  BY Parts DEF DeleteEvent
<1>1. faults' \in 0..MaxFaults
  BY <1>0, BoundsAssumption DEF DeleteEvent, MemOK, Fault
<1>2. Shrinks(t)
  BY <1>0 DEF Shrinks
<1>3. MemOK'
  BY <1>0, <1>1 DEF MemOK, mem
<1> QED
  BY <1>0, <1>2, <1>3, AfterBatchStep

LEMMA StepOnReceive ==
    ASSUME IInv, NEW t \in Threads, OnReceive(t)
    PROVE  IInv'
<1>0. /\ MemOK /\ th[t] \in ThreadStates /\ LocalOK(th[t]) /\ th[t].pc = "receive"
      /\ acked' = acked \cup (th[t].batch \X {th[t].cur})
      /\ UNCHANGED <<db, mem, begun, crashes, faults>>
  BY Parts DEF OnReceive
<1>1. th[t].cur \in Observers /\ th[t].batch \subseteq 0..MaxEvents
  BY <1>0 DEF LocalOK, Observers, ThreadStates
<1>2. Shrinks(t)
  BY <1>0 DEF Shrinks, db
<1>3. MemOK'
  BY <1>0, <1>1 DEF MemOK, db, mem
<1>4. CASE Goto(t, "publish")
  <2>1. "publish" \in Pcs
    BY DEF Pcs
  <2>2. LocalOK([th[t] EXCEPT !.pc = "publish"])
    BY <1>0, <1>1, <2>1, MoveRecord DEF LocalOK
  <2> QED
    BY <1>2, <1>3, <1>4, <2>1, <2>2, MoveStep
<1>5. CASE NextObserver(t, th[t].cur)
  BY <1>2, <1>3, <1>5, NextStep
<1> QED
  BY <1>4, <1>5 DEF OnReceive

LEMMA StepResetCondition ==
    ASSUME IInv, NEW t \in Threads, ResetCondition(t)
    PROVE  IInv'
<1>0. /\ MemOK /\ th[t] \in ThreadStates /\ LocalOK(th[t]) /\ th[t].pc = "reset"
      /\ row' = [row EXCEPT ![th[t].cur] = 0]
      /\ condMutex' = [condMutex EXCEPT ![th[t].cur] = None]
      /\ UNCHANGED <<db, live, stub, zeroed, removed, begun, crashes, faults, acked>>
  BY Parts DEF ResetCondition
<1>1. Shrinks(t)
  BY <1>0, StutterShrinks
<1>2. MemOK'
  BY <1>0 DEF MemOK, db
<1>3. CASE Goto(t, "publish")
  <2>1. "publish" \in Pcs /\ th[t].cur \in Observers
    BY <1>0 DEF Pcs, LocalOK, Observers
  <2>2. LocalOK([th[t] EXCEPT !.pc = "publish"])
    BY <1>0, <2>1, MoveRecord DEF LocalOK
  <2> QED
    BY <1>1, <1>2, <1>3, <2>1, <2>2, MoveStep
<1>4. CASE NextObserver(t, th[t].cur)
  BY <1>1, <1>2, <1>4, NextStep
<1> QED
  BY <1>3, <1>4 DEF ResetCondition

--------------------------------------------------------------------------------
(* Registration.                                                                *)

LEMMA StepRegister ==
    ASSUME IInv, NEW t \in Threads, NEW o \in Observers,
           \/ StoreObserver(t, o)
           \/ o \in Processors /\ InitProcessorFromDb(t, o)
           \/ o \in Watchers /\ InitWatcherFromDb(t, o)
    PROVE  IInv'
<1>0. /\ MemOK /\ th[t].pc = "idle"
      /\ UNCHANGED <<events, kindOf, mapping, live, stub, zeroed, removed, condMutex,
                     begun, crashes, faults, acked>>
  BY Parts DEF StoreObserver, InitProcessorFromDb, InitWatcherFromDb, db, mem
<1>1. Shrinks(t)
  BY <1>0 DEF Shrinks
<1>2. "replay" \in Modes /\ "startup" \in Modes
  BY DEF Modes
<1>3. CASE StoreObserver(t, o)
  <2>1. PICK mode \in {"replay", "startup"} : th' = [th EXCEPT ![t] = CallFor(o, "publish", mode, {})]
    BY <1>3 DEF StoreObserver
  <2>2. observers' = observers \cup {o} /\ row' = row
    BY <1>3 DEF StoreObserver, mem
  <2>3. MemOK'
    BY <1>0, <2>2 DEF MemOK
  <2> QED
    BY <1>1, <1>2, <2>1, <2>3, EmptyCallStep
<1>4. CASE o \in Processors /\ InitProcessorFromDb(t, o)
  <2>1. /\ th' = [th EXCEPT ![t] = CallFor(o, "startup", "startup", {})] /\ observers' = observers
        /\ row' = [row EXCEPT ![o] = Cardinality(QueryEvents(o))]
    BY <1>4 DEF InitProcessorFromDb, db
  <2>2. Cardinality(QueryEvents(o)) \in Nat
    <3>1. IsFiniteSet(1..MaxEvents)
      BY BoundsAssumption, FS_Interval
    <3>2. QueryEvents(o) \in SUBSET (1..MaxEvents)
      BY <1>0 DEF QueryEvents, EventsOf, MemOK, Seqs
    <3>3. IsFiniteSet(QueryEvents(o))
      BY <3>1, <3>2, FS_Subset
    <3> QED
      BY <3>3, FS_CardinalityType
  <2>3. MemOK'
    BY <1>0, <2>1, <2>2 DEF MemOK
  <2> QED
    BY <1>1, <1>2, <1>4, <2>1, <2>3, EmptyCallStep
<1>5. CASE o \in Watchers /\ InitWatcherFromDb(t, o)
  <2> DEFINE batch == {e \in QueryEvents(o) : kindOf[e] \in Wants[o]}
  <2>1. th' = [th EXCEPT ![t] = CallFor(o, IF batch = {} THEN "publish" ELSE "unmap", "replay", batch)]
          /\ UNCHANGED <<db, mem>>
    BY <1>5 DEF InitWatcherFromDb
  <2>2. batch \in SUBSET (0..MaxEvents) /\ \A e \in batch : Safe(e)
    BY SafeSources
  <2>3. MemOK'
    BY <1>0, <2>1 DEF MemOK, db, mem
  <2> HIDE DEF batch
  <2>4. PICK pc \in {"publish", "unmap"} : th' = [th EXCEPT ![t] = CallFor(o, pc, "replay", batch)]
    BY <2>1
  <2> QED
    BY <1>1, <1>2, <1>5, <2>2, <2>3, <2>4, CallStep
<1> QED
  BY <1>3, <1>4, <1>5

LEMMA StepProcessStartup ==
    ASSUME IInv, NEW t \in Threads, ProcessStartup(t)
    PROVE  IInv'
<1>0. /\ MemOK /\ th[t] \in ThreadStates /\ LocalOK(th[t]) /\ th[t].pc = "startup"
      /\ UNCHANGED <<db, live, stub, zeroed, removed, begun, crashes, acked>>
  BY Parts DEF ProcessStartup
<1>1. th[t].cur \in Processors /\ th[t].cur \in Observers
  BY <1>0 DEF LocalOK, Observers
<1>2. CASE Trigger(t, th[t].cur, "startup")
  BY <1>0, <1>1, <1>2, StepTrigger
<1>3. CASE Goto(t, "publish") /\ UNCHANGED <<row, condMutex, faults>>
  <2>1. Shrinks(t)
    BY <1>0, StutterShrinks
  <2>2. MemOK'
    BY <1>0, <1>3 DEF MemOK, db
  <2>3. "publish" \in Pcs
    BY DEF Pcs
  <2>4. LocalOK([th[t] EXCEPT !.pc = "publish"])
    BY <1>0, <1>1, <2>3, MoveRecord DEF LocalOK
  <2> QED
    BY <1>3, <2>1, <2>2, <2>3, <2>4, MoveStep
<1> QED
  BY <1>2, <1>3 DEF ProcessStartup

LEMMA StepPublish ==
    ASSUME IInv, NEW t \in Threads, Publish(t)
    PROVE  IInv'
<1>0. /\ MemOK /\ LocalOK(th[t]) /\ th[t].pc = "publish" /\ th' = [th EXCEPT ![t] = IdleThread]
      /\ live' = live \cup {th[t].cur} /\ stub' = stub \ {th[t].cur}
      /\ UNCHANGED <<db, zeroed, removed, row, condMutex, begun, crashes, faults, acked>>
  BY Parts DEF Publish
<1>1. MemOK'
  BY <1>0 DEF MemOK, LocalOK, db
<1>2. Shrinks(t)
  BY <1>0, StutterShrinks
<1> QED
  BY <1>0, <1>1, <1>2, ReturnStep

--------------------------------------------------------------------------------
(* Removal.                                                                     *)

LEMMA AfterRemovalStep ==
    ASSUME IInv, NEW t \in Threads, Shrinks(t), MemOK', AfterRemoval(t)
    PROVE  IInv'
<1>1. CASE th[t].cur \in Watchers \ stub
  <2>1. Goto(t, "rmseq") /\ "rmseq" \in Pcs
    BY <1>1 DEF AfterRemoval, Pcs
  <2>2. LocalOK([th[t] EXCEPT !.pc = "rmseq"])
    BY <1>1, <2>1, Parts, MoveRecord DEF LocalOK
  <2> QED
    BY <2>1, <2>2, MoveStep
<1>2. CASE th[t].cur \notin Watchers \ stub
  BY <1>2, ReturnStep DEF AfterRemoval
<1> QED
  BY <1>1, <1>2

\* A removal goes on to its next step.
LEMMA RemovalStep ==
    ASSUME IInv, NEW t \in Threads, Shrinks(t), MemOK', NEW pc \in {"rmrow", "rmmem"},
           Goto(t, pc), th[t].cur \in Observers
    PROVE  IInv'
<1>1. pc \in Pcs
  BY DEF Pcs
<1>2. LocalOK([th[t] EXCEPT !.pc = pc])
  BY <1>1, Parts, MoveRecord DEF LocalOK
<1> QED
  BY <1>1, <1>2, MoveStep

LEMMA StepRemoval ==
    ASSUME IInv, NEW t \in Threads,
           \/ \E o \in Observers : RemoveObserver(t, o)
           \/ DeleteMappingOfObserver(t)
           \/ DeleteObserverRow(t)
           \/ DeleteFromMemory(t)
           \/ SetSeqZero(t)
    PROVE  IInv'
<1>0. MemOK /\ LocalOK(th[t]) /\ UNCHANGED <<events, kindOf, begun, crashes, acked>>
  BY Parts
  DEF RemoveObserver, DeleteMappingOfObserver, DeleteObserverRow, DeleteFromMemory, SetSeqZero, db
<1>1. CASE \E o \in Observers : RemoveObserver(t, o)
  <2>1. PICK o \in Observers : th' = [th EXCEPT ![t] = CallFor(o, "rmmap", "none", {})]
    BY <1>1 DEF RemoveObserver
  <2>2. th[t].pc # "map" /\ UNCHANGED <<db, mem, begun, crashes, faults, acked>>
    BY <1>1 DEF RemoveObserver
  <2>3. Shrinks(t)
    BY <2>2, StutterShrinks
  <2>4. MemOK' /\ "none" \in Modes
    BY <1>0, <2>2 DEF MemOK, db, mem, Modes
  <2> QED
    BY <2>1, <2>3, <2>4, EmptyCallStep
<1>2. CASE DeleteMappingOfObserver(t)
  <2>1. /\ th[t].pc = "rmmap" /\ mapping' \subseteq mapping /\ UNCHANGED <<observers, mem>>
        /\ faults' \in 0..MaxFaults /\ th[t].cur \in Observers
    BY <1>0, <1>2, BoundsAssumption DEF DeleteMappingOfObserver, LocalOK, MemOK, Fault
  <2>2. Shrinks(t)
    BY <1>0, <2>1 DEF Shrinks
  <2>3. MemOK'
    BY <1>0, <2>1 DEF MemOK, mem
  <2> QED
    BY <1>2, <2>1, <2>2, <2>3, RemovalStep, AfterRemovalStep DEF DeleteMappingOfObserver
<1>3. CASE DeleteObserverRow(t)
  <2>1. /\ th[t].pc = "rmrow" /\ UNCHANGED <<mapping, live, stub, zeroed, row, condMutex>>
        /\ faults' \in 0..MaxFaults /\ th[t].cur \in Observers
        /\ observers' \subseteq observers /\ removed' \subseteq removed \cup {th[t].cur}
    BY <1>0, <1>3, BoundsAssumption DEF DeleteObserverRow, LocalOK, MemOK, Fault
  <2>2. Shrinks(t)
    BY <1>0, <2>1 DEF Shrinks
  <2>3. MemOK'
    BY <1>0, <2>1 DEF MemOK
  <2> QED
    BY <1>3, <2>1, <2>2, <2>3, RemovalStep, AfterRemovalStep DEF DeleteObserverRow
<1>4. CASE DeleteFromMemory(t)
  <2>1. /\ th[t].pc = "rmmem" /\ UNCHANGED <<db, zeroed, removed, row, condMutex, faults, acked>>
        /\ live' \subseteq live /\ stub' \subseteq stub /\ AfterRemoval(t)
    BY <1>4 DEF DeleteFromMemory
  <2>2. Shrinks(t)
    BY <2>1, StutterShrinks
  <2>3. MemOK'
    BY <1>0, <2>1 DEF MemOK, db
  <2> QED
    BY <2>1, <2>2, <2>3, AfterRemovalStep
<1>5. CASE SetSeqZero(t)
  <2>1. /\ th[t].pc = "rmseq" /\ UNCHANGED <<db, live, stub, removed, row, condMutex, faults, acked>>
        /\ zeroed' = zeroed \cup {th[t].cur} /\ th' = [th EXCEPT ![t] = IdleThread]
    BY <1>5 DEF SetSeqZero
  <2>2. Shrinks(t)
    BY <2>1, StutterShrinks
  <2>3. MemOK'
    BY <1>0, <2>1 DEF MemOK, LocalOK, db
  <2> QED
    BY <2>1, <2>2, <2>3, ReturnStep
<1> QED
  BY <1>1, <1>2, <1>3, <1>4, <1>5

LEMMA StepCrash ==
    ASSUME IInv, Crash
    PROVE  IInv'
<1>0. MemOK /\ JInv /\ UNCHANGED <<db, removed, begun, faults, acked>>
  BY Parts DEF Crash
<1>1. th' \in [Threads -> ThreadStates] /\ \A t \in Threads : th'[t] = IdleThread
  BY IdleRecord DEF Crash
<1>2. MemOK'
  BY <1>0, BoundsAssumption DEF MemOK, Crash, db
<1>3. Contiguous' /\ Known' /\ PendingEventsStored'
  BY <1>0 DEF JInv, Contiguous, Known, PendingEventsStored, db
<1>4. Distinct' /\ Fresh'
  BY <1>1, IdleRecord DEF Distinct, Fresh
<1>5. ASSUME NEW t \in Threads PROVE LocalOK(th[t])' /\ DataOK(th[t])'
  BY <1>1, IdleRecord DEF LocalOK, DataOK
<1> QED
  BY <1>1, <1>2, <1>3, <1>4, <1>5 DEF IInv, JInv, TypeOK, MemOK

--------------------------------------------------------------------------------
(* The invariant.                                                               *)

LEMMA InitIInv == Init => IInv
<1> SUFFICES ASSUME Init PROVE IInv
  OBVIOUS
<1>1. th \in [Threads -> ThreadStates] /\ \A t \in Threads : th[t] = IdleThread
  BY IdleRecord DEF Init
<1>2. MemOK
  BY BoundsAssumption DEF Init, MemOK
<1>3. Contiguous
  <2>1. 0 \in 0..MaxEvents /\ \A e \in Seqs : ~(e <= 0) /\ kindOf[e] = None
    BY BoundsAssumption DEF Init, Seqs
  <2> QED
    BY <2>1 DEF Contiguous
<1>4. Known /\ PendingEventsStored
  BY DEF Init, Known, PendingEventsStored
<1>5. Distinct /\ Fresh
  BY <1>1, IdleRecord DEF Distinct, Fresh
<1>6. \A t \in Threads : LocalOK(th[t]) /\ DataOK(th[t])
  BY <1>1, IdleRecord DEF LocalOK, DataOK
<1> QED
  BY <1>1, <1>2, <1>3, <1>4, <1>5, <1>6, TypeOfParts DEF IInv, JInv

LEMMA NextIInv == IInv /\ [Next]_vars => IInv'
<1> SUFFICES ASSUME IInv, [Next]_vars PROVE IInv'
  OBVIOUS
<1>1. CASE Crash
  BY <1>1, StepCrash
<1>2. ASSUME NEW t \in Threads, StepThread(t) PROVE IInv'
  <2>1. CASE InsertEvent(t) \/ InsertEventMapping(t)
    BY <2>1, StepInsertEvent, StepInsertEventMapping
  <2>2. CASE OnReport(t) \/ DeleteEventMapping(t) \/ QueryExistEvent(t) \/ DeleteEvent(t)
               \/ OnReceive(t) \/ ResetCondition(t)
    BY <2>2, StepOnReport, StepDeleteEventMapping, StepQueryExistEvent, StepDeleteEvent,
       StepOnReceive, StepResetCondition
  <2>3. CASE ProcessStartup(t) \/ Publish(t)
    BY <2>3, StepProcessStartup, StepPublish
  <2>4. CASE DeleteMappingOfObserver(t) \/ DeleteObserverRow(t) \/ DeleteFromMemory(t)
               \/ SetSeqZero(t)
    BY <2>4, StepRemoval
  <2>5. CASE \/ \E w \in Watchers : SendToWatcher(t, w)
             \/ \E p \in Processors : SendRealTime(t, p)
    BY <2>5, StepSend
  <2>6. CASE \E p \in Processors : ProcessEvent(t, p)
    BY <2>6, StepProcessEvent
  <2>7. CASE \E o \in Observers : SkipObserver(t, o)
    BY <2>7, StepSkipObserver
  <2> QED
    BY <1>2, <2>1, <2>2, <2>3, <2>4, <2>5, <2>6, <2>7 DEF StepThread
<1>3. ASSUME NEW t \in Threads, CallThread(t) PROVE IInv'
  <2>1. CASE \E k \in Kinds : HandleEvents(t, k)
    BY <2>1, StepHandleEvents
  <2>2. CASE \E p \in Processors : TriggerBatch(t, p)
    BY <2>2, StepProcessEvent
  <2>3. CASE \E o \in Observers : RemoveObserver(t, o)
    BY <2>3, StepRemoval
  <2>4. CASE \/ \E p \in Processors : InitProcessorFromDb(t, p)
             \/ \E w \in Watchers : InitWatcherFromDb(t, w)
             \/ \E o \in Observers : StoreObserver(t, o)
    BY <2>4, StepRegister DEF Observers
  <2> QED
    BY <1>3, <2>1, <2>2, <2>3, <2>4 DEF CallThread
<1>4. CASE UNCHANGED vars
  <2>1. UNCHANGED <<events, kindOf, mapping, observers, live, stub, zeroed, removed, row, condMutex,
                    th, begun, crashes, faults, acked>>
    BY <1>4 DEF vars, db, mem
  <2>2. TypeOK'
    BY <2>1 DEF IInv, TypeOK
  <2>3. JInv'
    BY <2>1 DEF IInv, JInv, Contiguous, Known, PendingEventsStored, Distinct, Fresh, LocalOK,
        DataOK, Used
  <2> QED
    BY <2>2, <2>3 DEF IInv
<1> QED
  BY <1>1, <1>2, <1>3, <1>4 DEF Next

LEMMA Invariance == Spec => []IInv
BY InitIInv, NextIInv, PTL DEF Spec

\* Every variable keeps its type.
THEOREM TypeCorrect == Spec => []TypeOK
<1>1. IInv => TypeOK
  BY DEF IInv
<1> QED
  BY <1>1, Invariance, PTL

\* Whatever threads, failures, removals and crashes do, an event that some observer is
\* mapped to is in the table of events.
THEOREM PendingStored == Spec => []PendingEventsStored
<1>1. IInv => PendingEventsStored
  BY DEF IInv, JInv
<1> QED
  BY <1>1, Invariance, PTL

--------------------------------------------------------------------------------
(* The locks of the processors, and what has been reported.  Below, a step      *)
(* shows four things (LStep, AStep, OStep, NStep), one per part of OInv; the    *)
(* lemmas after them say so for the steps that are alike.                       *)

\* The stages of a batch under condMutex_, and the calls that work on a processor alone.
Locked(c) ==
    /\ c.pc \in {"report", "unmap", "purge", "erase", "reset"}
    /\ c.mode \in {"trigger", "startup"}
Alone(c, p) == c.cur = p /\ (c.mode = "startup" \/ c.pc \in {"rmmap", "rmrow", "rmmem"})

\* Processors that are being added are not in memory; those a thread got from memory are
\* there still, or have lost their rows for good.
PlaceOK(c) ==
    /\ c.todo \cap Processors \subseteq live \cup removed
    /\ c.mode = "trigger" => c.cur \in Processors /\ c.cur \in live \cup removed
    /\ c.mode = "startup" =>
        c.cur \in Processors /\ c.cur \in observers /\ c.cur \notin live \cup removed
    /\ c.pc = "rmmem" => c.cur \in removed
    /\ c.pc = "startup" \/ (c.pc = "publish" /\ c.cur \in Processors) => c.mode = "startup"
    /\ c.pc \in {"report", "unmap", "purge", "erase"} => c.mode # "none"
    /\ c.pc = "reset" => c.mode \in {"trigger", "startup"}
    /\ c.pc \in {"rmmap", "rmrow", "rmmem", "rmseq"} => c.mode = "none"

\* A thread remembers the kind of its event; what it reports in real time is of such a kind,
\* what it reports as a batch comes from the database.
KindOK(c) ==
    /\ c.seq # 0 => kindOf[c.seq] = c.kind
    /\ c.pc = "report" => \A e \in c.batch :
        IF c.mode = "real" THEN e # 0 => kindOf[e] \in RealTime[c.cur] ELSE e # 0

RowsOK ==
    /\ observers \cap removed = {}
    /\ live \cap Processors \subseteq observers \cup removed

MutexOK == \A t \in Threads : Locked(th[t]) => condMutex[th[t].cur] = t

AloneOK ==
    \A t, u \in Threads, p \in Processors : Alone(th[t], p) /\ Alone(th[u], p) => t = u

LInv ==
    /\ RowsOK /\ MutexOK /\ AloneOK
    /\ \A t \in Threads : PlaceOK(th[t]) /\ KindOK(th[t])

\* Without faults and crashes, what has been reported to a processor under its lock and is
\* still mapped to it is about to be unmapped, under the same lock.
Steady == faults = 0 /\ crashes = 0

Unmaps(c, e, p) == c.pc = "unmap" /\ Locked(c) /\ c.cur = p /\ e \in c.batch

Due(e, p) == <<e, p>> \in acked /\ kindOf[e] \notin RealTime[p]

AckedOK ==
    Steady => \A p \in Processors, e \in Seqs :
        <<e, p>> \in mapping /\ Due(e, p) => \E t \in Threads : Unmaps(th[t], e, p)

BatchOK ==
    Steady => \A t \in Threads : th[t].pc = "report" /\ Locked(th[t]) =>
        \A e \in th[t].batch : ~Due(e, th[t].cur)

\* Without removals as well, an event that somebody has taken and nobody is mapped to any more
\* is about to be erased.
Undisturbed == Steady /\ removed = {} /\ \A t \in Threads : th[t].pc # "rmrow"

Takes(c, e) == c.pc \in {"unmap", "purge", "erase", "receive"} /\ e \in c.batch
Erases(c, e) ==
    \/ c.pc \in {"unmap", "purge"} /\ e \in c.batch
    \/ c.pc = "erase" /\ e \in c.del

Mapped(e) == \E m \in mapping : m[1] = e
Taken(e) == (\E a \in acked : a[1] = e) \/ \E t \in Threads : Takes(th[t], e)

ErasedOK ==
    Undisturbed => \A e \in events :
        Taken(e) /\ ~Mapped(e) => \E t \in Threads : Erases(th[t], e)

NamedOK ==
    Steady /\ removed = {} =>
        /\ zeroed = {} /\ \A t \in Threads : th[t].pc \notin {"rmmem", "rmseq"}
        /\ \A m \in mapping : m[2] # None

OInv == LInv /\ AckedOK /\ BatchOK /\ ErasedOK /\ NamedOK
--------------------------------------------------------------------------------
(* Records of threads, once more.                                               *)

\* What the invariants of the locks and of the tables say of one thread.
ThreadOK(c) == PlaceOK(c) /\ KindOK(c)

\* A thread that has no lock, works on no processor alone and has no batch.
Resting(d) ==
    /\ d \in ThreadStates /\ ThreadOK(d) /\ ~Locked(d) /\ d.pc \in {"idle", "send"}
    /\ \A p \in Processors : ~Alone(d, p)
    /\ \A e : ~Takes(d, e) /\ ~Erases(d, e)

LEMMA ThreadsAndNone == None \notin Threads /\ None \notin Processors /\ None \notin Watchers
BY ObserversAssumption DEF Observers

LEMMA IdleRests == Resting(IdleThread)
<1>1. IdleThread \in ThreadStates
  BY IdleRecord
<1>2. /\ IdleThread.pc = "idle" /\ IdleThread.mode = "none" /\ IdleThread.seq = 0
      /\ IdleThread.todo = {} /\ IdleThread.cur = None
  BY DEF IdleThread
<1> QED
  BY <1>1, <1>2, ThreadsAndNone
     DEF Resting, ThreadOK, PlaceOK, KindOK, Locked, Alone, Takes, Erases

LEMMA NextRests ==
    ASSUME NEW c \in ThreadStates, ThreadOK(c), NEW o
    PROVE  Resting(NextRecord(c, o))
<1>1. CASE c.todo \subseteq {o}
  BY <1>1, IdleRests DEF NextRecord
<1>2. CASE ~(c.todo \subseteq {o})
  <2>0. PICK d : d = [c EXCEPT !.pc = "send", !.mode = "none", !.cur = None,
                               !.todo = c.todo \ {o}, !.batch = {}, !.del = {}]
    OBVIOUS
  <2>1. d \in ThreadStates
    BY <2>0 DEF ThreadStates, Pcs, Modes
  <2>2. /\ d.pc = "send" /\ d.mode = "none" /\ d.cur = None /\ d.seq = c.seq /\ d.kind = c.kind
        /\ d.todo = c.todo \ {o}
    BY <2>0 DEF ThreadStates
  <2>3. NextRecord(c, o) = d
    BY <1>2, <2>0 DEF NextRecord
  <2>4. PlaceOK(d) /\ KindOK(d)
    BY <2>2 DEF ThreadOK, PlaceOK, KindOK
  <2>5. Resting(d)
    BY <2>1, <2>2, <2>4, ThreadsAndNone DEF Resting, ThreadOK, Locked, Alone, Takes, Erases
  <2> QED
    BY <2>3, <2>5
<1> QED
  BY <1>1, <1>2

\* Another place, nothing else.
MovedTo(c, d, pc) ==
    /\ d \in ThreadStates /\ d.pc = pc /\ d.mode = c.mode /\ d.seq = c.seq /\ d.kind = c.kind
    /\ d.todo = c.todo /\ d.cur = c.cur /\ d.batch = c.batch /\ d.del = c.del

LEMMA GotoMoves ==
    ASSUME NEW t \in Threads, th \in [Threads -> ThreadStates], NEW pc \in Pcs, Goto(t, pc)
    PROVE  \E d : MovedTo(th[t], d, pc) /\ th' = [th EXCEPT ![t] = d]
<1>0. PICK c \in ThreadStates : c = th[t]
  OBVIOUS
<1>1. PICK d : d = [c EXCEPT !.pc = pc]
  OBVIOUS
<1>2. th' = [th EXCEPT ![t] = d]
  BY <1>0, <1>1 DEF Goto, ThreadStates
<1>3. MovedTo(c, d, pc)
  BY <1>1 DEF MovedTo, ThreadStates
<1> QED
  BY <1>0, <1>2, <1>3

--------------------------------------------------------------------------------
(* What a step of one thread has to show.                                       *)

OthersStay(t) == \A u \in Threads \ {t} : th'[u] = th[u]

NobodyElse(t, p) == \A u \in Threads \ {t} : ~(Locked(th[u]) /\ th[u].cur = p)

\* Only who works on a processor alone changes whether it is stored and in memory; only who
\* holds its lock, or finds it free, changes the lock.
LStep(t) ==
    /\ OthersStay(t)
    /\ ThreadOK(th[t])' /\ RowsOK'
    /\ Locked(th'[t]) => condMutex'[th'[t].cur] = t
    /\ removed \subseteq removed'
    /\ \A p \in Processors :
        /\ p \in live \cup removed => p \in live' \cup removed'
        /\ p \in live' \cup removed' => p \in live \cup removed \/ Alone(th[t], p)
        /\ p \in observers => p \in observers' \/ Alone(th[t], p)
        /\ Alone(th'[t], p) => Alone(th[t], p) \/ NobodyBusyWith(p)
        /\ condMutex'[p] = condMutex[p] \/ NobodyElse(t, p)
    /\ \A e \in Seqs : kindOf[e] # None => kindOf'[e] = kindOf[e]

LEMMA LStepKeeps ==
    ASSUME IInv, LInv, NEW t \in Threads, LStep(t)
    PROVE  LInv'
<1>0. /\ \A u \in Threads \ {t} : th'[u] = th[u]
      /\ \A u \in Threads : th[u] \in ThreadStates /\ LocalOK(th[u]) /\ DataOK(th[u])
                            /\ PlaceOK(th[u]) /\ KindOK(th[u])
  BY Parts DEF LInv, LStep, OthersStay
<1>1. MutexOK'
  <2> SUFFICES ASSUME NEW u \in Threads, Locked(th'[u]) PROVE condMutex'[th'[u].cur] = u
    BY DEF MutexOK
  <2>1. CASE u = t
    BY <2>1 DEF LStep
  <2>2. CASE u # t
    <3>1. th'[u] = th[u] /\ Locked(th[u]) /\ condMutex[th[u].cur] = u
      BY <1>0, <2>2 DEF LInv, MutexOK
    <3>2. th[u].cur \in Processors
      BY <1>0, <3>1 DEF Locked, PlaceOK
    <3> QED
      BY <2>2, <3>1, <3>2 DEF LStep, NobodyElse
  <2> QED
    BY <2>1, <2>2
<1>2. AloneOK'
  <2> SUFFICES ASSUME NEW u \in Threads, NEW v \in Threads, NEW p \in Processors,
                      Alone(th'[u], p), Alone(th'[v], p), u # v
               PROVE  FALSE
    BY DEF AloneOK
  <2>1. ASSUME NobodyBusyWith(p), NEW w \in Threads PROVE ~Alone(th[w], p)
    BY <2>1 DEF NobodyBusyWith, Registering, Removing, Alone
  <2>2. \A w \in Threads : Alone(th'[w], p) => Alone(th[w], p) \/ (w = t /\ NobodyBusyWith(p))
    BY <1>0 DEF LStep
  <2> QED
    BY <1>0, <2>1, <2>2 DEF LInv, AloneOK
<1>3. ASSUME NEW u \in Threads PROVE PlaceOK(th[u])'
  <2>1. CASE u = t
    BY <2>1 DEF LStep, ThreadOK
  <2>2. CASE u # t
    <3>1. th'[u] = th[u] /\ PlaceOK(th[u])
      BY <1>0, <2>2
    <3>2. \A p \in Processors : th[u].cur = p /\ th[u].mode = "startup" => ~Alone(th[t], p)
      BY <2>2 DEF LInv, AloneOK, Alone
    <3>3. th[u].mode = "startup" =>
            th'[u].cur \in Processors /\ th'[u].cur \in observers' /\ th'[u].cur \notin live' \cup removed'
      BY <3>1, <3>2 DEF LStep, PlaceOK
    <3>4. th[u].mode = "trigger" => th[u].cur \in Processors /\ th[u].cur \in live' \cup removed'
      BY <3>1 DEF LStep, PlaceOK
    <3>5. th[u].todo \cap Processors \subseteq live' \cup removed'
      BY <3>1 DEF LStep, PlaceOK
    <3>6. th[u].pc = "rmmem" => th[u].cur \in removed'
      BY <3>1 DEF LStep, PlaceOK
    <3> QED
      BY <3>1, <3>3, <3>4, <3>5, <3>6 DEF PlaceOK
  <2> QED
    BY <2>1, <2>2
<1>4. ASSUME NEW u \in Threads PROVE KindOK(th[u])'
  <2>1. CASE u = t
    BY <2>1 DEF LStep, ThreadOK
  <2>2. CASE u # t
    <3>1. th'[u] = th[u] /\ KindOK(th[u])
      BY <1>0, <2>2
    <3>2. /\ th[u].seq # 0 => kindOf'[th[u].seq] = kindOf[th[u].seq]
          /\ \A e \in th[u].batch : e # 0 => kindOf'[e] = kindOf[e]
      BY <1>0, BoundsAssumption DEF LStep, DataOK, Used, ThreadStates, Seqs
    <3> QED
      BY <3>1, <3>2 DEF KindOK
  <2> QED
    BY <2>1, <2>2
<1> QED
  BY <1>1, <1>2, <1>3, <1>4 DEF LInv, LStep

\* What is reported is then unmapped, and nothing reported is mapped again.
AStep(t) ==
    /\ OthersStay(t)
    /\ \A e \in Seqs : kindOf[e] # None => kindOf'[e] = kindOf[e]
    /\ Steady' =>
        /\ Steady
        /\ \A p \in Processors, e \in Seqs :
            /\ <<e, p>> \in mapping' => <<e, p>> \in mapping \/ <<e, p>> \notin acked'
            /\ <<e, p>> \in acked' => \/ <<e, p>> \in acked
                                      \/ kindOf'[e] \in RealTime[p]
                                      \/ Locked(th[t]) /\ th[t].cur = p /\ Unmaps(th'[t], e, p)
            /\ Unmaps(th[t], e, p) => Unmaps(th'[t], e, p) \/ <<e, p>> \notin mapping'
        /\ th'[t].pc = "report" /\ Locked(th'[t]) =>
            \A e \in th'[t].batch : ~Due(e, th[t].cur)'

LEMMA AStepKeeps ==
    ASSUME IInv, LInv, AckedOK, BatchOK, NEW t \in Threads, AStep(t)
    PROVE  AckedOK' /\ BatchOK'
<1>0. /\ \A u \in Threads \ {t} : th'[u] = th[u]
      /\ \A u \in Threads : th[u] \in ThreadStates /\ DataOK(th[u]) /\ PlaceOK(th[u]) /\ KindOK(th[u])
      /\ \A e \in Seqs : \A o : <<e, o>> \in acked => kindOf[e] # None
  <2>1. \A e \in Seqs : \A o : <<e, o>> \in acked => kindOf[e] # None
    <3> SUFFICES ASSUME NEW e \in Seqs, NEW o, <<e, o>> \in acked PROVE kindOf[e] # None
      OBVIOUS
    <3>1. <<e, o>>[1] = e /\ e # 0
      BY BoundsAssumption DEF Seqs
    <3> QED
      BY <3>1, Parts DEF JInv, Known
  <2> QED
    BY <2>1, Parts DEF LInv, AStep, OthersStay
<1>1. AckedOK'
  <2> SUFFICES ASSUME Steady', NEW p \in Processors, NEW e \in Seqs, <<e, p>> \in mapping',
                      <<e, p>> \in acked', kindOf'[e] \notin RealTime[p]
               PROVE  \E u \in Threads : Unmaps(th'[u], e, p)
    BY DEF AckedOK, Due
  <2>1. Steady /\ <<e, p>> \in mapping
    BY DEF AStep
  <2>2. CASE Unmaps(th'[t], e, p)
    BY <2>2
  <2>3. CASE ~Unmaps(th'[t], e, p)
    <3>1. <<e, p>> \in acked
      BY <2>3 DEF AStep
    <3>2. Due(e, p)
      BY <1>0, <3>1 DEF Due, AStep
    <3>3. PICK u \in Threads : Unmaps(th[u], e, p)
      BY <2>1, <3>2 DEF AckedOK
    <3>4. u # t
      BY <2>3, <3>3 DEF AStep
    <3> QED
      BY <1>0, <3>3, <3>4
  <2> QED
    BY <2>2, <2>3
<1>2. BatchOK'
  <2> SUFFICES ASSUME Steady', NEW u \in Threads, th'[u].pc = "report", Locked(th'[u]),
                      NEW e \in th'[u].batch
               PROVE  ~Due(e, th[u].cur)'
    BY DEF BatchOK
  <2>1. CASE u = t
    BY <2>1 DEF AStep
  <2>2. CASE u # t
    <3>1. th'[u] = th[u] /\ th[u].pc = "report" /\ Locked(th[u]) /\ e \in th[u].batch
      BY <1>0, <2>2
    <3>2. ~Due(e, th[u].cur) /\ th[u].cur \in Processors
      BY <1>0, <3>1 DEF AStep, BatchOK, Locked, PlaceOK
    <3>3. e \in Seqs /\ kindOf'[e] = kindOf[e]
      <4>1. e # 0
        BY <1>0, <3>1 DEF KindOK, Locked
      <4>2. e \in Seqs
        BY <1>0, <3>1, <4>1, BoundsAssumption DEF ThreadStates, Seqs
      <4>3. kindOf[e] # None
        BY <1>0, <3>1, <4>1 DEF DataOK, Used
      <4> QED
        BY <4>2, <4>3 DEF AStep
    <3>4. ~(Locked(th[t]) /\ th[t].cur = th[u].cur)
      BY <2>2, <3>1 DEF LInv, MutexOK
    <3>5. <<e, th[u].cur>> \in acked' =>
            <<e, th[u].cur>> \in acked \/ kindOf'[e] \in RealTime[th[u].cur]
      BY <3>2, <3>3, <3>4 DEF AStep
    <3> QED
      BY <3>1, <3>2, <3>3, <3>5 DEF Due
  <2> QED
    BY <2>1, <2>2
<1> QED
  BY <1>1, <1>2

\* What is taken is then erased, unless it is mapped to somebody else.
OStep(t) ==
    /\ OthersStay(t)
    /\ Undisturbed' =>
        /\ Undisturbed
        /\ \A e \in events' :
            /\ Taken(e)' => e \in events /\ (Taken(e) \/ Erases(th'[t], e))
            /\ Erases(th[t], e) \/ Mapped(e) => Erases(th'[t], e) \/ Mapped(e)'

LEMMA OStepKeeps ==
    ASSUME ErasedOK, NEW t \in Threads, OStep(t)
    PROVE  ErasedOK'
<1> SUFFICES ASSUME Undisturbed', NEW e \in events', Taken(e)', ~Mapped(e)'
             PROVE  \E u \in Threads : Erases(th'[u], e)
  BY DEF ErasedOK
<1>1. CASE Erases(th'[t], e)
  BY <1>1
<1>2. CASE ~Erases(th'[t], e)
  <2>1. Undisturbed /\ e \in events /\ Taken(e) /\ ~Mapped(e) /\ ~Erases(th[t], e)
    BY <1>2 DEF OStep
  <2>2. PICK u \in Threads : Erases(th[u], e)
    BY <2>1 DEF ErasedOK
  <2>3. u # t /\ th'[u] = th[u]
    BY <2>1, <2>2 DEF OStep, OthersStay
  <2> QED
    BY <2>2, <2>3
<1> QED
  BY <1>1, <1>2

\* Only removals set the sequence of an observer to 0.
NStep(t) ==
    /\ OthersStay(t)
    /\ Steady' /\ removed' = {} =>
        /\ Steady /\ removed = {} /\ zeroed' = zeroed
        /\ th'[t].pc \notin {"rmmem", "rmseq"}
        /\ \A m \in mapping' : m \in mapping \/ m[2] # None

LEMMA NStepKeeps ==
    ASSUME NamedOK, NEW t \in Threads, NStep(t)
    PROVE  NamedOK'
BY DEF NamedOK, NStep, OthersStay

LEMMA StepKeepsOInv ==
    ASSUME IInv, OInv, NEW t \in Threads, LStep(t), AStep(t), OStep(t), NStep(t)
    PROVE  OInv'
BY LStepKeeps, AStepKeeps, OStepKeeps, NStepKeeps DEF OInv
--------------------------------------------------------------------------------
(* Steps by what they do to the tables.                                         *)

\* A step that leaves the locks and the memory alone, and of the tables at most erases events.
LEMMA CalmStep ==
    ASSUME IInv, OInv, NEW t \in Threads, NEW d \in ThreadStates, th' = [th EXCEPT ![t] = d],
           UNCHANGED <<kindOf, mapping, observers, live, zeroed, removed, condMutex, acked, crashes>>,
           events' \subseteq events, faults' = faults \/ faults' # 0,
           ThreadOK(d), Locked(d) => condMutex[d.cur] = t /\ d.pc # "report",
           \A p \in Processors : Alone(d, p) => Alone(th[t], p) \/ NobodyBusyWith(p),
           Steady' => /\ th[t].pc \notin {"unmap", "rmrow"}
                      /\ d.pc \notin {"rmmem", "rmseq"}
                      /\ \A e \in events' : /\ Takes(d, e) => Takes(th[t], e) \/ Erases(d, e)
                                            /\ Erases(th[t], e) => Erases(d, e) \/ Mapped(e)
    PROVE  OInv'
<1>0. th'[t] = d /\ OthersStay(t)
  BY Parts DEF OthersStay
<1>1. LStep(t)
  <2>1. ThreadOK(th[t])'
    BY <1>0 DEF ThreadOK, PlaceOK, KindOK
  <2>2. RowsOK'
    BY DEF OInv, LInv, RowsOK
  <2> QED
    BY <1>0, <2>1, <2>2 DEF LStep
<1>2. Steady' => Steady
  BY DEF Steady
<1>3. AStep(t)
  BY <1>0, <1>2 DEF AStep, Unmaps
<1>4. OStep(t)
  <2> SUFFICES ASSUME Undisturbed'
               PROVE  /\ Undisturbed
                      /\ \A e \in events' :
                            /\ Taken(e)' => e \in events /\ (Taken(e) \/ Erases(th'[t], e))
                            /\ Erases(th[t], e) \/ Mapped(e) => Erases(th'[t], e) \/ Mapped(e)'
    BY <1>0 DEF OStep
  <2>1. Steady'
    BY DEF Undisturbed
  <2>2. Undisturbed
    <3>1. \A u \in Threads : u # t => th[u].pc # "rmrow"
      BY <1>0 DEF Undisturbed, OthersStay
    <3> QED
      BY <1>2, <2>1, <3>1 DEF Undisturbed
  <2>3. \A e : Mapped(e)' <=> Mapped(e)
    BY DEF Mapped
  <2>4. ASSUME NEW e \in events', Taken(e)' PROVE Taken(e) \/ Erases(d, e)
    BY <1>0, <2>1, <2>4 DEF Taken, OthersStay
  <2> QED
    BY <1>0, <2>1, <2>2, <2>3, <2>4
<1>5. NStep(t)
  BY <1>0, <1>2 DEF NStep
<1> QED
  BY <1>1, <1>3, <1>4, <1>5, StepKeepsOInv

\* A thread that is done, or goes on to the next observer.
LEMMA RestStep ==
    ASSUME IInv, OInv, NEW t \in Threads, NEW d, Resting(d), th' = [th EXCEPT ![t] = d],
           UNCHANGED <<kindOf, mapping, observers, live, zeroed, removed, condMutex, acked, crashes>>,
           events' \subseteq events, faults' = faults \/ faults' # 0,
           Steady' => /\ th[t].pc \notin {"unmap", "rmrow"}
                      /\ \A e \in events' : Erases(th[t], e) => Mapped(e)
    PROVE  OInv'
<1>1. /\ d \in ThreadStates /\ ThreadOK(d) /\ ~Locked(d) /\ d.pc \notin {"rmmem", "rmseq"}
      /\ \A p \in Processors : ~Alone(d, p)
      /\ \A e : ~Takes(d, e) /\ ~Erases(d, e)
  BY DEF Resting
<1> QED
  BY <1>1, CalmStep

LEMMA NextCalm ==
    ASSUME IInv, OInv, NEW t \in Threads, NEW o, NextObserver(t, o),
           UNCHANGED <<kindOf, mapping, observers, live, zeroed, removed, condMutex, acked, crashes>>,
           events' \subseteq events, faults' = faults \/ faults' # 0,
           Steady' => /\ th[t].pc \notin {"unmap", "rmrow"}
                      /\ \A e \in events' : Erases(th[t], e) => Mapped(e)
    PROVE  OInv'
<1>1. PICK d : d = NextRecord(th[t], o)
  OBVIOUS
<1>2. Resting(d)
  BY <1>1, Parts, NextRests DEF OInv, LInv, ThreadOK
<1>3. th' = [th EXCEPT ![t] = d]
  BY <1>1 DEF NextObserver, NextRecord
<1> QED
  BY <1>2, <1>3, RestStep

\* Where a thread moves to, what is true of it stays true.
LEMMA MovedOK ==
    ASSUME NEW c \in ThreadStates, ThreadOK(c), NEW pc, NEW d, MovedTo(c, d, pc),
           pc \notin {"report", "rmmem", "startup"},
           pc = "publish" /\ c.cur \in Processors => c.mode = "startup",
           pc \in {"unmap", "purge", "erase"} => c.mode # "none",
           pc = "reset" => c.mode \in {"trigger", "startup"},
           pc \in {"rmmap", "rmrow", "rmseq"} => c.mode = "none"
    PROVE  ThreadOK(d)
BY DEF ThreadOK, PlaceOK, KindOK, MovedTo

\* The end of a batch.
LEMMA AfterBatchCalm ==
    ASSUME IInv, OInv, NEW t \in Threads, AfterBatch(t),
           th[t].pc \in {"report", "unmap", "purge", "erase"},
           UNCHANGED <<kindOf, mapping, observers, live, zeroed, removed, condMutex, acked, crashes>>,
           events' \subseteq events, faults' = faults \/ faults' # 0,
           Steady' => th[t].pc # "unmap" /\ \A e \in events' : ~Erases(th[t], e)
    PROVE  OInv'
<1>0. /\ th[t] \in ThreadStates /\ LocalOK(th[t]) /\ ThreadOK(th[t])
      /\ th \in [Threads -> ThreadStates]
      /\ Locked(th[t]) => condMutex[th[t].cur] = t
  BY Parts DEF OInv, LInv, ThreadOK, MutexOK
<1>1. CASE th[t].mode = "real"
  BY <1>1, NextCalm DEF AfterBatch
<1>2. CASE th[t].mode # "real"
  <2>1. PICK pc \in {"receive", "reset"} :
            /\ Goto(t, pc)
            /\ pc = "receive" <=> th[t].mode \in {"receive", "replay"}
    BY <1>2 DEF AfterBatch
  <2>2. PICK d : MovedTo(th[t], d, pc) /\ th' = [th EXCEPT ![t] = d]
    BY <1>0, <2>1, GotoMoves DEF Pcs
  <2>3. th[t].mode \notin {"none", "real"}
    BY <1>0, <1>2 DEF ThreadOK, PlaceOK
  <2>4. ThreadOK(d)
    <3>1. th[t].mode \in Modes
      BY <1>0 DEF ThreadStates
    <3>2. pc = "reset" => th[t].mode \in {"trigger", "startup"}
      BY <2>1, <2>3, <3>1 DEF Modes
    <3> QED
      BY <1>0, <2>2, <3>2, MovedOK
  <2>5. Locked(d) => condMutex[d.cur] = t /\ d.pc # "report"
    BY <1>0, <2>2 DEF Locked, MovedTo
  <2>6. \A p \in Processors : Alone(d, p) => Alone(th[t], p)
    BY <2>2 DEF Alone, MovedTo
  <2>7. \A e : Takes(d, e) => Takes(th[t], e)
    BY <1>0, <2>1, <2>2 DEF Takes, MovedTo, LocalOK
  <2>8. d \in ThreadStates /\ d.pc \notin {"rmmem", "rmseq"}
    BY <2>2 DEF MovedTo
  <2> QED
    BY <1>0, <2>2, <2>4, <2>5, <2>6, <2>7, <2>8, CalmStep
<1> QED
  BY <1>1, <1>2

\* A thread moves on, and has no batch.
LEMMA MoveCalm ==
    ASSUME IInv, OInv, NEW t \in Threads, NEW pc \in Pcs, Goto(t, pc),
           pc \in {"map", "send", "publish", "rmseq"},
           th[t].pc \in {"insert", "map", "startup", "rmmap", "rmrow"},
           pc = "publish" => th[t].mode = "startup",
           UNCHANGED <<db, live, zeroed, removed, condMutex, acked, crashes>>,
           faults' = faults \/ faults' # 0,
           pc = "rmseq" => th[t].pc \in {"rmmap", "rmrow"},
           Steady' => th[t].pc # "rmrow" /\ pc # "rmseq"
    PROVE  OInv'
<1>0. th[t] \in ThreadStates /\ ThreadOK(th[t]) /\ th \in [Threads -> ThreadStates]
  BY Parts DEF OInv, LInv, ThreadOK
<1>1. PICK d : MovedTo(th[t], d, pc) /\ th' = [th EXCEPT ![t] = d]
  BY <1>0, GotoMoves
<1>2. ThreadOK(d)
  <2>1. pc = "rmseq" => th[t].mode = "none"
    BY <1>0 DEF ThreadOK, PlaceOK
  <2> QED
    BY <1>0, <1>1, <2>1, MovedOK
<1>3. ~Locked(d) /\ d \in ThreadStates /\ d.pc = pc
  BY <1>1 DEF Locked, MovedTo
<1>4. \A p \in Processors : Alone(d, p) => Alone(th[t], p)
  BY <1>1 DEF Alone, MovedTo
<1>5. \A e : ~Takes(d, e) /\ ~Erases(th[t], e)
  BY <1>3 DEF Takes, Erases
<1> QED
  BY <1>1, <1>2, <1>3, <1>4, <1>5, CalmStep DEF db
--------------------------------------------------------------------------------
(* The actions: HandleEvents.                                                   *)

\* What the invariants say of one thread.
LEMMA ThreadParts ==
    ASSUME IInv, OInv, NEW t \in Threads
    PROVE  /\ th[t] \in ThreadStates /\ LocalOK(th[t]) /\ DataOK(th[t])
           /\ ThreadOK(th[t]) /\ PlaceOK(th[t]) /\ KindOK(th[t])
           /\ Locked(th[t]) => condMutex[th[t].cur] = t
           /\ th \in [Threads -> ThreadStates]
BY Parts DEF OInv, LInv, ThreadOK, MutexOK

LEMMA FaultIsSeen == ASSUME IInv, Fault PROVE faults' # 0 /\ ~Steady'
<1>1. faults \in Nat
  BY BoundsAssumption DEF IInv, TypeOK
<1> QED
  BY <1>1 DEF Fault, Steady

LEMMA OHandleEvents ==
    ASSUME IInv, OInv, NEW t \in Threads, NEW k \in Kinds, HandleEvents(t, k)
    PROVE  OInv'
<1>1. PICK d : d = [IdleThread EXCEPT !.pc = "insert", !.kind = k, !.todo = live, !.stubs = stub]
  OBVIOUS
<1>2. /\ d.pc = "insert" /\ d.seq = 0 /\ d.cur = None /\ d.todo = live /\ d.mode = "none"
      /\ th' = [th EXCEPT ![t] = d] /\ th[t].pc = "idle"
      /\ UNCHANGED <<db, mem, crashes, faults, acked>>
  BY <1>1 DEF HandleEvents, IdleThread
<1>3. d \in ThreadStates
  <2>1. live \subseteq Observers /\ stub \subseteq Watchers
    BY Parts DEF MemOK
  <2> QED
    BY <1>1, <2>1, IdleRecord DEF ThreadStates, Pcs
<1>4. ThreadOK(d) /\ ~Locked(d) /\ \A p \in Processors : ~Alone(d, p)
  BY <1>2, ThreadsAndNone DEF ThreadOK, PlaceOK, KindOK, Locked, Alone
<1>5. \A e : ~Takes(d, e) /\ ~Erases(th[t], e)
  BY <1>2 DEF Takes, Erases
<1> QED
  BY <1>2, <1>3, <1>4, <1>5, CalmStep DEF db, mem

LEMMA OInsertEvent ==
    ASSUME IInv, OInv, NEW t \in Threads, InsertEvent(t)
    PROVE  OInv'
<1>0. /\ th[t] \in ThreadStates /\ LocalOK(th[t]) /\ ThreadOK(th[t]) /\ th[t].pc = "insert"
      /\ UNCHANGED <<mapping, observers, mem, begun, crashes, acked>>
      /\ th \in [Threads -> ThreadStates]
  BY ThreadParts DEF InsertEvent
<1>1. CASE Fault /\ Goto(t, "map") /\ UNCHANGED <<events, kindOf>>
  BY <1>0, <1>1, FaultIsSeen, MoveCalm DEF db, mem, Pcs
<1>2. CASE /\ NextSeq <= MaxEvents /\ events' = events \cup {NextSeq}
           /\ kindOf' = [kindOf EXCEPT ![NextSeq] = th[t].kind]
           /\ th' = [th EXCEPT ![t].pc = "map", ![t].seq = NextSeq] /\ UNCHANGED faults
  <2>1. PICK n : n = NextSeq
    OBVIOUS
  <2>2. n \in Seqs /\ n # 0 /\ kindOf[n] = None
    BY <1>2, <2>1, NextSeqFresh
  <2>3. PICK d : d = [th[t] EXCEPT !.pc = "map", !.seq = n]
    OBVIOUS
  <2>4. /\ d.pc = "map" /\ d.seq = n /\ d.mode = th[t].mode /\ d.kind = th[t].kind
        /\ d.cur = th[t].cur /\ d.todo = th[t].todo
    BY <1>0, <2>3 DEF ThreadStates
  <2>5. th'[t] = d /\ OthersStay(t)
    BY <1>0, <1>2, <2>1, <2>3 DEF OthersStay, ThreadStates
  <2>6. /\ kindOf'[n] = th[t].kind
        /\ \A e \in Seqs : kindOf[e] # None => kindOf'[e] = kindOf[e]
    BY <1>2, <2>1, <2>2, Parts DEF MemOK
  <2>7. LStep(t)
    <3>1. PlaceOK(th[t])'
      BY <1>0, <2>4, <2>5 DEF ThreadOK, PlaceOK, mem
    <3>2. KindOK(th[t])'
      BY <2>4, <2>5, <2>6 DEF KindOK
    <3>3. ~Locked(d) /\ \A p \in Processors : Alone(d, p) => Alone(th[t], p)
      BY <2>4 DEF Locked, Alone
    <3>4. RowsOK'
      BY <1>0 DEF OInv, LInv, RowsOK, mem
    <3> QED
      BY <1>0, <2>5, <2>6, <3>1, <3>2, <3>3, <3>4 DEF LStep, ThreadOK, mem
  <2>8. Steady' <=> Steady
    BY <1>0, <1>2 DEF Steady
  <2>9. AStep(t)
    BY <1>0, <2>4, <2>5, <2>6, <2>8 DEF AStep, Unmaps
  <2>10. OStep(t)
    <3>1. \A a \in acked : a[1] # n
      BY <2>2, Parts DEF JInv, Known
    <3>2. \A u \in Threads : ~Takes(th[u], n)
      BY <2>2, Parts DEF DataOK, Used, Takes
    <3>3. \A e : ~Takes(d, e) /\ ~Erases(d, e) /\ ~Erases(th[t], e)
      BY <1>0, <2>4 DEF Takes, Erases
    <3>4. \A e : Taken(e)' => Taken(e) /\ e # n
      BY <1>0, <2>5, <3>1, <3>2, <3>3 DEF Taken, OthersStay
    <3>5. \A e : Mapped(e)' <=> Mapped(e)
      BY <1>0 DEF Mapped
    <3>6. Undisturbed' => Undisturbed
      BY <1>0, <2>5, <2>8 DEF Undisturbed, OthersStay, mem
    <3> QED
      BY <1>2, <2>1, <2>5, <3>3, <3>4, <3>5, <3>6 DEF OStep
  <2>11. NStep(t)
    BY <1>0, <2>4, <2>5, <2>8 DEF NStep, mem
  <2> QED
    BY <2>7, <2>9, <2>10, <2>11, StepKeepsOInv
<1> QED
  BY <1>1, <1>2 DEF InsertEvent

LEMMA OInsertEventMapping ==
    ASSUME IInv, OInv, NEW t \in Threads, InsertEventMapping(t)
    PROVE  OInv'
<1>0. /\ th[t] \in ThreadStates /\ ThreadOK(th[t]) /\ th[t].pc = "map" /\ Goto(t, "send")
      /\ UNCHANGED <<events, kindOf, observers, mem, begun, crashes, acked>>
      /\ th \in [Threads -> ThreadStates] /\ "send" \in Pcs
  BY ThreadParts DEF InsertEventMapping, Pcs
<1>1. CASE Fault /\ UNCHANGED mapping
  BY <1>0, <1>1, FaultIsSeen, MoveCalm DEF db, mem
<1>2. CASE mapping' = mapping \cup NewRows(th[t]) /\ UNCHANGED faults
  <2>1. PICK d : MovedTo(th[t], d, "send") /\ th' = [th EXCEPT ![t] = d]
    BY <1>0, GotoMoves
  <2>2. th'[t] = d /\ OthersStay(t) /\ d.pc = "send"
    BY <1>0, <2>1 DEF OthersStay, MovedTo
  <2>3. Steady' <=> Steady
    BY <1>0, <1>2 DEF Steady
  <2>4. LStep(t)
    <3>1. ThreadOK(d)
      BY <1>0, <2>1, MovedOK
    <3>2. ThreadOK(th[t])' /\ RowsOK'
      BY <1>0, <2>2, <3>1 DEF OInv, LInv, RowsOK, ThreadOK, PlaceOK, KindOK, mem
    <3>3. ~Locked(d) /\ \A p \in Processors : Alone(d, p) => Alone(th[t], p)
      BY <2>1 DEF Locked, Alone, MovedTo
    <3> QED
      BY <1>0, <2>2, <3>2, <3>3 DEF LStep, mem
  <2>5. \A m \in mapping' : m \in mapping \/ m \in NewRows(th[t])
    BY <1>2
  <2>6. AStep(t)
    <3>1. ASSUME NEW e \in Seqs, NEW p \in Processors, <<e, p>> \in NewRows(th[t])
          PROVE  <<e, p>> \notin acked
      <4>1. e = th[t].seq /\ e # 0 /\ <<e, p>>[1] = e
        BY <1>0, <3>1, NewRowsFacts, BoundsAssumption DEF Seqs
      <4> QED
        BY <1>0, <4>1, Parts DEF JInv, Fresh
    <3> QED
      BY <1>0, <2>2, <2>3, <2>5, <3>1 DEF AStep, Unmaps
  <2>7. OStep(t)
    <3>1. \A e : ~Takes(d, e) /\ ~Erases(th[t], e)
      BY <1>0, <2>2 DEF Takes, Erases
    <3>2. \A e : Taken(e)' => Taken(e)
      BY <1>0, <2>2, <3>1 DEF Taken, OthersStay
    <3>3. \A e : Mapped(e) => Mapped(e)'
      BY <1>2 DEF Mapped
    <3>4. Undisturbed' => Undisturbed
      BY <1>0, <2>2, <2>3 DEF Undisturbed, OthersStay, mem
    <3> QED
      BY <1>0, <2>2, <3>1, <3>2, <3>3, <3>4 DEF OStep
  <2>8. NStep(t)
    <3>1. ASSUME zeroed = {}, NEW m \in NewRows(th[t]) PROVE m[2] # None
      <4>1. PICK o \in th[t].todo : m = <<th[t].seq, GetSeq(o)>>
        BY <3>1 DEF NewRows
      <4>2. GetSeq(o) = o /\ o \in Observers
        BY <1>0, <3>1 DEF GetSeq, ThreadStates
      <4> QED
        BY <4>1, <4>2, ObserversAssumption
    <3> QED
      BY <1>0, <2>2, <2>3, <2>5, <3>1 DEF NStep, OInv, NamedOK, mem
  <2> QED
    BY <2>4, <2>6, <2>7, <2>8, StepKeepsOInv
<1> QED
  BY <1>0, <1>1, <1>2 DEF InsertEventMapping, NewRows

LEMMA OSkipObserver ==
    ASSUME IInv, OInv, NEW t \in Threads, NEW o \in Observers, SkipObserver(t, o)
    PROVE  OInv'
<1>1. th[t].pc = "send" /\ NextObserver(t, o) /\ UNCHANGED <<db, mem, begun, crashes, faults, acked>>
  BY DEF SkipObserver, MayVisit
<1>2. \A e : ~Erases(th[t], e)
  BY <1>1 DEF Erases
<1> QED
  BY <1>1, <1>2, NextCalm DEF db, mem

LEMMA OSend ==
    ASSUME IInv, OInv, NEW t \in Threads, NEW o \in Observers,
           \/ o \in Watchers /\ SendToWatcher(t, o)
           \/ o \in Processors /\ SendRealTime(t, o)
    PROVE  OInv'
<1>0. /\ th[t] \in ThreadStates /\ ThreadOK(th[t]) /\ th[t].pc = "send"
      /\ UNCHANGED <<db, mem, begun, crashes, faults, acked>>
  BY ThreadParts DEF SendToWatcher, SendRealTime, MayVisit
<1>1. PICK pc \in {"unmap", "report"}, mode \in {"receive", "real"} :
        /\ th' = [th EXCEPT ![t].pc = pc, ![t].mode = mode, ![t].cur = o, ![t].batch = {th[t].seq}]
        /\ \/ pc = "unmap" /\ mode = "receive"
           \/ pc = "report" /\ mode = "real" /\ th[t].kind \in RealTime[o]
  BY DEF SendToWatcher, SendRealTime
<1>2. PICK d : d = [th[t] EXCEPT !.pc = pc, !.mode = mode, !.cur = o, !.batch = {th[t].seq}]
  OBVIOUS
<1>3. /\ d \in ThreadStates /\ d.pc = pc /\ d.mode = mode /\ d.cur = o /\ d.batch = {th[t].seq}
      /\ d.seq = th[t].seq /\ d.kind = th[t].kind /\ d.todo = th[t].todo
  <2>1. d \in ThreadStates
    BY <1>0, <1>2 DEF ThreadStates, Pcs, Modes
  <2>2. /\ d.pc = pc /\ d.mode = mode /\ d.cur = o /\ d.batch = {th[t].seq}
        /\ d.seq = th[t].seq /\ d.kind = th[t].kind /\ d.todo = th[t].todo
    BY <1>0, <1>2 DEF ThreadStates
  <2> QED
    BY <2>1, <2>2
<1>4. th' = [th EXCEPT ![t] = d]
  BY <1>0, <1>1, <1>2, Parts DEF ThreadStates
<1>5. ThreadOK(d)
  <2>1. PlaceOK(d)
    BY <1>0, <1>1, <1>3 DEF ThreadOK, PlaceOK
  <2>2. KindOK(d)
    BY <1>0, <1>1, <1>3 DEF ThreadOK, KindOK
  <2> QED
    BY <2>1, <2>2 DEF ThreadOK
<1>6. ~Locked(d) /\ \A p \in Processors : ~Alone(d, p)
  BY <1>1, <1>3 DEF Locked, Alone
<1>7. \A e : /\ Takes(d, e) => Erases(d, e)
             /\ ~Erases(th[t], e)
  BY <1>0, <1>1, <1>3 DEF Takes, Erases
<1> QED
  BY <1>0, <1>1, <1>3, <1>4, <1>5, <1>6, <1>7, CalmStep DEF db, mem

--------------------------------------------------------------------------------
(* Batches.                                                                     *)

LEMMA OTrigger ==
    ASSUME IInv, OInv, NEW t \in Threads, NEW p \in Processors, NEW mode \in {"trigger", "startup"},
           Trigger(t, p, mode), NobodyElse(t, p),
           th[t].pc \in {"idle", "send", "startup"},
           mode = "trigger" => p \in live \cup removed,
           mode = "startup" => th[t].pc = "startup" /\ th[t].mode = "startup" /\ th[t].cur = p,
           UNCHANGED <<db, live, stub, zeroed, removed, begun, crashes, acked>>
    PROVE  OInv'
<1>0. th[t] \in ThreadStates /\ ThreadOK(th[t]) /\ th \in [Threads -> ThreadStates]
  BY ThreadParts
<1>1. PICK E \in {{}, QueryEvents(p)} :
          OnTrigger(t, p, mode, E) /\ (faults' = faults \/ faults' # 0)
  BY FaultIsSeen DEF Trigger
<1>2. \A e : ~Erases(th[t], e)
  BY DEF Erases
<1>3. CASE E = {}
  <2>1. UNCHANGED condMutex
    BY <1>1, <1>3 DEF OnTrigger
  <2>2. CASE mode = "startup"
    <3>1. Goto(t, "publish") /\ "publish" \in Pcs
      BY <1>1, <1>3, <2>2 DEF OnTrigger, Pcs
    <3> QED
      BY <1>1, <2>1, <2>2, <3>1, MoveCalm
  <2>3. CASE mode # "startup"
    <3>1. NextObserver(t, p)
      BY <1>1, <1>3, <2>3 DEF OnTrigger
    <3> QED
      BY <1>1, <1>2, <2>1, <3>1, NextCalm DEF db
  <2> QED
    BY <2>2, <2>3
<1>4. CASE E # {}
  <2>1. /\ condMutex' = [condMutex EXCEPT ![p] = t]
        /\ th' = [th EXCEPT ![t].pc = "report", ![t].mode = mode, ![t].cur = p, ![t].batch = E]
    BY <1>1, <1>4 DEF OnTrigger, LockCond
  <2>2. PICK d : d = [th[t] EXCEPT !.pc = "report", !.mode = mode, !.cur = p, !.batch = E]
    OBVIOUS
  <2>3. /\ d.pc = "report" /\ d.mode = mode /\ d.cur = p /\ d.batch = E
        /\ d.seq = th[t].seq /\ d.kind = th[t].kind /\ d.todo = th[t].todo
    BY <1>0, <2>2 DEF ThreadStates
  <2>4. th'[t] = d /\ OthersStay(t)
    BY <1>0, <2>1, <2>2 DEF OthersStay, ThreadStates
  <2>5. \A e \in E : e \in Seqs /\ e # 0 /\ <<e, p>> \in mapping
    <3>1. \A e \in QueryEvents(p) : e \in Seqs /\ <<e, p>> \in mapping
      BY SafeSources DEF QueryEvents, EventsOf, Seqs
    <3> QED
      BY <1>4, <3>1, BoundsAssumption DEF Seqs
  <2>6. /\ condMutex'[p] = t
        /\ \A q \in Processors : condMutex'[q] = condMutex[q] \/ NobodyElse(t, q)
    BY <2>1, Parts DEF MemOK
  <2>7. LStep(t)
    <3>1. PlaceOK(d)
      BY <1>0, <2>3 DEF ThreadOK, PlaceOK
    <3>2. KindOK(d)
      BY <1>0, <2>3, <2>5 DEF ThreadOK, KindOK
    <3>3. ThreadOK(th[t])' /\ RowsOK'
      BY <2>4, <3>1, <3>2 DEF OInv, LInv, RowsOK, ThreadOK, PlaceOK, KindOK, db
    <3>4. \A q \in Processors : Alone(d, q) => Alone(th[t], q)
      BY <2>3 DEF Alone
    <3> QED
      BY <2>3, <2>4, <2>6, <3>3, <3>4 DEF LStep, db
  <2>8. Steady' => Steady
    BY <1>1 DEF Steady
  <2>9. AStep(t)
    <3>1. ASSUME Steady, NEW e \in E PROVE ~Due(e, p)
      <4> SUFFICES ASSUME Due(e, p) PROVE FALSE
        OBVIOUS
      <4>1. PICK u \in Threads : Unmaps(th[u], e, p)
        BY <2>5, <3>1 DEF OInv, AckedOK
      <4> QED
        BY <4>1 DEF Unmaps, NobodyElse
    <3>2. Steady' => \A e \in d.batch : ~Due(e, th[t].cur)'
      BY <2>3, <2>4, <2>8, <3>1 DEF Due, db
    <3> QED
      BY <2>4, <2>8, <3>2 DEF AStep, Unmaps, db
  <2>10. OStep(t)
    <3>1. \A e : ~Takes(d, e)
      BY <2>3 DEF Takes
    <3>2. \A e : Taken(e)' => Taken(e)
      BY <2>4, <3>1 DEF Taken, OthersStay
    <3>3. \A e : Mapped(e)' <=> Mapped(e)
      BY DEF Mapped, db
    <3>4. Undisturbed' => Undisturbed
      BY <2>4, <2>8 DEF Undisturbed, OthersStay
    <3> QED
      BY <1>2, <2>4, <3>2, <3>3, <3>4 DEF OStep, db
  <2>11. NStep(t)
    BY <2>3, <2>4, <2>8 DEF NStep, db
  <2> QED
    BY <2>7, <2>9, <2>10, <2>11, StepKeepsOInv
<1> QED
  BY <1>3, <1>4

\* Who finds the lock free finds nobody who holds it.
LEMMA FreeLock ==
    ASSUME OInv, NEW t \in Threads, NEW p, condMutex[p] = None
    PROVE  NobodyElse(t, p)
BY ThreadsAndNone DEF OInv, LInv, MutexOK, NobodyElse

LEMMA OProcessEvent ==
    ASSUME IInv, OInv, NEW t \in Threads, NEW p \in Processors,
           ProcessEvent(t, p) \/ TriggerBatch(t, p)
    PROVE  OInv'
<1>1. /\ th[t].pc \in {"idle", "send"} /\ NobodyElse(t, p)
      /\ UNCHANGED <<db, live, stub, zeroed, removed, begun, crashes, acked>>
  BY FreeLock DEF ProcessEvent, TriggerBatch, MayVisit
<1>2. p \in live \cup removed
  BY ThreadParts DEF ProcessEvent, TriggerBatch, MayVisit, PlaceOK
<1>3. CASE Trigger(t, p, "trigger")
  BY <1>1, <1>2, <1>3, OTrigger
<1>4. CASE NextObserver(t, p) /\ UNCHANGED <<condMutex, faults>>
  <2>1. \A e : ~Erases(th[t], e)
    BY <1>1 DEF Erases
  <2> QED
    BY <1>1, <1>4, <2>1, NextCalm DEF db
<1> QED
  BY <1>3, <1>4 DEF ProcessEvent, TriggerBatch

LEMMA OOnReport ==
    ASSUME IInv, OInv, NEW t \in Threads, OnReport(t)
    PROVE  OInv'
<1>0. /\ th[t] \in ThreadStates /\ LocalOK(th[t]) /\ ThreadOK(th[t]) /\ th[t].pc = "report"
      /\ UNCHANGED <<db, mem, begun, crashes, faults>> /\ th \in [Threads -> ThreadStates]
      /\ Locked(th[t]) => condMutex[th[t].cur] = t
  BY ThreadParts DEF OnReport
<1>1. CASE AfterBatch(t) /\ UNCHANGED acked
  <2>1. \A e : ~Erases(th[t], e)
    BY <1>0 DEF Erases
  <2> QED
    BY <1>0, <1>1, <2>1, AfterBatchCalm DEF db, mem
<1>2. CASE acked' = acked \cup (th[t].batch \X {th[t].cur}) /\ Goto(t, "unmap")
  <2>1. PICK d : MovedTo(th[t], d, "unmap") /\ th' = [th EXCEPT ![t] = d]
    BY <1>0, <1>2, GotoMoves DEF Pcs
  <2>2. th'[t] = d /\ OthersStay(t)
    BY <1>0, <2>1 DEF OthersStay, MovedTo
  <2>3. Steady' <=> Steady
    BY <1>0 DEF Steady
  <2>4. LStep(t)
    <3>1. ThreadOK(d)
      BY <1>0, <2>1, MovedOK DEF ThreadOK, PlaceOK
    <3>2. ThreadOK(th[t])' /\ RowsOK'
      BY <1>0, <2>2, <3>1 DEF OInv, LInv, RowsOK, ThreadOK, PlaceOK, KindOK, db, mem
    <3>3. /\ Locked(d) => condMutex[d.cur] = t
          /\ \A p \in Processors : Alone(d, p) => Alone(th[t], p)
      BY <1>0, <2>1 DEF Locked, Alone, MovedTo
    <3> QED
      BY <1>0, <2>2, <3>2, <3>3 DEF LStep, db, mem
  <2>5. AStep(t)
    <3>1. ASSUME NEW p \in Processors, NEW e \in Seqs, <<e, p>> \in acked', <<e, p>> \notin acked
          PROVE  kindOf[e] \in RealTime[p] \/ (Locked(th[t]) /\ th[t].cur = p /\ Unmaps(d, e, p))
      <4>1. e \in th[t].batch /\ p = th[t].cur /\ e # 0
        BY <1>2, <3>1, BoundsAssumption DEF Seqs
      <4>2. CASE th[t].mode = "real"
        BY <1>0, <4>1, <4>2 DEF ThreadOK, KindOK
      <4>3. CASE th[t].mode # "real"
        BY <1>0, <2>1, <4>1, <4>3 DEF LocalOK, Locked, Unmaps, MovedTo
      <4> QED
        BY <4>2, <4>3
    <3>2. d.pc = "unmap" /\ \A e, p : ~Unmaps(th[t], e, p)
      BY <1>0, <2>1 DEF MovedTo, Unmaps
    <3> QED
      BY <1>0, <2>2, <2>3, <3>1, <3>2 DEF AStep, db
  <2>6. OStep(t)
    <3>1. \A e : e \in th[t].batch => Erases(d, e)
      BY <2>1 DEF Erases, MovedTo
    <3>2. ASSUME NEW e, Taken(e)', ~Erases(d, e) PROVE Taken(e)
      <4>1. ~Takes(d, e) /\ e \notin th[t].batch
        BY <2>1, <3>1, <3>2 DEF Takes, MovedTo
      <4>2. \A a \in acked' : a[1] = e => a \in acked
        BY <1>2, <4>1
      <4> QED
        BY <2>2, <3>2, <4>1, <4>2 DEF Taken, OthersStay
    <3>3. \A e : (Mapped(e)' <=> Mapped(e)) /\ ~Erases(th[t], e)
      BY <1>0 DEF Mapped, db, Erases
    <3>4. Undisturbed' => Undisturbed
      BY <1>0, <2>2, <2>3 DEF Undisturbed, OthersStay, mem
    <3> QED
      BY <1>0, <2>2, <3>2, <3>3, <3>4 DEF OStep, db
  <2>7. NStep(t)
    <3>1. d.pc = "unmap"
      BY <2>1 DEF MovedTo
    <3> QED
      BY <1>0, <2>2, <2>3, <3>1 DEF NStep, db, mem
  <2> QED
    BY <2>4, <2>5, <2>6, <2>7, StepKeepsOInv
<1> QED
  BY <1>1, <1>2 DEF OnReport

LEMMA ODeleteEventMapping ==
    ASSUME IInv, OInv, NEW t \in Threads, DeleteEventMapping(t)
    PROVE  OInv'
<1>0. /\ th[t] \in ThreadStates /\ LocalOK(th[t]) /\ ThreadOK(th[t]) /\ th[t].pc = "unmap"
      /\ UNCHANGED <<events, kindOf, observers, mem, begun, crashes, acked>>
      /\ th \in [Threads -> ThreadStates]
      /\ Locked(th[t]) => condMutex[th[t].cur] = t
  BY ThreadParts DEF DeleteEventMapping
<1>1. CASE Fault /\ AfterBatch(t) /\ UNCHANGED mapping
  BY <1>0, <1>1, FaultIsSeen, AfterBatchCalm DEF mem
<1>2. CASE /\ mapping' = mapping \ MappingRows(th[t].cur, th[t].batch) /\ Goto(t, "purge")
           /\ UNCHANGED faults
  <2>1. PICK d : MovedTo(th[t], d, "purge") /\ th' = [th EXCEPT ![t] = d]
    BY <1>0, <1>2, GotoMoves DEF Pcs
  <2>2. th'[t] = d /\ OthersStay(t) /\ d.pc = "purge" /\ d.batch = th[t].batch
    BY <1>0, <2>1 DEF OthersStay, MovedTo
  <2>3. Steady' <=> Steady
    BY <1>0, <1>2 DEF Steady
  <2>4. LStep(t)
    <3>1. ThreadOK(d)
      BY <1>0, <2>1, MovedOK DEF ThreadOK, PlaceOK
    <3>2. ThreadOK(th[t])' /\ RowsOK'
      BY <1>0, <2>2, <3>1 DEF OInv, LInv, RowsOK, ThreadOK, PlaceOK, KindOK, mem
    <3>3. /\ Locked(d) => condMutex[d.cur] = t
          /\ \A p \in Processors : Alone(d, p) => Alone(th[t], p)
      BY <1>0, <2>1 DEF Locked, Alone, MovedTo
    <3> QED
      BY <1>0, <2>2, <3>2, <3>3 DEF LStep, mem
  <2>5. AStep(t)
    <3>1. ASSUME NEW p \in Processors, NEW e \in Seqs, Unmaps(th[t], e, p)
          PROVE  <<e, p>> \notin mapping'
      <4>1. <<e, p>>[1] = e /\ <<e, p>>[2] = p /\ e \in th[t].batch /\ th[t].cur = p
        BY <3>1 DEF Unmaps
      <4> QED
        BY <1>2, <4>1 DEF MappingRows
    <3> QED
      BY <1>0, <1>2, <2>2, <2>3, <3>1 DEF AStep
  <2>6. OStep(t)
    <3>1. \A e : Takes(d, e) => Takes(th[t], e)
      BY <1>0, <2>2 DEF Takes
    <3>2. \A e : Taken(e)' => Taken(e)
      BY <1>0, <2>2, <3>1 DEF Taken, OthersStay
    <3>3. \A e : e \in th[t].batch <=> Erases(d, e)
      BY <2>2 DEF Erases
    <3>4. ASSUME NEW e, Mapped(e), e \notin th[t].batch PROVE Mapped(e)'
      <4>1. PICK m \in mapping : m[1] = e
        BY <3>4 DEF Mapped
      <4>2. m \in mapping'
        BY <1>2, <3>4, <4>1 DEF MappingRows
      <4> QED
        BY <4>1, <4>2 DEF Mapped
    <3>5. \A e : Erases(th[t], e) => Erases(d, e)
      BY <1>0, <3>3 DEF Erases
    <3>6. Undisturbed' => Undisturbed
      BY <1>0, <2>2, <2>3 DEF Undisturbed, OthersStay, mem
    <3> QED
      BY <1>0, <2>2, <3>2, <3>3, <3>4, <3>5, <3>6 DEF OStep
  <2>7. NStep(t)
    BY <1>0, <1>2, <2>2, <2>3 DEF NStep, mem
  <2> QED
    BY <2>4, <2>5, <2>6, <2>7, StepKeepsOInv
<1> QED
  BY <1>0, <1>1, <1>2 DEF DeleteEventMapping

LEMMA OQueryExistEvent ==
    ASSUME IInv, OInv, NEW t \in Threads, QueryExistEvent(t)
    PROVE  OInv'
<1>0. /\ th[t] \in ThreadStates /\ ThreadOK(th[t]) /\ th[t].pc = "purge"
      /\ UNCHANGED <<db, mem, begun, crashes, acked>> /\ th \in [Threads -> ThreadStates]
      /\ Locked(th[t]) => condMutex[th[t].cur] = t
  BY ThreadParts DEF QueryExistEvent
<1>1. CASE Fault /\ AfterBatch(t)
  BY <1>0, <1>1, FaultIsSeen, AfterBatchCalm DEF db, mem
<1>2. CASE /\ th' = [th EXCEPT ![t].pc = "erase", ![t].del = UnusedEvents(th[t].batch)]
           /\ UNCHANGED faults
  <2>0. PICK del : del = UnusedEvents(th[t].batch)
    OBVIOUS
  <2>1. PICK d : d = [th[t] EXCEPT !.pc = "erase", !.del = del]
    OBVIOUS
  <2>2. d \in ThreadStates
    <3>1. del \subseteq th[t].batch
      BY <2>0 DEF UnusedEvents
    <3> QED
      BY <1>0, <2>1, <3>1 DEF ThreadStates, Pcs
  <2>3. /\ d.pc = "erase" /\ d.mode = th[t].mode /\ d.cur = th[t].cur /\ d.batch = th[t].batch
        /\ d.seq = th[t].seq /\ d.kind = th[t].kind /\ d.todo = th[t].todo /\ d.del = del
    BY <1>0, <2>1 DEF ThreadStates
  <2>4. th' = [th EXCEPT ![t] = d]
    BY <1>0, <1>2, <2>0, <2>1 DEF ThreadStates
  <2>5. ThreadOK(d)
    BY <1>0, <2>3 DEF ThreadOK, PlaceOK, KindOK
  <2>6. /\ Locked(d) => condMutex[d.cur] = t /\ d.pc # "report"
        /\ \A p \in Processors : Alone(d, p) => Alone(th[t], p)
    BY <1>0, <2>3 DEF Locked, Alone
  <2>7. ASSUME NEW e, Erases(th[t], e), ~Mapped(e) PROVE Erases(d, e)
    <3>1. e \in th[t].batch
      BY <1>0, <2>7 DEF Erases
    <3>2. \A o : <<e, o>> \notin mapping
      <4> SUFFICES ASSUME NEW o, <<e, o>> \in mapping PROVE FALSE
        OBVIOUS
      <4>1. <<e, o>>[1] = e
        OBVIOUS
      <4> QED
        BY <2>7, <4>1 DEF Mapped
    <3> QED
      BY <2>0, <2>3, <3>1, <3>2 DEF Erases, UnusedEvents
  <2>8. \A e : Takes(d, e) => Takes(th[t], e)
    BY <1>0, <2>3 DEF Takes
  <2> QED
    BY <1>0, <1>2, <2>2, <2>3, <2>4, <2>5, <2>6, <2>7, <2>8, CalmStep DEF db, mem
<1> QED
  BY <1>0, <1>1, <1>2 DEF QueryExistEvent

LEMMA ODeleteEvent ==
    ASSUME IInv, OInv, NEW t \in Threads, DeleteEvent(t)
    PROVE  OInv'
<1>0. /\ th[t].pc = "erase" /\ AfterBatch(t)
      /\ UNCHANGED <<kindOf, mapping, observers, mem, begun, crashes, acked>>
  BY DEF DeleteEvent
<1>1. CASE Fault /\ UNCHANGED events
  BY <1>0, <1>1, FaultIsSeen, AfterBatchCalm DEF mem
<1>2. CASE events' = events \ th[t].del /\ UNCHANGED faults
  <2>1. \A e \in events' : ~Erases(th[t], e)
    BY <1>0, <1>2 DEF Erases
  <2> QED
    BY <1>0, <1>2, <2>1, AfterBatchCalm DEF mem
<1> QED
  BY <1>1, <1>2 DEF DeleteEvent

LEMMA OOnReceive ==
    ASSUME IInv, OInv, NEW t \in Threads, OnReceive(t)
    PROVE  OInv'
<1>0. /\ th[t] \in ThreadStates /\ ThreadOK(th[t]) /\ th[t].pc = "receive"
      /\ th[t].cur \in Watchers /\ th[t].cur \notin Processors
      /\ acked' = acked \cup (th[t].batch \X {th[t].cur})
      /\ UNCHANGED <<db, mem, begun, crashes, faults>> /\ th \in [Threads -> ThreadStates]
  BY ThreadParts, ObserversAssumption DEF OnReceive, LocalOK
<1>1. PICK d : /\ th' = [th EXCEPT ![t] = d] /\ d \in ThreadStates /\ ThreadOK(d) /\ ~Locked(d)
               /\ d.pc \in {"idle", "send", "publish"}
               /\ \A p \in Processors : ~Alone(d, p)
  <2>1. CASE Goto(t, "publish")
    <3>1. PICK d : MovedTo(th[t], d, "publish") /\ th' = [th EXCEPT ![t] = d]
      BY <1>0, <2>1, GotoMoves DEF Pcs
    <3>2. ThreadOK(d)
      BY <1>0, <3>1, MovedOK
    <3> QED
      BY <1>0, <3>1, <3>2 DEF MovedTo, Locked, Alone
  <2>2. CASE NextObserver(t, th[t].cur)
    <3>1. PICK d : d = NextRecord(th[t], th[t].cur)
      OBVIOUS
    <3>2. Resting(d) /\ th' = [th EXCEPT ![t] = d]
      BY <1>0, <2>2, <3>1, NextRests DEF NextObserver, NextRecord
    <3> QED
      BY <3>2 DEF Resting
  <2> QED
    BY <2>1, <2>2 DEF OnReceive
<1>2. th'[t] = d /\ OthersStay(t)
  BY <1>0, <1>1 DEF OthersStay
<1>3. Steady' <=> Steady
  BY <1>0 DEF Steady
<1>4. LStep(t)
  <2>1. ThreadOK(th[t])' /\ RowsOK'
    BY <1>0, <1>1, <1>2 DEF OInv, LInv, RowsOK, ThreadOK, PlaceOK, KindOK, db, mem
  <2> QED
    BY <1>0, <1>1, <1>2, <2>1 DEF LStep, db, mem
<1>5. AStep(t)
  <2>1. \A p \in Processors, e \in Seqs : <<e, p>> \in acked' => <<e, p>> \in acked
    BY <1>0
  <2>2. d.pc # "report" /\ \A e, p : ~Unmaps(th[t], e, p)
    BY <1>0, <1>1 DEF Unmaps
  <2> QED
    BY <1>0, <1>2, <1>3, <2>1, <2>2 DEF AStep, db
<1>6. OStep(t)
  <2>1. \A e : ~Takes(d, e) /\ ~Erases(th[t], e)
    BY <1>0, <1>1 DEF Takes, Erases
  <2>2. ASSUME NEW e, Taken(e)' PROVE Taken(e)
    <3>1. \A u \in Threads : Takes(th'[u], e) => Takes(th[u], e)
      BY <1>2, <2>1 DEF OthersStay
    <3>2. \A a \in acked' : a[1] = e => a \in acked \/ Takes(th[t], e)
      BY <1>0 DEF Takes
    <3> QED
      BY <2>2, <3>1, <3>2 DEF Taken
  <2>3. \A e : Mapped(e)' <=> Mapped(e)
    BY <1>0 DEF Mapped, db
  <2>4. Undisturbed' => Undisturbed
    BY <1>0, <1>2, <1>3 DEF Undisturbed, OthersStay, mem
  <2> QED
    BY <1>0, <1>2, <2>1, <2>2, <2>3, <2>4 DEF OStep, db
<1>7. NStep(t)
  BY <1>0, <1>1, <1>2, <1>3 DEF NStep, db, mem
<1> QED
  BY <1>4, <1>5, <1>6, <1>7, StepKeepsOInv

\* A step after which no thread takes or erases more than before, and that reports nothing;
\* it may change the locks, and what is stored and in memory.
LEMMA PlainStep ==
    ASSUME IInv, OInv, NEW t \in Threads, NEW d \in ThreadStates, th' = [th EXCEPT ![t] = d],
           LStep(t), UNCHANGED <<events, kindOf, acked, crashes, faults>>,
           mapping' \subseteq mapping, removed \subseteq removed',
           th[t].pc \notin {"unmap", "purge", "erase"},
           d.pc \notin {"unmap", "purge", "erase", "receive", "report"},
           Undisturbed' => mapping' = mapping /\ th[t].pc # "rmrow",
           Steady /\ removed' = {} =>
                zeroed' = zeroed /\ d.pc \notin {"rmmem", "rmseq"}
    PROVE  OInv'
<1>0. th'[t] = d /\ OthersStay(t)
  BY Parts DEF OthersStay
<1>1. Steady' <=> Steady
  BY DEF Steady
<1>2. AStep(t)
  BY <1>0, <1>1 DEF AStep, Unmaps
<1>3. OStep(t)
  <2>1. \A e : ~Takes(d, e) /\ ~Erases(th[t], e)
    BY DEF Takes, Erases
  <2>2. \A e : Taken(e)' => Taken(e)
    BY <1>0, <2>1 DEF Taken, OthersStay
  <2>3. Undisturbed' => \A e : Mapped(e)' <=> Mapped(e)
    BY DEF Mapped
  <2>4. Undisturbed' => Undisturbed
    BY <1>0, <1>1 DEF Undisturbed, OthersStay
  <2> QED
    BY <1>0, <2>1, <2>2, <2>3, <2>4 DEF OStep
<1>4. NStep(t)
  BY <1>0, <1>1 DEF NStep
<1> QED
  BY <1>2, <1>3, <1>4, StepKeepsOInv

LEMMA OResetCondition ==
    ASSUME IInv, OInv, NEW t \in Threads, ResetCondition(t)
    PROVE  OInv'
<1>0. /\ th[t] \in ThreadStates /\ ThreadOK(th[t]) /\ th[t].pc = "reset"
      /\ th[t].cur \in Processors /\ condMutex[th[t].cur] = t
      /\ condMutex' = [condMutex EXCEPT ![th[t].cur] = None]
      /\ UNCHANGED <<db, live, stub, zeroed, removed, begun, crashes, faults, acked>>
      /\ th \in [Threads -> ThreadStates]
  BY ThreadParts DEF ResetCondition, LocalOK, Locked, PlaceOK
<1>1. PICK d : /\ th' = [th EXCEPT ![t] = d] /\ d \in ThreadStates /\ ThreadOK(d) /\ ~Locked(d)
               /\ d.pc \in {"idle", "send", "publish"}
               /\ \A p \in Processors : Alone(d, p) => Alone(th[t], p)
  <2>1. CASE Goto(t, "publish") /\ th[t].mode = "startup"
    <3>1. PICK d : MovedTo(th[t], d, "publish") /\ th' = [th EXCEPT ![t] = d]
      BY <1>0, <2>1, GotoMoves DEF Pcs
    <3>2. ThreadOK(d)
      BY <1>0, <2>1, <3>1, MovedOK
    <3> QED
      BY <1>0, <3>1, <3>2 DEF MovedTo, Locked, Alone
  <2>2. CASE NextObserver(t, th[t].cur)
    <3>1. PICK d : d = NextRecord(th[t], th[t].cur)
      OBVIOUS
    <3>2. Resting(d) /\ th' = [th EXCEPT ![t] = d]
      BY <1>0, <2>2, <3>1, NextRests DEF NextObserver, NextRecord
    <3> QED
      BY <3>2 DEF Resting
  <2> QED
    BY <2>1, <2>2 DEF ResetCondition
<1>2. th'[t] = d /\ OthersStay(t)
  BY <1>0, <1>1 DEF OthersStay
<1>3. NobodyElse(t, th[t].cur)
  BY <1>0 DEF OInv, LInv, MutexOK, NobodyElse
<1>4. \A p \in Processors : condMutex'[p] = condMutex[p] \/ NobodyElse(t, p)
  BY <1>0, <1>3, Parts DEF MemOK
<1>5. ThreadOK(th[t])' /\ RowsOK'
  BY <1>0, <1>1, <1>2 DEF OInv, LInv, RowsOK, ThreadOK, PlaceOK, KindOK, db
<1>6. LStep(t)
  BY <1>0, <1>1, <1>2, <1>4, <1>5 DEF LStep, db
<1> QED
  BY <1>0, <1>1, <1>6, PlainStep DEF db

--------------------------------------------------------------------------------
(* Registration.                                                                *)

\* A call for an observer nobody is busy with begins.
LEMMA CallIs ==
    ASSUME IInv, NEW t \in Threads, NEW o \in Observers, NEW pc \in Pcs, NEW mode \in Modes,
           NEW E \in SUBSET (0..MaxEvents), NEW d, d = CallFor(o, pc, mode, E)
    PROVE  /\ d \in ThreadStates /\ d.pc = pc /\ d.mode = mode /\ d.cur = o /\ d.batch = E
           /\ d.seq = 0 /\ d.todo = {}
<1>1. d.todo = {}
  BY DEF CallFor, IdleThread
<1> DEFINE c == CallFor(o, pc, mode, E)
<1>2. /\ c \in ThreadStates /\ c.pc = pc /\ c.mode = mode /\ c.cur = o /\ c.batch = E
      /\ c.seq = 0
  BY CallRecord
<1>3. d = c
  OBVIOUS
<1> HIDE DEF c
<1> QED
  BY <1>1, <1>2, <1>3

LEMMA OStoreObserver ==
    ASSUME IInv, OInv, NEW t \in Threads, NEW o \in Observers, StoreObserver(t, o)
    PROVE  OInv'
<1>0. /\ th[t].pc = "idle" /\ NobodyBusyWith(o) /\ o \notin observers \cup removed
      /\ observers' = observers \cup {o}
      /\ UNCHANGED <<events, kindOf, mapping, mem, begun, crashes, faults, acked>>
      /\ th \in [Threads -> ThreadStates]
  BY ThreadParts DEF StoreObserver
<1>1. PICK mode : mode = (IF o \in Watchers THEN "replay" ELSE "startup")
  OBVIOUS
<1>2. PICK d : d = CallFor(o, "publish", mode, {})
  OBVIOUS
<1>3. /\ d \in ThreadStates /\ d.pc = "publish" /\ d.mode = mode /\ d.cur = o
      /\ d.seq = 0 /\ d.todo = {}
  BY <1>1, <1>2, CallIs DEF Pcs, Modes
<1>4. th' = [th EXCEPT ![t] = d]
  BY <1>1, <1>2 DEF StoreObserver
<1>5. th'[t] = d /\ OthersStay(t)
  BY <1>0, <1>3, <1>4 DEF OthersStay
<1>6. o \in Processors => o \notin live \cup removed
  BY <1>0 DEF OInv, LInv, RowsOK
<1>7. PlaceOK(th[t])' /\ KindOK(th[t])'
  BY <1>0, <1>1, <1>3, <1>5, <1>6, ObserversAssumption DEF PlaceOK, KindOK, mem, Observers
<1>8. RowsOK'
  BY <1>0 DEF OInv, LInv, RowsOK, mem
<1>9. ~Locked(d) /\ \A p \in Processors : Alone(d, p) => NobodyBusyWith(p)
  BY <1>0, <1>3 DEF Locked, Alone
<1>10. LStep(t)
  BY <1>0, <1>5, <1>7, <1>8, <1>9 DEF LStep, ThreadOK, mem
<1> QED
  BY <1>0, <1>3, <1>4, <1>10, PlainStep DEF mem

LEMMA OInitFromDb ==
    ASSUME IInv, OInv, NEW t \in Threads, NEW o \in Observers,
           \/ o \in Processors /\ InitProcessorFromDb(t, o)
           \/ o \in Watchers /\ InitWatcherFromDb(t, o)
    PROVE  OInv'
<1>0. /\ th[t].pc = "idle" /\ NobodyBusyWith(o)
      /\ UNCHANGED <<db, live, stub, zeroed, removed, condMutex, begun, crashes, faults, acked>>
  BY DEF InitProcessorFromDb, InitWatcherFromDb, mem
<1>1. PICK pc \in {"startup", "publish", "unmap"}, mode \in {"startup", "replay"},
           E \in SUBSET (0..MaxEvents) :
        /\ th' = [th EXCEPT ![t] = CallFor(o, pc, mode, E)]
        /\ \/ pc = "startup" /\ mode = "startup" /\ o \in Processors /\ o \in observers \ live
           \/ pc # "startup" /\ mode = "replay" /\ o \in Watchers
  <2>1. CASE o \in Processors /\ InitProcessorFromDb(t, o)
    <3>1. /\ th' = [th EXCEPT ![t] = CallFor(o, "startup", "startup", {})]
          /\ o \in Processors /\ o \in observers \ live
      BY <2>1 DEF InitProcessorFromDb
    <3>2. {} \in SUBSET (0..MaxEvents)
      OBVIOUS
    <3> QED
      BY <3>1, <3>2
  <2>2. CASE o \in Watchers /\ InitWatcherFromDb(t, o)
    <3>1. PICK E : E = {e \in QueryEvents(o) : kindOf[e] \in Wants[o]}
      OBVIOUS
    <3>2. E \in SUBSET (0..MaxEvents)
      BY <3>1, SafeSources
    <3>3. PICK pc \in {"publish", "unmap"} : th' = [th EXCEPT ![t] = CallFor(o, pc, "replay", E)]
      BY <2>2, <3>1 DEF InitWatcherFromDb
    <3> QED
      BY <2>2, <3>2, <3>3
  <2> QED
    BY <2>1, <2>2
<1>2. PICK d : d = CallFor(o, pc, mode, E)
  OBVIOUS
<1>3. /\ d \in ThreadStates /\ d.pc = pc /\ d.mode = mode /\ d.cur = o /\ d.batch = E
      /\ d.seq = 0 /\ d.todo = {}
  BY <1>1, <1>2, CallIs DEF Pcs, Modes
<1>4. o \in Watchers => o \notin Processors
  BY ObserversAssumption
<1>5. ThreadOK(d)
  BY <1>1, <1>3, <1>4 DEF ThreadOK, PlaceOK, KindOK, OInv, LInv, RowsOK
<1>6. ~Locked(d) /\ \A p \in Processors : Alone(d, p) => NobodyBusyWith(p)
  BY <1>0, <1>1, <1>3 DEF Locked, Alone
<1>7. \A e : (Takes(d, e) => Erases(d, e)) /\ ~Erases(th[t], e)
  BY <1>0, <1>1, <1>3 DEF Takes, Erases
<1> QED
  BY <1>0, <1>1, <1>2, <1>3, <1>5, <1>6, <1>7, CalmStep DEF db

LEMMA OProcessStartup ==
    ASSUME IInv, OInv, NEW t \in Threads, ProcessStartup(t)
    PROVE  OInv'
<1>0. /\ th[t] \in ThreadStates /\ PlaceOK(th[t]) /\ th[t].pc = "startup"
      /\ th[t].mode = "startup" /\ th[t].cur \in Processors
      /\ UNCHANGED <<db, live, stub, zeroed, removed, begun, crashes, acked>>
  BY ThreadParts DEF ProcessStartup, PlaceOK
<1>1. CASE Trigger(t, th[t].cur, "startup")
  <2>1. NobodyElse(t, th[t].cur)
    <3> SUFFICES ASSUME NEW u \in Threads \ {t}, Locked(th[u]), th[u].cur = th[t].cur PROVE FALSE
      BY DEF NobodyElse
    <3>1. PlaceOK(th[u])
      BY ThreadParts
    <3>2. CASE th[u].mode = "trigger"
      BY <1>0, <3>1, <3>2 DEF PlaceOK
    <3>3. CASE th[u].mode = "startup"
      BY <1>0, <3>3 DEF OInv, LInv, AloneOK, Alone
    <3> QED
      BY <3>2, <3>3 DEF Locked
  <2>2. PICK p \in Processors : p = th[t].cur
    BY <1>0
  <2> QED
    BY <1>0, <1>1, <2>1, <2>2, OTrigger
<1>2. CASE Goto(t, "publish") /\ UNCHANGED <<row, condMutex, faults>>
  BY <1>0, <1>2, MoveCalm DEF Pcs
<1> QED
  BY <1>1, <1>2 DEF ProcessStartup

LEMMA OPublish ==
    ASSUME IInv, OInv, NEW t \in Threads, Publish(t)
    PROVE  OInv'
<1>0. /\ th[t] \in ThreadStates /\ PlaceOK(th[t]) /\ th[t].pc = "publish"
      /\ live' = live \cup {th[t].cur} /\ th' = [th EXCEPT ![t] = IdleThread]
      /\ UNCHANGED <<db, zeroed, removed, row, condMutex, begun, crashes, faults, acked>>
      /\ th \in [Threads -> ThreadStates]
  BY ThreadParts DEF Publish
<1>1. PICK d : d = IdleThread
  OBVIOUS
<1>2. Resting(d) /\ d.mode = "none" /\ d.todo = {} /\ d.seq = 0 /\ d.pc = "idle"
  BY <1>1, IdleRests DEF IdleThread
<1>3. d \in ThreadStates /\ ~Locked(d) /\ \A p \in Processors : ~Alone(d, p)
  BY <1>2 DEF Resting
<1>4. th'[t] = d /\ OthersStay(t) /\ th' = [th EXCEPT ![t] = d]
  BY <1>0, <1>1 DEF OthersStay
<1>5. th[t].cur \in Processors => th[t].mode = "startup" /\ th[t].cur \in observers
  BY <1>0 DEF PlaceOK
<1>6. PlaceOK(th[t])' /\ KindOK(th[t])'
  BY <1>2, <1>4 DEF PlaceOK, KindOK
<1>7. RowsOK'
  BY <1>0, <1>5 DEF OInv, LInv, RowsOK, db
<1>8. \A p \in Processors : p \in live' => p \in live \/ Alone(th[t], p)
  BY <1>0, <1>5 DEF Alone
<1>9. LStep(t)
  BY <1>0, <1>3, <1>4, <1>6, <1>7, <1>8 DEF LStep, ThreadOK, db
<1> QED
  BY <1>0, <1>2, <1>3, <1>4, <1>9, PlainStep DEF db

--------------------------------------------------------------------------------
(* Removal.                                                                     *)

\* A removal that gives up: a watcher's handle still gets the sequence 0.
LEMMA AfterRemovalCalm ==
    ASSUME IInv, OInv, NEW t \in Threads, AfterRemoval(t), th[t].pc \in {"rmmap", "rmrow"},
           UNCHANGED <<db, live, zeroed, removed, condMutex, acked, crashes>>, Fault
    PROVE  OInv'
<1>1. faults' # 0 /\ ~Steady'
  BY FaultIsSeen
<1>2. CASE Goto(t, "rmseq")
  BY <1>1, <1>2, MoveCalm DEF Pcs
<1>3. CASE th' = [th EXCEPT ![t] = IdleThread]
  BY <1>1, <1>3, IdleRests, RestStep DEF db
<1> QED
  BY <1>2, <1>3 DEF AfterRemoval

LEMMA ORemoveObserver ==
    ASSUME IInv, OInv, NEW t \in Threads, NEW o \in Observers, RemoveObserver(t, o)
    PROVE  OInv'
<1>0. /\ th[t].pc = "idle" /\ NobodyBusyWith(o)
      /\ UNCHANGED <<db, mem, begun, crashes, faults, acked>>
  BY DEF RemoveObserver
<1>1. PICK d : d = CallFor(o, "rmmap", "none", {})
  OBVIOUS
<1>2. /\ d \in ThreadStates /\ d.pc = "rmmap" /\ d.mode = "none" /\ d.cur = o
      /\ d.seq = 0 /\ d.todo = {}
  BY <1>1, CallIs DEF Pcs, Modes
<1>3. th' = [th EXCEPT ![t] = d]
  BY <1>1 DEF RemoveObserver
<1>4. ThreadOK(d) /\ ~Locked(d)
  BY <1>2 DEF ThreadOK, PlaceOK, KindOK, Locked
<1>5. \A p \in Processors : Alone(d, p) => NobodyBusyWith(p)
  BY <1>0, <1>2 DEF Alone
<1>6. \A e : ~Takes(d, e) /\ ~Erases(th[t], e)
  BY <1>0, <1>2 DEF Takes, Erases
<1> QED
  BY <1>0, <1>2, <1>3, <1>4, <1>5, <1>6, CalmStep DEF db, mem

LEMMA ODeleteMappingOfObserver ==
    ASSUME IInv, OInv, NEW t \in Threads, DeleteMappingOfObserver(t)
    PROVE  OInv'
<1>0. /\ th[t] \in ThreadStates /\ ThreadOK(th[t]) /\ th[t].pc = "rmmap"
      /\ UNCHANGED <<events, kindOf, observers, mem, begun, crashes, acked>>
      /\ th \in [Threads -> ThreadStates]
  BY ThreadParts DEF DeleteMappingOfObserver
<1>1. CASE Fault /\ AfterRemoval(t) /\ UNCHANGED mapping
  BY <1>0, <1>1, AfterRemovalCalm DEF db, mem
<1>2. CASE mapping' = {m \in mapping : m[2] # th[t].cur} /\ Goto(t, "rmrow") /\ UNCHANGED faults
  <2>1. PICK d : MovedTo(th[t], d, "rmrow") /\ th' = [th EXCEPT ![t] = d]
    BY <1>0, <1>2, GotoMoves DEF Pcs
  <2>2. th'[t] = d /\ OthersStay(t) /\ d.pc = "rmrow" /\ d \in ThreadStates
    BY <1>0, <2>1 DEF OthersStay, MovedTo
  <2>3. ThreadOK(d)
    <3>1. th[t].mode = "none"
      BY <1>0 DEF ThreadOK, PlaceOK
    <3> QED
      BY <1>0, <2>1, <3>1, MovedOK
  <2>4. ThreadOK(th[t])' /\ RowsOK'
    BY <1>0, <2>2, <2>3 DEF OInv, LInv, RowsOK, ThreadOK, PlaceOK, KindOK, mem
  <2>5. ~Locked(d) /\ \A p \in Processors : Alone(d, p) => Alone(th[t], p)
    BY <1>0, <2>1 DEF Locked, Alone, MovedTo
  <2>6. LStep(t)
    BY <1>0, <2>2, <2>4, <2>5 DEF LStep, mem
  <2>7. ~Undisturbed'
    BY <2>2 DEF Undisturbed
  <2> QED
    BY <1>0, <1>2, <2>1, <2>2, <2>6, <2>7, PlainStep DEF mem
<1> QED
  BY <1>0, <1>1, <1>2 DEF DeleteMappingOfObserver

LEMMA ODeleteObserverRow ==
    ASSUME IInv, OInv, NEW t \in Threads, DeleteObserverRow(t)
    PROVE  OInv'
<1>0. /\ th[t] \in ThreadStates /\ ThreadOK(th[t]) /\ PlaceOK(th[t]) /\ th[t].pc = "rmrow"
      /\ UNCHANGED <<events, kindOf, mapping, live, stub, zeroed, row, condMutex,
                     begun, crashes, acked>>
      /\ th \in [Threads -> ThreadStates]
  BY ThreadParts DEF DeleteObserverRow
<1>1. CASE Fault /\ AfterRemoval(t) /\ UNCHANGED <<observers, removed>>
  BY <1>0, <1>1, AfterRemovalCalm DEF db
<1>2. CASE /\ observers' = observers \ {th[t].cur} /\ removed' = removed \cup {th[t].cur}
           /\ Goto(t, "rmmem") /\ UNCHANGED faults
  <2>1. PICK d : MovedTo(th[t], d, "rmmem") /\ th' = [th EXCEPT ![t] = d]
    BY <1>0, <1>2, GotoMoves DEF Pcs
  <2>2. th'[t] = d /\ OthersStay(t) /\ d.pc = "rmmem" /\ d \in ThreadStates
    BY <1>0, <2>1 DEF OthersStay, MovedTo
  <2>3. th[t].mode # "startup"
    BY <1>0 DEF PlaceOK
  <2>4. PlaceOK(th[t])' /\ KindOK(th[t])' /\ RowsOK'
    BY <1>0, <1>2, <2>1, <2>2, <2>3 DEF OInv, LInv, RowsOK, ThreadOK, PlaceOK, KindOK, MovedTo
  <2>5. ~Locked(d) /\ \A p \in Processors : Alone(d, p) => Alone(th[t], p)
    BY <1>0, <2>1 DEF Locked, Alone, MovedTo
  <2>6. \A p \in Processors : p = th[t].cur => Alone(th[t], p)
    BY <1>0 DEF Alone
  <2>7. LStep(t)
    BY <1>0, <1>2, <2>2, <2>4, <2>5, <2>6 DEF LStep, ThreadOK
  <2>8. ~Undisturbed' /\ removed' # {}
    BY <1>2 DEF Undisturbed
  <2> QED
    BY <1>0, <1>2, <2>1, <2>2, <2>7, <2>8, PlainStep
<1> QED
  BY <1>0, <1>1, <1>2 DEF DeleteObserverRow

LEMMA ODeleteFromMemory ==
    ASSUME IInv, OInv, NEW t \in Threads, DeleteFromMemory(t)
    PROVE  OInv'
<1>0. /\ th[t] \in ThreadStates /\ ThreadOK(th[t]) /\ th[t].pc = "rmmem"
      /\ th[t].cur \in removed /\ th[t].mode = "none" /\ th[t].cur \in Observers
      /\ live' = live \ {th[t].cur} /\ AfterRemoval(t)
      /\ UNCHANGED <<db, zeroed, removed, row, condMutex, begun, crashes, faults, acked>>
      /\ th \in [Threads -> ThreadStates]
  BY ThreadParts DEF DeleteFromMemory, PlaceOK, LocalOK
<1>1. PICK d : /\ th' = [th EXCEPT ![t] = d] /\ d \in ThreadStates /\ ThreadOK(d) /\ ~Locked(d)
               /\ d.pc \in {"idle", "rmseq"}
               /\ \A p \in Processors : ~Alone(d, p)
  <2>1. CASE Goto(t, "rmseq")
    <3>1. PICK d : MovedTo(th[t], d, "rmseq") /\ th' = [th EXCEPT ![t] = d]
      BY <1>0, <2>1, GotoMoves DEF Pcs
    <3>2. ThreadOK(d)
      BY <1>0, <3>1, MovedOK
    <3> QED
      BY <1>0, <3>1, <3>2 DEF MovedTo, Locked, Alone
  <2>2. CASE th' = [th EXCEPT ![t] = IdleThread]
    <3>1. PICK d : d = IdleThread
      OBVIOUS
    <3>2. d.pc = "idle" /\ d.todo = {} /\ d.mode = "none" /\ d.seq = 0
      BY <3>1 DEF IdleThread
    <3> QED
      BY <2>2, <3>1, <3>2, IdleRests DEF Resting
  <2> QED
    BY <1>0, <2>1, <2>2 DEF AfterRemoval
<1>2. th'[t] = d /\ OthersStay(t)
  BY <1>0, <1>1 DEF OthersStay
<1>3. PlaceOK(th[t])' /\ KindOK(th[t])' /\ RowsOK'
  BY <1>0, <1>1, <1>2 DEF OInv, LInv, RowsOK, ThreadOK, PlaceOK, KindOK, db
<1>4. LStep(t)
  BY <1>0, <1>1, <1>2, <1>3 DEF LStep, ThreadOK, db
<1>5. removed # {} /\ ~Undisturbed'
  BY <1>0 DEF Undisturbed
<1> QED
  BY <1>0, <1>1, <1>4, <1>5, PlainStep DEF db

LEMMA OSetSeqZero ==
    ASSUME IInv, OInv, NEW t \in Threads, SetSeqZero(t)
    PROVE  OInv'
<1>0. /\ th[t].pc = "rmseq" /\ th' = [th EXCEPT ![t] = IdleThread]
      /\ UNCHANGED <<db, live, stub, removed, row, condMutex, begun, crashes, faults, acked>>
      /\ th \in [Threads -> ThreadStates]
  BY ThreadParts DEF SetSeqZero
<1>1. PICK d : d = IdleThread
  OBVIOUS
<1>2. /\ d \in ThreadStates /\ ThreadOK(d) /\ ~Locked(d) /\ d.pc = "idle" /\ d.todo = {}
      /\ d.mode = "none" /\ d.seq = 0 /\ \A p \in Processors : ~Alone(d, p)
  BY <1>1, IdleRests DEF Resting, IdleThread
<1>3. th'[t] = d /\ OthersStay(t) /\ th' = [th EXCEPT ![t] = d]
  BY <1>0, <1>1 DEF OthersStay
<1>4. PlaceOK(th[t])' /\ KindOK(th[t])' /\ RowsOK'
  BY <1>0, <1>2, <1>3 DEF OInv, LInv, RowsOK, PlaceOK, KindOK, db
<1>5. LStep(t)
  BY <1>0, <1>2, <1>3, <1>4 DEF LStep, ThreadOK, db
<1>6. ~(Steady /\ removed = {})
  BY <1>0 DEF OInv, NamedOK
<1>7. ~(Steady /\ removed' = {}) /\ ~Undisturbed'
  BY <1>0, <1>6 DEF Undisturbed, Steady
<1> QED
  BY <1>0, <1>2, <1>3, <1>5, <1>7, PlainStep DEF db

LEMMA OCrash ==
    ASSUME IInv, OInv, Crash
    PROVE  OInv'
<1>1. ~Steady'
  <2>1. crashes \in Nat
    BY BoundsAssumption DEF IInv, TypeOK
  <2> QED
    BY <2>1 DEF Crash, Steady
<1>2. RowsOK'
  BY ObserversAssumption DEF OInv, LInv, RowsOK, Crash, db
<1>3. \A t \in Threads : th'[t] = IdleThread
  BY DEF Crash
<1>4. /\ IdleThread.pc = "idle" /\ IdleThread.mode = "none" /\ IdleThread.seq = 0
      /\ IdleThread.todo = {} /\ IdleThread.cur = None
  BY DEF IdleThread
<1>5. MutexOK' /\ AloneOK'
  BY <1>3, <1>4 DEF MutexOK, AloneOK, Locked, Alone
<1>6. ASSUME NEW t \in Threads PROVE PlaceOK(th[t])' /\ KindOK(th[t])'
  BY <1>3, <1>4, ThreadsAndNone DEF PlaceOK, KindOK
<1> QED
  BY <1>1, <1>2, <1>5, <1>6 DEF OInv, LInv, AckedOK, BatchOK, ErasedOK, Undisturbed, NamedOK

--------------------------------------------------------------------------------
(* The invariant.                                                               *)

LEMMA InitOInv == Init => OInv
<1> SUFFICES ASSUME Init PROVE OInv
  OBVIOUS
<1>1. \A t \in Threads : th[t] = IdleThread
  BY DEF Init
<1>2. /\ IdleThread.pc = "idle" /\ IdleThread.mode = "none" /\ IdleThread.seq = 0
      /\ IdleThread.todo = {} /\ IdleThread.cur = None
  BY DEF IdleThread
<1>3. RowsOK /\ MutexOK /\ AloneOK
  BY <1>1, <1>2 DEF Init, RowsOK, MutexOK, AloneOK, Locked, Alone
<1>4. ASSUME NEW t \in Threads PROVE PlaceOK(th[t]) /\ KindOK(th[t])
  BY <1>1, <1>2, ThreadsAndNone DEF PlaceOK, KindOK
<1>5. AckedOK /\ BatchOK /\ ErasedOK /\ NamedOK
  BY <1>1, <1>2 DEF Init, AckedOK, BatchOK, ErasedOK, NamedOK
<1> QED
  BY <1>3, <1>4, <1>5 DEF OInv, LInv

LEMMA NextOInv == IInv /\ OInv /\ [Next]_vars => OInv'
<1> SUFFICES ASSUME IInv, OInv, [Next]_vars PROVE OInv'
  OBVIOUS
<1>1. CASE Crash
  BY <1>1, OCrash
<1>2. ASSUME NEW t \in Threads, StepThread(t) PROVE OInv'
  <2>1. CASE InsertEvent(t) \/ InsertEventMapping(t)
    BY <2>1, OInsertEvent, OInsertEventMapping
  <2>2. CASE OnReport(t) \/ DeleteEventMapping(t) \/ QueryExistEvent(t) \/ DeleteEvent(t)
               \/ OnReceive(t) \/ ResetCondition(t)
    BY <2>2, OOnReport, ODeleteEventMapping, OQueryExistEvent, ODeleteEvent, OOnReceive,
       OResetCondition
  <2>3. CASE ProcessStartup(t) \/ Publish(t)
    BY <2>3, OProcessStartup, OPublish
  <2>4. CASE DeleteMappingOfObserver(t) \/ DeleteObserverRow(t) \/ DeleteFromMemory(t)
               \/ SetSeqZero(t)
    BY <2>4, ODeleteMappingOfObserver, ODeleteObserverRow, ODeleteFromMemory, OSetSeqZero
  <2>5. CASE \/ \E w \in Watchers : SendToWatcher(t, w)
             \/ \E p \in Processors : SendRealTime(t, p)
    BY <2>5, OSend DEF Observers
  <2>6. CASE \E p \in Processors : ProcessEvent(t, p)
    BY <2>6, OProcessEvent
  <2>7. CASE \E o \in Observers : SkipObserver(t, o)
    BY <2>7, OSkipObserver
  <2> QED
    BY <1>2, <2>1, <2>2, <2>3, <2>4, <2>5, <2>6, <2>7 DEF StepThread
<1>3. ASSUME NEW t \in Threads, CallThread(t) PROVE OInv'
  <2>1. CASE \E k \in Kinds : HandleEvents(t, k)
    BY <2>1, OHandleEvents
  <2>2. CASE \E p \in Processors : TriggerBatch(t, p)
    BY <2>2, OProcessEvent
  <2>3. CASE \/ \E p \in Processors : InitProcessorFromDb(t, p)
             \/ \E w \in Watchers : InitWatcherFromDb(t, w)
    BY <2>3, OInitFromDb DEF Observers
  <2>4. CASE \E o \in Observers : StoreObserver(t, o) \/ RemoveObserver(t, o)
    BY <2>4, OStoreObserver, ORemoveObserver
  <2> QED
    BY <1>3, <2>1, <2>2, <2>3, <2>4 DEF CallThread
<1>4. CASE UNCHANGED vars
  <2>1. UNCHANGED <<events, kindOf, mapping, observers, live, zeroed, removed, condMutex,
                    th, crashes, faults, acked>>
    BY <1>4 DEF vars, db, mem
  <2>2. LInv'
    BY <2>1 DEF OInv, LInv, RowsOK, MutexOK, AloneOK, PlaceOK, KindOK
  <2>3. AckedOK' /\ BatchOK'
    BY <2>1 DEF OInv, AckedOK, BatchOK, Steady, Due
  <2>4. ErasedOK' /\ NamedOK'
    BY <2>1 DEF OInv, ErasedOK, NamedOK, Steady, Undisturbed, Taken, Mapped
  <2> QED
    BY <2>2, <2>3, <2>4 DEF OInv
<1> QED
  BY <1>1, <1>2, <1>3, <1>4 DEF Next

LEMMA LocksAndTables == Spec => []OInv
BY InitOInv, NextOInv, Invariance, PTL DEF Spec

\* While no database operation fails and the process does not die, no thread reports to a
\* processor, in a batch, an event that has been reported to it: a batch is read under
\* condMutex_, and whoever reported before has unmapped before releasing it.
THEOREM ReportedOnce == Spec => [](faults = 0 /\ crashes = 0 => BatchReportedOnce)
<1>1. ASSUME IInv, OInv, faults = 0, crashes = 0, NEW t \in Threads,
             th[t].pc = "report", th[t].mode # "real", NEW e \in th[t].batch,
             <<e, th[t].cur>> \in acked
      PROVE  kindOf[e] \in RealTime[th[t].cur]
  <2>1. LocalOK(th[t])
    BY <1>1, ThreadParts
  <2>2. Locked(th[t])
    BY <1>1, <2>1 DEF LocalOK, Locked
  <2>3. ~Due(e, th[t].cur)
    BY <1>1, <2>2 DEF OInv, BatchOK, Steady
  <2> QED
    BY <1>1, <2>3 DEF Due
<1>2. IInv /\ OInv => (faults = 0 /\ crashes = 0 => BatchReportedOnce)
  BY <1>1 DEF BatchReportedOnce
<1> QED
  BY <1>2, Invariance, LocksAndTables, PTL

\* While no database operation fails and the process does not die, with nobody inside the
\* manager and nobody removed, an event that somebody has been given and that is still
\* stored is still mapped to an observer: whoever gave it up last has erased it.
THEOREM LastErases == Spec => [](faults = 0 /\ crashes = 0 => LastOneErases)
<1>1. ASSUME IInv, OInv, faults = 0, crashes = 0, Quiescent, removed = {},
             NEW e \in events, NEW p \in Observers, <<e, p>> \in acked
      PROVE  \E o \in Observers : <<e, o>> \in mapping
  <2>1. Undisturbed /\ \A t \in Threads : ~Erases(th[t], e)
    BY <1>1 DEF Quiescent, Undisturbed, Steady, Erases
  <2>2. Taken(e)
    BY <1>1 DEF Taken
  <2>3. PICK m \in mapping : m[1] = e
    BY <1>1, <2>1, <2>2 DEF OInv, ErasedOK, Mapped
  <2>4. m \in (0..MaxEvents) \X (Observers \cup {None}) /\ m[2] # None
    BY <1>1, <2>3 DEF IInv, TypeOK, OInv, NamedOK, Steady
  <2>5. m = <<e, m[2]>> /\ m[2] \in Observers
    BY <2>3, <2>4
  <2> QED
    BY <2>3, <2>5
<1>2. IInv /\ OInv => (faults = 0 /\ crashes = 0 => LastOneErases)
  BY <1>1 DEF LastOneErases
<1> QED
  BY <1>2, Invariance, LocksAndTables, PTL

--------------------------------------------------------------------------------
(* What a processor's row counts.  While somebody serves a processor, what it   *)
(* has to count is in his hand; otherwise its row covers it.                    *)

\* What the place of a thread says of its snapshot; in real time it reports its own event.
ShapeOK(c) ==
    /\ c.mode \in {"startup", "replay"} \/ c.pc \in {"idle", "rmmap", "rmrow", "rmmem", "rmseq"}
            => c.todo = {}
    /\ c.pc = "publish" => c.mode \in {"startup", "replay"}
    /\ c.mode = "real" =>
            c.pc \in {"report", "unmap", "purge", "erase"} /\ c.batch = {c.seq}

\* Who serves a processor has its lock, and some of its events in hand; who waits for it has
\* an event that its row does not count yet.
Serves(c, p) == Locked(c) /\ c.cur = p
Hand(c) == IF c.pc \in {"report", "unmap"} THEN c.batch ELSE {}
Waits(c, p) == p \in c.todo /\ ~Serves(c, p)

\* The events of a processor that its row has to count.
Backlog(p) == EventsOf(p) \ {th[t].seq : t \in {u \in Threads : Waits(th[u], p)}}

CountedAt(p) ==
    /\ (\A t \in Threads : ~Serves(th[t], p)) => Cardinality(Backlog(p)) <= row[p]
    /\ \A t \in Threads : Serves(th[t], p) => Backlog(p) \subseteq Hand(th[t])

\* A processor is mapped to what it wants; what was reported in real time is not mapped.
WantedOK == \A p \in Processors, e \in Seqs : <<e, p>> \in mapping => kindOf[e] \in Wants[p]
RealOK(c) ==
    c.mode = "real" /\ c.pc \in {"purge", "erase"} /\ c.seq # 0 => <<c.seq, c.cur>> \notin mapping

CInv ==
    /\ \A t \in Threads : ShapeOK(th[t])
    /\ Steady => /\ WantedOK
                 /\ \A t \in Threads : RealOK(th[t])
                 /\ \A p \in Processors : CountedAt(p)

LEMMA BacklogFinite ==
    ASSUME IInv, NEW p
    PROVE  IsFiniteSet(EventsOf(p)) /\ IsFiniteSet(Backlog(p)) /\ Cardinality(Backlog(p)) \in Nat
           /\ EventsOf(p) \subseteq Seqs
<1>1. EventsOf(p) \subseteq Seqs /\ IsFiniteSet(Seqs)
  BY FS_Interval, BoundsAssumption DEF EventsOf, Seqs, IInv, TypeOK
<1>2. Backlog(p) \subseteq EventsOf(p)
  BY DEF Backlog
<1> QED
  BY <1>1, <1>2, FS_Subset, FS_CardinalityType

\* Reports succeed, and a query reads all the events of a processor.
Patient == ~ReportMayFail /\ \A p \in Processors : Cardinality(EventsOf(p)) <= QueryLimit

LEMMA QueriesReadAll ==
    ASSUME IInv, Patient, NEW p \in Processors
    PROVE  QueryEvents(p) = EventsOf(p)
<1> SUFFICES ASSUME NEW e \in EventsOf(p)
             PROVE  Cardinality({f \in EventsOf(p) : f > e}) < QueryLimit
  BY DEF QueryEvents
<1>1. /\ IsFiniteSet(EventsOf(p)) /\ Cardinality(EventsOf(p)) \in Nat /\ QueryLimit \in Nat
      /\ Cardinality(EventsOf(p)) <= QueryLimit /\ e \in Nat
  BY BacklogFinite, BoundsAssumption, FS_CardinalityType DEF Patient, Seqs
<1>2. {f \in EventsOf(p) : f > e} \subseteq EventsOf(p) \ {e}
  BY <1>1
<1>3. /\ IsFiniteSet(EventsOf(p) \ {e})
      /\ Cardinality(EventsOf(p) \ {e}) = Cardinality(EventsOf(p)) - 1
  BY <1>1, FS_RemoveElement
<1>4. /\ Cardinality({f \in EventsOf(p) : f > e}) <= Cardinality(EventsOf(p)) - 1
      /\ Cardinality({f \in EventsOf(p) : f > e}) \in Nat
  BY <1>2, <1>3, FS_Subset, FS_CardinalityType
<1> QED
  BY <1>1, <1>4

LEMMA BacklogShrinks ==
    ASSUME NEW t \in Threads, OthersStay(t), NEW p,
           \A e \in EventsOf(p)' : e \in EventsOf(p) \/ (e = th'[t].seq /\ Waits(th'[t], p)),
           Waits(th[t], p) => \/ Waits(th'[t], p) /\ th'[t].seq = th[t].seq
                              \/ th[t].seq \notin EventsOf(p)'
    PROVE  Backlog(p)' \subseteq Backlog(p)
<1> SUFFICES ASSUME NEW e \in Backlog(p)' PROVE e \in Backlog(p)
  OBVIOUS
<1>1. e \in EventsOf(p)' /\ \A u \in Threads : Waits(th'[u], p) => e # th'[u].seq
  BY DEF Backlog
<1>2. e \in EventsOf(p)
  BY <1>1
<1>3. ASSUME NEW u \in Threads, Waits(th[u], p) PROVE e # th[u].seq
  BY <1>1, <1>3 DEF OthersStay
<1> QED
  BY <1>2, <1>3 DEF Backlog

--------------------------------------------------------------------------------
(* What a step of one thread has to show.                                       *)

\* A processor the thread has no part in keeps its row and its lock; otherwise nobody else
\* serves it, and what the row does not count is in the thread's hand.
CountStep(t, p) ==
    \/ /\ Backlog(p)' \subseteq Backlog(p) /\ row'[p] = row[p]
       /\ ~Serves(th[t], p) /\ ~Serves(th'[t], p)
    \/ /\ NobodyElse(t, p)
       /\ IF Serves(th'[t], p) THEN Backlog(p)' \subseteq Hand(th'[t])
          ELSE Cardinality(Backlog(p)') <= row'[p]

CStep(t) ==
    /\ OthersStay(t) /\ ShapeOK(th'[t])
    /\ Steady' =>
        /\ Steady
        /\ \A e \in Seqs : kindOf[e] # None => kindOf'[e] = kindOf[e]
        /\ \A p \in Processors, e \in Seqs : <<e, p>> \in mapping' =>
                <<e, p>> \in mapping \/ (e = th[t].seq /\ kindOf'[e] \in Wants[p])
        /\ RealOK(th[t])'
        /\ \A p \in Processors : CountStep(t, p)

LEMMA CountStepKeeps ==
    ASSUME IInv, NEW t \in Threads, OthersStay(t), NEW p \in Processors, CountedAt(p), CountStep(t, p)
    PROVE  CountedAt(p)'
<1>0. /\ IsFiniteSet(Backlog(p)) /\ Cardinality(Backlog(p)) \in Nat /\ row[p] \in Nat
      /\ \A u \in Threads \ {t} : th'[u] = th[u]
  BY BacklogFinite, Parts DEF MemOK, OthersStay
<1>1. CASE /\ Backlog(p)' \subseteq Backlog(p) /\ row'[p] = row[p]
           /\ ~Serves(th[t], p) /\ ~Serves(th'[t], p)
  <2>1. /\ Cardinality(Backlog(p)') \in Nat
        /\ Cardinality(Backlog(p)') <= Cardinality(Backlog(p))
    BY <1>0, <1>1, FS_Subset, FS_CardinalityType
  <2>2. \A u \in Threads : Serves(th'[u], p) <=> Serves(th[u], p)
    BY <1>0, <1>1
  <2>3. (\A u \in Threads : ~Serves(th'[u], p)) => Cardinality(Backlog(p)') <= row'[p]
    BY <1>0, <1>1, <2>1, <2>2 DEF CountedAt
  <2>4. ASSUME NEW u \in Threads, Serves(th'[u], p) PROVE Backlog(p)' \subseteq Hand(th'[u])
    BY <1>0, <1>1, <2>4 DEF CountedAt
  <2> QED
    BY <2>3, <2>4 DEF CountedAt
<1>2. CASE /\ NobodyElse(t, p)
           /\ IF Serves(th'[t], p) THEN Backlog(p)' \subseteq Hand(th'[t])
              ELSE Cardinality(Backlog(p)') <= row'[p]
  <2>1. \A u \in Threads : Serves(th'[u], p) => u = t
    BY <1>0, <1>2 DEF NobodyElse, Serves
  <2> QED
    BY <1>2, <2>1 DEF CountedAt
<1> QED
  BY <1>1, <1>2 DEF CountStep

LEMMA CStepKeeps ==
    ASSUME IInv, CInv, NEW t \in Threads, CStep(t)
    PROVE  CInv'
<1>0. OthersStay(t) /\ \A u \in Threads \ {t} : th'[u] = th[u]
  BY DEF CStep, OthersStay
<1>1. \A u \in Threads : ShapeOK(th'[u])
  BY <1>0 DEF CStep, CInv
<1>2. ASSUME Steady' PROVE WantedOK' /\ \A u \in Threads : RealOK(th[u])'
  <2>0. /\ Steady /\ WantedOK /\ \A u \in Threads : RealOK(th[u])
        /\ \A p \in Processors, e \in Seqs : <<e, p>> \in mapping' =>
                <<e, p>> \in mapping \/ (e = th[t].seq /\ kindOf'[e] \in Wants[p])
        /\ RealOK(th[t])' /\ \A e \in Seqs : kindOf[e] # None => kindOf'[e] = kindOf[e]
    BY <1>2 DEF CStep, CInv
  <2>1. ASSUME NEW p \in Processors, NEW e \in Seqs, <<e, p>> \in mapping'
        PROVE  kindOf'[e] \in Wants[p]
    <3>1. CASE <<e, p>> \in mapping
      <4>1. <<e, p>>[1] = e /\ e # 0
        BY BoundsAssumption DEF Seqs
      <4>2. kindOf[e] # None
        BY <3>1, <4>1, Parts DEF JInv, PendingEventsStored, Known
      <4> QED
        BY <2>0, <3>1, <4>2 DEF WantedOK
    <3>2. CASE <<e, p>> \notin mapping
      BY <2>0, <2>1, <3>2
    <3> QED
      BY <3>1, <3>2
  <2>2. ASSUME NEW u \in Threads PROVE RealOK(th[u])'
    <3>1. CASE u = t
      BY <2>0, <3>1
    <3>2. CASE u # t
      <4> SUFFICES ASSUME th[u].mode = "real", th[u].pc \in {"purge", "erase"}, th[u].seq # 0,
                          <<th[u].seq, th[u].cur>> \in mapping'
                   PROVE  FALSE
        BY <1>0, <3>2 DEF RealOK
      <4>1. /\ <<th[u].seq, th[u].cur>> \notin mapping /\ th[u].seq \in Seqs
            /\ th[u].cur \in Processors
        BY <2>0, Parts, BoundsAssumption DEF RealOK, ThreadStates, Seqs, LocalOK
      <4>2. th[u].seq # th[t].seq
        BY <3>2, Parts DEF JInv, Distinct
      <4> QED
        BY <2>0, <4>1, <4>2
    <3> QED
      BY <3>1, <3>2
  <2> QED
    BY <2>1, <2>2 DEF WantedOK
<1>3. ASSUME Steady', NEW p \in Processors PROVE CountedAt(p)'
  <2>1. CountedAt(p) /\ CountStep(t, p)
    BY <1>3 DEF CStep, CInv
  <2> QED
    BY <1>0, <2>1, CountStepKeeps
<1> QED
  BY <1>1, <1>2, <1>3 DEF CInv

\* After a failure nothing is promised.
LEMMA FaultCounts ==
    ASSUME IInv, CInv, NEW t \in Threads, OthersStay(t), ShapeOK(th'[t]), ~Steady'
    PROVE  CInv'
BY CStepKeeps DEF CStep

\* A thread that has no lock, and leaves the rows alone, counts nothing: it may take its
\* event to a processor it waits for, and must not forget one.
LEMMA AsideCounts ==
    ASSUME IInv, CInv, NEW t \in Threads, NEW d, th'[t] = d, OthersStay(t), ShapeOK(d),
           ~Locked(th[t]), ~Locked(d), row' = row,
           Steady' =>
            /\ Steady
            /\ \A e \in Seqs : kindOf[e] # None => kindOf'[e] = kindOf[e]
            /\ \A p \in Processors, e \in Seqs : <<e, p>> \in mapping' =>
                    <<e, p>> \in mapping \/ (e = th[t].seq /\ kindOf'[e] \in Wants[p])
            /\ \A p \in Processors :
                    /\ \A e \in EventsOf(p)' : e \in EventsOf(p) \/ (e = d.seq /\ p \in d.todo)
                    /\ p \in th[t].todo => \/ p \in d.todo /\ d.seq = th[t].seq
                                           \/ th[t].seq \notin EventsOf(p)'
            /\ RealOK(d)'
    PROVE  CInv'
<1>1. \A p \in Processors : ~Serves(th[t], p) /\ ~Serves(d, p)
  BY DEF Serves
<1>2. ASSUME Steady', NEW p \in Processors PROVE CountStep(t, p)
  <2>1. /\ \A e \in EventsOf(p)' : e \in EventsOf(p) \/ (e = th'[t].seq /\ Waits(th'[t], p))
        /\ Waits(th[t], p) => \/ Waits(th'[t], p) /\ th'[t].seq = th[t].seq
                              \/ th[t].seq \notin EventsOf(p)'
    BY <1>1, <1>2 DEF Waits
  <2>2. Backlog(p)' \subseteq Backlog(p)
    BY <2>1, BacklogShrinks
  <2> QED
    BY <1>1, <2>2 DEF CountStep
<1>3. Steady' => RealOK(th[t])'
  BY DEF RealOK
<1> QED
  BY <1>2, <1>3, CStepKeeps DEF CStep

--------------------------------------------------------------------------------
(* The actions.                                                                 *)

\* How a thread goes on from c to d: to another place, or to the rest of its snapshot.
NextTo(c, d, o) ==
    /\ d \in ThreadStates /\ ShapeOK(d) /\ ~Locked(d) /\ d.mode = "none"
    /\ d.todo \subseteq c.todo \ {o}
    /\ \A p \in c.todo \ {o} : p \in d.todo /\ d.seq = c.seq

LEMMA IdleShape ==
    ShapeOK(IdleThread) /\ ~Locked(IdleThread) /\ IdleThread.mode = "none" /\ IdleThread.todo = {}
BY DEF ShapeOK, Locked, IdleThread

LEMMA NextGoes ==
    ASSUME IInv, NEW t \in Threads, NEW o, NextObserver(t, o)
    PROVE  \E d : NextTo(th[t], d, o) /\ th'[t] = d /\ OthersStay(t)
<1>0. PICK c \in ThreadStates : c = th[t]
  BY Parts
<1>1. PICK d : d = NextRecord(c, o)
  OBVIOUS
<1>2. th'[t] = d /\ OthersStay(t)
  BY <1>0, <1>1, Parts DEF NextObserver, NextRecord, OthersStay
<1>3. CASE c.todo \subseteq {o}
  <2>1. d = IdleThread
    BY <1>1, <1>3 DEF NextRecord
  <2> QED
    BY <1>0, <1>2, <1>3, <2>1, IdleShape, IdleRecord DEF NextTo
<1>4. CASE ~(c.todo \subseteq {o})
  <2>1. d = [c EXCEPT !.pc = "send", !.mode = "none", !.cur = None, !.todo = c.todo \ {o},
                      !.batch = {}, !.del = {}]
    BY <1>1, <1>4 DEF NextRecord
  <2>2. d \in ThreadStates
    BY <2>1 DEF ThreadStates, Pcs, Modes
  <2>3. d.pc = "send" /\ d.mode = "none" /\ d.todo = c.todo \ {o} /\ d.seq = c.seq
    BY <2>1 DEF ThreadStates
  <2> QED
    BY <1>0, <1>2, <2>2, <2>3 DEF NextTo, ShapeOK, Locked
<1> QED
  BY <1>3, <1>4

LEMMA GotoGoes ==
    ASSUME IInv, NEW t \in Threads, NEW pc \in Pcs, Goto(t, pc)
    PROVE  \E d : MovedTo(th[t], d, pc) /\ th'[t] = d /\ OthersStay(t)
<1>1. PICK d : MovedTo(th[t], d, pc) /\ th' = [th EXCEPT ![t] = d]
  BY GotoMoves, Parts
<1> QED
  BY <1>1, Parts DEF OthersStay

LEMMA MovedShape ==
    ASSUME NEW c, ShapeOK(c), NEW pc, NEW d, MovedTo(c, d, pc),
           pc \in {"idle", "rmmap", "rmrow", "rmmem", "rmseq"} => c.todo = {},
           pc = "publish" => c.mode \in {"startup", "replay"},
           pc \notin {"report", "unmap", "purge", "erase"} => c.mode # "real"
    PROVE  ShapeOK(d)
BY DEF ShapeOK, MovedTo

\* What the invariants say of one thread.
LEMMA CountParts ==
    ASSUME IInv, OInv, CInv, NEW t \in Threads
    PROVE  /\ th[t] \in ThreadStates /\ LocalOK(th[t]) /\ PlaceOK(th[t]) /\ KindOK(th[t])
           /\ ShapeOK(th[t]) /\ th \in [Threads -> ThreadStates]
           /\ \A p \in Processors : Serves(th[t], p) => NobodyElse(t, p)
<1>1. \A p \in Processors : Serves(th[t], p) => NobodyElse(t, p)
  BY DEF OInv, LInv, MutexOK, Serves, NobodyElse
<1> QED
  BY <1>1, ThreadParts DEF CInv

\* The rest of a snapshot, after an observer that was not mapped to the event.
LEMMA NextCounts ==
    ASSUME IInv, OInv, CInv, NEW t \in Threads, NEW o, NextObserver(t, o), ~Locked(th[t]),
           row' = row, UNCHANGED <<kindOf, mapping>>, events' \subseteq events,
           Steady' => Steady /\ (o \in Processors /\ o \in th[t].todo => th[t].seq \notin EventsOf(o))
    PROVE  CInv'
<1>1. PICK d : NextTo(th[t], d, o) /\ th'[t] = d /\ OthersStay(t)
  BY NextGoes
<1>2. \A p : EventsOf(p)' \subseteq EventsOf(p)
  BY DEF EventsOf
<1>3. RealOK(d)'
  BY <1>1 DEF NextTo, RealOK
<1>4. ASSUME Steady', NEW p \in Processors, p \in th[t].todo
      PROVE  (p \in d.todo /\ d.seq = th[t].seq) \/ th[t].seq \notin EventsOf(p)'
  <2>1. CASE p = o
    BY <1>2, <1>4, <2>1
  <2>2. CASE p # o
    BY <1>1, <1>4, <2>2 DEF NextTo
  <2> QED
    BY <2>1, <2>2
<1> QED
  BY <1>1, <1>2, <1>3, <1>4, AsideCounts DEF NextTo

\* Another place, without a lock.
LEMMA MoveCounts ==
    ASSUME IInv, OInv, CInv, NEW t \in Threads, NEW pc \in Pcs, Goto(t, pc), ~Locked(th[t]),
           row' = row, kindOf' = kindOf, mapping' \subseteq mapping, events' \subseteq events,
           pc \notin {"report", "reset"},
           pc \in {"idle", "rmmap", "rmrow", "rmmem", "rmseq"} => th[t].todo = {},
           pc = "publish" => th[t].mode \in {"startup", "replay"},
           th[t].mode = "real" =>
                \/ pc = "unmap"
                \/ pc = "purge" /\ \A p \in Processors : th[t].cur = p => <<th[t].seq, p>> \notin mapping',
           th[t].pc = "startup" => pc = "publish",
           pc \in {"unmap", "purge", "erase"} => th[t].pc \in {"report", "unmap", "purge", "erase"},
           Steady' => Steady
    PROVE  CInv'
<1>0. /\ ShapeOK(th[t]) /\ LocalOK(th[t]) /\ th[t] \in ThreadStates
  BY CountParts
<1>1. PICK d : MovedTo(th[t], d, pc) /\ th'[t] = d /\ OthersStay(t)
  BY GotoGoes
<1>2. ShapeOK(d)
  BY <1>0, <1>1, MovedShape
<1>3. ~Locked(d) /\ d.todo = th[t].todo /\ d.seq = th[t].seq
  BY <1>1 DEF Locked, MovedTo
<1>4. \A p : EventsOf(p)' \subseteq EventsOf(p)
  BY DEF EventsOf
<1>5. RealOK(d)'
  <2> SUFFICES ASSUME th[t].mode = "real", pc \in {"purge", "erase"}, th[t].seq # 0
               PROVE  <<th[t].seq, th[t].cur>> \notin mapping'
    BY <1>1 DEF RealOK, MovedTo
  <2>1. th[t].cur \in Processors
    BY <1>0 DEF ShapeOK, LocalOK
  <2> QED
    BY <2>1
<1> QED
  BY <1>1, <1>2, <1>3, <1>4, <1>5, AsideCounts

\* The end of a batch reported in real time, or received.
LEMMA AfterAsideCounts ==
    ASSUME IInv, OInv, CInv, NEW t \in Threads, AfterBatch(t), ~Locked(th[t]),
           th[t].pc \in {"unmap", "purge", "erase"},
           row' = row, UNCHANGED <<kindOf, mapping>>, events' \subseteq events,
           Steady' => Steady /\ (th[t].mode = "real" => th[t].pc \in {"purge", "erase"})
    PROVE  CInv'
<1>0. ShapeOK(th[t]) /\ LocalOK(th[t]) /\ PlaceOK(th[t]) /\ th[t] \in ThreadStates
  BY CountParts
<1>1. CASE th[t].mode = "real"
  <2>1. ASSUME Steady' PROVE th[t].seq \notin EventsOf(th[t].cur)
    <3>1. RealOK(th[t]) /\ th[t].pc \in {"purge", "erase"}
      BY <1>1, <2>1 DEF CInv
    <3>2. EventsOf(th[t].cur) \subseteq Seqs /\ 0 \notin Seqs
      BY BacklogFinite, BoundsAssumption DEF Seqs
    <3> QED
      BY <1>1, <3>1, <3>2 DEF RealOK, EventsOf
  <2> QED
    BY <1>1, <2>1, NextCounts DEF AfterBatch
<1>2. CASE th[t].mode # "real"
  <2>1. th[t].mode \in {"receive", "replay"}
    BY <1>0, <1>2 DEF PlaceOK, Locked, ThreadStates, Modes
  <2>2. Goto(t, "receive") /\ "receive" \in Pcs
    BY <1>2, <2>1 DEF AfterBatch, Pcs
  <2> QED
    BY <1>2, <2>2, MoveCounts
<1> QED
  BY <1>1, <1>2

\* A thread without a snapshot, and without a lock.
LEMMA EmptyCounts ==
    ASSUME IInv, OInv, CInv, NEW t \in Threads, NEW d, th'[t] = d, OthersStay(t),
           th[t].todo = {}, ~Locked(th[t]), ~Locked(d), ShapeOK(d), d.mode # "real",
           row' = row, kindOf' = kindOf, mapping' \subseteq mapping, events' \subseteq events,
           Steady' => Steady
    PROVE  CInv'
<1>1. \A p : EventsOf(p)' \subseteq EventsOf(p)
  BY DEF EventsOf
<1>2. RealOK(d)'
  BY DEF RealOK
<1> QED
  BY <1>1, <1>2, AsideCounts

\* A thread that has a part in one processor, before or after.
LEMMA OneCounts ==
    ASSUME IInv, OInv, CInv, NEW t \in Threads, NEW d, th'[t] = d, OthersStay(t),
           ShapeOK(d), d.mode # "real", NEW p \in Processors,
           kindOf' = kindOf, mapping' \subseteq mapping, events' \subseteq events,
           \A q \in Processors \ {p} :
                /\ ~Serves(th[t], q) /\ ~Serves(d, q) /\ row'[q] = row[q]
                /\ q \in th[t].todo => q \in d.todo /\ d.seq = th[t].seq,
           Steady' => /\ Steady /\ NobodyElse(t, p)
                      /\ IF Serves(d, p) THEN Backlog(p)' \subseteq Hand(d)
                         ELSE Cardinality(Backlog(p)') <= row'[p]
    PROVE  CInv'
<1>1. \A q : EventsOf(q)' \subseteq EventsOf(q)
  BY DEF EventsOf
<1>2. RealOK(th[t])'
  BY DEF RealOK
<1>3. ASSUME Steady', NEW q \in Processors PROVE CountStep(t, q)
  <2>1. CASE q = p
    BY <1>3, <2>1 DEF CountStep
  <2>2. CASE q # p
    <3>1. Waits(th[t], q) => Waits(th'[t], q) /\ th'[t].seq = th[t].seq
      BY <2>2 DEF Waits
    <3>2. Backlog(q)' \subseteq Backlog(q)
      BY <1>1, <3>1, BacklogShrinks
    <3> QED
      BY <2>2, <3>2 DEF CountStep
  <2> QED
    BY <2>1, <2>2
<1> QED
  BY <1>2, <1>3, CStepKeeps DEF CStep

\* Who goes on serving a processor keeps its events in hand, or has unmapped them.
LEMMA ServeCounts ==
    ASSUME IInv, OInv, CInv, NEW t \in Threads, NEW d, th'[t] = d, OthersStay(t), Locked(th[t]),
           d.cur = th[t].cur, d.mode = th[t].mode, d.todo = th[t].todo, d.seq = th[t].seq,
           d.pc \in {"report", "unmap", "purge", "erase", "reset"},
           row' = row, kindOf' = kindOf, mapping' \subseteq mapping, events' \subseteq events,
           \A e \in Hand(th[t]) : e \in Hand(d) \/ <<e, d.cur>> \notin mapping',
           Steady' => Steady
    PROVE  CInv'
<1>0. ShapeOK(th[t]) /\ PlaceOK(th[t])
  BY CountParts
<1>1. PICK p \in Processors : p = th[t].cur
  BY <1>0 DEF Locked, PlaceOK
<1>2. Serves(th[t], p) /\ Serves(d, p) /\ ShapeOK(d) /\ d.mode # "real"
  BY <1>0, <1>1 DEF Serves, Locked, ShapeOK
<1>3. \A q \in Processors \ {p} : ~Serves(th[t], q) /\ ~Serves(d, q)
  BY <1>1 DEF Serves
<1>4. ASSUME Steady' PROVE Backlog(p)' \subseteq Hand(d)
  <2>1. \A e \in EventsOf(p)' : e \in EventsOf(p) /\ <<e, p>> \in mapping'
    BY DEF EventsOf
  <2>2. Backlog(p)' \subseteq Backlog(p)
    BY <1>2, <2>1, BacklogShrinks DEF Waits
  <2>3. Backlog(p) \subseteq Hand(th[t])
    BY <1>2, <1>4 DEF CInv, CountedAt
  <2>4. \A e \in Backlog(p)' : <<e, p>> \in mapping'
    BY <2>1 DEF Backlog
  <2> QED
    BY <1>1, <2>2, <2>3, <2>4
<1>5. NobodyElse(t, p)
  BY <1>2, CountParts
<1> QED
  BY <1>2, <1>3, <1>4, <1>5, OneCounts

LEMMA AfterServeCounts ==
    ASSUME IInv, OInv, CInv, NEW t \in Threads, AfterBatch(t), Locked(th[t]),
           th[t].pc \in {"purge", "erase"},
           row' = row, UNCHANGED <<kindOf, mapping>>, events' \subseteq events, Steady' => Steady
    PROVE  CInv'
<1>1. Goto(t, "reset") /\ "reset" \in Pcs
  BY DEF AfterBatch, Locked, Pcs
<1>2. PICK d : MovedTo(th[t], d, "reset") /\ th'[t] = d /\ OthersStay(t)
  BY <1>1, GotoGoes
<1>3. Hand(th[t]) = {}
  BY DEF Hand
<1> QED
  BY <1>2, <1>3, ServeCounts DEF MovedTo

--------------------------------------------------------------------------------
LEMMA CHandleEvents ==
    ASSUME IInv, OInv, CInv, NEW t \in Threads, NEW k \in Kinds, HandleEvents(t, k)
    PROVE  CInv'
<1>1. PICK d : d = [IdleThread EXCEPT !.pc = "insert", !.kind = k, !.todo = live, !.stubs = stub]
  OBVIOUS
<1>2. /\ d.pc = "insert" /\ d.mode = "none" /\ th' = [th EXCEPT ![t] = d] /\ th[t].pc = "idle"
      /\ UNCHANGED <<db, mem, crashes, faults>>
  BY <1>1 DEF HandleEvents, IdleThread
<1>3. th'[t] = d /\ OthersStay(t) /\ th[t].todo = {}
  BY <1>2, CountParts DEF OthersStay, ShapeOK
<1>4. ShapeOK(d) /\ ~Locked(d) /\ ~Locked(th[t])
  BY <1>2 DEF ShapeOK, Locked
<1> QED
  BY <1>2, <1>3, <1>4, EmptyCounts DEF db, mem, Steady

LEMMA CInsertEvent ==
    ASSUME IInv, OInv, CInv, NEW t \in Threads, InsertEvent(t)
    PROVE  CInv'
<1>0. /\ th[t] \in ThreadStates /\ LocalOK(th[t]) /\ ShapeOK(th[t]) /\ th[t].pc = "insert"
      /\ UNCHANGED <<mapping, observers, mem, begun, crashes, acked>>
      /\ th \in [Threads -> ThreadStates] /\ ~Locked(th[t]) /\ th[t].mode # "real"
  BY CountParts DEF InsertEvent, Locked, ShapeOK
<1>1. CASE Fault /\ Goto(t, "map") /\ UNCHANGED <<events, kindOf>>
  BY <1>0, <1>1, FaultIsSeen, MoveCounts DEF mem, Pcs
<1>2. CASE /\ NextSeq <= MaxEvents /\ events' = events \cup {NextSeq}
           /\ kindOf' = [kindOf EXCEPT ![NextSeq] = th[t].kind]
           /\ th' = [th EXCEPT ![t].pc = "map", ![t].seq = NextSeq] /\ UNCHANGED faults
  <2>1. PICK n : n = NextSeq
    OBVIOUS
  <2>2. n \in Seqs /\ n # 0 /\ kindOf[n] = None
    BY <1>2, <2>1, NextSeqFresh
  <2>3. PICK d : d = [th[t] EXCEPT !.pc = "map", !.seq = n]
    OBVIOUS
  <2>4. d.pc = "map" /\ d.mode = th[t].mode /\ d.todo = th[t].todo
    BY <1>0, <2>3 DEF ThreadStates
  <2>5. th'[t] = d /\ OthersStay(t)
    BY <1>0, <1>2, <2>1, <2>3 DEF OthersStay, ThreadStates
  <2>6. \A e \in Seqs : kindOf[e] # None => kindOf'[e] = kindOf[e]
    BY <1>2, <2>1, <2>2, Parts DEF MemOK
  <2>7. ASSUME NEW p, <<n, p>> \in mapping PROVE FALSE
    <3>1. <<n, p>>[1] = n
      OBVIOUS
    <3> QED
      BY <2>2, <2>7, <3>1, Parts DEF JInv, PendingEventsStored, Known
  <2>8. \A p : EventsOf(p)' \subseteq EventsOf(p)
    BY <1>0, <1>2, <2>1, <2>7 DEF EventsOf
  <2>9. \A p : th[t].seq \notin EventsOf(p)'
    BY <1>0, <2>8, BacklogFinite, BoundsAssumption DEF LocalOK, Seqs
  <2>10. ShapeOK(d) /\ ~Locked(d) /\ RealOK(d)'
    BY <1>0, <2>4 DEF ShapeOK, Locked, RealOK
  <2> QED
    BY <1>0, <1>2, <2>5, <2>6, <2>8, <2>9, <2>10, AsideCounts DEF mem, Steady
<1> QED
  BY <1>1, <1>2 DEF InsertEvent

LEMMA CInsertEventMapping ==
    ASSUME IInv, OInv, CInv, NEW t \in Threads, InsertEventMapping(t)
    PROVE  CInv'
<1>0. /\ th[t] \in ThreadStates /\ KindOK(th[t]) /\ ShapeOK(th[t]) /\ th[t].pc = "map"
      /\ Goto(t, "send") /\ "send" \in Pcs /\ ~Locked(th[t]) /\ th[t].mode # "real"
      /\ UNCHANGED <<events, kindOf, observers, mem, begun, crashes, acked>>
  BY CountParts DEF InsertEventMapping, Pcs, Locked, ShapeOK
<1>1. CASE Fault /\ UNCHANGED mapping
  BY <1>0, <1>1, FaultIsSeen, MoveCounts DEF mem
<1>2. CASE mapping' = mapping \cup NewRows(th[t]) /\ UNCHANGED faults
  <2>1. PICK d : MovedTo(th[t], d, "send") /\ th'[t] = d /\ OthersStay(t)
    BY <1>0, GotoGoes
  <2>2. ShapeOK(d) /\ ~Locked(d) /\ RealOK(d)' /\ d.todo = th[t].todo /\ d.seq = th[t].seq
    BY <1>0, <2>1, MovedShape DEF MovedTo, Locked, RealOK
  <2>3. ASSUME NEW p \in Processors, NEW e \in Seqs, <<e, p>> \in NewRows(th[t])
        PROVE  e = th[t].seq /\ p \in th[t].todo /\ kindOf[e] \in Wants[p]
    <3>1. PICK o \in th[t].todo : <<e, p>> = <<th[t].seq, GetSeq(o)>> /\ th[t].kind \in Wants[o]
      BY <2>3 DEF NewRows
    <3>2. o = p
      BY <3>1, ThreadsAndNone DEF GetSeq
    <3> QED
      BY <1>0, <3>1, <3>2, BoundsAssumption DEF KindOK, Seqs
  <2>4. ASSUME NEW p \in Processors, NEW e \in EventsOf(p)'
        PROVE  e \in EventsOf(p) \/ (e = d.seq /\ p \in d.todo)
    <3>1. e \in events /\ e \in Seqs /\ <<e, p>> \in mapping'
      BY <1>0, <2>4, Parts DEF EventsOf, IInv, TypeOK
    <3> QED
      BY <1>2, <2>2, <2>3, <3>1 DEF EventsOf
  <2>5. Steady' => Steady
    BY <1>0, <1>2 DEF Steady
  <2>6. \A p \in Processors, e \in Seqs : <<e, p>> \in mapping' =>
            <<e, p>> \in mapping \/ (e = th[t].seq /\ kindOf'[e] \in Wants[p])
    BY <1>0, <1>2, <2>3
  <2> QED
    BY <1>0, <2>1, <2>2, <2>4, <2>5, <2>6, AsideCounts DEF mem
<1> QED
  BY <1>0, <1>1, <1>2 DEF InsertEventMapping, NewRows

LEMMA CSkipObserver ==
    ASSUME IInv, OInv, CInv, NEW t \in Threads, NEW o \in Observers, SkipObserver(t, o)
    PROVE  CInv'
<1>0. /\ th[t] \in ThreadStates /\ KindOK(th[t]) /\ th[t].pc = "send" /\ NextObserver(t, o)
      /\ UNCHANGED <<db, mem, begun, crashes, faults, acked>>
      /\ th[t].kind \notin Wants[o] \/ o \in th[t].stubs
  BY CountParts DEF SkipObserver, MayVisit
<1>1. ASSUME Steady, o \in Processors, th[t].seq \in EventsOf(o) PROVE FALSE
  <2>1. th[t].kind \notin Wants[o]
    BY <1>0, <1>1, ObserversAssumption DEF ThreadStates
  <2>2. EventsOf(o) \subseteq Seqs /\ 0 \notin Seqs
    BY BacklogFinite, BoundsAssumption DEF Seqs
  <2>3. th[t].seq \in Seqs /\ th[t].seq # 0
    BY <1>1, <2>2
  <2>4. <<th[t].seq, o>> \in mapping
    BY <1>1 DEF EventsOf
  <2> QED
    BY <1>0, <1>1, <2>1, <2>3, <2>4 DEF CInv, WantedOK, KindOK
<1>2. ~Locked(th[t]) /\ (Steady' => Steady)
  BY <1>0 DEF Locked, Steady
<1> QED
  BY <1>0, <1>1, <1>2, NextCounts DEF db, mem

LEMMA CSend ==
    ASSUME IInv, OInv, CInv, NEW t \in Threads, NEW o \in Observers,
           \/ o \in Watchers /\ SendToWatcher(t, o)
           \/ o \in Processors /\ SendRealTime(t, o)
    PROVE  CInv'
<1>0. /\ th[t] \in ThreadStates /\ th[t].pc = "send"
      /\ UNCHANGED <<db, mem, begun, crashes, faults, acked>>
      /\ th \in [Threads -> ThreadStates]
  BY CountParts DEF SendToWatcher, SendRealTime, MayVisit
<1>1. PICK pc \in {"unmap", "report"}, mode \in {"receive", "real"} :
        th' = [th EXCEPT ![t].pc = pc, ![t].mode = mode, ![t].cur = o, ![t].batch = {th[t].seq}]
  BY DEF SendToWatcher, SendRealTime
<1>2. PICK d : d = [th[t] EXCEPT !.pc = pc, !.mode = mode, !.cur = o, !.batch = {th[t].seq}]
  OBVIOUS
<1>3. /\ d.pc = pc /\ d.mode = mode /\ d.batch = {th[t].seq}
      /\ d.seq = th[t].seq /\ d.todo = th[t].todo
  BY <1>0, <1>2 DEF ThreadStates
<1>4. th'[t] = d /\ OthersStay(t)
  BY <1>0, <1>1, <1>2 DEF ThreadStates, OthersStay
<1>5. ShapeOK(d) /\ ~Locked(d) /\ ~Locked(th[t]) /\ RealOK(d)'
  BY <1>0, <1>3 DEF ShapeOK, Locked, RealOK
<1>6. \A p : EventsOf(p)' = EventsOf(p)
  BY <1>0 DEF EventsOf, db
<1> QED
  BY <1>0, <1>3, <1>4, <1>5, <1>6, AsideCounts DEF db, mem, Steady

LEMMA CTrigger ==
    ASSUME IInv, OInv, CInv, Patient, NEW t \in Threads, NEW p \in Processors,
           NEW mode \in {"trigger", "startup"}, Trigger(t, p, mode), NobodyElse(t, p),
           th[t].pc \in {"idle", "send", "startup"}, mode = "startup" => th[t].mode = "startup",
           UNCHANGED <<db, live, stub, zeroed, removed, begun, crashes, acked>>
    PROVE  CInv'
<1>0. /\ th[t] \in ThreadStates /\ ShapeOK(th[t]) /\ th \in [Threads -> ThreadStates]
      /\ QueryEvents(p) = EventsOf(p) /\ EventsOf(p)' = EventsOf(p)
  BY CountParts, QueriesReadAll DEF EventsOf, db
<1>1. PICK E \in {{}, EventsOf(p)} :
        /\ OnTrigger(t, p, mode, E)
        /\ \/ faults' = faults /\ E = EventsOf(p)
           \/ ~Steady'
  BY <1>0, FaultIsSeen DEF Trigger
<1>2. /\ \A q : ~Serves(th[t], q)
      /\ Steady' => Steady /\ E = EventsOf(p)
  BY <1>1 DEF Serves, Locked, Steady
<1>3. CASE E = {}
  <2>1. /\ row' = [row EXCEPT ![p] = 0]
        /\ IF mode = "startup" THEN Goto(t, "publish") ELSE NextObserver(t, p)
    BY <1>1, <1>3 DEF OnTrigger
  <2>2. PICK d : /\ th'[t] = d /\ OthersStay(t) /\ ShapeOK(d) /\ ~Locked(d) /\ d.mode # "real"
                 /\ \A q \in th[t].todo \ {p} : q \in d.todo /\ d.seq = th[t].seq
    <3>1. CASE mode = "startup"
      <4>1. PICK d : MovedTo(th[t], d, "publish") /\ th'[t] = d /\ OthersStay(t)
        BY <2>1, <3>1, GotoGoes DEF Pcs
      <4>2. ShapeOK(d)
        BY <1>0, <3>1, <4>1, MovedShape
      <4> QED
        BY <3>1, <4>1, <4>2 DEF MovedTo, Locked
    <3>2. CASE mode # "startup"
      BY <2>1, <3>2, NextGoes DEF NextTo
    <3> QED
      BY <3>1, <3>2
  <2>3. row'[p] = 0 /\ \A q \in Processors \ {p} : row'[q] = row[q]
    BY <2>1, Parts DEF MemOK
  <2>4. Steady' => Cardinality(Backlog(p)') <= row'[p]
    <3>1. ASSUME Steady' PROVE Backlog(p)' = {}
      BY <1>0, <1>2, <1>3, <3>1 DEF Backlog
    <3> QED
      BY <2>3, <3>1, FS_EmptySet
  <2>5. \A q : ~Serves(d, q)
    BY <2>2 DEF Serves
  <2> QED
    BY <1>2, <2>2, <2>3, <2>4, <2>5, OneCounts DEF db
<1>4. CASE E # {}
  <2>1. /\ th' = [th EXCEPT ![t].pc = "report", ![t].mode = mode, ![t].cur = p, ![t].batch = E]
        /\ row' = row
    BY <1>1, <1>4 DEF OnTrigger
  <2>2. PICK d : d = [th[t] EXCEPT !.pc = "report", !.mode = mode, !.cur = p, !.batch = E]
    OBVIOUS
  <2>3. /\ d.pc = "report" /\ d.mode = mode /\ d.cur = p /\ d.batch = E
        /\ d.seq = th[t].seq /\ d.todo = th[t].todo
    BY <1>0, <2>2 DEF ThreadStates
  <2>4. th'[t] = d /\ OthersStay(t)
    BY <1>0, <2>1, <2>2 DEF OthersStay, ThreadStates
  <2>5. ShapeOK(d) /\ \A q : Serves(d, q) <=> q = p
    BY <1>0, <2>3 DEF ShapeOK, Serves, Locked
  <2>6. Steady' => Backlog(p)' \subseteq Hand(d)
    BY <1>0, <1>2, <2>3 DEF Backlog, Hand
  <2> QED
    BY <1>2, <2>1, <2>3, <2>4, <2>5, <2>6, OneCounts DEF db
<1> QED
  BY <1>3, <1>4

LEMMA CProcessEvent ==
    ASSUME IInv, OInv, CInv, Patient, NEW t \in Threads, NEW p \in Processors,
           ProcessEvent(t, p) \/ TriggerBatch(t, p)
    PROVE  CInv'
<1>1. /\ th[t].pc \in {"idle", "send"} /\ NobodyElse(t, p)
      /\ UNCHANGED <<db, live, stub, zeroed, removed, begun, crashes, acked>>
  BY FreeLock DEF ProcessEvent, TriggerBatch, MayVisit
<1>2. CASE Trigger(t, p, "trigger")
  BY <1>1, <1>2, CTrigger
<1>3. CASE row' = [row EXCEPT ![p] = @ + 1] /\ NextObserver(t, p) /\ UNCHANGED <<condMutex, faults>>
  <2>1. PICK d : NextTo(th[t], d, p) /\ th'[t] = d /\ OthersStay(t)
    BY <1>3, NextGoes
  <2>2. \A q : ~Serves(th[t], q) /\ ~Serves(d, q)
    BY <1>1, <2>1 DEF Serves, Locked, NextTo
  <2>3. /\ row[p] \in Nat /\ row'[p] = row[p] + 1
        /\ \A q \in Processors \ {p} : row'[q] = row[q]
    BY <1>3, Parts DEF MemOK
  <2>4. Steady' => Steady
    BY <1>1, <1>3 DEF Steady
  <2>5. Backlog(p)' \subseteq Backlog(p) \cup {th[t].seq}
    <3> SUFFICES ASSUME NEW e \in Backlog(p)', e \notin Backlog(p) PROVE e = th[t].seq
      OBVIOUS
    <3>1. e \in EventsOf(p)' /\ \A u \in Threads : Waits(th'[u], p) => e # th'[u].seq
      BY DEF Backlog
    <3>2. e \in EventsOf(p)
      BY <1>1, <3>1 DEF EventsOf, db
    <3>3. PICK u \in Threads : Waits(th[u], p) /\ e = th[u].seq
      BY <3>2 DEF Backlog
    <3> QED
      BY <2>1, <3>1, <3>3 DEF OthersStay
  <2>6. ASSUME Steady' PROVE Cardinality(Backlog(p)') <= row'[p]
    <3>1. Cardinality(Backlog(p)) <= row[p]
      <4>1. \A u \in Threads : ~Serves(th[u], p)
        BY <1>1, <2>2 DEF NobodyElse, Serves
      <4> QED
        BY <2>4, <2>6, <4>1 DEF CInv, CountedAt
    <3>2. IsFiniteSet(Backlog(p)) /\ Cardinality(Backlog(p)) \in Nat
      BY BacklogFinite
    <3>3. PICK B : B = Backlog(p) \cup {th[t].seq}
      OBVIOUS
    <3>4. IsFiniteSet(B) /\ Cardinality(B) \in Nat /\ Cardinality(B) <= Cardinality(Backlog(p)) + 1
      BY <3>2, <3>3, FS_AddElement, SMTT(20)
    <3>5. Cardinality(Backlog(p)') \in Nat /\ Cardinality(Backlog(p)') <= Cardinality(B)
      BY <2>5, <3>3, <3>4, FS_Subset, FS_CardinalityType
    <3> QED
      BY <2>3, <3>1, <3>2, <3>4, <3>5
  <2>7. \A q \in th[t].todo \ {p} : q \in d.todo /\ d.seq = th[t].seq
    BY <2>1 DEF NextTo
  <2>8. ShapeOK(d) /\ d.mode # "real"
    BY <2>1 DEF NextTo
  <2> QED
    BY <1>1, <2>1, <2>2, <2>3, <2>4, <2>6, <2>7, <2>8, OneCounts DEF db
<1> QED
  BY <1>2, <1>3 DEF ProcessEvent, TriggerBatch

LEMMA COnReport ==
    ASSUME IInv, OInv, CInv, Patient, NEW t \in Threads, OnReport(t)
    PROVE  CInv'
<1>1. /\ th[t].pc = "report" /\ Goto(t, "unmap") /\ "unmap" \in Pcs
      /\ UNCHANGED <<db, mem, begun, crashes, faults>>
  BY DEF OnReport, Patient, Pcs
<1>2. Steady' => Steady
  BY <1>1 DEF Steady
<1>3. CASE Locked(th[t])
  <2>1. PICK d : MovedTo(th[t], d, "unmap") /\ th'[t] = d /\ OthersStay(t)
    BY <1>1, GotoGoes
  <2>2. Hand(th[t]) = Hand(d)
    BY <1>1, <2>1 DEF Hand, MovedTo
  <2> QED
    BY <1>1, <1>2, <1>3, <2>1, <2>2, ServeCounts DEF MovedTo, db, mem
<1>4. CASE ~Locked(th[t])
  BY <1>1, <1>2, <1>4, MoveCounts DEF db, mem
<1> QED
  BY <1>3, <1>4

LEMMA AfterBatchShape ==
    ASSUME IInv, OInv, CInv, NEW t \in Threads, AfterBatch(t),
           th[t].pc \in {"unmap", "purge", "erase"}
    PROVE  OthersStay(t) /\ ShapeOK(th'[t])
<1>0. ShapeOK(th[t])
  BY CountParts
<1>1. CASE th[t].mode = "real"
  BY <1>1, NextGoes DEF AfterBatch, NextTo
<1>2. CASE th[t].mode # "real"
  <2>1. PICK pc \in {"receive", "reset"} : Goto(t, pc)
    BY <1>2 DEF AfterBatch
  <2>2. PICK d : MovedTo(th[t], d, pc) /\ th'[t] = d /\ OthersStay(t)
    BY <2>1, GotoGoes DEF Pcs
  <2> QED
    BY <1>0, <1>2, <2>2, MovedShape
<1> QED
  BY <1>1, <1>2

LEMMA CDeleteEventMapping ==
    ASSUME IInv, OInv, CInv, NEW t \in Threads, DeleteEventMapping(t)
    PROVE  CInv'
<1>0. /\ th[t].pc = "unmap" /\ ShapeOK(th[t])
      /\ UNCHANGED <<events, kindOf, observers, mem, begun, crashes, acked>>
  BY CountParts DEF DeleteEventMapping
<1>1. CASE Fault /\ AfterBatch(t)
  BY <1>0, <1>1, FaultIsSeen, AfterBatchShape, FaultCounts
<1>2. CASE /\ mapping' = mapping \ MappingRows(th[t].cur, th[t].batch)
           /\ Goto(t, "purge") /\ UNCHANGED faults
  <2>1. mapping' \subseteq mapping /\ (Steady' => Steady)
    BY <1>0, <1>2 DEF Steady
  <2>2. ASSUME NEW e \in th[t].batch PROVE <<e, th[t].cur>> \notin mapping'
    <3>1. <<e, th[t].cur>>[1] = e /\ <<e, th[t].cur>>[2] = th[t].cur
      OBVIOUS
    <3> QED
      BY <1>2, <3>1 DEF MappingRows
  <2>3. CASE Locked(th[t])
    <3>1. PICK d : MovedTo(th[t], d, "purge") /\ th'[t] = d /\ OthersStay(t)
      BY <1>2, GotoGoes DEF Pcs
    <3>2. \A e \in Hand(th[t]) : <<e, d.cur>> \notin mapping'
      BY <1>0, <2>2, <3>1 DEF Hand, MovedTo
    <3> QED
      BY <1>0, <2>1, <2>3, <3>1, <3>2, ServeCounts DEF MovedTo, mem
  <2>4. CASE ~Locked(th[t])
    <3>1. th[t].mode = "real" =>
            \A p \in Processors : th[t].cur = p => <<th[t].seq, p>> \notin mapping'
      BY <1>0, <2>2 DEF ShapeOK
    <3> QED
      BY <1>0, <1>2, <2>1, <2>4, <3>1, MoveCounts DEF mem, Pcs
  <2> QED
    BY <2>3, <2>4
<1> QED
  BY <1>1, <1>2 DEF DeleteEventMapping

LEMMA CQueryExistEvent ==
    ASSUME IInv, OInv, CInv, NEW t \in Threads, QueryExistEvent(t)
    PROVE  CInv'
<1>0. /\ th[t] \in ThreadStates /\ th \in [Threads -> ThreadStates] /\ ShapeOK(th[t])
      /\ th[t].pc = "purge" /\ UNCHANGED <<db, mem, begun, crashes, acked>>
  BY CountParts DEF QueryExistEvent
<1>1. CASE Fault /\ AfterBatch(t)
  BY <1>0, <1>1, FaultIsSeen, AfterBatchShape, FaultCounts
<1>2. CASE /\ th' = [th EXCEPT ![t].pc = "erase", ![t].del = UnusedEvents(th[t].batch)]
           /\ UNCHANGED faults
  <2>1. PICK d : d = [th[t] EXCEPT !.pc = "erase", !.del = UnusedEvents(th[t].batch)]
    OBVIOUS
  <2>2. /\ d.pc = "erase" /\ d.mode = th[t].mode /\ d.seq = th[t].seq /\ d.todo = th[t].todo
        /\ d.cur = th[t].cur /\ d.batch = th[t].batch
    BY <1>0, <2>1 DEF ThreadStates
  <2>3. th'[t] = d /\ OthersStay(t)
    BY <1>0, <1>2, <2>1 DEF OthersStay, ThreadStates
  <2>4. Steady' => Steady
    BY <1>0, <1>2 DEF Steady
  <2>5. CASE Locked(th[t])
    <3>1. Hand(th[t]) = {}
      BY <1>0 DEF Hand
    <3> QED
      BY <1>0, <2>2, <2>3, <2>4, <2>5, <3>1, ServeCounts DEF db, mem
  <2>6. CASE ~Locked(th[t])
    <3>1. ShapeOK(d) /\ ~Locked(d)
      BY <1>0, <2>2, <2>6 DEF ShapeOK, Locked
    <3>2. Steady' => RealOK(d)'
      BY <1>0, <2>2, <2>4 DEF CInv, RealOK, db
    <3>3. \A p : EventsOf(p)' = EventsOf(p)
      BY <1>0 DEF EventsOf, db
    <3> QED
      BY <1>0, <2>2, <2>3, <2>4, <2>6, <3>1, <3>2, <3>3, AsideCounts DEF db, mem
  <2> QED
    BY <2>5, <2>6
<1> QED
  BY <1>0, <1>1, <1>2 DEF QueryExistEvent

LEMMA CDeleteEvent ==
    ASSUME IInv, OInv, CInv, NEW t \in Threads, DeleteEvent(t)
    PROVE  CInv'
<1>1. /\ th[t].pc = "erase" /\ AfterBatch(t) /\ events' \subseteq events
      /\ UNCHANGED <<kindOf, mapping, observers, mem, begun, crashes, acked>>
  BY DEF DeleteEvent
<1>2. Steady' => Steady
  BY <1>1, FaultIsSeen DEF DeleteEvent, Steady
<1> QED
  BY <1>1, <1>2, AfterServeCounts, AfterAsideCounts DEF mem

LEMMA COnReceive ==
    ASSUME IInv, OInv, CInv, NEW t \in Threads, OnReceive(t)
    PROVE  CInv'
<1>1. /\ th[t].pc = "receive" /\ th[t].cur \in Watchers /\ ~Locked(th[t]) /\ th[t].mode # "real"
      /\ UNCHANGED <<db, mem, begun, crashes, faults>>
  BY Parts, CountParts DEF OnReceive, LocalOK, Locked, ShapeOK
<1>2. Steady' => Steady
  BY <1>1 DEF Steady
<1>3. CASE th[t].mode = "replay"
  <2>1. Goto(t, "publish") /\ "publish" \in Pcs
    BY <1>3 DEF OnReceive, Pcs
  <2> QED
    BY <1>1, <1>2, <1>3, <2>1, MoveCounts DEF db, mem
<1>4. CASE th[t].mode # "replay"
  <2>1. th[t].cur \notin Processors
    BY <1>1, ObserversAssumption
  <2>2. NextObserver(t, th[t].cur)
    BY <1>4 DEF OnReceive
  <2> QED
    BY <1>1, <1>2, <2>1, <2>2, NextCounts DEF db, mem
<1> QED
  BY <1>3, <1>4

LEMMA CResetCondition ==
    ASSUME IInv, OInv, CInv, NEW t \in Threads, ResetCondition(t)
    PROVE  CInv'
<1>0. /\ th[t].pc = "reset" /\ ShapeOK(th[t]) /\ Locked(th[t])
      /\ UNCHANGED <<db, live, stub, zeroed, removed, begun, crashes, faults, acked>>
  BY CountParts DEF ResetCondition, PlaceOK, Locked
<1>1. PICK p \in Processors : p = th[t].cur
  BY <1>0, Parts DEF LocalOK
<1>2. row'[p] = 0 /\ \A q \in Processors \ {p} : row'[q] = row[q]
  BY <1>1, Parts DEF ResetCondition, MemOK
<1>3. PICK d : /\ th'[t] = d /\ OthersStay(t) /\ ShapeOK(d) /\ ~Locked(d) /\ d.mode # "real"
               /\ \A q \in th[t].todo \ {p} : q \in d.todo /\ d.seq = th[t].seq
  <2>1. CASE th[t].mode = "startup"
    <3>1. PICK d : MovedTo(th[t], d, "publish") /\ th'[t] = d /\ OthersStay(t)
      BY <2>1, GotoGoes DEF ResetCondition, Pcs
    <3>2. ShapeOK(d)
      BY <1>0, <2>1, <3>1, MovedShape
    <3> QED
      BY <2>1, <3>1, <3>2 DEF MovedTo, Locked
  <2>2. CASE th[t].mode # "startup"
    BY <1>1, <2>2, NextGoes DEF ResetCondition, NextTo
  <2> QED
    BY <2>1, <2>2
<1>4. Serves(th[t], p) /\ NobodyElse(t, p)
  BY <1>0, <1>1, CountParts DEF Serves
<1>5. \A q : ~Serves(d, q) /\ (q # p => ~Serves(th[t], q))
  BY <1>1, <1>3 DEF Serves
<1>6. Steady' => Steady
  BY <1>0 DEF Steady
<1>7. ASSUME Steady' PROVE Cardinality(Backlog(p)') <= row'[p]
  <2>1. Backlog(p) \subseteq Hand(th[t]) /\ Hand(th[t]) = {}
    BY <1>0, <1>4, <1>6, <1>7 DEF CInv, CountedAt, Hand
  <2>2. \A e \in EventsOf(p)' : e \in EventsOf(p)
    BY <1>0 DEF EventsOf, db
  <2>3. Backlog(p)' \subseteq Backlog(p)
    BY <1>3, <1>4, <2>2, BacklogShrinks DEF Waits
  <2>4. Backlog(p)' = {}
    BY <2>1, <2>3
  <2> QED
    BY <1>2, <2>4, FS_EmptySet
<1> QED
  BY <1>0, <1>2, <1>3, <1>4, <1>5, <1>6, <1>7, OneCounts DEF db

--------------------------------------------------------------------------------
(* Registration and removal.                                                    *)

LEMMA CCall ==
    ASSUME IInv, OInv, CInv, NEW t \in Threads, NEW o \in Observers,
           StoreObserver(t, o) \/ RemoveObserver(t, o) \/ (o \in Watchers /\ InitWatcherFromDb(t, o))
    PROVE  CInv'
<1>0. /\ th[t].pc = "idle" /\ th[t].todo = {} /\ ~Locked(th[t])
      /\ UNCHANGED <<events, kindOf, mapping, mem, crashes, faults>>
      /\ th \in [Threads -> ThreadStates]
  BY CountParts DEF StoreObserver, RemoveObserver, InitWatcherFromDb, ShapeOK, Locked, db
<1>1. PICK pc \in {"publish", "unmap", "rmmap"}, mode \in {"none", "replay", "startup"},
           E \in {{}, {e \in QueryEvents(o) : kindOf[e] \in Wants[o]}} :
        /\ th' = [th EXCEPT ![t] = CallFor(o, pc, mode, E)]
        /\ pc = "publish" => mode # "none"
        /\ pc = "unmap" => mode = "replay"
  <2>1. CASE StoreObserver(t, o)
    <3>1. PICK mode \in {"replay", "startup"} : th' = [th EXCEPT ![t] = CallFor(o, "publish", mode, {})]
      BY <2>1 DEF StoreObserver
    <3> QED
      BY <3>1
  <2>2. CASE RemoveObserver(t, o)
    BY <2>2 DEF RemoveObserver
  <2>3. CASE InitWatcherFromDb(t, o)
    <3>1. PICK E : E = {e \in QueryEvents(o) : kindOf[e] \in Wants[o]}
      OBVIOUS
    <3>2. PICK pc \in {"publish", "unmap"} : th' = [th EXCEPT ![t] = CallFor(o, pc, "replay", E)]
      BY <2>3, <3>1 DEF InitWatcherFromDb
    <3> QED
      BY <3>1, <3>2
  <2> QED
    BY <2>1, <2>2, <2>3
<1>2. PICK d : d = CallFor(o, pc, mode, E)
  OBVIOUS
<1>3. d.pc = pc /\ d.mode = mode /\ d.todo = {}
  BY <1>2 DEF CallFor, IdleThread
<1>4. th'[t] = d /\ OthersStay(t)
  BY <1>0, <1>1, <1>2 DEF OthersStay
<1>5. ShapeOK(d) /\ ~Locked(d) /\ d.mode # "real"
  BY <1>1, <1>3 DEF ShapeOK, Locked
<1> QED
  BY <1>0, <1>4, <1>5, EmptyCounts DEF mem, Steady

LEMMA CInitProcessorFromDb ==
    ASSUME IInv, OInv, CInv, Patient, NEW t \in Threads, NEW p \in Processors,
           InitProcessorFromDb(t, p)
    PROVE  CInv'
<1>0. /\ th[t].pc = "idle" /\ th[t].todo = {} /\ ~Locked(th[t])
      /\ NobodyBusyWith(p) /\ p \in observers \ live
      /\ row' = [row EXCEPT ![p] = Cardinality(EventsOf(p))]
      /\ th' = [th EXCEPT ![t] = CallFor(p, "startup", "startup", {})]
      /\ UNCHANGED <<db, live, stub, zeroed, removed, condMutex, begun, crashes, faults, acked>>
      /\ th \in [Threads -> ThreadStates]
  BY CountParts, QueriesReadAll DEF InitProcessorFromDb, ShapeOK, Locked
<1>1. PICK d : d = CallFor(p, "startup", "startup", {})
  OBVIOUS
<1>2. d.pc = "startup" /\ d.mode = "startup" /\ d.todo = {}
  BY <1>1 DEF CallFor, IdleThread
<1>3. th'[t] = d /\ OthersStay(t)
  BY <1>0, <1>1 DEF OthersStay
<1>4. ShapeOK(d) /\ \A q : ~Serves(d, q) /\ ~Serves(th[t], q)
  BY <1>0, <1>2 DEF ShapeOK, Serves, Locked
<1>5. row'[p] = Cardinality(EventsOf(p)) /\ \A q \in Processors \ {p} : row'[q] = row[q]
  BY <1>0, Parts DEF MemOK
<1>6. NobodyElse(t, p)
  <2> SUFFICES ASSUME NEW u \in Threads, Locked(th[u]), th[u].cur = p PROVE FALSE
    BY DEF NobodyElse
  <2>1. CASE th[u].mode = "trigger"
    BY <1>0, <2>1, CountParts DEF PlaceOK, OInv, LInv, RowsOK
  <2>2. CASE th[u].mode = "startup"
    BY <1>0, <2>2 DEF NobodyBusyWith, Registering
  <2> QED
    BY <2>1, <2>2 DEF Locked
<1>7. Cardinality(Backlog(p)') <= row'[p]
  <2>1. Backlog(p)' \subseteq EventsOf(p)
    BY <1>0 DEF Backlog, EventsOf, db
  <2>2. /\ Cardinality(Backlog(p)') \in Nat
        /\ Cardinality(Backlog(p)') <= Cardinality(EventsOf(p))
    BY <2>1, BacklogFinite, FS_Subset, FS_CardinalityType
  <2> QED
    BY <1>5, <2>2
<1>8. Steady' => Steady
  BY <1>0 DEF Steady
<1> QED
  BY <1>0, <1>2, <1>3, <1>4, <1>5, <1>6, <1>7, <1>8, OneCounts DEF db

LEMMA CProcessStartup ==
    ASSUME IInv, OInv, CInv, Patient, NEW t \in Threads, ProcessStartup(t)
    PROVE  CInv'
<1>0. /\ PlaceOK(th[t]) /\ th[t].pc = "startup" /\ th[t].mode = "startup"
      /\ UNCHANGED <<db, live, stub, zeroed, removed, begun, crashes, acked>>
  BY CountParts DEF ProcessStartup, PlaceOK
<1>1. PICK p \in Processors : p = th[t].cur
  BY <1>0 DEF PlaceOK
<1>2. CASE Trigger(t, p, "startup")
  <2>1. NobodyElse(t, p)
    <3> SUFFICES ASSUME NEW u \in Threads \ {t}, Locked(th[u]), th[u].cur = p PROVE FALSE
      BY DEF NobodyElse
    <3>1. CASE th[u].mode = "trigger"
      BY <1>0, <1>1, <3>1, CountParts DEF PlaceOK
    <3>2. CASE th[u].mode = "startup"
      BY <1>0, <1>1, <3>2 DEF OInv, LInv, AloneOK, Alone
    <3> QED
      BY <3>1, <3>2 DEF Locked
  <2> QED
    BY <1>0, <1>2, <2>1, CTrigger
<1>3. CASE Goto(t, "publish") /\ UNCHANGED <<row, condMutex, faults>>
  <2>1. ~Locked(th[t]) /\ (Steady' => Steady) /\ "publish" \in Pcs
    BY <1>0, <1>3 DEF Locked, Steady, Pcs
  <2> QED
    BY <1>0, <1>3, <2>1, MoveCounts DEF db
<1> QED
  BY <1>1, <1>2, <1>3 DEF ProcessStartup

\* A call ends.
LEMMA IdleCounts ==
    ASSUME IInv, OInv, CInv, NEW t \in Threads, th' = [th EXCEPT ![t] = IdleThread],
           th[t].todo = {}, ~Locked(th[t]), row' = row, kindOf' = kindOf,
           mapping' \subseteq mapping, events' \subseteq events, Steady' => Steady
    PROVE  CInv'
<1>1. PICK d : d = IdleThread
  OBVIOUS
<1>2. th'[t] = d /\ OthersStay(t)
  BY <1>1, CountParts DEF OthersStay
<1>3. ShapeOK(d) /\ ~Locked(d) /\ d.mode # "real"
  BY <1>1, IdleShape
<1> QED
  BY <1>2, <1>3, EmptyCounts

LEMMA CPublish ==
    ASSUME IInv, OInv, CInv, NEW t \in Threads, Publish(t)
    PROVE  CInv'
<1>1. /\ th[t].todo = {} /\ ~Locked(th[t]) /\ th' = [th EXCEPT ![t] = IdleThread]
      /\ UNCHANGED <<db, zeroed, removed, row, condMutex, begun, crashes, faults, acked>>
  BY CountParts DEF Publish, ShapeOK, Locked
<1> QED
  BY <1>1, IdleCounts DEF db, Steady

LEMMA CRemoval ==
    ASSUME IInv, OInv, CInv, NEW t \in Threads,
           \/ DeleteMappingOfObserver(t) \/ DeleteObserverRow(t)
           \/ DeleteFromMemory(t) \/ SetSeqZero(t)
    PROVE  CInv'
<1>1. /\ Removing(t) /\ UNCHANGED <<events, kindOf, row, crashes>>
      /\ mapping' \subseteq mapping
      /\ \/ \E pc \in {"rmrow", "rmmem", "rmseq"} : Goto(t, pc)
         \/ th' = [th EXCEPT ![t] = IdleThread]
  <2>1. CASE DeleteMappingOfObserver(t)
    BY <2>1 DEF DeleteMappingOfObserver, AfterRemoval, Removing, mem
  <2>2. CASE DeleteObserverRow(t)
    BY <2>2 DEF DeleteObserverRow, AfterRemoval, Removing
  <2>3. CASE DeleteFromMemory(t)
    BY <2>3 DEF DeleteFromMemory, AfterRemoval, Removing, db
  <2>4. CASE SetSeqZero(t)
    BY <2>4 DEF SetSeqZero, Removing, db
  <2> QED
    BY <2>1, <2>2, <2>3, <2>4
<1>2. th[t].todo = {} /\ ~Locked(th[t]) /\ th[t].mode # "real"
  BY <1>1, CountParts DEF Removing, ShapeOK, Locked
<1>3. Steady' => Steady
  BY <1>1, FaultIsSeen DEF DeleteMappingOfObserver, DeleteObserverRow, DeleteFromMemory,
     SetSeqZero, Steady
<1>4. ASSUME NEW pc \in {"rmrow", "rmmem", "rmseq"}, Goto(t, pc) PROVE CInv'
  <2>1. PICK d : MovedTo(th[t], d, pc) /\ th'[t] = d /\ OthersStay(t)
    BY <1>4, GotoGoes DEF Pcs
  <2>2. ShapeOK(d) /\ ~Locked(d) /\ d.mode # "real"
    BY <1>2, <2>1 DEF MovedTo, ShapeOK, Locked
  <2> QED
    BY <1>1, <1>2, <1>3, <2>1, <2>2, EmptyCounts
<1> QED
  BY <1>1, <1>2, <1>3, <1>4, IdleCounts

LEMMA CCrash ==
    ASSUME IInv, CInv, Crash
    PROVE  CInv'
<1>1. ~Steady'
  <2>1. crashes \in Nat
    BY BoundsAssumption DEF IInv, TypeOK
  <2> QED
    BY <2>1 DEF Crash, Steady
<1>2. \A t \in Threads : ShapeOK(th'[t])
  BY IdleShape DEF Crash
<1> QED
  BY <1>1, <1>2 DEF CInv

--------------------------------------------------------------------------------
(* The invariant.                                                               *)

LEMMA InitCInv == Init => CInv
<1> SUFFICES ASSUME Init PROVE CInv
  OBVIOUS
<1>1. \A t \in Threads : ShapeOK(th[t]) /\ ~Locked(th[t]) /\ th[t].mode = "none"
  BY IdleShape DEF Init
<1>2. \A p : Backlog(p) = {}
  BY DEF Init, Backlog, EventsOf
<1>3. \A p \in Processors : CountedAt(p)
  BY <1>1, <1>2, FS_EmptySet DEF Init, CountedAt, Serves
<1> QED
  BY <1>1, <1>3 DEF Init, CInv, WantedOK, RealOK

LEMMA NextCInv == IInv /\ OInv /\ Patient /\ CInv /\ [Next]_vars => CInv'
<1> SUFFICES ASSUME IInv, OInv, Patient, CInv, [Next]_vars PROVE CInv'
  OBVIOUS
<1>1. CASE Crash
  BY <1>1, CCrash
<1>2. ASSUME NEW t \in Threads, StepThread(t) PROVE CInv'
  <2>1. CASE InsertEvent(t) \/ InsertEventMapping(t)
    BY <2>1, CInsertEvent, CInsertEventMapping
  <2>2. CASE OnReport(t) \/ DeleteEventMapping(t) \/ QueryExistEvent(t) \/ DeleteEvent(t)
               \/ OnReceive(t) \/ ResetCondition(t)
    BY <2>2, COnReport, CDeleteEventMapping, CQueryExistEvent, CDeleteEvent, COnReceive,
       CResetCondition
  <2>3. CASE ProcessStartup(t) \/ Publish(t)
    BY <2>3, CProcessStartup, CPublish
  <2>4. CASE DeleteMappingOfObserver(t) \/ DeleteObserverRow(t) \/ DeleteFromMemory(t)
               \/ SetSeqZero(t)
    BY <2>4, CRemoval
  <2>5. CASE \/ \E w \in Watchers : SendToWatcher(t, w)
             \/ \E p \in Processors : SendRealTime(t, p)
    BY <2>5, CSend DEF Observers
  <2>6. CASE \E p \in Processors : ProcessEvent(t, p)
    BY <2>6, CProcessEvent
  <2>7. CASE \E o \in Observers : SkipObserver(t, o)
    BY <2>7, CSkipObserver
  <2> QED
    BY <1>2, <2>1, <2>2, <2>3, <2>4, <2>5, <2>6, <2>7 DEF StepThread
<1>3. ASSUME NEW t \in Threads, CallThread(t) PROVE CInv'
  <2>1. CASE \E k \in Kinds : HandleEvents(t, k)
    BY <2>1, CHandleEvents
  <2>2. CASE \E p \in Processors : TriggerBatch(t, p)
    BY <2>2, CProcessEvent
  <2>3. CASE \E p \in Processors : InitProcessorFromDb(t, p)
    BY <2>3, CInitProcessorFromDb
  <2>4. CASE \/ \E w \in Watchers : InitWatcherFromDb(t, w)
             \/ \E o \in Observers : StoreObserver(t, o) \/ RemoveObserver(t, o)
    BY <2>4, CCall DEF Observers
  <2> QED
    BY <1>3, <2>1, <2>2, <2>3, <2>4 DEF CallThread
<1>4. CASE UNCHANGED vars
  <2>1. UNCHANGED <<events, kindOf, mapping, row, th, crashes, faults>>
    BY <1>4 DEF vars, db, mem
  <2>2. (\A t \in Threads : ShapeOK(th[t]))' /\ (Steady' => Steady)
    BY <2>1 DEF CInv, Steady
  <2>3. \A p \in Processors : CountedAt(p) => CountedAt(p)'
    BY <2>1 DEF CountedAt, Backlog, EventsOf
  <2>4. (WantedOK => WantedOK') /\ \A t \in Threads : RealOK(th[t]) => RealOK(th[t])'
    BY <2>1 DEF WantedOK, RealOK
  <2> QED
    BY <2>2, <2>3, <2>4 DEF CInv
<1> QED
  BY <1>1, <1>2, <1>3, <1>4 DEF Next

\* While reports succeed, no database operation fails, the process does not die, and no
\* processor has more events waiting than one query reads, the row of a processor in memory
\* covers the events that wait for it, whenever nobody is inside the manager.
THEOREM RowCovers ==
    Spec /\ [](~ReportMayFail /\ \A p \in Processors : Cardinality(EventsOf(p)) <= QueryLimit)
        => [](faults = 0 /\ crashes = 0 => RowCoversBacklog)
<1>1. Spec /\ []Patient => []CInv
  BY InitCInv, NextCInv, Invariance, LocksAndTables, PTL DEF Spec
<1>2. ASSUME IInv, OInv, CInv, faults = 0, crashes = 0, Quiescent, NEW p \in Processors
      PROVE  Cardinality(EventsOf(p)) <= row[p]
  <2>1. \A t \in Threads : ~Serves(th[t], p) /\ ~Waits(th[t], p)
    BY <1>2, CountParts DEF Quiescent, Serves, Locked, Waits, ShapeOK
  <2>2. Backlog(p) = EventsOf(p)
    BY <2>1 DEF Backlog
  <2> QED
    BY <1>2, <2>1, <2>2 DEF CInv, Steady, CountedAt
<1>3. IInv /\ OInv /\ CInv => (faults = 0 /\ crashes = 0 => RowCoversBacklog)
  BY <1>2 DEF RowCoversBacklog
<1>4. Patient <=> ~ReportMayFail /\ \A p \in Processors : Cardinality(EventsOf(p)) <= QueryLimit
  BY DEF Patient
<1> QED
  BY <1>1, <1>3, <1>4, Invariance, LocksAndTables, PTL

--------------------------------------------------------------------------------
(* EventDelivery implements DeliveryPromise as long as no watcher is removed:   *)
(* what an event's trip through the database may never do to a processor.  The  *)
(* hypothesis is needed: a removed watcher of the NDK keeps receiving with      *)
(* sequence 0, and then unmaps its batch from everybody.                        *)

RemovalPcs == {"rmmap", "rmrow", "rmmem", "rmseq"}

\* Only observers that may be removed are, and none of them is left with sequence 0.
RemovesProcessors(c) ==
    /\ c.pc # "rmseq"
    /\ c.pc \in RemovalPcs => c.cur \in Removable

KeepsSeqs ==
    /\ zeroed = {}
    /\ \A t \in Threads : RemovesProcessors(th[t])

PInv == IInv /\ KeepsSeqs

--------------------------------------------------------------------------------
(* KeepsSeqs is an invariant.                                                   *)

LEMMA OutsideRemoval ==
    ASSUME KeepsSeqs, NEW t \in Threads, NEW next, zeroed' = zeroed,
           th \in [Threads -> ThreadStates], th' = [th EXCEPT ![t] = next],
           RemovesProcessors(next)
    PROVE  KeepsSeqs'
BY DEF KeepsSeqs, RemovesProcessors, RemovalPcs

LEMMA GotoOutside ==
    ASSUME PInv, NEW t \in Threads, zeroed' = zeroed,
           NEW pc \in Pcs \ {"rmseq"}, Goto(t, pc),
           pc \in RemovalPcs => th[t].cur \in Removable
    PROVE  KeepsSeqs'
<1> DEFINE next == [th[t] EXCEPT !.pc = pc]
<1>1. th \in [Threads -> ThreadStates] /\ th[t] \in ThreadStates /\ KeepsSeqs
  BY Parts DEF PInv
<1>2. th' = [th EXCEPT ![t] = next]
  BY <1>1 DEF Goto, ThreadStates
<1>3. next.pc = pc /\ next.cur = th[t].cur
  BY <1>1, MoveRecord
<1> HIDE DEF next
<1> QED
  BY <1>1, <1>2, <1>3, OutsideRemoval DEF RemovesProcessors

LEMMA NextOutside ==
    ASSUME PInv, NEW t \in Threads, NEW o, zeroed' = zeroed, NextObserver(t, o)
    PROVE  KeepsSeqs'
<1> DEFINE next == NextRecord(th[t], o)
<1>1. th \in [Threads -> ThreadStates] /\ th[t] \in ThreadStates /\ KeepsSeqs
  BY Parts DEF PInv
<1>2. th' = [th EXCEPT ![t] = next]
  BY DEF NextObserver, NextRecord
<1>3. next.pc \in {"idle", "send"}
  BY <1>1, NextRecordFacts
<1> HIDE DEF next
<1> QED
  BY <1>1, <1>2, <1>3, OutsideRemoval DEF RemovesProcessors, RemovalPcs

LEMMA IdleOutside ==
    ASSUME PInv, NEW t \in Threads, zeroed' = zeroed, th' = [th EXCEPT ![t] = IdleThread]
    PROVE  KeepsSeqs'
<1>1. th \in [Threads -> ThreadStates] /\ KeepsSeqs
  BY Parts DEF PInv
<1> QED
  BY <1>1, IdleRecord, OutsideRemoval DEF RemovesProcessors, RemovalPcs

LEMMA AfterBatchOutside ==
    ASSUME PInv, NEW t \in Threads, zeroed' = zeroed, AfterBatch(t)
    PROVE  KeepsSeqs'
<1>1. CASE NextObserver(t, th[t].cur)
  BY <1>1, NextOutside
<1>2. CASE \E pc \in {"receive", "reset"} : Goto(t, pc)
  BY <1>2, GotoOutside DEF Pcs, RemovalPcs
<1> QED
  BY <1>1, <1>2 DEF AfterBatch

LEMMA CallOutside ==
    ASSUME PInv, NEW t \in Threads, zeroed' = zeroed,
           NEW pc \in {"startup", "publish", "unmap", "rmmap"}, NEW mode, NEW o, NEW E,
           th' = [th EXCEPT ![t] = CallFor(o, pc, mode, E)],
           pc = "rmmap" => o \in Removable
    PROVE  KeepsSeqs'
<1> DEFINE next == CallFor(o, pc, mode, E)
<1>1. th \in [Threads -> ThreadStates] /\ KeepsSeqs
  BY Parts DEF PInv
<1>2. next.pc = pc /\ next.cur = o
  BY DEF CallFor, IdleThread
<1>3. th' = [th EXCEPT ![t] = next]
  OBVIOUS
<1> HIDE DEF next
<1> QED
  BY <1>1, <1>2, <1>3, OutsideRemoval DEF RemovesProcessors, RemovalPcs

LEMMA BatchOutside ==
    ASSUME PInv, NEW t \in Threads, zeroed' = zeroed,
           NEW pc \in {"report", "unmap"}, NEW mode, NEW o, NEW E,
           th' = [th EXCEPT ![t].pc = pc, ![t].mode = mode, ![t].cur = o, ![t].batch = E]
    PROVE  KeepsSeqs'
<1> DEFINE next == [th[t] EXCEPT !.pc = pc, !.mode = mode, !.cur = o, !.batch = E]
<1>1. th \in [Threads -> ThreadStates] /\ th[t] \in ThreadStates /\ KeepsSeqs
  BY Parts DEF PInv
<1>2. th' = [th EXCEPT ![t] = next]
  BY <1>1 DEF ThreadStates
<1>3. next.pc = pc
  BY <1>1 DEF ThreadStates
<1> HIDE DEF next
<1> QED
  BY <1>1, <1>2, <1>3, OutsideRemoval DEF RemovesProcessors, RemovalPcs

LEMMA TriggerOutside ==
    ASSUME PInv, NEW t \in Threads, NEW p, NEW mode, zeroed' = zeroed, Trigger(t, p, mode)
    PROVE  KeepsSeqs'
<1>1. PICK E \in {{}, QueryEvents(p)} : OnTrigger(t, p, mode, E)
  BY DEF Trigger
<1>2. CASE NextObserver(t, p)
  BY <1>2, NextOutside
<1>3. CASE Goto(t, "publish")
  BY <1>3, GotoOutside DEF Pcs, RemovalPcs
<1>4. CASE th' = [th EXCEPT ![t].pc = "report", ![t].mode = mode, ![t].cur = p, ![t].batch = E]
  BY <1>4, BatchOutside
<1> QED
  BY <1>1, <1>2, <1>3, <1>4 DEF OnTrigger

LEMMA StepKeepsSeqs ==
    ASSUME Removable \cap Watchers = {}, PInv, NEW t \in Threads, StepThread(t)
    PROVE  KeepsSeqs'
<1>0. /\ th \in [Threads -> ThreadStates] /\ th[t] \in ThreadStates
      /\ RemovesProcessors(th[t]) /\ zeroed = {}
  BY Parts DEF PInv, KeepsSeqs
<1>1. CASE InsertEvent(t)
  <2>1. zeroed' = zeroed
    BY <1>1 DEF InsertEvent, mem
  <2>2. CASE th' = [th EXCEPT ![t].pc = "map", ![t].seq = NextSeq]
    <3> DEFINE next == [th[t] EXCEPT !.pc = "map", !.seq = NextSeq]
    <3>1. th' = [th EXCEPT ![t] = next] /\ next.pc = "map"
      BY <1>0, <2>2 DEF ThreadStates
    <3> HIDE DEF next
    <3> QED
      BY <1>0, <2>1, <3>1, OutsideRemoval DEF PInv, RemovesProcessors, RemovalPcs
  <2>3. CASE Goto(t, "map")
    BY <2>1, <2>3, GotoOutside DEF Pcs, RemovalPcs
  <2> QED
    BY <1>1, <2>2, <2>3 DEF InsertEvent
<1>2. CASE InsertEventMapping(t)
  BY <1>2, GotoOutside DEF InsertEventMapping, mem, Pcs, RemovalPcs
<1>3. CASE OnReport(t)
  <2>1. zeroed' = zeroed /\ (Goto(t, "unmap") \/ AfterBatch(t))
    BY <1>3 DEF OnReport, mem
  <2> QED
    BY <2>1, GotoOutside, AfterBatchOutside DEF Pcs, RemovalPcs
<1>4. CASE DeleteEventMapping(t)
  <2>1. zeroed' = zeroed /\ (Goto(t, "purge") \/ AfterBatch(t))
    BY <1>4 DEF DeleteEventMapping, mem
  <2> QED
    BY <2>1, GotoOutside, AfterBatchOutside DEF Pcs, RemovalPcs
<1>5. CASE QueryExistEvent(t)
  <2>1. zeroed' = zeroed
    BY <1>5 DEF QueryExistEvent, mem
  <2>2. CASE th' = [th EXCEPT ![t].pc = "erase", ![t].del = UnusedEvents(th[t].batch)]
    <3> DEFINE next == [th[t] EXCEPT !.pc = "erase", !.del = UnusedEvents(th[t].batch)]
    <3>1. th' = [th EXCEPT ![t] = next] /\ next.pc = "erase"
      BY <1>0, <2>2 DEF ThreadStates
    <3> HIDE DEF next
    <3> QED
      BY <1>0, <2>1, <3>1, OutsideRemoval DEF PInv, RemovesProcessors, RemovalPcs
  <2>3. CASE AfterBatch(t)
    BY <2>1, <2>3, AfterBatchOutside
  <2> QED
    BY <1>5, <2>2, <2>3 DEF QueryExistEvent
<1>6. CASE DeleteEvent(t)
  BY <1>6, AfterBatchOutside DEF DeleteEvent, mem
<1>7. CASE OnReceive(t) \/ ResetCondition(t)
  <2>1. zeroed' = zeroed /\ (Goto(t, "publish") \/ NextObserver(t, th[t].cur))
    BY <1>7 DEF OnReceive, ResetCondition, mem
  <2> QED
    BY <2>1, GotoOutside, NextOutside DEF Pcs, RemovalPcs
<1>8. CASE ProcessStartup(t)
  <2>1. zeroed' = zeroed /\ (Goto(t, "publish") \/ Trigger(t, th[t].cur, "startup"))
    BY <1>8 DEF ProcessStartup
  <2> QED
    BY <2>1, GotoOutside, TriggerOutside DEF Pcs, RemovalPcs
<1>9. CASE Publish(t)
  BY <1>9, IdleOutside DEF Publish
<1>10. CASE DeleteMappingOfObserver(t) \/ DeleteObserverRow(t) \/ DeleteFromMemory(t)
  <2>1. th[t].cur \in Removable
    BY <1>0, <1>10 DEF RemovesProcessors, RemovalPcs, DeleteMappingOfObserver, DeleteObserverRow,
        DeleteFromMemory
  <2>2. AfterRemoval(t) => th' = [th EXCEPT ![t] = IdleThread]
    BY <2>1 DEF AfterRemoval
  <2>3. /\ zeroed' = zeroed
        /\ Goto(t, "rmrow") \/ Goto(t, "rmmem") \/ th' = [th EXCEPT ![t] = IdleThread]
    BY <1>10, <2>2 DEF DeleteMappingOfObserver, DeleteObserverRow, DeleteFromMemory, mem
  <2> QED
    BY <2>1, <2>3, GotoOutside, IdleOutside DEF Pcs
<1>11. CASE SetSeqZero(t)
  BY <1>0, <1>11 DEF SetSeqZero, RemovesProcessors
<1>12. CASE \E w \in Watchers : SendToWatcher(t, w)
  <2>1. PICK w \in Watchers : /\ zeroed' = zeroed
            /\ th' = [th EXCEPT ![t].pc = "unmap", ![t].mode = "receive", ![t].cur = w,
                                ![t].batch = {th[t].seq}]
    BY <1>12 DEF SendToWatcher, mem
  <2> QED
    BY <2>1, BatchOutside
<1>13. CASE \E p \in Processors : SendRealTime(t, p)
  BY <1>13, BatchOutside DEF SendRealTime, mem
<1>14. CASE \E p \in Processors : ProcessEvent(t, p)
  <2>1. PICK p \in Processors :
            zeroed' = zeroed /\ (Trigger(t, p, "trigger") \/ NextObserver(t, p))
    BY <1>14 DEF ProcessEvent
  <2> QED
    BY <2>1, TriggerOutside, NextOutside
<1>15. CASE \E o \in Observers : SkipObserver(t, o)
  BY <1>15, NextOutside DEF SkipObserver, mem
<1> QED
  BY <1>1, <1>2, <1>3, <1>4, <1>5, <1>6, <1>7, <1>8, <1>9, <1>10, <1>11, <1>12, <1>13, <1>14, <1>15
  DEF StepThread

LEMMA CallKeepsSeqs ==
    ASSUME PInv, NEW t \in Threads, CallThread(t)
    PROVE  KeepsSeqs'
<1>1. CASE \E k \in Kinds : HandleEvents(t, k)
  <2>1. PICK k \in Kinds : HandleEvents(t, k)
    BY <1>1
  <2> DEFINE next == [IdleThread EXCEPT !.pc = "insert", !.kind = k, !.todo = live, !.stubs = stub]
  <2>2. zeroed' = zeroed /\ th' = [th EXCEPT ![t] = next] /\ th \in [Threads -> ThreadStates]
    BY <2>1, Parts DEF HandleEvents, mem, PInv
  <2>3. next.pc = "insert"
    BY DEF IdleThread
  <2> HIDE DEF next
  <2> QED
    BY <2>2, <2>3, OutsideRemoval DEF PInv, RemovesProcessors, RemovalPcs
<1>2. CASE \E p \in Processors : TriggerBatch(t, p)
  BY <1>2, TriggerOutside DEF TriggerBatch
<1>3. CASE \E p \in Processors : InitProcessorFromDb(t, p)
  <2>1. PICK p \in Processors :
            th' = [th EXCEPT ![t] = CallFor(p, "startup", "startup", {})] /\ zeroed' = zeroed
    BY <1>3 DEF InitProcessorFromDb
  <2> QED
    BY <2>1, CallOutside
<1>4. CASE \E w \in Watchers : InitWatcherFromDb(t, w)
  <2>1. PICK w \in Watchers, pc \in {"publish", "unmap"}, E \in SUBSET events :
            th' = [th EXCEPT ![t] = CallFor(w, pc, "replay", E)] /\ zeroed' = zeroed
    <3>1. PICK w \in Watchers : InitWatcherFromDb(t, w)
      BY <1>4
    <3> DEFINE batch == {e \in QueryEvents(w) : kindOf[e] \in Wants[w]}
    <3>2. th' = [th EXCEPT ![t] = CallFor(w, IF batch = {} THEN "publish" ELSE "unmap", "replay", batch)]
            /\ zeroed' = zeroed
      BY <3>1 DEF InitWatcherFromDb, mem
    <3>3. batch \in SUBSET events
      BY DEF QueryEvents, EventsOf
    <3> HIDE DEF batch
    <3> QED
      BY <3>2, <3>3
  <2> QED
    BY <2>1, CallOutside
<1>5. CASE \E o \in Observers : StoreObserver(t, o)
  <2>1. PICK o \in Observers, mode \in {"replay", "startup"} :
            th' = [th EXCEPT ![t] = CallFor(o, "publish", mode, {})] /\ zeroed' = zeroed
    BY <1>5 DEF StoreObserver, mem
  <2> QED
    BY <2>1, CallOutside
<1>6. CASE \E o \in Observers : RemoveObserver(t, o)
  <2>1. PICK o \in Removable :
            th' = [th EXCEPT ![t] = CallFor(o, "rmmap", "none", {})] /\ zeroed' = zeroed
    BY <1>6 DEF RemoveObserver, mem
  <2> QED
    BY <2>1, CallOutside
<1> QED
  BY <1>1, <1>2, <1>3, <1>4, <1>5, <1>6 DEF CallThread

LEMMA NextPInv ==
    ASSUME Removable \cap Watchers = {}, PInv, [Next]_vars
    PROVE  PInv'
<1>1. IInv'
  BY NextIInv DEF PInv
<1>2. CASE Crash
  <2>1. zeroed' = {} /\ \A t \in Threads : th'[t] = IdleThread
    BY <1>2 DEF Crash
  <2> QED
    BY <1>1, <2>1, IdleRecord DEF PInv, KeepsSeqs, RemovesProcessors, RemovalPcs
<1>3. CASE \E t \in Threads : StepThread(t)
  BY <1>1, <1>3, StepKeepsSeqs DEF PInv
<1>4. CASE \E t \in Threads : CallThread(t)
  BY <1>1, <1>4, CallKeepsSeqs DEF PInv
<1>5. CASE UNCHANGED vars
  <2>1. UNCHANGED <<zeroed, th>>
    BY <1>5 DEF vars, mem
  <2> QED
    BY <1>1, <2>1 DEF PInv, KeepsSeqs
<1> QED
  BY <1>2, <1>3, <1>4, <1>5 DEF Next

LEMMA InitPInv == Init => PInv
BY InitIInv, IdleRecord DEF Init, PInv, KeepsSeqs, RemovesProcessors, RemovalPcs

--------------------------------------------------------------------------------
(* Every step is one of the promise's, or none.                                 *)

Pending == {m \in mapping : m[1] # 0 /\ m[2] \in Processors}
Acked == {m \in acked : m[1] # 0 /\ m[2] \in Processors}

\* The step of the promise that a step of the program takes.
Simulates == [Promise!Next]_(Promise!vars)

LEMMA Stutter ==
    ASSUME Pending' = Pending, Acked' = Acked
    PROVE  Simulates
BY DEF Simulates, Promise!vars, Pending, Acked

LEMMA WatchersApart == \A o \in Watchers : o \notin Processors
BY ObserversAssumption

\* An insertion of rows publishes the event, if it has a sequence.
LEMMA SimulateInsertEventMapping ==
    ASSUME PInv, NEW t \in Threads, InsertEventMapping(t)
    PROVE  Simulates
<1> DEFINE seq == th[t].seq
           new == NewRows(th[t])
           P == {o \in Processors : <<seq, o>> \in new}
<1>0. /\ th[t] \in ThreadStates /\ th[t].pc = "map" /\ JInv /\ acked' = acked
      /\ mapping' = mapping \/ mapping' = mapping \cup new
  BY Parts DEF PInv, InsertEventMapping, NewRows
<1>1. Acked' = Acked
  BY <1>0 DEF Acked
<1>2. \A m \in new : m[1] = seq /\ m = <<m[1], m[2]>>
  BY <1>0, NewRowsFacts
<1>3. CASE mapping' = mapping
  BY <1>1, <1>3, Stutter DEF Pending
<1>4. CASE mapping' = mapping \cup new /\ seq = 0
  BY <1>1, <1>2, <1>4, Stutter DEF Pending
<1>5. CASE mapping' = mapping \cup new /\ seq # 0
  <2>1. seq \in Seqs
    BY <1>0, <1>5, BoundsAssumption DEF ThreadStates, Seqs
  <2>2. (\A m \in mapping : m[1] # seq) /\ (\A a \in acked : a[1] # seq)
    BY <1>0, <1>5 DEF JInv, Fresh
  <2> HIDE DEF new
  <2>3. ({seq} \X Processors) \cap (Pending \cup Acked) = {}
    BY <2>2 DEF Pending, Acked
  <2>4. Pending' = Pending \cup ({seq} \X P)
    BY <1>2, <1>5 DEF Pending
  <2>5. P \in SUBSET Processors
    OBVIOUS
  <2> HIDE DEF seq, P
  <2>6. Promise!Publish
    BY <1>1, <2>1, <2>3, <2>4, <2>5 DEF Promise!Publish, Pending, Acked
  <2> QED
    BY <2>6 DEF Simulates, Promise!Next
<1> QED
  BY <1>0, <1>3, <1>4, <1>5

\* A report that succeeds acknowledges the events that were stored.
LEMMA SimulateOnReport ==
    ASSUME PInv, NEW t \in Threads, OnReport(t)
    PROVE  Simulates
<1> DEFINE p == th[t].cur
           E == th[t].batch
           S == E \ {0}
<1>0. /\ th[t] \in ThreadStates /\ p \in Processors /\ mapping' = mapping
      /\ acked' = acked \/ acked' = acked \cup (E \X {p})
  BY Parts DEF PInv, OnReport, LocalOK, db
<1>1. Pending' = Pending
  BY <1>0 DEF Pending
<1>2. CASE acked' = acked
  BY <1>1, <1>2, Stutter DEF Acked
<1>3. CASE acked' = acked \cup (E \X {p})
  <2>1. S \in SUBSET Seqs
    BY <1>0, BoundsAssumption DEF ThreadStates, Seqs
  <2>2. Acked' = Acked \cup (S \X {p})
    BY <1>0, <1>3 DEF Acked
  <2> HIDE DEF S, p
  <2>3. p \in Processors
    BY <1>0 DEF p
  <2>4. Promise!Acknowledge
    BY <1>1, <2>1, <2>2, <2>3 DEF Promise!Acknowledge, Pending, Acked
  <2> QED
    BY <2>4 DEF Simulates, Promise!Next
<1> QED
  BY <1>0, <1>2, <1>3

\* What leaves a processor's queue has been reported to it.
LEMMA SimulateDeleteEventMapping ==
    ASSUME PInv, NEW t \in Threads, DeleteEventMapping(t)
    PROVE  Simulates
<1> DEFINE o == th[t].cur
           E == th[t].batch
           D == {m \in Pending : m[1] \in E /\ m[2] = o}
<1>0. /\ th[t] \in ThreadStates /\ LocalOK(th[t]) /\ DataOK(th[t]) /\ MemOK /\ th[t].pc = "unmap"
      /\ acked' = acked /\ zeroed = {}
      /\ mapping' = mapping \/ mapping' = mapping \ MappingRows(o, E)
  BY Parts DEF PInv, KeepsSeqs, DeleteEventMapping
<1>1. Acked' = Acked
  BY <1>0 DEF Acked
<1>2. o \in Observers /\ GetSeq(o) = o /\ o # None
  BY <1>0, ObserversAssumption DEF LocalOK, GetSeq, Observers
<1>3. CASE mapping' = mapping
  BY <1>1, <1>3, Stutter DEF Pending
<1>4. CASE mapping' = mapping \ MappingRows(o, E)
  <2>1. Pending' = Pending \ D
    BY <1>2, <1>4 DEF Pending, MappingRows
  <2>2. D \subseteq Acked
    <3> SUFFICES ASSUME NEW m \in D PROVE m \in Acked
      OBVIOUS
    <3>1. m = <<m[1], m[2]>> /\ m[1] # 0 /\ m[2] = o /\ m[1] \in E /\ o \in Processors
      BY <1>0 DEF Pending, MemOK
    <3>2. E \X {o} \subseteq acked
      BY <1>0, <3>1 DEF DataOK
    <3>3. <<m[1], o>> \in acked
      BY <3>1, <3>2
    <3> QED
      BY <3>1, <3>3 DEF Acked
  <2>3. D \in SUBSET (Pending \cap Acked)
    BY <2>2
  <2> HIDE DEF D
  <2>4. Promise!Forget
    BY <1>1, <2>1, <2>3 DEF Promise!Forget, Pending, Acked
  <2> QED
    BY <2>4 DEF Simulates, Promise!Next
<1> QED
  BY <1>0, <1>3, <1>4

\* The removal of a processor withdraws what is stored for it.
LEMMA SimulateDeleteMappingOfObserver ==
    ASSUME PInv, NEW t \in Threads, DeleteMappingOfObserver(t)
    PROVE  Simulates
<1> DEFINE o == th[t].cur
<1>0. /\ MemOK /\ o \in Observers /\ acked' = acked
      /\ mapping' = mapping \/ mapping' = {m \in mapping : m[2] # o}
  BY Parts DEF PInv, DeleteMappingOfObserver, LocalOK
<1>1. Acked' = Acked
  BY <1>0 DEF Acked
<1>2. CASE mapping' = mapping
  BY <1>1, <1>2, Stutter DEF Pending
<1>3. CASE mapping' = {m \in mapping : m[2] # o} /\ o \notin Processors
  BY <1>1, <1>3, Stutter DEF Pending
<1>4. CASE mapping' = {m \in mapping : m[2] # o} /\ o \in Processors
  <2>1. \A m \in Pending : m = <<m[1], m[2]>> /\ m[1] \in Seqs
    BY <1>0, BoundsAssumption DEF Pending, MemOK, Seqs
  <2>2. Pending' = Pending \ (Seqs \X {o})
    BY <1>4, <2>1 DEF Pending
  <2>3. o \in Processors
    BY <1>4
  <2> HIDE DEF o
  <2>4. Promise!Withdraw
    BY <1>1, <2>2, <2>3 DEF Promise!Withdraw, Pending, Acked
  <2> QED
    BY <2>4 DEF Simulates, Promise!Next
<1> QED
  BY <1>0, <1>2, <1>3, <1>4

\* A watcher's events are of no concern to the processors.
LEMMA SimulateOnReceive ==
    ASSUME PInv, NEW t \in Threads, OnReceive(t)
    PROVE  Simulates
<1>1. /\ mapping' = mapping /\ acked' = acked \cup (th[t].batch \X {th[t].cur})
      /\ th[t].cur \notin Processors
  BY Parts, WatchersApart DEF PInv, OnReceive, LocalOK, db
<1> QED
  BY <1>1, Stutter DEF Pending, Acked

LEMMA SimulateNext ==
    ASSUME PInv, [Next]_vars
    PROVE  Simulates
<1>1. mapping' = mapping /\ acked' = acked => Simulates
  BY Stutter DEF Pending, Acked
<1>2. ASSUME NEW t \in Threads, StepThread(t) PROVE Simulates
  <2>1. CASE \/ InsertEvent(t) \/ QueryExistEvent(t) \/ DeleteEvent(t) \/ ResetCondition(t)
             \/ ProcessStartup(t) \/ Publish(t)
    BY <1>1, <2>1 DEF InsertEvent, QueryExistEvent, DeleteEvent, ResetCondition, ProcessStartup,
        Publish, db
  <2>2. CASE DeleteObserverRow(t) \/ DeleteFromMemory(t) \/ SetSeqZero(t)
    BY <1>1, <2>2 DEF DeleteObserverRow, DeleteFromMemory, SetSeqZero, db
  <2>3. CASE \/ \E w \in Watchers : SendToWatcher(t, w)
             \/ \E p \in Processors : SendRealTime(t, p) \/ ProcessEvent(t, p)
             \/ \E o \in Observers : SkipObserver(t, o)
    BY <1>1, <2>3 DEF SendToWatcher, SendRealTime, ProcessEvent, SkipObserver, db
  <2> QED
    BY <1>2, <2>1, <2>2, <2>3, SimulateInsertEventMapping, SimulateOnReport,
       SimulateDeleteEventMapping, SimulateDeleteMappingOfObserver, SimulateOnReceive
    DEF StepThread
<1>3. ASSUME NEW t \in Threads, CallThread(t) PROVE Simulates
  BY <1>1, <1>3 DEF CallThread, HandleEvents, TriggerBatch, InitProcessorFromDb, InitWatcherFromDb,
      StoreObserver, RemoveObserver, db
<1>4. CASE Crash
  BY <1>1, <1>4 DEF Crash, db
<1>5. CASE UNCHANGED vars
  BY <1>1, <1>5 DEF vars, db
<1> QED
  BY <1>2, <1>3, <1>4, <1>5 DEF Next

\* The mapping table is an at-least-once queue for every processor, whatever the number of
\* observers, threads, events, failures and crashes, if no watcher is removed.
THEOREM DeliversAtLeastOnce ==
    ASSUME Removable \cap Watchers = {}
    PROVE  Spec => AtLeastOnce
<1>1. Init => PInv
  BY InitPInv
<1>2. PInv /\ [Next]_vars => PInv'
  BY NextPInv
<1>3. Init => Promise!Init
  BY DEF Init, Promise!Init
<1>4. PInv /\ [Next]_vars => [Promise!Next]_(Promise!vars)
  BY SimulateNext DEF Simulates
<1> QED
  BY <1>1, <1>2, <1>3, <1>4, PTL DEF Spec, AtLeastOnce, Promise!Spec

--------------------------------------------------------------------------------
(* Writing.  A list of parameters is a function on places, an order a set of pairs *)
(* of places; that they are finite and linear gives the first and the last of them *)
(* without recursion.                                                              *)

(* Orders.                                                                         *)

Linear(places, order) ==
    /\ \A i \in places : <<i, i>> \notin order
    /\ \A i, j, k \in places : <<i, j>> \in order /\ <<j, k>> \in order => <<i, k>> \in order
    /\ \A i, j \in places : i = j \/ <<i, j>> \in order \/ <<j, i>> \in order

LEMMA LinearSubset ==
    ASSUME NEW D, NEW order, Linear(D, order), NEW E \in SUBSET D
    PROVE  Linear(E, order)
BY DEF Linear

LEMMA LeastNatural ==
    ASSUME NEW S \in SUBSET Nat, S # {}
    PROVE  \E m \in S : \A n \in S : m <= n
<1> DEFINE R == {p \in Nat \X Nat : p[1] < p[2]}
<1>1. IsWellFoundedOn(R, Nat)
  BY NatLessThanWellFounded DEF OpToRel
<1> HIDE DEF R
<1>2. PICK m \in S : \A n \in S : ~(<<n, m>> \in R)
  BY <1>1, WFMin
<1>3. ASSUME NEW n \in S PROVE m <= n
  <2>1. n \in Nat /\ m \in Nat /\ <<n, m>> \notin R
    BY <1>2
  <2> QED
    BY <2>1 DEF R
<1> QED
  BY <1>3

\* The rank of a place, the number of those ahead of it, grows along the order.
LEMMA RankGrows ==
    ASSUME NEW D, IsFiniteSet(D), NEW order, Linear(D, order), NEW i \in D, NEW j \in D,
           <<i, j>> \in order
    PROVE  /\ Cardinality(Ahead(D, order, i)) \in Nat
           /\ Cardinality(Ahead(D, order, i)) < Cardinality(Ahead(D, order, j))
           /\ Cardinality(Ahead(D, order, j)) \in Nat
<1> DEFINE A == Ahead(D, order, i)
           B == Ahead(D, order, j)
<1>1. A \in SUBSET B /\ i \in B /\ i \notin A /\ B \in SUBSET D
  BY DEF Linear, Ahead
<1> HIDE DEF A, B
<1>2. IsFiniteSet(B)
  BY <1>1, FS_Subset
<1>3. IsFiniteSet(A) /\ Cardinality(A) <= Cardinality(B) /\ Cardinality(A) # Cardinality(B)
  BY <1>1, <1>2, FS_Subset
<1>4. Cardinality(A) \in Nat /\ Cardinality(B) \in Nat
  BY <1>2, <1>3, FS_CardinalityType
<1> QED
  BY <1>3, <1>4 DEF A, B

LEMMA RankType ==
    ASSUME NEW D, IsFiniteSet(D), NEW order, NEW i
    PROVE  Cardinality(Ahead(D, order, i)) \in Nat
<1>1. Ahead(D, order, i) \in SUBSET D
  BY DEF Ahead
<1> QED
  BY <1>1, FS_Subset, FS_CardinalityType

\* In a finite set of places one is the first and one the last.
LEMMA EarliestExists ==
    ASSUME NEW D, IsFiniteSet(D), NEW order, Linear(D, order), D # {}
    PROVE  \E i \in D : Ahead(D, order, i) = {}
<1> DEFINE NoOf(i) == Cardinality(Ahead(D, order, i))
           N == {NoOf(i) : i \in D}
<1>1. N \in SUBSET Nat /\ N # {}
  BY RankType
<1>2. PICK i \in D : \A j \in D : NoOf(i) <= NoOf(j)
  <2> HIDE DEF NoOf
  <2>1. PICK m \in N : \A n \in N : m <= n
    BY <1>1, LeastNatural
  <2> QED
    BY <2>1
<1>3. ASSUME NEW j \in Ahead(D, order, i) PROVE FALSE
  <2>1. j \in D /\ <<j, i>> \in order
    BY DEF Ahead
  <2>2. NoOf(j) \in Nat /\ NoOf(i) \in Nat /\ NoOf(j) < NoOf(i)
    BY <2>1, RankGrows
  <2> QED
    BY <1>2, <2>1, <2>2
<1> QED
  BY <1>3

LEMMA LatestExists ==
    ASSUME NEW D, IsFiniteSet(D), NEW order, Linear(D, order), D # {}
    PROVE  \E i \in D : D \ {i} \subseteq Ahead(D, order, i)
<1> DEFINE back == {p \in D \X D : <<p[2], p[1]>> \in order}
<1>1. Linear(D, back)
  BY DEF Linear
<1>2. PICK i \in D : Ahead(D, back, i) = {}
  BY <1>1, EarliestExists
<1>3. ASSUME NEW j \in D \ {i} PROVE j \in Ahead(D, order, i)
  <2>1. <<i, j>> \notin order
    BY <1>2 DEF Ahead
  <2> QED
    BY <2>1 DEF Linear, Ahead
<1> QED
  BY <1>3

\* The last problem is one of the problems.
LEMMA LastProblemIs ==
    ASSUME NEW codes, IsFiniteSet(DOMAIN codes), NEW order, Linear(DOMAIN codes, order)
    PROVE  /\ LastProblem(codes, order) = SUCCESSFUL \/
                \E i \in DOMAIN codes : LastProblem(codes, order) = codes[i]
           /\ LastProblem(codes, order) = SUCCESSFUL <=> \A i \in DOMAIN codes : codes[i] = SUCCESSFUL
<1> DEFINE D == Problems(codes)
<1>1. D \in SUBSET DOMAIN codes
  BY DEF Problems
<1>2. IsFiniteSet(D) /\ Linear(D, order)
  BY <1>1, FS_Subset, LinearSubset
<1>3. CASE D = {}
  BY <1>3 DEF LastProblem, Problems
<1>4. CASE D # {}
  <2>1. \E i \in D : D \ {i} \subseteq Ahead(D, order, i)
    BY <1>2, <1>4, LatestExists
  <2>2. \E i \in D : LastProblem(codes, order) = codes[i]
    BY <2>1, <1>4 DEF LastProblem
  <2> QED
    BY <2>2 DEF Problems
<1> QED
  BY <1>3, <1>4

\* No more than n places have fewer than n ahead of them.
LEMMA FirstAreFew ==
    ASSUME NEW D, IsFiniteSet(D), NEW order, Linear(D, order), NEW n \in Nat
    PROVE  /\ IsFiniteSet({k \in D : Cardinality(Ahead(D, order, k)) < n})
           /\ Cardinality({k \in D : Cardinality(Ahead(D, order, k)) < n}) <= n
<1> DEFINE F == {k \in D : Cardinality(Ahead(D, order, k)) < n}
           rank == [k \in F |-> Cardinality(Ahead(D, order, k)) + 1]
<1>1. rank \in [F -> 1..n]
  <2> SUFFICES ASSUME NEW k \in F PROVE Cardinality(Ahead(D, order, k)) + 1 \in 1..n
    OBVIOUS
  <2>1. Cardinality(Ahead(D, order, k)) \in Nat
    BY RankType
  <2> QED
    BY <2>1
<1>2. ASSUME NEW i \in F, NEW j \in F, i # j PROVE rank[i] # rank[j]
  <2>1. <<i, j>> \in order \/ <<j, i>> \in order
    BY <1>2 DEF Linear
  <2>2. /\ <<i, j>> \in order =>
              /\ Cardinality(Ahead(D, order, i)) \in Nat /\ Cardinality(Ahead(D, order, j)) \in Nat
              /\ Cardinality(Ahead(D, order, i)) < Cardinality(Ahead(D, order, j))
        /\ <<j, i>> \in order =>
              /\ Cardinality(Ahead(D, order, i)) \in Nat /\ Cardinality(Ahead(D, order, j)) \in Nat
              /\ Cardinality(Ahead(D, order, j)) < Cardinality(Ahead(D, order, i))
    BY RankGrows
  <2> QED
    BY <2>1, <2>2
<1>3. rank \in Injection(F, 1..n)
  BY <1>1, <1>2 DEF Injection, IsInjective
<1>4. IsFiniteSet(1..n) /\ Cardinality(1..n) = n
  BY FS_Interval
<1> HIDE DEF F, rank
<1>5. IsFiniteSet(F) /\ Cardinality(F) <= Cardinality(1..n)
  BY <1>3, <1>4, FS_Injection
<1> QED
  BY <1>4, <1>5 DEF F

--------------------------------------------------------------------------------
(* The order of std::map.                                                          *)

\* Two names differ first after their first k characters, where one may end.
Splits(m, n, k) ==
    /\ k < Len(n)
    /\ \A i \in 1..k : m[i] = n[i]
    /\ k < Len(m) => Rank(m[k + 1]) < Rank(n[k + 1])

Ranked(z, n) ==
    \/ z = "$" /\ n = 1
    \/ z = "." /\ n = 2
    \/ z = "1" /\ n = 3
    \/ z = "_" /\ n = 4
    \/ z = "a" /\ n = 5
    \/ z = "#" /\ n = 0

LEMMA RanksDiffer ==
    ASSUME NEW x \in Chars, NEW y \in Chars
    PROVE  Rank(x) \in Nat /\ (Rank(x) = Rank(y) => x = y)
<1>1. Rank("$") = 1 /\ Rank(".") = 2 /\ Rank("1") = 3
  BY DEF Rank
<1>2. Rank("_") = 4 /\ Rank("a") = 5 /\ Rank("#") = 0
  BY DEF Rank
<1>3. ASSUME NEW z \in Chars PROVE Ranked(z, Rank(z))
  BY <1>1, <1>2, Zenon DEF Chars, Ranked
<1>4. ASSUME NEW m, NEW n, Ranked(x, m), Ranked(y, n)
      PROVE  m \in Nat /\ (m = n => x = y)
  <2>1. /\ 0 \in Nat /\ 1 \in Nat /\ 2 \in Nat /\ 3 \in Nat /\ 4 \in Nat /\ 5 \in Nat
        /\ 0 # 1 /\ 0 # 2 /\ 0 # 3 /\ 0 # 4 /\ 0 # 5 /\ 1 # 2 /\ 1 # 3 /\ 1 # 4 /\ 1 # 5
        /\ 2 # 3 /\ 2 # 4 /\ 2 # 5 /\ 3 # 4 /\ 3 # 5 /\ 4 # 5
    OBVIOUS
  <2> QED
    BY <1>4, <2>1, Zenon DEF Ranked
<1> QED
  BY <1>3, <1>4, Zenon

LEMMA BeforeSplits ==
    ASSUME NEW p, NEW q, p.name \in Seq(Chars), q.name \in Seq(Chars)
    PROVE  Before(p, q) <=> \E k \in 0..Len(p.name) : Splits(p.name, q.name, k)
<1> DEFINE m == p.name
           n == q.name
<1>1. m \in Seq(Chars) /\ n \in Seq(Chars)
  OBVIOUS
<1> HIDE DEF m, n
<1>2. ASSUME NEW k \in 0..Len(m), k < Len(n)
      PROVE  SubSeq(m, 1, k) = SubSeq(n, 1, k) <=> \A i \in 1..k : m[i] = n[i]
  <2>1. Len(m) \in Nat /\ Len(n) \in Nat /\ k \in Nat /\ k \in Int
    BY <1>1, LenProperties
  <2>2. (\A i \in 1..k : m[i] \in Chars) /\ \A i \in 1..k : n[i] \in Chars
    BY <1>1, <1>2, <2>1, ElementOfSeq
  <2>3. /\ SubSeq(m, 1, k) \in Seq(Chars) /\ Len(SubSeq(m, 1, k)) = k
        /\ \A i \in 1..k : SubSeq(m, 1, k)[i] = m[i]
    BY <2>1, <2>2, SubSeqProperties
  <2>4. /\ SubSeq(n, 1, k) \in Seq(Chars) /\ Len(SubSeq(n, 1, k)) = k
        /\ \A i \in 1..k : SubSeq(n, 1, k)[i] = n[i]
    BY <2>1, <2>2, SubSeqProperties
  <2>5. SubSeq(m, 1, k) = SubSeq(n, 1, k) => \A i \in 1..k : m[i] = n[i]
    BY <2>3, <2>4
  <2>6. ASSUME \A i \in 1..k : m[i] = n[i] PROVE SubSeq(m, 1, k) = SubSeq(n, 1, k)
    <3>1. \A i \in 1..k : SubSeq(m, 1, k)[i] = SubSeq(n, 1, k)[i]
      BY <2>3, <2>4, <2>6
    <3> QED
      BY <2>3, <2>4, <3>1, SeqEqual
  <2> QED
    BY <2>5, <2>6
<1>3. Len(m) \in Nat /\ Len(n) \in Nat
  BY <1>1, LenProperties
<1>4. Before(p, q) <=> \E k \in 0..Len(m) :
          /\ Len(n) > k /\ SubSeq(m, 1, k) = SubSeq(n, 1, k)
          /\ Len(m) > k => Rank(m[k + 1]) < Rank(n[k + 1])
  BY DEF Before, m, n
<1>5. ASSUME NEW k \in 0..Len(m) PROVE (Len(n) > k <=> k < Len(n)) /\ (Len(m) > k <=> k < Len(m))
  BY <1>3
<1>6. Before(p, q) <=> \E k \in 0..Len(m) : Splits(m, n, k)
  BY <1>2, <1>4, <1>5 DEF Splits
<1> QED
  BY <1>6 DEF m, n

LEMMA BeforeTransitive ==
    ASSUME NEW m \in Seq(Chars), NEW n \in Seq(Chars), NEW o \in Seq(Chars),
           NEW k \in 0..Len(m), Splits(m, n, k), NEW l \in 0..Len(n), Splits(n, o, l)
    PROVE  \E j \in 0..Len(m) : Splits(m, o, j)
<1>1. Len(m) \in Nat /\ Len(n) \in Nat /\ Len(o) \in Nat /\ k \in Nat /\ l \in Nat
  BY LenProperties
<1>2. k < Len(n) /\ l < Len(o)
  BY DEF Splits
<1>3. CASE k < l
  <2>1. k < Len(o) /\ k + 1 \in 1..l
    BY <1>1, <1>2, <1>3
  <2>2. \A i \in 1..k : i \in 1..l
    BY <1>1, <1>3
  <2> QED
    BY <1>3, <2>1, <2>2 DEF Splits
<1>4. CASE k = l
  <2>1. ASSUME k < Len(m) PROVE Rank(m[k + 1]) < Rank(o[k + 1])
    <3>1. k + 1 \in 1..Len(m) /\ k + 1 \in 1..Len(n) /\ k + 1 \in 1..Len(o)
      BY <1>1, <1>2, <1>4, <2>1
    <3>2. m[k + 1] \in Chars /\ n[k + 1] \in Chars /\ o[k + 1] \in Chars
      BY <3>1, ElementOfSeq
    <3>3. Rank(m[k + 1]) \in Nat /\ Rank(n[k + 1]) \in Nat /\ Rank(o[k + 1]) \in Nat
      BY <3>2, RanksDiffer
    <3>4. Rank(m[k + 1]) < Rank(n[k + 1]) /\ Rank(n[k + 1]) < Rank(o[k + 1])
      BY <1>2, <1>4, <2>1 DEF Splits
    <3> QED
      BY <3>3, <3>4
  <2> QED
    BY <1>2, <1>4, <2>1 DEF Splits
<1>5. CASE l < k
  <2>1. l \in 0..Len(m) /\ l < Len(n) /\ l + 1 \in 1..k
    BY <1>1, <1>2, <1>5
  <2>2. \A i \in 1..l : i \in 1..k
    BY <1>1, <1>5
  <2>3. m[l + 1] = n[l + 1] /\ Rank(n[l + 1]) < Rank(o[l + 1])
    BY <2>1 DEF Splits
  <2>4. Splits(m, o, l)
    BY <1>2, <2>2, <2>3 DEF Splits
  <2> QED
    BY <2>1, <2>4
<1> QED
  BY <1>1, <1>3, <1>4, <1>5

LEMMA BeforeTotal ==
    ASSUME NEW m \in Seq(Chars), NEW n \in Seq(Chars), m # n
    PROVE  (\E k \in 0..Len(m) : Splits(m, n, k)) \/ (\E k \in 0..Len(n) : Splits(n, m, k))
<1> DEFINE D == {k \in Nat : k >= Len(m) \/ k >= Len(n) \/ m[k + 1] # n[k + 1]}
<1>1. Len(m) \in Nat /\ Len(n) \in Nat
  BY LenProperties
<1>2. Len(m) \in D /\ Len(n) \in D /\ D \in SUBSET Nat
  BY <1>1
<1>3. \A i \in Nat : i \notin D => m[i + 1] = n[i + 1]
  OBVIOUS
<1>4. \A i \in D : i < Len(m) /\ i < Len(n) => m[i + 1] # n[i + 1]
  BY <1>1
<1> HIDE DEF D
<1>5. PICK k \in D : \A j \in D : k <= j
  BY <1>2, LeastNatural
<1>6. k \in Nat /\ k <= Len(m) /\ k <= Len(n)
  BY <1>2, <1>5
<1>7. ASSUME NEW i \in 1..k PROVE m[i] = n[i]
  <2>1. i - 1 \in Nat /\ i - 1 < k /\ (i - 1) + 1 = i
    BY <1>6
  <2>2. i - 1 \notin D
    BY <1>5, <1>6, <2>1
  <2> QED
    BY <1>3, <2>1, <2>2
<1>8. CASE k = Len(m) /\ k = Len(n)
  <2>1. m = n
    BY <1>7, <1>8, SeqEqual
  <2> QED
    BY <2>1
<1>9. CASE k < Len(n) /\ k = Len(m)
  <2>1. Splits(m, n, k) /\ k \in 0..Len(m)
    BY <1>1, <1>6, <1>7, <1>9 DEF Splits
  <2> QED
    BY <2>1
<1>10. CASE k < Len(m) /\ k = Len(n)
  <2>1. Splits(n, m, k) /\ k \in 0..Len(n)
    BY <1>1, <1>6, <1>7, <1>10 DEF Splits
  <2> QED
    BY <2>1
<1>11. CASE k < Len(m) /\ k < Len(n)
  <2>1. m[k + 1] # n[k + 1] /\ k + 1 \in 1..Len(m) /\ k + 1 \in 1..Len(n)
    BY <1>1, <1>4, <1>6, <1>11
  <2>2. m[k + 1] \in Chars /\ n[k + 1] \in Chars
    BY <2>1, ElementOfSeq
  <2>3. /\ Rank(m[k + 1]) \in Nat /\ Rank(n[k + 1]) \in Nat
        /\ Rank(m[k + 1]) # Rank(n[k + 1])
    BY <2>1, <2>2, RanksDiffer
  <2>4. Rank(m[k + 1]) < Rank(n[k + 1]) \/ Rank(n[k + 1]) < Rank(m[k + 1])
    BY <2>3
  <2>5. k \in 0..Len(m) /\ k \in 0..Len(n)
    BY <1>1, <1>6
  <2>6. Splits(m, n, k) \/ Splits(n, m, k)
    BY <1>7, <1>11, <2>4 DEF Splits
  <2> QED
    BY <2>5, <2>6
<1> QED
  BY <1>1, <1>6, <1>8, <1>9, <1>10, <1>11

\* The order in which a binding passes parameters is linear: by place, or, if the names are
\* different, by name.
ByPlace(b, params) == b # "ets" /\ DOMAIN params \subseteq Nat
ByName(params) ==
    /\ \A i \in DOMAIN params : params[i].name \in Seq(Chars)
    /\ \A i, j \in DOMAIN params : params[i].name = params[j].name => i = j

LEMMA ParseRecordLinear ==
    ASSUME NEW b, NEW params, ByPlace(b, params) \/ (ByName(params) /\ b = "ets")
    PROVE  Linear(DOMAIN params, ParseRecord(b, params))
<1> DEFINE D == DOMAIN params
           order == ParseRecord(b, params)
<1>1. CASE ByPlace(b, params)
  <2>1. \A i, j \in D : <<i, j>> \in order <=> i < j
    BY <1>1 DEF ByPlace, ParseRecord
  <2>2. \A i \in D : i \in Nat
    BY <1>1 DEF ByPlace
  <2> HIDE DEF D, order
  <2>3. Linear(D, order)
    BY <2>1, <2>2 DEF Linear
  <2> QED
    BY <2>3 DEF D, order
<1>2. CASE ByName(params) /\ b = "ets"
  <2> DEFINE N(i) == params[i].name
  <2>1. \A i \in D : N(i) \in Seq(Chars)
    BY <1>2 DEF ByName
  <2>2. \A i, j \in D : <<i, j>> \in order <=> Before(params[i], params[j])
    BY <1>2 DEF ParseRecord
  <2>3. \A i, j \in D : <<i, j>> \in order <=> \E k \in 0..Len(N(i)) : Splits(N(i), N(j), k)
    BY <2>1, <2>2, BeforeSplits
  <2>4. \A i, j \in D : N(i) = N(j) => i = j
    BY <1>2 DEF ByName
  <2> HIDE DEF D, order, N
  <2>5. ASSUME NEW i \in D PROVE <<i, i>> \notin order
    <3> SUFFICES ASSUME NEW k \in 0..Len(N(i)), Splits(N(i), N(i), k) PROVE FALSE
      BY <2>3
    <3>1. N(i) \in Seq(Chars) /\ Len(N(i)) \in Nat
      BY <2>1, LenProperties
    <3>2. k < Len(N(i)) /\ Rank(N(i)[k + 1]) < Rank(N(i)[k + 1])
      BY DEF Splits
    <3>3. k + 1 \in 1..Len(N(i))
      BY <3>1, <3>2
    <3>4. Rank(N(i)[k + 1]) \in Nat
      BY <3>1, <3>3, ElementOfSeq, RanksDiffer
    <3> QED
      BY <3>2, <3>4
  <2>6. ASSUME NEW i \in D, NEW j \in D, NEW l \in D, <<i, j>> \in order, <<j, l>> \in order
        PROVE  <<i, l>> \in order
    BY <2>1, <2>3, <2>6, BeforeTransitive
  <2>7. ASSUME NEW i \in D, NEW j \in D, i # j PROVE <<i, j>> \in order \/ <<j, i>> \in order
    BY <2>1, <2>3, <2>4, <2>7, BeforeTotal
  <2>8. Linear(D, order)
    BY <2>5, <2>6, <2>7 DEF Linear
  <2> QED
    BY <2>8 DEF D, order
<1> QED
  BY <1>1, <1>2

--------------------------------------------------------------------------------
(* The verification.                                                               *)

PackValues == [kind : ValueKinds, size : Nat, strs : Seq(Strings)]
PackParams == [name : Seq(Chars), value : PackValues]

LEMMA LimitsType ==
    /\ Limit.list \in Nat /\ Limit.list > 0
    /\ Limit.params \in Nat /\ Limit.paramName \in Nat /\ Limit.customParams \in Nat
BY LimitAssumption

IsLong(p) == p.value.kind \in {"list", "strings"} /\ p.value.size > Limit.list
EscapedParam(p) == [p EXCEPT !.value.strs = EscapedAll(@)]

LEMMA EscapedParamIs ==
    ASSUME NEW p \in PackParams
    PROVE  /\ EscapedParam(p).name = p.name
           /\ EscapedParam(p).value.kind = p.value.kind
           /\ EscapedParam(p).value.size = p.value.size
           /\ EscapedParam(p).value.strs = EscapedAll(p.value.strs)
           /\ DOMAIN EscapedParam(p) = {"name", "value"}
           /\ DOMAIN EscapedParam(p).value = {"kind", "size", "strs"}
BY DEF EscapedParam, PackParams, PackValues

LEMMA CutIs ==
    ASSUME NEW p \in PackParams
    PROVE  LET r == Cut(EscapedParam(p)) IN
           /\ r.keep = TRUE /\ r.param.name = p.name
           /\ IsLong(p) =>
                /\ r.code = INVALID_LIST_SIZE /\ r.param.value.size = Limit.list
                /\ r.param.value.strs = Take(EscapedAll(p.value.strs), Limit.list)
           /\ ~IsLong(p) =>
                /\ r.code = SUCCESSFUL /\ r.param.value.size = p.value.size
                /\ r.param.value.strs = EscapedAll(p.value.strs)
<1> DEFINE q == EscapedParam(p)
<1>1. /\ q.name = p.name /\ q.value.kind = p.value.kind /\ q.value.size = p.value.size
      /\ q.value.strs = EscapedAll(p.value.strs)
      /\ DOMAIN q = {"name", "value"} /\ DOMAIN q.value = {"kind", "size", "strs"}
  BY EscapedParamIs
<1> HIDE DEF q
<1> DEFINE c == [q EXCEPT !.value.size = Limit.list, !.value.strs = Take(@, Limit.list)]
<1>2. /\ c.name = q.name /\ c.value.size = Limit.list
      /\ c.value.strs = Take(q.value.strs, Limit.list)
  BY <1>1
<1>3. IsLong(p) <=> q.value.kind \in {"list", "strings"} /\ q.value.size > Limit.list
  BY <1>1 DEF IsLong
<1> HIDE DEF c
<1>4. Cut(q) = IF IsLong(p) THEN Keep(c, INVALID_LIST_SIZE) ELSE Keep(q, SUCCESSFUL)
  BY <1>3 DEF Cut, c
<1>5. CASE IsLong(p)
  <2>1. /\ Cut(q).keep = TRUE /\ Cut(q).code = INVALID_LIST_SIZE /\ Cut(q).param = c
    BY <1>4, <1>5 DEF Keep
  <2> QED
    BY <1>1, <1>2, <1>5, <2>1 DEF q
<1>6. CASE ~IsLong(p)
  <2>1. /\ Cut(q).keep = TRUE /\ Cut(q).code = SUCCESSFUL /\ Cut(q).param = q
    BY <1>4, <1>6 DEF Keep
  <2> QED
    BY <1>1, <1>6, <2>1 DEF q
<1> QED
  BY <1>5, <1>6

LEMMA AcceptableIs ==
    ASSUME NEW p \in PackParams
    PROVE  Acceptable(p) <=> IsValidParamName(p.name) /\ Fits(p.value.strs, MaxStrOf(p))
<1>1. Cut(EscapedParam(p)).keep = TRUE
  BY CutIs
<1> QED
  BY <1>1 DEF Acceptable, VerifyAppEventParam, Drop, EscapedParam

LEMMA VerifyParamIs ==
    ASSUME NEW p \in PackParams, NEW names
    PROVE  LET r == VerifyAppEventParam(p, names) IN
           /\ p.name \notin names /\ Acceptable(p) => r = Cut(EscapedParam(p)) /\ r.keep = TRUE
           /\ p.name \in names \/ ~Acceptable(p) =>
                r.keep = FALSE /\ r.code \in {DUPLICATE_PARAM, INVALID_PARAM_NAME, INVALID_VALUE_LENGTH}
<1>1. Cut(EscapedParam(p)).keep = TRUE
  BY CutIs
<1>2. Acceptable(p) <=> IsValidParamName(p.name) /\ Fits(p.value.strs, MaxStrOf(p))
  BY AcceptableIs
<1> QED
  BY <1>1, <1>2 DEF VerifyAppEventParam, Drop, EscapedParam

\* Which places are kept: those of acceptable parameters whose names have not been met.
Kept(params, order) ==
    {i \in DOMAIN params : Acceptable(params[i]) /\ params[i].name \notin NamesMet(params, order, i)}

LEMMA VerifyParamsIs ==
    ASSUME NEW params, IsFiniteSet(DOMAIN params), \A i \in DOMAIN params : params[i] \in PackParams,
           NEW order, Linear(DOMAIN params, order)
    PROVE  LET r == VerifyParams(params, order) IN
           /\ DOMAIN r = {"params", "code"} /\ DOMAIN r.params = Kept(params, order)
           /\ \A i \in Kept(params, order) : r.params[i] = Cut(EscapedParam(params[i])).param
           /\ r.code \in Nat
           /\ r.code = SUCCESSFUL <=> \A i \in DOMAIN params : i \in Kept(params, order) /\ ~IsLong(params[i])
<1> DEFINE v == [i \in DOMAIN params |-> VerifyAppEventParam(params[i], NamesMet(params, order, i))]
           codes == [i \in DOMAIN params |-> v[i].code]
           K == Kept(params, order)
           r == VerifyParams(params, order)
<1>1. /\ r.code = LastProblem(codes, order)
      /\ r.params = [i \in {k \in DOMAIN params : v[k].keep} |-> v[i].param]
      /\ DOMAIN r = {"params", "code"}
  BY DEF VerifyParams
<1>2. ASSUME NEW i \in DOMAIN params
      PROVE  /\ i \in K => v[i] = Cut(EscapedParam(params[i])) /\ v[i].keep = TRUE
             /\ i \notin K => /\ v[i].keep = FALSE
                              /\ v[i].code \in {DUPLICATE_PARAM, INVALID_PARAM_NAME, INVALID_VALUE_LENGTH}
  <2> DEFINE names == NamesMet(params, order, i)
  <2>1. i \in K <=> Acceptable(params[i]) /\ params[i].name \notin names
    BY DEF Kept
  <2>2. v[i] = VerifyAppEventParam(params[i], names)
    OBVIOUS
  <2> HIDE DEF v, names, K
  <2>3. params[i] \in PackParams
    OBVIOUS
  <2> DEFINE p == params[i]
             w == VerifyAppEventParam(p, names)
  <2>4. /\ p.name \notin names /\ Acceptable(p) => w = Cut(EscapedParam(p)) /\ w.keep = TRUE
        /\ p.name \in names \/ ~Acceptable(p) =>
             w.keep = FALSE /\ w.code \in {DUPLICATE_PARAM, INVALID_PARAM_NAME, INVALID_VALUE_LENGTH}
    BY <2>3, VerifyParamIs
  <2> QED
    BY <2>1, <2>2, <2>4
<1>3. K \subseteq DOMAIN params
  BY DEF Kept
<1>4. ASSUME NEW i \in DOMAIN params
      PROVE  /\ codes[i] \in Nat
             /\ codes[i] = SUCCESSFUL <=> i \in K /\ ~IsLong(params[i])
  <2>1. codes[i] = v[i].code
    OBVIOUS
  <2> HIDE DEF codes, v, K
  <2>2. CASE i \in K
    <3>1. /\ IsLong(params[i]) => v[i].code = INVALID_LIST_SIZE
          /\ ~IsLong(params[i]) => v[i].code = SUCCESSFUL
      BY <1>2, <2>2, CutIs
    <3> QED
      BY <2>1, <2>2, <3>1 DEF INVALID_LIST_SIZE, SUCCESSFUL
  <2>3. CASE i \notin K
    <3>1. v[i].code \in {DUPLICATE_PARAM, INVALID_PARAM_NAME, INVALID_VALUE_LENGTH}
      BY <1>2, <2>3
    <3>2. v[i].code \in Nat /\ v[i].code # SUCCESSFUL
      BY <3>1 DEF DUPLICATE_PARAM, INVALID_PARAM_NAME, INVALID_VALUE_LENGTH, SUCCESSFUL
    <3> QED
      BY <2>1, <2>3, <3>2
  <2> QED
    BY <2>2, <2>3
<1>5. DOMAIN codes = DOMAIN params
  OBVIOUS
<1> HIDE DEF v, codes, K
<1>6. {k \in DOMAIN params : v[k].keep} = K
  BY <1>2, <1>3
<1>7. DOMAIN r.params = K /\ \A i \in K : r.params[i] = v[i].param
  BY <1>1, <1>6
<1>8. /\ LastProblem(codes, order) = SUCCESSFUL \/ \E i \in DOMAIN params : LastProblem(codes, order) = codes[i]
      /\ LastProblem(codes, order) = SUCCESSFUL <=> \A i \in DOMAIN params : codes[i] = SUCCESSFUL
  BY <1>5, LastProblemIs
<1>9. r.code \in Nat
  BY <1>1, <1>4, <1>8 DEF SUCCESSFUL
<1>10. r.code = SUCCESSFUL <=> \A i \in DOMAIN params : i \in K /\ ~IsLong(params[i])
  BY <1>1, <1>4, <1>8
<1>11. \A i \in K : r.params[i] = Cut(EscapedParam(params[i])).param
  BY <1>2, <1>3, <1>7
<1> QED
  BY <1>1, <1>7, <1>9, <1>10, <1>11 DEF K

LEMMA KeptOnce ==
    ASSUME NEW params, NEW order, Linear(DOMAIN params, order),
           NEW i \in Kept(params, order), NEW j \in Kept(params, order), params[i].name = params[j].name
    PROVE  i = j
<1> SUFFICES ASSUME i # j PROVE FALSE
  OBVIOUS
<1>1. /\ i \in DOMAIN params /\ Acceptable(params[i]) /\ params[i].name \notin NamesMet(params, order, i)
      /\ j \in DOMAIN params /\ Acceptable(params[j]) /\ params[j].name \notin NamesMet(params, order, j)
  BY DEF Kept
<1>2. <<i, j>> \in order => params[i].name \in NamesMet(params, order, j)
  BY <1>1 DEF NamesMet, Ahead
<1>3. <<j, i>> \in order => params[j].name \in NamesMet(params, order, i)
  BY <1>1 DEF NamesMet, Ahead
<1> QED
  BY <1>1, <1>2, <1>3 DEF Linear

\* The limit of the number of parameters.
LEMMA CheckParamsNumIs ==
    ASSUME NEW acc, IsFiniteSet(DOMAIN acc.params), NEW order, Linear(DOMAIN acc.params, order),
           acc.code \in Nat
    PROVE  LET r == CheckParamsNum(acc, order) IN
           /\ r.code \in Nat
           /\ DOMAIN r.params \subseteq DOMAIN acc.params
           /\ Cardinality(DOMAIN r.params) \in Nat /\ Cardinality(DOMAIN r.params) <= Limit.params
           /\ \A i \in DOMAIN r.params : r.params[i] = acc.params[i]
           /\ Cardinality(DOMAIN acc.params) <= Limit.params => r = acc
           /\ r.code = SUCCESSFUL => acc.code = SUCCESSFUL
           /\ acc.code = SUCCESSFUL /\ r.code # SUCCESSFUL => DOMAIN r.params # DOMAIN acc.params
           /\ DOMAIN r.params # DOMAIN acc.params => r.code # SUCCESSFUL
<1> DEFINE D == DOMAIN acc.params
           F == {k \in D : Cardinality(Ahead(D, order, k)) < Limit.params}
           r == CheckParamsNum(acc, order)
<1>1. Limit.params \in Nat
  BY LimitsType
<1>2. Cardinality(D) \in Nat
  BY FS_CardinalityType
<1>3. CASE Cardinality(D) > Limit.params
  <2>1. r.params = FirstParams(acc.params, order, Limit.params) /\ r.code = INVALID_PARAM_NUM
    BY <1>3 DEF CheckParamsNum
  <2>2. DOMAIN r.params = F /\ \A i \in F : r.params[i] = acc.params[i]
    BY <2>1 DEF FirstParams
  <2>3. IsFiniteSet(F) /\ Cardinality(F) <= Limit.params
    BY <1>1, FirstAreFew
  <2>4. Cardinality(F) \in Nat
    BY <2>3, FS_CardinalityType
  <2>5. F # D
    BY <1>1, <1>2, <1>3, <2>3, <2>4
  <2>6. r.code \in Nat /\ r.code # SUCCESSFUL
    BY <2>1 DEF INVALID_PARAM_NUM, SUCCESSFUL
  <2>7. F \subseteq D /\ ~(Cardinality(D) <= Limit.params)
    BY <1>1, <1>2, <1>3
  <2> HIDE DEF F, r
  <2> QED
    BY <2>2, <2>3, <2>4, <2>5, <2>6, <2>7 DEF r
<1>4. CASE Cardinality(D) <= Limit.params
  <2>1. r = acc
    BY <1>1, <1>2, <1>4 DEF CheckParamsNum
  <2> QED
    BY <1>2, <1>4, <2>1
<1> QED
  BY <1>1, <1>2, <1>3, <1>4

--------------------------------------------------------------------------------
(* The conversion.                                                                 *)

\* The C library copies no more of an array than shows that it is too long.
Shortened(b, p) == b = "c" /\ IsArray(p) /\ p.value.size > Limit.list

\* What becomes of a parameter that is converted.
Faithful(b, p, q) ==
    /\ q \in PackParams /\ q.name = p.name
    /\ q.value.kind = "string" <=> p.value.kind = "string"
    /\ IsLong(q) <=> IsLong(p)
    /\ Shortened(b, p) => /\ q.value.size = Limit.list + 1
                          /\ q.value.strs = Take(p.value.strs, Limit.list + 1)
    /\ ~Shortened(b, p) => q.value.size = p.value.size /\ q.value.strs = p.value.strs

CanBeGiven(b, p) ==
    /\ p.value.kind = "mixed" => b \in Objects
    /\ p.value.kind = "other" => b # "native"

LEMMA ParamsType ==
    ASSUME NEW p \in Params
    PROVE  /\ p \in PackParams /\ p.name \in Seq(Chars) /\ p.value.kind \in ValueKinds
           /\ p.value.size \in Nat /\ p.value.strs \in Seq(Strings)
           /\ p.value.size # 0 => p.value.kind \in {"list", "strings", "mixed"}
           /\ p.value.strs # <<>> => p.value.kind = "string" \/
                (p.value.kind = "strings" /\ p.value.size = Len(p.value.strs))
BY DEF Params, Values, PackParams, PackValues

LEMMA TakeIs ==
    ASSUME NEW S, NEW s \in Seq(S), NEW n \in Nat
    PROVE  /\ Take(s, n) \in Seq(S)
           /\ Len(Take(s, n)) = IF n < Len(s) THEN n ELSE Len(s)
           /\ Len(Take(s, n)) <= n /\ Len(Take(s, n)) <= Len(s)
           /\ \A i \in 1..Len(Take(s, n)) : i \in 1..Len(s) /\ Take(s, n)[i] = s[i]
<1> DEFINE m == IF n < Len(s) THEN n ELSE Len(s)
<1>1. Len(s) \in Nat /\ m \in Nat /\ m <= n /\ m <= Len(s) /\ m \in Int /\ 1 \in Int
  BY LenProperties
<1>2. Take(s, n) = SubSeq(s, 1, m)
  BY DEF Take
<1> HIDE DEF m
<1>3. \A i \in 1..m : i \in 1..Len(s) /\ s[i] \in S
  BY <1>1, ElementOfSeq
<1>4. /\ SubSeq(s, 1, m) \in Seq(S) /\ Len(SubSeq(s, 1, m)) = IF 1 <= m THEN m - 1 + 1 ELSE 0
      /\ \A i \in 1..(m - 1 + 1) : SubSeq(s, 1, m)[i] = s[1 + i - 1]
  BY <1>1, <1>3, SubSeqProperties
<1>5. Len(Take(s, n)) = m
  BY <1>1, <1>2, <1>4
<1>6. \A i \in 1..m : SubSeq(s, 1, m)[i] = s[i]
  BY <1>1, <1>4
<1> QED
  BY <1>1, <1>2, <1>3, <1>4, <1>5, <1>6 DEF m

LEMMA EqualIsFaithful ==
    ASSUME NEW b, NEW p \in Params, ~Shortened(b, p)
    PROVE  Faithful(b, p, p)
BY ParamsType DEF Faithful

LEMMA ArrayTypeIsFaithful ==
    ASSUME NEW b \in Objects, NEW p \in Params
    PROVE  Faithful(b, p, WithArrayType(p))
<1> DEFINE q == WithArrayType(p)
<1>1. /\ p \in PackParams /\ p.name \in Seq(Chars) /\ p.value.kind \in ValueKinds
      /\ p.value.size \in Nat /\ p.value.strs \in Seq(Strings)
  BY ParamsType
<1>2. /\ q.name = p.name /\ q.value.kind = GetArrayType(p) /\ q.value.size = p.value.size
      /\ q.value.strs = p.value.strs
  BY <1>1 DEF WithArrayType, PackParams, PackValues
<1>3. GetArrayType(p) \in ValueKinds
  BY <1>1 DEF GetArrayType, ValueKinds
<1>4. q \in PackParams
  BY <1>1, <1>3 DEF WithArrayType, PackParams, PackValues
<1>5. ~Shortened(b, p)
  BY DEF Shortened, Objects
<1>6. GetArrayType(p) = "string" <=> p.value.kind = "string"
  BY DEF GetArrayType, IsArray
<1>7. IsLong(q) <=> IsLong(p)
  <2>1. Limit.list \in Nat
    BY LimitsType
  <2>2. p.value.size > Limit.list => GetArrayType(p) = p.value.kind
    BY <1>1, <2>1 DEF GetArrayType
  <2> QED
    BY <1>2, <2>2 DEF IsLong
<1> HIDE DEF q
<1> QED
  BY <1>2, <1>4, <1>5, <1>6, <1>7 DEF Faithful, q

LEMMA ShortenedIsFaithful ==
    ASSUME NEW p \in Params, Shortened("c", p)
    PROVE  Faithful("c", p, [p EXCEPT !.value.size = Limit.list + 1,
                                      !.value.strs = Take(@, Limit.list + 1)])
<1> DEFINE q == [p EXCEPT !.value.size = Limit.list + 1, !.value.strs = Take(@, Limit.list + 1)]
           strs == Take(p.value.strs, Limit.list + 1)
<1>1. /\ p \in PackParams /\ p.name \in Seq(Chars) /\ p.value.kind \in ValueKinds
      /\ p.value.size \in Nat /\ p.value.strs \in Seq(Strings)
  BY ParamsType
<1>2. Limit.list \in Nat /\ Limit.list + 1 \in Nat
  BY LimitsType
<1>3. strs \in Seq(Strings)
  BY <1>1, <1>2, TakeIs
<1>4. /\ q.name = p.name /\ q.value.kind = p.value.kind /\ q.value.size = Limit.list + 1
      /\ q.value.strs = strs
  BY <1>1 DEF PackParams, PackValues
<1> HIDE DEF strs
<1>5. q \in PackParams
  <2> DEFINE w == [p EXCEPT !.value.size = Limit.list + 1]
             v == [p.value EXCEPT !.size = Limit.list + 1]
  <2>1. v \in PackValues /\ w = [p EXCEPT !.value = v]
    BY <1>1, <1>2 DEF PackParams, PackValues
  <2> HIDE DEF v
  <2>2. w \in PackParams /\ w.value.strs = p.value.strs
    BY <1>1, <1>2, <2>1 DEF PackParams, PackValues
  <2>3. q = [w EXCEPT !.value.strs = strs]
    BY <1>1, <2>1 DEF PackParams, PackValues, strs
  <2> HIDE DEF w, q
  <2>4. [w EXCEPT !.value.strs = strs] \in PackParams
    BY <1>3, <2>2 DEF PackParams, PackValues
  <2> QED
    BY <2>3, <2>4
<1> HIDE DEF q
<1>8. IsLong(q) /\ IsLong(p)
  <2>1. Limit.list + 1 > Limit.list
    BY <1>2
  <2> QED
    BY <1>4, <2>1 DEF IsLong, Shortened, IsArray
<1>9. Faithful("c", p, q)
  BY <1>4, <1>5, <1>8 DEF Faithful, strs
<1> QED
  BY <1>9 DEF q

\* What a binding makes of one parameter of an event.
LEMMA ConvertParamIs ==
    ASSUME NEW b \in Bindings, NEW p \in Params, CanBeGiven(b, p)
    PROVE  LET m == ConvertParam(b, p, "write") IN
           /\ m.code \in Nat
           /\ \/ /\ m.keep = TRUE /\ m.end = FALSE /\ m.code = SUCCESSFUL
                 /\ Faithful(b, p, m.param) /\ ~LongKey(b, p)
                 /\ p.value.kind \notin {"mixed", "other"}
              \/ m.keep = FALSE /\ m.end = FALSE /\ m.code # SUCCESSFUL /\ LongKey(b, p)
              \/ m.keep = FALSE /\ m.end = FALSE /\ m.code = SUCCESSFUL /\ Ignored(b, p)
              \/ /\ m.keep = FALSE /\ m.end = TRUE /\ b \in Objects /\ ~LongKey(b, p)
                 /\ p.value.kind \in {"mixed", "other"}
                 /\ b # "ets" => m.code # SUCCESSFUL
<1> DEFINE m == ConvertParam(b, p, "write")
<1>1. CASE LongKey(b, p)
  <2>1. m = [keep |-> FALSE, code |-> INVALID_PARAM_NAME, end |-> FALSE]
    BY <1>1 DEF ConvertParam, Ends
  <2> QED
    BY <1>1, <2>1 DEF INVALID_PARAM_NAME, SUCCESSFUL
<1>2. ASSUME ~LongKey(b, p) PROVE m = Convert(b, p, "write")
  BY <1>2 DEF ConvertParam
<1>3. CASE ~LongKey(b, p) /\ b \in Asynchronous
  <2>1. m = AddParam2EventPack(p) /\ b \in Objects /\ b # "ets"
    BY <1>2, <1>3 DEF Convert, Asynchronous, Objects
  <2>2. CASE p.value.kind = "other"
    <3>1. m = Ends(INVALID_VALUE_TYPE)
      BY <2>1, <2>2 DEF AddParam2EventPack
    <3> QED
      BY <1>3, <2>1, <2>2, <3>1 DEF Ends, INVALID_VALUE_TYPE, SUCCESSFUL
  <2>3. CASE p.value.kind = "mixed"
    <3>1. m = Ends(INVALID_LIST_TYPE)
      BY <2>1, <2>3 DEF AddParam2EventPack
    <3> QED
      BY <1>3, <2>1, <2>3, <3>1 DEF Ends, INVALID_LIST_TYPE, SUCCESSFUL
  <2>4. CASE p.value.kind \notin {"other", "mixed"}
    <3>1. m = Converted(WithArrayType(p))
      BY <2>1, <2>4 DEF AddParam2EventPack
    <3>2. Faithful(b, p, WithArrayType(p))
      BY <2>1, ArrayTypeIsFaithful
    <3> QED
      BY <1>3, <2>4, <3>1, <3>2 DEF Converted, SUCCESSFUL
  <2> QED
    BY <2>2, <2>3, <2>4
<1>4. CASE ~LongKey(b, p) /\ b = "ets"
  <2>1. m = AddParamToAppEventPack(p) /\ b \in Objects
    BY <1>2, <1>4 DEF Convert, Asynchronous, Objects
  <2>2. CASE p.value.kind \in {"other", "mixed"}
    <3>1. m = Ends(SUCCESSFUL)
      BY <2>1, <2>2 DEF AddParamToAppEventPack
    <3> QED
      BY <1>4, <2>1, <2>2, <3>1 DEF Ends, SUCCESSFUL
  <2>3. CASE p.value.kind \notin {"other", "mixed"}
    <3>1. m = Converted(WithArrayType(p))
      BY <2>1, <2>3 DEF AddParamToAppEventPack, EtsArrayType, WithArrayType
    <3>2. Faithful(b, p, WithArrayType(p))
      BY <2>1, ArrayTypeIsFaithful
    <3> QED
      BY <1>4, <2>3, <3>1, <3>2 DEF Converted, SUCCESSFUL
  <2> QED
    BY <2>2, <2>3
<1>5. CASE ~LongKey(b, p) /\ b = "c"
  <2>1. m = AddParamValue(p) /\ p.value.kind # "mixed"
    BY <1>2, <1>5 DEF Convert, Asynchronous, CanBeGiven, Objects
  <2>2. CASE p.value.kind = "other"
    BY <1>5, <2>1, <2>2 DEF AddParamValue, PassedOver, Ignored, SUCCESSFUL
  <2>3. CASE p.value.kind # "other" /\ Shortened(b, p)
    <3> DEFINE q == [p EXCEPT !.value.size = Limit.list + 1, !.value.strs = Take(@, Limit.list + 1)]
    <3>1. Faithful(b, p, q)
      BY <1>5, <2>3, ShortenedIsFaithful
    <3>2. m = Converted(q)
      BY <2>1, <2>3 DEF AddParamValue, Shortened
    <3> HIDE DEF q
    <3> QED
      BY <1>5, <2>1, <2>3, <3>1, <3>2 DEF Converted, SUCCESSFUL
  <2>4. CASE p.value.kind # "other" /\ ~Shortened(b, p)
    <3>1. m = Converted(p)
      BY <1>5, <2>1, <2>4 DEF AddParamValue, Shortened
    <3>2. Faithful(b, p, p)
      BY <2>4, EqualIsFaithful
    <3> QED
      BY <1>5, <2>1, <2>4, <3>1, <3>2 DEF Converted, SUCCESSFUL
  <2> QED
    BY <2>2, <2>3, <2>4
<1>6. CASE ~LongKey(b, p) /\ b = "cj"
  <2>1. m = AddParams2EventPackCj(p) /\ p.value.kind # "mixed"
    BY <1>2, <1>6 DEF Convert, Asynchronous, CanBeGiven, Objects
  <2>2. CASE p.value.kind = "other"
    BY <1>6, <2>1, <2>2 DEF AddParams2EventPackCj, PassedOver, Ignored, SUCCESSFUL
  <2>3. CASE p.value.kind # "other"
    <3>1. m = Converted(p)
      BY <2>1, <2>3 DEF AddParams2EventPackCj
    <3>2. Faithful(b, p, p)
      BY <1>6, EqualIsFaithful DEF Shortened
    <3> QED
      BY <1>6, <2>1, <2>3, <3>1, <3>2 DEF Converted, SUCCESSFUL
  <2> QED
    BY <2>2, <2>3
<1>7. CASE ~LongKey(b, p) /\ b = "native"
  <2>1. m = Converted(p) /\ p.value.kind \notin {"mixed", "other"}
    BY <1>2, <1>7 DEF Convert, Asynchronous, CanBeGiven, Objects
  <2>2. Faithful(b, p, p)
    BY <1>7, EqualIsFaithful DEF Shortened
  <2> QED
    BY <1>7, <2>1, <2>2 DEF Converted, SUCCESSFUL
<1> QED
  BY <1>1, <1>3, <1>4, <1>5, <1>6, <1>7 DEF Bindings, Objects, Asynchronous

--------------------------------------------------------------------------------
(* The pack that a binding builds of the arguments of write.                       *)

Arguments == [whole : BOOLEAN, domain : Seq(Chars), name : Seq(Chars), params : Seq(Params)]
Places(b, e) == DOMAIN Build(b, e.params, "write").params
Wanted(b, e) == {i \in DOMAIN e.params : ~Ignored(b, e.params[i])}

LEMMA ArgumentsAre ==
    ASSUME NEW b \in Bindings, NEW e \in Arguments, Expressible(b, e)
    PROVE  /\ e.params \in Seq(Params)
           /\ IsFiniteSet(DOMAIN e.params) /\ DOMAIN e.params \subseteq Nat
           /\ Cardinality(DOMAIN e.params) = Len(e.params)
           /\ \A i \in DOMAIN e.params : e.params[i] \in Params /\ CanBeGiven(b, e.params[i])
           /\ Linear(DOMAIN e.params, ParseRecord(b, e.params))
           /\ b \in Objects => \A i, j \in DOMAIN e.params :
                                   e.params[i].name = e.params[j].name => i = j
<1> DEFINE g == e.params
<1>1. g \in Seq(Params)
  BY DEF Arguments
<1>2. b \in Objects => \A i, j \in DOMAIN g : g[i].name = g[j].name => i = j
  BY DEF Expressible
<1>3. \A i \in DOMAIN g : CanBeGiven(b, g[i])
  BY DEF Expressible, CanBeGiven, Bindings, Objects
<1> HIDE DEF g
<1>4. DOMAIN g = 1..Len(g) /\ Len(g) \in Nat
  BY <1>1, LenProperties
<1>5. \A i \in DOMAIN g : g[i] \in Params
  BY <1>1, <1>4, ElementOfSeq
<1>6. IsFiniteSet(DOMAIN g) /\ Cardinality(DOMAIN g) = Len(g) /\ DOMAIN g \subseteq Nat
  <2>1. 1 \in Int /\ Len(g) \in Int /\ (1 > Len(g) => Len(g) = 0) /\ Len(g) - 1 + 1 = Len(g)
    BY <1>4
  <2>2. IsFiniteSet(1..Len(g)) /\ Cardinality(1..Len(g)) = Len(g)
    BY <2>1, FS_Interval
  <2> QED
    BY <1>4, <2>2
<1>7. \A i \in DOMAIN g : g[i].name \in Seq(Chars)
  BY <1>5, ParamsType
<1>8. ByPlace(b, g) \/ (ByName(g) /\ b = "ets")
  BY <1>2, <1>6, <1>7 DEF ByPlace, ByName, Objects
<1>9. Linear(DOMAIN g, ParseRecord(b, g))
  BY <1>8, ParseRecordLinear
<1> QED
  BY <1>1, <1>2, <1>3, <1>5, <1>6, <1>9 DEF g

LEMMA BuildIs ==
    ASSUME NEW b \in Bindings, NEW e \in Arguments, Expressible(b, e)
    PROVE  LET built == Build(b, e.params, "write")
               B == Places(b, e)
               g == e.params IN
           /\ B \subseteq DOMAIN g /\ B \subseteq Wanted(b, e)
           /\ \A i \in B : /\ Faithful(b, g[i], built.params[i])
                           /\ ~LongKey(b, g[i]) /\ g[i].value.kind \notin {"mixed", "other"}
           /\ built.code \in Nat
           /\ b \in Objects /\ built.code # SUCCESSFUL => \E i \in Wanted(b, e) : i \notin B
           /\ (b \in Objects => built.code = SUCCESSFUL) /\ (b = "ets" => built.ok)
                => B = Wanted(b, e)
           /\ (\A i \in DOMAIN g : g[i].value.kind \notin {"mixed", "other"})
                => B = {i \in DOMAIN g : ~LongKey(b, g[i])}
<1> DEFINE g == e.params
           D == DOMAIN g
           order == ParseRecord(b, g)
           made == [i \in D |-> ConvertParam(b, g[i], "write")]
           R == {i \in D : \A j \in Ahead(D, order, i) : ~made[j].end}
           codes == [i \in R |-> made[i].code]
           built == Build(b, g, "write")
           B == {k \in R : made[k].keep}
           W == Wanted(b, e)
<1>1. /\ built.params = [i \in B |-> made[i].param] /\ built.code = LastProblem(codes, order)
      /\ built.ok = \A i \in R : made[i].end => LongKey(b, g[i])
  BY DEF Build
<1>2. IsFiniteSet(D) /\ Linear(D, order) /\ \A i \in D : g[i] \in Params /\ CanBeGiven(b, g[i])
  BY ArgumentsAre
<1>3. W = {i \in D : ~Ignored(b, g[i])}
  BY DEF Wanted
<1>4. R \in SUBSET D /\ DOMAIN codes = R /\ B \in SUBSET R /\ Places(b, e) = DOMAIN built.params
  BY DEF Places
<1>5. \A i \in R : codes[i] = made[i].code
  OBVIOUS
<1>6. \A i \in D : made[i] = ConvertParam(b, g[i], "write")
  OBVIOUS
<1> HIDE DEF made, codes, built
<1>7. ASSUME NEW i \in D
      PROVE  LET m == made[i]  p == g[i] IN
             /\ m.code \in Nat
             /\ \/ /\ m.keep = TRUE /\ m.end = FALSE /\ m.code = SUCCESSFUL
                   /\ Faithful(b, p, m.param) /\ ~LongKey(b, p)
                   /\ p.value.kind \notin {"mixed", "other"}
                \/ m.keep = FALSE /\ m.end = FALSE /\ m.code # SUCCESSFUL /\ LongKey(b, p)
                \/ m.keep = FALSE /\ m.end = FALSE /\ m.code = SUCCESSFUL /\ Ignored(b, p)
                \/ /\ m.keep = FALSE /\ m.end = TRUE /\ b \in Objects /\ ~LongKey(b, p)
                   /\ p.value.kind \in {"mixed", "other"}
                   /\ b # "ets" => m.code # SUCCESSFUL
  <2> DEFINE p == g[i]
  <2>1. p \in Params /\ CanBeGiven(b, p) /\ made[i] = ConvertParam(b, p, "write")
    BY <1>2, <1>6
  <2> HIDE DEF p
  <2>2. LET m == ConvertParam(b, p, "write") IN
        /\ m.code \in Nat
        /\ \/ /\ m.keep = TRUE /\ m.end = FALSE /\ m.code = SUCCESSFUL
              /\ Faithful(b, p, m.param) /\ ~LongKey(b, p)
              /\ p.value.kind \notin {"mixed", "other"}
           \/ m.keep = FALSE /\ m.end = FALSE /\ m.code # SUCCESSFUL /\ LongKey(b, p)
           \/ m.keep = FALSE /\ m.end = FALSE /\ m.code = SUCCESSFUL /\ Ignored(b, p)
           \/ /\ m.keep = FALSE /\ m.end = TRUE /\ b \in Objects /\ ~LongKey(b, p)
              /\ p.value.kind \in {"mixed", "other"}
              /\ b # "ets" => m.code # SUCCESSFUL
    BY <2>1, ConvertParamIs
  <2> QED
    BY <2>1, <2>2 DEF p
<1>8. (\A i \in D : ~made[i].end) => R = D
  BY DEF Ahead
<1>9. ASSUME \A i \in R : ~made[i].end PROVE R = D
  <2> DEFINE E == {i \in D : made[i].end}
  <2>1. SUFFICES ASSUME E # {} PROVE FALSE
    BY <1>8
  <2>2. IsFiniteSet(E) /\ Linear(E, order)
    <3>1. E \in SUBSET D
      OBVIOUS
    <3> QED
      BY <1>2, <3>1, FS_Subset, LinearSubset
  <2>3. PICK i \in E : Ahead(E, order, i) = {}
    BY <2>1, <2>2, EarliestExists
  <2>4. i \in R
    BY <2>3 DEF Ahead
  <2> QED
    BY <1>9, <2>3, <2>4
<1>10. IsFiniteSet(R) /\ Linear(R, order)
  BY <1>2, <1>4, FS_Subset, LinearSubset
<1> HIDE DEF R
<1>11. /\ built.code = SUCCESSFUL \/ \E i \in R : built.code = codes[i]
       /\ built.code = SUCCESSFUL <=> \A i \in R : codes[i] = SUCCESSFUL
  BY <1>1, <1>4, <1>10, LastProblemIs
<1>12. built.code \in Nat
  <2>1. \A i \in R : codes[i] \in Nat
    BY <1>4, <1>5, <1>7
  <2> QED
    BY <1>11, <2>1 DEF SUCCESSFUL
<1>13. DOMAIN built.params = B /\ \A i \in B : built.params[i] = made[i].param
  BY <1>1
<1>14. \A i \in B : /\ Faithful(b, g[i], made[i].param)
                    /\ ~LongKey(b, g[i]) /\ g[i].value.kind \notin {"mixed", "other"}
  BY <1>4, <1>7
<1>15. B \subseteq W
  BY <1>3, <1>4, <1>14 DEF Ignored
<1>16. b \in Objects /\ built.code # SUCCESSFUL => \E i \in W : i \notin B
  <2>1. b \in Objects => \A i \in D : i \in W
    BY <1>3 DEF Ignored, Objects
  <2> QED
    BY <1>4, <1>5, <1>7, <1>11, <2>1
<1>17. ASSUME b \in Objects => built.code = SUCCESSFUL, b = "ets" => built.ok PROVE B = W
  <2>1. ASSUME NEW i \in R PROVE ~made[i].end /\ (made[i].keep \/ Ignored(b, g[i]))
    <3>1. i \in D
      BY <1>4
    <3>2. b \in Objects => made[i].code = SUCCESSFUL
      BY <1>5, <1>11, <1>17
    <3>3. LongKey(b, g[i]) => b \in Objects
      BY DEF LongKey
    <3>4. b = "ets" /\ made[i].end => LongKey(b, g[i])
      BY <1>1, <1>17
    <3> QED
      BY <1>7, <3>1, <3>2, <3>3, <3>4
  <2>2. R = D
    BY <1>9, <2>1
  <2> QED
    BY <1>3, <1>15, <2>1, <2>2
<1>18. ASSUME \A i \in D : g[i].value.kind \notin {"mixed", "other"}
       PROVE  B = {i \in D : ~LongKey(b, g[i])}
  <2>1. ASSUME NEW i \in D PROVE ~made[i].end /\ (made[i].keep <=> ~LongKey(b, g[i]))
    <3>1. ~Ignored(b, g[i])
      BY <1>18 DEF Ignored
    <3> QED
      BY <1>7, <1>18, <3>1
  <2>2. R = D
    BY <1>4, <1>9, <2>1
  <2> QED
    BY <2>1, <2>2
<1> HIDE DEF W, B, g
<1> QED
  BY <1>4, <1>12, <1>13, <1>14, <1>15, <1>16, <1>17, <1>18 DEF D, W, g, built

--------------------------------------------------------------------------------
(* What the verification makes of a parameter of the pack, against what was given. *)

Doubled == {Escaped(x) : x \in Strings}

LEMMA EscapedAllIs ==
    ASSUME NEW s \in Seq(Strings)
    PROVE  /\ EscapedAll(s) \in Seq(Doubled) /\ Len(EscapedAll(s)) = Len(s)
           /\ \A i \in 1..Len(s) : EscapedAll(s)[i] = Escaped(s[i])
<1>1. DOMAIN s = 1..Len(s) /\ Len(s) \in Nat
  BY LenProperties
<1>2. \A i \in 1..Len(s) : s[i] \in Strings
  BY ElementOfSeq
<1>3. EscapedAll(s) = [i \in 1..Len(s) |-> Escaped(s[i])]
  BY <1>1 DEF EscapedAll
<1>4. EscapedAll(s) \in [1..Len(s) -> Doubled]
  BY <1>2, <1>3 DEF Doubled
<1> QED
  BY <1>1, <1>3, <1>4, SeqDef, LenProperties

\* t is the beginning of s, every string escaped.
Begins(t, s) ==
    /\ t \in Seq(Doubled) /\ Len(t) <= Len(s)
    /\ \A i \in 1..Len(t) : t[i] = Escaped(s[i])

LEMMA BeginsWhole ==
    ASSUME NEW s \in Seq(Strings)
    PROVE  Begins(EscapedAll(s), s)
<1>1. Len(s) \in Nat
  BY LenProperties
<1> QED
  BY <1>1, EscapedAllIs DEF Begins

LEMMA BeginsTaken ==
    ASSUME NEW s \in Seq(Strings), NEW m \in Nat, NEW n \in Nat, n <= m
    PROVE  /\ Begins(Take(EscapedAll(s), n), s)
           /\ Take(EscapedAll(Take(s, m)), n) = Take(EscapedAll(s), n)
           /\ Len(Take(EscapedAll(s), n)) <= Len(Take(s, m))
<1> DEFINE u == Take(s, m)
           t == Take(EscapedAll(u), n)
           w == Take(EscapedAll(s), n)
<1>1. /\ u \in Seq(Strings) /\ Len(u) = IF m < Len(s) THEN m ELSE Len(s)
      /\ \A i \in 1..Len(u) : i \in 1..Len(s) /\ u[i] = s[i]
  BY TakeIs
<1>2. /\ EscapedAll(s) \in Seq(Doubled) /\ Len(EscapedAll(s)) = Len(s)
      /\ \A i \in 1..Len(s) : EscapedAll(s)[i] = Escaped(s[i])
  BY EscapedAllIs
<1>3. /\ w \in Seq(Doubled) /\ Len(w) = IF n < Len(s) THEN n ELSE Len(s)
      /\ \A i \in 1..Len(w) : i \in 1..Len(s) /\ w[i] = EscapedAll(s)[i]
  BY <1>2, TakeIs
<1> HIDE DEF u, w
<1>4. /\ EscapedAll(u) \in Seq(Doubled) /\ Len(EscapedAll(u)) = Len(u)
      /\ \A i \in 1..Len(u) : EscapedAll(u)[i] = Escaped(u[i])
  BY <1>1, EscapedAllIs
<1>5. /\ t \in Seq(Doubled) /\ Len(t) = IF n < Len(u) THEN n ELSE Len(u)
      /\ \A i \in 1..Len(t) : i \in 1..Len(u) /\ t[i] = EscapedAll(u)[i]
  BY <1>4, TakeIs
<1> HIDE DEF t
<1>6. Len(s) \in Nat
  BY LenProperties
<1>7. Len(t) = Len(w) /\ Len(w) <= Len(u) /\ Len(w) <= Len(s)
  BY <1>1, <1>3, <1>5, <1>6
<1>8. \A i \in 1..Len(w) : w[i] = Escaped(s[i])
  BY <1>2, <1>3
<1>9. \A i \in 1..Len(t) : t[i] = Escaped(s[i])
  BY <1>1, <1>4, <1>5
<1>10. t = w
  BY <1>3, <1>5, <1>7, <1>8, <1>9, SeqEqual
<1> QED
  BY <1>3, <1>7, <1>8, <1>10 DEF Begins, t, u, w

LEMMA BeginsIs ==
    ASSUME NEW s \in Seq(Strings), NEW t, Begins(t, s)
    PROVE  /\ t = SubSeq(EscapedAll(s), 1, Len(t))
           /\ Len(t) = Len(s) => t = EscapedAll(s)
<1> DEFINE w == EscapedAll(s)
           n == Len(t)
<1>1. w \in Seq(Doubled) /\ Len(w) = Len(s) /\ \A i \in 1..Len(s) : w[i] = Escaped(s[i])
  BY EscapedAllIs
<1>2. t \in Seq(Doubled) /\ n \in Nat /\ n <= Len(s) /\ Len(s) \in Nat
  BY LenProperties DEF Begins
<1>3. \A i \in 1..n : i \in 1..Len(s) /\ t[i] = w[i]
  BY <1>1, <1>2 DEF Begins
<1> HIDE DEF w
<1>4. \A i \in 1..n : w[i] \in Doubled
  BY <1>1, <1>3, ElementOfSeq
<1>5. /\ SubSeq(w, 1, n) \in Seq(Doubled) /\ Len(SubSeq(w, 1, n)) = IF 1 <= n THEN n - 1 + 1 ELSE 0
      /\ \A i \in 1..(n - 1 + 1) : SubSeq(w, 1, n)[i] = w[1 + i - 1]
  BY <1>2, <1>4, SubSeqProperties
<1>6. Len(SubSeq(w, 1, n)) = n /\ \A i \in 1..n : SubSeq(w, 1, n)[i] = w[i]
  BY <1>2, <1>5
<1>7. t = SubSeq(w, 1, n)
  BY <1>2, <1>3, <1>5, <1>6, SeqEqual
<1>8. n = Len(s) => t = w
  BY <1>1, <1>2, <1>3, SeqEqual
<1> QED
  BY <1>7, <1>8 DEF w

LEMMA FitsBeginning ==
    ASSUME NEW s \in Seq(Strings), NEW m \in Nat, NEW max, Fits(Take(s, m), max),
           NEW n \in Nat, n <= Len(Take(s, m))
    PROVE  Fits(SubSeq(s, 1, n), max)
<1> DEFINE u == Take(s, m)
<1>1. /\ u \in Seq(Strings) /\ Len(u) <= Len(s)
      /\ \A i \in 1..Len(u) : i \in 1..Len(s) /\ u[i] = s[i]
  BY TakeIs
<1> HIDE DEF u
<1>2. Len(u) \in Nat /\ DOMAIN u = 1..Len(u) /\ n <= Len(u)
  BY <1>1, LenProperties DEF u
<1>3. \A i \in 1..n : i \in 1..Len(u) /\ s[i] = u[i] /\ s[i] \in Strings
  BY <1>1, <1>2, ElementOfSeq
<1>4. /\ SubSeq(s, 1, n) \in Seq(Strings) /\ Len(SubSeq(s, 1, n)) = IF 1 <= n THEN n - 1 + 1 ELSE 0
      /\ \A i \in 1..(n - 1 + 1) : SubSeq(s, 1, n)[i] = s[1 + i - 1]
  BY <1>3, SubSeqProperties
<1>5. Len(SubSeq(s, 1, n)) = n /\ DOMAIN SubSeq(s, 1, n) = 1..n /\ \A i \in 1..n : SubSeq(s, 1, n)[i] = u[i]
  BY <1>3, <1>4, LenProperties
<1>6. \A i \in 1..Len(u) : u[i].len <= max
  BY <1>2 DEF Fits, u
<1> QED
  BY <1>3, <1>5, <1>6 DEF Fits

LEMMA TakeAll ==
    ASSUME NEW S, NEW s \in Seq(S), NEW n \in Nat, Len(s) <= n
    PROVE  Take(s, n) = s
<1>1. Len(s) \in Nat
  BY LenProperties
<1>2. Take(s, n) \in Seq(S) /\ Len(Take(s, n)) = Len(s)
  BY <1>1, TakeIs
<1>3. \A i \in 1..Len(s) : Take(s, n)[i] = s[i]
  BY <1>2, TakeIs
<1> QED
  BY <1>2, <1>3, SeqEqual

\* Why a parameter that was given is good: it would be kept if no other had its name.
Good(p) == IsValidParamName(p.name) /\ Fits(p.value.strs, MaxStrOf(p))

\* What is written of a good parameter.
CutSize(p) == IF IsLong(p) THEN Limit.list ELSE p.value.size
CutStrs(p) == IF IsLong(p) THEN Take(EscapedAll(p.value.strs), Limit.list) ELSE EscapedAll(p.value.strs)

LEMMA FaithfulStrings ==
    ASSUME NEW b, NEW p \in Params, NEW q, Faithful(b, p, q)
    PROVE  /\ MaxStrOf(q) = MaxStrOf(p)
           /\ \E m \in Nat : /\ q.value.strs = Take(p.value.strs, m)
                             /\ IsLong(p) => Limit.list <= m
                             /\ ~Shortened(b, p) => q.value.strs = p.value.strs
                             /\ Len(p.value.strs) <= Limit.list + 1 => q.value.strs = p.value.strs
<1> DEFINE s == p.value.strs
<1>1. s \in Seq(Strings)
  BY ParamsType
<1>2. Limit.list \in Nat /\ Limit.list + 1 \in Nat /\ Limit.list <= Limit.list + 1
  BY LimitsType
<1>3. MaxStrOf(q) = MaxStrOf(p)
  BY DEF Faithful, MaxStrOf
<1> HIDE DEF s
<1>4. CASE Shortened(b, p)
  <2>1. q.value.strs = Take(s, Limit.list + 1)
    BY <1>4 DEF Faithful, s
  <2>2. Len(s) <= Limit.list + 1 => Take(s, Limit.list + 1) = s
    BY <1>1, <1>2, TakeAll
  <2> QED
    BY <1>2, <1>3, <1>4, <2>1, <2>2 DEF s
<1>5. CASE ~Shortened(b, p)
  <2> DEFINE m == Len(s) + Limit.list
  <2>1. m \in Nat /\ Limit.list <= m /\ Len(s) <= m
    BY <1>1, <1>2, LenProperties
  <2>2. q.value.strs = s
    BY <1>5 DEF Faithful, s
  <2> HIDE DEF m
  <2>3. Take(s, m) = s
    BY <1>1, <2>1, TakeAll
  <2> QED
    BY <1>3, <2>1, <2>2, <2>3 DEF s
<1> QED
  BY <1>4, <1>5

LEMMA ParamIs ==
    ASSUME NEW b, NEW p \in Params, NEW q, Faithful(b, p, q),
           p.value.kind \notin {"mixed", "other"}
    PROVE  LET r == Cut(EscapedParam(q)).param IN
           /\ r.name = p.name /\ r.value.size = CutSize(p) /\ r.value.strs = CutStrs(p)
           /\ Stems(r.value, p.value)
           /\ Acceptable(q) => /\ IsValidParamName(p.name)
                               /\ Fits(SubSeq(p.value.strs, 1, Len(r.value.strs)), MaxStrOf(p))
           /\ Same(r.value, p.value) <=> ~IsLong(q)
           /\ Len(p.value.strs) <= Limit.list + 1 => (Acceptable(q) <=> Good(p))
<1> DEFINE s == p.value.strs
           r == Cut(EscapedParam(q)).param
           L == Limit.list
<1>1. s \in Seq(Strings) /\ p.value.size \in Nat
  BY ParamsType
<1>2. L \in Nat
  BY LimitsType
<1>3. q \in PackParams /\ q.name = p.name /\ (IsLong(q) <=> IsLong(p))
  BY DEF Faithful
<1>4. /\ r.name = q.name
      /\ IsLong(q) => r.value.size = L /\ r.value.strs = Take(EscapedAll(q.value.strs), L)
      /\ ~IsLong(q) => r.value.size = q.value.size /\ r.value.strs = EscapedAll(q.value.strs)
  BY <1>3, CutIs
<1>5. PICK m \in Nat : /\ q.value.strs = Take(s, m)
                       /\ IsLong(p) => L <= m
                       /\ ~Shortened(b, p) => q.value.strs = s
                       /\ Len(s) <= L + 1 => q.value.strs = s
  BY FaithfulStrings
<1>6. MaxStrOf(q) = MaxStrOf(p)
  BY FaithfulStrings
<1>7. Acceptable(q) <=> IsValidParamName(p.name) /\ Fits(q.value.strs, MaxStrOf(p))
  BY <1>3, <1>6, AcceptableIs
<1> HIDE DEF s, r, L
<1>8. Len(s) <= L + 1 => (Acceptable(q) <=> Good(p))
  BY <1>5, <1>7 DEF Good, s
<1>9. CASE IsLong(p)
  <2>1. /\ Begins(Take(EscapedAll(s), L), s)
        /\ Take(EscapedAll(Take(s, m)), L) = Take(EscapedAll(s), L)
        /\ Len(Take(EscapedAll(s), L)) <= Len(Take(s, m))
    BY <1>1, <1>2, <1>5, <1>9, BeginsTaken
  <2>2. r.value.strs = Take(EscapedAll(s), L) /\ r.value.size = L
    BY <1>3, <1>4, <1>5, <1>9, <2>1
  <2>3. L <= p.value.size /\ L # p.value.size
    BY <1>1, <1>2, <1>9 DEF IsLong, L
  <2>4. r.value.strs = SubSeq(EscapedAll(s), 1, Len(r.value.strs))
    BY <1>1, <2>1, <2>2, BeginsIs
  <2>5. Stems(r.value, p.value)
    BY <1>2, <2>2, <2>3, <2>4 DEF Stems, s, L
  <2>6. Len(r.value.strs) \in Nat /\ Len(r.value.strs) <= Len(Take(s, m))
    <3>1. Len(Take(EscapedAll(s), L)) \in Nat
      BY <2>1, LenProperties DEF Begins
    <3> QED
      BY <2>1, <2>2, <3>1
  <2>7. Fits(Take(s, m), MaxStrOf(p)) => Fits(SubSeq(s, 1, Len(r.value.strs)), MaxStrOf(p))
    BY <1>1, <2>6, FitsBeginning
  <2>8. Acceptable(q) => /\ IsValidParamName(p.name)
                         /\ Fits(SubSeq(s, 1, Len(r.value.strs)), MaxStrOf(p))
    BY <1>5, <1>7, <2>7
  <2>9. ~Same(r.value, p.value)
    BY <2>2, <2>3 DEF Same
  <2>10. r.value.size = CutSize(p) /\ r.value.strs = CutStrs(p)
    BY <1>9, <2>2 DEF CutSize, CutStrs, s, L
  <2> QED
    BY <1>3, <1>4, <1>8, <1>9, <2>5, <2>8, <2>9, <2>10 DEF s, r, L
<1>10. CASE ~IsLong(p)
  <2>1. ~Shortened(b, p)
    BY <1>10 DEF Shortened, IsLong, IsArray
  <2>2. q.value.strs = s /\ q.value.size = p.value.size
    BY <1>5, <2>1 DEF Faithful, s
  <2>3. r.value.strs = EscapedAll(s) /\ r.value.size = p.value.size
    BY <1>3, <1>4, <1>10, <2>2
  <2>4. p.value.size <= L
    <3>1. CASE p.value.kind \in {"list", "strings"}
      BY <1>1, <1>2, <1>10, <3>1 DEF IsLong, L
    <3>2. CASE p.value.kind \notin {"list", "strings"}
      <4>1. p.value.size = 0
        BY <3>2, ParamsType
      <4> QED
        BY <1>2, <4>1
    <3> QED
      BY <3>1, <3>2
  <2>5. Begins(EscapedAll(s), s) /\ Len(EscapedAll(s)) = Len(s) /\ Len(s) \in Nat
    BY <1>1, BeginsWhole, EscapedAllIs, LenProperties
  <2>6. r.value.strs = SubSeq(EscapedAll(s), 1, Len(r.value.strs))
    BY <1>1, <2>3, <2>5, BeginsIs
  <2>7. Stems(r.value, p.value)
    BY <1>1, <2>3, <2>4, <2>6 DEF Stems, s, L
  <2>8. SubSeq(s, 1, Len(r.value.strs)) = s
    BY <1>1, <2>3, <2>5, TakeAll DEF Take
  <2>9. Acceptable(q) => /\ IsValidParamName(p.name)
                         /\ Fits(SubSeq(s, 1, Len(r.value.strs)), MaxStrOf(p))
    BY <1>7, <2>2, <2>8
  <2>10. Same(r.value, p.value)
    BY <2>3 DEF Same, s
  <2>11. r.value.size = CutSize(p) /\ r.value.strs = CutStrs(p)
    BY <1>10, <2>3 DEF CutSize, CutStrs, s
  <2> QED
    BY <1>3, <1>4, <1>8, <1>10, <2>7, <2>9, <2>10, <2>11 DEF s, r, L
<1> QED
  BY <1>9, <1>10

--------------------------------------------------------------------------------
(* The pack after the verification.                                                *)

BuiltOf(b, e)  == Build(b, e.params, "write")
KeptOf(b, e)   == Kept(BuiltOf(b, e).params, ParseRecord(b, e.params))
ResultOf(b, e) == CheckParamsNum(VerifyParams(BuiltOf(b, e).params, ParseRecord(b, e.params)),
                                 ParseRecord(b, e.params))
PackOf(b, e)   == ResultOf(b, e).params
\* The code that the verification, and after it the conversion, has for the caller.
CodeOf(b, e) ==
    IF ResultOf(b, e).code # SUCCESSFUL THEN ResultOf(b, e).code
    ELSE IF b \in Objects THEN BuiltOf(b, e).code ELSE SUCCESSFUL
NotCutShort(b, e) == b = "ets" => BuiltOf(b, e).ok

LEMMA PackIs ==
    ASSUME NEW b \in Bindings, NEW e \in Arguments, Expressible(b, e)
    PROVE  LET pk == PackOf(b, e)
               built == BuiltOf(b, e) IN
           /\ DOMAIN pk \subseteq KeptOf(b, e) /\ KeptOf(b, e) \subseteq Places(b, e)
           /\ Cardinality(DOMAIN pk) <= Limit.params
           /\ \A i \in KeptOf(b, e) : Acceptable(built.params[i])
           /\ \A i \in DOMAIN pk : pk[i] = Cut(EscapedParam(built.params[i])).param
           /\ \A i, j \in DOMAIN pk : built.params[i].name = built.params[j].name => i = j
           /\ ResultOf(b, e).code \in Nat
           /\ ResultOf(b, e).code = SUCCESSFUL <=>
                /\ DOMAIN pk = Places(b, e)
                /\ \A i \in Places(b, e) : ~IsLong(built.params[i])
           /\ Len(e.params) <= Limit.params => DOMAIN pk = KeptOf(b, e)
<1> DEFINE order == ParseRecord(b, e.params)
           params == BuiltOf(b, e).params
           D == DOMAIN params
           K == Kept(params, order)
           acc == VerifyParams(params, order)
           r == CheckParamsNum(acc, order)
<1>1. /\ DOMAIN e.params \subseteq Nat /\ IsFiniteSet(DOMAIN e.params)
      /\ Cardinality(DOMAIN e.params) = Len(e.params)
      /\ Linear(DOMAIN e.params, order)
  BY ArgumentsAre
<1>2. D = Places(b, e) /\ D \in SUBSET DOMAIN e.params
  BY BuildIs DEF Places, BuiltOf
<1>3. \A i \in D : params[i] \in PackParams
  BY <1>2, BuildIs DEF Faithful, BuiltOf
<1>4. PackOf(b, e) = r.params /\ ResultOf(b, e) = r /\ KeptOf(b, e) = K
  BY DEF PackOf, ResultOf, KeptOf
<1>5. BuiltOf(b, e).params = params
  OBVIOUS
<1> HIDE DEF order, params
<1>6. IsFiniteSet(D) /\ Linear(D, order)
  BY <1>1, <1>2, FS_Subset, LinearSubset
<1> HIDE DEF D
<1>7. /\ DOMAIN acc.params = K
      /\ \A i \in K : acc.params[i] = Cut(EscapedParam(params[i])).param
      /\ acc.code \in Nat
      /\ acc.code = SUCCESSFUL <=> \A i \in D : i \in K /\ ~IsLong(params[i])
  BY <1>3, <1>6, VerifyParamsIs DEF D
<1>8. K \in SUBSET D /\ \A i \in K : Acceptable(params[i])
  BY DEF Kept, D
<1>9. \A i, j \in K : params[i].name = params[j].name => i = j
  BY <1>6, KeptOnce DEF D
<1> HIDE DEF K, acc
<1>10. IsFiniteSet(K) /\ Linear(K, order) /\ Cardinality(K) <= Cardinality(D) /\ Cardinality(K) \in Nat
  BY <1>6, <1>8, FS_Subset, LinearSubset, FS_CardinalityType
<1>11. /\ r.code \in Nat
       /\ DOMAIN r.params \subseteq K
       /\ Cardinality(DOMAIN r.params) <= Limit.params
       /\ \A i \in DOMAIN r.params : r.params[i] = acc.params[i]
       /\ Cardinality(K) <= Limit.params => r = acc
       /\ r.code = SUCCESSFUL => acc.code = SUCCESSFUL
       /\ acc.code = SUCCESSFUL /\ r.code # SUCCESSFUL => DOMAIN r.params # K
       /\ DOMAIN r.params # K => r.code # SUCCESSFUL
  BY <1>7, <1>10, CheckParamsNumIs
<1> HIDE DEF r
<1>12. ASSUME Len(e.params) <= Limit.params PROVE DOMAIN r.params = K
  <2>1. Cardinality(D) <= Cardinality(DOMAIN e.params) /\ Cardinality(D) \in Nat
    BY <1>1, <1>2, FS_Subset, FS_CardinalityType
  <2>2. Cardinality(K) <= Limit.params
    BY <1>1, <1>10, <1>12, <2>1, LimitsType
  <2> QED
    BY <1>7, <1>11, <2>2
<1>13. r.code = SUCCESSFUL <=> DOMAIN r.params = D /\ \A i \in D : ~IsLong(params[i])
  <2>1. ASSUME r.code = SUCCESSFUL PROVE DOMAIN r.params = D /\ \A i \in D : ~IsLong(params[i])
    BY <1>7, <1>8, <1>11, <2>1
  <2>2. ASSUME DOMAIN r.params = D, \A i \in D : ~IsLong(params[i]) PROVE r.code = SUCCESSFUL
    <3>1. K = D
      BY <1>8, <1>11, <2>2
    <3>2. acc.code = SUCCESSFUL
      BY <1>7, <2>2, <3>1
    <3> QED
      BY <1>11, <2>2, <3>1, <3>2
  <2> QED
    BY <2>1, <2>2
<1>14. \A i \in DOMAIN r.params : r.params[i] = Cut(EscapedParam(params[i])).param
  BY <1>7, <1>11
<1> QED
  BY <1>2, <1>4, <1>5, <1>8, <1>9, <1>11, <1>12, <1>13, <1>14

\* A line of this pack is valid ...
ValidLine(pk, g) ==
    /\ Cardinality(DOMAIN pk) <= Limit.params
    /\ \A i, j \in DOMAIN pk : pk[i].name = pk[j].name => i = j
    /\ \A i \in DOMAIN pk :
          /\ i \in DOMAIN g
          /\ pk[i].name = g[i].name /\ IsValidParamName(g[i].name)
          /\ Stems(pk[i].value, g[i].value)
          /\ Fits(SubSeq(g[i].value.strs, 1, Len(pk[i].value.strs)), MaxStrOf(g[i]))

LEMMA PlacesAre ==
    ASSUME NEW b \in Bindings, NEW e \in Arguments, Expressible(b, e), NEW i \in Places(b, e)
    PROVE  LET p == e.params[i]  q == BuiltOf(b, e).params[i]  r == Cut(EscapedParam(q)).param IN
           /\ i \in DOMAIN e.params
           /\ q.name = p.name /\ r.name = p.name
           /\ r.value.size = CutSize(p) /\ r.value.strs = CutStrs(p)
           /\ Stems(r.value, p.value)
           /\ Acceptable(q) => /\ IsValidParamName(p.name)
                               /\ Fits(SubSeq(p.value.strs, 1, Len(r.value.strs)), MaxStrOf(p))
           /\ Same(r.value, p.value) <=> ~IsLong(q)
           /\ Len(p.value.strs) <= Limit.list + 1 => (Acceptable(q) <=> Good(p))
<1> DEFINE p == e.params[i]
           q == BuiltOf(b, e).params[i]
<1>1. i \in DOMAIN e.params /\ Faithful(b, p, q) /\ p.value.kind \notin {"mixed", "other"}
  BY BuildIs DEF BuiltOf
<1>2. p \in Params
  BY <1>1, ArgumentsAre
<1>3. q.name = p.name
  BY <1>1 DEF Faithful
<1> HIDE DEF p, q
<1> QED
  BY <1>1, <1>2, <1>3, ParamIs DEF p, q

LEMMA PackIsValid ==
    ASSUME NEW b \in Bindings, NEW e \in Arguments, Expressible(b, e)
    PROVE  ValidLine(PackOf(b, e), e.params)
<1> DEFINE pk == PackOf(b, e)
           built == BuiltOf(b, e)
<1>1. /\ DOMAIN pk \subseteq Places(b, e) /\ Cardinality(DOMAIN pk) <= Limit.params
      /\ \A i \in DOMAIN pk : Acceptable(built.params[i])
      /\ \A i \in DOMAIN pk : pk[i] = Cut(EscapedParam(built.params[i])).param
      /\ \A i, j \in DOMAIN pk : built.params[i].name = built.params[j].name => i = j
  BY PackIs
<1> HIDE DEF pk, built
<1>2. ASSUME NEW i \in DOMAIN pk
      PROVE  /\ i \in DOMAIN e.params
             /\ built.params[i].name = e.params[i].name
             /\ pk[i].name = e.params[i].name /\ IsValidParamName(e.params[i].name)
             /\ Stems(pk[i].value, e.params[i].value)
             /\ Fits(SubSeq(e.params[i].value.strs, 1, Len(pk[i].value.strs)), MaxStrOf(e.params[i]))
  <2>1. i \in Places(b, e) /\ Acceptable(built.params[i]) /\ pk[i] = Cut(EscapedParam(built.params[i])).param
    BY <1>1
  <2> QED
    BY <2>1, PlacesAre DEF built
<1>3. \A i, j \in DOMAIN pk : pk[i].name = pk[j].name => i = j
  BY <1>1, <1>2
<1> QED
  BY <1>1, <1>2, <1>3 DEF ValidLine, pk

\* ... whole exactly when the code says so ...
LEMMA CodeIsHonest ==
    ASSUME NEW b \in Bindings, NEW e \in Arguments, Expressible(b, e), NotCutShort(b, e)
    PROVE  /\ CodeOf(b, e) \in Nat
           /\ CodeOf(b, e) = SUCCESSFUL <=>
                /\ DOMAIN PackOf(b, e) = Wanted(b, e)
                /\ \A i \in DOMAIN PackOf(b, e) :
                      /\ PackOf(b, e)[i].name = e.params[i].name
                      /\ Same(PackOf(b, e)[i].value, e.params[i].value)
<1> DEFINE pk == PackOf(b, e)
           built == BuiltOf(b, e)
           B == Places(b, e)
           W == Wanted(b, e)
           code == ResultOf(b, e).code
<1>1. /\ DOMAIN pk \subseteq B
      /\ \A i \in DOMAIN pk : pk[i] = Cut(EscapedParam(built.params[i])).param
      /\ code \in Nat
      /\ code = SUCCESSFUL <=> DOMAIN pk = B /\ \A i \in B : ~IsLong(built.params[i])
  BY PackIs
<1>2. /\ B \subseteq W /\ built.code \in Nat
      /\ b \in Objects /\ built.code # SUCCESSFUL => \E i \in W : i \notin B
      /\ (b \in Objects => built.code = SUCCESSFUL) => B = W
  BY BuildIs DEF BuiltOf, NotCutShort
<1>3. CodeOf(b, e) = IF code # SUCCESSFUL THEN code ELSE IF b \in Objects THEN built.code ELSE SUCCESSFUL
  BY DEF CodeOf
<1> HIDE DEF pk, built, B, W, code
<1>4. ASSUME NEW i \in DOMAIN pk
      PROVE  pk[i].name = e.params[i].name /\ (Same(pk[i].value, e.params[i].value) <=> ~IsLong(built.params[i]))
  <2>1. i \in Places(b, e) /\ pk[i] = Cut(EscapedParam(built.params[i])).param
    BY <1>1 DEF B
  <2> QED
    BY <2>1, PlacesAre DEF built
<1>5. CodeOf(b, e) \in Nat
  BY <1>1, <1>2, <1>3 DEF SUCCESSFUL
<1>6. CodeOf(b, e) = SUCCESSFUL <=>
        DOMAIN pk = W /\ \A i \in DOMAIN pk : pk[i].name = e.params[i].name /\ Same(pk[i].value, e.params[i].value)
  <2>1. CodeOf(b, e) = SUCCESSFUL <=> code = SUCCESSFUL /\ (b \in Objects => built.code = SUCCESSFUL)
    BY <1>3
  <2>2. ASSUME code = SUCCESSFUL, b \in Objects => built.code = SUCCESSFUL
        PROVE  DOMAIN pk = W /\ \A i \in DOMAIN pk :
                  pk[i].name = e.params[i].name /\ Same(pk[i].value, e.params[i].value)
    BY <1>1, <1>2, <1>4, <2>2
  <2>3. ASSUME DOMAIN pk = W, \A i \in DOMAIN pk : Same(pk[i].value, e.params[i].value)
        PROVE  code = SUCCESSFUL /\ (b \in Objects => built.code = SUCCESSFUL)
    <3>1. B = W
      BY <1>1, <1>2, <2>3
    <3>2. code = SUCCESSFUL
      BY <1>1, <1>4, <2>3, <3>1
    <3> QED
      BY <1>2, <3>1, <3>2
  <2> QED
    BY <2>1, <2>2, <2>3
<1> QED
  BY <1>5, <1>6 DEF pk, W

\* ... and, of arguments that every binding takes, the same for all of them.
Usual(e) ==
    /\ Len(e.params) <= Limit.params
    /\ \A i \in DOMAIN e.params : /\ e.params[i].value.kind \notin {"mixed", "other"}
                                  /\ Len(e.params[i].value.strs) <= Limit.list + 1
FirstGood(g) ==
    {i \in DOMAIN g : Good(g[i]) /\ \A j \in DOMAIN g : j < i /\ Good(g[j]) => g[j].name # g[i].name}

LEMMA LongIsInvalid ==
    ASSUME NEW b, NEW p \in Params, LongKey(b, p)
    PROVE  ~Good(p)
<1>1. p.name \in Seq(Chars) /\ Len(p.name) \in Nat
  BY ParamsType, LenProperties
<1>2. ~(Len(p.name) \in 1..Limit.paramName)
  BY <1>1, LimitsType DEF LongKey
<1> QED
  BY <1>2 DEF Good, IsValidParamName, IsValidName

LEMMA PackOfAnyBinding ==
    ASSUME NEW b \in Bindings, NEW e \in Arguments, Expressible(b, e), Usual(e)
    PROVE  /\ DOMAIN PackOf(b, e) = FirstGood(e.params)
           /\ \A i \in DOMAIN PackOf(b, e) :
                 /\ PackOf(b, e)[i].name = e.params[i].name
                 /\ PackOf(b, e)[i].value.size = CutSize(e.params[i])
                 /\ PackOf(b, e)[i].value.strs = CutStrs(e.params[i])
<1> DEFINE g == e.params
           D == DOMAIN g
           order == ParseRecord(b, g)
           built == BuiltOf(b, e)
           pk == PackOf(b, e)
           B == Places(b, e)
<1>1. /\ D \subseteq Nat /\ \A i \in D : g[i] \in Params
      /\ b \in Objects => \A i, j \in D : g[i].name = g[j].name => i = j
  BY ArgumentsAre
<1>2. Linear(D, order)
  BY ArgumentsAre
<1>3. \A i \in D : Len(g[i].value.strs) <= Limit.list + 1 /\ g[i].value.kind \notin {"mixed", "other"}
  BY DEF Usual
<1>4. B = {i \in D : ~LongKey(b, g[i])}
  BY <1>3, BuildIs
<1>5. DOMAIN pk = KeptOf(b, e) /\ \A i \in DOMAIN pk : pk[i] = Cut(EscapedParam(built.params[i])).param
  BY PackIs DEF Usual
<1>6. KeptOf(b, e) = {i \in B : /\ Acceptable(built.params[i])
                                /\ built.params[i].name \notin NamesMet(built.params, order, i)}
  BY DEF KeptOf, Kept, Places, BuiltOf
<1>7. \A i : NamesMet(built.params, order, i) =
                {built.params[j].name : j \in {k \in B : <<k, i>> \in order /\ Acceptable(built.params[k])}}
  BY DEF NamesMet, Ahead, Places, BuiltOf
<1>8. b # "ets" => \A i, j \in D : <<i, j>> \in order <=> i < j
  BY DEF ParseRecord
<1> HIDE DEF g, order, built, pk
<1>9. ASSUME NEW i \in B
      PROVE  /\ built.params[i].name = g[i].name
             /\ Acceptable(built.params[i]) <=> Good(g[i])
             /\ LET r == Cut(EscapedParam(built.params[i])).param IN
                r.name = g[i].name /\ r.value.size = CutSize(g[i]) /\ r.value.strs = CutStrs(g[i])
  <2>1. i \in Places(b, e) /\ i \in D
    BY <1>4
  <2>2. Len(g[i].value.strs) <= Limit.list + 1
    BY <1>3, <2>1
  <2> QED
    BY <2>1, <2>2, PlacesAre DEF built, g
<1>10. \A i \in D : Good(g[i]) => i \in B
  BY <1>1, <1>4, LongIsInvalid
<1>11. B \subseteq D
  BY <1>4
<1> HIDE DEF B
<1>12. KeptOf(b, e) =
         {i \in D : Good(g[i]) /\ \A j \in D : <<j, i>> \in order /\ Good(g[j]) => g[j].name # g[i].name}
  <2>1. ASSUME NEW i \in B
        PROVE  g[i].name \notin NamesMet(built.params, order, i) <=>
                 \A j \in D : <<j, i>> \in order /\ Good(g[j]) => g[j].name # g[i].name
    <3> DEFINE M == NamesMet(built.params, order, i)
    <3>1. M = {built.params[j].name : j \in {k \in B : <<k, i>> \in order /\ Acceptable(built.params[k])}}
      BY <1>7
    <3> HIDE DEF M
    <3>2. ASSUME NEW j \in D, <<j, i>> \in order, Good(g[j]) PROVE g[j].name \in M
      <4>1. j \in B
        BY <1>10, <3>2
      <4> QED
        BY <1>9, <3>1, <3>2, <4>1
    <3>3. ASSUME g[i].name \in M
          PROVE  \E j \in D : <<j, i>> \in order /\ Good(g[j]) /\ g[j].name = g[i].name
      <4>1. PICK j \in B : <<j, i>> \in order /\ Acceptable(built.params[j]) /\ built.params[j].name = g[i].name
        BY <3>1, <3>3
      <4> QED
        BY <1>9, <1>11, <4>1
    <3> QED
      BY <3>2, <3>3 DEF M
  <2> QED
    BY <1>6, <1>9, <1>10, <1>11, <2>1
<1>13. ASSUME NEW i \in D
       PROVE  (\A j \in D : <<j, i>> \in order /\ Good(g[j]) => g[j].name # g[i].name) <=>
              (\A j \in D : j < i /\ Good(g[j]) => g[j].name # g[i].name)
  <2>1. CASE b = "ets"
    <3>1. \A j \in D : g[j].name = g[i].name => j = i
      BY <1>1, <2>1 DEF Objects
    <3>2. <<i, i>> \notin order /\ ~(i < i)
      BY <1>1, <1>2 DEF Linear
    <3> QED
      BY <3>1, <3>2
  <2>2. CASE b # "ets"
    BY <1>8, <2>2
  <2> QED
    BY <2>1, <2>2
<1>14. KeptOf(b, e) = FirstGood(g)
  BY <1>12, <1>13 DEF FirstGood
<1>15. KeptOf(b, e) \subseteq B
  BY <1>6 
<1> QED
  BY <1>5, <1>9, <1>14, <1>15 DEF pk, g

--------------------------------------------------------------------------------
(* A verification that does not refuse the event.                                  *)

LEMMA VerifiedIs ==
    ASSUME NEW b \in Bindings, NEW e \in Arguments, Expressible(b, e)
    PROVE  LET built == BuiltOf(b, e)
               code == IF b \in Objects THEN built.code ELSE SUCCESSFUL
               r == Verified(b, e, built.params, code) IN
           r.code >= 0 => /\ r.params = PackOf(b, e) /\ r.code = CodeOf(b, e)
                          /\ r.code \in Nat
<1> DEFINE built == BuiltOf(b, e)
           code == IF b \in Objects THEN built.code ELSE SUCCESSFUL
           order == ParseRecord(b, e.params)
           e2 == [e EXCEPT !.params = built.params]
           v == VerifyAppEvent(e2, order, disabled)
           r == Verified(b, e, built.params, code)
<1>1. r = [v EXCEPT !.code = IF v.code # SUCCESSFUL THEN v.code ELSE code]
  BY DEF Verified
<1>2. e2.params = built.params
  BY DEF Arguments
<1>3. \/ \E c \in {DISABLED, INVALID_DOMAIN, INVALID_EVENT_NAME} : v = Refused(e2, c)
      \/ v = CheckParamsNum(VerifyParams(built.params, order), order)
  BY <1>2 DEF VerifyAppEvent
<1>4. built.code \in Nat /\ ResultOf(b, e).code \in Nat
  BY BuildIs, PackIs DEF BuiltOf
<1>5. ASSUME NEW c \in {DISABLED, INVALID_DOMAIN, INVALID_EVENT_NAME}, v = Refused(e2, c)
      PROVE  ~(r.code >= 0)
  <2>1. ~(c >= 0) /\ c # SUCCESSFUL
    BY DEF DISABLED, INVALID_DOMAIN, INVALID_EVENT_NAME, SUCCESSFUL
  <2>2. v.code = c /\ DOMAIN v = {"params", "code"}
    BY <1>5 DEF Refused
  <2> HIDE DEF v, r
  <2>3. r.code = c
    BY <1>1, <2>1, <2>2
  <2> QED
    BY <2>1, <2>3
<1>6. CASE v = CheckParamsNum(VerifyParams(built.params, order), order)
  <2>1. v = ResultOf(b, e)
    BY <1>6 DEF ResultOf
  <2>2. DOMAIN v = {"params", "code"}
    BY <1>6 DEF CheckParamsNum, VerifyParams
  <2> HIDE DEF v, r, built
  <2>3. r.params = v.params /\ r.code = IF v.code # SUCCESSFUL THEN v.code ELSE code
    BY <1>1, <2>2
  <2>4. r.params = PackOf(b, e) /\ r.code = CodeOf(b, e)
    BY <2>1, <2>3 DEF PackOf, CodeOf, built
  <2>5. r.code \in Nat
    BY <1>4, <2>1, <2>3 DEF SUCCESSFUL, built
  <2> QED
    BY <2>4, <2>5 DEF r, built
<1> QED
  BY <1>3, <1>5, <1>6

--------------------------------------------------------------------------------
(* The invariant.                                                                  *)

CallPcs  == {"idle", "queued", "async", "writing", "complete", "done"}
CallHows == {"none", "returned", "resolved", "rejected", "thrown", "lost"}
IsCallRecord(r) ==
    /\ DOMAIN r = {"pc", "op", "binding", "event", "obj", "result", "how"}
    /\ r.pc \in CallPcs /\ r.how \in CallHows

\* The event of the call waits to be written.
IsUnwritten(r) == r.op = "write" /\ (r.pc \in {"queued", "writing"} \/ (r.pc = "async" /\ r.result >= 0))

\* The result is the code of the verification and the conversion.
Settled(r) == r.result = CodeOf(r.binding, r.event) /\ NotCutShort(r.binding, r.event)

\* The parameters that wait to be stored are the ones that were given.
CountedNames(r) ==
    {p.name : p \in {q \in ToSet(r.event.params) : ~Ignored(r.binding, q)}}
Names(pk) == {pk[i].name : i \in DOMAIN pk}
HoldsGiven(r, pk) ==
    /\ IsFiniteSet(DOMAIN pk) /\ Names(pk) = CountedNames(r)
    /\ \A i \in DOMAIN pk : i \in DOMAIN r.event.params /\ pk[i].name = r.event.params[i].name
Stores(r, pk) ==
    r.pc \in {"async", "writing"} /\ r.result = SUCCESSFUL => HoldsGiven(r, pk)

RecordOK(c, r, pk) ==
    /\ r.op \in {"none", "write", "param"} /\ (r.pc = "idle" <=> r.op = "none")
    /\ r.pc = "idle" => r.binding = "none"
    /\ r.pc = "queued" => r.op = "write"
    /\ r.op = "write" => r.binding \in Bindings /\ r.event \in Arguments /\ Expressible(r.binding, r.event)
    /\ r.op = "param" => r.binding \in {"js9", "ets", "cj"} /\ Stores(r, pk)

ObjectOK(c) ==
    LET r == calls[c] IN
    r.op = "write" =>
        /\ r.obj \in Calls /\ calls[r.obj].op = "write"
        /\ r.obj # c => r.obj \in reused
        /\ IsUnwritten(r) /\ r.obj \notin reused => packs[r.obj] = PackOf(r.binding, r.event) /\ Settled(r)

LineOK(l) ==
    /\ l.call \in Calls /\ calls[l.call].op = "write"
    /\ calls[l.call].obj \notin reused =>
         l.params = PackOf(calls[l.call].binding, calls[l.call].event) /\ Settled(calls[l.call])

QueueOK ==
    /\ queue \in Seq(Calls)
    /\ \A i, j \in DOMAIN queue : queue[i] = queue[j] => i = j
    /\ \A c \in Calls : calls[c].pc = "queued" <=> \E i \in DOMAIN queue : queue[i] = c

StateOK ==
    /\ disabled \in BOOLEAN /\ space \in {"unknown", "enough", "low"}
    /\ device \in {"enough", "low"} /\ sample \in Events \cup {NoEvent}

CallsOK ==
    /\ DOMAIN calls = Calls /\ DOMAIN packs = Calls
    /\ \A c \in Calls : IsCallRecord(calls[c]) /\ RecordOK(c, calls[c], packs[c]) /\ ObjectOK(c)
    /\ \A o \in reused : o \in Calls /\ calls[o].binding = "native"

FileOK == file \in Seq(Lines) /\ \A l \in Lines : LineOK(l)

\* What is counted is finite.
CustomOK ==
    /\ IsFiniteSet(custom) /\ DOMAIN oldParamkeys = Calls
    /\ \A c \in Calls : IsFiniteSet(oldParamkeys[c])

WInv == StateOK /\ CallsOK /\ QueueOK /\ FileOK /\ CustomOK

LEMMA CustomSame ==
    ASSUME CustomOK, customVars' = customVars
    PROVE  CustomOK'
BY DEF CustomOK, customVars

LEMMA LinesAppend ==
    ASSUME file \in Seq(Lines), NEW l, file' = Append(file, l)
    PROVE  file' \in Seq(Lines') /\ Lines' = Lines \cup {l}
<1> DEFINE L == Lines \cup {l}
<1>1. file \in Seq(L) /\ l \in L
  <2>1. \A i \in 1..Len(file) : file[i] \in L
    BY ElementOfSeq
  <2>2. Len(file) \in Nat /\ file = [i \in 1..Len(file) |-> file[i]]
    BY LenProperties
  <2>3. [i \in 1..Len(file) |-> file[i]] \in [1..Len(file) -> L]
    BY <2>1
  <2> QED
    BY <2>2, <2>3, SeqDef
<1>2. L = {file[i] : i \in DOMAIN file} \cup {l}
  BY DEF Lines
<1> HIDE DEF L
<1>3. /\ Append(file, l) \in Seq(L) /\ Len(Append(file, l)) = Len(file) + 1
      /\ \A i \in 1..Len(file) : Append(file, l)[i] = file[i]
      /\ Append(file, l)[Len(file) + 1] = l
  BY <1>1, AppendProperties
<1>4. Len(file) \in Nat /\ DOMAIN file = 1..Len(file) /\ DOMAIN file' = 1..(Len(file) + 1)
  BY <1>1, <1>3, LenProperties
<1>5. Lines' = {file'[i] : i \in DOMAIN file'}
  BY DEF Lines
<1>6. Lines' = L
  <2>1. ASSUME NEW i \in DOMAIN file' PROVE file'[i] \in L
    <3>1. i \in 1..Len(file) \/ i = Len(file) + 1
      BY <1>4
    <3> QED
      BY <1>2, <1>3, <1>4, <3>1
  <2>2. ASSUME NEW m \in L PROVE \E i \in DOMAIN file' : file'[i] = m
    <3>1. CASE m = l
      <4>1. Len(file) + 1 \in DOMAIN file'
        BY <1>4
      <4> QED
        BY <1>3, <3>1, <4>1
    <3>2. CASE m # l
      <4>1. PICK i \in DOMAIN file : file[i] = m
        BY <1>2, <3>2
      <4>2. i \in 1..Len(file) /\ i \in DOMAIN file'
        BY <1>4
      <4> QED
        BY <1>3, <4>1, <4>2
    <3> QED
      BY <3>1, <3>2
  <2> QED
    BY <1>5, <2>1, <2>2
<1>7. file' \in Seq(L)
  BY <1>3
<1> QED
  BY <1>6, <1>7 DEF L

\* A call begins.
LEMMA BeginningKeeps ==
    ASSUME WInv, NEW c \in Calls, calls[c].pc = "idle", NEW r, IsCallRecord(r),
           r.op \in {"write", "param"}, r.obj = c, calls' = [calls EXCEPT ![c] = r],
           DOMAIN packs' = Calls, \A d \in Calls : d # c => packs'[d] = packs[d],
           RecordOK(c, r, packs'[c]),
           r.op = "write" /\ IsUnwritten(r) => packs'[c] = PackOf(r.binding, r.event) /\ Settled(r),
           reused' = reused, file' = file, customVars' = customVars, StateOK', QueueOK'
    PROVE  WInv'
<1>1. /\ DOMAIN calls = Calls /\ DOMAIN packs = Calls
      /\ \A d \in Calls : IsCallRecord(calls[d])
      /\ \A d \in Calls : RecordOK(d, calls[d], packs[d]) /\ ObjectOK(d)
      /\ \A o \in reused : o \in Calls /\ calls[o].binding = "native"
      /\ file \in Seq(Lines) /\ CustomOK
  BY DEF WInv, CallsOK, FileOK
<1>2. \A l \in Lines : LineOK(l)
  BY DEF WInv, FileOK
<1>3. /\ DOMAIN calls' = Calls /\ calls'[c] = r /\ \A d \in Calls : d # c => calls'[d] = calls[d]
      /\ \A d \in Calls : IsCallRecord(calls'[d])
  BY <1>1
<1>4. calls[c].op = "none" /\ calls[c].binding = "none" /\ c \notin reused
  BY <1>1 DEF RecordOK
<1>5. ASSUME NEW d \in Calls PROVE RecordOK(d, calls'[d], packs'[d])
  BY <1>1, <1>3
<1>6. ASSUME NEW d \in Calls PROVE ObjectOK(d)'
  <2>1. CASE d = c
    BY <1>3, <1>4, <2>1 DEF ObjectOK
  <2>2. CASE d # c
    <3>1. ObjectOK(d) /\ calls'[d] = calls[d]
      BY <1>1, <1>3, <2>2
    <3>2. SUFFICES ASSUME calls[d].op = "write"
                   PROVE  LET q == calls[d] IN
                          /\ q.obj \in Calls /\ calls'[q.obj].op = "write"
                          /\ q.obj # d => q.obj \in reused
                          /\ IsUnwritten(q) /\ q.obj \notin reused =>
                                packs'[q.obj] = PackOf(q.binding, q.event) /\ Settled(q)
      BY <3>1 DEF ObjectOK
    <3>3. calls[d].obj \in Calls /\ calls[calls[d].obj].op = "write" /\ calls[d].obj # c
      BY <1>4, <3>1, <3>2 DEF ObjectOK
    <3>4. calls'[calls[d].obj] = calls[calls[d].obj] /\ packs'[calls[d].obj] = packs[calls[d].obj]
      BY <1>3, <3>3
    <3> QED
      BY <3>1, <3>2, <3>3, <3>4 DEF ObjectOK
  <2> QED
    BY <2>1, <2>2
<1>7. \A o \in reused' : o \in Calls /\ calls'[o].binding = "native"
  BY <1>1, <1>3, <1>4
<1>8. Lines' = Lines
  BY DEF Lines
<1>9. ASSUME NEW l \in Lines PROVE LineOK(l)'
  <2>1. l.call \in Calls /\ calls[l.call].op = "write" /\ l.call # c
    BY <1>2, <1>4 DEF LineOK
  <2>2. calls'[l.call] = calls[l.call] /\ LineOK(l)
    BY <1>2, <1>3, <2>1
  <2> QED
    BY <2>1, <2>2 DEF LineOK
<1>10. CallsOK'
  BY <1>3, <1>5, <1>6, <1>7 DEF CallsOK
<1>11. FileOK'
  BY <1>1, <1>8, <1>9 DEF FileOK
<1>12. CustomOK'
  BY <1>1, CustomSame
<1> QED
  BY <1>10, <1>11, <1>12 DEF WInv

\* A call goes on: the event may be written, the parameters may be stored.
LEMMA GoingOnKeeps ==
    ASSUME WInv, NEW c \in Calls, calls[c].pc # "idle", NEW r, IsCallRecord(r),
           r.pc \in {"complete", "done"}, r.op = calls[c].op, r.binding = calls[c].binding,
           r.event = calls[c].event, r.obj = calls[c].obj,
           r.op = "write" => r.result = calls[c].result,
           calls' = [calls EXCEPT ![c] = r], packs' = packs, reused' = reused,
           file' = file \/ (IsUnwritten(calls[c]) /\ file' = Append(file, Line(c))),
           CustomOK', StateOK', QueueOK'
    PROVE  WInv'
<1>1. /\ DOMAIN calls = Calls /\ DOMAIN packs = Calls
      /\ \A d \in Calls : IsCallRecord(calls[d])
      /\ \A d \in Calls : RecordOK(d, calls[d], packs[d]) /\ ObjectOK(d)
      /\ \A o \in reused : o \in Calls /\ calls[o].binding = "native"
      /\ file \in Seq(Lines)
  BY DEF WInv, CallsOK, FileOK
<1>2. \A l \in Lines : LineOK(l)
  BY DEF WInv, FileOK
<1>3. /\ DOMAIN calls' = Calls /\ calls'[c] = r /\ \A d \in Calls : d # c => calls'[d] = calls[d]
      /\ \A d \in Calls : IsCallRecord(calls'[d])
  BY <1>1
<1>4. \A d \in Calls : /\ calls'[d].op = calls[d].op /\ calls'[d].binding = calls[d].binding
                       /\ calls'[d].event = calls[d].event /\ calls'[d].obj = calls[d].obj
                       /\ calls[d].op = "write" => calls'[d].result = calls[d].result
                       /\ IsUnwritten(calls'[d]) => IsUnwritten(calls[d])
  BY <1>3 DEF IsUnwritten
<1>5. ASSUME NEW d \in Calls PROVE RecordOK(d, calls'[d], packs'[d])
  <2>1. RecordOK(d, calls[d], packs[d])
    BY <1>1
  <2>2. CASE d = c
    BY <1>3, <2>1, <2>2 DEF RecordOK, Stores
  <2>3. CASE d # c
    BY <1>3, <2>1, <2>3
  <2> QED
    BY <2>2, <2>3
<1>6. ASSUME NEW d \in Calls PROVE ObjectOK(d)'
  BY <1>1, <1>4 DEF ObjectOK, Settled
<1>7. ASSUME NEW l, LineOK(l) PROVE LineOK(l)'
  BY <1>4, <1>7 DEF LineOK, Settled
<1>8. CASE file' = file
  <2>1. Lines' = Lines
    BY <1>8 DEF Lines
  <2> QED
    BY <1>1, <1>2, <1>3, <1>5, <1>6, <1>7, <1>8, <2>1 DEF WInv, CallsOK, FileOK
<1>9. CASE IsUnwritten(calls[c]) /\ file' = Append(file, Line(c))
  <2>1. file' \in Seq(Lines') /\ Lines' = Lines \cup {Line(c)}
    BY <1>1, <1>9, LinesAppend
  <2>2. calls[c].op = "write" /\ ObjectOK(c)
    BY <1>1, <1>9 DEF IsUnwritten
  <2>3. LineOK(Line(c))
    BY <1>9, <2>2 DEF LineOK, Line, ObjectOK
  <2> QED
    BY <1>1, <1>2, <1>3, <1>5, <1>6, <1>7, <2>1, <2>3 DEF WInv, CallsOK, FileOK
<1> QED
  BY <1>8, <1>9

LEMMA QueueAppended ==
    ASSUME QueueOK, NEW c \in Calls, calls[c].pc # "queued", queue' = Append(queue, c),
           calls'[c].pc = "queued", \A d \in Calls : d # c => calls'[d] = calls[d]
    PROVE  QueueOK'
<1>1. /\ queue \in Seq(Calls)
      /\ \A i, j \in DOMAIN queue : queue[i] = queue[j] => i = j
      /\ \A d \in Calls : calls[d].pc = "queued" <=> \E i \in DOMAIN queue : queue[i] = d
  BY DEF QueueOK
<1>2. /\ queue' \in Seq(Calls) /\ Len(queue') = Len(queue) + 1
      /\ \A i \in 1..Len(queue) : queue'[i] = queue[i]
      /\ queue'[Len(queue) + 1] = c
  BY <1>1, AppendProperties
<1>3. Len(queue) \in Nat /\ DOMAIN queue = 1..Len(queue) /\ DOMAIN queue' = 1..(Len(queue) + 1)
  BY <1>1, <1>2, LenProperties
<1>4. \A i \in DOMAIN queue' : i \in DOMAIN queue \/ i = Len(queue) + 1
  BY <1>3
<1>5. \A i \in DOMAIN queue : queue[i] # c /\ i \in DOMAIN queue'
  BY <1>1, <1>3
<1>6. Len(queue) + 1 \in DOMAIN queue'
  BY <1>3
<1>7. \A i, j \in DOMAIN queue' : queue'[i] = queue'[j] => i = j
  BY <1>1, <1>2, <1>3, <1>4, <1>5
<1>8. ASSUME NEW d \in Calls PROVE calls'[d].pc = "queued" <=> \E i \in DOMAIN queue' : queue'[i] = d
  BY <1>1, <1>2, <1>3, <1>4, <1>5, <1>6
<1> QED
  BY <1>2, <1>7, <1>8 DEF QueueOK

LEMMA QueueTaken ==
    ASSUME QueueOK, queue # <<>>, queue' = Tail(queue), calls'[Head(queue)].pc # "queued",
           \A d \in Calls : d # Head(queue) => calls'[d].pc = calls[d].pc
    PROVE  QueueOK' /\ Head(queue) \in Calls /\ calls[Head(queue)].pc = "queued"
<1> DEFINE c == Head(queue)
<1>1. /\ queue \in Seq(Calls)
      /\ \A i, j \in DOMAIN queue : queue[i] = queue[j] => i = j
      /\ \A d \in Calls : calls[d].pc = "queued" <=> \E i \in DOMAIN queue : queue[i] = d
  BY DEF QueueOK
<1>2. /\ c \in Calls /\ c = queue[1] /\ queue' \in Seq(Calls) /\ Len(queue') = Len(queue) - 1
      /\ \A i \in 1..Len(queue') : queue'[i] = queue[i + 1]
  BY <1>1, HeadTailProperties, EmptySeq
<1>3. Len(queue) \in Nat /\ Len(queue') \in Nat /\ DOMAIN queue = 1..Len(queue) /\ DOMAIN queue' = 1..Len(queue')
  BY <1>1, <1>2, LenProperties
<1> HIDE DEF c
<1>4. 1 \in DOMAIN queue /\ \A i \in DOMAIN queue' : i + 1 \in DOMAIN queue /\ queue'[i] = queue[i + 1] /\ i + 1 # 1
  BY <1>2, <1>3
<1>5. \A i \in DOMAIN queue : i # 1 => i - 1 \in DOMAIN queue' /\ (i - 1) + 1 = i
  BY <1>2, <1>3
<1>6. \A i, j \in DOMAIN queue' : queue'[i] = queue'[j] => i = j
  BY <1>1, <1>3, <1>4
<1>7. \A i \in DOMAIN queue' : queue'[i] # c
  BY <1>1, <1>2, <1>4
<1>8. \A i \in DOMAIN queue : queue[i] # c => \E j \in DOMAIN queue' : queue'[j] = queue[i]
  BY <1>2, <1>4, <1>5
<1>9. ASSUME NEW d \in Calls PROVE calls'[d].pc = "queued" <=> \E i \in DOMAIN queue' : queue'[i] = d
  <2>1. CASE d = c
    BY <1>7, <2>1 DEF c
  <2>2. CASE d # c
    <3>1. calls'[d].pc = calls[d].pc
      BY <2>2 DEF c
    <3>2. (\E i \in DOMAIN queue : queue[i] = d) => \E j \in DOMAIN queue' : queue'[j] = d
      BY <1>8, <2>2
    <3>3. (\E i \in DOMAIN queue' : queue'[i] = d) => \E j \in DOMAIN queue : queue[j] = d
      BY <1>4
    <3> QED
      BY <1>1, <3>1, <3>2, <3>3
  <2> QED
    BY <2>1, <2>2
<1>10. calls[c].pc = "queued"
  BY <1>1, <1>2, <1>4
<1> QED
  BY <1>2, <1>6, <1>9, <1>10 DEF QueueOK, c

LEMMA QueueSame ==
    ASSUME QueueOK, queue' = queue, \A d \in Calls : calls'[d].pc = "queued" <=> calls[d].pc = "queued"
    PROVE  QueueOK'
BY DEF QueueOK

LEMMA RewriteKeeps ==
    ASSUME WInv, NEW c \in Calls, NEW o \in Calls, Rewrite(c, o)
    PROVE  WInv'
<1> DEFINE v == VerifyAppEvent([calls[o].event EXCEPT !.params = packs[o]],
                               ParseRecord("native", packs[o]), disabled)
           r == [calls[o] EXCEPT !.pc = IF v.code >= 0 THEN "queued" ELSE "done", !.result = v.code]
<1>1. /\ calls[c].pc = "idle" /\ calls[o].binding = "native" /\ calls[o].obj = o
      /\ calls' = [calls EXCEPT ![c] = r] /\ packs' = [packs EXCEPT ![o] = v.params]
      /\ reused' = reused \cup {o}
      /\ queue' = IF v.code >= 0 THEN Append(queue, c) ELSE queue
      /\ file' = file /\ customVars' = customVars /\ UNCHANGED <<disabled, space, device, sample>>
  BY DEF Rewrite, settings
<1>2. /\ DOMAIN calls = Calls /\ DOMAIN packs = Calls
      /\ \A d \in Calls : IsCallRecord(calls[d])
      /\ \A d \in Calls : RecordOK(d, calls[d], packs[d]) /\ ObjectOK(d)
      /\ \A d \in reused : d \in Calls /\ calls[d].binding = "native"
      /\ file \in Seq(Lines) /\ CustomOK /\ StateOK /\ QueueOK
  BY DEF WInv, CallsOK, FileOK
<1>3. \A l \in Lines : LineOK(l)
  BY DEF WInv, FileOK
<1>4. IsCallRecord(calls[o]) /\ calls[o].pc # "idle" /\ calls[o].op = "write" /\ c # o /\ calls[c].op = "none"
  BY <1>1, <1>2 DEF RecordOK
<1>5. /\ r.op = "write" /\ r.binding = "native" /\ r.event = calls[o].event /\ r.obj = o
      /\ r.pc = (IF v.code >= 0 THEN "queued" ELSE "done")
  BY <1>1, <1>4 DEF IsCallRecord
<1>6. r.result = v.code /\ r.how = calls[o].how
  BY <1>4 DEF IsCallRecord
<1>7. IsCallRecord(r)
  <2>1. r.pc \in CallPcs /\ r.how \in CallHows
    BY <1>4, <1>5, <1>6 DEF IsCallRecord, CallPcs
  <2>2. DOMAIN r = {"pc", "op", "binding", "event", "obj", "result", "how"}
    BY <1>4 DEF IsCallRecord
  <2> QED
    BY <2>1, <2>2 DEF IsCallRecord
<1> HIDE DEF r, v
<1>8. /\ DOMAIN calls' = Calls /\ (\A d \in Calls : IsCallRecord(calls'[d])) /\ calls'[c] = r /\ \A d \in Calls : d # c => calls'[d] = calls[d]
      /\ DOMAIN packs' = Calls /\ \A d \in Calls : d # o => packs'[d] = packs[d]
  BY <1>1, <1>2, <1>7
<1>9. ASSUME NEW d \in Calls PROVE RecordOK(d, calls'[d], packs'[d])
  <2>1. CASE d = c
    <3>1. RecordOK(o, calls[o], packs[o])
      BY <1>2
    <3>2. r.pc \in {"queued", "done"}
      BY <1>5
    <3> QED
      BY <1>1, <1>4, <1>5, <1>8, <2>1, <3>1, <3>2 DEF RecordOK
  <2>2. CASE d = o
    BY <1>2, <1>4, <1>8, <2>2 DEF RecordOK
  <2>3. CASE d # c /\ d # o
    BY <1>2, <1>8, <2>3
  <2> QED
    BY <2>1, <2>2, <2>3
<1>10. ASSUME NEW d \in Calls PROVE ObjectOK(d)'
  <2>1. CASE d = c
    BY <1>1, <1>4, <1>5, <1>8, <2>1 DEF ObjectOK
  <2>2. CASE d # c
    <3>1. ObjectOK(d) /\ calls'[d] = calls[d]
      BY <1>2, <1>8, <2>2
    <3>2. SUFFICES ASSUME calls[d].op = "write"
                   PROVE  LET q == calls[d] IN
                          /\ q.obj \in Calls /\ calls'[q.obj].op = "write"
                          /\ q.obj # d => q.obj \in reused'
                          /\ IsUnwritten(q) /\ q.obj \notin reused' =>
                                packs'[q.obj] = PackOf(q.binding, q.event) /\ Settled(q)
      BY <3>1 DEF ObjectOK
    <3>3. calls[d].obj \in Calls /\ calls[calls[d].obj].op = "write" /\ calls[d].obj # c
      BY <1>4, <3>1, <3>2 DEF ObjectOK
    <3>4. calls'[calls[d].obj] = calls[calls[d].obj]
      BY <1>8, <3>3
    <3>5. calls[d].obj \notin reused' => packs'[calls[d].obj] = packs[calls[d].obj] /\ calls[d].obj \notin reused
      BY <1>1, <1>8, <3>3
    <3> QED
      BY <1>1, <3>1, <3>2, <3>3, <3>4, <3>5 DEF ObjectOK
  <2> QED
    BY <2>1, <2>2
<1>11. \A d \in reused' : d \in Calls /\ calls'[d].binding = "native"
  BY <1>1, <1>2, <1>4, <1>5, <1>8
<1>12. Lines' = Lines
  BY <1>1 DEF Lines
<1>13. ASSUME NEW l \in Lines PROVE LineOK(l)'
  <2>1. l.call \in Calls /\ calls[l.call].op = "write" /\ l.call # c /\ LineOK(l)
    BY <1>3, <1>4 DEF LineOK
  <2>2. calls'[l.call] = calls[l.call]
    BY <1>8, <2>1
  <2> QED
    BY <1>1, <2>1, <2>2 DEF LineOK
<1>14. QueueOK'
  <2>1. CASE v.code >= 0
    BY <1>1, <1>2, <1>5, <1>8, <2>1, QueueAppended
  <2>2. CASE ~(v.code >= 0)
    BY <1>1, <1>2, <1>5, <1>8, <2>2, QueueSame
  <2> QED
    BY <2>1, <2>2
<1>15. StateOK'
  BY <1>1, <1>2 DEF StateOK
<1>16. CallsOK'
  BY <1>8, <1>9, <1>10, <1>11 DEF CallsOK
<1>17. FileOK'
  BY <1>1, <1>2, <1>12, <1>13 DEF FileOK
<1>18. CustomOK'
  BY <1>1, <1>2, CustomSame
<1> QED
  BY <1>14, <1>15, <1>16, <1>17, <1>18 DEF WInv

LEMMA AddParamKeeps ==
    ASSUME WInv, NEW o \in Calls, NEW p, AddParam(o, p)
    PROVE  WInv'
<1>1. /\ calls[o].binding = "native" /\ calls[o].obj = o
      /\ reused' = reused \cup {o} /\ DOMAIN packs' = DOMAIN packs
      /\ \A d \in DOMAIN packs : d # o => packs'[d] = packs[d]
      /\ UNCHANGED <<calls, queue, file, customVars, disabled, space, device, sample>>
  BY DEF AddParam, settings
<1>2. /\ DOMAIN calls = Calls /\ DOMAIN packs = Calls
      /\ \A d \in Calls : IsCallRecord(calls[d])
      /\ \A d \in Calls : RecordOK(d, calls[d], packs[d]) /\ ObjectOK(d)
      /\ \A d \in reused : d \in Calls /\ calls[d].binding = "native"
      /\ file \in Seq(Lines) /\ CustomOK /\ StateOK /\ QueueOK
  BY DEF WInv, CallsOK, FileOK
<1>3. \A l \in Lines : LineOK(l)
  BY DEF WInv, FileOK
<1>4. ASSUME NEW d \in Calls PROVE RecordOK(d, calls'[d], packs'[d])
  <2>1. CASE d = o
    BY <1>1, <1>2, <2>1 DEF RecordOK
  <2>2. CASE d # o
    BY <1>1, <1>2, <2>2
  <2> QED
    BY <2>1, <2>2
<1>5. ASSUME NEW d \in Calls PROVE ObjectOK(d)'
  <2>1. ObjectOK(d) /\ calls'[d] = calls[d]
    BY <1>1, <1>2
  <2>2. calls[d].obj \in Calls /\ calls[d].obj \notin reused' =>
            packs'[calls[d].obj] = packs[calls[d].obj] /\ calls[d].obj \notin reused
    BY <1>1, <1>2
  <2> QED
    BY <1>1, <2>1, <2>2 DEF ObjectOK
<1>6. Lines' = Lines
  BY <1>1 DEF Lines
<1>7. ASSUME NEW l \in Lines PROVE LineOK(l)'
  BY <1>1, <1>3 DEF LineOK
<1>8. QueueOK' /\ StateOK'
  BY <1>1, <1>2 DEF StateOK, QueueOK
<1>9. CallsOK'
  BY <1>1, <1>2, <1>4, <1>5 DEF CallsOK
<1>10. FileOK'
  BY <1>1, <1>2, <1>6, <1>7 DEF FileOK
<1>11. CustomOK'
  BY <1>1, <1>2, CustomSame
<1> QED
  BY <1>8, <1>9, <1>10, <1>11 DEF WInv

\* A call of write begins.
LEMMA WriteBegins ==
    ASSUME WInv, NEW c \in Calls, calls[c].pc = "idle", NEW b \in Bindings, NEW e \in Arguments,
           Expressible(b, e), NEW pc \in CallPcs, pc # "idle", NEW result, NEW how \in CallHows,
           Start(c, b, e, "write", pc, result, how),
           DOMAIN packs' = Calls, \A d \in Calls : d # c => packs'[d] = packs[d],
           pc \in {"queued", "writing"} \/ (pc = "async" /\ result >= 0) =>
               packs'[c] = PackOf(b, e) /\ result = CodeOf(b, e) /\ NotCutShort(b, e),
           queue' = IF pc = "queued" THEN Append(queue, c) ELSE queue,
           UNCHANGED <<reused, file, customVars, settings>>
    PROVE  WInv'
<1> DEFINE r == [pc |-> pc, op |-> "write", binding |-> b, event |-> e,
                 obj |-> c, result |-> result, how |-> how]
<1>1. calls' = [calls EXCEPT ![c] = r]
  BY DEF Start
<1>2. /\ IsCallRecord(r) /\ r.pc = pc /\ r.op = "write" /\ r.binding = b /\ r.event = e
      /\ r.obj = c /\ r.result = result
  BY DEF IsCallRecord
<1> HIDE DEF r
<1>3. RecordOK(c, r, packs'[c])
  BY <1>2 DEF RecordOK
<1>4. r.op = "write" /\ IsUnwritten(r) => packs'[c] = PackOf(r.binding, r.event) /\ Settled(r)
  BY <1>2 DEF IsUnwritten, Settled
<1>5. StateOK' /\ QueueOK /\ DOMAIN calls = Calls
  BY DEF WInv, StateOK, settings, CallsOK
<1>6. calls'[c] = r /\ \A d \in Calls : d # c => calls'[d] = calls[d]
  BY <1>1, <1>5
<1>7. QueueOK'
  <2>1. CASE pc = "queued"
    BY <1>2, <1>5, <1>6, <2>1, QueueAppended
  <2>2. CASE pc # "queued"
    BY <1>2, <1>5, <1>6, <2>2, QueueSame
  <2> QED
    BY <2>1, <2>2
<1> QED
  BY <1>1, <1>2, <1>3, <1>4, <1>5, <1>7, BeginningKeeps

\* The sample is something that an application can give.
LEMMA SampleIs ==
    ASSUME WInv, sample # NoEvent
    PROVE  sample \in Arguments
BY ArgumentsAssumption DEF WInv, StateOK, Arguments

LEMMA CallCKeeps ==
    ASSUME WInv, NEW c \in Calls, NEW b, NEW e \in Arguments, CallC(c, b, e)
    PROVE  WInv'
<1> DEFINE r == Verified(b, e, BuiltOf(b, e).params, SUCCESSFUL)
<1>1. /\ b \in {"c", "native"} /\ calls[c].pc = "idle" /\ Expressible(b, e)
      /\ UNCHANGED <<reused, file, customVars, settings>>
  BY DEF CallC
<1>2. b \in Bindings /\ b \notin Objects /\ b # "ets" /\ DOMAIN packs = Calls
  BY <1>1 DEF Bindings, Objects, WInv, CallsOK
<1>3. CASE ~e.whole
  <2>1. PICK code : Start(c, b, e, "write", "done", code, "returned")
    BY <1>3 DEF CallC
  <2>2. packs' = packs /\ queue' = queue /\ "done" \in CallPcs /\ "returned" \in CallHows
    BY <1>3 DEF CallC, CallPcs, CallHows
  <2> QED
    BY <1>1, <1>2, <2>1, <2>2, WriteBegins
<1>4. CASE e.whole
  <2> DEFINE pc == IF r.code >= 0 THEN "queued" ELSE "done"
  <2>1. /\ Start(c, b, e, "write", pc, r.code, "returned")
        /\ packs' = [packs EXCEPT ![c] = r.params]
        /\ queue' = IF r.code >= 0 THEN Append(queue, c) ELSE queue
    BY <1>4 DEF CallC, BuiltOf
  <2>2. r.code >= 0 => r.params = PackOf(b, e) /\ r.code = CodeOf(b, e)
    BY <1>1, <1>2, VerifiedIs
  <2>3. NotCutShort(b, e)
    BY <1>2 DEF NotCutShort
  <2>4. pc \in CallPcs /\ pc # "idle" /\ "returned" \in CallHows /\ (pc \in {"queued", "writing", "async"} => r.code >= 0)
    BY DEF CallPcs, CallHows
  <2>5. queue' = IF pc = "queued" THEN Append(queue, c) ELSE queue
    BY <2>1
  <2>6. packs'[c] = r.params /\ DOMAIN packs' = Calls /\ \A d \in Calls : d # c => packs'[d] = packs[d]
    BY <1>2, <2>1
  <2> HIDE DEF pc, r
  <2> QED
    BY <1>1, <1>2, <2>1, <2>2, <2>3, <2>4, <2>5, <2>6, WriteBegins
<1> QED
  BY <1>3, <1>4

LEMMA CallJs7Keeps ==
    ASSUME WInv, NEW c \in Calls, NEW e \in Arguments, CallJs7(c, e)
    PROVE  WInv'
<1> DEFINE b == "js7"
           r == Verified(b, e, BuiltOf(b, e).params, BuiltOf(b, e).code)
<1>1. /\ calls[c].pc = "idle" /\ Expressible(b, e)
      /\ UNCHANGED <<reused, queue, file, customVars, settings>>
  BY DEF CallJs7
<1>2. b \in Bindings /\ b \in Objects /\ b # "ets" /\ DOMAIN packs = Calls
      /\ "async" \in CallPcs /\ "none" \in CallHows
  BY DEF Bindings, Objects, WInv, CallsOK, CallPcs, CallHows
<1>3. CASE ~e.whole
  <2>1. PICK code \in BadArgs("js7") : Start(c, b, e, "write", "async", code, "none")
    BY <1>3 DEF CallJs7
  <2>2. packs' = packs
    BY <1>3 DEF CallJs7
  <2>3. ~(code >= 0)
    BY DEF BadArgs, INVALID_NUM_JS, INVALID_TYPE_JS
  <2> QED
    BY <1>1, <1>2, <2>1, <2>2, <2>3, WriteBegins
<1>4. CASE e.whole
  <2>1. /\ Start(c, b, e, "write", "async", r.code, "none")
        /\ packs' = [packs EXCEPT ![c] = r.params]
    BY <1>4 DEF CallJs7, BuiltOf
  <2>2. r.code >= 0 => r.params = PackOf(b, e) /\ r.code = CodeOf(b, e)
    BY <1>1, <1>2, VerifiedIs
  <2>3. NotCutShort(b, e)
    BY DEF NotCutShort
  <2>4. packs'[c] = r.params /\ DOMAIN packs' = Calls /\ \A d \in Calls : d # c => packs'[d] = packs[d]
    BY <1>2, <2>1
  <2> HIDE DEF r
  <2> QED
    BY <1>1, <1>2, <2>1, <2>2, <2>3, <2>4, WriteBegins
<1> QED
  BY <1>3, <1>4

LEMMA CallJs9Keeps ==
    ASSUME WInv, NEW c \in Calls, NEW e \in Arguments, CallJs9(c, e)
    PROVE  WInv'
<1> DEFINE b == "js9"
           r == Verified(b, e, BuiltOf(b, e).params, BuiltOf(b, e).code)
<1>1. /\ calls[c].pc = "idle" /\ Expressible(b, e)
      /\ UNCHANGED <<reused, queue, file, customVars, settings>>
  BY DEF CallJs9
<1>2. b \in Bindings /\ b \in Objects /\ b # "ets" /\ DOMAIN packs = Calls
      /\ {"async", "done"} \subseteq CallPcs /\ {"none", "thrown"} \subseteq CallHows
  BY DEF Bindings, Objects, WInv, CallsOK, CallPcs, CallHows
<1>3. CASE ~(e.whole /\ BuiltOf(b, e).ok)
  <2>1. Start(c, b, e, "write", "done", INVALID_TYPE_JS, "thrown") /\ packs' = packs
    BY <1>3 DEF CallJs9, BuiltOf
  <2> QED
    BY <1>1, <1>2, <2>1, WriteBegins
<1>4. CASE e.whole /\ BuiltOf(b, e).ok
  <2>1. /\ Start(c, b, e, "write", "async", r.code, "none")
        /\ packs' = [packs EXCEPT ![c] = r.params]
    BY <1>4 DEF CallJs9, BuiltOf
  <2>2. r.code >= 0 => r.params = PackOf(b, e) /\ r.code = CodeOf(b, e)
    BY <1>1, <1>2, VerifiedIs
  <2>3. NotCutShort(b, e)
    BY DEF NotCutShort
  <2>4. packs'[c] = r.params /\ DOMAIN packs' = Calls /\ \A d \in Calls : d # c => packs'[d] = packs[d]
    BY <1>2, <2>1
  <2> HIDE DEF r
  <2> QED
    BY <1>1, <1>2, <2>1, <2>2, <2>3, <2>4, WriteBegins
<1> QED
  BY <1>3, <1>4

LEMMA CallEtsKeeps ==
    ASSUME WInv, NEW c \in Calls, NEW e \in Arguments, CallEts(c, e)
    PROVE  WInv'
<1> DEFINE b == "ets"
           r == Verified(b, e, BuiltOf(b, e).params, BuiltOf(b, e).code)
<1>1. /\ calls[c].pc = "idle" /\ Expressible(b, e)
      /\ UNCHANGED <<reused, queue, file, customVars, settings>>
  BY DEF CallEts
<1>2. b \in Bindings /\ b \in Objects /\ DOMAIN packs = Calls
      /\ {"writing", "done"} \subseteq CallPcs /\ {"none", "returned"} \subseteq CallHows
  BY DEF Bindings, Objects, WInv, CallsOK, CallPcs, CallHows
<1>3. CASE ~(e.whole /\ BuiltOf(b, e).ok)
  <2>1. (\E code : Start(c, b, e, "write", "done", code, "returned")) /\ packs' = packs
    BY <1>3 DEF CallEts, BuiltOf
  <2> QED
    BY <1>1, <1>2, <2>1, WriteBegins
<1>4. CASE e.whole /\ BuiltOf(b, e).ok
  <2>1. /\ packs' = [packs EXCEPT ![c] = r.params]
        /\ IF r.code >= 0 THEN Start(c, b, e, "write", "writing", r.code, "none")
           ELSE Start(c, b, e, "write", "done", r.code, "returned")
    BY <1>4 DEF CallEts, BuiltOf
  <2>2. r.code >= 0 => r.params = PackOf(b, e) /\ r.code = CodeOf(b, e)
    BY <1>1, <1>2, VerifiedIs
  <2>3. NotCutShort(b, e)
    BY <1>4 DEF NotCutShort
  <2>4. packs'[c] = r.params /\ DOMAIN packs' = Calls /\ \A d \in Calls : d # c => packs'[d] = packs[d]
    BY <1>2, <2>1
  <2> HIDE DEF r
  <2>5. CASE r.code >= 0
    BY <1>1, <1>2, <2>1, <2>2, <2>3, <2>4, <2>5, WriteBegins
  <2>6. CASE ~(r.code >= 0)
    BY <1>1, <1>2, <2>1, <2>4, <2>6, WriteBegins
  <2> QED
    BY <2>5, <2>6
<1> QED
  BY <1>3, <1>4

LEMMA CallCjKeeps ==
    ASSUME WInv, NEW c \in Calls, NEW e \in Arguments, CallCj(c, e)
    PROVE  WInv'
<1> DEFINE b == "cj"
           r == Verified(b, e, BuiltOf(b, e).params, SUCCESSFUL)
<1>1. /\ calls[c].pc = "idle" /\ Expressible(b, e)
      /\ packs' = [packs EXCEPT ![c] = r.params]
      /\ IF r.code = SUCCESSFUL THEN Start(c, b, e, "write", "writing", r.code, "none")
         ELSE Start(c, b, e, "write", "done", r.code, "returned")
      /\ UNCHANGED <<reused, queue, file, customVars, settings>>
  BY DEF CallCj, BuiltOf
<1>2. b \in Bindings /\ b \notin Objects /\ b # "ets" /\ DOMAIN packs = Calls
      /\ {"writing", "done"} \subseteq CallPcs /\ {"none", "returned"} \subseteq CallHows
  BY DEF Bindings, Objects, WInv, CallsOK, CallPcs, CallHows
<1>3. r.code >= 0 => r.params = PackOf(b, e) /\ r.code = CodeOf(b, e)
  BY <1>1, <1>2, VerifiedIs
<1>4. NotCutShort(b, e)
  BY DEF NotCutShort
<1>5. packs'[c] = r.params /\ DOMAIN packs' = Calls /\ \A d \in Calls : d # c => packs'[d] = packs[d]
  BY <1>1, <1>2
<1> HIDE DEF r
<1>6. CASE r.code = SUCCESSFUL
  <2>1. r.code >= 0
    BY <1>6 DEF SUCCESSFUL
  <2> QED
    BY <1>1, <1>2, <1>3, <1>4, <1>5, <1>6, <2>1, WriteBegins
<1>7. CASE r.code # SUCCESSFUL
  BY <1>1, <1>2, <1>5, <1>7, WriteBegins
<1> QED
  BY <1>6, <1>7

--------------------------------------------------------------------------------
(* Custom parameters.                                                              *)

LEMMA ConvertCustomIs ==
    ASSUME NEW b \in {"js9", "ets", "cj"}, NEW p \in Params, CanBeGiven(b, p)
    PROVE  LET m == ConvertParam(b, p, "param") IN
           \/ m.keep = TRUE /\ m.end = FALSE /\ m.code = SUCCESSFUL /\ m.param = p /\ ~Ignored(b, p)
           \/ m.keep = FALSE /\ m.end = FALSE /\ m.code = SUCCESSFUL /\ Ignored(b, p)
           \/ m.keep = FALSE /\ m.end = TRUE /\ m.code # SUCCESSFUL
           \/ m.keep = FALSE /\ m.end = TRUE /\ b = "ets" /\ ~LongKey(b, p)
<1> DEFINE m == ConvertParam(b, p, "param")
<1>1. CASE LongKey(b, p)
  <2>1. m = [keep |-> FALSE, code |-> INVALID_PARAM_NAME, end |-> TRUE]
    BY <1>1 DEF ConvertParam, Ends
  <2> QED
    BY <2>1 DEF INVALID_PARAM_NAME, SUCCESSFUL
<1>2. CASE ~LongKey(b, p) /\ b = "js9"
  <2>1. m = AddCustomParam2EventPack(p) /\ ~Ignored(b, p)
    BY <1>2 DEF ConvertParam, Convert, Asynchronous, Ignored
  <2>2. m \in {Ends(INVALID_VALUE_TYPE), Ends(INVALID_LIST_TYPE), Converted(p)}
    BY <2>1 DEF AddCustomParam2EventPack
  <2> QED
    BY <2>1, <2>2 DEF Ends, Converted, INVALID_VALUE_TYPE, INVALID_LIST_TYPE, SUCCESSFUL
<1>3. CASE ~LongKey(b, p) /\ b = "ets"
  <2>1. m = AddCustomParamToAppEventPack(p) /\ ~Ignored(b, p)
    BY <1>3 DEF ConvertParam, Convert, Asynchronous, Ignored
  <2>2. m \in {Ends(SUCCESSFUL), Converted(p)}
    BY <2>1 DEF AddCustomParamToAppEventPack
  <2> QED
    BY <1>3, <2>1, <2>2 DEF Ends, Converted, SUCCESSFUL
<1>4. CASE ~LongKey(b, p) /\ b = "cj"
  <2>1. m = AddParams2EventPackCj(p)
    BY <1>4 DEF ConvertParam, Convert, Asynchronous
  <2>2. \/ m = PassedOver /\ Ignored(b, p)
        \/ m = Converted(p) /\ ~Ignored(b, p)
    BY <1>4, <2>1 DEF AddParams2EventPackCj, Ignored
  <2> QED
    BY <2>2 DEF PassedOver, Converted, SUCCESSFUL
<1> QED
  BY <1>1, <1>2, <1>3, <1>4

LEMMA BuildCustomIs ==
    ASSUME NEW b \in {"js9", "ets", "cj"}, NEW e \in Arguments, Expressible(b, e),
           Build(b, e.params, "param").code = SUCCESSFUL, b = "ets" => Build(b, e.params, "param").ok
    PROVE  /\ DOMAIN Build(b, e.params, "param").params = Wanted(b, e)
           /\ \A i \in Wanted(b, e) : Build(b, e.params, "param").params[i] = e.params[i]
<1> DEFINE g == e.params
           D == DOMAIN g
           order == ParseRecord(b, g)
           made == [i \in D |-> ConvertParam(b, g[i], "param")]
           R == {i \in D : \A j \in Ahead(D, order, i) : ~made[j].end}
           codes == [i \in R |-> made[i].code]
           built == Build(b, g, "param")
           B == {k \in R : made[k].keep}
<1>1. /\ built.params = [i \in B |-> made[i].param] /\ built.code = LastProblem(codes, order)
      /\ built.ok = \A i \in R : made[i].end => LongKey(b, g[i])
  BY DEF Build
<1>2. b \in Bindings
  BY DEF Bindings, Objects
<1>3. IsFiniteSet(D) /\ Linear(D, order) /\ \A i \in D : g[i] \in Params /\ CanBeGiven(b, g[i])
  BY <1>2, ArgumentsAre
<1>4. R \in SUBSET D /\ DOMAIN codes = R /\ \A i \in R : codes[i] = made[i].code
  OBVIOUS
<1>5. \A i \in D : made[i] = ConvertParam(b, g[i], "param")
  OBVIOUS
<1> HIDE DEF made, codes, built
<1>6. ASSUME NEW i \in D
      PROVE  LET m == made[i]  p == g[i] IN
             \/ m.keep = TRUE /\ m.end = FALSE /\ m.code = SUCCESSFUL /\ m.param = p /\ ~Ignored(b, p)
             \/ m.keep = FALSE /\ m.end = FALSE /\ m.code = SUCCESSFUL /\ Ignored(b, p)
             \/ m.keep = FALSE /\ m.end = TRUE /\ m.code # SUCCESSFUL
             \/ m.keep = FALSE /\ m.end = TRUE /\ b = "ets" /\ ~LongKey(b, p)
  <2> DEFINE p == g[i]
  <2>1. p \in Params /\ CanBeGiven(b, p) /\ made[i] = ConvertParam(b, p, "param")
    BY <1>3, <1>5
  <2> HIDE DEF p
  <2>2. LET m == ConvertParam(b, p, "param") IN
        \/ m.keep = TRUE /\ m.end = FALSE /\ m.code = SUCCESSFUL /\ m.param = p /\ ~Ignored(b, p)
        \/ m.keep = FALSE /\ m.end = FALSE /\ m.code = SUCCESSFUL /\ Ignored(b, p)
        \/ m.keep = FALSE /\ m.end = TRUE /\ m.code # SUCCESSFUL
        \/ m.keep = FALSE /\ m.end = TRUE /\ b = "ets" /\ ~LongKey(b, p)
    BY <2>1, ConvertCustomIs
  <2> QED
    BY <2>1, <2>2 DEF p
<1>7. IsFiniteSet(R) /\ Linear(R, order)
  BY <1>3, <1>4, FS_Subset, LinearSubset
<1>8. \A i \in R : made[i].code = SUCCESSFUL
  <2>1. built.code = SUCCESSFUL <=> \A i \in R : codes[i] = SUCCESSFUL
    BY <1>1, <1>4, <1>7, LastProblemIs
  <2> QED
    BY <1>4, <2>1 DEF built
<1>9. \A i \in R : ~made[i].end
  <2>1. b = "ets" => \A i \in R : made[i].end => LongKey(b, g[i])
    BY <1>1 DEF built
  <2> QED
    BY <1>4, <1>6, <1>8, <2>1
<1>10. R = D
  <2> DEFINE E == {i \in D : made[i].end}
  <2>1. E = {} => R = D
    BY DEF Ahead
  <2>2. IsFiniteSet(E) /\ Linear(E, order)
    <3>1. E \in SUBSET D
      OBVIOUS
    <3> QED
      BY <1>3, <3>1, FS_Subset, LinearSubset
  <2>3. ASSUME E # {} PROVE FALSE
    <3>1. PICK i \in E : Ahead(E, order, i) = {}
      BY <2>2, <2>3, EarliestExists
    <3>2. i \in R
      BY <3>1 DEF Ahead
    <3> QED
      BY <1>9, <3>1, <3>2
  <2> QED
    BY <2>1, <2>3
<1>11. \A i \in D : /\ made[i].keep <=> ~Ignored(b, g[i])
                    /\ made[i].keep => made[i].param = g[i]
  BY <1>6, <1>9, <1>10
<1>12. B = Wanted(b, e)
  BY <1>10, <1>11 DEF Wanted
<1>13. DOMAIN built.params = B /\ \A i \in B : built.params[i] = g[i]
  BY <1>1, <1>10, <1>11
<1> QED
  BY <1>12, <1>13 DEF built, g

LEMMA CallParamKeeps ==
    ASSUME WInv, NEW c \in Calls, NEW b, NEW e \in Arguments, CallParam(c, b, e)
    PROVE  WInv'
<1> DEFINE built == Build(b, e.params, "param")
           pk == [i \in DOMAIN built.params |-> [built.params[i] EXCEPT !.value.strs = EscapedAll(@)]]
<1>1. /\ b \in {"js9", "ets", "cj"} /\ calls[c].pc = "idle" /\ Expressible(b, e)
      /\ packs' = [packs EXCEPT ![c] = pk]
      /\ UNCHANGED <<reused, queue, file, customVars, settings>>
  BY DEF CallParam
<1>2. b \in Bindings /\ DOMAIN packs = Calls /\ DOMAIN calls = Calls
  BY <1>1 DEF Bindings, Objects, WInv, CallsOK
<1>3. PICK pc, how, result :
        /\ pc \in {"async", "writing", "done"} /\ how \in {"none", "returned", "thrown"}
        /\ Start(c, b, e, "param", pc, result, how)
        /\ pc \in {"async", "writing"} /\ result = SUCCESSFUL =>
               built.code = SUCCESSFUL /\ (b = "ets" => built.ok)
  <2> DEFINE verify == VerifyCustomEventParams([e EXCEPT !.params = built.params],
                                               ParseRecord(b, e.params), disabled)
             code == IF verify # SUCCESSFUL THEN verify ELSE built.code
  <2>1. IF b = "js9" /\ (~e.whole \/ ~built.ok) THEN Start(c, b, e, "param", "done", INVALID_TYPE_JS, "thrown")
        ELSE IF b = "ets" /\ ~built.ok THEN Start(c, b, e, "param", "done", built.code, "returned")
        ELSE IF b = "js9" THEN Start(c, b, e, "param", "async", code, "none")
        ELSE IF code = SUCCESSFUL THEN Start(c, b, e, "param", "writing", code, "none")
        ELSE Start(c, b, e, "param", "done", code, "returned")
    BY DEF CallParam
  <2>2. code = SUCCESSFUL => built.code = SUCCESSFUL
    OBVIOUS
  <2> HIDE DEF code, built
  <2> QED
    BY <2>1, <2>2
<1> DEFINE r == [pc |-> pc, op |-> "param", binding |-> b, event |-> e,
                 obj |-> c, result |-> result, how |-> how]
<1>4. calls' = [calls EXCEPT ![c] = r]
  BY <1>3 DEF Start
<1>5. /\ IsCallRecord(r) /\ r.pc = pc /\ r.op = "param" /\ r.binding = b /\ r.event = e
      /\ r.obj = c /\ r.result = result
  BY <1>3 DEF IsCallRecord, CallPcs, CallHows
<1> HIDE DEF r
<1>6. packs'[c] = pk /\ DOMAIN packs' = Calls /\ \A d \in Calls : d # c => packs'[d] = packs[d]
  BY <1>1, <1>2
<1>7. ASSUME built.code = SUCCESSFUL, b = "ets" => built.ok
      PROVE  HoldsGiven(r, pk)
  <2>1. /\ DOMAIN built.params = Wanted(b, e)
        /\ \A i \in Wanted(b, e) : built.params[i] = e.params[i]
    BY <1>1, <1>7, BuildCustomIs
  <2>2. IsFiniteSet(DOMAIN e.params) /\ \A i \in DOMAIN e.params : e.params[i] \in Params
    BY <1>1, <1>2, ArgumentsAre
  <2>3. Wanted(b, e) = {i \in DOMAIN e.params : ~Ignored(b, e.params[i])}
    BY DEF Wanted
  <2>4. Wanted(b, e) \in SUBSET DOMAIN e.params
    BY <2>3
  <2> HIDE DEF built
  <2>5. DOMAIN pk = Wanted(b, e) /\ \A i \in Wanted(b, e) : pk[i].name = e.params[i].name
    <3>1. ASSUME NEW p \in Params PROVE [p EXCEPT !.value.strs = EscapedAll(@)].name = p.name
      BY DEF Params
    <3> QED
      BY <2>1, <2>2, <2>4, <3>1
  <2> HIDE DEF pk
  <2>6. IsFiniteSet(DOMAIN pk)
    BY <2>2, <2>4, <2>5, FS_Subset
  <2>7. Names(pk) = {e.params[i].name : i \in Wanted(b, e)}
    BY <2>5 DEF Names
  <2>8. CountedNames(r) = {p.name : p \in {q \in {e.params[i] : i \in DOMAIN e.params} : ~Ignored(b, q)}}
    BY <1>5 DEF CountedNames, ToSet
  <2>9. Names(pk) = CountedNames(r)
    BY <2>3, <2>7, <2>8
  <2>10. \A i \in DOMAIN pk : i \in DOMAIN r.event.params /\ pk[i].name = r.event.params[i].name
    BY <1>5, <2>4, <2>5
  <2> QED
    BY <2>6, <2>9, <2>10 DEF HoldsGiven
<1> HIDE DEF pk, built
<1>8. RecordOK(c, r, packs'[c])
  BY <1>1, <1>3, <1>5, <1>6, <1>7 DEF RecordOK, Stores
<1>9. StateOK' /\ QueueOK
  BY <1>1 DEF WInv, StateOK, settings
<1>10. QueueOK'
  <2>1. calls'[c] = r /\ (\A d \in Calls : d # c => calls'[d] = calls[d]) /\ r.pc # "queued"
    BY <1>2, <1>3, <1>4, <1>5
  <2> QED
    BY <1>1, <1>9, <2>1, QueueSame
<1>11. reused' = reused /\ file' = file /\ customVars' = customVars
  BY <1>1
<1>12. r.pc # "idle" /\ ~(r.op = "write")
  BY <1>3, <1>5
<1> QED
  BY <1>1, <1>4, <1>5, <1>6, <1>8, <1>9, <1>10, <1>11, <1>12, BeginningKeeps

--------------------------------------------------------------------------------
(* The steps of a call that has begun, of the configuration and of the device.     *)

LEMMA WriteEventIs ==
    ASSUME WInv, NEW c \in Calls, WriteEvent(c), AfterWrite
    PROVE  /\ file' = file \/ file' = Append(file, Line(c))
           /\ packs' = packs /\ reused' = reused /\ customVars' = customVars /\ StateOK'
<1>1. StateOK /\ packs' = packs /\ reused' = reused /\ customVars' = customVars
      /\ UNCHANGED <<disabled, device, sample>>
  BY DEF WInv, AfterWrite
<1>2. file' = file \/ file' = Append(file, Line(c))
  BY DEF WriteEvent
<1>3. space' \in {"unknown", "enough", "low"}
  BY <1>1 DEF WriteEvent, IsFreeSizeOverLimit, StateOK
<1> QED
  BY <1>1, <1>2, <1>3 DEF StateOK

LEMMA RunQueueKeeps ==
    ASSUME WInv, RunQueue
    PROVE  WInv'
<1> DEFINE c == Head(queue)
           r == [calls[c] EXCEPT !.pc = "done"]
<1>1. /\ queue # <<>> /\ queue' = Tail(queue) /\ WriteEvent(c) /\ AfterWrite
      /\ calls' = [calls EXCEPT ![c].pc = "done"]
  BY DEF RunQueue
<1>2. QueueOK /\ DOMAIN calls = Calls /\ CustomOK
      /\ \A d \in Calls : IsCallRecord(calls[d]) /\ RecordOK(d, calls[d], packs[d])
  BY DEF WInv, CallsOK
<1>3. c \in Calls
  <2>1. queue \in Seq(Calls)
    BY <1>2 DEF QueueOK
  <2> QED
    BY <1>1, <2>1, HeadTailProperties, EmptySeq
<1>4. /\ DOMAIN calls[c] = {"pc", "op", "binding", "event", "obj", "result", "how"}
      /\ calls[c].how \in CallHows
  BY <1>2, <1>3 DEF IsCallRecord
<1>5. /\ r.pc = "done" /\ r.op = calls[c].op /\ r.binding = calls[c].binding
      /\ r.event = calls[c].event /\ r.obj = calls[c].obj /\ r.result = calls[c].result
      /\ IsCallRecord(r)
  BY <1>4 DEF IsCallRecord, CallPcs
<1>6. calls' = [calls EXCEPT ![c] = r]
  BY <1>1, <1>2, <1>3, <1>4
<1> HIDE DEF r
<1>7. calls'[c] = r /\ \A d \in Calls : d # c => calls'[d] = calls[d]
  BY <1>2, <1>3, <1>6
<1>8. QueueOK' /\ calls[c].pc = "queued"
  BY <1>1, <1>2, <1>5, <1>7, QueueTaken
<1>9. IsUnwritten(calls[c])
  BY <1>2, <1>3, <1>8 DEF RecordOK, IsUnwritten
<1>10. /\ file' = file \/ file' = Append(file, Line(c))
       /\ packs' = packs /\ reused' = reused /\ customVars' = customVars /\ StateOK'
  BY <1>1, <1>3, WriteEventIs
<1> HIDE DEF c
<1> QED
  BY <1>2, <1>3, <1>5, <1>6, <1>8, <1>9, <1>10, CustomSame, GoingOnKeeps

\* A call other than the one at the head of the queue goes on.
LEMMA StepKeeps ==
    ASSUME WInv, NEW c \in Calls, calls[c].pc \in {"async", "writing", "complete"},
           NEW r, IsCallRecord(r), r.pc \in {"complete", "done"}, r.op = calls[c].op,
           r.binding = calls[c].binding, r.event = calls[c].event, r.obj = calls[c].obj,
           r.op = "write" => r.result = calls[c].result,
           calls' = [calls EXCEPT ![c] = r], packs' = packs, reused' = reused, queue' = queue,
           file' = file \/ (IsUnwritten(calls[c]) /\ file' = Append(file, Line(c))),
           CustomOK', StateOK'
    PROVE  WInv'
<1>1. QueueOK /\ DOMAIN calls = Calls
  BY DEF WInv, CallsOK
<1>2. calls'[c] = r /\ \A d \in Calls : d # c => calls'[d] = calls[d]
  BY <1>1
<1>3. QueueOK'
  BY <1>1, <1>2, QueueSame
<1> QED
  BY <1>3, GoingOnKeeps

LEMMA RunSyncKeeps ==
    ASSUME WInv, NEW c \in Calls, RunSync(c)
    PROVE  WInv'
<1> DEFINE r == [calls[c] EXCEPT !.pc = "done", !.how = "returned"]
<1>1. /\ calls[c].pc = "writing" /\ calls[c].op = "write" /\ WriteEvent(c) /\ AfterWrite
      /\ calls' = [calls EXCEPT ![c].pc = "done", ![c].how = "returned"] /\ queue' = queue
  BY DEF RunSync
<1>2. DOMAIN calls = Calls /\ CustomOK /\ IsCallRecord(calls[c])
  BY DEF WInv, CallsOK
<1>3. DOMAIN calls[c] = {"pc", "op", "binding", "event", "obj", "result", "how"}
  BY <1>2 DEF IsCallRecord
<1>4. /\ r.pc = "done" /\ r.op = calls[c].op /\ r.binding = calls[c].binding
      /\ r.event = calls[c].event /\ r.obj = calls[c].obj /\ r.result = calls[c].result
      /\ IsCallRecord(r)
  BY <1>3 DEF IsCallRecord, CallPcs, CallHows
<1>5. calls' = [calls EXCEPT ![c] = r]
  BY <1>1, <1>2, <1>3
<1> HIDE DEF r
<1>6. IsUnwritten(calls[c])
  BY <1>1 DEF IsUnwritten
<1>7. /\ file' = file \/ file' = Append(file, Line(c))
      /\ packs' = packs /\ reused' = reused /\ customVars' = customVars /\ StateOK'
  BY <1>1, WriteEventIs
<1> QED
  BY <1>1, <1>2, <1>4, <1>5, <1>6, <1>7, CustomSame, StepKeeps

LEMMA RunAsyncKeeps ==
    ASSUME WInv, NEW c \in Calls, RunAsync(c)
    PROVE  WInv'
<1> DEFINE r == [calls[c] EXCEPT !.pc = "complete"]
<1>1. /\ calls[c].pc = "async" /\ calls[c].op = "write" /\ AfterWrite
      /\ IF calls[c].result >= 0 THEN WriteEvent(c) ELSE UNCHANGED <<file, space>>
      /\ calls' = [calls EXCEPT ![c].pc = "complete"] /\ queue' = queue
  BY DEF RunAsync
<1>2. DOMAIN calls = Calls /\ CustomOK /\ IsCallRecord(calls[c]) /\ StateOK
  BY DEF WInv, CallsOK
<1>3. DOMAIN calls[c] = {"pc", "op", "binding", "event", "obj", "result", "how"} /\ calls[c].how \in CallHows
  BY <1>2 DEF IsCallRecord
<1>4. /\ r.pc = "complete" /\ r.op = calls[c].op /\ r.binding = calls[c].binding
      /\ r.event = calls[c].event /\ r.obj = calls[c].obj /\ r.result = calls[c].result
      /\ IsCallRecord(r)
  BY <1>3 DEF IsCallRecord, CallPcs, CallHows
<1>5. calls' = [calls EXCEPT ![c] = r]
  BY <1>1, <1>2, <1>3
<1> HIDE DEF r
<1>6. calls[c].result >= 0 => IsUnwritten(calls[c])
  BY <1>1 DEF IsUnwritten
<1>7. /\ file' = file \/ (IsUnwritten(calls[c]) /\ file' = Append(file, Line(c)))
      /\ packs' = packs /\ reused' = reused /\ customVars' = customVars /\ StateOK'
  <2>1. CASE calls[c].result >= 0
    BY <1>1, <1>6, <2>1, WriteEventIs
  <2>2. CASE ~(calls[c].result >= 0)
    BY <1>1, <1>2, <2>2 DEF AfterWrite, StateOK
  <2> QED
    BY <2>1, <2>2
<1> QED
  BY <1>1, <1>2, <1>4, <1>5, <1>7, CustomSame, StepKeeps

LEMMA EndsKeeps ==
    ASSUME WInv, NEW c \in Calls, AsyncFails(c) \/ Complete(c)
    PROVE  WInv'
<1>1. /\ calls[c].pc \in {"async", "complete"}
      /\ UNCHANGED <<packs, reused, queue, file, customVars, settings>>
  BY DEF AsyncFails, Complete
<1>2. PICK how \in CallHows : calls' = [calls EXCEPT ![c].pc = "done", ![c].how = how]
  BY DEF AsyncFails, Complete, CallHows
<1> DEFINE r == [calls[c] EXCEPT !.pc = "done", !.how = how]
<1>3. DOMAIN calls = Calls /\ CustomOK /\ IsCallRecord(calls[c]) /\ StateOK
  BY DEF WInv, CallsOK
<1>4. DOMAIN calls[c] = {"pc", "op", "binding", "event", "obj", "result", "how"}
  BY <1>3 DEF IsCallRecord
<1>5. /\ r.pc = "done" /\ r.op = calls[c].op /\ r.binding = calls[c].binding
      /\ r.event = calls[c].event /\ r.obj = calls[c].obj /\ r.result = calls[c].result
      /\ IsCallRecord(r)
  BY <1>4 DEF IsCallRecord, CallPcs
<1>6. calls' = [calls EXCEPT ![c] = r]
  BY <1>2, <1>3, <1>4
<1> HIDE DEF r
<1>7. StateOK'
  BY <1>1, <1>3 DEF StateOK, settings
<1> QED
  BY <1>1, <1>3, <1>5, <1>6, <1>7, CustomSame, StepKeeps

\* What a call that is to store its parameters adds to the table.
StoredBy(c) ==
    /\ custom \subseteq custom' /\ Cardinality(custom' \ custom) <= Limit.customParams
    /\ \A r \in custom' \ custom :
          r.call = c /\ r.place \in DOMAIN Given(c) /\ r.key = Given(c)[r.place].name
    /\ ~Unguarded(c)' => CountedNames(calls[c]) \subseteq Keys'
    /\ ~(Unguarded(c) \/ Misread(c))' =>
          /\ Cardinality(Keys') <= Limit.customParams
          /\ \A r \in custom' \ custom : r.key \notin Keys

LEMMA ImageFinite ==
    ASSUME NEW S, IsFiniteSet(S), NEW f, DOMAIN f = S
    PROVE  /\ IsFiniteSet({f[x] : x \in S})
           /\ Cardinality({f[x] : x \in S}) \in Nat /\ Cardinality(S) \in Nat
           /\ Cardinality({f[x] : x \in S}) <= Cardinality(S)
<1> DEFINE T == {f[x] : x \in S}
           g == [x \in S |-> f[x]]
<1>1. g \in Surjection(S, T)
  BY DEF Surjection
<1> HIDE DEF g, T
<1>2. IsFiniteSet(T) /\ Cardinality(T) <= Cardinality(S)
  BY <1>1, FS_Surjection
<1>3. Cardinality(T) \in Nat /\ Cardinality(S) \in Nat
  BY <1>2, FS_CardinalityType
<1> QED
  BY <1>2, <1>3 DEF T

LEMMA KeysFinite ==
    ASSUME CustomOK
    PROVE  IsFiniteSet(Keys)
<1> DEFINE f == [r \in custom |-> r.key]
<1>1. IsFiniteSet(custom) /\ DOMAIN f = custom /\ Keys = {f[r] : r \in custom}
  BY DEF CustomOK, Keys
<1> HIDE DEF f
<1> QED
  BY <1>1, ImageFinite

LEMMA InsertIs ==
    ASSUME CustomOK, NEW c \in Calls, HoldsGiven(calls[c], packs[c]),
           NEW old, IsFiniteSet(old), NEW ret, InsertCustomEventParams(c, old, ret),
           Unguarded(c) => Unguarded(c)',
           ~Unguarded(c) => old \subseteq Keys /\ (old # Keys => Misread(c)')
    PROVE  /\ IsFiniteSet(custom')
           /\ custom' # custom => ret = SUCCESSFUL /\ StoredBy(c)
<1> DEFINE new == Inserted(c, old)
           Limits == Cardinality(old) + Cardinality(new) > Limit.customParams
<1>1. IsFiniteSet(custom)
  BY DEF CustomOK
<1>2. CASE Limits
  BY <1>1, <1>2 DEF InsertCustomEventParams
<1>3. CASE ~Limits
  <2>1. PICK places \in IF Unguarded(c) THEN SUBSET new ELSE {{}, new} :
           ret = SUCCESSFUL /\ custom' = custom \cup {Row(c, i) : i \in places}
    BY <1>3 DEF InsertCustomEventParams
  <2> DEFINE pk == packs[c]
             R == {Row(c, i) : i \in places}
             added == custom' \ custom
  <2>2. /\ IsFiniteSet(DOMAIN pk) /\ {pk[i].name : i \in DOMAIN pk} = CountedNames(calls[c])
        /\ \A i \in DOMAIN pk : i \in DOMAIN Given(c) /\ pk[i].name = Given(c)[i].name
    BY DEF HoldsGiven, Names, Given
  <2>3. new \in SUBSET DOMAIN pk /\ places \in SUBSET new
    BY <2>1 DEF Inserted
  <2>4. new = {i \in DOMAIN pk : pk[i].name \notin old}
    BY DEF Inserted
  <2>5. \A i \in DOMAIN pk : /\ Row(c, i).call = c /\ Row(c, i).place = i
                            /\ Row(c, i).key = pk[i].name
    BY DEF Row
  <2> HIDE DEF new, pk
  <2>6. IsFiniteSet(new) /\ IsFiniteSet(places) /\ Cardinality(places) <= Cardinality(new)
    BY <2>2, <2>3, FS_Subset
  <2>7. IsFiniteSet(R) /\ Cardinality(R) \in Nat /\ Cardinality(R) <= Cardinality(places)
        /\ Cardinality(places) \in Nat
    <3> DEFINE f == [i \in places |-> Row(c, i)]
    <3>1. DOMAIN f = places /\ R = {f[i] : i \in places}
      OBVIOUS
    <3> HIDE DEF f, R
    <3> QED
      BY <2>6, <3>1, ImageFinite
  <2>8. Cardinality(old) \in Nat /\ Cardinality(new) \in Nat /\ Limit.customParams \in Nat
    BY <2>6, FS_CardinalityType, LimitsType
  <2>9. custom' = custom \cup R /\ added \in SUBSET R
    BY <2>1
  <2>10. IsFiniteSet(custom')
    <3> HIDE DEF R
    <3> QED
      BY <1>1, <2>7, <2>9, FS_Union
  <2>11. IsFiniteSet(added) /\ Cardinality(added) <= Cardinality(R) /\ Cardinality(added) \in Nat
    <3> HIDE DEF R, added
    <3> QED
      BY <2>7, <2>9, FS_Subset, FS_CardinalityType
  <2>12. Cardinality(new) <= Limit.customParams
    BY <1>3, <2>8 DEF new
  <2>13. Cardinality(added) <= Limit.customParams
    <3> HIDE DEF R, added
    <3> QED
      BY <2>6, <2>7, <2>8, <2>11, <2>12
  <2>14. \A r \in added : \E i \in places : r = Row(c, i)
    BY <2>9
  <2>15. \A r \in added : \E i \in new : r.call = c /\ r.place = i /\ r.key = pk[i].name /\ i \in DOMAIN pk
    BY <2>3, <2>5, <2>14
  <2>16. \A r \in added : r.call = c /\ r.place \in DOMAIN Given(c) /\ r.key = Given(c)[r.place].name
    <3> HIDE DEF added
    <3> QED
      BY <2>2, <2>15
  <2>17. Keys' = {r.key : r \in custom'} /\ Keys = {r.key : r \in custom}
    BY DEF Keys
  <2>18. ASSUME custom' # custom, ~Unguarded(c)'
         PROVE  places = new /\ old \subseteq Keys /\ (old # Keys => Misread(c)')
    <3>1. ~Unguarded(c)
      BY <2>18
    <3>2. places # {}
      BY <2>1, <2>18
    <3> QED
      BY <2>1, <3>1, <3>2
  <2>19. ASSUME custom' # custom, ~Unguarded(c)'
         PROVE  CountedNames(calls[c]) \subseteq Keys'
    <3>1. SUFFICES ASSUME NEW i \in DOMAIN pk PROVE pk[i].name \in Keys'
      BY <2>2
    <3>2. CASE pk[i].name \in old
      BY <2>9, <2>17, <2>18, <2>19, <3>2
    <3>3. CASE pk[i].name \notin old
      <4>1. i \in places
        BY <2>4, <2>18, <2>19, <3>3
      <4>2. Row(c, i) \in custom'
        BY <2>1, <4>1
      <4> QED
        BY <2>5, <2>17, <4>2
    <3> QED
      BY <3>2, <3>3
  <2>20. ASSUME custom' # custom, ~Unguarded(c)', ~Misread(c)'
         PROVE  /\ Cardinality(Keys') <= Limit.customParams
                /\ \A r \in added : r.key \notin Keys
    <3>1. places = new /\ old = Keys
      BY <2>18, <2>20
    <3> DEFINE N == {pk[i].name : i \in new}
    <3>2. IsFiniteSet(N) /\ Cardinality(N) <= Cardinality(new) /\ Cardinality(N) \in Nat
      <4> DEFINE f == [i \in new |-> pk[i].name]
      <4>1. DOMAIN f = new /\ N = {f[i] : i \in new}
        OBVIOUS
      <4> HIDE DEF f, N
      <4> QED
        BY <2>6, <4>1, ImageFinite
    <3>3. Keys' = Keys \cup N
      <4>1. ASSUME NEW r \in custom' PROVE r.key \in Keys \cup N
        BY <2>3, <2>5, <2>9, <2>17
      <4>2. ASSUME NEW i \in new PROVE pk[i].name \in Keys'
        <5>1. Row(c, i) \in custom' /\ i \in DOMAIN pk
          BY <2>1, <2>3, <3>1
        <5> QED
          BY <2>5, <2>17, <5>1
      <4>3. Keys \subseteq Keys'
        BY <2>9, <2>17
      <4>4. Keys' \subseteq Keys \cup N
        BY <2>17, <4>1
      <4> QED
        BY <4>2, <4>3, <4>4
    <3> HIDE DEF N
    <3>4. /\ Cardinality(Keys \cup N) = Cardinality(Keys) + Cardinality(N) - Cardinality(Keys \cap N)
          /\ IsFiniteSet(Keys \cap N)
      BY <3>1, <3>2, FS_Union, FS_Intersection
    <3>5. Cardinality(Keys \cap N) \in Nat /\ Cardinality(Keys) \in Nat
      BY <2>8, <3>1, <3>4, FS_CardinalityType
    <3>6. Cardinality(old) + Cardinality(new) <= Limit.customParams
      BY <1>3, <2>8 DEF new
    <3>7. Cardinality(Keys') <= Limit.customParams
      BY <2>8, <3>1, <3>2, <3>3, <3>4, <3>5, <3>6
    <3>8. \A r \in added : r.key \notin Keys
      <4> HIDE DEF added
      <4> QED
        BY <2>4, <2>15, <3>1
    <3> QED
      BY <3>7, <3>8
  <2> QED
    BY <2>1, <2>9, <2>10, <2>13, <2>16, <2>19, <2>20 DEF StoredBy
<1> QED
  BY <1>2, <1>3

LEMMA AnswerIs ==
    ASSUME NEW c \in Calls, DOMAIN calls = Calls, IsCallRecord(calls[c]),
           calls[c].pc \in {"async", "writing"}, NEW ret, Answer(c, ret)
    PROVE  \E r : /\ IsCallRecord(r) /\ r.pc \in {"complete", "done"} /\ r.op = calls[c].op
                  /\ r.binding = calls[c].binding /\ r.event = calls[c].event /\ r.obj = calls[c].obj
                  /\ r.result = ret /\ calls' = [calls EXCEPT ![c] = r]
<1> DEFINE pc  == IF calls[c].pc = "async" THEN "complete" ELSE "done"
           how == IF calls[c].pc = "async" THEN calls[c].how ELSE "returned"
           r == [calls[c] EXCEPT !.pc = pc, !.how = how, !.result = ret]
<1>1. DOMAIN calls[c] = {"pc", "op", "binding", "event", "obj", "result", "how"} /\ calls[c].how \in CallHows
  BY DEF IsCallRecord
<1>2. pc \in {"complete", "done"} /\ how \in CallHows
  BY <1>1 DEF CallHows
<1>3. calls' = [calls EXCEPT ![c] = r]
  BY <1>1 DEF Answer
<1> HIDE DEF pc, how
<1>4. /\ r.pc \in {"complete", "done"} /\ r.op = calls[c].op /\ r.binding = calls[c].binding
      /\ r.event = calls[c].event /\ r.obj = calls[c].obj /\ r.result = ret
      /\ IsCallRecord(r)
  BY <1>1, <1>2 DEF IsCallRecord, CallPcs
<1> HIDE DEF r
<1> QED
  BY <1>3, <1>4

\* What a call of setEventParam does to the table.
LEMMA RunParamIs ==
    ASSUME WInv, NEW c \in Calls, RunParam(c)
    PROVE  /\ calls[c].op = "param" /\ calls[c].pc \in {"async", "writing"}
           /\ StateOK' /\ UNCHANGED <<packs, reused, queue, file>>
           /\ \E r : /\ IsCallRecord(r) /\ r.pc \in {"complete", "done"} /\ r.op = calls[c].op
                     /\ r.binding = calls[c].binding /\ r.event = calls[c].event /\ r.obj = calls[c].obj
                     /\ calls' = [calls EXCEPT ![c] = r]
                     /\ custom' # custom => r.result = SUCCESSFUL
           /\ CustomOK'
           /\ custom' # custom => StoredBy(c)
<1>1. /\ calls[c].op = "param" /\ calls[c].pc \in {"async", "writing"} /\ ~Unguarded(c)
      /\ UNCHANGED <<packs, reused, queue, file, oldParamkeys, disabled, device, changes, sample>>
  BY DEF RunParam, IsParam
<1>2. /\ DOMAIN calls = Calls /\ CustomOK /\ IsCallRecord(calls[c]) /\ StateOK
      /\ RecordOK(c, calls[c], packs[c])
  BY DEF WInv, CallsOK
<1>3. DOMAIN calls[c] = {"pc", "op", "binding", "event", "obj", "result", "how"} /\ calls[c].how \in CallHows
  BY <1>2 DEF IsCallRecord
<1>4. CASE calls[c].result # SUCCESSFUL
  <2> DEFINE r == [calls[c] EXCEPT !.pc = "complete"]
  <2>1. calls' = [calls EXCEPT ![c].pc = "complete"] /\ custom' = custom /\ space' = space
    BY <1>4 DEF RunParam
  <2>2. /\ r.pc = "complete" /\ r.op = calls[c].op /\ r.binding = calls[c].binding
        /\ r.event = calls[c].event /\ r.obj = calls[c].obj
        /\ IsCallRecord(r)
    BY <1>3 DEF IsCallRecord, CallPcs, CallHows
  <2>3. calls' = [calls EXCEPT ![c] = r]
    BY <1>2, <1>3, <2>1
  <2> HIDE DEF r
  <2>4. StateOK' /\ CustomOK'
    BY <1>1, <1>2, <2>1 DEF StateOK, CustomOK
  <2> QED
    BY <1>1, <1>2, <2>1, <2>2, <2>3, <2>4
<1>5. CASE calls[c].result = SUCCESSFUL
  <2>1. PICK ret \in {SUCCESSFUL, INVALID_CUSTOM_NUM} : SetEventParam(c, ret) /\ Answer(c, ret)
    BY <1>5 DEF RunParam
  <2>2. HoldsGiven(calls[c], packs[c])
    BY <1>1, <1>2, <1>5 DEF RecordOK, Stores
  <2>3. /\ IsFiniteSet(custom')
        /\ custom' # custom => ret = SUCCESSFUL /\ StoredBy(c)
    <3>1. CASE custom' = custom
      BY <1>2, <3>1 DEF CustomOK
    <3>2. CASE custom' # custom
      <4>1. PICK old \in SUBSET Keys : QueryParamkeys(c, old, {}) /\ InsertCustomEventParams(c, old, ret)
        BY <2>1, <3>2 DEF SetEventParam
      <4>2. IsFiniteSet(old)
        BY <1>2, KeysFinite, FS_Subset
      <4>3. old # Keys => Misread(c)'
        BY <4>1 DEF QueryParamkeys, Misread
      <4> QED
        BY <1>1, <1>2, <2>2, <4>1, <4>2, <4>3, InsertIs
    <3> QED
      BY <3>1, <3>2
  <2>4. space' \in {"unknown", "enough", "low"}
    BY <1>2, <2>1 DEF SetEventParam, IsFreeSizeOverLimit, StateOK
  <2>5. StateOK' /\ CustomOK'
    BY <1>1, <1>2, <2>3, <2>4 DEF StateOK, CustomOK
  <2> QED
    BY <1>1, <1>2, <2>1, <2>3, <2>5, AnswerIs
<1> QED
  BY <1>4, <1>5

\* The same of a call without a transaction, from the keys that it has read before.
LEMMA StoreUnguardedIs ==
    ASSUME WInv, NEW c \in Calls, StoreUnguarded(c)
    PROVE  /\ calls[c].op = "param" /\ calls[c].pc \in {"async", "writing"}
           /\ StateOK' /\ UNCHANGED <<packs, reused, queue, file>>
           /\ \E r : /\ IsCallRecord(r) /\ r.pc \in {"complete", "done"} /\ r.op = calls[c].op
                     /\ r.binding = calls[c].binding /\ r.event = calls[c].event /\ r.obj = calls[c].obj
                     /\ calls' = [calls EXCEPT ![c] = r]
                     /\ custom' # custom => r.result = SUCCESSFUL
           /\ CustomOK'
           /\ custom' # custom => StoredBy(c)
<1>1. /\ calls[c].op = "param" /\ calls[c].pc \in {"async", "writing"}
      /\ calls[c].result = SUCCESSFUL /\ Unguarded(c)
      /\ UNCHANGED <<packs, reused, queue, file, oldParamkeys, failed, settings>>
  BY DEF StoreUnguarded, IsToStore, IsParam
<1>2. /\ DOMAIN calls = Calls /\ CustomOK /\ IsCallRecord(calls[c]) /\ StateOK
      /\ RecordOK(c, calls[c], packs[c])
  BY DEF WInv, CallsOK
<1>3. PICK ret \in {SUCCESSFUL, INVALID_CUSTOM_NUM} :
        InsertCustomEventParams(c, oldParamkeys[c], ret) /\ Answer(c, ret)
  BY DEF StoreUnguarded
<1>4. HoldsGiven(calls[c], packs[c])
  BY <1>1, <1>2 DEF RecordOK, Stores
<1>5. IsFiniteSet(oldParamkeys[c]) /\ Unguarded(c)'
  BY <1>1, <1>2 DEF CustomOK, Unguarded
<1>6. /\ IsFiniteSet(custom')
      /\ custom' # custom => ret = SUCCESSFUL /\ StoredBy(c)
  BY <1>1, <1>2, <1>3, <1>4, <1>5, InsertIs
<1>7. StateOK' /\ CustomOK'
  BY <1>1, <1>2, <1>6 DEF StateOK, CustomOK, settings
<1> QED
  BY <1>1, <1>2, <1>3, <1>6, <1>7, AnswerIs

LEMMA RunParamKeeps ==
    ASSUME WInv, NEW c \in Calls, RunParam(c) \/ StoreUnguarded(c)
    PROVE  WInv'
<1>1. /\ calls[c].op = "param" /\ calls[c].pc \in {"async", "writing"}
      /\ StateOK' /\ UNCHANGED <<packs, reused, queue, file>> /\ CustomOK'
      /\ \E r : /\ IsCallRecord(r) /\ r.pc \in {"complete", "done"} /\ r.op = calls[c].op
                /\ r.binding = calls[c].binding /\ r.event = calls[c].event /\ r.obj = calls[c].obj
                /\ calls' = [calls EXCEPT ![c] = r]
  BY RunParamIs, StoreUnguardedIs
<1>2. PICK r : /\ IsCallRecord(r) /\ r.pc \in {"complete", "done"} /\ r.op = calls[c].op
               /\ r.binding = calls[c].binding /\ r.event = calls[c].event /\ r.obj = calls[c].obj
               /\ calls' = [calls EXCEPT ![c] = r]
  BY <1>1
<1>3. r.op = "write" => r.result = calls[c].result
  BY <1>1, <1>2
<1> QED
  BY <1>1, <1>2, <1>3, StepKeeps

LEMMA SettingsKeep ==
    ASSUME WInv, UNCHANGED <<calls, packs, reused, queue, file>>, CustomOK', StateOK'
    PROVE  WInv'
<1>1. StateOK' /\ CustomOK' /\ CallsOK /\ QueueOK /\ FileOK
  BY DEF WInv
<1>2. CallsOK' /\ QueueOK'
  BY <1>1 DEF CallsOK, ObjectOK, QueueOK
<1>3. FileOK'
  BY <1>1 DEF FileOK, Lines, LineOK
<1> QED
  BY <1>1, <1>2, <1>3 DEF WInv

LEMMA BeginFailsKeeps ==
    ASSUME WInv, NEW c \in Calls, BeginFails(c)
    PROVE  WInv'
<1>1. /\ IsFreeSizeOverLimit(FALSE)
      /\ UNCHANGED <<calls, packs, reused, queue, file, custom, disabled, device, changes, sample>>
  BY DEF BeginFails
<1>2. CustomOK /\ StateOK
  BY DEF WInv
<1>3. PICK old \in SUBSET Keys : oldParamkeys' = [oldParamkeys EXCEPT ![c] = old]
  BY DEF BeginFails
<1>4. IsFiniteSet(old)
  BY <1>2, KeysFinite, FS_Subset
<1>5. CustomOK'
  BY <1>1, <1>2, <1>3, <1>4 DEF CustomOK
<1>6. StateOK'
  BY <1>1, <1>2 DEF StateOK, IsFreeSizeOverLimit
<1> QED
  BY <1>1, <1>5, <1>6, SettingsKeep

LEMMA InitiallyOK == WInit => WInv
<1> SUFFICES ASSUME WInit PROVE WInv
  OBVIOUS
<1>1. /\ calls = [c \in Calls |-> Idle] /\ packs = [c \in Calls |-> <<>>] /\ reused = {}
      /\ queue = <<>> /\ file = <<>>
      /\ custom = {} /\ oldParamkeys = [c \in Calls |-> {}]
      /\ disabled = FALSE /\ space = "unknown" /\ device \in {"enough", "low"}
      /\ sample \in Events \cup {NoEvent}
  BY DEF WInit
<1>2. DOMAIN queue = {} /\ DOMAIN file = {} /\ queue \in Seq(Calls) /\ \A S : file \in Seq(S)
  BY <1>1, EmptySeq
<1>3. \A c \in Calls : calls[c] = Idle
  BY <1>1
<1>4. IsCallRecord(Idle) /\ Idle.pc = "idle" /\ Idle.op = "none" /\ Idle.binding = "none"
  BY DEF IsCallRecord, Idle, CallPcs, CallHows
<1>5. StateOK
  BY <1>1 DEF StateOK
<1>6. CallsOK
  BY <1>1, <1>3, <1>4 DEF CallsOK, RecordOK, ObjectOK
<1>7. QueueOK
  BY <1>2, <1>3, <1>4 DEF QueueOK
<1>8. FileOK
  BY <1>2 DEF FileOK, Lines
<1>9. CustomOK
  BY <1>1, FS_EmptySet DEF CustomOK
<1> QED
  BY <1>5, <1>6, <1>7, <1>8, <1>9 DEF WInv

LEMMA StepsKeep == WInv /\ [WNext]_writingVars => WInv'
<1> SUFFICES ASSUME WInv, [WNext]_writingVars PROVE WInv'
  OBVIOUS
<1>1. CASE UNCHANGED writingVars
  <2>1. StateOK'
    BY <1>1 DEF writingVars, WInv, StateOK
  <2>2. CustomOK'
    BY <1>1, CustomSame DEF WInv, writingVars
  <2> QED
    BY <1>1, <2>1, <2>2, SettingsKeep DEF writingVars
<1>2. ASSUME NEW c \in Calls, sample # NoEvent, Write(c) PROVE WInv'
  <2>1. sample \in Arguments
    BY <1>2, SampleIs
  <2> QED
    BY <1>2, <2>1, CallCKeeps, CallJs7Keeps, CallJs9Keeps, CallEtsKeeps, CallCjKeeps, RewriteKeeps DEF Write
<1>3. ASSUME NEW c \in Calls, AddParam(c, sample.params[1]) PROVE WInv'
  BY <1>3, AddParamKeeps
<1>4. ASSUME NEW c \in Calls, NEW e \in ParamSets, NEW b \in Bindings, CallParam(c, b, e) PROVE WInv'
  <2>1. e \in Arguments
    BY ArgumentsAssumption DEF Arguments
  <2> QED
    BY <1>4, <2>1, CallParamKeeps
<1>5. ASSUME NEW c \in Calls, RunSync(c) \/ RunAsync(c) \/ AsyncFails(c) \/ Complete(c)
                                \/ RunParam(c) \/ BeginFails(c) \/ StoreUnguarded(c)
      PROVE  WInv'
  BY <1>5, RunSyncKeeps, RunAsyncKeeps, EndsKeeps, RunParamKeeps, BeginFailsKeeps
<1>6. CASE RunQueue
  BY <1>6, RunQueueKeeps
<1>7. CASE (\E value \in BOOLEAN : SetDisable(value)) \/ DeviceChanges \/ RefreshFreeSize
  <2>1. StateOK'
    BY <1>7 DEF SetDisable, DeviceChanges, RefreshFreeSize, WInv, StateOK
  <2>2. CustomOK'
    BY <1>7, CustomSame DEF SetDisable, DeviceChanges, RefreshFreeSize, WInv
  <2> QED
    BY <1>7, <2>1, <2>2, SettingsKeep DEF SetDisable, DeviceChanges, RefreshFreeSize
<1> QED
  BY <1>1, <1>2, <1>3, <1>4, <1>5, <1>6, <1>7 DEF WNext

LEMMA WritingIsOK == WSpec => []WInv
<1>1. WInit => WInv
  BY InitiallyOK
<1>2. WInv /\ [WNext]_writingVars => WInv'
  BY StepsKeep
<1> QED
  BY <1>1, <1>2, PTL DEF WSpec

\* What a line of an event that is not reused holds.
LEMMA LineIs ==
    ASSUME WInv, NEW l \in Lines, Writes(l.call)
    PROVE  LET b == calls[l.call].binding
               e == calls[l.call].event IN
           /\ l.call \in Calls /\ b \in Bindings /\ e \in Arguments /\ Expressible(b, e)
           /\ l.params = PackOf(b, e) /\ calls[l.call].result = CodeOf(b, e) /\ NotCutShort(b, e)
<1>1. LineOK(l) /\ \A c \in Calls : RecordOK(c, calls[c], packs[c])
  BY DEF WInv, FileOK, CallsOK
<1> QED
  BY <1>1 DEF LineOK, Writes, RecordOK, Settled

\* Whatever the binding and the arguments, a line of the log that comes from an event written
\* once holds a limited number of parameters with valid and different names, every one the
\* value that was given with this name, escaped once and within the limits.
THEOREM LinesStayValid == WSpec => []LinesAreValid
<1>1. ASSUME WInv PROVE LinesAreValid
  <2>1. WTypeOK
    <3>1. StateOK /\ CallsOK /\ QueueOK
      BY <1>1 DEF WInv
    <3>2. \A c \in Calls : calls[c].pc \in CallPcs /\ calls[c].how \in CallHows
      BY <3>1 DEF CallsOK, IsCallRecord
    <3> QED
      BY <3>1, <3>2 DEF WTypeOK, StateOK, CallsOK, QueueOK, CallPcs, CallHows
  <2>2. ASSUME NEW l \in Lines, Writes(l.call) PROVE ValidLine(l.params, Given(l.call))
    <3>1. LET b == calls[l.call].binding
              e == calls[l.call].event IN
          b \in Bindings /\ e \in Arguments /\ Expressible(b, e) /\ l.params = PackOf(b, e)
      BY <1>1, <2>2, LineIs
    <3> QED
      BY <3>1, PackIsValid DEF Given
  <2> QED
    BY <2>1, <2>2 DEF LinesAreValid, ValidLine
<1> QED
  BY <1>1, WritingIsOK, PTL

\* The code that a caller gets is not negative when the event is in the log, and it is zero
\* exactly when the line lacks nothing that was given.
THEOREM ResultsAreHonest == WSpec => []ResultIsHonest
<1>1. ASSUME WInv PROVE ResultIsHonest
  <2> SUFFICES ASSUME NEW l \in Lines, Writes(l.call)
               PROVE  /\ calls[l.call].result >= 0
                      /\ calls[l.call].result = 0 <=> IsWhole(l)
    BY DEF ResultIsHonest
  <2> DEFINE b == calls[l.call].binding
             e == calls[l.call].event
  <2>1. /\ b \in Bindings /\ e \in Arguments /\ Expressible(b, e)
        /\ l.params = PackOf(b, e) /\ calls[l.call].result = CodeOf(b, e) /\ NotCutShort(b, e)
    BY <1>1, LineIs
  <2>2. Given(l.call) = e.params
        /\ Wanted(b, e) = {i \in DOMAIN Given(l.call) : Counts(l.call, Given(l.call)[i])}
    BY DEF Given, Wanted, Counts
  <2> HIDE DEF b, e
  <2>3. /\ CodeOf(b, e) \in Nat
        /\ CodeOf(b, e) = SUCCESSFUL <=>
             /\ DOMAIN PackOf(b, e) = Wanted(b, e)
             /\ \A i \in DOMAIN PackOf(b, e) :
                   /\ PackOf(b, e)[i].name = e.params[i].name
                   /\ Same(PackOf(b, e)[i].value, e.params[i].value)
    BY <2>1, CodeIsHonest
  <2>4. calls[l.call].result \in Nat /\ (calls[l.call].result = 0 <=> IsWhole(l))
    BY <2>1, <2>2, <2>3 DEF IsWhole, SUCCESSFUL
  <2> QED
    BY <2>4
<1> QED
  BY <1>1, WritingIsOK, PTL

\* Of arguments that every binding can take all of them write the same parameters: those
\* that are good, the first of each name, cut and escaped in the same way.
THEOREM BindingsDoAgree == WSpec => []BindingsAgree
<1>1. ASSUME WInv PROVE BindingsAgree
  <2> SUFFICES ASSUME NEW l \in Lines, NEW m \in Lines, Writes(l.call), Writes(m.call),
                      calls[l.call].event = calls[m.call].event, Usual(calls[l.call].event)
               PROVE  /\ DOMAIN l.params = DOMAIN m.params
                      /\ \A i \in DOMAIN l.params :
                            /\ l.params[i].name = m.params[i].name
                            /\ l.params[i].value.size = m.params[i].value.size
                            /\ l.params[i].value.strs = m.params[i].value.strs
    BY DEF BindingsAgree, Usual
  <2> DEFINE b == calls[l.call].binding
             d == calls[m.call].binding
             e == calls[l.call].event
  <2>1. b \in Bindings /\ e \in Arguments /\ Expressible(b, e) /\ l.params = PackOf(b, e)
    BY <1>1, LineIs
  <2>2. d \in Bindings /\ Expressible(d, e) /\ m.params = PackOf(d, e)
    BY <1>1, LineIs
  <2>3. Usual(e)
    OBVIOUS
  <2> HIDE DEF b, d, e
  <2>4. /\ DOMAIN l.params = FirstGood(e.params)
        /\ \A i \in DOMAIN l.params :
              /\ l.params[i].name = e.params[i].name
              /\ l.params[i].value.size = CutSize(e.params[i])
              /\ l.params[i].value.strs = CutStrs(e.params[i])
    BY <2>1, <2>3, PackOfAnyBinding
  <2>5. /\ DOMAIN m.params = FirstGood(e.params)
        /\ \A i \in DOMAIN m.params :
              /\ m.params[i].name = e.params[i].name
              /\ m.params[i].value.size = CutSize(e.params[i])
              /\ m.params[i].value.strs = CutStrs(e.params[i])
    BY <2>1, <2>2, <2>3, PackOfAnyBinding
  <2> QED
    BY <2>4, <2>5
<1> QED
  BY <1>1, WritingIsOK, PTL

\* Rows are added to the table of custom parameters only for a call that reports success, only
\* what this call was given and no more at once than the limit, and no row goes; all of it
\* unless its BeginTransaction failed, and unless that or QueryParamkeys did, no key that was
\* there already and no more different keys of the event than the limit.
THEOREM CustomStoredWhole == WSpec => CustomIsAllOrNothing
<1> DEFINE A ==
      custom' # custom =>
        \E c \in Calls :
            /\ IsCall(c, "param") /\ calls'[c].result = SUCCESSFUL
            /\ custom \subseteq custom' /\ Cardinality(custom' \ custom) <= Limit.customParams
            /\ \A r \in custom' \ custom :
                  r.call = c /\ r.place \in DOMAIN Given(c) /\ r.key = Given(c)[r.place].name
            /\ ~Unguarded(c)' => {p.name : p \in {q \in ToSet(Given(c)) : Counts(c, q)}} \subseteq Keys'
            /\ ~(Unguarded(c) \/ Misread(c))' =>
                  /\ Cardinality(Keys') <= Limit.customParams
                  /\ \A r \in custom' \ custom : r.key \notin Keys
<1>1. ASSUME WInv, [WNext]_writingVars PROVE A
  <2> SUFFICES ASSUME custom' # custom
               PROVE  \E c \in Calls : /\ IsCall(c, "param") /\ calls'[c].result = SUCCESSFUL
                                       /\ StoredBy(c)
    <3>1. \A c \in Calls :
             CountedNames(calls[c]) = {p.name : p \in {q \in ToSet(Given(c)) : Counts(c, q)}}
      BY DEF CountedNames, Given, Counts
    <3> QED
      BY <3>1 DEF StoredBy
  <2>1. PICK c \in Calls : RunParam(c) \/ StoreUnguarded(c)
    <3>1. ASSUME NEW c \in Calls, NEW b, NEW e, CallC(c, b, e) PROVE custom' = custom
      BY <3>1 DEF CallC, customVars
    <3>2. ASSUME NEW c \in Calls, NEW e, CallJs7(c, e) \/ CallJs9(c, e) \/ CallEts(c, e) \/ CallCj(c, e)
          PROVE  custom' = custom
      BY <3>2 DEF CallJs7, CallJs9, CallEts, CallCj, customVars
    <3>3. ASSUME NEW c \in Calls, Write(c) PROVE custom' = custom
      <4>1. ASSUME NEW o \in Calls, Rewrite(c, o) PROVE custom' = custom
        BY <4>1 DEF Rewrite, customVars
      <4> QED
        BY <3>1, <3>2, <3>3, <4>1 DEF Write
    <3>4. ASSUME NEW c \in Calls, NEW p, AddParam(c, p) PROVE custom' = custom
      BY <3>4 DEF AddParam, customVars
    <3>5. ASSUME NEW c \in Calls, NEW b, NEW e, CallParam(c, b, e) PROVE custom' = custom
      BY <3>5 DEF CallParam, customVars
    <3>6. ASSUME NEW c \in Calls, RunSync(c) \/ RunAsync(c) \/ AsyncFails(c) \/ Complete(c) \/ BeginFails(c)
          PROVE  custom' = custom
      BY <3>6 DEF RunSync, RunAsync, AsyncFails, Complete, BeginFails, AfterWrite, customVars
    <3>7. RunQueue => custom' = custom
      BY DEF RunQueue, AfterWrite, customVars
    <3>8. (\E value \in BOOLEAN : SetDisable(value)) \/ DeviceChanges \/ RefreshFreeSize => custom' = custom
      BY DEF SetDisable, DeviceChanges, RefreshFreeSize, customVars
    <3>9. WNext
      BY <1>1 DEF writingVars, customVars
    <3> QED
      BY <3>3, <3>4, <3>5, <3>6, <3>7, <3>8, <3>9 DEF WNext
  <2>2. /\ calls[c].op = "param" /\ StoredBy(c)
        /\ \E r : calls' = [calls EXCEPT ![c] = r] /\ r.result = SUCCESSFUL
    BY <1>1, <2>1, RunParamIs, StoreUnguardedIs
  <2>3. calls'[c].result = SUCCESSFUL
    BY <1>1, <2>2 DEF WInv, CallsOK
  <2> QED
    BY <2>2, <2>3 DEF IsCall
<1>2. WInv /\ [WNext]_writingVars => [A]_writingVars
  BY <1>1
<1> QED
  BY <1>2, WritingIsOK, PTL DEF WSpec, CustomIsAllOrNothing
==============================================================================
