----------------------- MODULE OsEventListener_proofs -----------------------
(* Machine-checked proofs about OsEventListener, for any events, watchers, masks   *)
(* and bounds.                                                                     *)
EXTENDS OsEventListener, TLAPS

\* Watchers in memory are in the database, and nothing goes on before InitWatchers ran.
MemoryOK ==
    /\ Present \subseteq rows
    /\ ~inited => /\ Present = {}
                  /\ adder.pc = "idle"
                  /\ listener = "none"
                  /\ thread.pc = "read" /\ notices = {}

\* The running AddWatcher: a watcher it found is there, one it did not find gets its row.
CallOK ==
    /\ \A w \in adder.watcher : adder.watcher = {w}
    /\ adder.pc = "insert" /\ adder.exist => adder.watcher \subseteq Present
    /\ adder.pc \notin {"idle", "insert"} => adder.watcher \subseteq rows

\* What is owed was written, is well formed, and is wanted by a watcher that is known.
OwedOK ==
    /\ files \cup notices \cup thread.event \subseteq written
    /\ \A p \in owed :
        /\ p[1] \in written \ Malformed
        /\ p[2] \in rows
        /\ p[1] \in Wants(p[2])
        /\ inited => p[2] \in Present

\* Where an event can be that is owed to p[2].
Kept(p) == p[1] \in history \/ p \in mapping \cup delivered \cup lost

\* The file of an event goes only when the event is kept elsewhere: it is in the history the
\* listener has read, or its thread has handled it.
KeptOK ==
    /\ \A p \in owed : p[1] \in files \/ Kept(p)
    /\ thread.pc = "remove" => \A p \in owed : p[1] \in thread.event => Kept(p)
    /\ adder.pc = "remove" => files \ Malformed \subseteq history \cup late

\* How far the listener is, and which files wait for whom.
ListenerOK ==
    /\ listener = "none" => history = {}
    /\ adder.pc \in {"remove", "start"} => listener = "half"
    /\ adder.pc = "listen" => listener # "none"
    /\ adder.pc = "start" => files \subseteq late
    /\ thread.pc = "read" => thread.event = {}
    /\ FilesAreNoticed

\* A half started listener is a fault's work, and its directory may be missing.
ServeOK ==
    /\ \A w \in Live : Mask[w] \subseteq listened /\ (Mask[w] # {} => listener # "none")
    /\ adder.pc = "publish" =>
        \A w \in adder.watcher : Mask[w] \subseteq listened /\ (Mask[w] # {} => listener # "none")
    /\ listener = "started" => dir
    /\ listener = "half" => faults > 0 \/ adder.pc \in {"remove", "start"}
    /\ \/ listener = "none" \/ faults > 0
       \/ \E w \in Present : Mask[w] # {}
       \/ Locked /\ \E w \in adder.watcher : Mask[w] # {}

\* TypeOK, one variable at a time.
Pcs == {"idle", "insert", "lock", "remove", "start", "listen", "publish"}
Calls == [pc : Pcs, watcher : SUBSET Watchers, exist : BOOLEAN]
Handlings == [pc : {"read", "store", "remove"}, event : SUBSET Events]

Typed ==
    /\ rows \subseteq Watchers
    /\ mapping \subseteq Pairs /\ owed \subseteq Pairs
    /\ delivered \subseteq Pairs /\ lost \subseteq Pairs
    /\ files \subseteq Events /\ history \subseteq Events /\ notices \subseteq Events
    /\ written \subseteq Events /\ late \subseteq Events
    /\ mask \subseteq Kinds /\ listened \subseteq Kinds
    /\ dir \in BOOLEAN /\ inited \in BOOLEAN
    /\ watchers \in [Watchers -> {"absent", "restored", "live"}]
    /\ listener \in {"none", "half", "started"}
    /\ adder \in Calls
    /\ thread \in Handlings
    /\ adds \in 0..MaxAdds /\ faults \in 0..MaxFaults /\ crashes \in 0..MaxCrashes

IInv == Typed /\ MemoryOK /\ CallOK /\ OwedOK /\ KeptOK /\ ListenerOK /\ ServeOK

--------------------------------------------------------------------------------
LEMMA TypedIsTypeOK == Typed <=> TypeOK
BY DEF Typed, TypeOK, Calls, Pcs, Handlings

LEMMA BoundsAreNat == MaxAdds \in Nat /\ MaxFaults \in Nat /\ MaxCrashes \in Nat
BY ListenerAssumption

LEMMA KindsOfMasks == \A w \in Watchers : Mask[w] \subseteq Kinds
BY DEF Kinds

\* The records of an AddWatcher and of the thread.
LEMMA NoCallIs ==
    NoCall \in Calls /\ NoCall.pc = "idle" /\ NoCall.watcher = {} /\ ~NoCall.exist
BY DEF NoCall, Calls, Pcs

LEMMA NoFileIs == NoFile \in Handlings /\ NoFile.pc = "read" /\ NoFile.event = {}
BY DEF NoFile, Handlings

LEMMA WantsMask == \A w \in Watchers : Wants(w) # {} => Mask[w] # {}
BY DEF Wants

LEMMA GotoStep ==
    ASSUME adder \in Calls, NEW pc \in Pcs, Goto(pc)
    PROVE  /\ adder' \in Calls /\ adder'.pc = pc
           /\ adder'.watcher = adder.watcher /\ adder'.exist = adder.exist
BY DEF Goto, Calls

LEMMA InitIInv == Init => IInv
<1> SUFFICES ASSUME Init PROVE IInv
  OBVIOUS
<1> USE NoCallIs, NoFileIs DEF Init
<1>1. Typed
  <2>1. watchers \in [Watchers -> {"absent", "restored", "live"}]
    OBVIOUS
  <2>2. adds \in 0..MaxAdds /\ faults \in 0..MaxFaults /\ crashes \in 0..MaxCrashes
    BY BoundsAreNat
  <2> QED
    BY <2>1, <2>2 DEF Typed
<1>2. MemoryOK /\ CallOK
  BY DEF MemoryOK, CallOK, Present
<1>3. OwedOK /\ KeptOK
  BY DEF OwedOK, KeptOK
<1>4. ListenerOK
  BY DEF ListenerOK, FilesAreNoticed
<1>5. ServeOK
  BY DEF ServeOK, Live
<1> QED
  BY <1>1, <1>2, <1>3, <1>4, <1>5 DEF IInv

LEMMA NextIInv == IInv /\ [Next]_vars => IInv'
<1> SUFFICES ASSUME IInv, [Next]_vars PROVE IInv'
  OBVIOUS
<1>0. Typed /\ MemoryOK /\ CallOK /\ OwedOK /\ KeptOK /\ ListenerOK /\ ServeOK
  BY DEF IInv
<1>t. /\ adder \in Calls /\ thread \in Handlings
      /\ watchers \in [Watchers -> {"absent", "restored", "live"}]
  BY <1>0 DEF Typed
<1> USE BoundsAreNat, NoCallIs, NoFileIs
<1> USE DEF fileVars, memoryVars, listenerVars, threadVars, boundVars, bookVars
<1>1. ASSUME NEW e \in Events, WriteFile(e) PROVE IInv'
  <2>0. /\ e \notin written /\ files' = files \cup {e} /\ written' = written \cup {e}
        /\ notices' = (IF listener = "started" THEN notices \cup {e} ELSE notices)
        /\ late' = (IF listener = "half" THEN late \cup {e} ELSE late)
        /\ owed' = owed \cup {<<e, w>> : w \in {v \in Known : e \in Wants(v) \ Malformed}}
        /\ listener = "none" => notices' = notices
        /\ inited' = inited /\ Known \subseteq rows /\ (inited => Known = Present)
        /\ UNCHANGED <<rows, mapping, dir, mask, memoryVars, listenerVars, adder, thread, boundVars,
                   delivered, lost>>
    BY <1>0, <1>t, <1>1 DEF WriteFile, Known, Present, MemoryOK, Typed
  <2>1. Typed'
    BY <1>0, <1>t, <2>0 DEF Typed, Pairs
  <2>2. MemoryOK'
    BY <1>0, <1>t, <2>0 DEF MemoryOK, Present
  <2>3. CallOK'
    BY <1>0, <1>t, <2>0 DEF CallOK, Present
  <2>4. OwedOK'
    <3>1. ASSUME NEW p \in owed'
          PROVE  /\ p[1] \in written' \ Malformed /\ p[2] \in rows /\ p[1] \in Wants(p[2])
                 /\ inited => p[2] \in Present
      <4>1. CASE p \in owed
        BY <4>1, <1>0, <2>0 DEF OwedOK
      <4>2. CASE p \notin owed
        BY <4>2, <3>1, <2>0
      <4> QED
        BY <4>1, <4>2
    <3>2. UNCHANGED Present
      BY <2>0 DEF Present
    <3> QED
      BY <1>0, <2>0, <3>1, <3>2 DEF OwedOK
  <2>5. KeptOK'
    <3>1. UNCHANGED <<history, mapping, delivered, lost>>
      BY <2>0
    <3>2. \A p \in owed' : p \in owed \/ p[1] = e
      BY <2>0
    <3> QED
      BY <1>0, <2>0, <3>1, <3>2 DEF KeptOK, Kept, OwedOK, ListenerOK
  <2>6. ListenerOK'
    BY <1>0, <1>t, <2>0 DEF ListenerOK, FilesAreNoticed
  <2>7. ServeOK'
    BY <1>0, <1>t, <2>0 DEF ServeOK, Present, Live, Locked
  <2> QED
    BY <2>1, <2>2, <2>3, <2>4, <2>5, <2>6, <2>7 DEF IInv
<1>2. ASSUME NEW e \in Events, HandleDirEvent(e) PROVE IInv'
  <2>1. Typed'
    BY <1>0, <1>t, <1>2 DEF HandleDirEvent, Handlings, Typed, Pairs
  <2>2. MemoryOK'
    BY <1>0, <1>t, <1>2 DEF HandleDirEvent, Handlings, MemoryOK, Present
  <2>3. CallOK'
    BY <1>0, <1>t, <1>2 DEF HandleDirEvent, Handlings, CallOK, Present
  <2>4. OwedOK'
    BY <1>0, <1>t, <1>2 DEF HandleDirEvent, Handlings, OwedOK, Present, Wants
  <2>5. KeptOK'
    BY <1>0, <1>t, <1>2 DEF HandleDirEvent, Handlings, KeptOK, Kept
  <2>6. ListenerOK'
    BY <1>0, <1>t, <1>2 DEF HandleDirEvent, Handlings, ListenerOK, FilesAreNoticed
  <2>7. ServeOK'
    BY <1>0, <1>t, <1>2 DEF HandleDirEvent, Handlings, ServeOK, Present, Live, Locked
  <2> QED
    BY <2>1, <2>2, <2>3, <2>4, <2>5, <2>6, <2>7 DEF IInv
<1>3. ASSUME NEW w \in Watchers, AddWatcher(w) PROVE IInv'
  <2>0. /\ adder.pc = "idle" /\ adds' \in 0..MaxAdds /\ inited' = TRUE
        /\ \/ inited /\ watchers' = watchers
           \/ ~inited /\ watchers' = [v \in Watchers |-> IF v \in rows THEN "restored" ELSE "absent"]
        /\ adder' \in Calls /\ adder'.pc = "insert"
        /\ adder'.exist => watchers'[w] # "absent"
        /\ adder'.watcher = {w}
        /\ UNCHANGED <<rows, mapping, fileVars, listenerVars, threadVars, faults, crashes, bookVars>>
    BY <1>0, <1>t, <1>3 DEF AddWatcher, Typed, Calls, Pcs
  <2>00. /\ Present' = (IF inited THEN Present ELSE rows)
         /\ Live' = (IF inited THEN Live ELSE {})
    BY <1>0, <2>0 DEF Present, Live, Typed
  <2>1. Typed'
    BY <1>0, <1>t, <2>0 DEF Typed, Pairs
  <2>2. MemoryOK'
    BY <1>0, <1>t, <2>0 DEF MemoryOK, Present
  <2>3. CallOK'
    BY <1>0, <1>t, <2>0 DEF CallOK, Present
  <2>4. OwedOK'
    BY <1>0, <2>0, <2>00 DEF OwedOK, MemoryOK
  <2>5. KeptOK'
    BY <1>0, <1>t, <2>0 DEF KeptOK, Kept
  <2>6. ListenerOK'
    BY <1>0, <1>t, <2>0 DEF ListenerOK, FilesAreNoticed
  <2>7. ServeOK'
    BY <1>0, <2>0, <2>00 DEF ServeOK, MemoryOK, Locked
  <2> QED
    BY <2>1, <2>2, <2>3, <2>4, <2>5, <2>6, <2>7 DEF IInv
<1>4. ASSUME NEW w \in Watchers, RemoveObserver(w) PROVE IInv'
  <2>0. /\ w \in Present /\ ~Locked /\ w \notin adder.watcher /\ inited
        /\ rows' = rows \ {w} /\ mapping' = mapping \ (Events \X {w})
        /\ watchers' = [watchers EXCEPT ![w] = "absent"]
        /\ Present' = Present \ {w} /\ Live' = Live \ {w}
        /\ owed' = {p \in owed : p[2] # w}
        /\ UNCHANGED <<inited, adder, thread, boundVars, written, delivered, lost, late>>
    BY <1>0, <1>t, <1>4 DEF RemoveObserver, Present, Live, Typed, Pairs, MemoryOK, CallOK
  <2>00. \/ listener = "none" /\ UNCHANGED <<fileVars, listenerVars, notices>>
         \/ /\ \E v \in Present' : Mask[v] # {}
            /\ \A v \in Present' : Mask[v] \subseteq listened'
            /\ listened' \subseteq Kinds
            /\ mask' = IF dir THEN listened' ELSE mask
            /\ UNCHANGED <<dir, files, listener, history, notices>>
         \/ /\ \A v \in Present' : Mask[v] = {}
            /\ dir' = FALSE /\ files' = {} /\ mask' = {} /\ notices' = {}
            /\ listener' = "none" /\ listened' = {} /\ history' = {}
    <3>1. StillWanted(w) \subseteq Kinds
      BY KindsOfMasks DEF StillWanted, Present
    <3>2. /\ StillWanted(w) # {} => \E v \in Present' : Mask[v] # {}
          /\ StillWanted(w) = {} => \A v \in Present' : Mask[v] = {}
          /\ \A v \in Present' : Mask[v] \subseteq StillWanted(w)
      BY <2>0 DEF StillWanted
    <3>3. Unregister(w)
      BY <1>4 DEF RemoveObserver
    <3> QED
      BY <2>0, <3>1, <3>2, <3>3 DEF Unregister, RemoveOsEventDir
  <2>1. Typed'
    BY <1>0, <1>t, <2>0, <2>00 DEF Typed
  <2>2. MemoryOK'
    BY <1>0, <1>t, <2>0, <2>00 DEF MemoryOK, Present
  <2>3. CallOK'
    BY <1>0, <1>t, <2>0, <2>00 DEF CallOK, Present
  <2>4. OwedOK'
    BY <1>0, <1>t, <2>0, <2>00 DEF OwedOK, Present, Wants
  <2>5. KeptOK'
    <3>1. CASE UNCHANGED <<files, history>>
      BY <1>0, <2>0, <3>1 DEF KeptOK, Kept, Locked
    <3>2. CASE \A v \in Present' : Mask[v] = {}
      <4>1. owed' = {}
        BY <1>0, <2>0, <3>2, WantsMask DEF OwedOK, Present
      <4> QED
        BY <2>0, <4>1 DEF KeptOK, Locked
    <3> QED
      BY <2>00, <3>1, <3>2
  <2>6. ListenerOK'
    BY <1>0, <1>t, <2>0, <2>00 DEF ListenerOK, FilesAreNoticed, Locked
  <2>7. ServeOK'
    <3>1. Live \subseteq Present
      BY DEF Live, Present
    <3> QED
      BY <1>0, <1>t, <2>0, <2>00, <3>1 DEF ServeOK, Locked
  <2> QED
    BY <2>1, <2>2, <2>3, <2>4, <2>5, <2>6, <2>7 DEF IInv
<1>5. ASSUME InitObserverFromDb PROVE IInv'
  <2>0. /\ adder.pc = "insert"
        /\ IF adder.exist
           THEN delivered' = delivered \cup (mapping \cap (Events \X adder.watcher)) /\ UNCHANGED rows
           ELSE rows' = rows \cup adder.watcher /\ UNCHANGED delivered
        /\ adder' \in Calls /\ adder'.pc = "lock"
        /\ adder'.watcher = adder.watcher /\ adder'.exist = adder.exist
        /\ UNCHANGED <<mapping, fileVars, memoryVars, listenerVars, threadVars, boundVars,
                       written, owed, lost, late>>
    BY <1>0, <1>t, <1>5, GotoStep DEF InitObserverFromDb, Pcs
  <2>1. Typed'
    BY <1>0, <1>t, <2>0 DEF Typed, Calls
  <2>2. MemoryOK'
    BY <1>0, <1>t, <2>0 DEF MemoryOK, Present
  <2>3. CallOK'
    BY <1>0, <1>t, <2>0 DEF CallOK, Present, MemoryOK
  <2>4. OwedOK'
    BY <1>0, <1>t, <2>0 DEF OwedOK, Present, Wants
  <2>5. KeptOK'
    BY <1>0, <1>t, <2>0 DEF KeptOK, Kept
  <2>6. ListenerOK'
    BY <1>0, <1>t, <2>0 DEF ListenerOK, FilesAreNoticed
  <2>7. ServeOK'
    BY <1>0, <1>t, <2>0 DEF ServeOK, Present, Live, Locked
  <2> QED
    BY <2>1, <2>2, <2>3, <2>4, <2>5, <2>6, <2>7 DEF IInv
<1>6. ASSUME InitWatcherFromListener PROVE IInv'
  <2>0. /\ adder.pc = "lock"
        /\ \/ /\ \A w \in adder.watcher : Mask[w] = {}
              /\ adder'.pc = "publish" /\ UNCHANGED <<listenerVars, lost, faults>>
           \/ listener # "none" /\ adder'.pc = "listen" /\ UNCHANGED <<listenerVars, lost, faults>>
           \/ /\ listener = "none" /\ \E w \in adder.watcher : Mask[w] # {}
              /\ listener' = "half" /\ listened' = (IF dir THEN mask ELSE {})
              /\ history' = files \ Malformed
              /\ lost \subseteq lost' /\ lost' \subseteq Pairs
              /\ faults' \in 0..MaxFaults /\ faults' >= faults
              /\ adder'.pc = "remove"
        /\ adder' \in Calls /\ adder'.watcher = adder.watcher /\ adder'.exist = adder.exist
        /\ UNCHANGED <<rows, mapping, fileVars, memoryVars, threadVars, adds, crashes,
                       written, owed, delivered, late>>
    <3> QED
      <4>1. /\ adder.pc = "lock" /\ \E pc \in Pcs : Goto(pc)
            /\ UNCHANGED <<rows, mapping, fileVars, memoryVars, threadVars, adds, crashes,
                           written, owed, delivered, late>>
        BY <1>6 DEF InitWatcherFromListener, Pcs
      <4>2. CASE \A w \in adder.watcher : Mask[w] = {}
        BY <1>0, <1>t, <1>6, <4>2, GotoStep DEF InitWatcherFromListener, Pcs
      <4>3. CASE (\E w \in adder.watcher : Mask[w] # {}) /\ listener # "none"
        BY <1>0, <1>t, <1>6, <4>3, GotoStep DEF InitWatcherFromListener, Pcs
      <4>4. CASE (\E w \in adder.watcher : Mask[w] # {}) /\ listener = "none"
        <5>1. history' = files \ Malformed /\ history' \subseteq files
          BY <1>6, <4>4 DEF InitWatcherFromListener, GetEventsFromFiles
        <5>2. Goto("remove")
          BY <1>6, <4>4 DEF InitWatcherFromListener
        <5>3. /\ listener' = "half" /\ listened' = IF dir THEN mask ELSE {}
              /\ \/ UNCHANGED <<lost, faults>>
                 \/ Fault /\ \E e \in history' : lost' = lost \cup ({e} \X Watchers)
          BY <1>6, <4>4 DEF InitWatcherFromListener
        <5>4. adder' \in Calls /\ adder'.pc = "remove" /\ adder'.watcher = adder.watcher
              /\ adder'.exist = adder.exist
          BY <1>t, <5>2, GotoStep DEF Pcs
        <5>5. /\ lost \subseteq lost' /\ (lost' \subseteq Pairs)
              /\ faults' \in 0..MaxFaults /\ faults' >= faults
          <6>1. CASE UNCHANGED <<lost, faults>>
            BY <1>0, <6>1 DEF Typed
          <6>2. ASSUME Fault, NEW e \in history', lost' = lost \cup ({e} \X Watchers)
                PROVE  lost \subseteq lost' /\ (lost' \subseteq Pairs) /\ faults' \in 0..MaxFaults /\ faults' >= faults
            <7>1. {e} \X Watchers \subseteq Pairs
              BY <1>0, <5>1, <6>2 DEF Typed, Pairs
            <7> QED
              BY <1>0, <6>2, <7>1 DEF Fault, Typed
          <6> QED
            BY <5>3, <6>1, <6>2
        <5> QED
          BY <4>1, <4>4, <5>1, <5>3, <5>4, <5>5
      <4> QED
        BY <4>2, <4>3, <4>4
  <2>1. Typed'
    BY <1>0, <1>t, <2>0 DEF Typed, Pairs
  <2>2. MemoryOK'
    BY <1>0, <1>t, <2>0 DEF MemoryOK, Present
  <2>3. CallOK'
    BY <1>0, <1>t, <2>0 DEF CallOK, Present
  <2>4. OwedOK'
    BY <1>0, <1>t, <2>0 DEF OwedOK, Present, Wants
  <2>5. KeptOK'
    BY <1>0, <1>t, <2>0 DEF KeptOK, Kept, ListenerOK
  <2>6. ListenerOK'
    BY <1>0, <1>t, <2>0 DEF ListenerOK, FilesAreNoticed
  <2>7. ServeOK'
    BY <1>0, <1>t, <2>0 DEF ServeOK, Present, Live, Locked
  <2> QED
    BY <2>1, <2>2, <2>3, <2>4, <2>5, <2>6, <2>7 DEF IInv
<1>7. ASSUME RemoveScannedFiles PROVE IInv'
  <2>0. /\ adder.pc = "remove" /\ files' = files \cap late
        /\ adder' \in Calls /\ adder'.pc = "start"
        /\ adder'.watcher = adder.watcher /\ adder'.exist = adder.exist
        /\ UNCHANGED <<rows, mapping, dir, mask, memoryVars, listenerVars, threadVars, boundVars,
                       bookVars>>
    BY <1>0, <1>t, <1>7, GotoStep DEF RemoveScannedFiles, Pcs
  <2>1. Typed'
    BY <1>0, <1>t, <2>0 DEF Typed, Pairs
  <2>2. MemoryOK'
    BY <1>0, <1>t, <2>0 DEF MemoryOK, Present
  <2>3. CallOK'
    BY <1>0, <1>t, <2>0 DEF CallOK, Present
  <2>4. OwedOK'
    BY <1>0, <1>t, <2>0 DEF OwedOK, Present, Wants
  <2>5. KeptOK'
    BY <1>0, <1>t, <2>0 DEF KeptOK, Kept, OwedOK
  <2>6. ListenerOK'
    BY <1>0, <1>t, <2>0 DEF ListenerOK, FilesAreNoticed
  <2>7. ServeOK'
    BY <1>0, <1>t, <2>0 DEF ServeOK, Present, Live, Locked
  <2> QED
    BY <2>1, <2>2, <2>3, <2>4, <2>5, <2>6, <2>7 DEF IInv
<1>8. ASSUME StartListening PROVE IInv'
  <2>0. /\ adder.pc = "start"
        /\ \/ /\ dir' = TRUE /\ listener' = "started"
              /\ adder'.pc = "listen" /\ adder'.watcher = adder.watcher
              /\ UNCHANGED <<files, mask, lost, faults>>
           \/ /\ faults' \in 0..MaxFaults /\ faults' > 0 /\ adder' = NoCall
              /\ UNCHANGED <<fileVars, listener, lost>>
           \/ /\ faults' \in 0..MaxFaults /\ faults' > 0 /\ adder' = NoCall
              /\ dir' = FALSE /\ files' = {} /\ mask' = {}
              /\ lost' = lost \cup (files \X Watchers)
              /\ UNCHANGED listener
        /\ adder' \in Calls
        /\ UNCHANGED <<rows, mapping, memoryVars, listened, history, threadVars, adds, crashes,
                       written, owed, delivered, late>>
    BY <1>0, <1>t, <1>8, GotoStep DEF StartListening, Fault, RemoveOsEventDir, Typed, Pcs
  <2>1. Typed'
    <3>1. files \X Watchers \subseteq Pairs
      BY <1>0 DEF Typed, Pairs
    <3> QED
      BY <1>0, <1>t, <2>0, <3>1 DEF Typed
  <2>2. MemoryOK'
    BY <1>0, <1>t, <2>0 DEF MemoryOK, Present
  <2>3. CallOK'
    BY <1>0, <1>t, <2>0 DEF CallOK, Present
  <2>4. OwedOK'
    BY <1>0, <1>t, <2>0 DEF OwedOK, Present, Wants
  <2>5. KeptOK'
    <3>1. \A p \in owed : p[1] \in files => p \in files \X Watchers
      BY <1>0 DEF Typed, Pairs
    <3>2. \A p \in owed : Kept(p) => Kept(p)'
      BY <2>0 DEF Kept
    <3>3. \A p \in owed : p[1] \in files => p[1] \in files' \/ Kept(p)'
      BY <2>0, <3>1 DEF Kept
    <3> QED
      BY <1>0, <2>0, <3>2, <3>3 DEF KeptOK
  <2>6. ListenerOK'
    BY <1>0, <1>t, <2>0 DEF ListenerOK, FilesAreNoticed
  <2>7. ServeOK'
    <3>1. UNCHANGED <<Present, Live>>
      BY <2>0 DEF Present, Live
    <3> QED
      BY <1>0, <2>0, <3>1 DEF ServeOK, ListenerOK, Locked, Typed
  <2> QED
    BY <2>1, <2>2, <2>3, <2>4, <2>5, <2>6, <2>7 DEF IInv
<1>9. ASSUME AddListenedEvents PROVE IInv'
  <2>0. /\ adder.pc = "listen"
        /\ listened' = listened \cup UNION {Mask[w] : w \in adder.watcher}
        /\ \/ /\ dir /\ mask' = listened' /\ adder'.pc = "publish"
              /\ adder'.watcher = adder.watcher /\ faults' = faults
           \/ ~dir /\ adder' = NoCall /\ UNCHANGED <<mask, faults>>
           \/ faults' \in 0..MaxFaults /\ faults' > 0 /\ adder' = NoCall /\ mask' = mask
        /\ adder' \in Calls
        /\ UNCHANGED <<rows, mapping, dir, files, memoryVars, listener, history, threadVars,
                       adds, crashes, bookVars>>
    BY <1>0, <1>t, <1>9, GotoStep DEF AddListenedEvents, Fault, Widen, Typed, Pcs
  <2>1. Typed'
    <3>1. UNION {Mask[w] : w \in adder.watcher} \subseteq Kinds
      BY <1>t, KindsOfMasks DEF Calls
    <3> QED
      BY <1>0, <1>t, <2>0, <3>1 DEF Typed
  <2>2. MemoryOK'
    BY <1>0, <1>t, <2>0 DEF MemoryOK, Present
  <2>3. CallOK'
    BY <1>0, <1>t, <2>0 DEF CallOK, Present
  <2>4. OwedOK'
    BY <1>0, <1>t, <2>0 DEF OwedOK, Present, Wants
  <2>5. KeptOK'
    BY <1>0, <1>t, <2>0 DEF KeptOK, Kept
  <2>6. ListenerOK'
    BY <1>0, <1>t, <2>0 DEF ListenerOK, FilesAreNoticed
  <2>7. ServeOK'
    <3>1. UNCHANGED <<Present, Live>>
      BY <2>0 DEF Present, Live
    <3> QED
      BY <1>0, <2>0, <3>1 DEF ServeOK, ListenerOK, Locked, Typed
  <2> QED
    BY <2>1, <2>2, <2>3, <2>4, <2>5, <2>6, <2>7 DEF IInv
<1>10. ASSUME PublishWatcher PROVE IInv'
  <2>0. /\ adder.pc = "publish" /\ adder' = NoCall
        /\ watchers' \in [Watchers -> {"absent", "restored", "live"}]
        /\ Present' = Present \cup adder.watcher /\ Live' = Live \cup adder.watcher
        /\ UNCHANGED <<rows, fileVars, inited, listener, listened, threadVars, boundVars,
                       written, owed, lost, late>>
    BY <1>0, <1>t, <1>10 DEF PublishWatcher, Present, Live, Calls
  <2>00. \/ UNCHANGED <<mapping, delivered, history>>
         \/ /\ history' = {}
            /\ mapping \subseteq mapping' /\ mapping' \subseteq Pairs
            /\ delivered \subseteq delivered' /\ delivered' \subseteq Pairs
            /\ \A p \in history \X Present :
                p[1] \in Wants(p[2]) => p \in mapping' \cup lost
    <3>1. history \X Present \subseteq Pairs /\ history \X adder.watcher \subseteq Pairs
      BY <1>0 DEF Typed, Pairs, Present, Calls
    <3> QED
      BY <1>0, <1>10, <3>1 DEF PublishWatcher, HistoryFor, Typed
  <2>1. Typed'
    BY <1>0, <1>t, <2>0, <2>00 DEF Typed
  <2>2. MemoryOK'
    BY <1>0, <2>0 DEF MemoryOK, CallOK
  <2>3. CallOK'
    BY <1>0, <1>t, <2>0 DEF CallOK, Present
  <2>4. OwedOK'
    BY <1>0, <2>0 DEF OwedOK
  <2>5. KeptOK'
    <3>1. inited
      BY <1>0, <2>0 DEF MemoryOK
    <3>2. ASSUME NEW p \in owed, Kept(p) PROVE Kept(p)'
      <4>1. p \in history \X Present \/ p[1] \notin history
        BY <1>0, <3>1 DEF Typed, Pairs, OwedOK
      <4> QED
        BY <1>0, <2>0, <2>00, <3>2, <4>1 DEF Kept, OwedOK
    <3> QED
      BY <1>0, <2>0, <3>2 DEF KeptOK
  <2>6. ListenerOK'
    BY <1>0, <1>t, <2>0, <2>00 DEF ListenerOK, FilesAreNoticed
  <2>7. ServeOK'
    BY <1>0, <2>0 DEF ServeOK, Locked
  <2> QED
    BY <2>1, <2>2, <2>3, <2>4, <2>5, <2>6, <2>7 DEF IInv
<1>11. ASSUME HandleEvents PROVE IInv'
  <2>0. /\ thread.pc = "store" /\ ~Locked
        /\ mapping \subseteq mapping' /\ mapping' \subseteq Pairs
        /\ lost \subseteq lost' /\ lost' \subseteq Pairs
        /\ delivered \subseteq delivered' /\ delivered' \subseteq Pairs
        /\ \A e \in (thread.event \cap files) \ Malformed, w \in Present :
            e \in Wants(w) => <<e, w>> \in mapping' \cup lost'
        /\ faults' \in 0..MaxFaults /\ faults' >= faults
        /\ thread' \in Handlings /\ thread'.pc = "remove" /\ thread'.event = thread.event
        /\ UNCHANGED <<rows, fileVars, memoryVars, listenerVars, adder, notices, adds, crashes,
                       written, owed, late>>
    <3> DEFINE pairs == {p \in GetEventsFromFiles(thread.event \cap files) \X Present :
                            p[1] \in Wants(p[2])}
    <3>1. pairs \subseteq Pairs
      BY <1>0, <1>t DEF Pairs, GetEventsFromFiles, Present, Typed, Handlings
    <3>2. \A e \in (thread.event \cap files) \ Malformed, w \in Present :
            e \in Wants(w) => <<e, w>> \in pairs
      BY DEF GetEventsFromFiles
    <3>3. /\ thread.pc = "store" /\ ~Locked
          /\ \/ mapping' = mapping \cup pairs /\ UNCHANGED <<lost, faults>>
             \/ Fault /\ lost' = lost \cup pairs /\ UNCHANGED mapping
          /\ delivered' = delivered \cup (pairs \cap (Events \X Live))
          /\ thread' = [thread EXCEPT !.pc = "remove"]
          /\ UNCHANGED <<rows, fileVars, memoryVars, listenerVars, adder, notices, adds, crashes,
                         written, owed, late>>
      BY <1>11 DEF HandleEvents
    <3>4. faults' \in 0..MaxFaults /\ faults' >= faults
      BY <1>0, <3>3 DEF Fault, Typed
    <3>5. thread' \in Handlings /\ thread'.pc = "remove" /\ thread'.event = thread.event
      BY <1>t, <3>3 DEF Handlings
    <3> HIDE DEF pairs
    <3> QED
      BY <1>0, <3>1, <3>2, <3>3, <3>4, <3>5 DEF Typed
  <2>1. Typed'
    BY <1>0, <1>t, <2>0 DEF Typed
  <2>2. MemoryOK'
    BY <1>0, <1>t, <2>0 DEF MemoryOK, Present
  <2>3. CallOK'
    BY <1>0, <1>t, <2>0 DEF CallOK, Present
  <2>4. OwedOK'
    BY <1>0, <1>t, <2>0 DEF OwedOK, Present, Wants
  <2>5. KeptOK'
    <3>1. inited
      BY <1>0, <2>0 DEF MemoryOK
    <3>2. ASSUME NEW p \in owed, Kept(p) PROVE Kept(p)'
      BY <2>0, <3>2 DEF Kept
    <3>3. ASSUME NEW p \in owed, p[1] \in thread.event PROVE Kept(p)'
      <4>1. CASE p[1] \in files
        <5>1. /\ p = <<p[1], p[2]>> /\ p[1] \in (thread.event \cap files) \ Malformed
              /\ p[2] \in Present /\ p[1] \in Wants(p[2])
          BY <1>0, <3>1, <3>3, <4>1 DEF Typed, Pairs, OwedOK
        <5>2. p \in mapping' \cup lost'
          BY <2>0, <5>1
        <5> QED
          BY <5>2 DEF Kept
      <4>2. CASE p[1] \notin files
        BY <1>0, <3>2, <4>2 DEF KeptOK
      <4> QED
        BY <4>1, <4>2
    <3> QED
      BY <1>0, <2>0, <3>2, <3>3 DEF KeptOK
  <2>6. ListenerOK'
    BY <1>0, <1>t, <2>0 DEF ListenerOK, FilesAreNoticed
  <2>7. ServeOK'
    BY <1>0, <1>t, <2>0 DEF ServeOK, Present, Live, Locked, Typed
  <2> QED
    BY <2>1, <2>2, <2>3, <2>4, <2>5, <2>6, <2>7 DEF IInv
<1>12. ASSUME RemoveFile PROVE IInv'
  <2>1. Typed'
    BY <1>0, <1>t, <1>12 DEF RemoveFile, Typed, Pairs
  <2>2. MemoryOK'
    BY <1>0, <1>t, <1>12 DEF RemoveFile, MemoryOK, Present
  <2>3. CallOK'
    BY <1>0, <1>t, <1>12 DEF RemoveFile, CallOK, Present
  <2>4. OwedOK'
    BY <1>0, <1>t, <1>12 DEF RemoveFile, OwedOK, Present, Wants
  <2>5. KeptOK'
    BY <1>0, <1>t, <1>12 DEF RemoveFile, KeptOK, Kept
  <2>6. ListenerOK'
    BY <1>0, <1>t, <1>12 DEF RemoveFile, ListenerOK, FilesAreNoticed
  <2>7. ServeOK'
    BY <1>0, <1>t, <1>12 DEF RemoveFile, ServeOK, Present, Live, Locked
  <2> QED
    BY <2>1, <2>2, <2>3, <2>4, <2>5, <2>6, <2>7 DEF IInv
<1>13. ASSUME Crash PROVE IInv'
  <2>0. /\ crashes' \in 0..MaxCrashes
        /\ lost' = lost \cup ((history \ files) \X Watchers)
        /\ watchers' = [w \in Watchers |-> "absent"] /\ Present' = {} /\ Live' = {}
        /\ inited' = FALSE
        /\ listener' = "none" /\ listened' = {} /\ history' = {}
        /\ adder' = NoCall
        /\ notices' = {} /\ thread' = NoFile
        /\ late' = {}
        /\ UNCHANGED <<rows, mapping, fileVars, adds, faults, written, owed, delivered>>
    BY <1>0, <1>13 DEF Crash, Typed, Present, Live
  <2>1. Typed'
    BY <1>0, <1>t, <2>0 DEF Typed, Pairs
  <2>2. MemoryOK'
    BY <1>0, <1>t, <2>0 DEF MemoryOK, Present
  <2>3. CallOK'
    BY <1>0, <1>t, <2>0 DEF CallOK, Present
  <2>4. OwedOK'
    BY <1>0, <1>t, <2>0 DEF OwedOK, Present, Wants
  <2>5. KeptOK'
    <3>1. ASSUME NEW p \in owed, p[1] \notin files PROVE Kept(p)'
      <4>1. p[1] \in history \ files => p \in (history \ files) \X Watchers
        BY <1>0 DEF Typed, Pairs
      <4> QED
        BY <1>0, <2>0, <3>1, <4>1 DEF KeptOK, Kept
    <3> QED
      BY <2>0, <3>1 DEF KeptOK
  <2>6. ListenerOK'
    BY <1>0, <1>t, <2>0 DEF ListenerOK, FilesAreNoticed
  <2>7. ServeOK'
    BY <1>0, <1>t, <2>0 DEF ServeOK, Present, Live, Locked
  <2> QED
    BY <2>1, <2>2, <2>3, <2>4, <2>5, <2>6, <2>7 DEF IInv
<1>14. ASSUME UNCHANGED vars PROVE IInv'
  <2>1. Typed'
    BY <1>0, <1>t, <1>14 DEF vars, bookVars, Typed, Pairs
  <2>2. MemoryOK'
    BY <1>0, <1>t, <1>14 DEF vars, bookVars, MemoryOK, Present
  <2>3. CallOK'
    BY <1>0, <1>t, <1>14 DEF vars, bookVars, CallOK, Present
  <2>4. OwedOK'
    BY <1>0, <1>t, <1>14 DEF vars, bookVars, OwedOK, Present, Wants
  <2>5. KeptOK'
    BY <1>0, <1>t, <1>14 DEF vars, bookVars, KeptOK, Kept
  <2>6. ListenerOK'
    BY <1>0, <1>t, <1>14 DEF vars, bookVars, ListenerOK, FilesAreNoticed
  <2>7. ServeOK'
    BY <1>0, <1>t, <1>14 DEF vars, bookVars, ServeOK, Present, Live, Locked
  <2> QED
    BY <2>1, <2>2, <2>3, <2>4, <2>5, <2>6, <2>7 DEF IInv
<1> QED
  BY <1>1, <1>2, <1>3, <1>4, <1>5, <1>6, <1>7, <1>8, <1>9, <1>10, <1>11, <1>12, <1>13,
     <1>14 DEF Next

LEMMA Invariance == Spec => []IInv
BY InitIInv, NextIInv, PTL DEF Spec

--------------------------------------------------------------------------------
\* The types.
THEOREM TypeCorrect == Spec => []TypeOK
<1>1. IInv => TypeOK
  BY TypedIsTypeOK DEF IInv
<1> QED
  BY <1>1, Invariance, PTL

\* An event the system wrote for a watcher that is known is in its file, in the history, in
\* the mapping table or delivered, through restarts, removals and new watchers
\* (app_event_observer_mgr.cpp, os_event_listener.cpp); the exceptions are those of OwedIsKept.
THEOREM OwedEventsAreKept == Spec => []OwedIsKept
<1>1. IInv => OwedIsKept
  BY TypedIsTypeOK DEF IInv, KeptOK, Kept, OwedIsKept
<1> QED
  BY <1>1, Invariance, PTL

\* No file waits unnoticed for a listener that listens, except those written between the
\* scan of its constructor and the inotify watch (OsEventListener::StartListening).
THEOREM NoFileUnnoticed == Spec => []FilesAreNoticed
<1>1. IInv => FilesAreNoticed
  BY DEF IInv, ListenerOK
<1> QED
  BY <1>1, Invariance, PTL

\* What live watchers want is asked of the system, and a listener is kept only for a
\* watcher (AddListenedEvents, UnregisterOsEventListener).
THEOREM ListenerIsForWatchers == Spec => []ListenerServesWatchers
<1>1. IInv => ListenerServesWatchers
  BY DEF IInv, ServeOK, ListenerServesWatchers
<1> QED
  BY <1>1, Invariance, PTL

=============================================================================
