---------------------------- MODULE OsEventListener ----------------------------
(* How events of the system reach the watchers of an application.                  *)
(*                                                                                 *)
(* The system writes a file for each event that the xattr of the directory asks    *)
(* for.  Adding the first watcher of such events creates the listener: its         *)
(* constructor reads the files of earlier processes (the history), StartListening  *)
(* then registers with inotify, and a thread handles the files noticed from then   *)
(* on.  Watchers of earlier processes are restored from the database and keep      *)
(* their events until they are added again.  Removing the last watcher of system   *)
(* events removes the directory.                                                   *)
EXTENDS Naturals, FiniteSets

CONSTANTS
    Events,     \* events of the system, each in a file of its own
    Watchers,
    KindOf,     \* the name of an event
    Mask,       \* GetOsEventsMask of each watcher: the names its filters accept
    Malformed,  \* events whose file holds no JSON object
    MaxAdds,    \* bound: calls of AddWatcher
    MaxFaults,  \* bound: operations that fail
    MaxCrashes  \* bound: restarts of the process

ASSUME ListenerAssumption ==
    /\ Malformed \subseteq Events
    /\ {MaxAdds, MaxFaults, MaxCrashes} \subseteq Nat

\* The names there are events of or filters for.
Kinds == {KindOf[e] : e \in Events} \cup UNION {Mask[w] : w \in Watchers}
Wants(w) == {e \in Events : KindOf[e] \in Mask[w]}

VARIABLES
    rows,       \* watchers in table observers
    mapping,    \* table event_observer_mapping: pairs <<event, watcher>>
    dir,        \* whether osEventPath_ exists
    files,      \* its files
    mask,       \* its xattr
    watchers,   \* watchers_: absent, restored by InitWatchers, or live
    inited,     \* whether InitWatchers ran
    listener,   \* listener_: none, half (StartListening did not return true), started
    listened,   \* osEventsMask_
    history,    \* historyEvents_
    adder,      \* the running AddWatcher
    notices,    \* files inotify has noticed
    thread,     \* the thread OS_AppEvent_Ls
    adds, faults, crashes,
    written,    \* history: events the system has written
    owed,       \* history: pairs <<event, watcher>> written while the watcher was known
    delivered,  \* history: pairs handed to a live watcher
    lost,       \* history: pairs lost for a known reason
    late        \* history: files written between the scan and the inotify watch

fileVars == <<dir, files, mask>>
memoryVars == <<watchers, inited>>
listenerVars == <<listener, listened, history>>
threadVars == <<notices, thread>>
boundVars == <<adds, faults, crashes>>
bookVars == <<written, owed, delivered, lost, late>>
vars == <<rows, mapping, fileVars, memoryVars, listenerVars, adder, threadVars, boundVars, bookVars>>

Pairs == Events \X Watchers
NoCall == [pc |-> "idle", watcher |-> {}, exist |-> FALSE]
NoFile == [pc |-> "read", event |-> {}]

TypeOK ==
    /\ rows \subseteq Watchers
    /\ {mapping, owed, delivered, lost} \subseteq SUBSET Pairs
    /\ {files, history, notices, written, late} \subseteq SUBSET Events
    /\ mask \subseteq Kinds
    /\ listened \subseteq Kinds
    /\ {dir, inited} \subseteq BOOLEAN
    /\ watchers \in [Watchers -> {"absent", "restored", "live"}]
    /\ listener \in {"none", "half", "started"}
    /\ adder \in [pc : {"idle", "insert", "lock", "remove", "start", "listen", "publish"},
                  watcher : SUBSET Watchers, exist : BOOLEAN]
    /\ thread \in [pc : {"read", "store", "remove"}, event : SUBSET Events]
    /\ <<adds, faults, crashes>> \in (0..MaxAdds) \X (0..MaxFaults) \X (0..MaxCrashes)

Init ==
    /\ rows = {} /\ mapping = {}
    /\ dir = FALSE /\ files = {} /\ mask = {}
    /\ watchers = [w \in Watchers |-> "absent"]
    /\ inited = FALSE
    /\ listener = "none" /\ listened = {} /\ history = {}
    /\ adder = NoCall
    /\ notices = {} /\ thread = NoFile
    /\ adds = 0 /\ faults = 0 /\ crashes = 0
    /\ written = {} /\ owed = {} /\ delivered = {} /\ lost = {} /\ late = {}

Known == IF inited THEN {w \in Watchers : watchers[w] # "absent"} ELSE rows
Present == {w \in Watchers : watchers[w] # "absent"}
Live == {w \in Watchers : watchers[w] = "live"}

\* watcherMutex_ is held from the listener's creation to the watcher's publication.
Locked == adder.pc \in {"remove", "start", "listen", "publish"}
Goto(pc) == adder' = [adder EXCEPT !.pc = pc]
Fault == faults < MaxFaults /\ faults' = faults + 1

--------------------------------------------------------------------------------
(* The system (external): it writes what the xattr asks for.                       *)

WriteFile(e) ==
    /\ dir
    /\ e \notin written
    /\ KindOf[e] \in mask
    /\ files' = files \cup {e}
    /\ written' = written \cup {e}
    /\ notices' = IF listener = "started" THEN notices \cup {e} ELSE notices
    /\ late' = IF listener = "half" THEN late \cup {e} ELSE late
    /\ owed' = owed \cup {<<e, w>> : w \in {v \in Known : e \in Wants(v) \ Malformed}}
    /\ UNCHANGED <<rows, mapping, dir, mask, memoryVars, listenerVars, adder, thread, boundVars,
                   delivered, lost>>

--------------------------------------------------------------------------------
(* AddWatcher.                                                                     *)

\* InitWatchers, once in a process, then the look-up of the name in watchers_.
AddWatcher(w) ==
    /\ adder = NoCall
    /\ adds < MaxAdds
    /\ adds' = adds + 1
    /\ inited' = TRUE
    /\ watchers' = IF inited THEN watchers
                   ELSE [v \in Watchers |-> IF v \in rows THEN "restored" ELSE "absent"]
    /\ adder' = [pc |-> "insert", watcher |-> {w}, exist |-> watchers'[w] # "absent"]
    /\ UNCHANGED <<rows, mapping, fileVars, listenerVars, threadVars, faults, crashes, bookVars>>

\* InitObserverFromDb: a new row, or the events stored for the watcher are sent to it.
InitObserverFromDb ==
    /\ adder.pc = "insert"
    /\ IF adder.exist
       THEN delivered' = delivered \cup (mapping \cap (Events \X adder.watcher)) /\ UNCHANGED rows
       ELSE rows' = rows \cup adder.watcher /\ UNCHANGED delivered
    /\ Goto("lock")
    /\ UNCHANGED <<mapping, fileVars, memoryVars, listenerVars, threadVars, boundVars,
                   written, owed, lost, late>>

\* The constructor of the listener: it reads the xattr and the files and stores the events,
\* with no mapping.
GetEventsFromFiles(F) == F \ Malformed

InitWatcherFromListener ==
    /\ adder.pc = "lock"
    /\ IF \A w \in adder.watcher : Mask[w] = {} THEN
            Goto("publish") /\ UNCHANGED <<listenerVars, lost, faults>>
       ELSE IF listener # "none" THEN
            Goto("listen") /\ UNCHANGED <<listenerVars, lost, faults>>
       ELSE /\ listener' = "half"
            /\ listened' = IF dir THEN mask ELSE {}
            /\ history' = GetEventsFromFiles(files)
            /\ \/ UNCHANGED <<lost, faults>>
               \/ Fault /\ \E e \in history' : lost' = lost \cup ({e} \X Watchers)
            /\ Goto("remove")
    /\ UNCHANGED <<rows, mapping, fileVars, memoryVars, threadVars, adds, crashes,
                   written, owed, delivered, late>>

\* Mutant: every file there is by now is removed.
RemoveAllFiles ==
    /\ adder.pc = "remove"
    /\ files' = {}
    /\ Goto("start")
    /\ UNCHANGED <<rows, mapping, dir, mask, memoryVars, listenerVars, threadVars, boundVars, bookVars>>

\* ... and removes the files it has read.
RemoveScannedFiles ==
    /\ adder.pc = "remove"
    /\ files' = files \cap late
    /\ Goto("start")
    /\ UNCHANGED <<rows, mapping, dir, mask, memoryVars, listenerVars, threadVars, boundVars, bookVars>>

\* RemoveOsEventDir takes the directory away, with its xattr and its files.
RemoveOsEventDir == dir' = FALSE /\ files' = {} /\ mask' = {}

StartListening ==
    /\ adder.pc = "start"
    /\ \/ /\ dir' = TRUE
          /\ listener' = "started"
          /\ Goto("listen")
          /\ UNCHANGED <<files, mask, lost, faults>>
       \/ \* a directory cannot be created or watched
          Fault /\ adder' = NoCall /\ UNCHANGED <<fileVars, listener, lost>>
       \/ \* the system parameter disables events
          /\ Fault
          /\ RemoveOsEventDir
          /\ lost' = lost \cup (files \X Watchers)
          /\ adder' = NoCall
          /\ UNCHANGED listener
    /\ UNCHANGED <<rows, mapping, memoryVars, listened, history, threadVars, adds, crashes,
                   written, owed, delivered, late>>

\* Mutant: the mask is replaced, not widened.
Replace(kinds) == kinds

Widen(kinds) == listened \cup kinds

AddListenedEvents ==
    LET wanted == Widen(UNION {Mask[w] : w \in adder.watcher}) IN
    /\ adder.pc = "listen"
    /\ listened' = wanted
    /\ \/ dir /\ mask' = wanted /\ Goto("publish") /\ UNCHANGED faults
       \/ ~dir /\ adder' = NoCall /\ UNCHANGED <<mask, faults>>
       \/ Fault /\ adder' = NoCall /\ UNCHANGED mask
    /\ UNCHANGED <<rows, mapping, dir, files, memoryVars, listener, history, threadVars,
                   adds, crashes, bookVars>>

\* Whom the history is mapped to: all watchers, the restored ones included.
HistoryFor(W) == W

\* A watcher that existed gets the history; it is mapped to all watchers, then cleared.
PublishWatcher ==
    LET takes == adder.exist /\ \E w \in adder.watcher : Mask[w] # {} IN
    /\ adder.pc = "publish"
    /\ watchers' = [w \in Watchers |-> IF w \in adder.watcher THEN "live" ELSE watchers[w]]
    /\ IF takes
       THEN /\ mapping' = mapping \cup
                    {p \in history \X HistoryFor(Present) : p[1] \in Wants(p[2]) /\ p \notin lost}
            /\ delivered' = delivered \cup
                    {p \in history \X adder.watcher : p[1] \in Wants(p[2])}
            /\ history' = {}
       ELSE UNCHANGED <<mapping, delivered, history>>
    /\ adder' = NoCall
    /\ UNCHANGED <<rows, fileVars, inited, listener, listened, threadVars, boundVars,
                   written, owed, lost, late>>

--------------------------------------------------------------------------------
(* The thread that handles what inotify notices.                                   *)

\* Mutant: of the files one read of inotify reports, only the first is handled.
HandleFirstOnly(e) ==
    /\ thread = NoFile
    /\ e \in notices
    /\ notices' = {}
    /\ thread' = [pc |-> "store", event |-> {e}]
    /\ UNCHANGED <<rows, mapping, fileVars, memoryVars, listenerVars, adder, boundVars, bookVars>>

HandleDirEvent(e) ==
    /\ thread = NoFile
    /\ e \in notices
    /\ notices' = notices \ {e}
    /\ thread' = [pc |-> "store", event |-> {e}]
    /\ UNCHANGED <<rows, mapping, fileVars, memoryVars, listenerVars, adder, boundVars, bookVars>>

\* HandleEvents: the event is stored, mapped to the watchers that accept it and sent.
HandleEvents ==
    LET pairs == {p \in GetEventsFromFiles(thread.event \cap files) \X Present :
                        p[1] \in Wants(p[2])} IN
    /\ thread.pc = "store"
    /\ ~Locked
    /\ \/ mapping' = mapping \cup pairs /\ UNCHANGED <<lost, faults>>
       \/ Fault /\ lost' = lost \cup pairs /\ UNCHANGED mapping
    /\ delivered' = delivered \cup (pairs \cap (Events \X Live))
    /\ thread' = [thread EXCEPT !.pc = "remove"]
    /\ UNCHANGED <<rows, fileVars, memoryVars, listenerVars, adder, notices, adds, crashes,
                   written, owed, late>>

RemoveFile ==
    /\ thread.pc = "remove"
    /\ files' = files \ thread.event
    /\ thread' = NoFile
    /\ UNCHANGED <<rows, mapping, dir, mask, memoryVars, listenerVars, adder, notices,
                   boundVars, bookVars>>

--------------------------------------------------------------------------------
(* RemoveObserver and a crash.                                                     *)

StillWanted(w) == UNION {Mask[v] : v \in Present \ {w}}

\* UnregisterOsEventListener: the xattr is narrowed, or the listener and its directory go.
Unregister(w) ==
    IF listener = "none" THEN UNCHANGED <<fileVars, listenerVars, notices>>
    ELSE IF StillWanted(w) # {} THEN
        /\ listened' = StillWanted(w)
        /\ mask' = IF dir THEN StillWanted(w) ELSE mask
        /\ UNCHANGED <<dir, files, listener, history, notices>>
    ELSE
        /\ RemoveOsEventDir
        /\ listener' = "none" /\ listened' = {} /\ history' = {} /\ notices' = {}

RemoveObserver(w) ==
    /\ w \in Present
    /\ ~Locked
    /\ adder.watcher # {w}
    /\ rows' = rows \ {w}
    /\ mapping' = mapping \ (Events \X {w})
    /\ watchers' = [watchers EXCEPT ![w] = "absent"]
    /\ Unregister(w)
    /\ owed' = owed \ (Events \X {w})
    /\ UNCHANGED <<inited, adder, thread, boundVars, written, delivered, lost, late>>

Crash ==
    /\ crashes < MaxCrashes
    /\ crashes' = crashes + 1
    /\ lost' = lost \cup ((history \ files) \X Watchers)
    /\ watchers' = [w \in Watchers |-> "absent"]
    /\ inited' = FALSE
    /\ listener' = "none" /\ listened' = {} /\ history' = {}
    /\ adder' = NoCall
    /\ notices' = {} /\ thread' = NoFile
    /\ late' = {}
    /\ UNCHANGED <<rows, mapping, fileVars, adds, faults, written, owed, delivered>>

Next ==
    \/ \E e \in Events : WriteFile(e) \/ HandleDirEvent(e)
    \/ \E w \in Watchers : AddWatcher(w) \/ RemoveObserver(w)
    \/ InitObserverFromDb
    \/ InitWatcherFromListener
    \/ RemoveScannedFiles
    \/ StartListening
    \/ AddListenedEvents
    \/ PublishWatcher
    \/ HandleEvents
    \/ RemoveFile
    \/ Crash

Spec == Init /\ [][Next]_vars

--------------------------------------------------------------------------------
(* Properties.                                                                     *)

\* An event written for a known watcher is in its file, in the history or mapped to the
\* watcher until it is delivered, whatever process restarts and whichever watchers come and
\* go: it is lost only when a database operation fails, events are disabled, or the process
\* ends while the history is held in memory only, its files gone and not yet mapped.
OwedIsKept ==
    /\ TypeOK
    /\ \A p \in owed :
           \/ p[1] \in files \cup history
           \/ p \in mapping \cup delivered \cup lost
           \/ p[2] \notin rows

\* While the listener listens no file waits unnoticed, except one the system wrote after
\* the constructor had listed the files and before inotify watched the directory.
FilesAreNoticed ==
    listener = "started" => files \subseteq notices \cup thread.event \cup late

\* A live watcher of system events has a listener that asks the system for all of them; the
\* listener is there only while some watcher, live or restored, still needs it, unless an
\* AddWatcher failed half way.
ListenerServesWatchers ==
    ~Locked =>
        /\ \A w \in Live : Mask[w] \subseteq listened /\ (Mask[w] # {} => listener # "none")
        /\ listener = "none" \/ faults > 0 \/ \E w \in Present : Mask[w] # {}
================================================================================
