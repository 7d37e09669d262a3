--------------------------------- MODULE DbStore ---------------------------------
(* AppEventStore's access to its database file.                                   *)
(*                                                                                *)
(* Every operation runs under the shared side of dbMutex_ when the store is open. *)
(* When the store is not open, or the operation failed, the exclusive side opens  *)
(* the store, runs the operation if it has not run yet, and, when the result says *)
(* that the file is corrupt, closes the store and deletes the file; the next      *)
(* operation creates a new one.                                                   *)
(*                                                                                *)
(* The shared mutex is that of libc++: a thread that wants the exclusive side     *)
(* first enters, which keeps new readers out, and then waits for the readers      *)
(* inside to leave.                                                               *)
EXTENDS Naturals, FiniteSets

CONSTANTS
    Users,        \* threads that use the store
    MaxFiles,       \* bound: database files ever created
    MaxDamages,     \* bound: how often a file is damaged
    InitMayFail,    \* whether GetRdbStore or creating the directory may fail
    DeleteMayFail   \* whether DeleteRdbStore may fail

ASSUME DbStoreAssumption ==
    /\ MaxFiles \in Nat \ {0}
    /\ MaxDamages \in Nat
    /\ InitMayFail \in BOOLEAN
    /\ DeleteMayFail \in BOOLEAN

VARIABLES
    file,       \* the database file: which one it is, 0 for none, and whether it is damaged
    made,       \* files created so far
    dbStore,    \* dbStore_: the file it has open, 0 for nullptr
    damages,    \* damages so far
    use          \* the operation of each thread

dbVars == <<file, made, dbStore, damages, use>>

Results == {"none", "ok", "failed", "corrupt"}

Unused == [pc |-> "idle", res |-> "none", runs |-> 0, on |-> 0]

DBTypeOK ==
    /\ file \in [id : 0..MaxFiles, bad : BOOLEAN]
    /\ made \in 0..MaxFiles
    /\ dbStore \in 0..MaxFiles
    /\ damages \in 0..MaxDamages
    /\ use \in [Users -> [pc : {"idle", "begin", "shared", "write", "entered", "unique"}, res : Results,
                           runs : 0..2, on : 0..MaxFiles]]

NoFile == [id |-> 0, bad |-> FALSE]

\* The constructor has opened the store, or could not.
DBInit ==
    /\ \/ file = [id |-> 1, bad |-> FALSE] /\ made = 1 /\ dbStore = 1
       \/ file = NoFile /\ made = 0 /\ dbStore = 0
    /\ damages = 0
    /\ use = [t \in Users |-> Unused]

--------------------------------------------------------------------------------
\* What func may return: an operation need not touch the damaged pages.
Outcomes(f) == {"ok", "failed"} \cup (IF f.bad THEN {"corrupt"} ELSE {})

\* The file after DeleteRdbStore.
Deleted(f) == {NoFile} \cup (IF DeleteMayFail THEN {f} ELSE {})

\* Mutant: an operation that failed is run again.
RunsAgain(t) == use[t].res # "ok"

NotExecuted(t) == use[t].runs = 0

\* Mutant: the store is left open when its file is deleted.
StillOpen == dbStore

NullStore == 0

\* No writer has entered dbMutex_.
NoWriter == \A t \in Users : use[t].pc \notin {"entered", "unique"}

NoReader == \A t \in Users : use[t].pc # "shared"

\* Mutant: only the operation that opened the store repairs it.
CorruptOnFirstRun(t, r) == r = "corrupt" /\ use[t].runs = 0

\* Mutant: every failure is taken for corruption.
AnyFailure(t, r) == r # "ok"

IsCorrupt(t, r) == r = "corrupt"

--------------------------------------------------------------------------------
Begin(t) ==
    /\ use[t].pc = "idle"
    /\ use' = [use EXCEPT ![t] = [Unused EXCEPT !.pc = "begin"]]
    /\ UNCHANGED <<file, made, dbStore, damages>>

\* ExecuteReadOperation, under the shared side; without a store func does not run.
EnterShared(t) ==
    /\ use[t].pc = "begin"
    /\ NoWriter
    /\ use' = IF dbStore = 0
             THEN [use EXCEPT ![t].pc = "write", ![t].res = "failed"]
             ELSE [use EXCEPT ![t].pc = "shared", ![t].on = dbStore]
    /\ UNCHANGED <<file, made, dbStore, damages>>

\* func returns; success ends the operation.
RunShared(t) ==
    /\ use[t].pc = "shared"
    /\ \E r \in Outcomes(file) :
        use' = IF r = "ok" THEN [use EXCEPT ![t] = Unused]
              ELSE [use EXCEPT ![t].pc = "write", ![t].res = r, ![t].runs = @ + 1]
    /\ UNCHANGED <<file, made, dbStore, damages>>

\* ExecuteWriteOperation takes the exclusive side, in two steps.
AskUnique(t) ==
    /\ use[t].pc = "write"
    /\ NoWriter
    /\ use' = [use EXCEPT ![t].pc = "entered"]
    /\ UNCHANGED <<file, made, dbStore, damages>>

EnterUnique(t) ==
    /\ use[t].pc = "entered"
    /\ NoReader
    /\ use' = [use EXCEPT ![t].pc = "unique"]
    /\ UNCHANGED <<file, made, dbStore, damages>>

\* InitDbStore fails; when GetRdbStore reports corruption the file is deleted.
InitDbStoreFails(t) ==
    /\ use[t].pc = "unique"
    /\ dbStore = 0
    /\ \/ InitMayFail /\ UNCHANGED file
       \/ file.bad /\ file' \in Deleted(file)
    /\ use' = [use EXCEPT ![t] = Unused]
    /\ UNCHANGED <<made, dbStore, damages>>

\* InitDbStore opens the file, or creates one.
InitDbStore(t) ==
    /\ use[t].pc = "unique"
    /\ dbStore = 0
    /\ IF file.id # 0
       THEN dbStore' = file.id /\ UNCHANGED <<file, made>>
       ELSE /\ made < MaxFiles
            /\ made' = made + 1
            /\ file' = [id |-> made + 1, bad |-> FALSE]
            /\ dbStore' = made + 1
    /\ UNCHANGED <<damages, use>>

\* CheckAndRepairDbStore(r)
CheckAndRepairDbStore(t, r) ==
    IF IsCorrupt(t, r)
    THEN dbStore' = NullStore /\ file' \in Deleted(file)
    ELSE UNCHANGED <<dbStore, file>>

\* The operation runs if it has not yet; a bad result, even one of long ago, is acted upon.
FinishWrite(t) ==
    /\ use[t].pc = "unique"
    /\ dbStore # 0
    /\ \/ /\ NotExecuted(t)
          /\ \E r \in Outcomes(file) :
                /\ CheckAndRepairDbStore(t, r)
                /\ use' = [use EXCEPT ![t] = [Unused EXCEPT !.res = r, !.runs = use[t].runs + 1]]
       \/ /\ ~NotExecuted(t)
          /\ CheckAndRepairDbStore(t, use[t].res)
          /\ use' = [use EXCEPT ![t] = Unused]
    /\ UNCHANGED <<made, damages>>

\* External: the file is damaged.
Damage ==
    /\ damages < MaxDamages
    /\ file.id # 0
    /\ file' = [file EXCEPT !.bad = TRUE]
    /\ damages' = damages + 1
    /\ UNCHANGED <<made, dbStore, use>>

StepOp(t) ==
    \/ EnterShared(t) \/ RunShared(t) \/ AskUnique(t) \/ EnterUnique(t)
    \/ InitDbStoreFails(t) \/ InitDbStore(t) \/ FinishWrite(t)

DBNext == Damage \/ \E t \in Users : Begin(t) \/ StepOp(t)

DBSpec == DBInit /\ [][DBNext]_dbVars

\* An operation that began runs to its end.  Of the threads that want the exclusive side
\* none is passed over for ever, although each one that is done may come back.
DBFairness == \A t \in Users : WF_dbVars(StepOp(t)) /\ SF_dbVars(AskUnique(t))

DBFairSpec == DBSpec /\ DBFairness

--------------------------------------------------------------------------------
(* Properties.                                                                    *)

\* ExecuteDbOperation runs func once, however the two lock phases go: func inserts rows,
\* and a second run would store an event twice.
ExecutedOnce == \A t \in Users : use[t].runs <= 1

\* The open store is the file on disk: after a repair nobody writes into a deleted file.
OpenStoreIsFile == dbStore # 0 => file.id = dbStore

\* While func runs under the shared lock, nobody replaces the store it works on.
StoreStable == \A t \in Users : use[t].pc = "shared" => use[t].on = dbStore

\* Together: whoever runs a statement runs it on the file that is on disk now.
StoreIsTheFile == DBTypeOK /\ OpenStoreIsFile /\ StoreStable

\* An operation that found the file corrupt gets it replaced; when the file cannot be
\* deleted, at least nobody goes on with the store that was open.
SeesDamage(t) == use[t].pc = "write" /\ use[t].res = "corrupt" /\ file.bad

DamageIsRepaired == \A t \in Users : SeesDamage(t) ~> ~file.bad \/ dbStore = 0

\* The file is replaced by its damage, or by an operation that failed on an earlier file.
OldErrorOnly ==
    file'.id # file.id /\ file.id # 0 /\ ~file.bad =>
        \E t \in Users : /\ use[t].pc = "unique" /\ use[t].res = "corrupt"
                           /\ use[t].on \in 1..(file.id - 1)

\* A healthy file is lost in one way only: to an operation that failed on an earlier file,
\* which somebody else has replaced while the operation waited for the exclusive lock.
HealthyFileLostToOldError == [][OldErrorOnly]_dbVars
================================================================================
