---------------------------- MODULE Database_proofs ----------------------------
(* Machine-checked proofs about the database of an application: its file (DbStore)  *)
(* and what is stored in it and in the log files (Storage), for any threads, files, *)
(* days, quotas and bounds.                                                         *)
EXTENDS DbStore, Storage, FiniteSetTheorems, TLAPS

--------------------------------------------------------------------------------
(* DbStore: the file.                                                               *)


UseStates ==
    [pc : {"idle", "begin", "shared", "write", "entered", "unique"}, res : Results,
     runs : 0..2, on : 0..MaxFiles]

\* dbMutex_ is held by one writer or by readers.
Exclusion ==
    /\ \A t, u \in Users :
        use[t].pc \in {"entered", "unique"} /\ use[u].pc \in {"entered", "unique"} => t = u
    /\ \A t, u \in Users : use[t].pc = "unique" => use[u].pc # "shared"

\* func has not run before the shared phase returns, and once at most after it.
RunsOnce ==
    /\ \A t \in Users : use[t].runs <= 1
    /\ \A t \in Users : use[t].pc \in {"begin", "shared"} => use[t].runs = 0

\* The shared phase works on the open store, which is the file on disk.
OnOpenStore ==
    /\ OpenStoreIsFile
    /\ \A t \in Users : use[t].pc = "shared" => use[t].on = dbStore /\ dbStore # 0

\* An operation that carries a corruption saw it in a file no younger than the present one,
\* and if it is the present one, then that is damaged still.
BlameIsOld ==
    /\ file.id <= made
    /\ \A t \in Users :
        use[t].pc \in {"write", "entered", "unique"} /\ use[t].res = "corrupt" =>
            /\ use[t].on \in 1..made
            /\ file.id # 0 => use[t].on <= file.id
            /\ use[t].on = file.id => file.bad

IInv == DBTypeOK /\ Exclusion /\ RunsOnce /\ OnOpenStore /\ BlameIsOld

--------------------------------------------------------------------------------
LEMMA TypeOfOp == DBTypeOK => use \in [Users -> UseStates]
BY DEF DBTypeOK, UseStates

\* What the operations make of a record.
LEMMA OpRecords ==
    ASSUME NEW c \in UseStates, NEW res \in Results, NEW n \in 0..2
    PROVE  /\ [c EXCEPT !.pc = "write", !.res = res, !.runs = n] \in UseStates
           /\ [pc |-> "idle", res |-> res, runs |-> n, on |-> 0] \in UseStates
<1>1. [c EXCEPT !.pc = "write", !.res = res, !.runs = n] \in UseStates
  BY DEF UseStates
<1>2. [pc |-> "idle", res |-> res, runs |-> n, on |-> 0] \in UseStates
  BY DbStoreAssumption DEF UseStates
<1> QED
  BY <1>1, <1>2

FileStates == [id : 0..MaxFiles, bad : BOOLEAN]

LEMMA NoFileType == NoFile \in FileStates
<1>1. 0 \in 0..MaxFiles /\ FALSE \in BOOLEAN
  BY DbStoreAssumption
<1> QED
  BY <1>1, Zenon DEF NoFile, FileStates

LEMMA InitIInv == DBInit => IInv
<1> SUFFICES ASSUME DBInit PROVE IInv
  OBVIOUS
<1>1. Unused \in UseStates
  BY DbStoreAssumption DEF Unused, UseStates, Results
<1>2. use \in [Users -> UseStates] /\ \A t \in Users : use[t] = Unused
  BY <1>1 DEF DBInit
<1>3. file \in FileStates
  <2>1. 1 \in 0..MaxFiles
    BY DbStoreAssumption
  <2>2. [id |-> 1, bad |-> FALSE] \in FileStates
    BY <2>1, Zenon DEF FileStates
  <2> QED
    BY <2>2, NoFileType DEF DBInit
<1>4. DBTypeOK
  BY <1>2, <1>3, DbStoreAssumption DEF DBInit, DBTypeOK, UseStates, FileStates
<1>5. Exclusion /\ RunsOnce
  BY <1>2 DEF Exclusion, RunsOnce, Unused
<1>6. OnOpenStore /\ BlameIsOld
  BY <1>2, DbStoreAssumption DEF OnOpenStore, OpenStoreIsFile, BlameIsOld, Unused, DBInit, NoFile
<1> QED
  BY <1>4, <1>5, <1>6 DEF IInv

LEMMA NextIInv == IInv /\ [DBNext]_dbVars => IInv'
<1> SUFFICES ASSUME IInv, [DBNext]_dbVars PROVE IInv'
  OBVIOUS
<1>0. /\ use \in [Users -> UseStates]
      /\ Exclusion /\ RunsOnce /\ OnOpenStore /\ BlameIsOld
      /\ file \in FileStates
      /\ made \in 0..MaxFiles /\ dbStore \in 0..MaxFiles /\ damages \in 0..MaxDamages
  BY TypeOfOp DEF IInv, DBTypeOK, FileStates
<1> USE DbStoreAssumption
<1>1. ASSUME NEW t \in Users, Begin(t) PROVE IInv'
  <2> DEFINE next == [Unused EXCEPT !.pc = "begin"]
  <2>1. use' = [use EXCEPT ![t] = next] /\ UNCHANGED <<file, made, dbStore, damages>>
    BY <1>1 DEF Begin
  <2>2. next \in UseStates /\ next.pc = "begin" /\ next.runs = 0
    BY DEF UseStates, Unused, Results
  <2> HIDE DEF next
  <2>3. use' \in [Users -> UseStates]
    BY <1>0, <2>1, <2>2
  <2>4. DBTypeOK'
    BY <1>0, <2>1, <2>3 DEF DBTypeOK, UseStates, FileStates
  <2>5. Exclusion' /\ RunsOnce'
    BY <1>0, <2>1, <2>2 DEF Exclusion, RunsOnce
  <2>6. OnOpenStore' /\ BlameIsOld'
    BY <1>0, <2>1, <2>2 DEF OnOpenStore, OpenStoreIsFile, BlameIsOld, FileStates
  <2> QED
    BY <2>4, <2>5, <2>6 DEF IInv
<1>2. ASSUME NEW t \in Users, EnterShared(t) PROVE IInv'
  <2>1. CASE dbStore = 0
    <3> DEFINE next == [use[t] EXCEPT !.pc = "write", !.res = "failed"]
    <3>1. use' = [use EXCEPT ![t] = next] /\ UNCHANGED <<file, made, dbStore, damages>>
      BY <1>0, <1>2, <2>1 DEF EnterShared, UseStates
    <3>2. /\ next \in UseStates /\ next.pc = "write" /\ next.res = "failed"
          /\ next.runs = use[t].runs
      BY <1>0 DEF UseStates, Results
    <3> HIDE DEF next
    <3>3. use' \in [Users -> UseStates]
      BY <1>0, <3>1, <3>2
    <3>4. DBTypeOK'
      BY <1>0, <3>1, <3>3 DEF DBTypeOK, UseStates, FileStates
    <3>5. Exclusion' /\ RunsOnce'
      BY <1>0, <3>1, <3>2 DEF Exclusion, RunsOnce
    <3>6. OnOpenStore' /\ BlameIsOld'
      BY <1>0, <3>1, <3>2 DEF OnOpenStore, OpenStoreIsFile, BlameIsOld, FileStates
    <3> QED
      BY <3>4, <3>5, <3>6 DEF IInv
  <2>2. CASE dbStore # 0
    <3> DEFINE next == [use[t] EXCEPT !.pc = "shared", !.on = dbStore]
    <3>1. use' = [use EXCEPT ![t] = next] /\ UNCHANGED <<file, made, dbStore, damages>>
      BY <1>0, <1>2, <2>2 DEF EnterShared, UseStates
    <3>2. /\ next \in UseStates /\ next.pc = "shared" /\ next.on = dbStore
          /\ next.runs = use[t].runs
      BY <1>0 DEF UseStates
    <3>3. use[t].pc = "begin" /\ NoWriter
      BY <1>2 DEF EnterShared
    <3> HIDE DEF next
    <3>4. use' \in [Users -> UseStates]
      BY <1>0, <3>1, <3>2
    <3>5. DBTypeOK'
      BY <1>0, <3>1, <3>4 DEF DBTypeOK, UseStates, FileStates
    <3>6. Exclusion' /\ RunsOnce'
      BY <1>0, <3>1, <3>2, <3>3 DEF Exclusion, RunsOnce, NoWriter
    <3>7. OnOpenStore' /\ BlameIsOld'
      BY <1>0, <2>2, <3>1, <3>2 DEF OnOpenStore, OpenStoreIsFile, BlameIsOld, FileStates
    <3> QED
      BY <3>5, <3>6, <3>7 DEF IInv
  <2> QED
    BY <2>1, <2>2
<1>3. ASSUME NEW t \in Users, RunShared(t) PROVE IInv'
  <2>0. use[t].pc = "shared" /\ use[t].runs = 0 /\ use[t].on = dbStore /\ dbStore = file.id
           /\ dbStore # 0 /\ UNCHANGED <<file, made, dbStore, damages>>
    BY <1>0, <1>3 DEF RunShared, RunsOnce, OnOpenStore, OpenStoreIsFile
  <2>1. PICK r \in Outcomes(file) :
            use' = IF r = "ok" THEN [use EXCEPT ![t] = Unused]
                  ELSE [use EXCEPT ![t].pc = "write", ![t].res = r, ![t].runs = @ + 1]
    BY <1>3 DEF RunShared
  <2> DEFINE failed == [use[t] EXCEPT !.pc = "write", !.res = r, !.runs = 1]
             next == IF r = "ok" THEN Unused ELSE failed
  <2>2. use' = [use EXCEPT ![t] = next]
    <3>1. CASE r = "ok"
      BY <2>1, <3>1
    <3>2. CASE r # "ok"
      <4>1. use' = [use EXCEPT ![t] = [use[t] EXCEPT !.pc = "write", !.res = r,
                                                  !.runs = use[t].runs + 1]]
        BY <1>0, <2>1, <3>2 DEF UseStates
      <4> QED
        BY <2>0, <3>2, <4>1
    <3> QED
      BY <3>1, <3>2
  <2>3. r \in Results /\ (r = "corrupt" => file.bad)
    BY DEF Outcomes, Results
  <2>4. /\ next \in UseStates
        /\ \/ next.pc = "idle" /\ next.runs = 0
           \/ next.pc = "write" /\ next.runs = 1 /\ next.on = dbStore /\ next.res = r
    <3>1. Unused \in UseStates /\ Unused.pc = "idle" /\ Unused.runs = 0
      BY DEF UseStates, Unused, Results
    <3>2. failed \in UseStates
      <4>1. use[t] \in UseStates /\ r \in Results /\ 1 \in 0..2
        BY <1>0, <2>3
      <4> QED
        BY <4>1, OpRecords, Zenon
    <3>3. /\ failed.pc = "write" /\ failed.runs = 1
          /\ failed.on = dbStore /\ failed.res = r
      BY <1>0, <2>0, <2>3 DEF UseStates
    <3> HIDE DEF failed
    <3> QED
      BY <3>1, <3>2, <3>3
  <2> HIDE DEF next
  <2>5. use' \in [Users -> UseStates]
    BY <1>0, <2>2, <2>4
  <2>6. DBTypeOK'
    BY <1>0, <2>0, <2>5 DEF DBTypeOK, UseStates, FileStates
  <2>7. Exclusion' /\ RunsOnce'
    BY <1>0, <2>2, <2>4 DEF Exclusion, RunsOnce
  <2>8. OnOpenStore' /\ BlameIsOld'
    BY <1>0, <2>0, <2>2, <2>3, <2>4 DEF OnOpenStore, OpenStoreIsFile, BlameIsOld, FileStates
  <2> QED
    BY <2>6, <2>7, <2>8 DEF IInv
<1>4. ASSUME NEW t \in Users, AskUnique(t) \/ EnterUnique(t) PROVE IInv'
  <2>1. PICK pc \in {"entered", "unique"} :
            /\ use' = [use EXCEPT ![t].pc = pc]
            /\ pc = "entered" => use[t].pc = "write" /\ NoWriter
            /\ pc = "unique" => use[t].pc = "entered" /\ NoReader
    BY <1>4 DEF AskUnique, EnterUnique
  <2>2. UNCHANGED <<file, made, dbStore, damages>>
    BY <1>4 DEF AskUnique, EnterUnique
  <2> DEFINE next == [use[t] EXCEPT !.pc = pc]
  <2>3. use' = [use EXCEPT ![t] = next]
    BY <1>0, <2>1 DEF UseStates
  <2>4. /\ next \in UseStates /\ next.pc = pc /\ next.runs = use[t].runs
        /\ next.on = use[t].on /\ next.res = use[t].res
    BY <1>0 DEF UseStates
  <2> HIDE DEF next
  <2>5. use' \in [Users -> UseStates]
    BY <1>0, <2>3, <2>4
  <2>6. DBTypeOK'
    BY <1>0, <2>2, <2>5 DEF DBTypeOK, UseStates, FileStates
  <2>7. Exclusion' /\ RunsOnce'
    BY <1>0, <2>1, <2>3, <2>4 DEF Exclusion, RunsOnce, NoWriter, NoReader
  <2>8. OnOpenStore' /\ BlameIsOld'
    BY <1>0, <2>1, <2>2, <2>3, <2>4 DEF OnOpenStore, OpenStoreIsFile, BlameIsOld, FileStates
  <2> QED
    BY <2>6, <2>7, <2>8 DEF IInv
<1>5. ASSUME NEW t \in Users, InitDbStoreFails(t) PROVE IInv'
  <2>1. use' = [use EXCEPT ![t] = Unused] /\ UNCHANGED <<made, dbStore, damages>> /\ dbStore = 0
    BY <1>5 DEF InitDbStoreFails
  <2>2. file' \in {file, NoFile}
    BY <1>5 DEF InitDbStoreFails, Deleted
  <2>3. Unused \in UseStates /\ Unused.pc = "idle" /\ Unused.runs = 0
    BY DEF UseStates, Unused, Results
  <2>4. use' \in [Users -> UseStates]
    BY <1>0, <2>1, <2>3
  <2>5. DBTypeOK'
    BY <1>0, <2>1, <2>2, <2>4, NoFileType DEF DBTypeOK, UseStates, FileStates
  <2>6. Exclusion' /\ RunsOnce'
    BY <1>0, <2>1, <2>3 DEF Exclusion, RunsOnce
  <2>7. OnOpenStore' /\ BlameIsOld'
    BY <1>0, <2>1, <2>2, <2>3 DEF OnOpenStore, OpenStoreIsFile, BlameIsOld, NoFile, FileStates
  <2> QED
    BY <2>5, <2>6, <2>7 DEF IInv
<1>6. ASSUME NEW t \in Users, InitDbStore(t) PROVE IInv'
  <2>1. use' = use /\ damages' = damages /\ dbStore = 0 /\ use[t].pc = "unique"
    BY <1>6 DEF InitDbStore
  <2>2. /\ dbStore' = file'.id /\ dbStore' # 0
        /\ \/ file' = file /\ made' = made
           \/ made < MaxFiles /\ made' = made + 1 /\ file' = [id |-> made + 1, bad |-> FALSE]
    BY <1>0, <1>6 DEF InitDbStore
  <2>3. \A u \in Users : use[u].pc # "shared"
    BY <1>0, <2>1 DEF Exclusion
  <2>4. DBTypeOK'
    <3>1. file' \in FileStates /\ made' \in 0..MaxFiles
      <4>1. CASE file' = file /\ made' = made
        BY <1>0, <4>1
      <4>2. CASE made < MaxFiles /\ made' = made + 1 /\ file' = [id |-> made + 1, bad |-> FALSE]
        <5>1. made + 1 \in 0..MaxFiles
          BY <1>0, <4>2
        <5> QED
          BY <4>2, <5>1, Zenon DEF FileStates
      <4> QED
        BY <2>2, <4>1, <4>2
    <3>2. dbStore' \in 0..MaxFiles
      BY <2>2, <3>1 DEF FileStates
    <3> QED
      BY <1>0, <2>1, <3>1, <3>2 DEF DBTypeOK, UseStates, FileStates
  <2>5. Exclusion' /\ RunsOnce'
    BY <1>0, <2>1 DEF Exclusion, RunsOnce
  <2>6. OnOpenStore' /\ BlameIsOld'
    BY <1>0, <2>1, <2>2, <2>3 DEF OnOpenStore, OpenStoreIsFile, BlameIsOld, FileStates
  <2> QED
    BY <2>4, <2>5, <2>6 DEF IInv
<1>7. ASSUME NEW t \in Users, FinishWrite(t) PROVE IInv'
  <2>0. use[t].pc = "unique" /\ UNCHANGED <<made, damages>> /\ use \in [Users -> UseStates]
    BY <1>0, <1>7 DEF FinishWrite
  <2> DEFINE done(res, n) == [pc |-> "idle", res |-> res, runs |-> n, on |-> 0]
  <2>1. PICK r \in Results, res \in Results, n \in {0, 1} :
            CheckAndRepairDbStore(t, r) /\ use' = [use EXCEPT ![t] = done(res, n)]
    <3>1. CASE NotExecuted(t)
      <4>1. PICK r \in Outcomes(file) :
                /\ CheckAndRepairDbStore(t, r)
                /\ use' = [use EXCEPT ![t] = [Unused EXCEPT !.res = r, !.runs = use[t].runs + 1]]
        BY <1>7, <3>1 DEF FinishWrite
      <4>2. r \in Results
        BY DEF Outcomes, Results
      <4>3. use' = [use EXCEPT ![t] = [Unused EXCEPT !.res = r, !.runs = 1]]
        BY <3>1, <4>1 DEF NotExecuted
      <4>4. [Unused EXCEPT !.res = r, !.runs = 1] = done(r, 1)
        <5>1. [Unused EXCEPT !.res = r] = done(r, 0)
          BY DEF Unused
        <5>2. [done(r, 0) EXCEPT !.runs = 1] = done(r, 1)
          OBVIOUS
        <5>3. [Unused EXCEPT !.res = r, !.runs = 1] = [[Unused EXCEPT !.res = r] EXCEPT !.runs = 1]
          BY Zenon DEF Unused
        <5> QED
          BY <5>1, <5>2, <5>3
      <4> QED
        BY <4>1, <4>2, <4>3, <4>4
    <3>2. CASE ~NotExecuted(t)
      <4>1. use[t].res \in Results
        BY <2>0 DEF UseStates
      <4>2. CheckAndRepairDbStore(t, use[t].res) /\ use' = [use EXCEPT ![t] = Unused]
        BY <1>7, <3>2 DEF FinishWrite
      <4>3. "none" \in Results /\ Unused = done("none", 0)
        BY DEF Results, Unused
      <4> QED
        BY <4>1, <4>2, <4>3
    <3> QED
      BY <3>1, <3>2
  <2> DEFINE next == done(res, n)
  <2>2. next \in UseStates /\ next.pc = "idle" /\ next.runs = n
    <3>1. next \in UseStates
      <4>1. use[t] \in UseStates /\ res \in Results /\ n \in 0..2
        BY <2>0
      <4> QED
        BY <4>1, OpRecords, Zenon
    <3> QED
      BY <3>1
  <2>3. use' = [use EXCEPT ![t] = next]
    BY <2>1
  <2> HIDE DEF next
  <2>4. use' \in [Users -> UseStates]
    BY <1>0, <2>2, <2>3
  <2>5. \/ dbStore' = dbStore /\ file' = file
        \/ dbStore' = 0 /\ file' \in {file, NoFile}
    BY <2>1 DEF CheckAndRepairDbStore, NullStore, Deleted
  <2>6. \A u \in Users : use[u].pc # "shared"
    BY <1>0, <2>0 DEF Exclusion
  <2>7. DBTypeOK'
    BY <1>0, <2>0, <2>4, <2>5, NoFileType DEF DBTypeOK, UseStates, FileStates
  <2>8. Exclusion' /\ RunsOnce'
    BY <1>0, <2>2, <2>3 DEF Exclusion, RunsOnce
  <2>9. OnOpenStore' /\ BlameIsOld'
    BY <1>0, <2>0, <2>2, <2>3, <2>5, <2>6
    DEF OnOpenStore, OpenStoreIsFile, BlameIsOld, NoFile, FileStates
  <2> QED
    BY <2>7, <2>8, <2>9 DEF IInv
<1>8. CASE Damage
  <2>1. /\ damages' = damages + 1 /\ damages < MaxDamages
        /\ file' = [file EXCEPT !.bad = TRUE] /\ UNCHANGED <<made, dbStore, use>>
    BY <1>8 DEF Damage
  <2>2. file'.id = file.id /\ file'.bad /\ file' \in FileStates
    BY <1>0, <2>1 DEF FileStates
  <2>3. DBTypeOK'
    BY <1>0, <2>1, <2>2 DEF DBTypeOK, UseStates, FileStates
  <2>4. Exclusion' /\ RunsOnce'
    BY <1>0, <2>1 DEF Exclusion, RunsOnce
  <2>5. OnOpenStore' /\ BlameIsOld'
    BY <1>0, <2>1, <2>2 DEF OnOpenStore, OpenStoreIsFile, BlameIsOld, FileStates
  <2> QED
    BY <2>3, <2>4, <2>5 DEF IInv
<1>9. CASE UNCHANGED dbVars
  BY <1>0, <1>9
  DEF IInv, DBTypeOK, Exclusion, RunsOnce, OnOpenStore, OpenStoreIsFile, BlameIsOld, dbVars, UseStates
<1> QED
  BY <1>1, <1>2, <1>3, <1>4, <1>5, <1>6, <1>7, <1>8, <1>9 DEF DBNext, StepOp

LEMMA Invariance == DBSpec => []IInv
BY InitIInv, NextIInv, PTL DEF DBSpec

--------------------------------------------------------------------------------
\* Every variable keeps its type.
THEOREM DBTypeCorrect == DBSpec => []DBTypeOK
<1>1. IInv => DBTypeOK
  BY DEF IInv
<1> QED
  BY <1>1, Invariance, PTL

\* func runs once for each operation, whichever of the two lock phases runs it.
THEOREM OperationRunsOnce == DBSpec => []ExecutedOnce
<1>1. IInv => ExecutedOnce
  BY DEF IInv, RunsOnce, ExecutedOnce
<1> QED
  BY <1>1, Invariance, PTL

\* The store that is open is the file on disk, however often it was repaired.
THEOREM OpenStoreOnDisk == DBSpec => []OpenStoreIsFile
<1>1. IInv => OpenStoreIsFile
  BY DEF IInv, OnOpenStore
<1> QED
  BY <1>1, Invariance, PTL

\* No reader loses the store it works on.
THEOREM StoreStaysOpen == DBSpec => []StoreStable
<1>1. IInv => StoreStable
  BY DEF IInv, OnOpenStore, StoreStable
<1> QED
  BY <1>1, Invariance, PTL

\* Both at once, with the types: whoever runs func runs it on the file on disk.
THEOREM WorksOnTheFile == DBSpec => []StoreIsTheFile
<1>1. IInv => StoreIsTheFile
  BY DEF IInv, OnOpenStore, StoreStable, StoreIsTheFile
<1> QED
  BY <1>1, Invariance, PTL

\* A healthy file is deleted by nothing but an operation whose error is older than the file.
THEOREM OnlyOldErrorsHarm == DBSpec => HealthyFileLostToOldError
<1>1. IInv /\ [DBNext]_dbVars => [OldErrorOnly]_dbVars
  <2> SUFFICES ASSUME IInv, DBNext, file'.id # file.id, file.id # 0, ~file.bad
               PROVE  \E t \in Users : /\ use[t].pc = "unique" /\ use[t].res = "corrupt"
                                         /\ use[t].on \in 1..(file.id - 1)
    BY DEF OldErrorOnly
  <2>1. PICK t \in Users : InitDbStoreFails(t) \/ InitDbStore(t) \/ FinishWrite(t)
    <3>1. file' # file
      OBVIOUS
    <3>2. ~Damage
      BY DEF Damage, IInv, DBTypeOK
    <3>3. \A t \in Users : ~(Begin(t) \/ EnterShared(t) \/ RunShared(t) \/ AskUnique(t)
                                  \/ EnterUnique(t))
      BY <3>1 DEF Begin, EnterShared, RunShared, AskUnique, EnterUnique
    <3> QED
      BY <3>2, <3>3 DEF DBNext, StepOp
  <2>2. ~InitDbStoreFails(t) /\ ~InitDbStore(t)
    BY DEF InitDbStoreFails, InitDbStore
  <2>3. FinishWrite(t) /\ use[t].pc = "unique"
    BY <2>1, <2>2 DEF FinishWrite
  <2>4. ~NotExecuted(t) /\ use[t].res = "corrupt"
    BY <2>3 DEF FinishWrite, CheckAndRepairDbStore, IsCorrupt, Outcomes
  <2>5. use[t].on \in 1..made /\ use[t].on <= file.id /\ use[t].on # file.id
    BY <2>3, <2>4 DEF IInv, BlameIsOld
  <2>6. file.id \in Nat /\ made \in Nat
    BY DEF IInv, DBTypeOK
  <2>7. use[t].on \in 1..(file.id - 1)
    BY <2>5, <2>6
  <2> QED
    BY <2>3, <2>4, <2>7
<1> QED
  BY <1>1, Invariance, PTL DEF DBSpec, HealthyFileLostToOldError

--------------------------------------------------------------------------------
(* Storage: what is stored.                                                         *)


Pcs == {"idle", "lock", "shrink", "age", "agemap", "ageparams", "append",
        "insert", "map", "events", "params", "mapping", "logs"}
OpStates == [pc : Pcs, by : Writers, size : Nat, todo : SUBSET (1..Days), seq : 0..MaxEvents]

\* A writer that measures, cleans and appends holds the mutex of its binding.
Held == {"shrink", "age", "agemap", "ageparams", "append"}
MutexOK == \A t \in Threads : op[t].pc \in Held => owner[op[t].by] = {t}

\* Sequences name one event each, and are handed out one after another.
SeqsOK ==
    /\ \A e, f \in events : e.seq = f.seq => e = f
    /\ \A e \in events : e.seq <= given
    /\ \A t \in Threads : op[t].pc = "map" => op[t].seq \in 1..given

BInv == TypeOK /\ MutexOK /\ SeqsOK

--------------------------------------------------------------------------------
(* The lines of the log files.                                                      *)

\* The lines L of other days than D.
Outside(L, D) == {l \in L : l[1] \notin D}

LEMMA Constants ==
    /\ Days \in Nat /\ Days > 0 /\ Period \in Nat /\ Period > 0
    /\ Quotas \subseteq Nat
    /\ Reserved \in Nat /\ ReservedOs \in Nat /\ TriggerAging \in Nat /\ KeepRuns \in Nat
    /\ MaxLog \in Nat /\ MaxEvents \in Nat /\ MaxTroubles \in Nat
BY StorageAssumption

LEMMA LinesFinite ==
    /\ IsFiniteSet(Lines) /\ LogSize \in Nat
    /\ \A D : IsFiniteSet(Outside(Lines, D)) /\ Cardinality(Outside(Lines, D)) \in 0..LogSize
<1>1. IsFiniteSet((1..Days) \X (1..MaxLog))
  <2>1. IsFiniteSet(1..Days) /\ IsFiniteSet(1..MaxLog)
    BY Constants, FS_Interval
  <2> QED
    BY <2>1, FS_Product
<1>2. IsFiniteSet(Lines)
  BY <1>1, FS_Subset DEF Lines
<1>3. \A D : Outside(Lines, D) \in SUBSET Lines
  BY DEF Outside
<1> QED
  BY <1>2, <1>3, FS_Subset, FS_CardinalityType DEF LogSize

\* A day's file has as many lines as its size says.
LEMMA LinesOfDay ==
    ASSUME logs \in [1..Days -> 0..MaxLog], NEW d \in 1..Days
    PROVE  LET L == {l \in Lines : l[1] = d} IN
           IsFiniteSet(L) /\ Cardinality(L) = logs[d]
<1>0. logs[d] \in 0..MaxLog /\ MaxLog \in Nat
  BY Constants
<1>1. {l \in Lines : l[1] = d} = {d} \X (1..logs[d])
  BY <1>0 DEF Lines
<1>2. IsFiniteSet(1..logs[d]) /\ Cardinality(1..logs[d]) = logs[d]
  BY <1>0, FS_Interval
<1>3. IsFiniteSet({d}) /\ Cardinality({d}) = 1
  BY FS_Singleton
<1>4. IsFiniteSet({d} \X (1..logs[d])) /\ Cardinality({d} \X (1..logs[d])) = 1 * logs[d]
  BY <1>2, <1>3, FS_Product
<1>5. 1 * logs[d] = logs[d]
  BY <1>0
<1> QED
  BY <1>1, <1>4, <1>5, Zenon

\* What an event adds.
LEMMA LineAdded ==
    ASSUME logs \in [1..Days -> 0..MaxLog], today \in 1..Days, LogSize < MaxLog,
           logs' = [logs EXCEPT ![today] = @ + 1]
    PROVE  /\ logs' \in [1..Days -> 0..MaxLog]
           /\ LogSize' = LogSize + 1
           /\ \A D : Cardinality(Outside(Lines', D)) <= Cardinality(Outside(Lines, D)) + 1
<1> DEFINE new == <<today, logs[today] + 1>>
<1>1. logs[today] <= LogSize
  <2> DEFINE dayLines == {l \in Lines : l[1] = today}
  <2>1. dayLines \in SUBSET Lines
    OBVIOUS
  <2>2. Cardinality(dayLines) = logs[today]
    BY LinesOfDay
  <2> HIDE DEF dayLines
  <2>3. Cardinality(dayLines) <= Cardinality(Lines)
    BY <2>1, LinesFinite, FS_Subset
  <2> QED
    BY <2>2, <2>3 DEF LogSize
<1>2. logs[today] + 1 \in 1..MaxLog
  BY <1>1, LinesFinite, Constants
<1>3. Lines' = Lines \cup {new} /\ new \notin Lines
  BY <1>2, Constants DEF Lines
<1>4. logs' \in [1..Days -> 0..MaxLog]
  BY <1>2
<1>5. LogSize' = LogSize + 1
  BY <1>3, LinesFinite, FS_AddElement DEF LogSize
<1>6. ASSUME NEW D
      PROVE  Cardinality(Outside(Lines', D)) <= Cardinality(Outside(Lines, D)) + 1
  <2>1. \/ Outside(Lines', D) = Outside(Lines, D)
        \/ Outside(Lines', D) = Outside(Lines, D) \cup {new}
    BY <1>3 DEF Outside
  <2>2. IsFiniteSet(Outside(Lines, D)) /\ Cardinality(Outside(Lines, D)) \in Nat
    BY LinesFinite
  <2> DEFINE out == Outside(Lines, D)
             more == Outside(Lines', D)
  <2> HIDE DEF out, more, new
  <2>3. Cardinality(out \cup {new}) = IF new \in out THEN Cardinality(out) ELSE Cardinality(out) + 1
    BY <2>2, FS_AddElement DEF out
  <2>4. more = out \/ more = out \cup {new}
    BY <2>1 DEF out, more
  <2>5. Cardinality(out) \in Nat
    BY <2>2 DEF out
  <2>6. Cardinality(more) = Cardinality(out) \/ Cardinality(more) = Cardinality(out \cup {new})
    BY <2>4, Zenon
  <2>7. Cardinality(more) <= Cardinality(out) + 1
    BY <2>3, <2>5, <2>6
  <2> QED
    BY <2>7 DEF out, more
<1> QED
  BY <1>4, <1>5, <1>6

\* What the removal of a file takes away.
LEMMA FileRemoved ==
    ASSUME logs \in [1..Days -> 0..MaxLog], NEW d \in 1..Days,
           logs' = [logs EXCEPT ![d] = 0]
    PROVE  /\ logs' \in [1..Days -> 0..MaxLog]
           /\ LogSize' = LogSize - logs[d] /\ logs[d] \in 0..LogSize
           /\ \A D : /\ Cardinality(Outside(Lines', D)) <= Cardinality(Outside(Lines, D))
                     /\ d \in D => Cardinality(Outside(Lines', D \ {d})) = Cardinality(Outside(Lines, D))
<1> DEFINE dayLines == {l \in Lines : l[1] = d}
<1>1. Lines' = Lines \ dayLines
  BY Constants DEF Lines
<1>2. IsFiniteSet(dayLines) /\ Cardinality(dayLines) = logs[d]
  BY LinesOfDay
<1>3. Lines \cap dayLines = dayLines /\ dayLines \in SUBSET Lines
  OBVIOUS
<1> HIDE DEF dayLines
<1>4. LogSize' = LogSize - logs[d]
  <2>1. Cardinality(Lines \ dayLines) = Cardinality(Lines) - Cardinality(Lines \cap dayLines)
    BY LinesFinite, FS_Difference
  <2>2. Cardinality(Lines') = Cardinality(Lines) - logs[d]
    BY <1>1, <1>2, <1>3, <2>1
  <2> QED
    BY <2>2 DEF LogSize
<1>5. logs[d] \in 0..LogSize
  BY <1>2, <1>3, LinesFinite, FS_Subset DEF LogSize
<1>6. ASSUME NEW D
      PROVE  /\ Cardinality(Outside(Lines', D)) <= Cardinality(Outside(Lines, D))
             /\ d \in D => Cardinality(Outside(Lines', D \ {d})) = Cardinality(Outside(Lines, D))
  <2>1. Outside(Lines', D) \in SUBSET Outside(Lines, D)
    BY <1>1 DEF Outside
  <2>2. d \in D => Outside(Lines', D \ {d}) = Outside(Lines, D)
    BY <1>1 DEF Outside, dayLines
  <2> QED
    BY <2>1, <2>2, LinesFinite, FS_Subset
<1>7. logs' \in [1..Days -> 0..MaxLog]
  BY Constants
<1> QED
  BY <1>4, <1>5, <1>6, <1>7

\* Nothing is left of removed files.
LEMMA FilesRemoved ==
    ASSUME logs' = [d \in 1..Days |-> 0]
    PROVE  /\ logs' \in [1..Days -> 0..MaxLog]
           /\ LogSize' = 0
           /\ \A D : Cardinality(Outside(Lines', D)) = 0
<1>1. Lines' = {}
  BY Constants DEF Lines
<1>2. \A D : Outside(Lines', D) = {}
  BY <1>1 DEF Outside
<1>3. logs' \in [1..Days -> 0..MaxLog]
  BY Constants
<1> QED
  BY <1>1, <1>2, <1>3, FS_EmptySet DEF LogSize

LEMMA LinesStay ==
    ASSUME UNCHANGED logs
    PROVE  Lines' = Lines /\ LogSize' = LogSize
<1>1. Lines' = Lines
  BY DEF Lines
<1> QED
  BY <1>1 DEF LogSize

\* To remove every file that is not empty is to remove every line.
LEMMA AllLinesListed ==
    ASSUME logs \in [1..Days -> 0..MaxLog]
    PROVE  /\ Cardinality(Outside(Lines, {d \in 1..Days : logs[d] > 0})) = 0
           /\ Outside(Lines, {}) = Lines
<1>1. Outside(Lines, {d \in 1..Days : logs[d] > 0}) = {}
  BY Constants DEF Outside, Lines
<1> QED
  BY <1>1, FS_EmptySet DEF Outside

--------------------------------------------------------------------------------
(* What the steps of a thread make of its record.                                   *)

Moved(t, pc, by, size, todo, seq) ==
    /\ op' \in [Threads -> OpStates]
    /\ \A u \in Threads \ {t} : op'[u] = op[u]
    /\ op'[t].pc = pc /\ op'[t].by = by /\ op'[t].size = size
    /\ op'[t].todo = todo /\ op'[t].seq = seq

LEMMA RecordOf ==
    ASSUME TypeOK, NEW t \in Threads
    PROVE  /\ op \in [Threads -> OpStates] /\ op[t] \in OpStates
           /\ op[t].pc \in Pcs /\ op[t].by \in Writers /\ op[t].size \in Nat
           /\ op[t].todo \in SUBSET (1..Days) /\ op[t].seq \in 0..MaxEvents
<1>1. op \in [Threads -> OpStates]
  BY DEF TypeOK, OpStates, Pcs
<1>2. op[t] \in OpStates
  BY <1>1
<1> QED
  BY <1>1, <1>2 DEF OpStates

LEMMA Moving ==
    ASSUME TypeOK, NEW t \in Threads, NEW c \in OpStates, op' = [op EXCEPT ![t] = c]
    PROVE  Moved(t, c.pc, c.by, c.size, c.todo, c.seq)
BY RecordOf DEF Moved

LEMMA Going ==
    ASSUME TypeOK, NEW t \in Threads, NEW pc \in Pcs, Goto(t, pc)
    PROVE  Moved(t, pc, op[t].by, op[t].size, op[t].todo, op[t].seq)
<1> DEFINE c == [op[t] EXCEPT !.pc = pc]
<1>1. op[t] \in OpStates
  BY RecordOf
<1>2. /\ c \in OpStates
      /\ c.pc = pc /\ c.by = op[t].by /\ c.size = op[t].size /\ c.todo = op[t].todo /\ c.seq = op[t].seq
  BY <1>1 DEF OpStates
<1>3. op' = [op EXCEPT ![t] = c]
  BY DEF Goto
<1> HIDE DEF c
<1>4. Moved(t, c.pc, c.by, c.size, c.todo, c.seq)
  BY <1>2, <1>3, Moving
<1> QED
  BY <1>2, <1>4

LEMMA Returning ==
    ASSUME TypeOK, NEW t \in Threads, Return(t)
    PROVE  Moved(t, "idle", "native", 0, {}, 0)
<1>1. /\ Idle \in OpStates
      /\ Idle.pc = "idle" /\ Idle.by = "native" /\ Idle.size = 0 /\ Idle.todo = {} /\ Idle.seq = 0
  BY Constants DEF Idle, OpStates, Pcs, Writers
<1>2. Moved(t, Idle.pc, Idle.by, Idle.size, Idle.todo, Idle.seq)
  BY <1>1, Moving DEF Return
<1> QED
  BY <1>1, <1>2

\* Records are types, whoever moved.
LEMMA MovedTypes ==
    ASSUME NEW t \in Threads, NEW pc, NEW by, NEW size, NEW todo, NEW seq,
           Moved(t, pc, by, size, todo, seq)
    PROVE  op' \in [Threads -> [pc : Pcs, by : Writers, size : Nat, todo : SUBSET (1..Days),
                                seq : 0..MaxEvents]]
BY DEF Moved, OpStates

LEMMA Numbers ==
    ASSUME TypeOK
    PROVE  /\ today \in 1..Days /\ logs \in [1..Days -> 0..MaxLog]
           /\ peak \in 0..MaxEvents /\ given \in 0..MaxEvents /\ eventCount \in 0..Period
           /\ quota \in Nat /\ LogSize \in Nat /\ run \in Nat
           /\ clears \in 0..MaxTroubles /\ faults \in 0..MaxTroubles /\ crashes \in 0..MaxTroubles
<1>1. /\ today \in 1..Days /\ logs \in [1..Days -> 0..MaxLog]
      /\ {peak, given} \subseteq 0..MaxEvents /\ eventCount \in 0..Period
      /\ quota \in Quotas /\ run = crashes
      /\ {clears, faults, crashes} \subseteq 0..MaxTroubles
  BY DEF TypeOK
<1> QED
  BY <1>1, LinesFinite, Constants

\* A set of natural numbers has a least one.
LEMMA LeastNatural ==
    ASSUME NEW S \in SUBSET Nat, S # {}
    PROVE  \E m \in S : \A n \in S : m <= n
<1> DEFINE R == {p \in Nat \X Nat : p[1] < p[2]}
<1>1. IsWellFoundedOn(R, Nat)
  BY NatLessThanWellFounded DEF OpToRel
<1> HIDE DEF R
<1>2. PICK m \in S : \A n \in S : ~(<<n, m>> \in R)
  BY <1>1, WFMin
<1>3. ASSUME NEW n \in S PROVE m <= n
  <2>1. n \in Nat /\ m \in Nat
    OBVIOUS
  <2>2. <<n, m>> \notin R
    BY <1>2
  <2>3. ~(n < m)
    BY <2>1, <2>2 DEF R
  <2> QED
    BY <2>1, <2>3
<1> QED
  BY <1>3

LEMMA CountedSteps ==
    ASSUME NEW n \in 0..Period
    PROVE  /\ Counted(n) \in 0..Period
           /\ n >= Period - 1 => Counted(n) = 0
           /\ n < Period - 1 => Counted(n) = n + 1
<1>1. CASE n = Period
  BY <1>1, Constants DEF Counted
<1>2. CASE n = Period - 1
  <2>1. (n + 1) % Period = 0
    BY <1>2, Constants
  <2> QED
    BY <1>2, <2>1, Constants DEF Counted
<1>3. CASE n < Period - 1
  <2>1. (n + 1) % Period = n + 1
    BY <1>3, Constants
  <2> QED
    BY <1>3, <2>1, Constants DEF Counted
<1> QED
  BY <1>1, <1>2, <1>3, Constants

LEMMA CheckMoves ==
    ASSUME TypeOK, NEW t \in Threads, CheckStorageSpace(t)
    PROVE  /\ op[t].pc = "lock" /\ owner[op[t].by] = {}
           /\ owner' = [owner EXCEPT ![op[t].by] = {t}]
           /\ \/ /\ Moved(t, "append", op[t].by, op[t].size, op[t].todo, op[t].seq)
                 /\ ~Due(op[t].by) /\ eventCount' = Counted(eventCount)
              \/ /\ Moved(t, "append", op[t].by, op[t].size, op[t].todo, op[t].seq)
                 /\ LogSize + peak <= quota /\ eventCount' = eventCount /\ Due(op[t].by)
              \/ /\ Moved(t, "shrink", op[t].by, LogSize + peak, {d \in 1..Days : logs[d] > 0}, op[t].seq)
                 /\ eventCount' = IF op[t].by = "native" THEN Counted(eventCount) ELSE eventCount
                 /\ LogSize + peak > quota /\ Due(op[t].by)
<1> DEFINE files == {d \in 1..Days : logs[d] > 0}
<1> HIDE DEF files
<1>0. /\ op[t].pc = "lock" /\ owner[op[t].by] = {}
      /\ owner' = [owner EXCEPT ![op[t].by] = {t}]
  BY DEF CheckStorageSpace, At
<1>1. ASSUME Goto(t, "append")
      PROVE  Moved(t, "append", op[t].by, op[t].size, op[t].todo, op[t].seq)
  BY <1>1, Going DEF Pcs
<1>2. CASE ~Due(op[t].by)
  <2>1. eventCount' = Counted(eventCount) /\ Goto(t, "append")
    BY <1>2 DEF CheckStorageSpace
  <2> QED
    BY <1>0, <1>1, <1>2, <2>1
<1>3. CASE Due(op[t].by) /\ LogSize + peak <= quota
  <2>1. eventCount' = eventCount /\ Goto(t, "append")
    BY <1>3 DEF CheckStorageSpace
  <2> QED
    BY <1>0, <1>1, <1>3, <2>1
<1>4. CASE Due(op[t].by) /\ ~(LogSize + peak <= quota)
  <2>1. /\ eventCount' = IF op[t].by = "native" THEN Counted(eventCount) ELSE eventCount
        /\ op' = [op EXCEPT ![t].pc = "shrink", ![t].size = LogSize + peak, ![t].todo = files]
    BY <1>4 DEF CheckStorageSpace, files
  <2>2. LogSize + peak \in Nat /\ peak \in Nat /\ quota \in Nat /\ LogSize \in Nat
    BY Numbers, Constants, SMTT(20)
  <2>3. "shrink" \in Pcs /\ files \in SUBSET (1..Days)
    BY DEF Pcs, files
  <2> DEFINE size == LogSize + peak
             c == [op[t] EXCEPT !.pc = "shrink", !.size = size, !.todo = files]
  <2>4. op' = [op EXCEPT ![t] = c]
    BY <2>1
  <2> HIDE DEF size
  <2>5. /\ c \in OpStates
        /\ c.pc = "shrink" /\ c.by = op[t].by /\ c.size = size /\ c.todo = files /\ c.seq = op[t].seq
    BY <2>2, <2>3, RecordOf DEF OpStates, size
  <2> HIDE DEF c
  <2>6. Moved(t, "shrink", op[t].by, LogSize + peak, files, op[t].seq)
    <3>1. Moved(t, c.pc, c.by, c.size, c.todo, c.seq)
      BY <2>4, <2>5, Moving
    <3> QED
      BY <2>5, <3>1 DEF size
  <2> QED
    BY <1>0, <1>4, <2>1, <2>2, <2>6 DEF files
<1> QED
  BY <1>2, <1>3, <1>4

LEMMA ShrinkMoves ==
    ASSUME TypeOK, NEW t \in Threads, ClearLogSpace(t)
    PROVE  /\ op[t].pc = "shrink" /\ op[t].size > quota
           /\ \E d \in op[t].todo :
               /\ Moved(t, "shrink", op[t].by, op'[t].size, op[t].todo \ {d}, op[t].seq)
               /\ \/ /\ logs' = [logs EXCEPT ![d] = 0]
                     /\ op'[t].size = IF op[t].size > logs[d] THEN op[t].size - logs[d] ELSE 0
                     /\ faults' = faults
                  \/ Fault /\ logs' = logs
<1> DEFINE d == Min(op[t].todo)
           rest == IF op[t].size > logs[d] THEN op[t].size - logs[d] ELSE 0
<1>0. op[t].todo # {} /\ op[t].pc = "shrink" /\ op[t].size > quota
  BY DEF ClearLogSpace, At
<1>1. d \in op[t].todo
  <2>1. op[t].todo \in SUBSET (1..Days) /\ op[t].todo # {}
    BY <1>0, RecordOf
  <2>2. \E m \in op[t].todo : \A n \in op[t].todo : m <= n
    BY <2>1, LeastNatural, Constants
  <2> QED
    BY <2>2 DEF Min
<1> HIDE DEF d
<1>2. d \in 1..Days /\ logs[d] \in Nat /\ op[t].size \in Nat
  <2>1. d \in 1..Days /\ op[t].size \in Nat
    BY <1>1, RecordOf
  <2>2. logs[d] \in 0..MaxLog
    BY <2>1, Numbers
  <2> QED
    BY <2>1, <2>2, Constants
<1>3. CASE /\ logs' = [logs EXCEPT ![d] = 0] /\ UNCHANGED faults
           /\ op' = [op EXCEPT ![t].todo = @ \ {d}, ![t].size = @ - Min({@, logs[d]})]
  <2>1. op[t].size - Min({op[t].size, logs[d]}) = rest
    <3>1. Min({op[t].size, logs[d]}) = IF op[t].size > logs[d] THEN logs[d] ELSE op[t].size
      <4> DEFINE m == IF op[t].size > logs[d] THEN logs[d] ELSE op[t].size
      <4>1. m \in {op[t].size, logs[d]} /\ \A y \in {op[t].size, logs[d]} : m =< y
        BY <1>2
      <4>2. \A x \in {op[t].size, logs[d]} : (\A y \in {op[t].size, logs[d]} : x =< y) => x = m
        BY <1>2
      <4> QED
        BY <4>1, <4>2 DEF Min
    <3> QED
      BY <1>2, <3>1
  <2> DEFINE size == rest
             c == [op[t] EXCEPT !.todo = @ \ {d}, !.size = size]
  <2>2. op' = [op EXCEPT ![t] = c]
    BY <1>3, <2>1
  <2>3. size \in Nat
    BY <1>2
  <2> HIDE DEF size
  <2>4. Moved(t, op[t].pc, op[t].by, rest, op[t].todo \ {d}, op[t].seq)
    <3>1. /\ c \in OpStates
          /\ c.pc = op[t].pc /\ c.by = op[t].by /\ c.size = size /\ c.seq = op[t].seq
          /\ c.todo = op[t].todo \ {d}
      BY <2>3, RecordOf DEF OpStates
    <3> HIDE DEF c
    <3>2. Moved(t, c.pc, c.by, c.size, c.todo, c.seq)
      BY <2>2, <3>1, Moving
    <3> QED
      BY <3>1, <3>2 DEF size
  <2>5. op'[t].size = rest
    BY <2>4 DEF Moved
  <2> QED
    BY <1>0, <1>1, <1>3, <2>4, <2>5
<1>4. CASE Fault /\ UNCHANGED logs /\ op' = [op EXCEPT ![t].todo = @ \ {d}]
  <2> DEFINE c == [op[t] EXCEPT !.todo = @ \ {d}]
  <2>1. op' = [op EXCEPT ![t] = c]
    BY <1>4
  <2>2. /\ c \in OpStates
        /\ c.pc = op[t].pc /\ c.by = op[t].by /\ c.size = op[t].size /\ c.seq = op[t].seq
        /\ c.todo = op[t].todo \ {d}
    BY RecordOf DEF OpStates
  <2> HIDE DEF c
  <2>3. Moved(t, op[t].pc, op[t].by, op[t].size, op[t].todo \ {d}, op[t].seq)
    <3>1. Moved(t, c.pc, c.by, c.size, c.todo, c.seq)
      BY <2>1, <2>2, Moving
    <3> QED
      BY <2>2, <3>1
  <2>4. op'[t].size = op[t].size
    BY <2>3 DEF Moved
  <2> QED
    BY <1>0, <1>1, <1>4, <2>3, <2>4
<1> QED
  BY <1>3, <1>4 DEF ClearLogSpace, d

LEMMA WriteMoves ==
    ASSUME TypeOK, NEW t \in Threads, NEW w \in Writers, WriteEvent(t, w)
    PROVE  Moved(t, "lock", w, 0, {}, 0) /\ op[t].pc = "idle"
<1> DEFINE c == [Idle EXCEPT !.pc = "lock", !.by = w]
<1>0. Idle \in OpStates /\ Idle.size = 0 /\ Idle.todo = {} /\ Idle.seq = 0
  BY Constants DEF Idle, OpStates, Pcs, Writers
<1>1. /\ c \in OpStates
      /\ c.pc = "lock" /\ c.by = w /\ c.size = 0 /\ c.todo = {} /\ c.seq = 0
  BY <1>0 DEF OpStates, Pcs
<1>2. op' = [op EXCEPT ![t] = c] /\ op[t].pc = "idle"
  BY DEF WriteEvent, Idle
<1> HIDE DEF c
<1>3. Moved(t, c.pc, c.by, c.size, c.todo, c.seq)
  BY <1>1, <1>2, Moving
<1> QED
  BY <1>1, <1>2, <1>3

LEMMA StoreMoves ==
    ASSUME TypeOK, NEW t \in Threads, StoreEventsToDb(t)
    PROVE  Moved(t, "map", op[t].by, op[t].size, op[t].todo, given + 1)
<1> DEFINE c == [op[t] EXCEPT !.pc = "map", !.seq = given + 1]
<1>1. given + 1 \in 0..MaxEvents
  <2>1. given < MaxEvents
    BY DEF StoreEventsToDb, Insert
  <2>2. given \in Nat /\ MaxEvents \in Nat
    BY Numbers, Constants
  <2> QED
    BY <2>1, <2>2
<1>2. /\ c \in OpStates
      /\ c.pc = "map" /\ c.by = op[t].by /\ c.size = op[t].size /\ c.todo = op[t].todo /\ c.seq = given + 1
  BY <1>1, RecordOf DEF OpStates, Pcs
<1>3. op' = [op EXCEPT ![t] = c]
  BY DEF StoreEventsToDb
<1> HIDE DEF c
<1>4. Moved(t, c.pc, c.by, c.size, c.todo, c.seq)
  BY <1>2, <1>3, Moving
<1> QED
  BY <1>2, <1>4

--------------------------------------------------------------------------------
(* BInv is an invariant.                                                            *)

OwnerOK(o) == o \in [Writers -> SUBSET Threads] /\ \A w \in Writers : Cardinality(o[w]) <= 1

LEMMA OwnerTaken ==
    ASSUME OwnerOK(owner), NEW t \in Threads, NEW w \in Writers, owner' = [owner EXCEPT ![w] = {t}]
    PROVE  OwnerOK(owner')
<1>1. Cardinality({t}) = 1
  BY FS_Singleton
<1> QED
  BY <1>1 DEF OwnerOK

LEMMA OwnerLeft ==
    ASSUME OwnerOK(owner), NEW t \in Threads, Unlock(t)
    PROVE  /\ OwnerOK(owner')
           /\ \A u \in Threads \ {t} : \A w \in Writers : owner[w] = {u} => owner'[w] = {u}
<1>1. owner' = [w \in Writers |-> owner[w] \ {t}]
  BY DEF Unlock
<1>2. ASSUME NEW w \in Writers
      PROVE  Cardinality(owner'[w]) <= 1
  <2>1. owner[w] \in SUBSET Threads /\ IsFiniteSet(owner[w])
    BY FS_Subset, StorageAssumption DEF OwnerOK
  <2>2. owner'[w] \in SUBSET owner[w]
    BY <1>1
  <2>3. Cardinality(owner'[w]) <= Cardinality(owner[w])
    BY <2>1, <2>2, FS_Subset
  <2>4. Cardinality(owner[w]) <= 1 /\ Cardinality(owner[w]) \in Nat /\ Cardinality(owner'[w]) \in Nat
    BY <2>1, <2>2, FS_Subset, FS_CardinalityType DEF OwnerOK
  <2> QED
    BY <2>3, <2>4
<1>3. owner' \in [Writers -> SUBSET Threads]
  BY <1>1 DEF OwnerOK
<1> QED
  BY <1>1, <1>2, <1>3 DEF OwnerOK

EventRows == [seq : 1..MaxEvents, os : BOOLEAN, run : Nat, params : BOOLEAN]

\* The variables that have a type of their own.
Rest1OK ==
    /\ today \in 1..Days /\ logs \in [1..Days -> 0..MaxLog]
    /\ mapping \subseteq 1..MaxEvents /\ params \subseteq 0..MaxTroubles
    /\ peak \in 0..MaxEvents /\ given \in 0..MaxEvents
    /\ run = crashes /\ eventCount \in 0..Period
    /\ quota \in Quotas /\ watched \in BOOLEAN
    /\ clears \in 0..MaxTroubles /\ faults \in 0..MaxTroubles /\ crashes \in 0..MaxTroubles

LEMMA TypeParts ==
    TypeOK <=> Rest1OK /\ events \subseteq EventRows /\ OwnerOK(owner) /\ op \in [Threads -> OpStates]
BY DEF TypeOK, Rest1OK, EventRows, OwnerOK, OpStates, Pcs

\* Rows are only taken away, no sequence is given.
Tidies ==
    /\ events' \subseteq events /\ mapping' \subseteq mapping /\ params' \subseteq params
    /\ peak' = peak /\ given' = given
    /\ quota' = quota /\ watched' = watched /\ run' = run /\ crashes' = crashes

LEMMA TidyStep ==
    ASSUME BInv, NEW t \in Threads, NEW pc, NEW by, NEW size, NEW todo, NEW seq,
           Moved(t, pc, by, size, todo, seq), Tidies,
           today' \in 1..Days, logs' \in [1..Days -> 0..MaxLog], eventCount' \in 0..Period,
           clears' \in 0..MaxTroubles, faults' \in 0..MaxTroubles,
           OwnerOK(owner'), pc \in Held => owner'[by] = {t},
           \A u \in Threads \ {t} : \A w \in Writers : owner[w] = {u} => owner'[w] = {u},
           pc # "map"
    PROVE  BInv'
<1>1. Rest1OK /\ events \subseteq EventRows /\ op \in [Threads -> OpStates]
  BY TypeParts DEF BInv
<1>2. Rest1OK'
  BY <1>1 DEF Rest1OK, Tidies
<1>3. TypeOK'
  <2>1. events' \subseteq EventRows
    BY <1>1 DEF Tidies
  <2>2. op' \in [Threads -> OpStates]
    BY DEF Moved
  <2> QED
    BY <1>2, <2>1, <2>2 DEF TypeOK, Rest1OK, EventRows, OwnerOK, OpStates, Pcs
<1>4. MutexOK'
  <2> SUFFICES ASSUME NEW u \in Threads, op'[u].pc \in Held PROVE owner'[op'[u].by] = {u}
    BY DEF MutexOK
  <2>1. CASE u = t
    BY <2>1 DEF Moved
  <2>2. CASE u # t
    <3>1. op'[u] = op[u] /\ owner[op[u].by] = {u} /\ op[u].by \in Writers
      BY <2>2, RecordOf DEF Moved, BInv, MutexOK
    <3> QED
      BY <2>2, <3>1
  <2> QED
    BY <2>1, <2>2
<1>5. SeqsOK'
  <2>1. \A u \in Threads : op'[u].pc = "map" => op'[u] = op[u]
    BY DEF Moved
  <2> QED
    BY <2>1 DEF BInv, SeqsOK, Tidies
<1> QED
  BY <1>3, <1>4, <1>5 DEF BInv

\* The sequences of the events are all different, so that there are no more than were given.
LEMMA EventsCounted ==
    ASSUME NEW E \in SUBSET EventRows, \A e, f \in E : e.seq = f.seq => e = f
    PROVE  IsFiniteSet(E) /\ Cardinality(E) \in 0..MaxEvents
<1> DEFINE f == [e \in E |-> e.seq]
<1>1. \A e \in E : e.seq \in 1..MaxEvents
  BY DEF EventRows
<1>2. f \in Injection(E, 1..MaxEvents)
  BY <1>1, Zenon DEF Injection, IsInjective
<1>3. IsFiniteSet(1..MaxEvents) /\ Cardinality(1..MaxEvents) = MaxEvents
  BY FS_Interval, Constants
<1>4. IsFiniteSet(E) /\ Cardinality(E) <= MaxEvents
  BY <1>2, <1>3, FS_Injection
<1> QED
  BY <1>4, FS_CardinalityType, Constants

LEMMA PeakType ==
    ASSUME NEW m \in 0..MaxEvents, NEW n \in 0..MaxEvents
    PROVE  Max({m, n}) \in 0..MaxEvents
<1>1. \E x \in {m, n} : \A y \in {m, n} : x >= y
  BY Constants
<1>2. Max({m, n}) \in {m, n}
  BY <1>1 DEF Max
<1> QED
  BY <1>2

\* What Insert does to the events.
LEMMA Inserted ==
    ASSUME BInv, NEW os \in BOOLEAN, NEW r \in Nat, Insert(NewEvent(os, r))
    PROVE  /\ given + 1 \in 1..MaxEvents /\ given' = given + 1
           /\ events' = events \cup {NewEvent(os, r)}
           /\ NewEvent(os, r).seq = given + 1
           /\ events' \subseteq EventRows /\ peak' \in 0..MaxEvents
           /\ \A e, f \in events' : e.seq = f.seq => e = f
           /\ \A e \in events' : e.seq <= given'
<1> DEFINE new == NewEvent(os, r)
<1>1. given + 1 \in 1..MaxEvents /\ given' = given + 1 /\ events' = events \cup {new}
      /\ given \in Nat
  BY Numbers, Constants, SMTT(20) DEF Insert, BInv
<1>2. new \in EventRows /\ new.seq = given + 1
  <2>1. (r \in params) \in BOOLEAN
    OBVIOUS
  <2> QED
    BY <1>1, <2>1, Zenon DEF NewEvent, EventRows
<1> HIDE DEF new
<1>3. events \subseteq EventRows /\ \A e \in events : e.seq \in 1..MaxEvents
  BY TypeParts DEF BInv, EventRows
<1>4. \A e, f \in events' : e.seq = f.seq => e = f
  BY <1>1, <1>2, <1>3, Constants DEF BInv, SeqsOK
<1>5. \A e \in events' : e.seq <= given'
  BY <1>1, <1>2, <1>3, Constants DEF BInv, SeqsOK
<1>6. events' \subseteq EventRows
  BY <1>1, <1>2, <1>3
<1>7. peak' \in 0..MaxEvents
  <2>1. Cardinality(events') \in 0..MaxEvents
    BY <1>4, <1>6, EventsCounted
  <2> QED
    BY <2>1, PeakType, Numbers DEF Insert, BInv
<1> QED
  BY <1>1, <1>2, <1>4, <1>5, <1>6, <1>7 DEF new

LEMMA InitBInv == Init => BInv
<1> SUFFICES ASSUME Init PROVE BInv
  OBVIOUS
<1>1. Idle \in OpStates /\ Idle.pc = "idle"
  BY Constants DEF Idle, OpStates, Pcs, Writers
<1>2. op \in [Threads -> OpStates] /\ \A t \in Threads : op[t].pc = "idle"
  BY <1>1 DEF Init
<1>3. OwnerOK(owner)
  BY FS_EmptySet DEF Init, OwnerOK
<1>4. Rest1OK
  BY Constants DEF Init, Rest1OK
<1>5. TypeOK
  BY <1>2, <1>3, <1>4, TypeParts DEF Init
<1>6. MutexOK /\ SeqsOK
  BY <1>2 DEF Init, MutexOK, SeqsOK, Held
<1> QED
  BY <1>5, <1>6 DEF BInv

\* Steps of a thread that give no sequence.
LEMMA QuietSteps ==
    ASSUME BInv, NEW t \in Threads,
           \/ \E w \in Writers : WriteEvent(t, w)
           \/ CheckStorageSpace(t) \/ ClearLogSpace(t) \/ EndOfLogs(t)
           \/ DeleteHistoryEvent(t) \/ DeleteUnusedEventMapping(t) \/ DeleteUnusedParams(t)
           \/ Append(t) \/ NoObserver(t)
           \/ ClearData(t) \/ DeleteEvents(t) \/ DeleteCustomEventParams(t) \/ DeleteEventMapping(t)
           \/ ClearLogs(t)
    PROVE  BInv'
<1> USE DEF BInv
<1>0. /\ today \in 1..Days /\ logs \in [1..Days -> 0..MaxLog] /\ eventCount \in 0..Period
      /\ clears \in 0..MaxTroubles /\ faults \in 0..MaxTroubles
      /\ OwnerOK(owner) /\ MutexOK
  BY Numbers, TypeParts
<1>1. UNCHANGED owner => /\ OwnerOK(owner')
                         /\ \A u \in Threads \ {t} : \A w \in Writers : owner[w] = {u} => owner'[w] = {u}
                         /\ op[t].pc \in Held => owner'[op[t].by] = {t}
  BY <1>0 DEF MutexOK
<1>2. faults' = faults \/ Fault => faults' \in 0..MaxTroubles
  <2>1. Fault => faults' = faults + 1 /\ clears + faults + crashes < MaxTroubles
    BY DEF Fault, Trouble
  <2>2. /\ clears \in Nat /\ crashes \in Nat /\ MaxTroubles \in Nat
        /\ faults \in Nat /\ faults \in 0..MaxTroubles
    BY Numbers, Constants
  <2> QED
    BY <2>1, <2>2
<1>3. "native" \in Writers /\ "idle" \notin Held /\ "insert" \notin Held /\ "lock" \notin Held
  BY DEF Writers, Held
<1>4. ASSUME NEW w \in Writers, WriteEvent(t, w) PROVE BInv'
  <2>1. Tidies /\ UNCHANGED <<today, logs, eventCount, clears, faults, owner>>
    BY <1>4 DEF WriteEvent, Tidies, tableVars, settings, boundVars
  <2>2. Moved(t, "lock", w, 0, {}, 0)
    BY <1>4, WriteMoves
  <2> QED
    BY <1>0, <1>1, <1>3, <2>1, <2>2, TidyStep
<1>5. CASE CheckStorageSpace(t)
  <2>1. Tidies /\ UNCHANGED <<today, logs, clears, faults>>
    BY <1>5 DEF CheckStorageSpace, Tidies, tableVars, settings, boundVars
  <2>2. op[t].by \in Writers
    BY RecordOf
  <2>3. owner' = [owner EXCEPT ![op[t].by] = {t}] /\ owner[op[t].by] = {}
    BY <1>5, CheckMoves
  <2>4. OwnerOK(owner') /\ owner'[op[t].by] = {t}
    BY <1>0, <2>2, <2>3, OwnerTaken DEF OwnerOK
  <2>5. \A u \in Threads \ {t} : \A w \in Writers : owner[w] = {u} => owner'[w] = {u}
    BY <1>0, <2>2, <2>3 DEF OwnerOK
  <2>6. eventCount' \in 0..Period
    BY <1>0, <1>5, CheckMoves, CountedSteps
  <2>7. CASE Moved(t, "append", op[t].by, op[t].size, op[t].todo, op[t].seq)
    BY <1>0, <2>1, <2>4, <2>5, <2>6, <2>7, TidyStep
  <2>8. CASE Moved(t, "shrink", op[t].by, LogSize + peak, {d \in 1..Days : logs[d] > 0}, op[t].seq)
    BY <1>0, <2>1, <2>4, <2>5, <2>6, <2>8, TidyStep
  <2> QED
    BY <1>5, <2>7, <2>8, CheckMoves
<1>6. CASE ClearLogSpace(t)
  <2>1. Tidies /\ UNCHANGED <<today, eventCount, clears, owner>>
    BY <1>6 DEF ClearLogSpace, Tidies, tableVars, settings, boundVars
  <2>2. PICK d \in op[t].todo :
            /\ Moved(t, "shrink", op[t].by, op'[t].size, op[t].todo \ {d}, op[t].seq)
            /\ \/ logs' = [logs EXCEPT ![d] = 0] /\ faults' = faults
               \/ Fault /\ logs' = logs
    BY <1>6, ShrinkMoves
  <2>3. d \in 1..Days
    BY RecordOf
  <2>4. logs' \in [1..Days -> 0..MaxLog]
    BY <1>0, <2>2, <2>3, FileRemoved
  <2>5. faults' \in 0..MaxTroubles
    BY <1>2, <2>2
  <2>6. op[t].pc = "shrink"
    BY <1>6, ShrinkMoves
  <2> QED
    BY <1>0, <1>1, <2>1, <2>2, <2>4, <2>5, <2>6, TidyStep, ZenonT(40) DEF Held
<1>7. CASE EndOfLogs(t)
  <2>1. Tidies /\ UNCHANGED <<today, logs, eventCount, clears, faults, owner>>
    BY <1>7 DEF EndOfLogs, Tidies, tableVars, settings, boundVars
  <2>2. op[t].pc = "shrink" /\ (Goto(t, "append") \/ Goto(t, "age"))
    BY <1>7 DEF EndOfLogs, At
  <2>3. \/ Moved(t, "append", op[t].by, op[t].size, op[t].todo, op[t].seq)
        \/ Moved(t, "age", op[t].by, op[t].size, op[t].todo, op[t].seq)
    BY <2>2, Going DEF Pcs
  <2> QED
    BY <1>0, <1>1, <2>1, <2>2, <2>3, TidyStep DEF Held
<1>8. CASE DeleteHistoryEvent(t)
  <2>1. events' \subseteq events
    BY <1>8 DEF DeleteHistoryEvent, Newest, Of
  <2>2. Tidies /\ UNCHANGED <<today, logs, eventCount, clears, owner>>
    BY <1>8, <2>1 DEF DeleteHistoryEvent, Tidies, settings
  <2>3. op[t].pc = "age" /\ (Goto(t, "append") \/ Goto(t, "agemap")) /\ faults' \in 0..MaxTroubles
    BY <1>2, <1>8 DEF DeleteHistoryEvent, At
  <2>4. \/ Moved(t, "append", op[t].by, op[t].size, op[t].todo, op[t].seq)
        \/ Moved(t, "agemap", op[t].by, op[t].size, op[t].todo, op[t].seq)
    BY <2>3, Going DEF Pcs
  <2> QED
    BY <1>0, <1>1, <2>2, <2>3, <2>4, TidyStep DEF Held
<1>9. CASE DeleteUnusedEventMapping(t)
  <2>1. Tidies /\ UNCHANGED <<today, logs, eventCount, clears, owner>>
    BY <1>9 DEF DeleteUnusedEventMapping, UsedMapping, Tidies, settings
  <2>2. op[t].pc = "agemap" /\ (Goto(t, "append") \/ Goto(t, "ageparams")) /\ faults' \in 0..MaxTroubles
    BY <1>2, <1>9 DEF DeleteUnusedEventMapping, At
  <2>3. \/ Moved(t, "append", op[t].by, op[t].size, op[t].todo, op[t].seq)
        \/ Moved(t, "ageparams", op[t].by, op[t].size, op[t].todo, op[t].seq)
    BY <2>2, Going DEF Pcs
  <2> QED
    BY <1>0, <1>1, <2>1, <2>2, <2>3, TidyStep DEF Held
<1>10. CASE DeleteUnusedParams(t)
  <2>1. Tidies /\ UNCHANGED <<today, logs, eventCount, clears, faults, owner>>
    BY <1>10 DEF DeleteUnusedParams, UnusedRuns, Tidies, settings, boundVars
  <2>2. op[t].pc = "ageparams" /\ Goto(t, "append")
    BY <1>10 DEF DeleteUnusedParams, At
  <2>3. Moved(t, "append", op[t].by, op[t].size, op[t].todo, op[t].seq)
    BY <2>2, Going DEF Pcs
  <2> QED
    BY <1>0, <1>1, <2>1, <2>2, <2>3, TidyStep DEF Held
<1>11. CASE Append(t)
  <2>1. Tidies /\ UNCHANGED <<today, eventCount, clears>>
    BY <1>11 DEF Append, Tidies, tableVars, settings
  <2>2. CASE /\ LogSize < MaxLog /\ logs' = [logs EXCEPT ![today] = @ + 1] /\ faults' = faults
             /\ Goto(t, "insert") /\ (Unlock(t) \/ UNCHANGED owner)
    <3>1. logs' \in [1..Days -> 0..MaxLog]
      BY <1>0, <2>2, LineAdded
    <3>2. Moved(t, "insert", op[t].by, op[t].size, op[t].todo, op[t].seq)
      BY <2>2, Going DEF Pcs
    <3>3. /\ OwnerOK(owner')
          /\ \A u \in Threads \ {t} : \A w \in Writers : owner[w] = {u} => owner'[w] = {u}
      BY <1>0, <1>1, <2>2, OwnerLeft
    <3> QED
      BY <1>0, <1>2, <1>3, <2>1, <2>2, <3>1, <3>2, <3>3, TidyStep
  <2>3. CASE Fault /\ Return(t) /\ Unlock(t) /\ UNCHANGED logs
    <3>1. Moved(t, "idle", "native", 0, {}, 0)
      BY <2>3, Returning
    <3>2. /\ OwnerOK(owner')
          /\ \A u \in Threads \ {t} : \A w \in Writers : owner[w] = {u} => owner'[w] = {u}
      BY <1>0, <2>3, OwnerLeft
    <3> QED
      BY <1>0, <1>2, <1>3, <2>1, <2>3, <3>1, <3>2, TidyStep
  <2> QED
    BY <1>11, <2>2, <2>3 DEF Append
<1>12. CASE NoObserver(t)
  <2>1. Tidies /\ UNCHANGED <<today, logs, eventCount, clears, faults>> /\ Return(t) /\ Unlock(t)
    BY <1>12 DEF NoObserver, Tidies, tableVars, settings, boundVars
  <2>2. Moved(t, "idle", "native", 0, {}, 0)
    BY <2>1, Returning
  <2>3. /\ OwnerOK(owner')
        /\ \A u \in Threads \ {t} : \A w \in Writers : owner[w] = {u} => owner'[w] = {u}
    BY <1>0, <2>1, OwnerLeft
  <2> QED
    BY <1>0, <1>3, <2>1, <2>2, <2>3, TidyStep
<1>13. CASE ClearData(t)
  <2>1. Tidies /\ UNCHANGED <<today, logs, eventCount, faults, owner>> /\ Goto(t, "events")
    BY <1>13 DEF ClearData, Tidies, tableVars, settings
  <2>2. clears' \in 0..MaxTroubles
    <3>1. clears' = clears + 1 /\ clears + faults + crashes < MaxTroubles
      BY <1>13 DEF ClearData, Trouble
    <3>2. clears \in Nat /\ faults \in Nat /\ crashes \in Nat /\ MaxTroubles \in Nat
      BY Numbers, Constants
    <3> QED
      BY <3>1, <3>2
  <2>3. Moved(t, "events", op[t].by, op[t].size, op[t].todo, op[t].seq)
    BY <2>1, Going DEF Pcs
  <2> QED
    BY <1>0, <1>1, <2>1, <2>2, <2>3, TidyStep DEF Held
<1>14. ASSUME NEW pc \in {"params", "mapping", "logs"}, Goto(t, pc), Tidies,
              UNCHANGED <<today, logs, eventCount, owner, clears>>, faults' = faults \/ Fault
       PROVE  BInv'
  <2>1. Moved(t, pc, op[t].by, op[t].size, op[t].todo, op[t].seq)
    BY <1>14, Going DEF Pcs
  <2> QED
    BY <1>0, <1>1, <1>2, <1>14, <2>1, TidyStep DEF Held
<1>15. CASE DeleteEvents(t)
  BY <1>14, <1>15 DEF DeleteEvents, ClearTable, Tidies, settings
<1>16. CASE DeleteCustomEventParams(t)
  BY <1>14, <1>16 DEF DeleteCustomEventParams, ClearTable, Tidies, settings
<1>17. CASE DeleteEventMapping(t)
  BY <1>14, <1>17 DEF DeleteEventMapping, ClearTable, Tidies, settings
<1>18. CASE ClearLogs(t)
  <2>1. Tidies /\ UNCHANGED <<today, eventCount, clears, faults, owner>> /\ Return(t)
    BY <1>18 DEF ClearLogs, Tidies, tableVars, settings, boundVars
  <2>2. logs' \in [1..Days -> 0..MaxLog]
    BY <1>18, FilesRemoved DEF ClearLogs
  <2>3. Moved(t, "idle", "native", 0, {}, 0)
    BY <2>1, Returning
  <2> QED
    BY <1>0, <1>1, <1>3, <2>1, <2>2, <2>3, TidyStep
<1> QED
  BY <1>4, <1>5, <1>6, <1>7, <1>8, <1>9, <1>10, <1>11, <1>12, <1>13, <1>15, <1>16, <1>17, <1>18

\* Storing an event, and the steps of no thread.
LEMMA OtherSteps ==
    ASSUME BInv,
           \/ \E t \in Threads : StoreEventsToDb(t) \/ StoreEventMappingToDb(t)
           \/ \E r \in 0..MaxTroubles : HandleOsEvent(r)
           \/ SetEventParam \/ NextDay \/ Crash
    PROVE  BInv'
<1> USE DEF BInv
<1>0. /\ Rest1OK /\ events \subseteq EventRows /\ OwnerOK(owner) /\ op \in [Threads -> OpStates]
      /\ MutexOK /\ SeqsOK
  BY TypeParts
<1>1. ASSUME NEW t \in Threads, StoreEventsToDb(t) PROVE BInv'
  <2>1. Moved(t, "map", op[t].by, op[t].size, op[t].todo, given + 1)
    BY <1>1, StoreMoves
  <2>2. Insert(NewEvent(FALSE, run)) /\ run \in Nat
    BY <1>1, Numbers DEF StoreEventsToDb
  <2>3. /\ given + 1 \in 1..MaxEvents /\ given' = given + 1
        /\ events' \subseteq EventRows /\ peak' \in 0..MaxEvents
        /\ \A e, f \in events' : e.seq = f.seq => e = f
        /\ \A e \in events' : e.seq <= given'
    BY <2>2, Inserted
  <2>4. UNCHANGED <<today, logs, mapping, params, run, eventCount, settings, owner, boundVars>>
    BY <1>1 DEF StoreEventsToDb
  <2>5. Rest1OK'
    <3>1. given' \in 0..MaxEvents
      BY <2>3
    <3> QED
      BY <1>0, <2>3, <2>4, <3>1 DEF Rest1OK, settings, boundVars
  <2>6. TypeOK'
    <3>1. op' \in [Threads -> OpStates] /\ OwnerOK(owner')
      BY <1>0, <2>1, <2>4 DEF Moved
    <3> QED
      BY <2>3, <2>5, <3>1 DEF TypeOK, Rest1OK, EventRows, OwnerOK, OpStates, Pcs
  <2>7. MutexOK'
    BY <1>0, <2>1, <2>4 DEF Moved, MutexOK, Held
  <2>8. SeqsOK'
    <3>1. \A u \in Threads : op'[u].pc = "map" => op'[u].seq \in 1..given'
      <4> SUFFICES ASSUME NEW u \in Threads, op'[u].pc = "map" PROVE op'[u].seq \in 1..given'
        OBVIOUS
      <4>1. CASE u = t
        BY <2>1, <2>3, <4>1 DEF Moved
      <4>2. CASE u # t
        <5>1. op[u].seq \in 1..given /\ op'[u] = op[u]
          BY <1>0, <2>1, <4>2 DEF Moved, SeqsOK
        <5>2. given \in Nat
          BY Numbers, Constants
        <5> QED
          BY <2>3, <5>1, <5>2
      <4> QED
        BY <4>1, <4>2
    <3> QED
      BY <2>3, <3>1 DEF SeqsOK
  <2> QED
    BY <2>6, <2>7, <2>8
<1>2. ASSUME NEW t \in Threads, StoreEventMappingToDb(t) PROVE BInv'
  <2>1. /\ Return(t) /\ Unlock(t) /\ op[t].pc = "map"
        /\ \/ mapping' = mapping \cup {op[t].seq} /\ UNCHANGED faults
           \/ Fault /\ UNCHANGED mapping
        /\ UNCHANGED <<today, logs, events, params, peak, given, run, eventCount, settings, clears,
                       crashes>>
    BY <1>2 DEF StoreEventMappingToDb, At
  <2>2. Moved(t, "idle", "native", 0, {}, 0)
    BY <2>1, Returning
  <2>3. /\ OwnerOK(owner')
        /\ \A u \in Threads \ {t} : \A w \in Writers : owner[w] = {u} => owner'[w] = {u}
    BY <1>0, <2>1, OwnerLeft
  <2>4. mapping' \subseteq 1..MaxEvents
    <3>1. op[t].seq \in 1..given
      BY <1>0, <2>1 DEF SeqsOK
    <3>2. given \in 0..MaxEvents /\ MaxEvents \in Nat
      BY Numbers, Constants
    <3>3. op[t].seq \in 1..MaxEvents
      BY <3>1, <3>2
    <3> QED
      BY <1>0, <2>1, <3>3 DEF Rest1OK
  <2>5. faults' \in 0..MaxTroubles
    <3>1. faults' = faults \/ (clears + faults + crashes < MaxTroubles /\ faults' = faults + 1)
      BY <2>1 DEF Fault, Trouble
    <3> QED
      BY <3>1, Numbers, Constants, SMTT(20)
  <2>6. Rest1OK'
    BY <1>0, <2>1, <2>4, <2>5 DEF Rest1OK, settings
  <2>7. TypeOK'
    <3>1. op' \in [Threads -> OpStates] /\ events' \subseteq EventRows
      BY <1>0, <2>1, <2>2 DEF Moved
    <3> QED
      BY <2>3, <2>6, <3>1 DEF TypeOK, Rest1OK, EventRows, OwnerOK, OpStates, Pcs
  <2>8. MutexOK'
    <3> SUFFICES ASSUME NEW u \in Threads, op'[u].pc \in Held PROVE owner'[op'[u].by] = {u}
      BY DEF MutexOK
    <3>1. u # t
      BY <2>2 DEF Moved, Held
    <3>2. op'[u] = op[u] /\ owner[op[u].by] = {u} /\ op[u].by \in Writers
      BY <1>0, <2>2, <3>1, RecordOf DEF Moved, MutexOK
    <3> QED
      BY <2>3, <3>1, <3>2
  <2>9. SeqsOK'
    BY <1>0, <2>1, <2>2 DEF Moved, SeqsOK
  <2> QED
    BY <2>7, <2>8, <2>9
<1>3. ASSUME NEW r \in 0..MaxTroubles, HandleOsEvent(r) PROVE BInv'
  <2>0. r \in Nat
    BY Constants
  <2>1. Insert(NewEvent(TRUE, r)) /\ mapping' = mapping \cup {given + 1}
    BY <1>3 DEF HandleOsEvent
  <2>2. /\ given + 1 \in 1..MaxEvents /\ given' = given + 1
        /\ events' \subseteq EventRows /\ peak' \in 0..MaxEvents
        /\ \A e, f \in events' : e.seq = f.seq => e = f
        /\ \A e \in events' : e.seq <= given'
    BY <2>0, <2>1, Inserted
  <2>3. UNCHANGED <<today, logs, params, run, eventCount, settings, owner, op, boundVars>>
    BY <1>3 DEF HandleOsEvent
  <2>4. Rest1OK'
    <3>1. given' \in 0..MaxEvents
      BY <2>2
    <3> QED
      BY <1>0, <2>1, <2>2, <2>3, <3>1 DEF Rest1OK, settings, boundVars
  <2>5. TypeOK'
    BY <1>0, <2>2, <2>3, <2>4 DEF TypeOK, Rest1OK, EventRows, OwnerOK, OpStates, Pcs
  <2>6. MutexOK'
    BY <1>0, <2>3 DEF MutexOK
  <2>7. SeqsOK'
    <3>1. \A u \in Threads : op'[u].pc = "map" => op'[u].seq \in 1..given'
      BY <1>0, <2>2, <2>3, Numbers DEF SeqsOK
    <3> QED
      BY <2>2, <3>1 DEF SeqsOK
  <2> QED
    BY <2>5, <2>6, <2>7
<1>4. CASE SetEventParam
  <2>1. /\ params' = params \cup {run}
        /\ UNCHANGED <<today, logs, events, mapping, peak, given, run, eventCount, settings, owner, op,
                       boundVars>>
    BY <1>4 DEF SetEventParam
  <2>2. Rest1OK'
    BY <1>0, <2>1 DEF Rest1OK, settings, boundVars
  <2>3. TypeOK'
    BY <1>0, <2>1, <2>2 DEF TypeOK, Rest1OK, EventRows, OwnerOK, OpStates, Pcs
  <2> QED
    BY <1>0, <2>1, <2>3 DEF MutexOK, SeqsOK
<1>5. CASE NextDay
  <2>1. /\ today < Days /\ today' = today + 1
        /\ UNCHANGED <<logs, events, mapping, params, peak, given, run, eventCount, settings, owner, op,
                       boundVars>>
    BY <1>5 DEF NextDay, tableVars
  <2>2. today' \in 1..Days
    <3>1. today \in 1..Days /\ Days \in Nat /\ today < Days /\ today' = today + 1
      BY <2>1, Numbers, Constants
    <3> QED
      BY <3>1
  <2>3. Rest1OK'
    BY <1>0, <2>1, <2>2 DEF Rest1OK, settings, boundVars
  <2>4. TypeOK'
    BY <1>0, <2>1, <2>3 DEF TypeOK, Rest1OK, EventRows, OwnerOK, OpStates, Pcs
  <2> QED
    BY <1>0, <2>1, <2>4 DEF MutexOK, SeqsOK
<1>6. CASE Crash
  <2>1. /\ Trouble /\ crashes' = crashes + 1 /\ run' = run + 1 /\ eventCount' = Period
        /\ owner' = [w \in Writers |-> {}] /\ op' = [t \in Threads |-> Idle]
        /\ UNCHANGED <<today, logs, events, mapping, params, peak, given, settings, clears, faults>>
    BY <1>6 DEF Crash, tableVars
  <2>2. crashes' \in 0..MaxTroubles /\ run' = crashes'
    BY <1>0, <2>1, Numbers, Constants DEF Trouble, Rest1OK
  <2>3. Rest1OK'
    BY <1>0, <2>1, <2>2, Constants DEF Rest1OK, settings
  <2>4. Idle \in OpStates /\ Idle.pc = "idle"
    BY Constants DEF Idle, OpStates, Pcs, Writers
  <2>5. op' \in [Threads -> OpStates] /\ \A t \in Threads : op'[t].pc = "idle"
    BY <2>1, <2>4
  <2>6. OwnerOK(owner')
    BY <2>1, FS_EmptySet DEF OwnerOK
  <2>7. TypeOK'
    BY <1>0, <2>1, <2>3, <2>5, <2>6 DEF TypeOK, Rest1OK, EventRows, OwnerOK, OpStates, Pcs
  <2> QED
    BY <1>0, <2>1, <2>5, <2>7 DEF MutexOK, SeqsOK, Held
<1> QED
  BY <1>1, <1>2, <1>3, <1>4, <1>5, <1>6

LEMMA NextBInv == BInv /\ [Next]_vars => BInv'
<1> SUFFICES ASSUME BInv, [Next]_vars PROVE BInv'
  OBVIOUS
<1>1. CASE UNCHANGED vars
  <2>1. UNCHANGED <<today, logs, events, mapping, params, peak, given, run, eventCount, quota, watched,
                    owner, op, clears, faults, crashes>>
    BY <1>1 DEF vars, tableVars, settings, boundVars
  <2>2. TypeOK'
    BY <2>1 DEF BInv, TypeOK
  <2> QED
    BY <2>1, <2>2 DEF BInv, MutexOK, SeqsOK
<1>2. CASE Next
  BY <1>2, QuietSteps, OtherSteps DEF Next, Step
<1> QED
  BY <1>1, <1>2

--------------------------------------------------------------------------------
(* The quota.                                                                       *)

Shrinks(t, w) == op[t].by = w /\ op[t].pc = "shrink"
\* What a writer is about to append it has room for, as it believes.
Late(t, w) == op[t].by = w /\ op[t].pc \in Held \ {"shrink"}
Coming(w) == IF \E t \in Threads : Late(t, w) THEN 1 ELSE 0
Several == IF Cardinality(Threads) > 1 THEN 1 ELSE 0
Other(w) == IF w = "cj" THEN "native" ELSE "cj"

\* How many events the native writer may have appended, or be about to, since its last cleaning.
Owed ==
    IF eventCount >= Period - 1 \/ \E t \in Threads : Shrinks(t, "native")
    THEN Period ELSE eventCount + 1

\* How many the other writer may append after w has measured.
Extra(w) == IF w = "native" \/ Several = 0 THEN Several ELSE Owed
Cap(t) == IF op[t].size > quota THEN op[t].size ELSE quota
Rest(t) == Cardinality(Outside(Lines, op[t].todo))

\* The files and what is about to be appended.
FilesOK == LogSize + Coming("native") + Coming("cj") <= quota + Owed + Several

\* Who cleans knows the size, but for what the other appended since: both of all files and of
\* those that it does not remove.
CleanerOK ==
    \A t \in Threads, w \in Writers : Shrinks(t, w) =>
        /\ LogSize + Coming(Other(w)) <= Cap(t) + Extra(w)
        /\ Rest(t) + Coming(Other(w)) <= quota + Extra(w)

\* Of two that clean the one that measured last knows the size.
CleanersOK ==
    \A t, u \in Threads : Shrinks(t, "cj") /\ Shrinks(u, "native") =>
        \/ LogSize <= Cap(t) /\ Rest(t) = 0
        \/ LogSize <= Cap(u) /\ Rest(u) = 0

QInv == faults = 0 => FilesOK /\ CleanerOK /\ CleanersOK

QTypes ==
    /\ LogSize \in Nat /\ quota \in Nat /\ faults \in Nat /\ Period \in Nat
    /\ \A w \in Writers : Coming(w) \in {0, 1}
    /\ Several \in {0, 1} /\ Owed \in Nat /\ Owed >= 1 /\ Owed <= Period
    /\ \A w \in Writers : Extra(w) \in Nat
    /\ \A t \in Threads :
        /\ op[t].size \in Nat
        /\ Cap(t) \in Nat /\ Cap(t) >= quota
        /\ Rest(t) \in Nat /\ Rest(t) <= LogSize

LEMMA QNumbers == TypeOK => QTypes
<1> SUFFICES ASSUME TypeOK PROVE QTypes
  OBVIOUS
<1>1. LogSize \in Nat /\ quota \in Nat /\ faults \in Nat /\ Period \in Nat /\ Period >= 1
      /\ eventCount \in 0..Period
  BY Numbers, Constants
<1>2. \A w \in Writers : Coming(w) \in {0, 1}
  BY DEF Coming
<1>3. Several \in {0, 1}
  BY DEF Several
<1>4. Owed \in Nat /\ Owed >= 1 /\ Owed <= Period
  BY <1>1 DEF Owed
<1>5. \A w \in Writers : Extra(w) \in Nat
  BY <1>3, <1>4 DEF Extra
<1>6. ASSUME NEW t \in Threads
      PROVE  /\ op[t].size \in Nat
             /\ Cap(t) \in Nat /\ Cap(t) >= quota
             /\ Rest(t) \in Nat /\ Rest(t) <= LogSize
  <2>1. op[t].size \in Nat
    BY RecordOf
  <2>2. Rest(t) \in 0..LogSize
    BY LinesFinite DEF Rest
  <2> QED
    BY <1>1, <2>1, <2>2 DEF Cap
<1> QED
  BY <1>1, <1>2, <1>3, <1>4, <1>5, <1>6 DEF QTypes

LEMMA QNumbersNext == TypeOK' => QTypes'
BY QNumbers, PTL

\* Two threads are several.
LEMMA TwoAreSeveral ==
    ASSUME NEW t \in Threads, NEW u \in Threads, t # u
    PROVE  Several = 1
<1>1. IsFiniteSet({t}) /\ Cardinality({t}) = 1
  BY FS_Singleton
<1>2. IsFiniteSet({t} \cup {u}) /\ Cardinality({t} \cup {u}) = 2
  BY <1>1, FS_AddElement
<1>3. ({t} \cup {u}) \in SUBSET Threads
  OBVIOUS
<1>4. Cardinality({t} \cup {u}) <= Cardinality(Threads)
  BY <1>3, FS_Subset, StorageAssumption
<1>5. Cardinality(Threads) \in Nat
  BY FS_CardinalityType, StorageAssumption
<1> QED
  BY <1>2, <1>4, <1>5 DEF Several

\* One thread at most measures, cleans and appends for a writer.
LEMMA OneWrites ==
    ASSUME MutexOK, NEW t \in Threads, NEW u \in Threads,
           op[t].pc \in Held, op[u].pc \in Held, op[t].by = op[u].by
    PROVE  t = u
<1>1. {t} = {u}
  BY DEF MutexOK
<1> QED
  BY <1>1

\* A thread keeps its role.
SameRole(u) ==
    /\ \A w \in Writers : (Shrinks(u, w)' <=> Shrinks(u, w)) /\ (Late(u, w)' <=> Late(u, w))
    /\ op[u].pc = "shrink" => op'[u].size = op[u].size /\ op'[u].todo = op[u].todo

FilesShrink ==
    /\ LogSize' <= LogSize
    /\ \A D : Cardinality(Outside(Lines', D)) <= Cardinality(Outside(Lines, D))

LEMMA RolesStay ==
    ASSUME \A u \in Threads : SameRole(u), UNCHANGED <<eventCount, quota>>
    PROVE  /\ \A w \in Writers : Coming(w)' = Coming(w)
           /\ Owed' = Owed /\ \A w \in Writers : Extra(w)' = Extra(w)
           /\ \A u \in Threads : op[u].pc = "shrink" => Cap(u)' = Cap(u)
<1>1. \A w \in Writers : Coming(w)' = Coming(w)
  BY DEF Coming, SameRole
<1>2. Owed' = Owed
  BY DEF Owed, SameRole, Writers
<1>3. \A w \in Writers : Extra(w)' = Extra(w)
  BY <1>2 DEF Extra
<1> QED
  BY <1>1, <1>2, <1>3 DEF Cap, SameRole

LEMMA KeepsQuota ==
    ASSUME TypeOK, TypeOK', QInv, \A u \in Threads : SameRole(u), FilesShrink,
           UNCHANGED <<eventCount, quota>>, faults' = faults \/ Fault
    PROVE  QInv'
<1> SUFFICES ASSUME faults' = 0 PROVE (FilesOK /\ CleanerOK /\ CleanersOK)'
  BY DEF QInv
<1>1. QTypes /\ QTypes'
  BY QNumbers, QNumbersNext
<1>2. faults = 0 /\ FilesOK /\ CleanerOK /\ CleanersOK
  <2>1. faults = 0
    BY <1>1 DEF Fault, QTypes
  <2> QED
    BY <2>1 DEF QInv
<1>3. /\ \A w \in Writers : Coming(w)' = Coming(w)
      /\ Owed' = Owed /\ \A w \in Writers : Extra(w)' = Extra(w)
      /\ \A u \in Threads : op[u].pc = "shrink" => Cap(u)' = Cap(u)
  BY RolesStay
<1>4. \A u \in Threads : op[u].pc = "shrink" => Rest(u)' <= Rest(u)
  BY DEF Rest, FilesShrink, SameRole
<1>5. "native" \in Writers /\ "cj" \in Writers /\ \A w \in Writers : Other(w) \in Writers
  BY DEF Writers, Other
<1>6. LogSize' <= LogSize
  BY DEF FilesShrink
<1>7. FilesOK'
  <2>1. LogSize + Coming("native") + Coming("cj") <= quota + Owed + Several
    BY <1>2 DEF FilesOK
  <2>2. LogSize' + Coming("native")' + Coming("cj")' <= quota' + Owed' + Several
    BY <1>1, <1>3, <1>5, <1>6, <2>1 DEF QTypes
  <2> QED
    BY <2>2 DEF FilesOK
<1>8. CleanerOK'
  <2> SUFFICES ASSUME NEW u \in Threads, NEW w \in Writers, Shrinks(u, w)'
               PROVE  /\ LogSize' + Coming(Other(w))' <= Cap(u)' + Extra(w)'
                      /\ Rest(u)' + Coming(Other(w))' <= quota' + Extra(w)'
    BY DEF CleanerOK
  <2>1. Shrinks(u, w) /\ op[u].pc = "shrink"
    BY DEF SameRole, Shrinks
  <2>2. /\ LogSize + Coming(Other(w)) <= Cap(u) + Extra(w)
        /\ Rest(u) + Coming(Other(w)) <= quota + Extra(w)
    BY <1>2, <2>1 DEF CleanerOK
  <2> QED
    BY <1>1, <1>3, <1>4, <1>5, <1>6, <2>1, <2>2 DEF QTypes
<1>9. CleanersOK'
  <2> SUFFICES ASSUME NEW t \in Threads, NEW u \in Threads, Shrinks(t, "cj")', Shrinks(u, "native")'
               PROVE  \/ LogSize' <= Cap(t)' /\ Rest(t)' = 0
                      \/ LogSize' <= Cap(u)' /\ Rest(u)' = 0
    BY DEF CleanersOK
  <2>1. /\ Shrinks(t, "cj") /\ op[t].pc = "shrink"
        /\ Shrinks(u, "native") /\ op[u].pc = "shrink"
    BY <1>5 DEF SameRole, Shrinks
  <2>2. \/ LogSize <= Cap(t) /\ Rest(t) = 0
        \/ LogSize <= Cap(u) /\ Rest(u) = 0
    BY <1>2, <2>1 DEF CleanersOK
  <2> QED
    BY <1>1, <1>3, <1>4, <1>6, <2>1, <2>2 DEF QTypes
<1> QED
  BY <1>7, <1>8, <1>9

\* What the steps change of the roles: those of t only.
LEMMA RolesOf ==
    ASSUME NEW t \in Threads, NEW pc, NEW by, NEW size, NEW todo, NEW seq,
           Moved(t, pc, by, size, todo, seq), quota' = quota
    PROVE  /\ \A w \in Writers : /\ Shrinks(t, w)' <=> by = w /\ pc = "shrink"
                                 /\ Late(t, w)' <=> by = w /\ pc \in Held \ {"shrink"}
           /\ Cap(t)' = IF size > quota THEN size ELSE quota
           /\ Rest(t)' = Cardinality(Outside(Lines', todo))
           /\ \A u \in Threads \ {t} :
               /\ SameRole(u)
               /\ Cap(u)' = Cap(u) /\ Rest(u)' = Cardinality(Outside(Lines', op[u].todo))
BY DEF Moved, SameRole, Shrinks, Late, Cap, Rest

\* What follows for the counts of a writer whose roles t does not touch.
LEMMA OtherWriter ==
    ASSUME NEW t \in Threads, \A u \in Threads \ {t} : SameRole(u), NEW v \in Writers,
           ~Late(t, v), ~Late(t, v)'
    PROVE  Coming(v)' = Coming(v)
BY DEF Coming, SameRole

LEMMA OwedStays ==
    ASSUME NEW t \in Threads, \A u \in Threads \ {t} : SameRole(u),
           Shrinks(t, "native")' <=> Shrinks(t, "native"), eventCount' = eventCount
    PROVE  Owed' = Owed /\ \A w \in Writers : Extra(w)' = Extra(w)
<1>1. Owed' = Owed
  BY DEF Owed, SameRole, Writers
<1> QED
  BY <1>1 DEF Extra

\* Room for one event, where there are several threads.
LEMMA ExtraIsEnough ==
    ASSUME QTypes
    PROVE  \A w \in Writers : Extra(w) >= Several
BY DEF QTypes, Extra

LEMMA ClearingKeepsQuota ==
    ASSUME BInv, BInv', QInv, NEW t \in Threads, ClearLogSpace(t)
    PROVE  QInv'
<1> SUFFICES ASSUME faults' = 0 PROVE (FilesOK /\ CleanerOK /\ CleanersOK)'
  BY DEF QInv
<1>1. QTypes /\ QTypes' /\ TypeOK
  BY QNumbers, QNumbersNext DEF BInv
<1>2. /\ op[t].pc = "shrink" /\ op[t].size > quota
      /\ \E d \in op[t].todo :
               /\ Moved(t, "shrink", op[t].by, op'[t].size, op[t].todo \ {d}, op[t].seq)
               /\ \/ /\ logs' = [logs EXCEPT ![d] = 0]
                     /\ op'[t].size = IF op[t].size > logs[d] THEN op[t].size - logs[d] ELSE 0
                     /\ faults' = faults
                  \/ Fault /\ logs' = logs
  BY <1>1, ShrinkMoves
<1>3. ~Fault
  BY <1>1 DEF Fault, QTypes
<1>4. PICK d \in op[t].todo :
               /\ Moved(t, "shrink", op[t].by, op'[t].size, op[t].todo \ {d}, op[t].seq)
               /\ logs' = [logs EXCEPT ![d] = 0]
               /\ op'[t].size = IF op[t].size > logs[d] THEN op[t].size - logs[d] ELSE 0
               /\ faults' = faults
  BY <1>2, <1>3
<1>5. quota' = quota /\ eventCount' = eventCount
  BY DEF ClearLogSpace, settings
<1>6. op[t].by \in Writers /\ d \in 1..Days /\ logs \in [1..Days -> 0..MaxLog] /\ op[t].size \in Nat
  BY <1>1, RecordOf, Numbers
<1>7. /\ LogSize' = LogSize - logs[d] /\ logs[d] \in 0..LogSize
      /\ \A D : /\ Cardinality(Outside(Lines', D)) <= Cardinality(Outside(Lines, D))
                /\ d \in D => Cardinality(Outside(Lines', D \ {d})) = Cardinality(Outside(Lines, D))
  BY <1>4, <1>6, FileRemoved
<1>8. /\ \A w \in Writers : (Shrinks(t, w)' <=> Shrinks(t, w)) /\ ~Late(t, w) /\ ~Late(t, w)'
      /\ \A u \in Threads \ {t} : SameRole(u) /\ Cap(u)' = Cap(u) /\ Rest(u)' <= Rest(u)
      /\ Rest(t)' = Rest(t)
      /\ Cap(t)' = IF op'[t].size > quota THEN op'[t].size ELSE quota
  <2>1. /\ \A w \in Writers : /\ Shrinks(t, w)' <=> op[t].by = w
                              /\ ~Late(t, w)'
        /\ Cap(t)' = IF op'[t].size > quota THEN op'[t].size ELSE quota
        /\ Rest(t)' = Cardinality(Outside(Lines', op[t].todo \ {d}))
        /\ \A u \in Threads \ {t} :
               /\ SameRole(u)
               /\ Cap(u)' = Cap(u) /\ Rest(u)' = Cardinality(Outside(Lines', op[u].todo))
    BY <1>4, <1>5, RolesOf
  <2> QED
    BY <1>2, <1>4, <1>7, <2>1 DEF Rest, Shrinks, Late
<1>9. /\ \A w \in Writers : Coming(w)' = Coming(w)
      /\ Owed' = Owed /\ \A w \in Writers : Extra(w)' = Extra(w)
  BY <1>5, <1>8, OtherWriter, OwedStays DEF Writers
<1>10. FilesOK /\ CleanerOK /\ CleanersOK
  BY <1>4 DEF QInv
<1>11. Cap(t) = op[t].size /\ Cap(t)' >= Cap(t) - logs[d] /\ logs[d] \in Nat /\ LogSize' <= LogSize
  <2>1. Cap(t) = op[t].size
    BY <1>2, <1>6 DEF Cap
  <2>2. LogSize \in Nat /\ quota \in Nat
    BY <1>1 DEF QTypes
  <2> QED
    BY <1>2, <1>4, <1>6, <1>7, <1>8, <2>1, <2>2
<1>12. "native" \in Writers /\ "cj" \in Writers /\ \A w \in Writers : Other(w) \in Writers
  BY DEF Writers, Other
<1>13. FilesOK'
  <2>1. LogSize + Coming("native") + Coming("cj") <= quota + Owed + Several
    BY <1>10 DEF FilesOK
  <2>2. LogSize' + Coming("native")' + Coming("cj")' <= quota' + Owed' + Several
    BY <1>1, <1>5, <1>9, <1>11, <1>12, <2>1 DEF QTypes
  <2> QED
    BY <2>2 DEF FilesOK
<1>14. CleanerOK'
  <2> SUFFICES ASSUME NEW u \in Threads, NEW w \in Writers, Shrinks(u, w)'
               PROVE  /\ LogSize' + Coming(Other(w))' <= Cap(u)' + Extra(w)'
                      /\ Rest(u)' + Coming(Other(w))' <= quota' + Extra(w)'
    BY DEF CleanerOK
  <2>1. Shrinks(u, w)
    BY <1>8 DEF SameRole
  <2>2. /\ LogSize + Coming(Other(w)) <= Cap(u) + Extra(w)
        /\ Rest(u) + Coming(Other(w)) <= quota + Extra(w)
    BY <1>10, <2>1 DEF CleanerOK
  <2>3. Rest(u)' <= Rest(u)
    BY <1>1, <1>8 DEF QTypes
  <2>4. /\ LogSize \in Nat /\ LogSize' \in Nat /\ Cap(u) \in Nat /\ Cap(u)' \in Nat /\ Extra(w) \in Nat
        /\ Rest(u) \in Nat /\ Rest(u)' \in Nat /\ quota \in Nat
        /\ Coming(Other(w)) \in Nat /\ Coming(Other(w))' = Coming(Other(w)) /\ Extra(w)' = Extra(w)
    BY <1>1, <1>9, <1>12 DEF QTypes
  <2>5. LogSize' + Coming(Other(w)) <= Cap(u)' + Extra(w)
    <3>1. CASE u = t
      BY <1>7, <1>11, <2>2, <2>4, <3>1
    <3>2. CASE u # t
      BY <1>8, <1>11, <2>2, <2>4, <3>2
    <3> QED
      BY <3>1, <3>2
  <2>6. Rest(u)' + Coming(Other(w)) <= quota + Extra(w)
    BY <2>2, <2>3, <2>4
  <2> QED
    BY <1>5, <2>4, <2>5, <2>6
<1>15. CleanersOK'
  <2> SUFFICES ASSUME NEW u \in Threads, NEW v \in Threads, Shrinks(u, "cj")', Shrinks(v, "native")'
               PROVE  \/ LogSize' <= Cap(u)' /\ Rest(u)' = 0
                      \/ LogSize' <= Cap(v)' /\ Rest(v)' = 0
    BY DEF CleanersOK
  <2>1. Shrinks(u, "cj") /\ Shrinks(v, "native")
    BY <1>8, <1>12 DEF SameRole
  <2>2. PICK x \in {u, v} : LogSize <= Cap(x) /\ Rest(x) = 0
    BY <1>10, <2>1 DEF CleanersOK
  <2>3. /\ LogSize \in Nat /\ LogSize' \in Nat /\ Cap(x) \in Nat /\ Cap(x)' \in Nat
        /\ Rest(x) \in Nat /\ Rest(x)' \in Nat /\ x \in Threads
    BY <1>1 DEF QTypes
  <2>4. CASE x = t
    BY <1>7, <1>8, <1>11, <2>2, <2>3, <2>4
  <2>5. CASE x # t
    BY <1>8, <1>11, <2>2, <2>3, <2>5
  <2> QED
    BY <2>4, <2>5
<1> QED
  BY <1>13, <1>14, <1>15

\* Nobody holds the writer's mutex but t.
LEMMA OnlyWriter ==
    ASSUME BInv, NEW t \in Threads, op[t].pc \in Held
    PROVE  \A u \in Threads : Shrinks(u, op[t].by) \/ Late(u, op[t].by) => u = t
BY OneWrites DEF BInv, Shrinks, Late, Held

LEMMA EndingKeepsQuota ==
    ASSUME BInv, BInv', QInv, NEW t \in Threads, EndOfLogs(t)
    PROVE  QInv'
<1> SUFFICES ASSUME faults' = 0 PROVE (FilesOK /\ CleanerOK /\ CleanersOK)'
  BY DEF QInv
<1>0. PICK w \in Writers, v \in Writers : w = op[t].by /\ v = Other(w)
  <2>1. op[t].by \in Writers
    BY RecordOf DEF BInv
  <2> QED
    BY <2>1 DEF Other, Writers
<1> DEFINE pc == IF op[t].size <= quota THEN "append" ELSE "age"
<1>1. QTypes /\ QTypes' /\ TypeOK
  BY QNumbers, QNumbersNext DEF BInv
<1>2. /\ op[t].pc = "shrink" /\ (op[t].todo = {} \/ op[t].size <= quota)
      /\ quota' = quota /\ eventCount' = eventCount /\ logs' = logs /\ faults' = faults
      /\ Goto(t, pc)
  BY DEF EndOfLogs, At, settings, boundVars
<1>3. Moved(t, pc, w, op[t].size, op[t].todo, op[t].seq)
  BY <1>0, <1>1, <1>2, Going DEF Pcs
<1>4. /\ w \in Writers /\ v \in Writers /\ w # v /\ Other(v) = w
      /\ \A x \in Writers : x = w \/ x = v
      /\ {w, v} = {"native", "cj"}
      /\ op[t].size \in Nat /\ logs \in [1..Days -> 0..MaxLog]
  BY <1>0, <1>1, RecordOf, Numbers DEF Writers, Other
<1>5. Lines' = Lines /\ LogSize' = LogSize
  BY <1>2, LinesStay
<1>6. /\ Shrinks(t, w) /\ ~Shrinks(t, v) /\ ~Late(t, v) /\ ~Late(t, v)' /\ Late(t, w)'
      /\ \A x \in Writers : ~Shrinks(t, x)'
      /\ \A u \in Threads \ {t} :
            /\ SameRole(u) /\ Cap(u)' = Cap(u) /\ Rest(u)' = Rest(u)
            /\ ~Shrinks(u, w) /\ ~Late(u, w)
  <2>1. /\ \A x \in Writers : /\ Shrinks(t, x)' <=> w = x /\ pc = "shrink"
                              /\ Late(t, x)' <=> w = x /\ pc \in Held \ {"shrink"}
        /\ \A u \in Threads \ {t} :
               /\ SameRole(u)
               /\ Cap(u)' = Cap(u) /\ Rest(u)' = Cardinality(Outside(Lines', op[u].todo))
    BY <1>2, <1>3, RolesOf
  <2>2. pc # "shrink" /\ pc \in Held
    BY DEF Held
  <2>3. \A u \in Threads : Shrinks(u, w) \/ Late(u, w) => u = t
    BY <1>0, <1>2, OnlyWriter DEF Held
  <2> HIDE DEF pc
  <2> QED
    BY <1>0, <1>2, <1>4, <1>5, <2>1, <2>2, <2>3 DEF Rest, Shrinks, Late
<1> HIDE DEF pc
<1>7. Coming(v)' = Coming(v)
  BY <1>4, <1>6, OtherWriter
<1>8. FilesOK /\ CleanerOK /\ CleanersOK
  BY <1>2 DEF QInv
<1>9. LogSize + Coming(v) <= quota + Extra(w)
  <2>1. /\ LogSize + Coming(v) <= Cap(t) + Extra(w)
        /\ Rest(t) + Coming(v) <= quota + Extra(w)
    BY <1>0, <1>4, <1>6, <1>8 DEF CleanerOK
  <2>2. CASE op[t].todo = {}
    <3>1. Rest(t) = LogSize
      BY <1>4, <2>2, AllLinesListed DEF Rest, LogSize
    <3> QED
      BY <2>1, <3>1
  <2>3. CASE op[t].size <= quota
    <3>1. Cap(t) = quota
      BY <1>1, <1>4, <2>3 DEF Cap, QTypes
    <3> QED
      BY <2>1, <3>1
  <2> QED
    BY <1>2, <2>2, <2>3
<1>10. w = "cj" => Owed' = Owed
  BY <1>2, <1>4, <1>6, OwedStays
<1>11. /\ LogSize \in Nat /\ quota \in Nat /\ Owed' \in Nat /\ Owed' >= 1 /\ Owed \in Nat /\ Several \in {0, 1}
       /\ Coming(v) \in {0, 1} /\ Coming(w)' \in {0, 1}
       /\ Extra(v)' \in Nat /\ Extra(v)' >= Several
  <2>1. /\ LogSize \in Nat /\ quota \in Nat /\ Owed' \in Nat /\ Owed' >= 1 /\ Owed \in Nat /\ Several \in {0, 1}
        /\ Coming(v) \in {0, 1} /\ Coming(w)' \in {0, 1}
        /\ Extra(v)' \in Nat
    BY <1>1, <1>4 DEF QTypes
  <2>2. Extra(v)' >= Several
    BY <2>1 DEF Extra
  <2> QED
    BY <2>1, <2>2
<1>12. FilesOK'
  <2>1. LogSize + Coming(v) + 1 <= quota + Owed' + Several
    <3>1. CASE w = "native"
      <4>1. Extra(w) = Several
        BY <3>1 DEF Extra
      <4> QED
        BY <1>9, <1>11, <4>1
    <3>2. CASE w = "cj" /\ Several = 0
      <4>1. Extra(w) = Several
        BY <3>2 DEF Extra
      <4> QED
        BY <1>9, <1>11, <4>1
    <3>3. CASE w = "cj" /\ Several = 1
      <4>1. Extra(w) = Owed /\ Owed' = Owed
        BY <1>10, <3>3 DEF Extra
      <4> QED
        BY <1>9, <1>11, <3>3, <4>1
    <3> QED
      BY <1>4, <1>11, <3>1, <3>2, <3>3 DEF Writers
  <2>2. LogSize' + Coming(v)' + Coming(w)' <= quota' + Owed' + Several
    BY <1>2, <1>5, <1>7, <1>11, <2>1
  <2>3. \/ Coming(v)' = Coming("native")' /\ Coming(w)' = Coming("cj")'
        \/ Coming(w)' = Coming("native")' /\ Coming(v)' = Coming("cj")'
    BY <1>4
  <2>4. LogSize' + Coming("native")' + Coming("cj")' <= quota' + Owed' + Several
    BY <1>2, <1>5, <1>7, <1>11, <2>2, <2>3
  <2> QED
    BY <2>4 DEF FilesOK
<1>13. CleanerOK'
  <2> SUFFICES ASSUME NEW u \in Threads, NEW x \in Writers, Shrinks(u, x)'
               PROVE  /\ LogSize' + Coming(Other(x))' <= Cap(u)' + Extra(x)'
                      /\ Rest(u)' + Coming(Other(x))' <= quota' + Extra(x)'
    BY DEF CleanerOK
  <2>1. u # t /\ x = v /\ Shrinks(u, v)
    BY <1>4, <1>6 DEF SameRole
  <2>2. Several = 1
    BY <2>1, TwoAreSeveral
  <2>3. PICK y \in {t, u} : LogSize <= Cap(y) /\ Rest(y) = 0
    BY <1>4, <1>6, <1>8, <2>1 DEF CleanersOK
  <2>4. /\ Cap(u) \in Nat /\ Rest(u) \in Nat /\ Cap(u) >= quota /\ Rest(u) <= LogSize
    BY <1>1 DEF QTypes
  <2>5. LogSize <= Cap(u) /\ Rest(u) <= quota
    <3>1. CASE y = u
      BY <1>11, <2>3, <3>1
    <3>2. CASE y = t
      <4>1. LogSize <= quota
        <5>1. CASE op[t].todo = {}
          <6>1. Rest(t) = LogSize
            BY <1>4, <5>1, AllLinesListed DEF Rest, LogSize
          <6> QED
            BY <1>11, <2>3, <3>2, <6>1
        <5>2. CASE op[t].size <= quota
          <6>1. Cap(t) = quota
            BY <1>1, <1>4, <5>2, SMTT(20) DEF Cap, QTypes
          <6> QED
            BY <2>3, <3>2, <6>1
        <5> QED
          BY <1>2, <5>1, <5>2
      <4> QED
        BY <1>11, <2>4, <4>1
    <3> QED
      BY <3>1, <3>2
  <2>6. /\ LogSize + Coming(w)' <= Cap(u) + Extra(v)'
        /\ Rest(u) + Coming(w)' <= quota + Extra(v)'
    BY <1>11, <2>2, <2>4, <2>5
  <2> QED
    BY <1>2, <1>4, <1>5, <1>6, <2>1, <2>6
<1>14. CleanersOK'
  <2>1. \A u \in Threads : ~Shrinks(u, w)'
    BY <1>4, <1>6 DEF SameRole
  <2> QED
    BY <1>4, <2>1 DEF CleanersOK
<1> QED
  BY <1>12, <1>13, <1>14

LEMMA AppendingKeepsQuota ==
    ASSUME BInv, BInv', QInv, NEW t \in Threads, Append(t)
    PROVE  QInv'
<1> SUFFICES ASSUME faults' = 0 PROVE (FilesOK /\ CleanerOK /\ CleanersOK)'
  BY DEF QInv
<1>0. PICK w \in Writers, v \in Writers : w = op[t].by /\ v = Other(w)
  <2>1. op[t].by \in Writers
    BY RecordOf DEF BInv
  <2> QED
    BY <2>1 DEF Other, Writers
<1>1. QTypes /\ QTypes' /\ TypeOK
  BY QNumbers, QNumbersNext DEF BInv
<1>2. ~Fault
  BY <1>1 DEF Fault, QTypes
<1>3. /\ op[t].pc = "append" /\ LogSize < MaxLog /\ logs' = [logs EXCEPT ![today] = @ + 1]
      /\ quota' = quota /\ eventCount' = eventCount /\ faults' = faults
      /\ Goto(t, "insert")
  BY <1>2 DEF Append, At, settings
<1>4. Moved(t, "insert", w, op[t].size, op[t].todo, op[t].seq)
  BY <1>0, <1>1, <1>3, Going DEF Pcs
<1>5. /\ w \in Writers /\ v \in Writers /\ w # v /\ Other(v) = w
      /\ \A x \in Writers : x = w \/ x = v
      /\ {w, v} = {"native", "cj"}
      /\ logs \in [1..Days -> 0..MaxLog] /\ today \in 1..Days
  BY <1>0, <1>1, RecordOf, Numbers DEF Writers, Other
<1>6. /\ LogSize' = LogSize + 1
      /\ \A D : Cardinality(Outside(Lines', D)) <= Cardinality(Outside(Lines, D)) + 1
  BY <1>3, <1>5, LineAdded
<1>7. /\ Late(t, w) /\ ~Shrinks(t, w) /\ ~Shrinks(t, v) /\ ~Late(t, v) /\ ~Late(t, v)' /\ ~Late(t, w)'
      /\ \A x \in Writers : ~Shrinks(t, x)' /\ ~Shrinks(t, x)
      /\ \A u \in Threads \ {t} :
            /\ SameRole(u) /\ Cap(u)' = Cap(u) /\ Rest(u)' <= Rest(u) + 1
            /\ ~Shrinks(u, w) /\ ~Late(u, w)
  <2>1. /\ \A x \in Writers : /\ Shrinks(t, x)' <=> w = x /\ "insert" = "shrink"
                              /\ Late(t, x)' <=> w = x /\ "insert" \in Held \ {"shrink"}
        /\ \A u \in Threads \ {t} :
               /\ SameRole(u)
               /\ Cap(u)' = Cap(u) /\ Rest(u)' = Cardinality(Outside(Lines', op[u].todo))
    BY <1>3, <1>4, RolesOf
  <2>2. "insert" \notin Held /\ "append" \in Held
    BY DEF Held
  <2>3. \A u \in Threads : Shrinks(u, w) \/ Late(u, w) => u = t
    BY <1>0, <1>3, OnlyWriter DEF Held
  <2> QED
    BY <1>0, <1>3, <1>5, <1>6, <2>1, <2>2, <2>3 DEF Rest, Shrinks, Late
<1>8. Coming(v)' = Coming(v) /\ Coming(w) = 1 /\ Coming(w)' = 0
  <2>1. Coming(v)' = Coming(v)
    BY <1>5, <1>7, OtherWriter
  <2>2. Coming(w) = 1
    BY <1>7 DEF Coming
  <2>3. \A u \in Threads : ~Late(u, w)'
    BY <1>5, <1>7 DEF SameRole
  <2>4. Coming(w)' = 0
    BY <2>3 DEF Coming
  <2> QED
    BY <2>1, <2>2, <2>4
<1>9. FilesOK /\ CleanerOK /\ CleanersOK
  BY <1>3 DEF QInv
<1>10. Owed' = Owed /\ \A x \in Writers : Extra(x)' = Extra(x)
  BY <1>3, <1>7, OwedStays DEF Writers
<1>11. /\ LogSize \in Nat /\ quota \in Nat /\ Owed \in Nat /\ Several \in {0, 1}
       /\ Coming(v) \in {0, 1} /\ Extra(v) \in Nat
  BY <1>1, <1>5 DEF QTypes
<1>12. FilesOK'
  <2>1. LogSize + Coming("native") + Coming("cj") <= quota + Owed + Several
    BY <1>9 DEF FilesOK
  <2>2. LogSize + Coming(v) + 1 <= quota + Owed + Several
    <3>1. \/ Coming(v) = Coming("native") /\ Coming(w) = Coming("cj")
          \/ Coming(w) = Coming("native") /\ Coming(v) = Coming("cj")
      BY <1>5
    <3> QED
      BY <1>8, <1>11, <2>1, <3>1
  <2>3. \/ Coming(v)' = Coming("native")' /\ Coming(w)' = Coming("cj")'
        \/ Coming(w)' = Coming("native")' /\ Coming(v)' = Coming("cj")'
    BY <1>5
  <2>4. LogSize' + Coming("native")' + Coming("cj")' <= quota' + Owed' + Several
    BY <1>3, <1>6, <1>8, <1>10, <1>11, <2>2, <2>3
  <2> QED
    BY <2>4 DEF FilesOK
<1>13. CleanerOK'
  <2> SUFFICES ASSUME NEW u \in Threads, NEW x \in Writers, Shrinks(u, x)'
               PROVE  /\ LogSize' + Coming(Other(x))' <= Cap(u)' + Extra(x)'
                      /\ Rest(u)' + Coming(Other(x))' <= quota' + Extra(x)'
    BY DEF CleanerOK
  <2>1. u # t /\ x = v /\ Shrinks(u, v)
    BY <1>5, <1>7 DEF SameRole
  <2>2. /\ LogSize + Coming(w) <= Cap(u) + Extra(v)
        /\ Rest(u) + Coming(w) <= quota + Extra(v)
    BY <1>5, <1>9, <2>1 DEF CleanerOK
  <2>3. /\ Cap(u) \in Nat /\ Rest(u) \in Nat /\ Rest(u)' \in Nat /\ Cap(u)' = Cap(u) /\ Rest(u)' <= Rest(u) + 1
    BY <1>1, <1>7, <2>1 DEF QTypes
  <2>4. /\ LogSize + 1 <= Cap(u) + Extra(v)
        /\ Rest(u)' <= quota + Extra(v)
    BY <1>8, <1>11, <2>2, <2>3
  <2>5. Coming(Other(x))' = 0 /\ Extra(x)' = Extra(v)
    BY <1>5, <1>8, <1>10, <2>1
  <2> QED
    BY <1>3, <1>6, <1>11, <2>3, <2>4, <2>5
<1>14. CleanersOK'
  <2>1. \A u \in Threads : ~Shrinks(u, w)'
    BY <1>5, <1>7 DEF SameRole
  <2> QED
    BY <1>5, <2>1 DEF CleanersOK
<1> QED
  BY <1>12, <1>13, <1>14

\* A writer goes on to append without measuring, or with room for it.
LEMMA CheckingKeepsQuota ==
    ASSUME BInv, BInv', QInv, NEW t \in Threads, CheckStorageSpace(t)
    PROVE  QInv'
<1> SUFFICES ASSUME faults' = 0 PROVE (FilesOK /\ CleanerOK /\ CleanersOK)'
  BY DEF QInv
<1> DEFINE files == {d \in 1..Days : logs[d] > 0}
<1> HIDE DEF files
<1>0. PICK w \in Writers, v \in Writers : w = op[t].by /\ v = Other(w)
  <2>1. op[t].by \in Writers
    BY RecordOf DEF BInv
  <2> QED
    BY <2>1 DEF Other, Writers
<1>1. QTypes /\ QTypes' /\ TypeOK
  BY QNumbers, QNumbersNext DEF BInv
<1>2. /\ logs' = logs /\ quota' = quota /\ faults' = faults
      /\ op[t].pc = "lock" /\ owner[w] = {}
  BY <1>0, <1>1, CheckMoves DEF CheckStorageSpace, settings, boundVars
<1>3. \/ /\ Moved(t, "append", w, op[t].size, op[t].todo, op[t].seq)
         /\ ~Due(w) /\ eventCount' = Counted(eventCount)
      \/ /\ Moved(t, "append", w, op[t].size, op[t].todo, op[t].seq)
         /\ LogSize + peak <= quota /\ eventCount' = eventCount
      \/ /\ Moved(t, "shrink", w, LogSize + peak, files, op[t].seq)
         /\ eventCount' = IF w = "native" THEN Counted(eventCount) ELSE eventCount
         /\ LogSize + peak > quota
  BY <1>0, <1>1, CheckMoves DEF files
<1>4. /\ w # v /\ Other(v) = w /\ Other(w) = v
      /\ \A x \in Writers : x = w \/ x = v
      /\ {w, v} = {"native", "cj"}
      /\ logs \in [1..Days -> 0..MaxLog] /\ eventCount \in 0..Period /\ peak \in Nat
  BY <1>0, <1>1, Numbers, Constants, SMTT(20) DEF Writers, Other
<1>5. Lines' = Lines /\ LogSize' = LogSize
  BY <1>2, LinesStay
<1>6. \A u \in Threads : \A x \in {w} : ~Shrinks(u, x) /\ ~Late(u, x)
  <2> SUFFICES ASSUME NEW u \in Threads, op[u].by = w, op[u].pc \in Held PROVE FALSE
    BY DEF Shrinks, Late, Held
  <2>1. owner[w] = {u}
    BY DEF BInv, MutexOK
  <2> QED
    BY <1>2, <2>1
<1>7. \A x \in Writers : ~Shrinks(t, x) /\ ~Late(t, x)
  BY <1>2 DEF Shrinks, Late, Held
<1>8. FilesOK /\ CleanerOK /\ CleanersOK
  BY <1>2 DEF QInv
<1>9. Coming(w) = 0
  BY <1>6 DEF Coming
<1>10. LogSize + Coming(v) <= quota + Owed + Several
  <2>1. LogSize + Coming("native") + Coming("cj") <= quota + Owed + Several
    BY <1>8 DEF FilesOK
  <2>2. \/ Coming(v) = Coming("native") /\ Coming(w) = Coming("cj")
        \/ Coming(w) = Coming("native") /\ Coming(v) = Coming("cj")
    BY <1>4
  <2>3. LogSize \in Nat /\ Coming(v) \in {0, 1}
    BY <1>1 DEF QTypes
  <2> QED
    BY <1>9, <2>1, <2>2, <2>3
<1>11. Coming(v) = 1 => Several = 1
  <2> SUFFICES ASSUME Coming(v) = 1 PROVE Several = 1
    OBVIOUS
  <2>1. PICK u \in Threads : Late(u, v)
    BY DEF Coming
  <2> QED
    BY <1>7, <2>1, TwoAreSeveral
<1>12. /\ LogSize \in Nat /\ quota \in Nat /\ Period \in Nat
       /\ Owed \in Nat /\ Owed >= 1 /\ Owed <= Period
       /\ Owed' \in Nat /\ Owed' >= 1 /\ Owed' <= Period
       /\ Several \in {0, 1} /\ Coming(v) \in {0, 1} /\ Coming(w)' \in {0, 1}
       /\ \A x \in Writers : Extra(x)' \in Nat
  BY <1>1 DEF QTypes
<1>13. \A x \in Writers : Extra(x)' >= Several
  BY <1>12 DEF Extra
<1>14. \/ Coming(v)' = Coming("native")' /\ Coming(w)' = Coming("cj")'
       \/ Coming(w)' = Coming("native")' /\ Coming(v)' = Coming("cj")'
  BY <1>4
<1>15. ASSUME NEW size, NEW todo, Moved(t, "append", w, size, todo, op[t].seq),
              \/ LogSize <= quota
              \/ w = "native" /\ Owed' = Owed + 1
       PROVE  (FilesOK /\ CleanerOK /\ CleanersOK)'
  <2>1. /\ \A x \in Writers : /\ Shrinks(t, x)' <=> w = x /\ "append" = "shrink"
                              /\ Late(t, x)' <=> w = x /\ "append" \in Held \ {"shrink"}
        /\ \A u \in Threads \ {t} :
               /\ SameRole(u)
               /\ Cap(u)' = Cap(u) /\ Rest(u)' = Cardinality(Outside(Lines', op[u].todo))
    BY <1>2, <1>15, RolesOf
  <2>2. Coming(v)' = Coming(v)
    BY <1>4, <1>7, <2>1, OtherWriter
  <2>3. FilesOK'
    <3>1. LogSize + Coming(v) + Coming(w)' <= quota + Owed' + Several
      BY <1>10, <1>11, <1>12, <1>15
    <3>2. LogSize' + Coming("native")' + Coming("cj")' <= quota' + Owed' + Several
      BY <1>2, <1>5, <1>12, <1>14, <2>2, <3>1
    <3> QED
      BY <3>2 DEF FilesOK
  <2>4. CleanerOK'
    <3> SUFFICES ASSUME NEW u \in Threads, NEW x \in Writers, Shrinks(u, x)'
                 PROVE  /\ LogSize' + Coming(Other(x))' <= Cap(u)' + Extra(x)'
                        /\ Rest(u)' + Coming(Other(x))' <= quota' + Extra(x)'
      BY DEF CleanerOK
    <3>1. u # t /\ x = v /\ Shrinks(u, v)
      BY <1>4, <1>6, <1>7, <2>1 DEF SameRole
    <3>2. Several = 1
      BY <3>1, TwoAreSeveral
    <3>3. /\ LogSize + Coming(w) <= Cap(u) + Extra(v)
          /\ Rest(u) + Coming(w) <= quota + Extra(v)
      BY <1>4, <1>8, <3>1 DEF CleanerOK
    <3>4. /\ Cap(u) \in Nat /\ Rest(u) \in Nat /\ Cap(u) >= quota /\ Rest(u) <= LogSize
          /\ Extra(v) \in Nat
      BY <1>1 DEF QTypes
    <3>5. /\ LogSize + Coming(w)' <= Cap(u) + Extra(v)'
          /\ Rest(u) + Coming(w)' <= quota + Extra(v)'
      <4>1. CASE LogSize <= quota
        <5>1. Extra(v)' >= 1 /\ Extra(v)' \in Nat
          BY <1>12, <1>13, <3>2
        <5> QED
          BY <1>12, <3>4, <4>1, <5>1
      <4>2. CASE w = "native" /\ Owed' = Owed + 1
        <5>1. Extra(v) = Owed /\ Extra(v)' = Owed'
          BY <1>4, <3>2, <4>2 DEF Extra
        <5> QED
          BY <1>9, <1>12, <3>3, <3>4, <4>2, <5>1
      <4> QED
        BY <1>15, <4>1, <4>2
    <3>6. Cap(u)' = Cap(u) /\ Rest(u)' = Rest(u) /\ Coming(Other(x))' = Coming(w)' /\ Extra(x)' = Extra(v)'
      BY <1>4, <1>5, <2>1, <3>1 DEF Rest
    <3> QED
      BY <1>2, <1>5, <3>5, <3>6
  <2>5. CleanersOK'
    <3>1. \A u \in Threads : ~Shrinks(u, w)'
      BY <1>6, <2>1 DEF SameRole
    <3> QED
      BY <1>4, <3>1 DEF CleanersOK
  <2> QED
    BY <2>3, <2>4, <2>5
<1>16. CASE /\ Moved(t, "append", w, op[t].size, op[t].todo, op[t].seq)
            /\ ~Due(w) /\ eventCount' = Counted(eventCount)
  <2>1. w = "native" /\ eventCount < Period - 1
    BY <1>4, <1>12, <1>16 DEF Due, Writers
  <2>2. eventCount' = eventCount + 1
    BY <1>4, <1>16, <2>1, CountedSteps
  <2>3. \A u \in Threads : ~Shrinks(u, "native") /\ ~Shrinks(u, "native")'
    <3>1. /\ \A x \in Writers : Shrinks(t, x)' <=> w = x /\ "append" = "shrink"
          /\ \A u \in Threads \ {t} : SameRole(u)
      BY <1>2, <1>16, RolesOf
    <3> QED
      BY <1>6, <2>1, <3>1 DEF SameRole
  <2>4. Owed = eventCount + 1
    BY <1>4, <1>12, <2>1, <2>3 DEF Owed
  <2>5. Owed' = IF eventCount' >= Period - 1 THEN Period ELSE eventCount' + 1
    BY <2>3 DEF Owed
  <2>6. Owed' = Owed + 1
    BY <1>4, <1>12, <2>1, <2>2, <2>4, <2>5
  <2> QED
    BY <1>15, <1>16, <2>1, <2>6
<1>17. CASE /\ Moved(t, "append", w, op[t].size, op[t].todo, op[t].seq)
            /\ LogSize + peak <= quota /\ eventCount' = eventCount
  <2>1. LogSize <= quota
    BY <1>4, <1>12, <1>17
  <2> QED
    BY <1>15, <1>17, <2>1
<1>18. CASE /\ Moved(t, "shrink", w, LogSize + peak, files, op[t].seq)
            /\ eventCount' = IF w = "native" THEN Counted(eventCount) ELSE eventCount
            /\ LogSize + peak > quota
  <2>1. /\ \A x \in Writers : /\ Shrinks(t, x)' <=> w = x
                              /\ ~Late(t, x)'
        /\ Cap(t)' = IF LogSize + peak > quota THEN LogSize + peak ELSE quota
        /\ Rest(t)' = Cardinality(Outside(Lines', files))
        /\ \A u \in Threads \ {t} :
               /\ SameRole(u)
               /\ Cap(u)' = Cap(u) /\ Rest(u)' = Cardinality(Outside(Lines', op[u].todo))
    BY <1>2, <1>18, RolesOf DEF Held
  <2>2. Cap(t)' = LogSize + peak /\ Rest(t)' = 0
    BY <1>4, <1>5, <1>18, <2>1, AllLinesListed DEF files
  <2>3. \A x \in Writers : Coming(x)' = Coming(x)
    BY <1>7, <2>1, OtherWriter
  <2>4. Owed' >= Owed
    <3>1. CASE w = "native"
      <4>1. Owed' = Period
        BY <2>1, <3>1 DEF Owed
      <4> QED
        BY <1>12, <4>1
    <3>2. CASE w # "native"
      <4>1. Owed' = Owed
        BY <1>7, <1>18, <2>1, <3>2, OwedStays DEF Writers
      <4> QED
        BY <1>12, <4>1
    <3> QED
      BY <3>1, <3>2
  <2>5. \A x \in Writers : Extra(x)' >= Extra(x) /\ Extra(x) \in Nat
    BY <1>12, <2>4 DEF Extra
  <2>6. FilesOK'
    <3>1. LogSize + Coming("native") + Coming("cj") <= quota + Owed + Several
      BY <1>8 DEF FilesOK
    <3>2. "native" \in Writers /\ "cj" \in Writers
      BY DEF Writers
    <3>3. Coming("native") \in {0, 1} /\ Coming("cj") \in {0, 1}
      BY <1>1, <3>2 DEF QTypes
    <3>4. LogSize' + Coming("native")' + Coming("cj")' <= quota' + Owed' + Several
      BY <1>2, <1>5, <1>12, <2>3, <2>4, <3>1, <3>2, <3>3
    <3> QED
      BY <3>4 DEF FilesOK
  <2>7. CleanerOK'
    <3> SUFFICES ASSUME NEW u \in Threads, NEW x \in Writers, Shrinks(u, x)'
                 PROVE  /\ LogSize' + Coming(Other(x))' <= Cap(u)' + Extra(x)'
                        /\ Rest(u)' + Coming(Other(x))' <= quota' + Extra(x)'
      BY DEF CleanerOK
    <3>1. CASE u = t
      <4>1. x = w /\ Other(x) = v
        BY <1>4, <2>1, <3>1
      <4>2. Coming(v) <= Extra(w)'
        BY <1>11, <1>12, <1>13
      <4>3. /\ LogSize + Coming(v) <= LogSize + peak + Extra(w)'
            /\ 0 + Coming(v) <= quota + Extra(w)'
        BY <1>4, <1>12, <4>2
      <4> QED
        BY <1>2, <1>5, <2>2, <2>3, <3>1, <4>1, <4>3
    <3>2. CASE u # t
      <4>1. Shrinks(u, x) /\ Other(x) \in Writers
        BY <1>4, <2>1, <3>2 DEF SameRole
      <4>2. /\ LogSize + Coming(Other(x)) <= Cap(u) + Extra(x)
            /\ Rest(u) + Coming(Other(x)) <= quota + Extra(x)
        BY <1>8, <4>1 DEF CleanerOK
      <4>3. Cap(u) \in Nat /\ Rest(u) \in Nat /\ Coming(Other(x)) \in {0, 1}
        BY <1>1, <4>1 DEF QTypes
      <4>4. Cap(u)' = Cap(u) /\ Rest(u)' = Rest(u)
        BY <1>5, <2>1, <3>2 DEF Rest
      <4>5. /\ LogSize + Coming(Other(x)) <= Cap(u) + Extra(x)'
            /\ Rest(u) + Coming(Other(x)) <= quota + Extra(x)'
        BY <1>12, <2>5, <4>2, <4>3
      <4>6. Coming(Other(x))' = Coming(Other(x))
        BY <2>3, <4>1
      <4> QED
        BY <1>2, <1>5, <4>4, <4>5, <4>6
    <3> QED
      BY <3>1, <3>2
  <2>8. CleanersOK'
    <3> SUFFICES ASSUME NEW u \in Threads, NEW x \in Threads, Shrinks(u, "cj")', Shrinks(x, "native")'
                 PROVE  \/ LogSize' <= Cap(u)' /\ Rest(u)' = 0
                        \/ LogSize' <= Cap(x)' /\ Rest(x)' = 0
      BY DEF CleanersOK
    <3>1. \A y \in Threads \ {t} : ~Shrinks(y, w)'
      BY <1>6, <2>1 DEF SameRole
    <3>2. u = t \/ x = t
      BY <1>4, <3>1
    <3>3. LogSize' <= Cap(t)' /\ Rest(t)' = 0
      BY <1>4, <1>5, <1>12, <2>2
    <3> QED
      BY <3>2, <3>3
  <2> QED
    BY <2>6, <2>7, <2>8
<1> QED
  BY <1>3, <1>16, <1>17, <1>18

\* Without a thread that cleans, or is about to append, less is asked.
LEMMA RestKeepsQuota ==
    ASSUME BInv, QInv, BInv', \A u \in Threads : op'[u] = Idle, logs' = logs, quota' = quota,
           eventCount' = Period, faults' = faults
    PROVE  QInv'
<1> SUFFICES ASSUME faults' = 0 PROVE (FilesOK /\ CleanerOK /\ CleanersOK)'
  BY DEF QInv
<1>1. QTypes /\ QTypes' /\ LogSize' = LogSize
  BY QNumbers, QNumbersNext, LinesStay DEF BInv
<1>2. \A u \in Threads, w \in Writers : ~Shrinks(u, w)' /\ ~Late(u, w)'
  BY DEF Shrinks, Late, Held, Idle
<1>3. "native" \in Writers /\ "cj" \in Writers
  BY DEF Writers
<1>4. Coming("native")' = 0 /\ Coming("cj")' = 0
  BY <1>2, <1>3 DEF Coming
<1>5. Owed' = Period
  BY <1>1 DEF Owed, QTypes
<1>6. LogSize + Coming("native") + Coming("cj") <= quota + Owed + Several
  BY DEF QInv, FilesOK
<1>7. Coming("native") \in {0, 1} /\ Coming("cj") \in {0, 1}
  BY <1>1, <1>3 DEF QTypes
<1>8. LogSize' + Coming("native")' + Coming("cj")' <= quota' + Owed' + Several
  BY <1>1, <1>4, <1>5, <1>6, <1>7 DEF QTypes
<1>9. FilesOK'
  BY <1>8 DEF FilesOK
<1>10. CleanerOK' /\ CleanersOK'
  BY <1>2, <1>3 DEF CleanerOK, CleanersOK
<1> QED
  BY <1>9, <1>10

LEMMA QuietQuota ==
    ASSUME BInv, BInv', QInv, NEW t \in Threads, NEW pc, NEW by, NEW size, NEW todo, NEW seq,
           Moved(t, pc, by, size, todo, seq),
           \/ op[t].pc \notin Held /\ pc \notin Held
           \/ /\ op[t].pc \in Held \ {"shrink"} /\ pc \in Held \ {"shrink"}
              /\ by = op[t].by,
           eventCount' = eventCount, quota' = quota,
           logs' = logs \/ logs' = [d \in 1..Days |-> 0],
           faults' = faults \/ Fault
    PROVE  QInv'
<1>1. /\ \A w \in Writers : /\ Shrinks(t, w)' <=> by = w /\ pc = "shrink"
                            /\ Late(t, w)' <=> by = w /\ pc \in Held \ {"shrink"}
      /\ \A u \in Threads \ {t} : SameRole(u)
  BY RolesOf
<1>2. "shrink" \in Held
  BY DEF Held
<1>3. SameRole(t)
  BY <1>1, <1>2 DEF SameRole, Shrinks, Late
<1>4. FilesShrink
  <2>1. LogSize \in Nat /\ \A D : Cardinality(Outside(Lines, D)) \in 0..LogSize
    BY LinesFinite
  <2>2. CASE logs' = logs
    <3>1. Lines' = Lines /\ LogSize' = LogSize
      BY <2>2, LinesStay
    <3> QED
      BY <2>1, <3>1 DEF FilesShrink
  <2>3. CASE logs' = [d \in 1..Days |-> 0]
    BY <2>1, <2>3, FilesRemoved DEF FilesShrink
  <2> QED
    BY <2>2, <2>3
<1> QED
  BY <1>1, <1>3, <1>4, KeepsQuota DEF BInv

LEMMA ThreadKeepsQuota ==
    ASSUME BInv, BInv', QInv, NEW t \in Threads,
           \/ \E w \in Writers : WriteEvent(t, w)
           \/ ClearData(t)
           \/ Step(t)
    PROVE  QInv'
<1>0. TypeOK
  BY DEF BInv
<1>1. ASSUME NEW w \in Writers, WriteEvent(t, w) PROVE QInv'
  <2>1. Moved(t, "lock", w, 0, {}, 0) /\ op[t].pc = "idle"
    BY <1>0, <1>1, WriteMoves
  <2>2. eventCount' = eventCount /\ quota' = quota /\ logs' = logs /\ faults' = faults
    BY <1>1 DEF WriteEvent, settings, boundVars
  <2> QED
    BY <2>1, <2>2, QuietQuota DEF Held
<1>2. CASE DeleteHistoryEvent(t)
  <2>1. PICK pc \in {"agemap", "append"} : Goto(t, pc) /\ (faults' = faults \/ Fault)
    BY <1>2 DEF DeleteHistoryEvent
  <2>2. Moved(t, pc, op[t].by, op[t].size, op[t].todo, op[t].seq)
    BY <1>0, <2>1, Going DEF Pcs
  <2>3. op[t].pc = "age" /\ eventCount' = eventCount /\ quota' = quota /\ logs' = logs
    BY <1>2 DEF DeleteHistoryEvent, settings, At
  <2> QED
    BY <2>1, <2>2, <2>3, QuietQuota DEF Held
<1>3. CASE DeleteUnusedEventMapping(t)
  <2>1. PICK pc \in {"ageparams", "append"} : Goto(t, pc) /\ (faults' = faults \/ Fault)
    BY <1>3 DEF DeleteUnusedEventMapping
  <2>2. Moved(t, pc, op[t].by, op[t].size, op[t].todo, op[t].seq)
    BY <1>0, <2>1, Going DEF Pcs
  <2>3. op[t].pc = "agemap" /\ eventCount' = eventCount /\ quota' = quota /\ logs' = logs
    BY <1>3 DEF DeleteUnusedEventMapping, settings, At
  <2> QED
    BY <2>1, <2>2, <2>3, QuietQuota DEF Held
<1>4. CASE DeleteUnusedParams(t)
  <2>1. Moved(t, "append", op[t].by, op[t].size, op[t].todo, op[t].seq)
    BY <1>0, <1>4, Going DEF Pcs, DeleteUnusedParams
  <2>2. /\ op[t].pc = "ageparams" /\ eventCount' = eventCount /\ quota' = quota /\ logs' = logs
        /\ faults' = faults
    BY <1>4 DEF DeleteUnusedParams, settings, boundVars, At
  <2> QED
    BY <2>1, <2>2, QuietQuota DEF Held
<1>5. CASE NoObserver(t)
  <2>1. Moved(t, "idle", "native", 0, {}, 0)
    BY <1>0, <1>5, Returning DEF NoObserver
  <2>2. /\ op[t].pc = "insert" /\ eventCount' = eventCount /\ quota' = quota /\ logs' = logs
        /\ faults' = faults
    BY <1>5 DEF NoObserver, settings, boundVars, At
  <2> QED
    BY <2>1, <2>2, QuietQuota DEF Held
<1>6. CASE StoreEventsToDb(t)
  <2>1. Moved(t, "map", op[t].by, op[t].size, op[t].todo, given + 1)
    BY <1>0, <1>6, StoreMoves
  <2>2. /\ op[t].pc = "insert" /\ eventCount' = eventCount /\ quota' = quota /\ logs' = logs
        /\ faults' = faults
    BY <1>6 DEF StoreEventsToDb, settings, boundVars, At
  <2> QED
    BY <2>1, <2>2, QuietQuota DEF Held
<1>7. CASE StoreEventMappingToDb(t)
  <2>1. Moved(t, "idle", "native", 0, {}, 0)
    BY <1>0, <1>7, Returning DEF StoreEventMappingToDb
  <2>2. /\ op[t].pc = "map" /\ eventCount' = eventCount /\ quota' = quota /\ logs' = logs
        /\ (faults' = faults \/ Fault)
    BY <1>7 DEF StoreEventMappingToDb, settings, At
  <2> QED
    BY <2>1, <2>2, QuietQuota DEF Held
<1>8. CASE ClearData(t)
  <2>1. Moved(t, "events", op[t].by, op[t].size, op[t].todo, op[t].seq)
    BY <1>0, <1>8, Going DEF Pcs, ClearData
  <2>2. /\ op[t].pc = "idle" /\ eventCount' = eventCount /\ quota' = quota /\ logs' = logs
        /\ faults' = faults
    BY <1>8 DEF ClearData, settings, Idle
  <2> QED
    BY <2>1, <2>2, QuietQuota DEF Held
<1>9. CASE DeleteEvents(t) \/ DeleteCustomEventParams(t) \/ DeleteEventMapping(t)
  <2>1. PICK pc \in {"params", "mapping", "logs"} : Goto(t, pc)
    BY <1>9 DEF DeleteEvents, DeleteCustomEventParams, DeleteEventMapping, ClearTable
  <2>2. Moved(t, pc, op[t].by, op[t].size, op[t].todo, op[t].seq)
    BY <1>0, <2>1, Going DEF Pcs
  <2>3. /\ op[t].pc \in {"events", "params", "mapping"}
        /\ eventCount' = eventCount /\ quota' = quota /\ logs' = logs
        /\ (faults' = faults \/ Fault)
    BY <1>9 DEF DeleteEvents, DeleteCustomEventParams, DeleteEventMapping, ClearTable, settings, At
  <2> QED
    BY <2>1, <2>2, <2>3, QuietQuota DEF Held
<1>10. CASE ClearLogs(t)
  <2>1. Moved(t, "idle", "native", 0, {}, 0)
    BY <1>0, <1>10, Returning DEF ClearLogs
  <2>2. /\ op[t].pc = "logs" /\ eventCount' = eventCount /\ quota' = quota /\ faults' = faults
        /\ logs' = [d \in 1..Days |-> 0]
    BY <1>10 DEF ClearLogs, settings, boundVars, At
  <2> QED
    BY <2>1, <2>2, QuietQuota DEF Held
<1> QED
  BY <1>1, <1>2, <1>3, <1>4, <1>5, <1>6, <1>7, <1>8, <1>9, <1>10, CheckingKeepsQuota,
     ClearingKeepsQuota, EndingKeepsQuota, AppendingKeepsQuota DEF Step

LEMMA InitQInv == Init => QInv
<1> SUFFICES ASSUME Init PROVE FilesOK /\ CleanerOK /\ CleanersOK
  BY DEF QInv
<1>1. QTypes
  BY InitBInv, QNumbers DEF BInv
<1>2. \A u \in Threads, w \in Writers : ~Shrinks(u, w) /\ ~Late(u, w)
  BY DEF Init, Shrinks, Late, Held, Idle
<1>3. "native" \in Writers /\ "cj" \in Writers
  BY DEF Writers
<1>4. Coming("native") = 0 /\ Coming("cj") = 0
  BY <1>2, <1>3 DEF Coming
<1>5. LogSize = 0
  <2>1. Lines = {}
    BY Constants DEF Lines, Init
  <2> QED
    BY <2>1, FS_EmptySet DEF LogSize
<1> QED
  BY <1>1, <1>2, <1>3, <1>4, <1>5 DEF QTypes, FilesOK, CleanerOK, CleanersOK

LEMMA NextQInv == BInv /\ BInv' /\ QInv /\ [Next]_vars => QInv'
<1> SUFFICES ASSUME BInv, BInv', QInv, [Next]_vars PROVE QInv'
  OBVIOUS
<1>1. ASSUME UNCHANGED <<logs, op, eventCount, quota, faults>> PROVE QInv'
  <2>1. /\ \A u \in Threads : SameRole(u)
        /\ LogSize' = LogSize /\ Lines' = Lines
    BY <1>1, LinesStay DEF SameRole, Shrinks, Late
  <2>2. LogSize \in Nat /\ \A D : Cardinality(Outside(Lines, D)) \in 0..LogSize
    BY LinesFinite
  <2>3. FilesShrink
    BY <2>1, <2>2 DEF FilesShrink
  <2> QED
    BY <1>1, <2>1, <2>3, KeepsQuota DEF BInv
<1>2. CASE UNCHANGED vars
  BY <1>1, <1>2 DEF vars, settings, boundVars
<1>3. CASE \E r \in 0..MaxTroubles : HandleOsEvent(r)
  BY <1>1, <1>3 DEF HandleOsEvent, settings, boundVars
<1>4. CASE SetEventParam
  BY <1>1, <1>4 DEF SetEventParam, settings, boundVars
<1>5. CASE NextDay
  BY <1>1, <1>5 DEF NextDay, settings, boundVars
<1>6. CASE Crash
  <2>1. /\ logs' = logs /\ quota' = quota /\ eventCount' = Period /\ faults' = faults
        /\ \A u \in Threads : op'[u] = Idle
    BY <1>6 DEF Crash, settings
  <2> QED
    BY <2>1, RestKeepsQuota
<1> QED
  BY <1>2, <1>3, <1>4, <1>5, <1>6, ThreadKeepsQuota DEF Next

\* However writers overlap, and whatever ClearData and restarts do, the log files exceed the
\* quota by less than the events of one period and one of each thread, unless a file could not
\* be removed or written.
THEOREM QuotaIsHeld == Spec => []QuotaHolds
<1>1. Init => BInv /\ QInv
  BY InitBInv, InitQInv
<1>2. BInv /\ QInv /\ [Next]_vars => (BInv /\ QInv)'
  BY NextBInv, NextQInv
<1>3. BInv /\ QInv => QuotaHolds
  <2> SUFFICES ASSUME BInv, QInv, faults = 0
               PROVE  LogSize < quota + Period + Cardinality(Threads)
    <3>1. TypeOK => faults \in Nat
      BY QNumbers DEF QTypes
    <3> QED
      BY <3>1 DEF QuotaHolds, BInv
  <2>1. QTypes
    BY QNumbers DEF BInv
  <2>2. Coming("native") \in Nat /\ Coming("cj") \in Nat
    BY <2>1 DEF QTypes, Writers
  <2>3. LogSize + Coming("native") + Coming("cj") <= quota + Owed + Several
    BY DEF QInv, FilesOK
  <2>4. Cardinality(Threads) \in Nat /\ Cardinality(Threads) >= 1
    BY FS_CardinalityType, FS_EmptySet, StorageAssumption
  <2>5. Several < Cardinality(Threads)
    BY <2>4 DEF Several
  <2> QED
    BY <2>1, <2>2, <2>3, <2>4, <2>5 DEF QTypes
<1> QED
  BY <1>1, <1>2, <1>3, PTL DEF Spec

--------------------------------------------------------------------------------
(* The tables.                                                                      *)

\* Who removes rows of the mapping, or has removed the events already.
Behind == {"agemap", "params", "mapping"}

NoClears == clears = 0 => ~Clearing
MapAlone == \A t \in Threads : op[t].pc = "map" => ~Clearing
Emptied == \A t \in Threads : op[t].pc \in {"params", "mapping"} => events = {}
Awaited == \A s \in Seqs(events) \ mapping : \E t \in Threads : op[t].pc = "map" /\ op[t].seq = s
Mapped == mapping \subseteq Seqs(events) \/ \E t \in Threads : op[t].pc \in Behind

\* While a clear and an insertion never overlap: an event that is not mapped is being mapped,
\* a mapping without event is about to go.
TablesOK == MapAlone /\ Emptied /\ Awaited /\ Mapped
TInv == NoClears /\ ParamsServeEvents /\ (~torn => TablesOK)

LEMMA SeqsGrow ==
    ASSUME NEW E, NEW F, E \subseteq F
    PROVE  Seqs(E) \subseteq Seqs(F)
BY DEF Seqs

LEMMA SeqsAdded ==
    ASSUME NEW E, NEW e
    PROVE  Seqs(E \cup {e}) = Seqs(E) \cup {e.seq}
BY DEF Seqs

\* A step between places that do not concern the tables.
LEMMA TablesKept ==
    ASSUME TInv, UNCHANGED <<events, mapping, clears, torn>>, ParamsServeEvents',
           \A u \in Threads :
               /\ op[u].pc = "map" \/ op'[u].pc = "map" => op'[u] = op[u]
               /\ op[u].pc \in Behind => op'[u].pc = op[u].pc
               /\ op'[u].pc \in {"params", "mapping"} => op[u].pc = op'[u].pc
               /\ op'[u].pc \in {"events", "params", "mapping", "logs"} =>
                      op[u].pc \in {"events", "params", "mapping", "logs"}
    PROVE  TInv'
<1>1. Clearing' => Clearing
  BY DEF Clearing
<1>2. NoClears'
  BY <1>1 DEF TInv, NoClears
<1>3. TablesOK => TablesOK'
  <2> SUFFICES ASSUME TablesOK PROVE TablesOK'
    OBVIOUS
  <2>1. MapAlone'
    BY <1>1 DEF TablesOK, MapAlone
  <2>2. Emptied'
    BY DEF TablesOK, Emptied
  <2>3. Awaited'
    BY DEF TablesOK, Awaited
  <2>4. Mapped'
    BY DEF TablesOK, Mapped
  <2> QED
    BY <2>1, <2>2, <2>3, <2>4 DEF TablesOK
<1>4. (~torn => TablesOK)'
  BY <1>3, Zenon DEF TInv
<1> QED
  BY <1>2, <1>4 DEF TInv

LEMMA ParamsStay ==
    ASSUME ParamsServeEvents, events' \subseteq events, params \subseteq params', clears' = clears
    PROVE  ParamsServeEvents'
BY DEF ParamsServeEvents

LEMMA QuietTables ==
    ASSUME BInv, TInv, NEW t \in Threads,
           \/ \E w \in Writers : WriteEvent(t, w)
           \/ CheckStorageSpace(t) \/ ClearLogSpace(t) \/ EndOfLogs(t) \/ DeleteUnusedParams(t)
           \/ Append(t) \/ NoObserver(t) \/ ClearLogs(t)
    PROVE  TInv'
<1>0. TypeOK
  BY DEF BInv
<1>1. ASSUME NEW from, NEW pc, NEW by, NEW size, NEW todo, NEW seq,
             Moved(t, pc, by, size, todo, seq), op[t].pc = from,
             from \notin {"map", "agemap", "params", "mapping"}, pc \notin {"map", "events", "params", "mapping", "logs"},
             UNCHANGED <<events, mapping, clears, torn>>, ParamsServeEvents'
      PROVE  TInv'
  <2>1. \A u \in Threads :
               /\ op[u].pc = "map" \/ op'[u].pc = "map" => op'[u] = op[u]
               /\ op[u].pc \in Behind => op'[u].pc = op[u].pc
               /\ op'[u].pc \in {"params", "mapping"} => op[u].pc = op'[u].pc
               /\ op'[u].pc \in {"events", "params", "mapping", "logs"} =>
                      op[u].pc \in {"events", "params", "mapping", "logs"}
    BY <1>1 DEF Moved, Behind
  <2> QED
    BY <1>1, <2>1, TablesKept
<1>2. UNCHANGED <<events, params, clears>> => ParamsServeEvents'
  BY ParamsStay DEF TInv
<1>3. ASSUME NEW w \in Writers, WriteEvent(t, w) PROVE TInv'
  <2>1. Moved(t, "lock", w, 0, {}, 0) /\ op[t].pc = "idle"
    BY <1>0, <1>3, WriteMoves
  <2>2. UNCHANGED <<events, mapping, params, clears, torn>>
    BY <1>3 DEF WriteEvent, tableVars, boundVars
  <2> QED
    BY <1>1, <1>2, <2>1, <2>2
<1>4. CASE CheckStorageSpace(t)
  <2>1. /\ op[t].pc = "lock"
        /\ \/ Moved(t, "append", op[t].by, op[t].size, op[t].todo, op[t].seq)
           \/ Moved(t, "shrink", op[t].by, LogSize + peak, {d \in 1..Days : logs[d] > 0}, op[t].seq)
    BY <1>0, <1>4, CheckMoves
  <2>2. UNCHANGED <<events, mapping, params, clears, torn>>
    BY <1>4 DEF CheckStorageSpace, tableVars, boundVars
  <2> QED
    BY <1>1, <1>2, <2>1, <2>2
<1>5. CASE ClearLogSpace(t)
  <2>1. /\ op[t].pc = "shrink"
        /\ \E d \in op[t].todo : Moved(t, "shrink", op[t].by, op'[t].size, op[t].todo \ {d}, op[t].seq)
    BY <1>0, <1>5, ShrinkMoves
  <2>2. UNCHANGED <<events, mapping, params, clears, torn>>
    BY <1>5 DEF ClearLogSpace, tableVars
  <2>3. PICK d \in op[t].todo : Moved(t, "shrink", op[t].by, op'[t].size, op[t].todo \ {d}, op[t].seq)
    BY <2>1
  <2> QED
    BY <1>1, <1>2, <2>1, <2>2, <2>3
<1>6. CASE EndOfLogs(t)
  <2>1. PICK pc \in {"append", "age"} : Goto(t, pc)
    BY <1>6 DEF EndOfLogs
  <2>2. Moved(t, pc, op[t].by, op[t].size, op[t].todo, op[t].seq)
    BY <1>0, <2>1, Going DEF Pcs
  <2>3. op[t].pc = "shrink" /\ UNCHANGED <<events, mapping, params, clears, torn>>
    BY <1>6 DEF EndOfLogs, At, tableVars, boundVars
  <2> QED
    BY <1>1, <1>2, <2>1, <2>2, <2>3
<1>7. CASE DeleteUnusedParams(t)
  <2>1. Moved(t, "append", op[t].by, op[t].size, op[t].todo, op[t].seq)
    BY <1>0, <1>7, Going DEF Pcs, DeleteUnusedParams
  <2>2. op[t].pc = "ageparams" /\ UNCHANGED <<events, mapping, clears, torn>>
    BY <1>7 DEF DeleteUnusedParams, At, boundVars
  <2>3. \A e \in events : e.run \in params => e.run \in params'
    BY <1>7 DEF DeleteUnusedParams, UnusedRuns
  <2>4. ParamsServeEvents'
    BY <2>2, <2>3 DEF TInv, ParamsServeEvents
  <2> QED
    BY <1>1, <2>1, <2>2, <2>4
<1>8. CASE Append(t)
  <2>1. /\ op[t].pc = "append" /\ UNCHANGED <<events, mapping, params, clears, torn>>
        /\ Goto(t, "insert") \/ Return(t)
    BY <1>8 DEF Append, At, tableVars
  <2>2. \/ Moved(t, "insert", op[t].by, op[t].size, op[t].todo, op[t].seq)
        \/ Moved(t, "idle", "native", 0, {}, 0)
    BY <1>0, <2>1, Going, Returning DEF Pcs
  <2> QED
    BY <1>1, <1>2, <2>1, <2>2
<1>9. CASE NoObserver(t)
  <2>1. Moved(t, "idle", "native", 0, {}, 0)
    BY <1>0, <1>9, Returning DEF NoObserver
  <2>2. op[t].pc = "insert" /\ UNCHANGED <<events, mapping, params, clears, torn>>
    BY <1>9 DEF NoObserver, At, tableVars, boundVars
  <2> QED
    BY <1>1, <1>2, <2>1, <2>2
<1>10. CASE ClearLogs(t)
  <2>1. Moved(t, "idle", "native", 0, {}, 0)
    BY <1>0, <1>10, Returning DEF ClearLogs
  <2>2. op[t].pc = "logs" /\ UNCHANGED <<events, mapping, params, clears, torn>>
    BY <1>10 DEF ClearLogs, At, tableVars, boundVars
  <2> QED
    BY <1>1, <1>2, <2>1, <2>2
<1> QED
  BY <1>3, <1>4, <1>5, <1>6, <1>7, <1>8, <1>9, <1>10

LEMMA AgeingTables ==
    ASSUME BInv, TInv, NEW t \in Threads, DeleteHistoryEvent(t) \/ DeleteUnusedEventMapping(t)
    PROVE  TInv'
<1>0. TypeOK
  BY DEF BInv
<1>1. CASE DeleteHistoryEvent(t)
  <2>1. /\ op[t].pc = "age" /\ UNCHANGED <<mapping, params, clears, torn>>
        /\ \/ events' \subseteq events /\ Goto(t, "agemap")
           \/ events' = events /\ Goto(t, "append")
    BY <1>1 DEF DeleteHistoryEvent, At, Newest, Of
  <2>2. \/ events' \subseteq events /\ Moved(t, "agemap", op[t].by, op[t].size, op[t].todo, op[t].seq)
        \/ events' = events /\ Moved(t, "append", op[t].by, op[t].size, op[t].todo, op[t].seq)
    BY <1>0, <2>1, Going DEF Pcs
  <2>3. PICK pc \in {"agemap", "append"} :
            /\ \A u \in Threads \ {t} : op'[u] = op[u]
            /\ op'[t].pc = pc /\ events' \subseteq events
            /\ pc = "append" => events' = events
    BY <2>2 DEF Moved
  <2>4. ParamsServeEvents'
    BY <2>1, <2>3, ParamsStay DEF TInv
  <2>5. Clearing' => Clearing
    BY <2>1, <2>3 DEF Clearing
  <2>6. NoClears'
    BY <2>1, <2>5 DEF TInv, NoClears
  <2>7. TablesOK => TablesOK'
    <3> SUFFICES ASSUME TablesOK PROVE TablesOK'
      OBVIOUS
    <3>1. MapAlone'
      BY <2>1, <2>3, <2>5 DEF TablesOK, MapAlone
    <3>2. Emptied'
      BY <2>1, <2>3 DEF TablesOK, Emptied
    <3>3. Seqs(events') \subseteq Seqs(events)
      BY <2>3, SeqsGrow
    <3>4. Awaited'
      <4> SUFFICES ASSUME NEW s \in Seqs(events') \ mapping
                   PROVE  \E u \in Threads : op'[u].pc = "map" /\ op'[u].seq = s
        BY <2>1 DEF Awaited, Seqs
      <4>1. PICK u \in Threads : op[u].pc = "map" /\ op[u].seq = s
        BY <3>3 DEF TablesOK, Awaited
      <4> QED
        BY <2>1, <2>3, <4>1
    <3>5. Mapped'
      <4>1. CASE pc = "agemap"
        BY <2>3, <4>1 DEF Mapped, Behind
      <4>2. CASE pc = "append"
        <5>1. \A u \in Threads : op[u].pc \in Behind => op'[u].pc \in Behind
          BY <2>1, <2>3 DEF Behind
        <5> QED
          BY <2>1, <2>3, <4>2, <5>1 DEF TablesOK, Mapped
      <4> QED
        BY <4>1, <4>2
    <3> QED
      BY <3>1, <3>2, <3>4, <3>5 DEF TablesOK
  <2>8. (~torn => TablesOK)'
    BY <2>1, <2>7, Zenon DEF TInv
  <2> QED
    BY <2>4, <2>6, <2>8 DEF TInv
<1>2. CASE DeleteUnusedEventMapping(t)
  <2>1. /\ op[t].pc = "agemap" /\ UNCHANGED <<events, params, clears>>
        /\ \/ mapping' = mapping \cap Seqs(events) /\ Goto(t, "ageparams") /\ torn' = torn
           \/ torn' = TRUE /\ Goto(t, "append")
    BY <1>2 DEF DeleteUnusedEventMapping, At, UsedMapping
  <2>2. PICK pc \in {"ageparams", "append"} : Moved(t, pc, op[t].by, op[t].size, op[t].todo, op[t].seq)
    BY <1>0, <2>1, Going DEF Pcs
  <2>3. /\ \A u \in Threads \ {t} : op'[u] = op[u]
        /\ op'[t].pc \in {"ageparams", "append"}
    BY <2>2 DEF Moved
  <2>4. ParamsServeEvents'
    BY <2>1, ParamsStay DEF TInv
  <2>5. Clearing' => Clearing
    BY <2>1, <2>3 DEF Clearing
  <2>6. NoClears'
    BY <2>1, <2>5 DEF TInv, NoClears
  <2>7. TablesOK /\ mapping' = mapping \cap Seqs(events) => TablesOK'
    <3> SUFFICES ASSUME TablesOK, mapping' = mapping \cap Seqs(events) PROVE TablesOK'
      OBVIOUS
    <3>1. MapAlone'
      BY <2>1, <2>3, <2>5 DEF TablesOK, MapAlone
    <3>2. Emptied'
      BY <2>1, <2>3 DEF TablesOK, Emptied
    <3>3. Awaited'
      <4> SUFFICES ASSUME NEW s \in Seqs(events) \ mapping
                   PROVE  \E u \in Threads : op'[u].pc = "map" /\ op'[u].seq = s
        BY <2>1 DEF Awaited, Seqs
      <4>1. PICK u \in Threads : op[u].pc = "map" /\ op[u].seq = s
        BY DEF TablesOK, Awaited
      <4> QED
        BY <2>1, <2>3, <4>1
    <3>4. Mapped'
      BY <2>1 DEF Mapped, Seqs
    <3> QED
      BY <3>1, <3>2, <3>3, <3>4 DEF TablesOK
  <2>8. (~torn => TablesOK)'
    BY <2>1, <2>7, Zenon DEF TInv
  <2> QED
    BY <2>4, <2>6, <2>8 DEF TInv
<1> QED
  BY <1>1, <1>2

LEMMA StoringTables ==
    ASSUME BInv, TInv, NEW t \in Threads, StoreEventsToDb(t) \/ StoreEventMappingToDb(t)
    PROVE  TInv'
<1>0. TypeOK
  BY DEF BInv
<1>1. CASE StoreEventsToDb(t)
  <2>1. /\ op[t].pc = "insert" /\ UNCHANGED <<mapping, params, clears>>
        /\ torn' = (torn \/ Clearing)
    BY <1>1 DEF StoreEventsToDb, At, boundVars
  <2>2. /\ \A u \in Threads \ {t} : op'[u] = op[u]
        /\ op'[t].pc = "map" /\ op'[t].seq = given + 1
    BY <1>0, <1>1, StoreMoves DEF Moved
  <2>3. run \in Nat /\ Insert(NewEvent(FALSE, run))
    BY <1>0, <1>1, Numbers DEF StoreEventsToDb
  <2> DEFINE new == NewEvent(FALSE, run)
  <2>4. events' = events \cup {new} /\ new.seq = given + 1
    BY <2>3, Inserted
  <2>5. Seqs(events') = Seqs(events) \cup {given + 1}
    BY <2>4, SeqsAdded
  <2>6. ParamsServeEvents'
    <3>1. new.params => new.run \in params
      BY Zenon DEF NewEvent
    <3> HIDE DEF new
    <3> QED
      BY <2>1, <2>4, <3>1 DEF TInv, ParamsServeEvents
  <2> HIDE DEF new
  <2>7. Clearing' => Clearing
    BY <2>1, <2>2 DEF Clearing
  <2>8. NoClears'
    BY <2>1, <2>7 DEF TInv, NoClears
  <2>9. ASSUME TablesOK, ~Clearing PROVE TablesOK'
    <3>1. MapAlone'
      BY <2>7, <2>9 DEF MapAlone
    <3>2. Emptied'
      BY <2>7, <2>9 DEF Emptied, Clearing
    <3>3. Awaited'
      <4> SUFFICES ASSUME NEW s \in Seqs(events') \ mapping
                   PROVE  \E u \in Threads : op'[u].pc = "map" /\ op'[u].seq = s
        BY <2>1 DEF Awaited, Seqs
      <4>1. CASE s = given + 1
        BY <2>2, <4>1
      <4>2. CASE s \in Seqs(events)
        <5>1. PICK u \in Threads : op[u].pc = "map" /\ op[u].seq = s
          BY <2>9, <4>2 DEF TablesOK, Awaited
        <5> QED
          BY <2>1, <2>2, <5>1
      <4> QED
        BY <2>5, <4>1, <4>2
    <3>4. Mapped'
      <4>1. CASE mapping \subseteq Seqs(events)
        <5>1. mapping' \subseteq Seqs(events')
          BY <2>1, <2>5, <4>1
        <5> QED
          BY <5>1 DEF Mapped, Seqs
      <4>2. CASE \E u \in Threads : op[u].pc \in Behind
        <5>1. \E u \in Threads : op'[u].pc \in Behind
          BY <2>1, <2>2, <4>2 DEF Behind
        <5> QED
          BY <5>1 DEF Mapped
      <4> QED
        BY <2>9, <4>1, <4>2 DEF TablesOK, Mapped
    <3> QED
      BY <3>1, <3>2, <3>3, <3>4 DEF TablesOK
  <2>10. (~torn => TablesOK)'
    BY <2>1, <2>9, Zenon DEF TInv
  <2> QED
    BY <2>6, <2>8, <2>10 DEF TInv
<1>2. CASE StoreEventMappingToDb(t)
  <2>1. /\ op[t].pc = "map" /\ UNCHANGED <<events, params, clears>>
        /\ Return(t)
        /\ torn' = (torn \/ Clearing \/ faults' # faults \/ op[t].seq \notin Seqs(events))
        /\ \/ mapping' = mapping \cup {op[t].seq}
           \/ Fault
    BY <1>2 DEF StoreEventMappingToDb, At
  <2>2. /\ \A u \in Threads \ {t} : op'[u] = op[u]
        /\ op'[t].pc = "idle"
    BY <1>0, <2>1, Returning DEF Moved
  <2>3. faults' = faults => ~Fault
    BY <1>0, Numbers DEF Fault
  <2>4. ParamsServeEvents'
    BY <2>1, ParamsStay DEF TInv
  <2>5. Clearing' => Clearing
    BY <2>1, <2>2 DEF Clearing
  <2>6. NoClears'
    BY <2>1, <2>5 DEF TInv, NoClears
  <2>7. ASSUME TablesOK, ~Clearing, faults' = faults, op[t].seq \in Seqs(events) PROVE TablesOK'
    <3>0. mapping' = mapping \cup {op[t].seq}
      BY <2>1, <2>3, <2>7
    <3>1. MapAlone'
      BY <2>5, <2>7 DEF MapAlone
    <3>2. Emptied'
      BY <2>5, <2>7 DEF Emptied, Clearing
    <3>3. Awaited'
      <4> SUFFICES ASSUME NEW s \in Seqs(events) \ mapping'
                   PROVE  \E u \in Threads : op'[u].pc = "map" /\ op'[u].seq = s
        BY <2>1 DEF Awaited, Seqs
      <4>1. PICK u \in Threads : op[u].pc = "map" /\ op[u].seq = s
        BY <2>7, <3>0 DEF TablesOK, Awaited
      <4>2. u # t
        BY <3>0, <4>1
      <4> QED
        BY <2>2, <4>1, <4>2
    <3>4. Mapped'
      <4>1. CASE mapping \subseteq Seqs(events)
        <5>1. mapping' \subseteq Seqs(events)
          BY <2>7, <3>0, <4>1
        <5> QED
          BY <2>1, <5>1 DEF Mapped, Seqs
      <4>2. CASE \E u \in Threads : op[u].pc \in Behind
        <5>1. \E u \in Threads : op'[u].pc \in Behind
          BY <2>1, <2>2, <4>2 DEF Behind
        <5> QED
          BY <5>1 DEF Mapped
      <4> QED
        BY <2>7, <4>1, <4>2 DEF TablesOK, Mapped
    <3> QED
      BY <3>1, <3>2, <3>3, <3>4 DEF TablesOK
  <2>8. (~torn => TablesOK)'
    BY <2>1, <2>7, Zenon DEF TInv
  <2> QED
    BY <2>4, <2>6, <2>8 DEF TInv
<1> QED
  BY <1>1, <1>2

LEMMA ClearingTables ==
    ASSUME BInv, TInv, NEW t \in Threads,
           \/ ClearData(t) \/ DeleteEvents(t) \/ DeleteCustomEventParams(t) \/ DeleteEventMapping(t)
    PROVE  TInv'
<1>0. TypeOK /\ clears \in Nat
  BY Numbers, Constants DEF BInv
<1>1. CASE ClearData(t)
  <2>1. /\ op[t].pc = "idle" /\ UNCHANGED <<events, mapping, params>>
        /\ clears' = clears + 1
        /\ torn' = (torn \/ \E s \in Threads : op[s].pc = "map")
        /\ Goto(t, "events")
    BY <1>1 DEF ClearData, Idle, tableVars
  <2>2. /\ \A u \in Threads \ {t} : op'[u] = op[u]
        /\ op'[t].pc = "events"
    BY <1>0, <2>1, Going DEF Moved, Pcs
  <2>3. NoClears' /\ ParamsServeEvents'
    BY <1>0, <2>1 DEF NoClears, ParamsServeEvents
  <2>4. ASSUME TablesOK, \A s \in Threads : ~(op[s].pc = "map") PROVE TablesOK'
    <3>1. MapAlone'
      BY <2>2, <2>4 DEF MapAlone
    <3>2. Emptied'
      BY <2>1, <2>2, <2>4 DEF TablesOK, Emptied
    <3>3. Awaited'
      BY <2>1, <2>4 DEF TablesOK, Awaited, Seqs
    <3>4. Mapped'
      <4>1. \A u \in Threads : op[u].pc \in Behind => op'[u].pc \in Behind
        BY <2>1, <2>2 DEF Behind
      <4> QED
        BY <2>1, <2>4, <4>1 DEF TablesOK, Mapped, Seqs
    <3> QED
      BY <3>1, <3>2, <3>3, <3>4 DEF TablesOK
  <2>5. (~torn => TablesOK)'
    BY <2>1, <2>4, Zenon DEF TInv
  <2> QED
    BY <2>3, <2>5 DEF TInv
<1>2. ASSUME NEW from, NEW pc, op[t].pc = from, from \in {"events", "params", "mapping"},
             pc \in {"params", "mapping", "logs"}, Goto(t, pc), clears' = clears,
             ParamsServeEvents',
             \/ torn' = TRUE
             \/ /\ torn' = torn
                /\ \/ from = "events" /\ pc = "params" /\ events' = {} /\ mapping' = mapping
                   \/ from = "params" /\ pc = "mapping" /\ events' = events /\ mapping' = mapping
                   \/ from = "mapping" /\ pc = "logs" /\ events' = events /\ mapping' = {}
      PROVE  TInv'
  <2>1. /\ \A u \in Threads \ {t} : op'[u] = op[u]
        /\ op'[t].pc = pc
    BY <1>0, <1>2, Going DEF Moved, Pcs
  <2>2. Clearing
    BY <1>2 DEF Clearing
  <2>3. NoClears'
    BY <1>2, <2>2 DEF TInv, NoClears
  <2>4. ASSUME TablesOK, torn' = torn, ~(torn' = TRUE) PROVE TablesOK'
    <3>1. \A u \in Threads : op[u].pc # "map" /\ op'[u].pc # "map"
      BY <1>2, <2>1, <2>2, <2>4 DEF TablesOK, MapAlone
    <3>2. events' = {}
      BY <1>2, <2>4 DEF TablesOK, Emptied
    <3>3. MapAlone'
      BY <3>1 DEF MapAlone
    <3>4. Emptied'
      BY <3>2 DEF Emptied
    <3>5. Awaited'
      BY <3>2 DEF Awaited, Seqs
    <3>6. Mapped'
      <4>1. CASE from = "events" \/ from = "params"
        <5>1. op'[t].pc \in Behind
          BY <1>2, <2>1, <2>4, <4>1 DEF Behind
        <5> QED
          BY <5>1 DEF Mapped
      <4>2. CASE from = "mapping"
        BY <1>2, <2>4, <4>2 DEF Mapped
      <4> QED
        BY <1>2, <4>1, <4>2
    <3> QED
      BY <3>3, <3>4, <3>5, <3>6 DEF TablesOK
  <2>5. (~torn => TablesOK)'
    <3>1. CASE torn' = TRUE
      BY <3>1, Zenon
    <3>2. CASE torn' = torn /\ ~(torn' = TRUE)
      <4>1. ~torn' => ~torn
        BY <3>2, Zenon
      <4> QED
        BY <2>4, <3>2, <4>1, Zenon DEF TInv
    <3>3. torn' = torn \/ torn' = TRUE
      BY <1>2, Zenon
    <3> QED
      BY <3>1, <3>2, <3>3, Zenon
  <2> QED
    BY <1>2, <2>3, <2>5 DEF TInv
<1>3. CASE DeleteEvents(t)
  <2>1. /\ op[t].pc = "events" /\ Goto(t, "params") /\ UNCHANGED <<params, mapping, clears>>
        /\ \/ events' = {} /\ torn' = torn
           \/ events' = events /\ torn' = TRUE
    BY <1>3 DEF DeleteEvents, ClearTable, At
  <2>2. ParamsServeEvents'
    BY <2>1, ParamsStay DEF TInv
  <2> QED
    BY <1>2, <2>1, <2>2
<1>4. CASE DeleteCustomEventParams(t)
  <2>1. /\ op[t].pc = "params" /\ Goto(t, "mapping") /\ UNCHANGED <<events, mapping, clears>>
        /\ \/ torn' = torn
           \/ torn' = TRUE
    BY <1>4 DEF DeleteCustomEventParams, ClearTable, At
  <2>2. clears # 0
    BY <2>1 DEF TInv, NoClears, Clearing
  <2>3. ParamsServeEvents'
    BY <1>0, <2>1, <2>2 DEF ParamsServeEvents
  <2> QED
    BY <1>2, <2>1, <2>3
<1>5. CASE DeleteEventMapping(t)
  <2>1. /\ op[t].pc = "mapping" /\ Goto(t, "logs") /\ UNCHANGED <<events, params, clears>>
        /\ \/ mapping' = {} /\ torn' = torn
           \/ torn' = TRUE
    BY <1>5 DEF DeleteEventMapping, ClearTable, At
  <2>2. ParamsServeEvents'
    BY <2>1, ParamsStay DEF TInv
  <2> QED
    BY <1>2, <2>1, <2>2
<1> QED
  BY <1>1, <1>3, <1>4, <1>5

LEMMA OtherTables ==
    ASSUME BInv, TInv, (\E r \in 0..MaxTroubles : HandleOsEvent(r)) \/ SetEventParam \/ NextDay \/ Crash
    PROVE  TInv'
<1>1. ASSUME NEW r \in 0..MaxTroubles, HandleOsEvent(r) PROVE TInv'
  <2>1. /\ ~Clearing /\ mapping' = mapping \cup {given + 1}
        /\ Insert(NewEvent(TRUE, r)) /\ UNCHANGED <<params, op, clears, torn>>
    BY <1>1 DEF HandleOsEvent, boundVars
  <2> DEFINE new == NewEvent(TRUE, r)
  <2>2. events' = events \cup {new} /\ new.seq = given + 1
    <3>1. TRUE \in BOOLEAN /\ r \in Nat
      BY Constants
    <3> QED
      BY <2>1, <3>1, Inserted
  <2>3. Seqs(events') = Seqs(events) \cup {given + 1}
    BY <2>2, SeqsAdded
  <2>4. ParamsServeEvents'
    <3>1. new.params => new.run \in params
      BY Zenon DEF NewEvent
    <3> HIDE DEF new
    <3> QED
      BY <2>1, <2>2, <3>1 DEF TInv, ParamsServeEvents
  <2> HIDE DEF new
  <2>5. NoClears'
    BY <2>1 DEF TInv, NoClears, Clearing
  <2>6. ASSUME TablesOK PROVE TablesOK'
    <3>1. ~Clearing'
      BY <2>1 DEF Clearing
    <3>2. MapAlone' /\ Emptied'
      BY <3>1 DEF MapAlone, Emptied, Clearing
    <3>3. Awaited'
      <4> SUFFICES ASSUME NEW s \in Seqs(events') \ mapping'
                   PROVE  \E u \in Threads : op'[u].pc = "map" /\ op'[u].seq = s
        BY DEF Awaited, Seqs
      <4> QED
        BY <2>1, <2>3, <2>6 DEF TablesOK, Awaited
    <3>4. Mapped'
      <4>1. mapping \subseteq Seqs(events) => mapping' \subseteq Seqs(events')
        BY <2>1, <2>3
      <4> QED
        BY <2>1, <2>6, <4>1 DEF TablesOK, Mapped, Seqs
    <3> QED
      BY <3>2, <3>3, <3>4 DEF TablesOK
  <2>7. (~torn => TablesOK)'
    BY <2>1, <2>6, Zenon DEF TInv
  <2> QED
    BY <2>4, <2>5, <2>7 DEF TInv
<1>2. ASSUME UNCHANGED <<events, mapping, op, clears, torn>>, params \subseteq params' PROVE TInv'
  <2>1. ParamsServeEvents'
    BY <1>2, ParamsStay DEF TInv
  <2> QED
    BY <1>2, <2>1, TablesKept
<1>3. CASE SetEventParam
  BY <1>2, <1>3 DEF SetEventParam, boundVars
<1>4. CASE NextDay
  BY <1>2, <1>4 DEF NextDay, tableVars, boundVars
<1>5. CASE Crash
  <2>1. /\ UNCHANGED <<events, mapping, params, clears>>
        /\ torn' = (torn \/ ~AtRest)
        /\ \A u \in Threads : op'[u].pc = "idle"
    BY <1>5 DEF Crash, tableVars, Idle
  <2>2. ~Clearing'
    BY <2>1 DEF Clearing
  <2>3. NoClears' /\ ParamsServeEvents'
    BY <2>1, <2>2, ParamsStay DEF TInv, NoClears
  <2>4. ASSUME TablesOK, AtRest PROVE TablesOK'
    <3>1. \A u \in Threads : op[u].pc = "idle"
      BY <2>4 DEF AtRest, Idle
    <3>2. MapAlone' /\ Emptied'
      BY <2>1 DEF MapAlone, Emptied
    <3>3. Awaited' /\ Mapped'
      BY <2>1, <2>4, <3>1 DEF TablesOK, Awaited, Mapped, Behind, Seqs
    <3> QED
      BY <3>2, <3>3 DEF TablesOK
  <2>5. (~torn => TablesOK)'
    BY <2>1, <2>4, Zenon DEF TInv
  <2> QED
    BY <2>3, <2>5 DEF TInv
<1> QED
  BY <1>1, <1>3, <1>4, <1>5

LEMMA NextTInv == BInv /\ TInv /\ [Next]_vars => TInv'
<1> SUFFICES ASSUME BInv, TInv, [Next]_vars PROVE TInv'
  OBVIOUS
<1>1. CASE UNCHANGED vars
  <2>1. UNCHANGED <<events, mapping, params, op, clears, torn>>
    BY <1>1 DEF vars, tableVars, boundVars
  <2>2. ParamsServeEvents'
    BY <2>1, ParamsStay DEF TInv
  <2> QED
    BY <2>1, <2>2, TablesKept
<1> QED
  BY <1>1, QuietTables, AgeingTables, StoringTables, ClearingTables, OtherTables DEF Next, Step

\* At rest the stored events are the mapped ones, for any threads, if no clear overlapped the
\* storing of an event, no statement of either failed and no process ended half way; and the
\* parameters an event was stored with are kept by ageing.
THEOREM TablesDoAgree == Spec => []TablesAgree
<1>1. Init => BInv /\ TInv
  <2> SUFFICES ASSUME Init PROVE TInv
    BY InitBInv
  <2>1. \A t \in Threads : op[t].pc = "idle"
    BY DEF Init, Idle
  <2> QED
    BY <2>1 DEF Init, TInv, TablesOK, NoClears, Clearing, ParamsServeEvents, MapAlone, Emptied, Awaited,
              Mapped, Seqs
<1>2. BInv /\ TInv /\ [Next]_vars => (BInv /\ TInv)'
  BY NextBInv, NextTInv
<1>3. TInv => TablesAgree
  <2> SUFFICES ASSUME TInv, AtRest, TablesOK PROVE Seqs(events) = mapping
    BY Zenon DEF TInv, TablesAgree
  <2>1. \A t \in Threads : op[t].pc = "idle"
    BY DEF AtRest, Idle
  <2> QED
    BY <2>1 DEF TablesOK, Awaited, Mapped, Behind
<1> QED
  BY <1>1, <1>2, <1>3, PTL DEF Spec
================================================================================
