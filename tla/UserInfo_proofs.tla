---------------------------- MODULE UserInfo_proofs ----------------------------
(* Machine-checked proofs about UserInfo, for any callers, reporters, processors,  *)
(* names, values and report configurations, and for any number of calls.           *)
EXTENDS UserInfo, TLAPS

Calls == [pc : {"idle", "query", "insert", "update", "set", "delete", "erase"},
          kind : Kinds, name : SUBSET Names, value : SUBSET Values]
Reads == [proxy : SUBSET Proxies, kind : Kinds, version : Versions]
Caches == [version : Versions \cup {None}, values : SUBSET Pairs]

\* A call is about one name, and a call that sets has one value.
OneName(c) ==
    IF c.pc = "idle" THEN c = Idle
    ELSE /\ \E n \in Names : c.name = {n}
         /\ c.pc \in {"query", "insert", "update", "set"} => \E v \in Values : c.value = {v}
CallOK == \A t \in Callers : OneName(call[t])

\* Every version since the start has its values in the history; the last are the memory's.
PastOK ==
    \A k \in Kinds :
        Len(past[k]) = version[k] + 1 /\ past[k][version[k] + 1] = memory[k]

\* What a reporter has read is no later than now, unless a ClearData has come between.
ReadOK ==
    \A r \in Reporters :
        onEvents[r].proxy # {} /\ <<r, onEvents[r].kind>> \notin misfit =>
            onEvents[r].version <= version[onEvents[r].kind]

CacheOK ==
    \A p \in Proxies, k \in Kinds :
        cache[p][k].version # None /\ <<p, k>> \notin misfit =>
            \E w \in Versions : /\ cache[p][k].version <= w /\ w <= version[k]
                                /\ cache[p][k].values = Valid(p, past[k][w + 1])

\* The sequences of a table's rows have been given.
GivenOK == \A k \in Kinds : \A r \in rows[k] : r[1] <= given[k]

\* Whoever is busy with a name nobody overlapped for is alone, and no ClearData runs.
Busy(t, k, n) == call[t].kind = k /\ n \in call[t].name

AloneAt(k, n) ==
    \A t \in Callers : Busy(t, k, n) =>
        clear = "idle" /\ \A u \in Callers \ {t} : ~Busy(u, k, n)

AloneOK == \A k \in Kinds, n \in Names : <<k, n>> \notin disturbed => AloneAt(k, n)

\* The rows of a name, and what the memory has for it.
Rows(k, n) == RowsOf({n}, rows[k])
Remembered(k, n) == Named({n}, memory[k])

\* A name nobody overlapped for has at most one row ...
OneRowOK ==
    \A k \in Kinds, n \in Names : <<k, n>> \notin disturbed =>
        \A q, r \in Rows(k, n) : q = r

\* ... whose value is the memory's, unless a call is between the two or a clear runs: one
\* that removes has taken the row away, one that sets has stored its value, and one that is
\* to insert has seen that there is no row.
Agree(k, n) == {r[2] : r \in Rows(k, n)} = Remembered(k, n)

Between(t, k, n) == Busy(t, k, n) /\ call[t].pc \in {"set", "erase"}

Seen(t, k, n) ==
    Busy(t, k, n) =>
        /\ call[t].pc \in {"insert", "erase"} => Rows(k, n) = {}
        /\ call[t].pc = "update" => Rows(k, n) # {}
        /\ call[t].pc = "set" =>
                {r[2] : r \in Rows(k, n)} = call[t].name \X call[t].value

AgreeAt(k, n) ==
    /\ clear # "idle" \/ (\E t \in Callers : Between(t, k, n)) \/ Agree(k, n)
    /\ \A t \in Callers : Seen(t, k, n)

AgreeOK == \A k \in Kinds, n \in Names : <<k, n>> \notin disturbed => AgreeAt(k, n)

\* A clear has emptied the memory, and then the tables in turn.
ClearOK ==
    clear # "idle" => \A k \in Kinds, n \in Names : <<k, n>> \notin disturbed =>
        /\ Remembered(k, n) = {}
        /\ clear = "property" /\ k = "id" => Rows(k, n) = {}

IInv ==
    /\ TypeOK /\ CallOK /\ PastOK /\ ReadOK /\ CacheOK /\ GivenOK
    /\ AloneOK /\ OneRowOK /\ AgreeOK /\ ClearOK

--------------------------------------------------------------------------------
(* The tables.                                                                     *)

LEMMA BoundsAreNat ==
    /\ MaxCalls \in Nat /\ Accepted \subseteq Values /\ Proxies \cap Reporters = {}
    /\ Kinds = {"id", "property"} /\ None \notin Nat
BY UserInfoAssumption DEF Kinds, None

LEMMA IdleIs == Idle \in Calls /\ Idle.pc = "idle" /\ Idle.name = {} /\ Idle.kind \in Kinds
BY DEF Idle, Calls, Kinds

LEMMA FreeIs == Free \in Reads /\ Free.proxy = {} /\ Free.version = 0
BY DEF Free, Reads, Kinds, Versions

\* An insertion adds a row of the name, and leaves the others.
Inserted(T, s, n, v, T1) ==
    /\ T1 \in SUBSET (Nat \X Pairs)
    /\ RowsOf({n}, T1) = RowsOf({n}, T) \cup {<<s, <<n, v>>>>}
    /\ \A m \in Names \ {n} : RowsOf({m}, T1) = RowsOf({m}, T)
    /\ \A r \in T1 : r \in T \/ r[1] = s

LEMMA InsertRows ==
    ASSUME NEW T \in SUBSET (Nat \X Pairs), NEW s \in Nat, NEW n \in Names, NEW v \in Values,
           NEW T1, T1 = Insert(T, s, {n}, {v})
    PROVE  Inserted(T, s, n, v, T1)
<1> DEFINE row == <<s, <<n, v>>>>
<1>1. T1 = T \cup {row}
  BY DEF Insert
<1>2. row \in Nat \X Pairs /\ row[1] = s /\ row[2][1] = n
  BY DEF Pairs
<1> HIDE DEF row
<1>3. /\ RowsOf({n}, T1) = RowsOf({n}, T) \cup {row}
      /\ \A m \in Names \ {n} : RowsOf({m}, T1) = RowsOf({m}, T)
  BY <1>1, <1>2 DEF RowsOf
<1> QED
  BY <1>1, <1>2, <1>3 DEF row, Inserted

\* An update gives each row of the name the new value, and leaves the others.
Updated(T, n, v, T1) ==
    /\ T1 \in SUBSET (Nat \X Pairs)
    /\ RowsOf({n}, T1) = {<<r[1], <<n, v>>>> : r \in RowsOf({n}, T)}
    /\ \A m \in Names \ {n} : RowsOf({m}, T1) = RowsOf({m}, T)
    /\ \A q \in T1 : \E r \in T : q[1] = r[1]

LEMMA UpdateRows ==
    ASSUME NEW T \in SUBSET (Nat \X Pairs), NEW n \in Names, NEW v \in Values,
           NEW T1, T1 = Update(T, {n}, {v})
    PROVE  Updated(T, n, v, T1)
<1> DEFINE New == {<<r[1], <<n, v>>>> : r \in RowsOf({n}, T)}
<1>1. T1 = (T \ RowsOf({n}, T)) \cup New
  BY DEF Update, RowsOf
<1>2. \A q \in New : q \in Nat \X Pairs /\ q[2][1] = n /\ \E r \in T : q[1] = r[1]
  BY DEF RowsOf, Pairs
<1>3. \A r \in T : r \in RowsOf({n}, T) <=> r[2][1] = n
  BY DEF RowsOf
<1> HIDE DEF New
<1>4. /\ RowsOf({n}, T1) = New
      /\ \A m \in Names \ {n} : RowsOf({m}, T1) = RowsOf({m}, T)
  BY <1>1, <1>2, <1>3 DEF RowsOf
<1> QED
  BY <1>1, <1>2, <1>4 DEF New, Updated

\* A deletion takes the rows of the names, and leaves the others.
Deleted(T, N, T1) ==
    /\ T1 \in SUBSET (Nat \X Pairs) /\ T1 \subseteq T
    /\ \A m \in N : RowsOf({m}, T1) = {}
    /\ \A m \in Names \ N : RowsOf({m}, T1) = RowsOf({m}, T)

LEMMA DeleteRowsOf ==
    ASSUME NEW T \in SUBSET (Nat \X Pairs), NEW N \in SUBSET Names
    PROVE  Deleted(T, N, Delete(T, N))
BY DEF Deleted, Delete, RowsOf

\* Where a name has one row, QueryAll reads its value.
AllRead(T, values) ==
    /\ values \in SUBSET Pairs
    /\ \A n \in Names : (\A q, r \in RowsOf({n}, T) : q = r) =>
            Named({n}, values) = {r[2] : r \in RowsOf({n}, T)}

LEMMA QueryAllGives ==
    ASSUME NEW T \in SUBSET (Nat \X Pairs)
    PROVE  AllRead(T, QueryAll(T))
<1>1. QueryAll(T) \in SUBSET Pairs
  BY DEF QueryAll
<1>2. ASSUME NEW n \in Names, \A q, r \in RowsOf({n}, T) : q = r
      PROVE  Named({n}, QueryAll(T)) = {r[2] : r \in RowsOf({n}, T)}
  <2>1. \A q \in RowsOf({n}, T) : q \in T /\ q[2][1] = n /\ q[1] \in Nat
    BY DEF RowsOf
  <2>2. \A q \in RowsOf({n}, T) : \A p \in RowsOf({q[2][1]}, T) : p[1] <= q[1]
    <3> SUFFICES ASSUME NEW q \in RowsOf({n}, T), NEW p \in RowsOf({q[2][1]}, T)
                 PROVE  p[1] <= q[1]
      OBVIOUS
    <3>1. p \in RowsOf({n}, T)
      BY <2>1
    <3>2. p = q
      BY <1>2, <3>1
    <3> QED
      BY <2>1, <3>2
  <2>3. \A q \in RowsOf({n}, T) : q[2] \in Named({n}, QueryAll(T))
    BY <2>1, <2>2 DEF QueryAll, Named
  <2>4. \A x \in Named({n}, QueryAll(T)) : \E q \in RowsOf({n}, T) : x = q[2]
    BY DEF Named, QueryAll, RowsOf
  <2> QED
    BY <2>3, <2>4
<1> QED
  BY <1>1, <1>2 DEF AllRead

--------------------------------------------------------------------------------
(* The versions.                                                                   *)

\* A change appends a version, and leaves the earlier ones and the other kind.
LEMMA ChangeGives ==
    ASSUME memory \in [Kinds -> SUBSET Pairs], version \in [Kinds -> Nat],
           past \in [Kinds -> Seq(SUBSET Pairs)], PastOK,
           NEW k \in Kinds, NEW values \in SUBSET Pairs, Change(k, values)
    PROVE  /\ memory' \in [Kinds -> SUBSET Pairs] /\ version' \in [Kinds -> Nat]
           /\ past' \in [Kinds -> Seq(SUBSET Pairs)]
           /\ memory'[k] = values /\ \A j \in Kinds \ {k} : memory'[j] = memory[j]
           /\ \A j \in Kinds : version[j] <= version'[j]
           /\ \A j \in Kinds, w \in Nat : w <= version[j] => past'[j][w + 1] = past[j][w + 1]
           /\ PastOK'
<1>1. /\ memory' \in [Kinds -> SUBSET Pairs] /\ version' \in [Kinds -> Nat]
      /\ past' \in [Kinds -> Seq(SUBSET Pairs)]
      /\ memory'[k] = values /\ version'[k] = version[k] + 1 /\ past'[k] = Append(past[k], values)
      /\ \A j \in Kinds \ {k} : memory'[j] = memory[j] /\ version'[j] = version[j] /\ past'[j] = past[j]
  BY DEF Change
<1>2. past[k] \in Seq(SUBSET Pairs) /\ version[k] \in Nat /\ Len(past[k]) = version[k] + 1
  BY DEF PastOK
<1>3. /\ Len(past'[k]) = version'[k] + 1 /\ past'[k][version'[k] + 1] = memory'[k]
      /\ \A w \in Nat : w <= version[k] => past'[k][w + 1] = past[k][w + 1]
  BY <1>1, <1>2
<1>4. \A j \in Kinds : version[j] <= version'[j]
  BY <1>1, <1>2
<1>5. \A j \in Kinds, w \in Nat : w <= version[j] => past'[j][w + 1] = past[j][w + 1]
  BY <1>1, <1>3
<1>6. PastOK'
  BY <1>1, <1>3 DEF PastOK
<1> QED
  BY <1>1, <1>4, <1>5, <1>6

\* What was read and cached stays as old as it was while versions only grow.
LEMMA ReadKept ==
    ASSUME ReadOK, version \in [Kinds -> Nat], version' \in [Kinds -> Nat],
           onEvents \in [Reporters -> Reads],
           UNCHANGED <<onEvents, misfit>>, \A j \in Kinds : version[j] <= version'[j]
    PROVE  ReadOK'
<1> SUFFICES ASSUME NEW r \in Reporters, onEvents[r].proxy # {}, <<r, onEvents[r].kind>> \notin misfit
             PROVE  onEvents[r].version <= version'[onEvents[r].kind]
  BY DEF ReadOK
<1>1. onEvents[r].kind \in Kinds /\ onEvents[r].version \in Nat
  BY DEF Reads, Versions
<1>2. onEvents[r].version <= version[onEvents[r].kind]
  BY DEF ReadOK
<1> QED
  BY <1>1, <1>2

LEMMA CacheKept ==
    ASSUME CacheOK, version \in [Kinds -> Nat], version' \in [Kinds -> Nat],
           UNCHANGED <<cache, config, misfit>>,
           \A j \in Kinds : version[j] <= version'[j],
           \A j \in Kinds, w \in Nat : w <= version[j] => past'[j][w + 1] = past[j][w + 1]
    PROVE  CacheOK'
<1> SUFFICES ASSUME NEW p \in Proxies, NEW k \in Kinds,
                    cache[p][k].version # None, <<p, k>> \notin misfit
             PROVE  \E w \in Versions : /\ cache[p][k].version <= w /\ w <= version'[k]
                                        /\ cache[p][k].values = Valid(p, past[k][w + 1])'
  BY DEF CacheOK
<1>1. PICK w \in Nat : /\ cache[p][k].version <= w /\ w <= version[k]
                       /\ cache[p][k].values = Valid(p, past[k][w + 1])
  BY DEF CacheOK, Versions
<1>2. w <= version'[k] /\ past'[k][w + 1] = past[k][w + 1]
  BY <1>1
<1>3. Valid(p, past[k][w + 1])' = Valid(p, past[k][w + 1])
  BY <1>2 DEF Valid
<1> QED
  BY <1>1, <1>2, <1>3 DEF Versions

--------------------------------------------------------------------------------
(* Steps of one caller.                                                            *)

LEMMA BusyIs ==
    ASSUME CallOK, call \in [Callers -> Calls], NEW t \in Callers,
           NEW k \in Kinds, NEW n \in Names, Busy(t, k, n)
    PROVE  call[t].pc # "idle" /\ call[t].kind = k /\ call[t].name = {n}
BY IdleIs DEF CallOK, OneName, Busy

\* Who goes on with its call, or ends it, disturbs nobody.
LEMMA AloneKept ==
    ASSUME AloneOK, NEW t \in Callers, \A u \in Callers \ {t} : call'[u] = call[u],
           \A k \in Kinds, n \in Names : Busy(t, k, n)' => Busy(t, k, n),
           disturbed \subseteq disturbed', clear' = clear
    PROVE  AloneOK'
<1> SUFFICES ASSUME NEW k \in Kinds, NEW n \in Names, <<k, n>> \notin disturbed',
                    NEW u \in Callers, Busy(u, k, n)'
             PROVE  clear' = "idle" /\ \A v \in Callers \ {u} : ~Busy(v, k, n)'
  BY DEF AloneOK, AloneAt
<1>1. \A v \in Callers : Busy(v, k, n)' => Busy(v, k, n)
  BY DEF Busy
<1>2. AloneAt(k, n)
  BY DEF AloneOK
<1> QED
  BY <1>1, <1>2 DEF AloneAt

\* A name that a step is not about stays as it is.
LEMMA AgreeElse ==
    ASSUME NEW t \in Callers, \A u \in Callers \ {t} : call'[u] = call[u],
           NEW k \in Kinds, NEW n \in Names, AgreeAt(k, n),
           ~Busy(t, k, n), ~Busy(t, k, n)', clear' = clear,
           Rows(k, n)' = Rows(k, n),
           Remembered(k, n)' = Remembered(k, n)
    PROVE  AgreeAt(k, n)'
<1>1. \A u \in Callers \ {t} : /\ Between(u, k, n)' <=> Between(u, k, n)
                              /\ Seen(u, k, n)' <=> Seen(u, k, n)
  BY DEF Between, Seen, Busy
<1>2. ~Between(t, k, n) /\ Seen(t, k, n)'
  BY DEF Between, Seen
<1>3. Agree(k, n)' <=> Agree(k, n)
  BY DEF Agree
<1> QED
  BY <1>1, <1>2, <1>3 DEF AgreeAt

\* A name that one caller alone is busy with agrees if the caller does.
LEMMA AgreeAlone ==
    ASSUME NEW t \in Callers, \A u \in Callers \ {t} : call'[u] = call[u],
           NEW k \in Kinds, NEW n \in Names, \A u \in Callers \ {t} : ~Busy(u, k, n),
           Between(t, k, n)' \/ Agree(k, n)', Seen(t, k, n)'
    PROVE  AgreeAt(k, n)'
<1>1. \A u \in Callers \ {t} : ~Busy(u, k, n)'
  BY DEF Busy
<1> QED
  BY <1>1 DEF AgreeAt, Seen

\* What a step of the processors leaves alone stays as it is.
LEMMA AgreeKept ==
    ASSUME AgreeOK, UNCHANGED <<rows, memory, call, clear, disturbed>>
    PROVE  AgreeOK'
<1> SUFFICES ASSUME NEW k \in Kinds, NEW n \in Names, <<k, n>> \notin disturbed
             PROVE  AgreeAt(k, n)'
  BY DEF AgreeOK
<1>1. AgreeAt(k, n)
  BY DEF AgreeOK
<1>2. Rows(k, n)' = Rows(k, n) /\ Remembered(k, n)' = Remembered(k, n)
  BY DEF Rows, Remembered
<1>3. Agree(k, n)' <=> Agree(k, n)
  BY <1>2 DEF Agree
<1>4. \A t \in Callers : /\ Between(t, k, n)' <=> Between(t, k, n)
                         /\ Seen(t, k, n)' <=> Seen(t, k, n)
  BY <1>2 DEF Between, Seen, Busy
<1> QED
  BY <1>1, <1>3, <1>4 DEF AgreeAt

--------------------------------------------------------------------------------
LEMMA InitIInv == Init => IInv
<1> SUFFICES ASSUME Init PROVE IInv
  OBVIOUS
<1>0. /\ \A k \in Kinds : /\ rows[k] = {} /\ memory[k] = {} /\ version[k] = 0
                          /\ past[k] = <<{}>> /\ given[k] = 0
      /\ \A t \in Callers : call[t] = Idle
      /\ \A r \in Reporters : onEvents[r] = Free
      /\ \A p \in Proxies, k \in Kinds : cache[p][k].version = None
      /\ clear = "idle"
  BY DEF Init, NoCache
<1>1. TypeOK
  <2>1. call \in [Callers -> Calls] /\ onEvents \in [Reporters -> Reads]
    BY IdleIs, FreeIs DEF Init
  <2>2. cache \in [Proxies -> [Kinds -> Caches]]
    BY DEF Init, NoCache, Caches
  <2>3. past \in [Kinds -> Seq(SUBSET Pairs)]
    BY DEF Init
  <2> QED
    BY <2>1, <2>2, <2>3, BoundsAreNat DEF Init, TypeOK, Calls, Reads, Caches, Versions
<1>2. CallOK /\ ReadOK /\ CacheOK /\ GivenOK
  BY <1>0, IdleIs, FreeIs DEF CallOK, OneName, ReadOK, CacheOK, GivenOK
<1>5. PastOK
  <2>1. Len(<<{}>>) = 1 /\ <<{}>>[1] = {}
    OBVIOUS
  <2> QED
    <3>1. \A k \in Kinds : version[k] + 1 = 1
      BY <1>0
    <3> QED
      BY <1>0, <2>1, <3>1 DEF PastOK
<1>3. AloneOK /\ OneRowOK /\ ClearOK
  BY <1>0, IdleIs DEF AloneOK, AloneAt, Busy, OneRowOK, Rows, RowsOf, ClearOK, Remembered, Named
<1>4. AgreeOK
  BY <1>0, IdleIs DEF AgreeOK, AgreeAt, Seen, Agree, Busy, Rows, RowsOf, Remembered, Named
<1> QED
  BY <1>1, <1>2, <1>3, <1>4, <1>5 DEF IInv

LEMMA NextIInv == IInv /\ [Next]_vars => IInv'
<1> SUFFICES ASSUME IInv, [Next]_vars PROVE IInv'
  OBVIOUS
<1>0. /\ TypeOK /\ CallOK /\ PastOK /\ ReadOK /\ CacheOK /\ GivenOK
      /\ AloneOK /\ OneRowOK /\ AgreeOK /\ ClearOK
  BY DEF IInv
<1>t. /\ rows \in [Kinds -> SUBSET (Nat \X Pairs)] /\ given \in [Kinds -> Nat]
      /\ memory \in [Kinds -> SUBSET Pairs] /\ version \in [Kinds -> Nat]
      /\ call \in [Callers -> Calls] /\ clear \in {"idle", "id", "property"}
      /\ config \in [Proxies -> Configs] /\ cache \in [Proxies -> [Kinds -> Caches]]
      /\ onEvents \in [Reporters -> Reads] /\ past \in [Kinds -> Seq(SUBSET Pairs)]
      /\ misfit \subseteq (Proxies \cup Reporters) \X Kinds
      /\ disturbed \subseteq Kinds \X Names /\ calls \in 0..MaxCalls
  BY <1>0 DEF TypeOK, Calls, Reads, Caches, Versions
<1> USE IdleIs
<1>1. ASSUME NEW t \in Callers, NEW k \in Kinds, NEW n \in Names, NEW V \in {{}} \cup {{v} : v \in Values}, Start(t, k, n, V)
      PROVE IInv'
  <2>0. /\ call[t].pc = "idle" /\ calls' \in 0..MaxCalls
        /\ call' \in [Callers -> Calls]
        /\ call'[t].pc = (IF V = {} THEN "delete" ELSE "query")
        /\ call'[t].kind = k /\ call'[t].name = {n} /\ call'[t].value = V
        /\ V # {} => \E v \in Values : V = {v}
        /\ \A u \in Callers \ {t} : call'[u] = call[u]
        /\ disturbed \subseteq disturbed' /\ disturbed' \subseteq Kinds \X Names
        /\ clear # "idle" \/ (\E u \in Callers : Busy(u, k, n)) => <<k, n>> \in disturbed'
        /\ UNCHANGED <<rows, given, memory, version, clear, past, config, cache, onEvents, misfit>>
    <3>1. [pc |-> IF V = {} THEN "delete" ELSE "query", kind |-> k, name |-> {n}, value |-> V] \in Calls
      BY DEF Calls
    <3>2. calls' \in 0..MaxCalls
      BY <1>t, <1>1, BoundsAreNat DEF Start
    <3> QED
      BY <1>t, <1>1, <3>1, <3>2 DEF Start, Overlapping, Busy, proxyVars
  <2>1. TypeOK'
    BY <1>t, <2>0, BoundsAreNat DEF TypeOK, Calls, Reads, Caches, Versions
  <2>2. CallOK'
    <3>1. \A u \in Callers \ {t} : OneName(call'[u])
      BY <1>0, <2>0 DEF CallOK
    <3>2. OneName(call'[t])
      BY <1>0, <2>0 DEF CallOK, OneName
    <3> QED
      BY <3>1, <3>2 DEF CallOK
  <2>3. PastOK'
    BY <1>0, <1>t, <2>0 DEF PastOK
  <2>4. ReadOK'
    BY <1>0, <1>t, <2>0, ReadKept
  <2>5. CacheOK'
    BY <1>0, <1>t, <2>0, CacheKept
  <2>6. GivenOK'
    BY <1>0, <1>t, <2>0 DEF GivenOK
  <2>7. AloneOK'
    <3> SUFFICES ASSUME NEW j \in Kinds, NEW m \in Names, <<j, m>> \notin disturbed',
                        NEW u \in Callers, Busy(u, j, m)'
                 PROVE  clear' = "idle" /\ \A v \in Callers \ {u} : ~Busy(v, j, m)'
      BY DEF AloneOK, AloneAt
    <3>1. AloneAt(j, m)
      BY <1>0, <2>0 DEF AloneOK
    <3>2. \A v \in Callers \ {t} : Busy(v, j, m)' <=> Busy(v, j, m)
      BY <2>0 DEF Busy
    <3>3. Busy(t, j, m)' <=> j = k /\ m = n
      BY <2>0 DEF Busy
    <3>4. CASE u = t
      BY <2>0, <3>2, <3>3, <3>4
    <3>5. CASE u # t
      BY <2>0, <3>1, <3>2, <3>3, <3>5 DEF AloneAt
    <3> QED
      BY <3>4, <3>5
  <2>8. OneRowOK'
    BY <1>0, <1>t, <2>0 DEF OneRowOK, Rows
  <2>9. AgreeOK'
    <3> SUFFICES ASSUME NEW j \in Kinds, NEW m \in Names, <<j, m>> \notin disturbed'
                 PROVE  AgreeAt(j, m)'
      BY DEF AgreeOK
    <3>1. AgreeAt(j, m) /\ ~Busy(t, j, m)
      BY <1>0, <2>0 DEF AgreeOK, Busy, CallOK, OneName
    <3>2. Rows(j, m)' = Rows(j, m) /\ Remembered(j, m)' = Remembered(j, m)
      BY <2>0 DEF Rows, Remembered
    <3>3. CASE j = k /\ m = n
      <4>1. clear = "idle" /\ \A u \in Callers : ~Busy(u, j, m)
        BY <2>0, <3>3
      <4>2. Agree(j, m)
        BY <3>1, <4>1 DEF AgreeAt, Between
      <4>3. Agree(j, m)' /\ Seen(t, j, m)'
        BY <2>0, <3>2, <4>2 DEF Agree, Seen
      <4> QED
        BY <2>0, <4>1, <4>3, AgreeAlone
    <3>4. CASE ~(j = k /\ m = n)
      <4>1. ~Busy(t, j, m)'
        BY <2>0, <3>4 DEF Busy
      <4> QED
        BY <2>0, <3>1, <3>2, <4>1, AgreeElse
    <3> QED
      BY <3>3, <3>4
  <2>10. ClearOK'
    BY <1>0, <1>t, <2>0 DEF ClearOK, Rows, Remembered
  <2> QED
    BY <2>1, <2>2, <2>3, <2>4, <2>5, <2>6, <2>7, <2>8, <2>9, <2>10 DEF IInv
<1>2. ASSUME NEW t \in Callers, QueryValue(t) PROVE IInv'
  <2>0. /\ call[t].pc = "query"
        /\ call' \in [Callers -> Calls]
        /\ call'[t].pc = (IF RowsOf(call[t].name, rows[call[t].kind]) = {} THEN "insert" ELSE "update")
        /\ call'[t].kind = call[t].kind /\ call'[t].name = call[t].name
        /\ call'[t].value = call[t].value
        /\ \A u \in Callers \ {t} : call'[u] = call[u]
        /\ UNCHANGED <<rows, given, memory, version, clear, calls, past, disturbed,
                       config, cache, onEvents, misfit>>
    BY <1>t, <1>2 DEF QueryValue, Goto, Calls, proxyVars
  <2>q. \A j \in Kinds, m \in Names : call[t].kind = j /\ call[t].name = {m} =>
            call'[t].pc = (IF Rows(j, m) = {} THEN "insert" ELSE "update")
    BY <2>0 DEF Rows
  <2>1. TypeOK'
    BY <1>t, <2>0, BoundsAreNat DEF TypeOK, Calls, Reads, Caches, Versions
  <2>2. CallOK'
    <3>1. \A u \in Callers \ {t} : OneName(call'[u])
      BY <1>0, <2>0 DEF CallOK
    <3>2. OneName(call'[t])
      BY <1>0, <2>0 DEF CallOK, OneName
    <3> QED
      BY <3>1, <3>2 DEF CallOK
  <2>3. PastOK'
    BY <1>0, <1>t, <2>0 DEF PastOK
  <2>4. ReadOK'
    BY <1>0, <1>t, <2>0, ReadKept
  <2>5. CacheOK'
    BY <1>0, <1>t, <2>0, CacheKept
  <2>6. GivenOK'
    BY <1>0, <1>t, <2>0 DEF GivenOK
  <2>7. AloneOK'
    <3>1. \A j \in Kinds, m \in Names : Busy(t, j, m)' => Busy(t, j, m)
      BY <2>0 DEF Busy
    <3> QED
      BY <1>0, <2>0, <3>1, AloneKept
  <2>8. OneRowOK'
    BY <1>0, <1>t, <2>0 DEF OneRowOK, Rows
  <2>9. AgreeOK'
    <3> SUFFICES ASSUME NEW j \in Kinds, NEW m \in Names, <<j, m>> \notin disturbed'
                 PROVE  AgreeAt(j, m)'
      BY DEF AgreeOK
    <3>1. AgreeAt(j, m) /\ AloneAt(j, m)
      BY <1>0, <2>0 DEF AgreeOK, AloneOK
    <3>2. CASE Busy(t, j, m)
      <4>1. /\ call[t].pc # "idle" /\ call[t].kind = j /\ call[t].name = {m}
            /\ clear = "idle" /\ \A u \in Callers \ {t} : ~Busy(u, j, m)
        BY <1>0, <1>t, <3>1, <3>2, BusyIs DEF AloneAt
      <4>2. /\ Between(t, j, m) \/ Agree(j, m)
            /\ Seen(t, j, m)
        BY <3>1, <4>1 DEF AgreeAt, Between
      <4>3. /\ Between(t, j, m)' \/ Agree(j, m)'
            /\ Seen(t, j, m)'
        BY <1>0, <1>t, <2>0, <4>1, <4>2, <2>q DEF Between, Agree, Seen, Busy, Rows, Remembered
      <4> QED
        BY <2>0, <4>1, <4>3, AgreeAlone
    <3>3. CASE ~Busy(t, j, m)
      <4>1. Rows(j, m)' = Rows(j, m) /\ Remembered(j, m)' = Remembered(j, m)
        BY <2>0 DEF Rows, Remembered
      <4>2. ~Busy(t, j, m)'
        BY <2>0, <3>3 DEF Busy
      <4> QED
        BY <2>0, <3>1, <3>3, <4>1, <4>2, AgreeElse
    <3> QED
      BY <3>2, <3>3
  <2>10. ClearOK'
    BY <1>0, <1>t, <2>0 DEF ClearOK, Rows, Remembered
  <2> QED
    BY <2>1, <2>2, <2>3, <2>4, <2>5, <2>6, <2>7, <2>8, <2>9, <2>10 DEF IInv
<1>3. ASSUME NEW t \in Callers, StoreValue(t) PROVE IInv'
  <2>k. call[t].pc \in {"insert", "update"} /\ call[t] \in Calls /\ call[t].kind \in Kinds
    BY <1>t, <1>3 DEF StoreValue, Calls
  <2>n. PICK k \in Kinds, n \in Names, v \in Values :
            call[t].kind = k /\ call[t].name = {n} /\ call[t].value = {v}
    BY <1>0, <2>k DEF CallOK, OneName
  <2>c. /\ call' \in [Callers -> Calls]
        /\ call'[t].pc = "set" /\ call'[t].kind = k /\ call'[t].name = {n} /\ call'[t].value = {v}
        /\ \A u \in Callers \ {t} : call'[u] = call[u]
        /\ UNCHANGED <<memory, version, clear, calls, past, disturbed, config, cache, onEvents, misfit>>
    BY <1>t, <1>3, <2>k, <2>n DEF StoreValue, Goto, Calls, proxyVars
  <2>1. CASE call[t].pc = "insert"
    <3>0. /\ call[t].pc = "insert" /\ call[t].kind = k
          /\ call[t].name = {n} /\ call[t].value = {v}
          /\ rows' \in [Kinds -> SUBSET (Nat \X Pairs)] /\ given' \in [Kinds -> Nat]
          /\ Rows(k, n)' = Rows(k, n) \cup {<<given[k] + 1, <<n, v>>>>}
          /\ \A j \in Kinds, m \in Names : <<j, m>> # <<k, n>> =>
                Rows(j, m)' = Rows(j, m)
          /\ \A j \in Kinds : \A r \in rows'[j] : r[1] <= given'[j]
          /\ call' \in [Callers -> Calls]
          /\ call'[t].pc = "set" /\ call'[t].kind = k /\ call'[t].name = {n} /\ call'[t].value = {v}
          /\ \A u \in Callers \ {t} : call'[u] = call[u]
          /\ UNCHANGED <<memory, version, clear, calls, past, disturbed, config, cache, onEvents, misfit>>
      <4>a. PICK T, T1 : T = rows[k] /\ T1 = Insert(T, given[k] + 1, {n}, {v})
        OBVIOUS
      <4>1. /\ rows' = [rows EXCEPT ![k] = T1]
            /\ given' = [given EXCEPT ![k] = @ + 1]
        BY <1>3, <2>1, <2>n, <4>a DEF StoreValue
      <4>2. T \in SUBSET (Nat \X Pairs) /\ given[k] + 1 \in Nat
        BY <1>t, <2>n, <4>a
      <4>3. Inserted(T, given[k] + 1, n, v, T1)
        BY <2>n, <4>a, <4>2, InsertRows
      <4>4. \A r \in T1 : r \in T \/ r[1] = given[k] + 1
        BY <4>3 DEF Inserted
      <4>5. rows' \in [Kinds -> SUBSET (Nat \X Pairs)] /\ given' \in [Kinds -> Nat]
        BY <1>t, <2>n, <4>1, <4>3 DEF Inserted
      <4>6. /\ rows'[k] = T1 /\ given'[k] = given[k] + 1
            /\ \A j \in Kinds \ {k} : rows'[j] = rows[j] /\ given'[j] = given[j]
        BY <1>t, <2>n, <4>1
      <4>7. \A j \in Kinds : \A r \in rows'[j] : r[1] <= given'[j]
        <5> SUFFICES ASSUME NEW j \in Kinds, NEW r \in rows'[j] PROVE r[1] <= given'[j]
          OBVIOUS
        <5>1. CASE j = k /\ r \notin T
          BY <1>t, <2>n, <4>4, <4>6, <5>1
        <5>2. CASE j = k /\ r \in T
          <6>1. r[1] <= given[k] /\ r[1] \in Nat /\ given[k] \in Nat
            BY <1>0, <1>t, <2>n, <4>a, <5>2 DEF GivenOK
          <6> QED
            BY <4>6, <5>2, <6>1
        <5>3. CASE j # k
          BY <1>0, <4>6, <5>3 DEF GivenOK
        <5> QED
          BY <5>1, <5>2, <5>3
      <4>8. Rows(k, n)' = Rows(k, n) \cup {<<given[k] + 1, <<n, v>>>>}
        BY <2>n, <4>a, <4>3, <4>6 DEF Rows, Inserted
      <4>9. \A j \in Kinds, m \in Names : <<j, m>> # <<k, n>> =>
                Rows(j, m)' = Rows(j, m)
        BY <2>n, <4>a, <4>3, <4>6 DEF Rows, Inserted
      <4> QED
        BY <2>1, <2>n, <2>c, <4>5, <4>7, <4>8, <4>9
    <3>s. <<k, n>> \notin disturbed => Rows(k, n) = {}
      BY <1>0, <2>k, <3>0 DEF AgreeOK, AgreeAt, Seen, Busy
    <3>1. TypeOK'
      BY <1>t, <3>0, BoundsAreNat DEF TypeOK, Calls, Reads, Caches, Versions
    <3>2. CallOK'
      <4>1. \A u \in Callers \ {t} : OneName(call'[u])
        BY <1>0, <3>0 DEF CallOK
      <4>2. OneName(call'[t])
        BY <1>0, <3>0 DEF CallOK, OneName
      <4> QED
        BY <4>1, <4>2 DEF CallOK
    <3>3. PastOK'
      BY <1>0, <1>t, <3>0 DEF PastOK
    <3>4. ReadOK'
      BY <1>0, <1>t, <3>0, ReadKept
    <3>5. CacheOK'
      BY <1>0, <1>t, <3>0, CacheKept
    <3>6. GivenOK'
      BY <3>0 DEF GivenOK
    <3>7. AloneOK'
      <4>1. \A j \in Kinds, m \in Names : Busy(t, j, m)' => Busy(t, j, m)
        BY <3>0 DEF Busy
      <4> QED
        BY <1>0, <3>0, <4>1, AloneKept
    <3>8. OneRowOK'
      <4> SUFFICES ASSUME NEW j \in Kinds, NEW m \in Names, <<j, m>> \notin disturbed'
                   PROVE  \A q, r \in Rows(j, m)' : q = r
        BY DEF OneRowOK
      <4>1. CASE j = k /\ m = n
        BY <3>0, <3>s, <4>1
      <4>2. CASE ~(j = k /\ m = n)
        BY <1>0, <3>0, <4>2 DEF OneRowOK
      <4> QED
        BY <4>1, <4>2
    <3>9. AgreeOK'
      <4> SUFFICES ASSUME NEW j \in Kinds, NEW m \in Names, <<j, m>> \notin disturbed'
                   PROVE  AgreeAt(j, m)'
        BY DEF AgreeOK
      <4>1. AgreeAt(j, m) /\ AloneAt(j, m)
        BY <1>0, <3>0 DEF AgreeOK, AloneOK
      <4>2. CASE Busy(t, j, m)
        <5>1. /\ call[t].pc # "idle" /\ call[t].kind = j /\ call[t].name = {m}
              /\ clear = "idle" /\ \A u \in Callers \ {t} : ~Busy(u, j, m)
          BY <1>0, <1>t, <4>1, <4>2, BusyIs DEF AloneAt
        <5>2. /\ Between(t, j, m) \/ Agree(j, m)
              /\ Seen(t, j, m)
          BY <4>1, <5>1 DEF AgreeAt, Between
        <5>m. j = k /\ m = n
          BY <3>0, <5>1
        <5>3. /\ Between(t, j, m)' \/ Agree(j, m)'
              /\ Seen(t, j, m)'
          <6>a. <<k, n>> \notin disturbed
            BY <3>0, <5>m
          <6>0. Rows(k, n)' # {} /\ \A r \in Rows(k, n)' : r[2] = <<n, v>>
            <7>1. Rows(k, n)' = {<<given[k] + 1, <<n, v>>>>}
              BY <3>0, <3>s, <6>a
            <7>2. \A r \in Rows(k, n)' : r[2] = <<n, v>>
              BY <7>1
            <7>3. Rows(k, n)' # {}
              BY <7>1
            <7> QED
              BY <7>2, <7>3
          <6>1. {r[2] : r \in Rows(k, n)'} = {<<n, v>>}
            BY <6>0
          <6>2. {n} \X {v} = {<<n, v>>}
            OBVIOUS
          <6> QED
            BY <3>0, <5>m, <6>1, <6>2 DEF Between, Seen, Busy
        <5> QED
          BY <3>0, <5>1, <5>3, AgreeAlone
      <4>3. CASE ~Busy(t, j, m)
        <5>1. Rows(j, m)' = Rows(j, m) /\ Remembered(j, m)' = Remembered(j, m)
          <6>1. <<j, m>> # <<k, n>>
            BY <3>0, <4>3 DEF Busy
          <6> QED
            BY <3>0, <6>1 DEF Remembered
        <5>2. ~Busy(t, j, m)'
          BY <3>0, <4>3 DEF Busy
        <5> QED
          BY <3>0, <4>1, <4>3, <5>1, <5>2, AgreeElse
      <4> QED
        BY <4>2, <4>3
    <3>10. ClearOK'
      <4> SUFFICES ASSUME NEW j \in Kinds, NEW m \in Names, <<j, m>> \notin disturbed, clear # "idle"
                   PROVE  /\ Remembered(j, m)' = {}
                          /\ clear = "property" /\ j = "id" => Rows(j, m)' = {}
        BY <3>0 DEF ClearOK
      <4>1. ~Busy(t, j, m)
        BY <1>0 DEF AloneOK, AloneAt
      <4>2. <<j, m>> # <<k, n>>
        BY <3>0, <4>1 DEF Busy
      <4>3. Rows(j, m)' = Rows(j, m) /\ Remembered(j, m)' = Remembered(j, m)
        BY <3>0, <4>2 DEF Remembered
      <4> QED
        BY <1>0, <4>3 DEF ClearOK
    <3> QED
      BY <3>1, <3>2, <3>3, <3>4, <3>5, <3>6, <3>7, <3>8, <3>9, <3>10 DEF IInv
  <2>2. CASE call[t].pc = "update"
    <3>0. /\ call[t].pc = "update" /\ call[t].kind = k
          /\ call[t].name = {n} /\ call[t].value = {v}
          /\ rows' \in [Kinds -> SUBSET (Nat \X Pairs)] /\ given' = given
          /\ Rows(k, n)' = {<<r[1], <<n, v>>>> : r \in Rows(k, n)}
          /\ \A j \in Kinds, m \in Names : <<j, m>> # <<k, n>> =>
                Rows(j, m)' = Rows(j, m)
          /\ \A j \in Kinds : \A q \in rows'[j] : \E r \in rows[j] : q[1] = r[1]
          /\ call' \in [Callers -> Calls]
          /\ call'[t].pc = "set" /\ call'[t].kind = k /\ call'[t].name = {n} /\ call'[t].value = {v}
          /\ \A u \in Callers \ {t} : call'[u] = call[u]
          /\ UNCHANGED <<memory, version, clear, calls, past, disturbed, config, cache, onEvents, misfit>>
      <4>a. PICK T, T1 : T = rows[k] /\ T1 = Update(T, {n}, {v})
        OBVIOUS
      <4>1. rows' = [rows EXCEPT ![k] = T1] /\ given' = given
        BY <1>3, <2>2, <2>n, <4>a DEF StoreValue
      <4>2. T \in SUBSET (Nat \X Pairs)
        BY <1>t, <2>n, <4>a
      <4>3. Updated(T, n, v, T1)
        BY <2>n, <4>a, <4>2, UpdateRows
      <4>4. rows' \in [Kinds -> SUBSET (Nat \X Pairs)]
        BY <1>t, <2>n, <4>1, <4>3 DEF Updated
      <4>5. rows'[k] = T1 /\ \A j \in Kinds \ {k} : rows'[j] = rows[j]
        BY <1>t, <2>n, <4>1
      <4>6. Rows(k, n)' = {<<r[1], <<n, v>>>> : r \in Rows(k, n)}
        BY <2>n, <4>a, <4>3, <4>5 DEF Rows, Updated
      <4>7. \A j \in Kinds, m \in Names : <<j, m>> # <<k, n>> =>
                Rows(j, m)' = Rows(j, m)
        BY <2>n, <4>a, <4>3, <4>5 DEF Rows, Updated
      <4>8. \A j \in Kinds : \A q \in rows'[j] : \E r \in rows[j] : q[1] = r[1]
        BY <2>n, <4>a, <4>3, <4>5 DEF Updated
      <4> QED
        BY <2>2, <2>n, <2>c, <4>1, <4>4, <4>6, <4>7, <4>8
    <3>s. <<k, n>> \notin disturbed =>
            /\ Rows(k, n) # {}
            /\ \A q, r \in Rows(k, n) : q = r
      BY <1>0, <2>k, <3>0 DEF AgreeOK, AgreeAt, Seen, Busy, OneRowOK
    <3>1. TypeOK'
      BY <1>t, <3>0, BoundsAreNat DEF TypeOK, Calls, Reads, Caches, Versions
    <3>2. CallOK'
      <4>1. \A u \in Callers \ {t} : OneName(call'[u])
        BY <1>0, <3>0 DEF CallOK
      <4>2. OneName(call'[t])
        BY <1>0, <3>0 DEF CallOK, OneName
      <4> QED
        BY <4>1, <4>2 DEF CallOK
    <3>3. PastOK'
      BY <1>0, <1>t, <3>0 DEF PastOK
    <3>4. ReadOK'
      BY <1>0, <1>t, <3>0, ReadKept
    <3>5. CacheOK'
      BY <1>0, <1>t, <3>0, CacheKept
    <3>6. GivenOK'
      <4> SUFFICES ASSUME NEW j \in Kinds, NEW q \in rows'[j] PROVE q[1] <= given'[j]
        BY DEF GivenOK
      <4>1. PICK r \in rows[j] : q[1] = r[1]
        BY <3>0
      <4> QED
        BY <1>0, <3>0, <4>1 DEF GivenOK
    <3>7. AloneOK'
      <4>1. \A j \in Kinds, m \in Names : Busy(t, j, m)' => Busy(t, j, m)
        BY <3>0 DEF Busy
      <4> QED
        BY <1>0, <3>0, <4>1, AloneKept
    <3>8. OneRowOK'
      <4> SUFFICES ASSUME NEW j \in Kinds, NEW m \in Names, <<j, m>> \notin disturbed'
                   PROVE  \A q, r \in Rows(j, m)' : q = r
        BY DEF OneRowOK
      <4>1. CASE j = k /\ m = n
        BY <3>0, <3>s, <4>1
      <4>2. CASE ~(j = k /\ m = n)
        BY <1>0, <3>0, <4>2 DEF OneRowOK
      <4> QED
        BY <4>1, <4>2
    <3>9. AgreeOK'
      <4> SUFFICES ASSUME NEW j \in Kinds, NEW m \in Names, <<j, m>> \notin disturbed'
                   PROVE  AgreeAt(j, m)'
        BY DEF AgreeOK
      <4>1. AgreeAt(j, m) /\ AloneAt(j, m)
        BY <1>0, <3>0 DEF AgreeOK, AloneOK
      <4>2. CASE Busy(t, j, m)
        <5>1. /\ call[t].pc # "idle" /\ call[t].kind = j /\ call[t].name = {m}
              /\ clear = "idle" /\ \A u \in Callers \ {t} : ~Busy(u, j, m)
          BY <1>0, <1>t, <4>1, <4>2, BusyIs DEF AloneAt
        <5>2. /\ Between(t, j, m) \/ Agree(j, m)
              /\ Seen(t, j, m)
          BY <4>1, <5>1 DEF AgreeAt, Between
        <5>m. j = k /\ m = n
          BY <3>0, <5>1
        <5>3. /\ Between(t, j, m)' \/ Agree(j, m)'
              /\ Seen(t, j, m)'
          <6>a. <<k, n>> \notin disturbed
            BY <3>0, <5>m
          <6>0. Rows(k, n)' # {} /\ \A r \in Rows(k, n)' : r[2] = <<n, v>>
            <7>1. /\ Rows(k, n) # {}
                  /\ Rows(k, n)' = {<<r[1], <<n, v>>>> : r \in Rows(k, n)}
              BY <3>0, <3>s, <6>a
            <7>2. \A r \in Rows(k, n)' : r[2] = <<n, v>>
              BY <7>1
            <7>3. Rows(k, n)' # {}
              BY <7>1
            <7> QED
              BY <7>2, <7>3
          <6>1. {r[2] : r \in Rows(k, n)'} = {<<n, v>>}
            BY <6>0
          <6>2. {n} \X {v} = {<<n, v>>}
            OBVIOUS
          <6> QED
            BY <3>0, <5>m, <6>1, <6>2 DEF Between, Seen, Busy
        <5> QED
          BY <3>0, <5>1, <5>3, AgreeAlone
      <4>3. CASE ~Busy(t, j, m)
        <5>1. Rows(j, m)' = Rows(j, m) /\ Remembered(j, m)' = Remembered(j, m)
          <6>1. <<j, m>> # <<k, n>>
            BY <3>0, <4>3 DEF Busy
          <6> QED
            BY <3>0, <6>1 DEF Remembered
        <5>2. ~Busy(t, j, m)'
          BY <3>0, <4>3 DEF Busy
        <5> QED
          BY <3>0, <4>1, <4>3, <5>1, <5>2, AgreeElse
      <4> QED
        BY <4>2, <4>3
    <3>10. ClearOK'
      <4> SUFFICES ASSUME NEW j \in Kinds, NEW m \in Names, <<j, m>> \notin disturbed, clear # "idle"
                   PROVE  /\ Remembered(j, m)' = {}
                          /\ clear = "property" /\ j = "id" => Rows(j, m)' = {}
        BY <3>0 DEF ClearOK
      <4>1. ~Busy(t, j, m)
        BY <1>0 DEF AloneOK, AloneAt
      <4>2. <<j, m>> # <<k, n>>
        BY <3>0, <4>1 DEF Busy
      <4>3. Rows(j, m)' = Rows(j, m) /\ Remembered(j, m)' = Remembered(j, m)
        BY <3>0, <4>2 DEF Remembered
      <4> QED
        BY <1>0, <4>3 DEF ClearOK
    <3> QED
      BY <3>1, <3>2, <3>3, <3>4, <3>5, <3>6, <3>7, <3>8, <3>9, <3>10 DEF IInv
  <2> QED
    BY <2>k, <2>1, <2>2
<1>4. ASSUME NEW t \in Callers, SetInMemory(t) PROVE IInv'
  <2>k. call[t].pc = "set" /\ call[t] \in Calls
    BY <1>t, <1>4 DEF SetInMemory
  <2>n. PICK k \in Kinds, n \in Names, v \in Values :
            call[t].kind = k /\ call[t].name = {n} /\ call[t].value = {v}
    BY <1>0, <2>k DEF CallOK, OneName, Calls
  <2>v. PICK values : values = (memory[k] \ Named({n}, memory[k])) \cup ({n} \X {v})
    OBVIOUS
  <2>w. /\ values \in SUBSET Pairs /\ Named({n}, values) = {<<n, v>>}
        /\ \A m \in Names \ {n} : Named({m}, values) = Named({m}, memory[k])
    <3>1. {n} \X {v} = {<<n, v>>} /\ <<n, v>> \in Pairs
      BY <2>n DEF Pairs
    <3> QED
      BY <1>t, <2>n, <2>v, <3>1 DEF Named
  <2>c. Change(k, values)
    BY <1>4, <2>n, <2>v DEF SetInMemory
  <2>d. /\ memory' \in [Kinds -> SUBSET Pairs] /\ version' \in [Kinds -> Nat]
        /\ past' \in [Kinds -> Seq(SUBSET Pairs)]
        /\ memory'[k] = values /\ \A j \in Kinds \ {k} : memory'[j] = memory[j]
        /\ \A j \in Kinds : version[j] <= version'[j]
        /\ \A j \in Kinds, w \in Nat : w <= version[j] => past'[j][w + 1] = past[j][w + 1]
        /\ PastOK'
    BY <1>0, <1>t, <2>n, <2>w, <2>c, ChangeGives
  <2>0. /\ call[t].pc = "set" /\ call[t].kind = k /\ call[t].name = {n} /\ call[t].value = {v}
        /\ {n} \X {v} = {<<n, v>>}
        /\ memory' \in [Kinds -> SUBSET Pairs] /\ version' \in [Kinds -> Nat]
        /\ past' \in [Kinds -> Seq(SUBSET Pairs)]
        /\ Remembered(k, n)' = {<<n, v>>}
        /\ \A j \in Kinds, m \in Names : <<j, m>> # <<k, n>> =>
                Remembered(j, m)' = Remembered(j, m)
        /\ \A j \in Kinds, m \in Names : Rows(j, m)' = Rows(j, m)
        /\ \A j \in Kinds : version[j] <= version'[j]
        /\ \A j \in Kinds, w \in Nat : w <= version[j] => past'[j][w + 1] = past[j][w + 1]
        /\ PastOK'
        /\ call' \in [Callers -> Calls] /\ call'[t] = Idle
        /\ \A u \in Callers \ {t} : call'[u] = call[u]
        /\ UNCHANGED <<rows, given, clear, calls, disturbed, config, cache, onEvents, misfit>>
    <3>1. Remembered(k, n)' = {<<n, v>>}
      BY <2>w, <2>d DEF Remembered
    <3>2. \A j \in Kinds, m \in Names : <<j, m>> # <<k, n>> =>
                Remembered(j, m)' = Remembered(j, m)
      BY <2>w, <2>d DEF Remembered
    <3>3. \A j \in Kinds, m \in Names : Rows(j, m)' = Rows(j, m)
      BY <1>4 DEF SetInMemory, Rows
    <3> QED
      BY <1>t, <1>4, <2>k, <2>n, <2>d, <3>1, <3>2, <3>3 DEF SetInMemory, Return, proxyVars
  <2>1. TypeOK'
    BY <1>t, <2>0, BoundsAreNat DEF TypeOK, Calls, Reads, Caches, Versions
  <2>2. CallOK'
    <3>1. \A u \in Callers \ {t} : OneName(call'[u])
      BY <1>0, <2>0 DEF CallOK
    <3>2. OneName(call'[t])
      BY <1>0, <2>0 DEF CallOK, OneName
    <3> QED
      BY <3>1, <3>2 DEF CallOK
  <2>3. PastOK'
    BY <2>0
  <2>4. ReadOK'
    BY <1>0, <1>t, <2>0, ReadKept
  <2>5. CacheOK'
    BY <1>0, <1>t, <2>0, CacheKept
  <2>6. GivenOK'
    BY <1>0, <1>t, <2>0 DEF GivenOK
  <2>7. AloneOK'
    <3>1. \A j \in Kinds, m \in Names : Busy(t, j, m)' => Busy(t, j, m)
      BY <2>0 DEF Busy
    <3> QED
      BY <1>0, <2>0, <3>1, AloneKept
  <2>8. OneRowOK'
    BY <1>0, <1>t, <2>0 DEF OneRowOK, Rows
  <2>9. AgreeOK'
    <3> SUFFICES ASSUME NEW j \in Kinds, NEW m \in Names, <<j, m>> \notin disturbed'
                 PROVE  AgreeAt(j, m)'
      BY DEF AgreeOK
    <3>1. AgreeAt(j, m) /\ AloneAt(j, m)
      BY <1>0, <2>0 DEF AgreeOK, AloneOK
    <3>2. CASE Busy(t, j, m)
      <4>1. /\ call[t].pc # "idle" /\ call[t].kind = j /\ call[t].name = {m}
            /\ clear = "idle" /\ \A u \in Callers \ {t} : ~Busy(u, j, m)
        BY <1>0, <1>t, <3>1, <3>2, BusyIs DEF AloneAt
      <4>2. /\ Between(t, j, m) \/ Agree(j, m)
            /\ Seen(t, j, m)
        BY <3>1, <4>1 DEF AgreeAt, Between
      <4>m. j = k /\ m = n
        BY <2>0, <4>1
      <4>3. /\ Between(t, j, m)' \/ Agree(j, m)'
            /\ Seen(t, j, m)'
        BY <2>0, <4>2, <4>m DEF Between, Agree, Seen, Busy
      <4> QED
        BY <2>0, <4>1, <4>3, AgreeAlone
    <3>3. CASE ~Busy(t, j, m)
      <4>1. Rows(j, m)' = Rows(j, m) /\ Remembered(j, m)' = Remembered(j, m)
        <5>1. <<j, m>> # <<k, n>>
          BY <2>0, <3>3 DEF Busy
        <5> QED
          BY <2>0, <5>1 DEF Rows, Remembered
      <4>2. ~Busy(t, j, m)'
        BY <2>0, <3>3 DEF Busy
      <4> QED
        BY <2>0, <3>1, <3>3, <4>1, <4>2, AgreeElse
    <3> QED
      BY <3>2, <3>3
  <2>10. ClearOK'
    <3> SUFFICES ASSUME NEW j \in Kinds, NEW m \in Names, <<j, m>> \notin disturbed, clear # "idle"
                 PROVE  /\ Remembered(j, m)' = {}
                        /\ clear = "property" /\ j = "id" => Rows(j, m)' = {}
      BY <2>0 DEF ClearOK
    <3>1. ~Busy(t, j, m)
      BY <1>0 DEF AloneOK, AloneAt
    <3>2. <<j, m>> # <<k, n>>
      BY <2>0, <3>1 DEF Busy
    <3>3. Rows(j, m)' = Rows(j, m) /\ Remembered(j, m)' = Remembered(j, m)
      BY <2>0, <3>2 DEF Remembered
    <3> QED
      BY <1>0, <3>3 DEF ClearOK
  <2> QED
    BY <2>1, <2>2, <2>3, <2>4, <2>5, <2>6, <2>7, <2>8, <2>9, <2>10 DEF IInv
<1>5. ASSUME NEW t \in Callers, DeleteRows(t) PROVE IInv'
  <2>k. call[t].pc = "delete" /\ call[t] \in Calls
    BY <1>t, <1>5 DEF DeleteRows
  <2>n. PICK k \in Kinds, n \in Names : call[t].kind = k /\ call[t].name = {n}
    BY <1>0, <2>k DEF CallOK, OneName, Calls
  <2>a. PICK T, T1 : T = rows[k] /\ T1 = Delete(T, {n})
    OBVIOUS
  <2>b. Deleted(T, {n}, T1)
    BY <1>t, <2>n, <2>a, DeleteRowsOf
  <2>0. /\ call[t].pc = "delete" /\ call[t].kind = k /\ call[t].name = {n}
        /\ rows' \in [Kinds -> SUBSET (Nat \X Pairs)]
        /\ Rows(k, n)' = {}
        /\ \A j \in Kinds, m \in Names : <<j, m>> # <<k, n>> => Rows(j, m)' = Rows(j, m)
        /\ \A j \in Kinds, m \in Names : Remembered(j, m)' = Remembered(j, m)
        /\ \A j \in Kinds : rows'[j] \subseteq rows[j]
        /\ call' \in [Callers -> Calls]
        /\ call'[t].pc = "erase" /\ call'[t].kind = k /\ call'[t].name = {n}
        /\ \A u \in Callers \ {t} : call'[u] = call[u]
        /\ UNCHANGED <<given, memory, version, clear, calls, past, disturbed,
                       config, cache, onEvents, misfit>>
    <3>1. rows' = [rows EXCEPT ![k] = T1]
      BY <1>5, <2>n, <2>a DEF DeleteRows
    <3>2. rows'[k] = T1 /\ \A j \in Kinds \ {k} : rows'[j] = rows[j]
      BY <1>t, <2>n, <3>1
    <3>3. rows' \in [Kinds -> SUBSET (Nat \X Pairs)]
      BY <1>t, <2>n, <2>b, <3>1 DEF Deleted
    <3>4. Rows(k, n)' = {}
      BY <2>n, <2>b, <3>2 DEF Rows, Deleted
    <3>5. \A j \in Kinds, m \in Names : <<j, m>> # <<k, n>> => Rows(j, m)' = Rows(j, m)
      BY <2>n, <2>a, <2>b, <3>2 DEF Rows, Deleted
    <3>6. \A j \in Kinds : rows'[j] \subseteq rows[j]
      BY <2>a, <2>b, <3>2 DEF Deleted
    <3>7. /\ call' \in [Callers -> Calls]
          /\ call'[t].pc = "erase" /\ call'[t].kind = k /\ call'[t].name = {n}
          /\ \A u \in Callers \ {t} : call'[u] = call[u]
      BY <1>t, <1>5, <2>n DEF DeleteRows, Goto, Calls
    <3>8. \A j \in Kinds, m \in Names : Remembered(j, m)' = Remembered(j, m)
      BY <1>5 DEF DeleteRows, Remembered
    <3> QED
      BY <1>5, <2>k, <2>n, <3>3, <3>4, <3>5, <3>6, <3>7, <3>8 DEF DeleteRows, proxyVars
  <2>1. TypeOK'
    BY <1>t, <2>0, BoundsAreNat DEF TypeOK, Calls, Reads, Caches, Versions
  <2>2. CallOK'
    <3>1. \A u \in Callers \ {t} : OneName(call'[u])
      BY <1>0, <2>0 DEF CallOK
    <3>2. OneName(call'[t])
      BY <1>0, <2>0 DEF CallOK, OneName
    <3> QED
      BY <3>1, <3>2 DEF CallOK
  <2>3. PastOK'
    BY <1>0, <1>t, <2>0 DEF PastOK
  <2>4. ReadOK'
    BY <1>0, <1>t, <2>0, ReadKept
  <2>5. CacheOK'
    BY <1>0, <1>t, <2>0, CacheKept
  <2>6. GivenOK'
    BY <1>0, <1>t, <2>0 DEF GivenOK
  <2>7. AloneOK'
    <3>1. \A j \in Kinds, m \in Names : Busy(t, j, m)' => Busy(t, j, m)
      BY <2>0 DEF Busy
    <3> QED
      BY <1>0, <2>0, <3>1, AloneKept
  <2>8. OneRowOK'
    <3> SUFFICES ASSUME NEW j \in Kinds, NEW m \in Names, <<j, m>> \notin disturbed'
                 PROVE  \A q, r \in Rows(j, m)' : q = r
      BY DEF OneRowOK
    <3>1. CASE j = k /\ m = n
      BY <2>0, <3>1
    <3>2. CASE ~(j = k /\ m = n)
      BY <1>0, <2>0, <3>2 DEF OneRowOK
    <3> QED
      BY <3>1, <3>2
  <2>9. AgreeOK'
    <3> SUFFICES ASSUME NEW j \in Kinds, NEW m \in Names, <<j, m>> \notin disturbed'
                 PROVE  AgreeAt(j, m)'
      BY DEF AgreeOK
    <3>1. AgreeAt(j, m) /\ AloneAt(j, m)
      BY <1>0, <2>0 DEF AgreeOK, AloneOK
    <3>2. CASE Busy(t, j, m)
      <4>1. /\ call[t].pc # "idle" /\ call[t].kind = j /\ call[t].name = {m}
            /\ clear = "idle" /\ \A u \in Callers \ {t} : ~Busy(u, j, m)
        BY <1>0, <1>t, <3>1, <3>2, BusyIs DEF AloneAt
      <4>2. /\ Between(t, j, m) \/ Agree(j, m)
            /\ Seen(t, j, m)
        BY <3>1, <4>1 DEF AgreeAt, Between
      <4>m. j = k /\ m = n
        BY <2>0, <4>1
      <4>3. /\ Between(t, j, m)' \/ Agree(j, m)'
            /\ Seen(t, j, m)'
        BY <2>0, <4>2, <4>m DEF Between, Agree, Seen, Busy
      <4> QED
        BY <2>0, <4>1, <4>3, AgreeAlone
    <3>3. CASE ~Busy(t, j, m)
      <4>1. Rows(j, m)' = Rows(j, m) /\ Remembered(j, m)' = Remembered(j, m)
        <5>1. <<j, m>> # <<k, n>>
          BY <2>0, <3>3 DEF Busy
        <5> QED
          BY <2>0, <5>1 DEF Rows, Remembered
      <4>2. ~Busy(t, j, m)'
        BY <2>0, <3>3 DEF Busy
      <4> QED
        BY <2>0, <3>1, <3>3, <4>1, <4>2, AgreeElse
    <3> QED
      BY <3>2, <3>3
  <2>10. ClearOK'
    <3> SUFFICES ASSUME NEW j \in Kinds, NEW m \in Names, <<j, m>> \notin disturbed, clear # "idle"
                 PROVE  /\ Remembered(j, m)' = {}
                        /\ clear = "property" /\ j = "id" => Rows(j, m)' = {}
      BY <2>0 DEF ClearOK
    <3>1. ~Busy(t, j, m)
      BY <1>0 DEF AloneOK, AloneAt
    <3>2. <<j, m>> # <<k, n>>
      BY <2>0, <3>1 DEF Busy
    <3>3. Rows(j, m)' = Rows(j, m) /\ Remembered(j, m)' = Remembered(j, m)
      BY <2>0, <3>2 DEF Remembered
    <3> QED
      BY <1>0, <3>3 DEF ClearOK
  <2> QED
    BY <2>1, <2>2, <2>3, <2>4, <2>5, <2>6, <2>7, <2>8, <2>9, <2>10 DEF IInv
<1>6. ASSUME NEW t \in Callers, EraseInMemory(t) PROVE IInv'
  <2>k. call[t].pc = "erase" /\ call[t] \in Calls
    BY <1>t, <1>6 DEF EraseInMemory
  <2>n. PICK k \in Kinds, n \in Names : call[t].kind = k /\ call[t].name = {n}
    BY <1>0, <2>k DEF CallOK, OneName, Calls
  <2>d. /\ memory' \in [Kinds -> SUBSET Pairs] /\ version' \in [Kinds -> Nat]
        /\ past' \in [Kinds -> Seq(SUBSET Pairs)]
        /\ memory'[k] = memory[k] \ Named({n}, memory[k])
        /\ \A j \in Kinds \ {k} : memory'[j] = memory[j]
        /\ \A j \in Kinds : version[j] <= version'[j]
        /\ \A j \in Kinds, w \in Nat : w <= version[j] => past'[j][w + 1] = past[j][w + 1]
        /\ PastOK'
    <3>1. CASE Named({n}, memory[k]) = {}
      <4>1. UNCHANGED <<memory, version, past>>
        BY <1>6, <2>n, <3>1 DEF EraseInMemory
      <4>2. PastOK'
        BY <1>0, <4>1 DEF PastOK
      <4>3. memory[k] \ Named({n}, memory[k]) = memory[k]
        BY <3>1
      <4>4. \A j \in Kinds : version[j] <= version'[j]
        BY <1>t, <4>1
      <4> QED
        BY <1>t, <4>1, <4>2, <4>3, <4>4
    <3>2. CASE Named({n}, memory[k]) # {}
      <4>v. PICK values : values = memory[k] \ Named({n}, memory[k])
        OBVIOUS
      <4>1. Change(k, values)
        BY <1>6, <2>n, <3>2, <4>v DEF EraseInMemory
      <4>2. values \in SUBSET Pairs
        BY <1>t, <2>n, <4>v
      <4>3. /\ memory' \in [Kinds -> SUBSET Pairs] /\ version' \in [Kinds -> Nat]
            /\ past' \in [Kinds -> Seq(SUBSET Pairs)]
            /\ memory'[k] = values /\ \A j \in Kinds \ {k} : memory'[j] = memory[j]
            /\ \A j \in Kinds : version[j] <= version'[j]
            /\ \A j \in Kinds, w \in Nat : w <= version[j] => past'[j][w + 1] = past[j][w + 1]
            /\ PastOK'
        BY <1>0, <1>t, <2>n, <4>1, <4>2, ChangeGives
      <4> QED
        BY <4>3, <4>v
    <3> QED
      BY <3>1, <3>2
  <2>0. /\ call[t].pc = "erase" /\ call[t].kind = k /\ call[t].name = {n}
        /\ memory' \in [Kinds -> SUBSET Pairs] /\ version' \in [Kinds -> Nat]
        /\ past' \in [Kinds -> Seq(SUBSET Pairs)]
        /\ Remembered(k, n)' = {}
        /\ \A j \in Kinds, m \in Names : <<j, m>> # <<k, n>> =>
                Remembered(j, m)' = Remembered(j, m)
        /\ \A j \in Kinds, m \in Names : Rows(j, m)' = Rows(j, m)
        /\ \A j \in Kinds : version[j] <= version'[j]
        /\ \A j \in Kinds, w \in Nat : w <= version[j] => past'[j][w + 1] = past[j][w + 1]
        /\ PastOK'
        /\ call' \in [Callers -> Calls] /\ call'[t] = Idle
        /\ \A u \in Callers \ {t} : call'[u] = call[u]
        /\ UNCHANGED <<rows, given, clear, calls, disturbed, config, cache, onEvents, misfit>>
    <3>1. Remembered(k, n)' = {}
      BY <2>d DEF Remembered, Named
    <3>2. \A j \in Kinds, m \in Names : <<j, m>> # <<k, n>> =>
                Remembered(j, m)' = Remembered(j, m)
      BY <2>d DEF Remembered, Named
    <3>3. \A j \in Kinds, m \in Names : Rows(j, m)' = Rows(j, m)
      BY <1>6 DEF EraseInMemory, Rows
    <3> QED
      BY <1>t, <1>6, <2>k, <2>n, <2>d, <3>1, <3>2, <3>3 DEF EraseInMemory, Return, proxyVars
  <2>1. TypeOK'
    BY <1>t, <2>0, BoundsAreNat DEF TypeOK, Calls, Reads, Caches, Versions
  <2>2. CallOK'
    <3>1. \A u \in Callers \ {t} : OneName(call'[u])
      BY <1>0, <2>0 DEF CallOK
    <3>2. OneName(call'[t])
      BY <1>0, <2>0 DEF CallOK, OneName
    <3> QED
      BY <3>1, <3>2 DEF CallOK
  <2>3. PastOK'
    BY <2>0
  <2>4. ReadOK'
    BY <1>0, <1>t, <2>0, ReadKept
  <2>5. CacheOK'
    BY <1>0, <1>t, <2>0, CacheKept
  <2>6. GivenOK'
    BY <1>0, <1>t, <2>0 DEF GivenOK
  <2>7. AloneOK'
    <3>1. \A j \in Kinds, m \in Names : Busy(t, j, m)' => Busy(t, j, m)
      BY <2>0 DEF Busy
    <3> QED
      BY <1>0, <2>0, <3>1, AloneKept
  <2>8. OneRowOK'
    BY <1>0, <1>t, <2>0, ZenonT(40) DEF OneRowOK, Rows
  <2>9. AgreeOK'
    <3> SUFFICES ASSUME NEW j \in Kinds, NEW m \in Names, <<j, m>> \notin disturbed'
                 PROVE  AgreeAt(j, m)'
      BY DEF AgreeOK
    <3>1. AgreeAt(j, m) /\ AloneAt(j, m)
      BY <1>0, <2>0 DEF AgreeOK, AloneOK
    <3>2. CASE Busy(t, j, m)
      <4>1. /\ call[t].pc # "idle" /\ call[t].kind = j /\ call[t].name = {m}
            /\ clear = "idle" /\ \A u \in Callers \ {t} : ~Busy(u, j, m)
        BY <1>0, <1>t, <3>1, <3>2, BusyIs DEF AloneAt
      <4>2. /\ Between(t, j, m) \/ Agree(j, m)
            /\ Seen(t, j, m)
        BY <3>1, <4>1 DEF AgreeAt, Between
      <4>m. j = k /\ m = n
        BY <2>0, <4>1
      <4>3. /\ Between(t, j, m)' \/ Agree(j, m)'
            /\ Seen(t, j, m)'
        BY <2>0, <4>2, <4>m DEF Between, Agree, Seen, Busy
      <4> QED
        BY <2>0, <4>1, <4>3, AgreeAlone
    <3>3. CASE ~Busy(t, j, m)
      <4>1. Rows(j, m)' = Rows(j, m) /\ Remembered(j, m)' = Remembered(j, m)
        <5>1. <<j, m>> # <<k, n>>
          BY <2>0, <3>3 DEF Busy
        <5> QED
          BY <2>0, <5>1 DEF Rows, Remembered
      <4>2. ~Busy(t, j, m)'
        BY <2>0, <3>3 DEF Busy
      <4> QED
        BY <2>0, <3>1, <3>3, <4>1, <4>2, AgreeElse
    <3> QED
      BY <3>2, <3>3
  <2>10. ClearOK'
    <3> SUFFICES ASSUME NEW j \in Kinds, NEW m \in Names, <<j, m>> \notin disturbed, clear # "idle"
                 PROVE  /\ Remembered(j, m)' = {}
                        /\ clear = "property" /\ j = "id" => Rows(j, m)' = {}
      BY <2>0 DEF ClearOK
    <3>1. ~Busy(t, j, m)
      BY <1>0 DEF AloneOK, AloneAt
    <3>2. <<j, m>> # <<k, n>>
      BY <2>0, <3>1 DEF Busy
    <3>3. Rows(j, m)' = Rows(j, m) /\ Remembered(j, m)' = Remembered(j, m)
      BY <2>0, <3>2 DEF Remembered
    <3> QED
      BY <1>0, <3>3 DEF ClearOK
  <2> QED
    BY <2>1, <2>2, <2>3, <2>4, <2>5, <2>6, <2>7, <2>8, <2>9, <2>10 DEF IInv
<1>7. ASSUME NEW t \in Callers, Fails(t) PROVE IInv'
  <2>0. /\ call[t].pc \in {"query", "insert", "update", "delete"}
        /\ call' \in [Callers -> Calls] /\ call'[t] = Idle
        /\ \A u \in Callers \ {t} : call'[u] = call[u]
        /\ UNCHANGED <<rows, given, memory, version, clear, calls, past, disturbed,
                       config, cache, onEvents, misfit>>
    BY <1>t, <1>7 DEF Fails, Return, proxyVars
  <2>1. TypeOK'
    BY <1>t, <2>0, BoundsAreNat DEF TypeOK, Calls, Reads, Caches, Versions
  <2>2. CallOK'
    <3>1. \A u \in Callers \ {t} : OneName(call'[u])
      BY <1>0, <2>0 DEF CallOK
    <3>2. OneName(call'[t])
      BY <1>0, <2>0 DEF CallOK, OneName
    <3> QED
      BY <3>1, <3>2 DEF CallOK
  <2>3. PastOK'
    BY <1>0, <1>t, <2>0 DEF PastOK
  <2>4. ReadOK'
    BY <1>0, <1>t, <2>0, ReadKept
  <2>5. CacheOK'
    BY <1>0, <1>t, <2>0, CacheKept
  <2>6. GivenOK'
    BY <1>0, <1>t, <2>0 DEF GivenOK
  <2>7. AloneOK'
    <3>1. \A j \in Kinds, m \in Names : Busy(t, j, m)' => Busy(t, j, m)
      BY <2>0 DEF Busy
    <3> QED
      BY <1>0, <2>0, <3>1, AloneKept
  <2>8. OneRowOK'
    BY <1>0, <1>t, <2>0 DEF OneRowOK, Rows
  <2>9. AgreeOK'
    <3> SUFFICES ASSUME NEW j \in Kinds, NEW m \in Names, <<j, m>> \notin disturbed'
                 PROVE  AgreeAt(j, m)'
      BY DEF AgreeOK
    <3>1. AgreeAt(j, m) /\ AloneAt(j, m)
      BY <1>0, <2>0 DEF AgreeOK, AloneOK
    <3>2. CASE Busy(t, j, m)
      <4>1. /\ call[t].pc # "idle" /\ call[t].kind = j /\ call[t].name = {m}
            /\ clear = "idle" /\ \A u \in Callers \ {t} : ~Busy(u, j, m)
        BY <1>0, <1>t, <3>1, <3>2, BusyIs DEF AloneAt
      <4>2. /\ Between(t, j, m) \/ Agree(j, m)
            /\ Seen(t, j, m)
        BY <3>1, <4>1 DEF AgreeAt, Between
      <4>3. /\ Between(t, j, m)' \/ Agree(j, m)'
            /\ Seen(t, j, m)'
        BY <1>0, <1>t, <2>0, <4>1, <4>2 DEF Between, Agree, Seen, Busy, Rows, Remembered
      <4> QED
        BY <2>0, <4>1, <4>3, AgreeAlone
    <3>3. CASE ~Busy(t, j, m)
      <4>1. Rows(j, m)' = Rows(j, m) /\ Remembered(j, m)' = Remembered(j, m)
        BY <2>0 DEF Rows, Remembered
      <4>2. ~Busy(t, j, m)'
        BY <2>0, <3>3 DEF Busy
      <4> QED
        BY <2>0, <3>1, <3>3, <4>1, <4>2, AgreeElse
    <3> QED
      BY <3>2, <3>3
  <2>10. ClearOK'
    BY <1>0, <1>t, <2>0 DEF ClearOK, Rows, Remembered
  <2> QED
    BY <2>1, <2>2, <2>3, <2>4, <2>5, <2>6, <2>7, <2>8, <2>9, <2>10 DEF IInv
<1>8. ASSUME ClearMemory PROVE IInv'
  <2>0. /\ clear = "idle" /\ calls' \in 0..MaxCalls /\ clear' = "id"
        /\ memory' \in [Kinds -> SUBSET Pairs] /\ version' \in [Kinds -> Nat]
        /\ past' \in [Kinds -> Seq(SUBSET Pairs)]
        /\ \A k \in Kinds : memory'[k] = {} /\ version'[k] = 0 /\ past'[k] = <<{}>>
        /\ misfit' \subseteq (Proxies \cup Reporters) \X Kinds
        /\ \A p \in Proxies, k \in Kinds : cache[p][k].version # None => <<p, k>> \in misfit'
        /\ \A r \in Reporters, k \in Kinds : onEvents[r].proxy # {} => <<r, k>> \in misfit'
        /\ disturbed \subseteq disturbed' /\ disturbed' \subseteq Kinds \X Names
        /\ \A k \in Kinds, n \in Names, t \in Callers : Busy(t, k, n) => <<k, n>> \in disturbed'
        /\ UNCHANGED <<rows, given, call, config, cache, onEvents>>
    <3>1. \A t \in Callers : {call[t].kind} \X call[t].name \subseteq Kinds \X Names
      BY <1>t DEF Calls
    <3>2. disturbed' \subseteq Kinds \X Names
      BY <1>t, <1>8, <3>1 DEF ClearMemory
    <3>3. \A k \in Kinds, n \in Names, t \in Callers : Busy(t, k, n) => <<k, n>> \in disturbed'
      BY <1>8 DEF ClearMemory, Busy
    <3>4. calls' \in 0..MaxCalls
      BY <1>t, <1>8, BoundsAreNat DEF ClearMemory
    <3>5. /\ past' \in [Kinds -> Seq(SUBSET Pairs)]
          /\ \A k \in Kinds : memory'[k] = {} /\ version'[k] = 0 /\ past'[k] = <<{}>>
      BY <1>8 DEF ClearMemory
    <3>6. /\ misfit' \subseteq (Proxies \cup Reporters) \X Kinds
          /\ \A p \in Proxies, k \in Kinds : cache[p][k].version # None => <<p, k>> \in misfit'
          /\ \A r \in Reporters, k \in Kinds : onEvents[r].proxy # {} => <<r, k>> \in misfit'
      BY <1>8 DEF ClearMemory
    <3> QED
      BY <1>t, <1>8, <3>2, <3>3, <3>4, <3>5, <3>6 DEF ClearMemory
  <2>1. TypeOK'
    BY <1>t, <2>0, BoundsAreNat DEF TypeOK, Calls, Reads, Caches, Versions
  <2>2. CallOK'
    BY <1>0, <2>0 DEF CallOK
  <2>3. PastOK'
    <3>1. Len(<<{}>>) = 1 /\ <<{}>>[1] = {}
      OBVIOUS
    <3>2. \A k \in Kinds : version'[k] + 1 = 1
      BY <2>0
    <3> QED
      BY <2>0, <3>1, <3>2 DEF PastOK
  <2>4. ReadOK'
    BY <1>t, <2>0 DEF ReadOK, Reads
  <2>5. CacheOK'
    BY <2>0 DEF CacheOK
  <2>6. GivenOK'
    BY <1>0, <1>t, <2>0 DEF GivenOK
  <2>7. AloneOK'
    <3> SUFFICES ASSUME NEW j \in Kinds, NEW m \in Names, <<j, m>> \notin disturbed'
                 PROVE  AloneAt(j, m)'
      BY DEF AloneOK
    <3>1. \A u \in Callers : ~Busy(u, j, m)'
      BY <1>0, <2>0 DEF Busy, AloneOK, AloneAt
    <3> QED
      BY <3>1 DEF AloneAt
  <2>8. OneRowOK'
    BY <1>0, <1>t, <2>0 DEF OneRowOK, Rows
  <2>9. AgreeOK'
    BY <2>0 DEF AgreeOK, AgreeAt, Seen, Busy
  <2>10. ClearOK'
    BY <2>0 DEF ClearOK, Remembered, Named
  <2> QED
    BY <2>1, <2>2, <2>3, <2>4, <2>5, <2>6, <2>7, <2>8, <2>9, <2>10 DEF IInv
<1>9. ASSUME ClearTable PROVE IInv'
  <2>i. /\ clear \in Kinds /\ clear' = IF clear = "id" THEN "property" ELSE "idle"
        /\ UNCHANGED <<given, memory, version, call, calls, past, config, cache, onEvents, misfit>>
    BY <1>t, <1>9 DEF ClearTable, Kinds, proxyVars
  <2>1. CASE rows' = [rows EXCEPT ![clear] = Delete(@, Names)] /\ disturbed' = disturbed
    <3>a. PICK T, T1 : T = rows[clear] /\ T1 = Delete(T, Names)
      OBVIOUS
    <3>b. Deleted(T, Names, T1)
      BY <1>t, <2>i, <3>a, DeleteRowsOf
    <3>c. /\ rows'[clear] = T1 /\ \A j \in Kinds \ {clear} : rows'[j] = rows[j]
          /\ rows' \in [Kinds -> SUBSET (Nat \X Pairs)]
      BY <1>t, <2>i, <2>1, <3>a, <3>b DEF Deleted
    <3>0. /\ clear \in {"id", "property"} /\ clear' = (IF clear = "id" THEN "property" ELSE "idle")
          /\ rows' \in [Kinds -> SUBSET (Nat \X Pairs)]
          /\ \A j \in Kinds : rows'[j] \subseteq rows[j]
          /\ \A j \in Kinds, m \in Names : j = clear => Rows(j, m)' = {} \/ <<j, m>> \in disturbed'
          /\ \A j \in Kinds \ {clear}, m \in Names : Rows(j, m)' = Rows(j, m)
          /\ \A j \in Kinds, m \in Names : Rows(j, m)' \subseteq Rows(j, m)
          /\ \A j \in Kinds, m \in Names : Remembered(j, m)' = Remembered(j, m)
          /\ disturbed \subseteq disturbed' /\ disturbed' \subseteq Kinds \X Names
          /\ UNCHANGED <<given, memory, version, call, calls, past, config, cache, onEvents, misfit>>
      <4>1. \A j \in Kinds, m \in Names : j = clear => Rows(j, m)' = {}
        BY <3>b, <3>c DEF Deleted, Rows
      <4>2. \A j \in Kinds \ {clear}, m \in Names : Rows(j, m)' = Rows(j, m)
        BY <3>c DEF Rows
      <4>3. \A j \in Kinds : rows'[j] \subseteq rows[j]
        BY <3>a, <3>b, <3>c DEF Deleted
      <4>4. \A j \in Kinds, m \in Names : Rows(j, m)' \subseteq Rows(j, m)
        BY <4>3 DEF Rows, RowsOf
      <4>5. \A j \in Kinds, m \in Names : Remembered(j, m)' = Remembered(j, m)
        BY <2>i DEF Remembered
      <4> QED
        BY <1>t, <2>i, <2>1, <3>c, <4>1, <4>2, <4>3, <4>4, <4>5 DEF Kinds
    <3>1. TypeOK'
      BY <1>t, <3>0, BoundsAreNat DEF TypeOK, Calls, Reads, Caches, Versions
    <3>2. CallOK'
      BY <1>0, <3>0 DEF CallOK
    <3>3. PastOK'
      BY <1>0, <1>t, <3>0 DEF PastOK
    <3>4. ReadOK'
      BY <1>0, <1>t, <3>0, ReadKept
    <3>5. CacheOK'
      BY <1>0, <1>t, <3>0, CacheKept
    <3>6. GivenOK'
      BY <1>0, <1>t, <3>0 DEF GivenOK
    <3>7. AloneOK'
      <4> SUFFICES ASSUME NEW j \in Kinds, NEW m \in Names, <<j, m>> \notin disturbed'
                   PROVE  AloneAt(j, m)'
        BY DEF AloneOK
      <4>1. \A u \in Callers : ~Busy(u, j, m)'
        BY <1>0, <3>0 DEF Busy, AloneOK, AloneAt
      <4> QED
        BY <4>1 DEF AloneAt
    <3>8. OneRowOK'
      <4> SUFFICES ASSUME NEW j \in Kinds, NEW m \in Names, <<j, m>> \notin disturbed'
                   PROVE  \A q, r \in Rows(j, m)' : q = r
        BY DEF OneRowOK
      <4> QED
        BY <1>0, <3>0 DEF OneRowOK
    <3>9. AgreeOK'
      <4> SUFFICES ASSUME NEW j \in Kinds, NEW m \in Names, <<j, m>> \notin disturbed'
                   PROVE  AgreeAt(j, m)'
        BY DEF AgreeOK
      <4>1. \A u \in Callers : ~Busy(u, j, m)'
        BY <1>0, <3>0 DEF Busy, AloneOK, AloneAt
      <4>2. ASSUME clear' = "idle" PROVE Agree(j, m)'
        <5>1. clear = "property" /\ Remembered(j, m) = {}
          BY <1>0, <3>0, <4>2 DEF ClearOK
        <5>2. Rows(j, m)' = {}
          BY <1>0, <3>0, <5>1 DEF ClearOK, Kinds
        <5> QED
          BY <3>0, <5>1, <5>2 DEF Agree
      <4> QED
        BY <4>1, <4>2 DEF AgreeAt, Seen
    <3>10. ClearOK'
      BY <1>0, <3>0 DEF ClearOK, Kinds
    <3> QED
      BY <3>1, <3>2, <3>3, <3>4, <3>5, <3>6, <3>7, <3>8, <3>9, <3>10 DEF IInv
  <2>2. CASE UNCHANGED rows /\ disturbed' = disturbed \cup ({clear} \X Names)
    <3>0. /\ clear \in {"id", "property"} /\ clear' = (IF clear = "id" THEN "property" ELSE "idle")
          /\ rows' \in [Kinds -> SUBSET (Nat \X Pairs)]
          /\ \A j \in Kinds : rows'[j] \subseteq rows[j]
          /\ \A j \in Kinds, m \in Names : j = clear => Rows(j, m)' = {} \/ <<j, m>> \in disturbed'
          /\ \A j \in Kinds \ {clear}, m \in Names : Rows(j, m)' = Rows(j, m)
          /\ \A j \in Kinds, m \in Names : Rows(j, m)' \subseteq Rows(j, m)
          /\ \A j \in Kinds, m \in Names : Remembered(j, m)' = Remembered(j, m)
          /\ disturbed \subseteq disturbed' /\ disturbed' \subseteq Kinds \X Names
          /\ UNCHANGED <<given, memory, version, call, calls, past, config, cache, onEvents, misfit>>
      BY <1>t, <2>i, <2>2 DEF Rows, Remembered, Kinds
    <3>1. TypeOK'
      BY <1>t, <3>0, BoundsAreNat DEF TypeOK, Calls, Reads, Caches, Versions
    <3>2. CallOK'
      BY <1>0, <3>0 DEF CallOK
    <3>3. PastOK'
      BY <1>0, <1>t, <3>0 DEF PastOK
    <3>4. ReadOK'
      BY <1>0, <1>t, <3>0, ReadKept
    <3>5. CacheOK'
      BY <1>0, <1>t, <3>0, CacheKept
    <3>6. GivenOK'
      BY <1>0, <1>t, <3>0 DEF GivenOK
    <3>7. AloneOK'
      <4> SUFFICES ASSUME NEW j \in Kinds, NEW m \in Names, <<j, m>> \notin disturbed'
                   PROVE  AloneAt(j, m)'
        BY DEF AloneOK
      <4>1. \A u \in Callers : ~Busy(u, j, m)'
        BY <1>0, <3>0 DEF Busy, AloneOK, AloneAt
      <4> QED
        BY <4>1 DEF AloneAt
    <3>8. OneRowOK'
      <4> SUFFICES ASSUME NEW j \in Kinds, NEW m \in Names, <<j, m>> \notin disturbed'
                   PROVE  \A q, r \in Rows(j, m)' : q = r
        BY DEF OneRowOK
      <4> QED
        BY <1>0, <3>0 DEF OneRowOK
    <3>9. AgreeOK'
      <4> SUFFICES ASSUME NEW j \in Kinds, NEW m \in Names, <<j, m>> \notin disturbed'
                   PROVE  AgreeAt(j, m)'
        BY DEF AgreeOK
      <4>1. \A u \in Callers : ~Busy(u, j, m)'
        BY <1>0, <3>0 DEF Busy, AloneOK, AloneAt
      <4>2. ASSUME clear' = "idle" PROVE Agree(j, m)'
        <5>1. clear = "property" /\ Remembered(j, m) = {}
          BY <1>0, <3>0, <4>2 DEF ClearOK
        <5>2. Rows(j, m)' = {}
          BY <1>0, <3>0, <5>1 DEF ClearOK, Kinds
        <5> QED
          BY <3>0, <5>1, <5>2 DEF Agree
      <4> QED
        BY <4>1, <4>2 DEF AgreeAt, Seen
    <3>10. ClearOK'
      BY <1>0, <3>0 DEF ClearOK, Kinds
    <3> QED
      BY <3>1, <3>2, <3>3, <3>4, <3>5, <3>6, <3>7, <3>8, <3>9, <3>10 DEF IInv
  <2> QED
    BY <1>9, <2>1, <2>2 DEF ClearTable
<1>10. ASSUME Crash PROVE IInv'
  <2>p. PICK readable \in SUBSET Kinds :
            /\ memory' = [k \in Kinds |-> IF k \in readable THEN QueryAll(rows[k]) ELSE {}]
            /\ disturbed' = disturbed \cup ((Kinds \ readable) \X Names)
    BY <1>10 DEF Crash
  <2>q. \A k \in Kinds : AllRead(rows[k], QueryAll(rows[k]))
    BY <1>t, QueryAllGives
  <2>0. /\ memory' \in [Kinds -> SUBSET Pairs] /\ version' \in [Kinds -> Nat]
        /\ past' \in [Kinds -> Seq(SUBSET Pairs)]
        /\ \A k \in Kinds : version'[k] = 0 /\ past'[k] = <<memory'[k]>>
        /\ \A k \in Kinds, n \in Names : <<k, n>> \notin disturbed' => AllRead(rows[k], memory'[k])
        /\ call' \in [Callers -> Calls] /\ \A t \in Callers : call'[t] = Idle
        /\ clear' = "idle" /\ calls' \in 0..MaxCalls
        /\ cache' \in [Proxies -> [Kinds -> Caches]]
        /\ \A p \in Proxies, k \in Kinds : cache'[p][k].version = None
        /\ onEvents' \in [Reporters -> Reads] /\ \A r \in Reporters : onEvents'[r].proxy = {}
        /\ misfit' = {}
        /\ disturbed \subseteq disturbed' /\ disturbed' \subseteq Kinds \X Names
        /\ UNCHANGED <<rows, given, config>>
    <3>1. memory' \in [Kinds -> SUBSET Pairs]
      BY <2>p, <2>q DEF AllRead
    <3>2. \A k \in Kinds, n \in Names : <<k, n>> \notin disturbed' => AllRead(rows[k], memory'[k])
      BY <2>p, <2>q
    <3>3. /\ cache' \in [Proxies -> [Kinds -> Caches]]
          /\ \A p \in Proxies, k \in Kinds : cache'[p][k].version = None
      BY <1>10 DEF Crash, NoCache, Caches
    <3>4. /\ version' \in [Kinds -> Nat] /\ \A k \in Kinds : version'[k] = 0
          /\ past' \in [Kinds -> Seq(SUBSET Pairs)] /\ \A k \in Kinds : past'[k] = <<memory'[k]>>
      BY <1>10, <3>1 DEF Crash
    <3>5. /\ call' \in [Callers -> Calls] /\ \A t \in Callers : call'[t] = Idle
          /\ onEvents' \in [Reporters -> Reads] /\ \A r \in Reporters : onEvents'[r].proxy = {}
      BY <1>10, FreeIs DEF Crash
    <3>6. calls' \in 0..MaxCalls
      BY <1>t, <1>10, BoundsAreNat DEF Crash
    <3>7. disturbed \subseteq disturbed' /\ disturbed' \subseteq Kinds \X Names
      BY <1>t, <2>p
    <3> QED
      BY <1>10, <3>1, <3>2, <3>3, <3>4, <3>5, <3>6, <3>7 DEF Crash
  <2>1. TypeOK'
    BY <1>t, <2>0, BoundsAreNat DEF TypeOK, Calls, Reads, Caches, Versions
  <2>2. CallOK'
    BY <2>0 DEF CallOK, OneName
  <2>3. PastOK'
    <3>1. \A k \in Kinds : Len(past'[k]) = 1 /\ past'[k][1] = memory'[k]
      <4>1. \A x : Len(<<x>>) = 1 /\ <<x>>[1] = x
        OBVIOUS
      <4> QED
        BY <2>0, <4>1
    <3>2. \A k \in Kinds : version'[k] + 1 = 1
      BY <2>0
    <3> QED
      BY <2>0, <3>1, <3>2 DEF PastOK
  <2>4. ReadOK'
    BY <2>0 DEF ReadOK
  <2>5. CacheOK'
    BY <2>0 DEF CacheOK
  <2>6. GivenOK'
    BY <1>0, <1>t, <2>0 DEF GivenOK
  <2>7. AloneOK'
    BY <2>0 DEF AloneOK, AloneAt, Busy
  <2>8. OneRowOK'
    BY <1>0, <1>t, <2>0 DEF OneRowOK, Rows
  <2>9. AgreeOK'
    <3> SUFFICES ASSUME NEW j \in Kinds, NEW m \in Names, <<j, m>> \notin disturbed'
                 PROVE  AgreeAt(j, m)'
      BY DEF AgreeOK
    <3>1. \A q, r \in RowsOf({m}, rows[j]) : q = r
      BY <1>0, <2>0 DEF OneRowOK, Rows
    <3>2. Named({m}, memory'[j]) = {r[2] : r \in RowsOf({m}, rows[j])}
      BY <2>0, <3>1 DEF AllRead
    <3>3. Agree(j, m)'
      BY <2>0, <3>2 DEF Agree, Rows, Remembered
    <3>4. \A u \in Callers : Seen(u, j, m)'
      BY <2>0 DEF Seen, Busy
    <3> QED
      BY <3>3, <3>4 DEF AgreeAt
  <2>10. ClearOK'
    BY <2>0 DEF ClearOK
  <2> QED
    BY <2>1, <2>2, <2>3, <2>4, <2>5, <2>6, <2>7, <2>8, <2>9, <2>10 DEF IInv
<1>11. ASSUME NEW p \in Proxies, NEW N \in Configs, SetReportConfig(p, N) PROVE IInv'
  <2>0. /\ calls' \in 0..MaxCalls
        /\ config' \in [Proxies -> Configs] /\ \A q \in Proxies \ {p} : config'[q] = config[q]
        /\ misfit \subseteq misfit' /\ misfit' \subseteq (Proxies \cup Reporters) \X Kinds
        /\ \A k \in Kinds : cache[p][k].version # None => <<p, k>> \in misfit'
        /\ UNCHANGED <<rows, given, memory, version, call, clear, past, disturbed, cache, onEvents>>
    <3>1. calls' \in 0..MaxCalls
      BY <1>t, <1>11, BoundsAreNat DEF SetReportConfig
    <3>2. {p} \X {k \in Kinds : cache[p][k].version # None} \subseteq (Proxies \cup Reporters) \X Kinds
      OBVIOUS
    <3> QED
      BY <1>t, <1>11, <3>1, <3>2 DEF SetReportConfig
  <2>1. TypeOK'
    BY <1>t, <2>0, BoundsAreNat DEF TypeOK, Calls, Reads, Caches, Versions
  <2>2. CallOK'
    BY <1>0, <2>0 DEF CallOK
  <2>3. PastOK'
    BY <1>0, <2>0 DEF PastOK
  <2>4. ReadOK'
    BY <1>0, <2>0 DEF ReadOK
  <2>5. CacheOK'
    <3> SUFFICES ASSUME NEW q \in Proxies, NEW k \in Kinds,
                        cache[q][k].version # None, <<q, k>> \notin misfit'
                 PROVE  \E w \in Versions :
                            /\ cache[q][k].version <= w /\ w <= version[k]
                            /\ cache[q][k].values = Valid(q, past[k][w + 1])'
      BY <2>0 DEF CacheOK
    <3>1. q # p /\ <<q, k>> \notin misfit
      BY <2>0
    <3>2. PICK w \in Versions : /\ cache[q][k].version <= w /\ w <= version[k]
                                /\ cache[q][k].values = Valid(q, past[k][w + 1])
      BY <1>0, <3>1 DEF CacheOK
    <3>3. Valid(q, past[k][w + 1])' = Valid(q, past[k][w + 1])
      BY <2>0, <3>1 DEF Valid
    <3> QED
      BY <3>2, <3>3
  <2>6. GivenOK'
    BY <1>0, <1>t, <2>0 DEF GivenOK
  <2>7. AloneOK'
    <3>1. \A j \in Kinds, m \in Names, u \in Callers : Busy(u, j, m)' <=> Busy(u, j, m)
      BY <2>0 DEF Busy
    <3> QED
      BY <1>0, <2>0, <3>1 DEF AloneOK, AloneAt
  <2>8. OneRowOK'
    BY <1>0, <1>t, <2>0 DEF OneRowOK, Rows
  <2>9. AgreeOK'
    BY <1>0, <2>0, AgreeKept
  <2>10. ClearOK'
    BY <1>0, <1>t, <2>0 DEF ClearOK, Rows, Remembered
  <2> QED
    BY <2>1, <2>2, <2>3, <2>4, <2>5, <2>6, <2>7, <2>8, <2>9, <2>10 DEF IInv
<1>12. ASSUME NEW r \in Reporters, NEW p \in Proxies, NEW k \in Kinds, OnEvents(r, p, k)
       PROVE IInv'
  <2>0. /\ onEvents[r].proxy = {}
        /\ onEvents' \in [Reporters -> Reads]
        /\ onEvents'[r].proxy = {p} /\ onEvents'[r].kind = k /\ onEvents'[r].version = version[k]
        /\ \A s \in Reporters \ {r} : onEvents'[s] = onEvents[s]
        /\ misfit' = misfit \ {<<r, k>>}
        /\ UNCHANGED <<rows, given, memory, version, call, clear, calls, past, disturbed, config, cache>>
    <3>1. [proxy |-> {p}, kind |-> k, version |-> version[k]] \in Reads
      BY <1>t DEF Reads, Versions
    <3> QED
      BY <1>t, <1>12, <3>1, FreeIs DEF OnEvents, infoVars
  <2>1. TypeOK'
    BY <1>t, <2>0, BoundsAreNat DEF TypeOK, Calls, Reads, Caches, Versions
  <2>2. CallOK'
    BY <1>0, <2>0 DEF CallOK
  <2>3. PastOK'
    BY <1>0, <2>0 DEF PastOK
  <2>4. ReadOK'
    <3> SUFFICES ASSUME NEW s \in Reporters, onEvents'[s].proxy # {},
                        <<s, onEvents'[s].kind>> \notin misfit'
                 PROVE  onEvents'[s].version <= version[onEvents'[s].kind]
      BY <2>0 DEF ReadOK
    <3>1. CASE s = r
      BY <1>t, <2>0, <3>1
    <3>2. CASE s # r
      BY <1>0, <2>0, <3>2 DEF ReadOK
    <3> QED
      BY <3>1, <3>2
  <2>5. CacheOK'
    <3>1. \A q \in Proxies, j \in Kinds : <<q, j>> \notin misfit' => <<q, j>> \notin misfit
      BY <2>0, BoundsAreNat
    <3>2. \A q \in Proxies, j \in Kinds, w \in Versions :
            Valid(q, past[j][w + 1])' = Valid(q, past[j][w + 1])
      BY <2>0 DEF Valid
    <3> QED
      BY <1>0, <2>0, <3>1, <3>2 DEF CacheOK
  <2>6. GivenOK'
    BY <1>0, <1>t, <2>0 DEF GivenOK
  <2>7. AloneOK'
    <3>1. \A j \in Kinds, m \in Names, u \in Callers : Busy(u, j, m)' <=> Busy(u, j, m)
      BY <2>0 DEF Busy
    <3> QED
      BY <1>0, <2>0, <3>1 DEF AloneOK, AloneAt
  <2>8. OneRowOK'
    BY <1>0, <1>t, <2>0 DEF OneRowOK, Rows
  <2>9. AgreeOK'
    BY <1>0, <2>0, AgreeKept
  <2>10. ClearOK'
    BY <1>0, <1>t, <2>0 DEF ClearOK, Rows, Remembered
  <2> QED
    BY <2>1, <2>2, <2>3, <2>4, <2>5, <2>6, <2>7, <2>8, <2>9, <2>10 DEF IInv
<1>13. ASSUME NEW r \in Reporters, NEW p \in Proxies, NEW k \in Kinds, GetValid(r, p, k)
       PROVE IInv'
  <2>a. onEvents[r].proxy = {p} /\ onEvents[r].kind = k /\ onEvents[r].version \in Nat
    <3>1. onEvents[r] \in Reads
      BY <1>t
    <3>2. onEvents[r] = [proxy |-> {p}, kind |-> k, version |-> onEvents[r].version]
      BY <1>13 DEF GetValid
    <3>3. onEvents[r].proxy = {p} /\ onEvents[r].kind = k
      BY <3>2
    <3> QED
      BY <3>1, <3>3 DEF Reads, Versions
  <2>b. /\ onEvents' \in [Reporters -> Reads] /\ onEvents'[r].proxy = {}
        /\ \A s \in Reporters \ {r} : onEvents'[s] = onEvents[s]
        /\ UNCHANGED <<rows, given, memory, version, call, clear, calls, past, disturbed, config>>
    BY <1>t, <1>13, FreeIs DEF GetValid, infoVars
  <2>1. CASE SameVersion(r, p, k)
    <3>0. /\ onEvents' \in [Reporters -> Reads] /\ onEvents'[r].proxy = {}
          /\ \A s \in Reporters \ {r} : onEvents'[s] = onEvents[s]
          /\ UNCHANGED <<cache, misfit>>
          /\ UNCHANGED <<rows, given, memory, version, call, clear, calls, past, disturbed, config>>
      BY <1>13, <2>1, <2>b DEF GetValid
    <3>1. TypeOK'
      BY <1>t, <3>0, BoundsAreNat DEF TypeOK, Calls, Reads, Caches, Versions
    <3>2. CallOK'
      BY <1>0, <3>0 DEF CallOK
    <3>3. PastOK'
      BY <1>0, <3>0 DEF PastOK
    <3>4. ReadOK'
      <4> SUFFICES ASSUME NEW s \in Reporters, onEvents'[s].proxy # {},
                          <<s, onEvents'[s].kind>> \notin misfit'
                   PROVE  onEvents'[s].version <= version[onEvents'[s].kind]
        BY <3>0 DEF ReadOK
      <4>1. s # r /\ onEvents[s].kind \in Kinds
        BY <1>t, <3>0 DEF Reads
      <4>2. <<s, onEvents[s].kind>> \notin misfit
        BY <3>0, <4>1, BoundsAreNat
      <4> QED
        BY <1>0, <3>0, <4>1, <4>2 DEF ReadOK
    <3>5. CacheOK'
      BY <1>0, <1>t, <3>0, CacheKept
    <3>6. GivenOK'
      BY <1>0, <1>t, <3>0 DEF GivenOK
    <3>7. AloneOK'
      <4>1. \A j \in Kinds, m \in Names, u \in Callers : Busy(u, j, m)' <=> Busy(u, j, m)
        BY <3>0 DEF Busy
      <4> QED
        BY <1>0, <3>0, <4>1 DEF AloneOK, AloneAt
    <3>8. OneRowOK'
      BY <1>0, <1>t, <3>0 DEF OneRowOK, Rows
    <3>9. AgreeOK'
      BY <1>0, <3>0, AgreeKept
    <3>10. ClearOK'
      BY <1>0, <1>t, <3>0 DEF ClearOK, Rows, Remembered
    <3> QED
      BY <3>1, <3>2, <3>3, <3>4, <3>5, <3>6, <3>7, <3>8, <3>9, <3>10 DEF IInv
  <2>2. CASE ~SameVersion(r, p, k)
    <3>v. PICK values : values = Valid(p, memory[k])
      OBVIOUS
    <3>w. values \in SUBSET Pairs
      BY <1>t, <3>v DEF Valid
    <3>0. /\ onEvents' \in [Reporters -> Reads] /\ onEvents'[r].proxy = {}
          /\ \A s \in Reporters \ {r} : onEvents'[s] = onEvents[s]
          /\ cache' \in [Proxies -> [Kinds -> Caches]]
          /\ cache'[p][k].version = onEvents[r].version /\ cache'[p][k].values = Valid(p, memory[k])
          /\ \A q \in Proxies, j \in Kinds : <<q, j>> # <<p, k>> => cache'[q][j] = cache[q][j]
          /\ misfit' \subseteq (Proxies \cup Reporters) \X Kinds
          /\ <<p, k>> \in misfit' <=> <<r, k>> \in misfit
          /\ \A m \in (Proxies \cup Reporters) \X Kinds : m # <<p, k>> => (m \in misfit' <=> m \in misfit)
          /\ UNCHANGED <<rows, given, memory, version, call, clear, calls, past, disturbed, config>>
      <4>1. /\ cache' = [cache EXCEPT ![p][k] = [version |-> onEvents[r].version, values |-> values]]
            /\ misfit' = (misfit \ {<<p, k>>}) \cup {m \in {<<p, k>>} : <<r, k>> \in misfit}
        BY <1>13, <2>2, <3>v DEF GetValid
      <4>2. [version |-> onEvents[r].version, values |-> values] \in Caches
        BY <2>a, <3>w DEF Caches, Versions
      <4>3. /\ cache' \in [Proxies -> [Kinds -> Caches]]
            /\ cache'[p][k] = [version |-> onEvents[r].version, values |-> values]
            /\ \A q \in Proxies, j \in Kinds : <<q, j>> # <<p, k>> => cache'[q][j] = cache[q][j]
        BY <1>t, <4>1, <4>2
      <4>4. /\ misfit' \subseteq (Proxies \cup Reporters) \X Kinds
            /\ <<p, k>> \in misfit' <=> <<r, k>> \in misfit
            /\ \A m \in (Proxies \cup Reporters) \X Kinds : m # <<p, k>> => (m \in misfit' <=> m \in misfit)
        BY <1>t, <4>1
      <4> QED
        BY <2>b, <3>v, <4>3, <4>4
    <3>1. TypeOK'
      BY <1>t, <3>0, BoundsAreNat DEF TypeOK, Calls, Reads, Caches, Versions
    <3>2. CallOK'
      BY <1>0, <3>0 DEF CallOK
    <3>3. PastOK'
      BY <1>0, <3>0 DEF PastOK
    <3>4. ReadOK'
      <4> SUFFICES ASSUME NEW s \in Reporters, onEvents'[s].proxy # {},
                          <<s, onEvents'[s].kind>> \notin misfit'
                   PROVE  onEvents'[s].version <= version[onEvents'[s].kind]
        BY <3>0 DEF ReadOK
      <4>1. s # r /\ onEvents[s].kind \in Kinds
        BY <1>t, <3>0 DEF Reads
      <4>2. <<s, onEvents[s].kind>> \notin misfit
        BY <3>0, <4>1, BoundsAreNat
      <4> QED
        BY <1>0, <3>0, <4>1, <4>2 DEF ReadOK
    <3>5. CacheOK'
      <4> SUFFICES ASSUME NEW q \in Proxies, NEW j \in Kinds,
                          cache'[q][j].version # None, <<q, j>> \notin misfit'
                   PROVE  \E w \in Versions :
                              /\ cache'[q][j].version <= w /\ w <= version[j]
                              /\ cache'[q][j].values = Valid(q, past[j][w + 1])'
        BY <3>0 DEF CacheOK
      <4>1. \A w \in Versions : Valid(q, past[j][w + 1])' = Valid(q, past[j][w + 1])
        BY <3>0 DEF Valid
      <4>2. CASE q = p /\ j = k
        <5>1. <<r, k>> \notin misfit
          BY <3>0, <4>2
        <5>2. onEvents[r].version <= version[k]
          BY <1>0, <2>a, <5>1 DEF ReadOK
        <5>3. version[k] \in Versions /\ past[k][version[k] + 1] = memory[k]
          BY <1>0, <1>t DEF PastOK, Versions
        <5>4. PICK w \in Versions : w = version[j]
          BY <4>2, <5>3
        <5>5. cache'[q][j].version <= w /\ w <= version[j]
          BY <1>t, <3>0, <4>2, <5>2, <5>4
        <5>6. cache'[q][j].values = Valid(q, past[j][w + 1])
          BY <3>0, <4>2, <5>3, <5>4
        <5>7. cache'[q][j].values = Valid(q, past[j][w + 1])'
          BY <4>1, <5>6
        <5> QED
          BY <5>5, <5>7
      <4>3. CASE ~(q = p /\ j = k)
        <5>1. cache'[q][j] = cache[q][j] /\ <<q, j>> \notin misfit
          BY <3>0, <4>3
        <5> QED
          BY <1>0, <3>0, <4>1, <5>1 DEF CacheOK
      <4> QED
        BY <4>2, <4>3
    <3>6. GivenOK'
      BY <1>0, <1>t, <3>0 DEF GivenOK
    <3>7. AloneOK'
      <4>1. \A j \in Kinds, m \in Names, u \in Callers : Busy(u, j, m)' <=> Busy(u, j, m)
        BY <3>0 DEF Busy
      <4> QED
        BY <1>0, <3>0, <4>1 DEF AloneOK, AloneAt
    <3>8. OneRowOK'
      BY <1>0, <1>t, <3>0, ZenonT(40) DEF OneRowOK, Rows
    <3>9. AgreeOK'
      BY <1>0, <3>0, AgreeKept
    <3>10. ClearOK'
      BY <1>0, <1>t, <3>0 DEF ClearOK, Rows, Remembered
    <3> QED
      BY <3>1, <3>2, <3>3, <3>4, <3>5, <3>6, <3>7, <3>8, <3>9, <3>10 DEF IInv
  <2> QED
    BY <2>1, <2>2
<1>14. ASSUME UNCHANGED vars PROVE IInv'
  <2>0. UNCHANGED <<rows, given, memory, version, call, clear, config, cache, onEvents, calls,
                    past, misfit, disturbed>>
    BY <1>14 DEF vars
  <2>1. TypeOK' /\ CallOK' /\ PastOK' /\ ReadOK' /\ GivenOK'
    BY <1>0, <2>0 DEF TypeOK, CallOK, PastOK, ReadOK, GivenOK
  <2>2. CacheOK'
    BY <1>0, <1>t, <2>0, CacheKept
  <2>3. AloneOK'
    BY <1>0, <2>0 DEF AloneOK, AloneAt, Busy
  <2>4. OneRowOK' /\ ClearOK'
    BY <1>0, <2>0 DEF OneRowOK, ClearOK, Rows, Remembered
  <2>5. AgreeOK'
    BY <1>0, <2>0, AgreeKept
  <2> QED
    BY <2>1, <2>2, <2>3, <2>4, <2>5 DEF IInv
<1> QED
  BY <1>1, <1>2, <1>3, <1>4, <1>5, <1>6, <1>7, <1>8, <1>9, <1>10, <1>11, <1>12, <1>13, <1>14, BoundsAreNat
     DEF Next, SetUserId, SetUserProperty, GetValidUserIds, GetValidUserProperties

LEMMA Invariance == Spec => []IInv
BY InitIInv, NextIInv, PTL DEF Spec

\* The variables have their types, whatever is set, removed, cleared and read.
THEOREM TypeCorrect == Spec => []TypeOK
<1>1. IInv => TypeOK
  BY DEF IInv
<1> QED
  BY <1>1, Invariance, PTL

\* What a processor caches under a version is what it may see of that version or of a later
\* one, never of an earlier one: a value that was set before the version was read is there,
\* and one that was removed is not, although GetValidUserIds reads the version and the values
\* in two steps; the misfits a ClearData or a SetReportConfig leaves are excepted.
THEOREM CachesAreNotOlder == Spec => []CacheNotOlder
<1>1. IInv => CacheNotOlder
  <2> SUFFICES ASSUME IInv, NEW p \in Proxies, NEW k \in Kinds,
                      cache[p][k].version # None, <<p, k>> \notin misfit
               PROVE  \E w \in cache[p][k].version..version[k] :
                        cache[p][k].values = Valid(p, past[k][w + 1])
    BY DEF CacheNotOlder, IInv
  <2>1. PICK w \in Versions : /\ cache[p][k].version <= w /\ w <= version[k]
                              /\ cache[p][k].values = Valid(p, past[k][w + 1])
    BY DEF IInv, CacheOK
  <2>2. cache[p][k].version \in Int /\ version[k] \in Int /\ w \in Int
    BY DEF IInv, TypeOK, Versions, None
  <2> QED
    BY <2>1, <2>2
<1> QED
  BY <1>1, Invariance, PTL

\* A restart reads from the tables what the memory had: for a name that no calls overlapped
\* for, and that no call is busy with, the table has one row with the memory's value, or none.
THEOREM RestartsKeep == Spec => []RestartKeeps
<1>1. IInv => RestartKeeps
  BY DEF IInv, RestartKeeps, OneRowOK, AgreeOK, AgreeAt, Between, Agree, Busy, Rows, Remembered
<1> QED
  BY <1>1, Invariance, PTL
=============================================================================
