------------------------------- MODULE UserInfo -------------------------------
(* User ids and user properties: two tables, their copy in memory (UserInfo), and  *)
(* the copy of that copy each processor keeps under the version it read            *)
(* (AppEventProcessorProxy).                                                       *)
(*                                                                                 *)
(* A set queries the table, then inserts or updates, then changes the memory: three *)
(* steps with no lock across them.  ClearData empties the memory and starts the    *)
(* versions again from 0 before it empties the tables.                             *)
EXTENDS Integers, Sequences

CONSTANTS
    Callers,    \* threads that set and remove user ids and properties
    Reporters,  \* threads that hand events to processors
    Proxies,    \* processors
    Names, Values,
    Accepted,   \* values the processors' ValidateUserId and ValidateUserProperty accept
    Configs,    \* report configurations: the names a processor asks for, of either kind
    MaxCalls,   \* bound: calls and restarts together
    MayFail     \* whether database operations may fail

ASSUME UserInfoAssumption ==
    /\ Accepted \subseteq Values
    /\ Configs \subseteq SUBSET Names
    /\ MaxCalls \in Nat
    /\ MayFail \in BOOLEAN
    /\ Proxies \cap Reporters = {}

VARIABLES
    rows,       \* tables user_ids and user_properties: rows <<seq, <<name, value>>>>
    given,      \* sequences given so far, of each table (sqlite_sequence)
    memory,     \* userIds_, userProperties_: sets of <<name, value>>
    version,    \* userIdVersion_, userPropertyVersion_
    call,       \* what each caller does
    clear,      \* how far ClearData is
    config,     \* reportConfig_ of each processor: the names it asks for
    cache,      \* userIds_ and userIdVersion_ of each processor
    onEvents,   \* the processor each reporter serves and the versions it read
    calls,
    past,       \* history: the memory of each version since the versions last started
    misfit,     \* history: caches and reads older than a ClearData or a SetReportConfig
    disturbed   \* history: names calls overlapped for

vars == <<rows, given, memory, version, call, clear, config, cache, onEvents, calls,
          past, misfit, disturbed>>

Kinds == {"id", "property"}
Pairs == Names \X Values
None == -1      \* no version yet
Versions == Nat

Idle == [pc |-> "idle", kind |-> "id", name |-> {}, value |-> {}]
Free == [proxy |-> {}, kind |-> "id", version |-> 0]

TypeOK ==
    /\ rows \in [Kinds -> SUBSET (Nat \X Pairs)]
    /\ given \in [Kinds -> Nat]
    /\ memory \in [Kinds -> SUBSET Pairs]
    /\ version \in [Kinds -> Versions]
    /\ call \in [Callers -> [pc : {"idle", "query", "insert", "update", "set", "delete", "erase"},
                             kind : Kinds, name : SUBSET Names, value : SUBSET Values]]
    /\ clear \in {"idle", "id", "property"}
    /\ config \in [Proxies -> Configs]
    /\ cache \in [Proxies -> [Kinds -> [version : Versions \cup {None}, values : SUBSET Pairs]]]
    /\ onEvents \in [Reporters -> [proxy : SUBSET Proxies, kind : Kinds, version : Versions]]
    /\ past \in [Kinds -> Seq(SUBSET Pairs)]
    /\ misfit \subseteq (Proxies \cup Reporters) \X Kinds
    /\ disturbed \subseteq Kinds \X Names
    /\ calls \in 0..MaxCalls

--------------------------------------------------------------------------------
(* The tables.                                                                     *)

Named(N, pairs) == {p \in pairs : p[1] \in N}

\* A new row comes after all others (AUTOINCREMENT).
Insert(table, seq, N, V) == table \cup ({seq} \X (N \X V))

RowsOf(N, table) == {r \in table : r[2][1] \in N}

Update(table, N, V) ==
    (table \ RowsOf(N, table)) \cup
        {<<r[1], <<r[2][1], v>>>> : r \in RowsOf(N, table), v \in V}

\* Mutant: a clear leaves the table.
DeleteNamed(table, N) == IF N = Names THEN table ELSE table \ RowsOf(N, table)

\* Delete with a name; ClearData passes none and means all of them.
Delete(table, N) == table \ RowsOf(N, table)

\* QueryAll reads the rows in order, the last of a name wins.
QueryAll(table) ==
    {r[2] : r \in {q \in table : \A p \in RowsOf({q[2][1]}, table) : p[1] <= q[1]}}

--------------------------------------------------------------------------------
(* SetUserId, RemoveUserId and the same for properties.                            *)

proxyVars == <<config, cache, onEvents, misfit>>

Return(t) == call' = [call EXCEPT ![t] = Idle]
Goto(t, pc) == call' = [call EXCEPT ![t].pc = pc]

Fails(t) ==
    /\ MayFail
    /\ call[t].pc \in {"query", "insert", "update", "delete"}
    /\ Return(t)
    /\ UNCHANGED <<rows, given, memory, version, clear, calls, past, disturbed, proxyVars>>

Overlapping(k, N) ==
    {<<k, n>> : n \in {m \in N : clear # "idle" \/
                        \E t \in Callers : call[t].kind = k /\ m \in call[t].name}}

Start(t, k, n, V) ==
    /\ call[t].pc = "idle"
    /\ calls < MaxCalls
    /\ calls' = calls + 1
    /\ call' = [call EXCEPT ![t] = [pc |-> IF V = {} THEN "delete" ELSE "query",
                                    kind |-> k, name |-> {n}, value |-> V]]
    /\ disturbed' = disturbed \cup Overlapping(k, {n})
    /\ UNCHANGED <<rows, given, memory, version, clear, past, proxyVars>>

\* From JavaScript: a null or an empty value removes, any other one is set.
SetUserId(t, n, V) == Start(t, "id", n, V)
SetUserProperty(t, n, V) == Start(t, "property", n, V)

QueryValue(t) ==
    /\ call[t].pc = "query"
    /\ Goto(t, IF RowsOf(call[t].name, rows[call[t].kind]) = {} THEN "insert" ELSE "update")
    /\ UNCHANGED <<rows, given, memory, version, clear, calls, past, disturbed, proxyVars>>

StoreValue(t) ==
    LET c == call[t] IN
    /\ \/ /\ c.pc = "insert"
          /\ rows' = [rows EXCEPT ![c.kind] = Insert(@, given[c.kind] + 1, c.name, c.value)]
          /\ given' = [given EXCEPT ![c.kind] = @ + 1]
       \/ /\ c.pc = "update"
          /\ rows' = [rows EXCEPT ![c.kind] = Update(@, c.name, c.value)]
          /\ UNCHANGED given
    /\ Goto(t, "set")
    /\ UNCHANGED <<memory, version, clear, calls, past, disturbed, proxyVars>>

\* Under g_mutex: the values of a kind and its version change together.
Change(k, values) ==
    /\ memory' = [memory EXCEPT ![k] = values]
    /\ version' = [version EXCEPT ![k] = @ + 1]
    /\ past' = [past EXCEPT ![k] = Append(@, values)]

SetInMemory(t) ==
    LET c == call[t] IN
    /\ c.pc = "set"
    /\ Change(c.kind, (memory[c.kind] \ Named(c.name, memory[c.kind])) \cup (c.name \X c.value))
    /\ Return(t)
    /\ UNCHANGED <<rows, given, clear, calls, disturbed, proxyVars>>

DeleteRows(t) ==
    /\ call[t].pc = "delete"
    /\ rows' = [rows EXCEPT ![call[t].kind] = Delete(@, call[t].name)]
    /\ Goto(t, "erase")
    /\ UNCHANGED <<given, memory, version, clear, calls, past, disturbed, proxyVars>>

\* Mutant: a removal leaves the version.
EraseSilently(t) ==
    LET c == call[t] IN
    /\ c.pc = "erase"
    /\ memory' = [memory EXCEPT ![c.kind] = @ \ Named(c.name, @)]
    /\ past' = [past EXCEPT ![c.kind][version[c.kind] + 1] = memory'[c.kind]]
    /\ Return(t)
    /\ UNCHANGED <<rows, given, version, clear, calls, disturbed, proxyVars>>

EraseInMemory(t) ==
    LET c == call[t]
        named == Named(c.name, memory[c.kind]) IN
    /\ c.pc = "erase"
    /\ IF named = {} THEN UNCHANGED <<memory, version, past>>
                     ELSE Change(c.kind, memory[c.kind] \ named)
    /\ Return(t)
    /\ UNCHANGED <<rows, given, clear, calls, disturbed, proxyVars>>

--------------------------------------------------------------------------------
(* ClearData, a crash and the restart.                                             *)

ClearMemory ==
    /\ clear = "idle"
    /\ calls < MaxCalls
    /\ calls' = calls + 1
    /\ clear' = "id"
    /\ memory' = [k \in Kinds |-> {}]
    /\ version' = [k \in Kinds |-> 0]
    /\ past' = [k \in Kinds |-> <<{}>>]
    /\ misfit' = {m \in (Proxies \cup Reporters) \X Kinds :
                    \/ m[1] \in Proxies /\ cache[m[1]][m[2]].version # None
                    \/ m[1] \in Reporters /\ onEvents[m[1]].proxy # {}}
    /\ disturbed' = disturbed \cup UNION {{call[t].kind} \X call[t].name : t \in Callers}
    /\ UNCHANGED <<rows, given, call, config, cache, onEvents>>

ClearTable ==
    /\ clear # "idle"
    /\ \/ rows' = [rows EXCEPT ![clear] = Delete(@, Names)] /\ UNCHANGED disturbed
       \/ MayFail /\ UNCHANGED rows /\ disturbed' = disturbed \cup ({clear} \X Names)
    /\ clear' = IF clear = "id" THEN "property" ELSE "idle"
    /\ UNCHANGED <<given, memory, version, call, calls, past, proxyVars>>

NoCache == [p \in Proxies |-> [k \in Kinds |-> [version |-> None, values |-> {}]]]

\* The process restarts: InitUserIds and InitUserProperties read the tables again, and the
\* processors are added again with what they were configured with.
Crash ==
    /\ calls < MaxCalls
    /\ calls' = calls + 1
    /\ UNCHANGED <<rows, given, config>>
    /\ \E readable \in IF MayFail THEN SUBSET Kinds ELSE {Kinds} :
        /\ memory' = [k \in Kinds |-> IF k \in readable THEN QueryAll(rows[k]) ELSE {}]
        /\ disturbed' = disturbed \cup ((Kinds \ readable) \X Names)
    /\ version' = [k \in Kinds |-> 0]
    /\ past' = [k \in Kinds |-> <<memory'[k]>>]
    /\ call' = [t \in Callers |-> Idle]
    /\ clear' = "idle"
    /\ cache' = NoCache
    /\ onEvents' = [r \in Reporters |-> Free]
    /\ misfit' = {}

--------------------------------------------------------------------------------
(* Processors.                                                                     *)

infoVars == <<rows, given, memory, version, call, clear, calls, past, disturbed>>

SetReportConfig(p, N) ==
    /\ config[p] # N
    /\ calls < MaxCalls
    /\ calls' = calls + 1
    /\ config' = [config EXCEPT ![p] = N]
    /\ misfit' = misfit \cup ({p} \X {k \in Kinds : cache[p][k].version # None})
    /\ UNCHANGED <<rows, given, memory, version, call, clear, past, disturbed, cache, onEvents>>

Valid(p, pairs) == {q \in pairs : q[1] \in config[p] /\ q[2] \in Accepted}

\* OnEvents reads the version of a kind first, of user ids and then of properties; which
\* comes first makes no difference ...
OnEvents(r, p, k) ==
    /\ onEvents[r] = Free
    /\ onEvents' = [onEvents EXCEPT ![r] = [proxy |-> {p}, kind |-> k, version |-> version[k]]]
    /\ misfit' = misfit \ {<<r, k>>}
    /\ UNCHANGED <<infoVars, config, cache>>

SameVersion(r, p, k) == onEvents[r].version = cache[p][k].version

\* ... and takes the cached values or, when the version differs, all values under mutex_.
GetValid(r, p, k) ==
    /\ onEvents[r] = [proxy |-> {p}, kind |-> k, version |-> onEvents[r].version]
    /\ IF SameVersion(r, p, k)
       THEN UNCHANGED <<cache, misfit>>
       ELSE /\ cache' = [cache EXCEPT ![p][k] = [version |-> onEvents[r].version,
                                                 values |-> Valid(p, memory[k])]]
            /\ misfit' = (misfit \ {<<p, k>>}) \cup {m \in {<<p, k>>} : <<r, k>> \in misfit}
    /\ onEvents' = [onEvents EXCEPT ![r] = Free]
    /\ UNCHANGED <<infoVars, config>>

GetValidUserIds(r, p) == GetValid(r, p, "id")
GetValidUserProperties(r, p) == GetValid(r, p, "property")

--------------------------------------------------------------------------------
Init ==
    /\ rows = [k \in Kinds |-> {}]
    /\ given = [k \in Kinds |-> 0]
    /\ config \in [Proxies -> Configs]
    /\ memory = [k \in Kinds |-> {}]
    /\ version = [k \in Kinds |-> 0]
    /\ past = [k \in Kinds |-> <<{}>>]
    /\ call = [t \in Callers |-> Idle]
    /\ clear = "idle"
    /\ cache = NoCache
    /\ onEvents = [r \in Reporters |-> Free]
    /\ misfit = {}
    /\ calls = 0
    /\ disturbed = {}

Next ==
    \/ \E t \in Callers :
        \/ \E n \in Names, V \in {{}} \cup {{v} : v \in Values} :
            SetUserId(t, n, V) \/ SetUserProperty(t, n, V)
        \/ QueryValue(t)
        \/ StoreValue(t)
        \/ SetInMemory(t)
        \/ DeleteRows(t)
        \/ EraseInMemory(t)
        \/ Fails(t)
    \/ ClearMemory
    \/ ClearTable
    \/ Crash
    \/ \E p \in Proxies :
        \/ \E N \in Configs : SetReportConfig(p, N)
        \/ \E r \in Reporters :
            \/ \E k \in Kinds : OnEvents(r, p, k)
            \/ GetValidUserIds(r, p)
            \/ GetValidUserProperties(r, p)

Spec == Init /\ [][Next]_vars

--------------------------------------------------------------------------------
(* Properties.                                                                     *)

\* What a processor holds under a version are the values it may see of that version or of
\* a later one, never of an earlier one, although version and values are read in two
\* steps with changes in between; the exceptions are caches that a ClearData (the versions
\* start again) or a SetReportConfig (the version stays) has made misfits.
CacheNotOlder ==
    /\ TypeOK
    /\ \A p \in Proxies, k \in Kinds :
           LET c == cache[p][k] IN
           c.version # None /\ <<p, k>> \notin misfit =>
               \E w \in c.version..version[k] : c.values = Valid(p, past[k][w + 1])

\* Once no call is busy with a name and no calls have overlapped for it, its table has one
\* row, with the value the memory has, or none when the memory has none: a restart changes
\* nothing, and what ClearData or a removal took away does not come back.
RestartKeeps ==
    \A k \in Kinds, n \in Names :
        \/ <<k, n>> \in disturbed
        \/ clear # "idle"
        \/ \E t \in Callers : call[t].kind = k /\ n \in call[t].name
        \/ /\ \A q, r \in RowsOf({n}, rows[k]) : q = r
           /\ {r[2] : r \in RowsOf({n}, rows[k])} = Named({n}, memory[k])
================================================================================
