------------------------------- MODULE Settings -------------------------------
(* What an application sets, from several threads at once: the policies of OS events,     *)
(* the storage quota and the switch of HiAppEvent, and its processors.                    *)
(*                                                                                        *)
(* Most policies are attributes of a directory and outlive the process: the switches of   *)
(* page switch logs with the id of the run that set them, the minidump setting and others *)
(* without.  The process also keeps, in memory, the page switch status (on while one of   *)
(* the switches was set to true by this run) and the setting of the crash library.  OS    *)
(* events of earlier runs are handled by a thread that looks their switch up and takes    *)
(* the setting of an ended run away.  A processor is added once its module is loaded and  *)
(* has registered it; a module may take its processor back at any time.                   *)
EXTENDS ReportConfigs, FiniteSets

CONSTANTS
    Callers,        \* threads of the application
    Packs,          \* policies they set at once: [by, pack], pack a sequence of [name, conf]
    Configs,        \* configurations of processors they give, in Interfaces \X ...
    Files,          \* what the file of named configurations may hold
    Options,        \* sequences of configuration items they give, each [item, value]
    MaxCalls, MaxEvents, MaxRuns, MaxFaults     \* bounds

\* AddProcessor of each, and JavaScript's addProcessorFromConfig.
Interfaces == {"js", "ets", "cj", "ndk", "inner", "file"}

\* Quotas that are numbers with a unit.
Quotas == {"small", "large"}

Switches == {"asan", "crash", "freeze", "overlimit"}
Keys == Switches \cup {"minidump", "heap", "refined", "cpu"}
Policies == Switches \cup {"cpu"}
None == [run |-> 0, value |-> "none"]

\* A pack names a policy once, an item of a policy once; each has something in it.  So have
\* options, which name an item once.
ASSUME SettingsAssumption ==
    /\ \A p \in Packs :
        /\ p.by \in {"js", "ets", "c"}
        /\ p.pack \in Seq(ToSet(p.pack)) /\ p.pack # <<>>
        /\ \A m, n \in DOMAIN p.pack :
            /\ p.pack[n].name \in Policies
            /\ p.pack[m].name = p.pack[n].name => m = n
    /\ \A o \in Options :
        /\ o \in Seq(ToSet(o)) /\ o # <<>>
        /\ \A m, n \in DOMAIN o : o[m].item = o[n].item => m = n
    /\ \A f \in Configs \cup Files : DOMAIN f = Fields
    /\ {MaxCalls, MaxEvents, MaxRuns, MaxFaults} \subseteq Nat /\ MaxRuns > 0

VARIABLES
    run,        \* the run of the application, its running id
    stored,     \* the attributes: the run that set each (0 without) and its value
    status,     \* the page switch status
    library,    \* the crash library is there: its function is a weak symbol
    dump,       \* whether the crash library collects minidumps
    built,      \* the policies have been built
    config,     \* disable_ and maxStorageSize_
    range,      \* threads whose errno may be ERANGE
    loaded,     \* modules_ has the module of the processor
    registered, \* processors_ of the module loader has the processor
    added,      \* processors of the manager: the interface, and the configuration
    th,         \* what each caller does
    events,     \* OS events not handled yet: <<switch, sequence>>
    os,         \* the thread that handles OS events
    calls, sent, faults,
    done,       \* history: the answer to the last call of each thread
    excused,    \* history: something was wrong in what it was given, or failed in it
    mine,       \* history: what this run last stored under each switch
    overtaken,  \* history: switches stored while their old setting was being removed
    astray,     \* history: which of status and dump may not be what is stored
    overlap,    \* history: two calls of this run overlapped, or a call and an event
    crossed     \* history: a processor was added while it was unregistered

policyVars == <<stored, status, library, dump, built, mine, overtaken, astray>>
configVars == <<config, range>>
processorVars == <<loaded, registered, added, crossed>>
osVars == <<events, os, sent>>
callVars == <<calls, done, excused, overlap>>
vars == <<run, policyVars, configVars, processorVars, osVars, callVars, th, faults>>

Idle == [pc |-> "idle"]
Answers == {"none", "ok", "refused"}

TypeOK ==
    /\ run \in 1..MaxRuns
    /\ \A k \in Keys : stored[k].run \in 0..run
    /\ {status, library, dump, built, loaded, registered, overlap, crossed} \subseteq BOOLEAN
    /\ config \in [disable : BOOLEAN, quota : Quotas \cup {"default"}]
    /\ range \subseteq Callers
    /\ \A p \in added : DOMAIN p.conf = Fields /\ DOMAIN p.given = Fields
    /\ \A c \in Callers : th[c].pc \in {"idle", "start", "status", "set", "items", "apply", "refined",
                                        "heap", "configure", "load", "create", "register", "erase"}
    /\ done \in [Callers -> Answers] /\ excused \in [Callers -> BOOLEAN]
    /\ overtaken \subseteq Switches /\ astray \subseteq {"status", "dump"}
    /\ {calls, sent, faults} \subseteq Nat

Init ==
    /\ run = 1 /\ stored = [k \in Keys |-> None] /\ mine = [s \in Switches |-> "none"]
    /\ status = FALSE /\ library \in BOOLEAN /\ dump = FALSE /\ built = FALSE
    /\ overtaken = {} /\ astray = {}
    /\ config = [disable |-> FALSE, quota |-> "default"] /\ range = {}
    /\ loaded = FALSE /\ registered = FALSE /\ added = {} /\ crossed = FALSE
    /\ events = {} /\ os = Idle /\ sent = 0
    /\ calls = 0 /\ overlap = FALSE /\ faults = 0
    /\ done = [c \in Callers |-> "none"] /\ excused = [c \in Callers |-> FALSE]
    /\ th = [c \in Callers |-> Idle]

Fault == faults < MaxFaults /\ faults' = faults + 1

\* Something fails in the call of c, and the call may be refused for it.
FailIn(c) == Fault /\ excused' = [excused EXCEPT ![c] = TRUE]

--------------------------------------------------------------------------------
(* Calls.                                                                                *)

\* Caller c calls; anything it finds under way may get in its way.
Call(c, state, suspect) ==
    /\ th[c].pc = "idle"
    /\ calls < MaxCalls
    /\ calls' = calls + 1
    /\ th' = [th EXCEPT ![c] = state]
    /\ done' = [done EXCEPT ![c] = IF state # Idle THEN "none" ELSE IF suspect THEN "refused" ELSE "ok"]
    /\ excused' = [excused EXCEPT ![c] = suspect]
    /\ overlap' = (overlap \/ os.pc # "idle" \/ \E d \in Callers : th[d].pc # "idle")

Answer(c, ok) ==
    /\ th' = [th EXCEPT ![c] = Idle]
    /\ done' = [done EXCEPT ![c] = IF ok THEN "ok" ELSE "refused"]

Goto(c, pc) == th' = [th EXCEPT ![c].pc = pc] /\ UNCHANGED done

--------------------------------------------------------------------------------
(* Event policies.                                                                       *)

Has(conf, item) == item \in DOMAIN conf
Empty(conf) == DOMAIN conf = {}
Without(conf, item) == [i \in DOMAIN conf \ {item} |-> conf[i]]
IsBool(v) == v \in {"true", "false"}

\* Items of APP_CRASH that are right; "cutoff" is a number of bytes, the other items are "log".
RightItems(conf) ==
    {i \in DOMAIN conf : IF i = "cutoff" THEN conf[i] = "good"
                        ELSE i \in {"minidump", "log"} /\ IsBool(conf[i])}
RightHeap(conf) == Has(conf, "heap") /\ conf["heap"] # "bad"

\* What is wrong in a policy, so that it is refused.
Doubtful(p) ==
    LET items == Without(p.conf, "switch")
        others == DOMAIN p.conf \ {"switch", "refined"} IN
    \/ p.name \in {"asan", "freeze"} /\ ~Empty(p.conf) /\ ~Has(p.conf, "switch")
    \/ p.name = "crash" /\ ~Empty(items) /\ RightItems(items) = {}
    \/ p.name = "overlimit" /\ others # {} /\ ~RightHeap(p.conf)

\* What the library does once the policies have been built.
MiniDump == IF built THEN dump ELSE library /\ stored["minidump"].value = "true"

\* The first use of the policies builds them.  The crash policy reads the minidump setting and
\* tells the library; when the directory, the attribute or the library fails, nobody hears of it.
InitMiniDumpConfig ==
    /\ built' = TRUE
    /\ \/ dump' = MiniDump /\ UNCHANGED <<astray, faults>>
       \/ ~built /\ Fault /\ astray' = astray \cup {"dump"} /\ UNCHANGED dump

\* An item of another type than its own: JavaScript takes nothing.
Mistyped(pack) == \E n \in DOMAIN pack : \E i \in DOMAIN pack[n].conf : pack[n].conf[i] = "mistyped"

ConfigEventPolicy(c, by, pack) ==
    /\ IF by = "js" /\ Mistyped(pack)
       THEN Call(c, Idle, TRUE) /\ UNCHANGED <<built, dump, astray, faults>>
       ELSE /\ Call(c, [pc |-> "start", by |-> by, pack |-> pack, todo |-> pack, conf |-> Head(pack).conf,
                        kept |-> {}, seen |-> FALSE, good |-> TRUE],
                    \E n \in DOMAIN pack : Doubtful(pack[n]))
            /\ InitMiniDumpConfig
    /\ UNCHANGED <<run, stored, status, library, mine, overtaken, configVars, processorVars, osVars>>

\* JavaScript's setEventConfig for APP_CRASH tells the crash library and stores nothing.  It is
\* refused without the library only, whatever the library answers.
SetCrashLogConfig(c, value) ==
    /\ Call(c, Idle, ~library)
    /\ built' = TRUE
    /\ \/ dump' = (library /\ value) /\ UNCHANGED faults
       \/ Fault /\ dump' = MiniDump
    /\ astray' = astray \cup {"dump"}
    /\ UNCHANGED <<run, stored, status, library, mine, overtaken, configVars, processorVars, osVars>>

Policy(c) == Head(th[c].todo).name
At(c, pc) == th[c].pc = pc

\* Mutant: JavaScript answers with the last policy's result.
FinishAll(c, ok) ==
    LET rest == Tail(th[c].todo) IN
    IF rest = <<>> THEN Answer(c, ok)
    ELSE /\ th' = [th EXCEPT ![c] = [@ EXCEPT !.pc = "start", !.todo = rest, !.conf = rest[1].conf,
                                              !.good = ok, !.kept = {}]]
         /\ UNCHANGED done

\* A policy has been set.  JavaScript goes no further once one failed; ETS does.
FinishPolicy(c, ok) ==
    LET rest == Tail(th[c].todo)
        good == th[c].good /\ ok IN
    IF rest = <<>> \/ (th[c].by = "js" /\ ~ok) THEN Answer(c, good)
    ELSE /\ th' = [th EXCEPT ![c] = [@ EXCEPT !.pc = "start", !.todo = rest, !.conf = rest[1].conf,
                                              !.good = good, !.kept = {}]]
         /\ UNCHANGED done

\* setxattr, or what comes before it, may fail.
SaveEventConfig(k, r, value) == stored' = [stored EXCEPT ![k] = [run |-> r, value |-> value]]

MayBeRemoving(s) == os.pc = "remove" /\ os.switch = s

\* No configuration at all is no failure; one without the switch is, but for APP_CRASH and
\* RESOURCE_OVERLIMIT, which have other items.
ConfigPageSwitch(c) ==
    LET conf == th[c].conf
        s == Policy(c) IN
    /\ At(c, "start")
    /\ s \in Switches
    /\ \/ /\ ~Has(conf, "switch")
          /\ CASE ~Empty(conf) /\ s = "crash"     -> Goto(c, "items")
               [] ~Empty(conf) /\ s = "overlimit" -> Goto(c, "refined")
               [] OTHER                           -> FinishPolicy(c, Empty(conf))
          /\ UNCHANGED <<stored, mine, overtaken, excused, faults>>
       \/ /\ Has(conf, "switch")
          /\ SaveEventConfig(s, run, conf["switch"])
          /\ mine' = [mine EXCEPT ![s] = conf["switch"]]
          /\ overtaken' = IF MayBeRemoving(s) THEN overtaken \cup {s} ELSE overtaken \ {s}
          /\ Goto(c, "status")
          /\ UNCHANGED <<excused, faults>>
       \/ /\ Has(conf, "switch")
          /\ FailIn(c)
          /\ FinishPolicy(c, FALSE)
          /\ UNCHANGED <<stored, mine, overtaken>>
    /\ UNCHANGED <<run, status, library, dump, built, astray, configVars, processorVars, osVars, calls, overlap>>

\* Mutant: any run's setting counts.
AnySwitchOn == \E s \in Switches : stored[s].value = "true"

CurSysPageSwitchStatus == \E s \in Switches : stored[s] = [run |-> run, value |-> "true"]

\* A value that does not fit into the buffer is skipped, and leaves ERANGE behind.  So is, by
\* mistake, an attribute that could not be read.
GetCurSysPageSwitchStatus(c) ==
    /\ At(c, "status")
    /\ \/ /\ th' = [th EXCEPT ![c].pc = "set", ![c].seen = CurSysPageSwitchStatus]
          /\ astray' = astray \ {"status"}
          /\ UNCHANGED faults
       \/ /\ Fault
          /\ th' = [th EXCEPT ![c].pc = "set", ![c].seen = FALSE]
          /\ astray' = astray \cup {"status"}
    /\ range' = IF \E s \in Switches : stored[s].value = "long" THEN range \cup {c} ELSE range
    /\ UNCHANGED <<run, stored, status, library, dump, built, mine, overtaken, config, processorVars,
                   osVars, callVars>>

SetPageSwitchStatus(c) ==
    LET rest == Without(th[c].conf, "switch") IN
    /\ At(c, "set")
    /\ status' = th[c].seen
    /\ CASE Empty(rest) \/ Policy(c) \in {"asan", "freeze"} -> FinishPolicy(c, TRUE)
         [] OTHER -> /\ th' = [th EXCEPT ![c].pc = IF Policy(c) = "crash" THEN "items" ELSE "refined",
                                         ![c].conf = rest]
                     /\ UNCHANGED done
    /\ UNCHANGED <<run, stored, library, dump, built, mine, overtaken, astray, configVars, processorVars,
                   osVars, calls, excused, overlap, faults>>

\* The items of APP_CRASH, one by one; those that are wrong, or cannot be stored, are skipped, and
\* so is a cut-off size that is right when the thread comes with ERANGE.
SetAppCrashLogPolicy(c) ==
    LET conf == th[c].conf
        right == RightItems(conf) IN
    /\ At(c, "items")
    /\ \E kept \in SUBSET right :
        /\ right \ kept \subseteq {"minidump", "cutoff"}
        /\ "cutoff" \in right \ kept => c \in range
        /\ IF "minidump" \in right \ kept THEN FailIn(c) ELSE UNCHANGED <<excused, faults>>
        /\ IF "minidump" \in kept THEN SaveEventConfig("minidump", 0, conf["minidump"]) ELSE UNCHANGED stored
        /\ range' = CASE Has(conf, "cutoff") /\ conf["cutoff"] = "huge" -> range \cup {c}
                      [] "cutoff" \in kept                             -> range \ {c}
                      [] OTHER                                         -> range
        /\ IF kept = {} THEN FinishPolicy(c, FALSE)
           ELSE th' = [th EXCEPT ![c].pc = "apply", ![c].kept = kept] /\ UNCHANGED done
    /\ UNCHANGED <<run, status, library, dump, built, mine, overtaken, astray, config, processorVars, osVars,
                   calls, overlap>>

\* Without the library the policy fails, what was stored of it notwithstanding; what the library
\* answers is ignored.
ApplyCrashLogConfig(c) ==
    /\ At(c, "apply")
    /\ FinishPolicy(c, library)
    /\ IF library /\ "minidump" \in th[c].kept
       THEN \/ /\ dump' = (th[c].conf["minidump"] = "true")
               /\ astray' = astray \ {"dump"}
               /\ UNCHANGED faults
            \/ Fault /\ astray' = astray \cup {"dump"} /\ UNCHANGED dump
       ELSE UNCHANGED <<dump, astray, faults>>
    /\ UNCHANGED <<run, stored, status, library, built, mine, overtaken, configVars, processorVars, osVars,
                   calls, excused, overlap>>

SaveRefined(c) ==
    LET rest == Without(th[c].conf, "refined") IN
    /\ At(c, "refined")
    /\ \/ /\ Has(th[c].conf, "refined")
          /\ SaveEventConfig("refined", 0, th[c].conf["refined"])
          /\ IF Empty(rest) THEN FinishPolicy(c, TRUE)
             ELSE th' = [th EXCEPT ![c].pc = "heap", ![c].conf = rest] /\ UNCHANGED done
          /\ UNCHANGED <<excused, faults>>
       \/ Has(th[c].conf, "refined") /\ FailIn(c) /\ FinishPolicy(c, FALSE) /\ UNCHANGED stored
       \/ ~Has(th[c].conf, "refined") /\ Goto(c, "heap") /\ UNCHANGED <<stored, excused, faults>>
    /\ UNCHANGED <<run, status, library, dump, built, mine, overtaken, astray, configVars, processorVars,
                   osVars, calls, overlap>>

\* The result is that of the heap item, a failure without one.
SetEventConfig(c) ==
    LET conf == th[c].conf
        valid == RightHeap(conf) IN
    /\ At(c, "heap")
    /\ \/ /\ valid
          /\ SaveEventConfig("heap", run, conf["heap"])
          /\ FinishPolicy(c, TRUE)
          /\ UNCHANGED <<excused, faults>>
       \/ valid /\ FailIn(c) /\ FinishPolicy(c, FALSE) /\ UNCHANGED stored
       \/ ~valid /\ FinishPolicy(c, FALSE) /\ UNCHANGED <<stored, excused, faults>>
    /\ UNCHANGED <<run, status, library, dump, built, mine, overtaken, astray, configVars, processorVars,
                   osVars, calls, overlap>>

\* Whatever cpuUsageHighPolicy is given is stored.
SaveCpuItem(c) ==
    /\ At(c, "start")
    /\ Policy(c) = "cpu"
    /\ \/ /\ IF Empty(th[c].conf) THEN UNCHANGED stored
             ELSE SaveEventConfig("cpu", 0, th[c].conf["item"])
          /\ FinishPolicy(c, TRUE)
          /\ UNCHANGED <<excused, faults>>
       \/ FailIn(c) /\ FinishPolicy(c, FALSE) /\ UNCHANGED stored
    /\ UNCHANGED <<run, status, library, dump, built, mine, overtaken, astray, configVars, processorVars,
                   osVars, calls, overlap>>

PolicyStep(c) ==
    \/ ConfigPageSwitch(c) \/ GetCurSysPageSwitchStatus(c) \/ SetPageSwitchStatus(c)
    \/ SetAppCrashLogPolicy(c) \/ ApplyCrashLogConfig(c)
    \/ SaveRefined(c) \/ SetEventConfig(c) \/ SaveCpuItem(c)

--------------------------------------------------------------------------------
(* The configuration of HiAppEvent.                                                      *)

RightOption(i) ==
    \/ i.item = "disable" /\ IsBool(i.value)
    \/ i.item = "maxStorage" /\ i.value \in Quotas

Configure(c, items) ==
    /\ Call(c, [pc |-> "configure", items |-> items, todo |-> items],
            \E n \in DOMAIN items : ~RightOption(items[n]))
    /\ UNCHANGED <<run, policyVars, configVars, processorVars, osVars, faults>>

\* One item after another, until one is refused.  A number too large for strtoull sets errno, as
\* a cut-off size does that is too large for strtoul; any other call of the thread may overwrite
\* it, and nothing clears it before the next number.
SetConfigurationItem(c) ==
    LET i == Head(th[c].todo)
        Taken == IF Len(th[c].todo) = 1 THEN Answer(c, TRUE)
                 ELSE th' = [th EXCEPT ![c].todo = Tail(@)] /\ UNCHANGED done IN
    /\ At(c, "configure")
    /\ \/ /\ RightOption(i) /\ i.item = "disable"
          /\ config' = [config EXCEPT !.disable = (i.value = "true")]
          /\ Taken
          /\ UNCHANGED range
       \/ /\ RightOption(i) /\ i.item = "maxStorage"
          /\ config' = [config EXCEPT !.quota = i.value]
          /\ range' = range \ {c}
          /\ Taken
       \/ /\ RightOption(i) /\ i.item = "maxStorage" /\ c \in range
          /\ Answer(c, FALSE)
          /\ UNCHANGED configVars
       \/ /\ ~RightOption(i)
          /\ range' = IF i.value = "huge" THEN range \cup {c} ELSE range
          /\ Answer(c, FALSE)
          /\ UNCHANGED config
    /\ UNCHANGED <<run, policyVars, processorVars, osVars, calls, excused, overlap, faults>>

--------------------------------------------------------------------------------
(* Processors.  One module and its processor; the name is right.                         *)

AddProcessor(c, by, given, named, file) ==
    /\ by \in Interfaces \ {"file"}
    /\ Call(c, [pc |-> "load", by |-> by, conf |-> ConfigBy(by, given, named, file),
                given |-> Source(by, given, named, file)], FALSE)
    /\ UNCHANGED <<run, policyVars, configVars, processorVars, osVars, faults>>

\* The file is read once the module is loaded, and nothing is added without it.
AddProcessorFromConfig(c, file) ==
    /\ Call(c, [pc |-> "load", by |-> "file", conf |-> file, given |-> file], ~LoadProcessorConfig(file))
    /\ UNCHANGED <<run, policyVars, configVars, processorVars, osVars, faults>>

\* A module that is loaded registers its processor.
Load(c) ==
    /\ At(c, "load")
    /\ \/ /\ loaded' = TRUE
          /\ registered' = (registered \/ ~loaded)
          /\ IF th[c].by = "file" /\ ~LoadProcessorConfig(th[c].conf) THEN Answer(c, FALSE)
             ELSE Goto(c, "create")
          /\ UNCHANGED <<excused, faults>>
       \/ ~loaded /\ FailIn(c) /\ Answer(c, FALSE) /\ UNCHANGED <<loaded, registered>>
    /\ UNCHANGED <<run, policyVars, configVars, added, crossed, osVars, calls, overlap>>

CreateProcessorProxy(c) ==
    /\ At(c, "create")
    /\ IF registered THEN Goto(c, "register") ELSE Answer(c, FALSE)
    /\ UNCHANGED <<run, policyVars, configVars, processorVars, osVars, calls, excused, overlap, faults>>

RegisterObserver(c) ==
    /\ At(c, "register")
    /\ added' = added \cup {[by |-> th[c].by, conf |-> th[c].conf, given |-> th[c].given]}
    /\ crossed' = (crossed \/ \E d \in Callers : At(d, "erase"))
    /\ Answer(c, TRUE)
    /\ UNCHANGED <<run, policyVars, configVars, loaded, registered, osVars, calls, excused, overlap, faults>>

\* Mutant: the observers are left where they are.
LeaveObservers == UNCHANGED added

RemoveObservers == added' = {}

\* UnregisterProcessor removes the observers of the processor, then forgets the processor.
UnregisterProcessor(c) ==
    /\ registered
    /\ Call(c, [pc |-> "erase"], FALSE)
    /\ RemoveObservers
    /\ UNCHANGED <<run, policyVars, configVars, loaded, registered, crossed, osVars, faults>>

EraseProcessor(c) ==
    /\ At(c, "erase")
    /\ Answer(c, registered)
    /\ registered' = FALSE
    /\ crossed' = (crossed \/ \E d \in Callers : At(d, "register"))
    /\ UNCHANGED <<run, policyVars, configVars, loaded, added, osVars, calls, excused, overlap, faults>>

ProcessorStep(c) ==
    \/ Load(c) \/ CreateProcessorProxy(c) \/ RegisterObserver(c) \/ EraseProcessor(c)

--------------------------------------------------------------------------------
(* OS events, and the end of the process.                                                *)

OsEvent(s) ==
    /\ sent < MaxEvents
    /\ sent' = sent + 1
    /\ events' = events \cup {<<s, sent'>>}
    /\ UNCHANGED <<run, policyVars, configVars, processorVars, os, callVars, th, faults>>

\* Whether the event gets the log is the value read here, whichever run set it.  Nothing is done
\* for one that cannot be read.
GetEventPageSwitchStatus(e) ==
    /\ os.pc = "idle"
    /\ e \in events
    /\ events' = events \ {e}
    /\ InitMiniDumpConfig
    /\ \/ stored[e[1]].value \notin {"none", "long"} /\ os' = [pc |-> "check", switch |-> e[1]]
       \/ UNCHANGED os
    /\ overlap' = (overlap \/ \E c \in Callers : th[c].pc # "idle")
    /\ UNCHANGED <<run, stored, status, library, mine, overtaken, configVars, processorVars, sent,
                   calls, done, excused, th>>

\* Mutant: the setting is taken away whichever run set it.
RemoveAnyConfig ==
    /\ os.pc = "check"
    /\ os' = [os EXCEPT !.pc = "remove"]
    /\ UNCHANGED <<run, policyVars, configVars, processorVars, events, sent, callVars, th, faults>>

\* The attribute is read once more, if it can be; one of an ended run is to be removed.
RemoveEventConfig ==
    /\ os.pc = "check"
    /\ \/ stored[os.switch].run \notin {0, run} /\ os' = [os EXCEPT !.pc = "remove"]
       \/ os' = Idle
    /\ UNCHANGED <<run, policyVars, configVars, processorVars, events, sent, callVars, th, faults>>

RemoveDirXattr ==
    /\ os.pc = "remove"
    /\ \/ stored' = [stored EXCEPT ![os.switch] = None] /\ UNCHANGED faults
       \/ Fault /\ UNCHANGED stored
    /\ os' = Idle
    /\ UNCHANGED <<run, status, library, dump, built, mine, overtaken, astray, configVars, processorVars,
                   events, sent, callVars, th>>

\* The process ends and the application runs again: what it stored is there.
Restart ==
    /\ run < MaxRuns
    /\ run' = run + 1
    /\ status' = FALSE /\ dump' = FALSE /\ built' = FALSE /\ astray' = {}
    /\ mine' = [s \in Switches |-> "none"] /\ overtaken' = {}
    /\ config' = [disable |-> FALSE, quota |-> "default"] /\ range' = {}
    /\ loaded' = FALSE /\ registered' = FALSE /\ added' = {} /\ crossed' = FALSE
    /\ th' = [c \in Callers |-> Idle] /\ os' = Idle /\ overlap' = FALSE
    /\ done' = [c \in Callers |-> "none"] /\ excused' = [c \in Callers |-> FALSE]
    /\ UNCHANGED <<stored, library, events, sent, calls, faults>>

Next ==
    \/ \E c \in Callers :
        \/ \E p \in Packs : ConfigEventPolicy(c, p.by, p.pack)
        \/ \E value \in BOOLEAN : SetCrashLogConfig(c, value)
        \/ \E items \in Options : Configure(c, items)
        \/ \E by \in Interfaces, given \in Configs, named \in BOOLEAN, file \in Files :
                AddProcessor(c, by, given, named, file)
        \/ \E file \in Files : AddProcessorFromConfig(c, file)
        \/ UnregisterProcessor(c)
        \/ PolicyStep(c) \/ SetConfigurationItem(c) \/ ProcessorStep(c)
    \/ \E s \in Switches : OsEvent(s)
    \/ \E e \in events : GetEventPageSwitchStatus(e)
    \/ RemoveEventConfig \/ RemoveDirXattr
    \/ Restart

Spec == Init /\ [][Next]_vars

--------------------------------------------------------------------------------
(* Properties.                                                                           *)

AtRest == os.pc = "idle" /\ \A c \in Callers : th[c].pc = "idle"

\* What the process follows is what is stored, when nothing is under way: the page switch
\* status is on exactly if this run set one of the switches to true, and the crash library, if
\* it is there, collects minidumps exactly if that is stored.  Exceptions: calls and events that
\* overlapped in this run; a status whose attributes could not all be read when it was last
\* determined; and, until a policy has told the library its minidump setting, a library that
\* was told nothing at the first use because something failed, or something that JavaScript's
\* setEventConfig does not store.
FollowsStored ==
    /\ TypeOK
    /\ AtRest /\ ~overlap =>
        /\ "status" \notin astray =>
                (status <=> \E s \in Switches : stored[s] = [run |-> run, value |-> "true"])
        /\ built /\ "dump" \notin astray => (dump <=> library /\ stored["minidump"].value = "true")

\* A switch that this run has set stays as it was set last, whatever events of earlier runs
\* are handled.  Exception: it was stored between the look at the old setting and its removal.
OwnSettingsStay ==
    \A s \in Switches \ overtaken :
        mine[s] # "none" => stored[s] = [run |-> run, value |-> mine[s]]

\* What is in a pack is stored: the switches, the items of RESOURCE_OVERLIMIT and
\* cpuUsageHighPolicy, and of APP_CRASH the minidump setting, if it is right.
SavedIn(st, pack, failed) ==
    \A n \in DOMAIN pack :
        LET conf == pack[n].conf
            Kept(item, k, r) == Has(conf, item) => st[k] = [run |-> r, value |-> conf[item]] IN
        /\ pack[n].name \in Switches => Kept("switch", pack[n].name, run)
        /\ pack[n].name = "overlimit" => Kept("refined", "refined", 0) /\ Kept("heap", "heap", run)
        /\ pack[n].name = "cpu" => Kept("item", "cpu", 0)
        /\ pack[n].name = "crash" /\ "minidump" \in RightItems(conf) /\ ~failed =>
                Kept("minidump", "minidump", 0)

InForce(conf, i) ==
    IF i.item = "disable" THEN conf.disable = (i.value = "true") ELSE conf.quota = i.value

\* A call that has a number in it for an errno to spoil.
HasNumber(t) ==
    \/ t.pc = "configure" /\ \E n \in DOMAIN t.items : t.items[n].item = "maxStorage"
    \/ "pack" \in DOMAIN t /\ \E n \in DOMAIN t.pack : "cutoff" \in RightItems(t.pack[n].conf)

NeedsLibrary(t) ==
    "pack" \in DOMAIN t /\ \E n \in DOMAIN t.pack : t.pack[n].name = "crash" /\ RightItems(t.pack[n].conf) # {}

\* The answer to a call tells what became of it.  After success its policies are stored and its
\* configuration items are in force, all of them, unless another call or an event interfered; of
\* a minidump setting that could not be stored this cannot be said, for other items of
\* APP_CRASH make up for it.  And a call is refused only for something wrong in what it was
\* given; for something that failed in it; for an errno that an earlier number left, if there is
\* a number in it; for want of the crash library; or because the module had taken its processor
\* back.
AnswersTell ==
    [][\A c \in Callers :
        th[c].pc # "idle" /\ th'[c].pc = "idle" /\ run' = run =>
            /\ done'[c] = "ok" /\ ~overlap =>
                /\ "pack" \in DOMAIN th[c] => SavedIn(stored', th[c].pack, excused'[c])
                /\ At(c, "configure") => \A n \in DOMAIN th[c].items : InForce(config', th[c].items[n])
            /\ done'[c] = "refused" =>
                \/ excused'[c]
                \/ c \in range /\ HasNumber(th[c])
                \/ ~library /\ NeedsLibrary(th[c])
                \/ ~registered /\ th[c].pc \in {"create", "erase"}]_vars

\* Whatever an application gives, no processor works with a value out of range, added through
\* JavaScript, C or C++; nor with some of the elements of a list only: a list is there as it
\* was given, or not at all.  The number of customs is not looked at in a configuration of the
\* file.  C adds events and customs one at a time; ETS and Cangjie promise less.
ConfigsAreInRange ==
    \A p \in added :
        LET Whole(f) == p.conf[f] \in {<<>>, p.given[f]} IN
        /\ p.by \in {"js", "inner", "file"} =>
                /\ InRange(p.conf) \/ (p.conf \in Files /\ LoadProcessorConfig(p.conf))
                /\ \A f \in Lists : Whole(f)
        /\ p.by = "ndk" => InRange(p.conf) /\ Whole("userIds") /\ Whole("userProperties")
        /\ p.by = "ets" =>
                /\ Whole("customs")
                /\ \A f \in {"userIds", "userProperties"} : Fine(p.conf[f]) /\ Whole(f)
        /\ p.by = "cj" =>
                /\ InRange([p.conf EXCEPT !["routeInfo"] = "absent", !["appId"] = "absent",
                                          !["userIds"] = <<>>, !["userProperties"] = <<>>])
                /\ Whole("events")

\* No processor is left in the manager once its module has taken it back, unless it was being
\* added at the time.
AddedIsRegistered == added # {} => registered \/ crossed
================================================================================
