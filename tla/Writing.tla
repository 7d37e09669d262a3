------------------------------ MODULE Writing ------------------------------
(***************************************************************************)
(* From a call of the application to a line of the log.  Six bindings      *)
(* offer the same operation: "c" (hiappevent_c.cpp), "native" (the Event   *)
(* objects of the inner API), "js7" and "js9" (the two write functions of  *)
(* the JavaScript modules), "ets" (ANI) and "cj" (Cangjie).  Each converts *)
(* its arguments, verifies the event and writes it at once, on the ffrt    *)
(* queue or in an asynchronous work whose completion settles a promise;    *)
(* three of them also set custom parameters.  Meanwhile HiAppEvent may be  *)
(* disabled and the free space of the device, which is only sampled, may   *)
(* change.                                                                 *)
(*                                                                         *)
(* A raw value has, besides the kinds of Verify, "mixed" (an array with    *)
(* elements of several types) and "other" (an object, a function, null, a  *)
(* null pointer of C or an unknown value type of Cangjie).                 *)
(***************************************************************************)
EXTENDS Verify

CONSTANTS Calls,        \* the calls of the application
          Events,       \* the raw arguments of write
          ParamSets,    \* the raw arguments of setEventParam, for one event
          MaxChanges    \* bound: changes of the configuration and the device

(* What can be given.  A scalar has no size; only an array has several.    *)
Chars == {"a", "1", "_", "$", ".", "#"}
ValueKinds == {"scalar", "empty", "string", "list", "strings", "mixed", "other"}
Strings == [len : Nat, special : Nat, escapes : {0}]
Values  ==
    {v \in [kind : ValueKinds, size : Nat, strs : Seq(Strings)] :
        /\ v.size # 0 => v.kind \in {"list", "strings", "mixed"}
        /\ v.strs # <<>> => v.kind = "string" \/ (v.kind = "strings" /\ v.size = Len(v.strs))}
Params  == [name : Seq(Chars), value : Values]

ASSUME ArgumentsAssumption ==
    Events \cup ParamSets \subseteq
        [whole : BOOLEAN, domain : Seq(Chars), name : Seq(Chars), params : Seq(Params)]

Asynchronous == {"js7", "js9"}
Objects  == {"js7", "js9", "ets"}   \* parameters come as properties of an object
Bindings == Objects \cup {"c", "native", "cj"}

VARIABLES calls,     \* [pc, op, binding, event, obj, result, how] per call
          packs,     \* AppEventPack made by each call: its baseParams_
          reused,    \* packs of Event objects changed after their first write
          queue,     \* AppEventQueue: the calls whose event waits to be written
          file,      \* lines of the log: [call, params]
          custom,    \* rows of custom_event_params for the event: [call, place, key]
          oldParamkeys, \* the keys that a call without a transaction has read
          failed,    \* history: <<c, "begin">> or <<c, "query">>, steps of the call c
                     \* that failed and whose result nobody looks at
          disabled,  \* HiAppEventConfig::disable_
          space,     \* freeSize_: "unknown" (not initialised), "enough", "low"
          device,    \* the free space of the device: "enough", "low"
          changes,   \* how often the environment changed
          sample     \* the arguments of write in this behaviour, or NoEvent
customVars  == <<custom, oldParamkeys, failed>>
writingVars == <<calls, packs, reused, queue, file, customVars, disabled, space, device, changes, sample>>
settings == <<disabled, space, device, changes, sample>>

(* Bound: an application writes one event, in every way, or only sets      *)
(* custom parameters; the two share nothing but the settings.              *)
NoEvent == <<>>
Idle == [pc |-> "idle", op |-> "none", binding |-> "none", event |-> <<>>,
         obj |-> "none", result |-> 0, how |-> "none"]
WInit == /\ calls = [c \in Calls |-> Idle]
         /\ packs = [c \in Calls |-> <<>>]
         /\ reused = {}
         /\ queue = <<>> /\ file = <<>>
         /\ custom = {} /\ oldParamkeys = [c \in Calls |-> {}] /\ failed = {}
         /\ disabled = FALSE /\ space = "unknown"
         /\ device \in {"enough", "low"} /\ changes = 0
         /\ sample \in Events \cup {NoEvent}

-----------------------------------------------------------------------------
(* The conversion of the arguments. *)

(* Mutant of LongKey: the longest key that is valid is taken for too long. *)
LongestKey(b, p) == b \in Objects /\ Len(p.name) >= Limit.paramName

LongKey(b, p) == b \in Objects /\ Len(p.name) > Limit.paramName

(* A value is converted, passed over, or ends the conversion with a code.  *)
Converted(p) == [keep |-> TRUE, param |-> p, code |-> SUCCESSFUL, end |-> FALSE]
PassedOver   == [keep |-> FALSE, code |-> SUCCESSFUL, end |-> FALSE]
Ends(code)   == [keep |-> FALSE, code |-> code, end |-> TRUE]

IsArray(p)   == p.value.kind \in {"list", "strings"}
Ignored(b, p) == b \in {"c", "cj"} /\ p.value.kind = "other"

(* An array without elements has no element type in JavaScript and in ETS. *)
GetArrayType(p)   == IF IsArray(p) /\ p.value.size = 0 THEN "empty" ELSE p.value.kind
WithArrayType(p)  == [p EXCEPT !.value.kind = GetArrayType(p)]
EtsArrayType(p)   == GetArrayType(p)

AddParam2EventPack(p) ==              \* JavaScript, write
    CASE p.value.kind = "other" -> Ends(INVALID_VALUE_TYPE)
      [] p.value.kind = "mixed" -> Ends(INVALID_LIST_TYPE)
      [] OTHER -> Converted(WithArrayType(p))

AddCustomParam2EventPack(p) ==        \* JavaScript, setEventParam
    CASE p.value.kind = "other" -> Ends(INVALID_VALUE_TYPE)
      [] p.value.kind = "mixed" \/ GetArrayType(p) \in {"list", "empty"} -> Ends(INVALID_LIST_TYPE)
      [] OTHER -> Converted(p)

(* ETS reports no code for a value that it cannot convert. *)
AddParamToAppEventPack(p) ==          \* ETS, write
    IF p.value.kind \in {"other", "mixed"} THEN Ends(SUCCESSFUL)
    ELSE Converted([p EXCEPT !.value.kind = EtsArrayType(p)])

AddCustomParamToAppEventPack(p) ==    \* ETS, setEventParam
    IF p.value.kind \in {"other", "mixed"} \/ EtsArrayType(p) \in {"list", "empty"}
    THEN Ends(SUCCESSFUL) ELSE Converted(p)

(* The C library passes null pointers over and copies no more of an array  *)
(* than shows that it is too long.                                         *)
AddParamValue(p) ==
    IF p.value.kind = "other" THEN PassedOver
    ELSE IF IsArray(p) /\ p.value.size > Limit.list
    THEN Converted([p EXCEPT !.value.size = Limit.list + 1,
                             !.value.strs = Take(@, Limit.list + 1)])
    ELSE Converted(p)

AddParams2EventPackCj(p) == IF p.value.kind = "other" THEN PassedOver ELSE Converted(p)

Convert(b, p, op) ==
    CASE b \in Asynchronous /\ op = "write" -> AddParam2EventPack(p)
      [] b \in Asynchronous /\ op = "param" -> AddCustomParam2EventPack(p)
      [] b = "ets" /\ op = "write" -> AddParamToAppEventPack(p)
      [] b = "ets" /\ op = "param" -> AddCustomParamToAppEventPack(p)
      [] b = "c"  -> AddParamValue(p)
      [] b = "cj" -> AddParams2EventPackCj(p)
      [] OTHER    -> Converted(p)

(* ETS passes the parameters through a std::map, sorted by name. *)
Rank(char) == CASE char = "$" -> 1 [] char = "." -> 2 [] char = "1" -> 3
                [] char = "_" -> 4 [] char = "a" -> 5 [] OTHER -> 0
Before(p, q) ==
    LET m == p.name  n == q.name IN
    \E k \in 0 .. Len(m) :
        /\ Len(n) > k /\ SubSeq(m, 1, k) = SubSeq(n, 1, k)
        /\ Len(m) > k => Rank(m[k + 1]) < Rank(n[k + 1])
ParseRecord(b, params) ==
    {p \in (DOMAIN params) \X (DOMAIN params) :
        IF b = "ets" THEN Before(params[p[1]], params[p[2]]) ELSE p[1] < p[2]}

(* AddParams2EventPack and its counterparts: a long key is skipped (write) *)
(* or ends the conversion (setEventParam), and so does a value that cannot *)
(* be converted; what comes after the end is not reached.                  *)
ConvertParam(b, p, op) ==
    IF LongKey(b, p) THEN [Ends(INVALID_PARAM_NAME) EXCEPT !.end = (op = "param")]
    ELSE Convert(b, p, op)

Build(b, params, op) ==
    LET order == ParseRecord(b, params)
        made  == [i \in DOMAIN params |-> ConvertParam(b, params[i], op)]
        reached == {i \in DOMAIN params :
                        \A j \in Ahead(DOMAIN params, order, i) : ~made[j].end} IN
    [params |-> [i \in {k \in reached : made[k].keep} |-> made[i].param],
     code   |-> LastProblem([i \in reached |-> made[i].code], order),
     ok     |-> \A i \in reached : made[i].end => LongKey(b, params[i])]

(* The codes for arguments that are missing or of a wrong type.  ETS takes *)
(* undefined parameters for a success and writes nothing.                  *)
BadArgs(b) ==
    CASE b = "c"    -> {INVALID_DOMAIN, INVALID_EVENT_NAME}
      [] b = "js7"  -> {INVALID_NUM_JS, INVALID_TYPE_JS}
      [] b = "js9"  -> {INVALID_TYPE_JS}
      [] b = "ets"  -> {INVALID_TYPE_JS, SUCCESSFUL}
      [] OTHER      -> {}

(* What can be said in a binding: typed languages have no mixed arrays and *)
(* check their arguments, an object has every key once.                    *)
Expressible(b, e) ==
    LET kinds == {e.params[i].value.kind : i \in DOMAIN e.params} IN
    /\ b \in {"c", "native", "cj"} => "mixed" \notin kinds
    /\ b \in {"native", "cj"} => e.whole
    /\ b = "native" => "other" \notin kinds
    /\ b \in Objects => \A i, j \in DOMAIN e.params :
                            e.params[i].name = e.params[j].name => i = j

(* The result of the verification replaces the code of the conversion only *)
(* when it has something to say.                                           *)
Verified(b, e, params, code) ==
    LET r == VerifyAppEvent([e EXCEPT !.params = params], ParseRecord(b, e.params), disabled)
    IN [r EXCEPT !.code = IF @ # SUCCESSFUL THEN @ ELSE code]

Start(c, b, e, op, pc, result, how) ==
    calls' = [calls EXCEPT ![c] = [pc |-> pc, op |-> op, binding |-> b, event |-> e,
                                   obj |-> c, result |-> result, how |-> how]]

-----------------------------------------------------------------------------
(* HiAppEventInnerWrite and HiAppEvent::Write: verify on the caller's      *)
(* thread, write on the ffrt queue, return the code at once.               *)
CallC(c, b, e) ==
    LET built == Build(b, e.params, "write")
        r     == Verified(b, e, built.params, SUCCESSFUL) IN
    /\ b \in {"c", "native"} /\ calls[c].pc = "idle" /\ Expressible(b, e)
    /\ IF ~e.whole
       THEN /\ \E code \in BadArgs(b) : Start(c, b, e, "write", "done", code, "returned")
            /\ UNCHANGED <<packs, queue>>
       ELSE /\ Start(c, b, e, "write", IF r.code >= 0 THEN "queued" ELSE "done", r.code, "returned")
            /\ packs' = [packs EXCEPT ![c] = r.params]
            /\ queue' = IF r.code >= 0 THEN Append(queue, c) ELSE queue
    /\ UNCHANGED <<reused, file, customVars, settings>>

(* The application writes the same Event again: the pack of the first call *)
(* is verified, and escaped, once more, in place.                          *)
Rewrite(c, o) ==
    LET r == VerifyAppEvent([calls[o].event EXCEPT !.params = packs[o]],
                            ParseRecord("native", packs[o]), disabled) IN
    /\ calls[c].pc = "idle"
    /\ calls[o].binding = "native" /\ calls[o].obj = o
    /\ calls' = [calls EXCEPT ![c] = [calls[o] EXCEPT
            !.pc = IF r.code >= 0 THEN "queued" ELSE "done", !.result = r.code]]
    /\ packs' = [packs EXCEPT ![o] = r.params]
    /\ reused' = reused \cup {o}
    /\ queue' = IF r.code >= 0 THEN Append(queue, c) ELSE queue
    /\ UNCHANGED <<file, customVars, settings>>

(* The application adds a parameter to an Event that it has written and    *)
(* that may still be queued.                                               *)
AddParam(o, p) ==
    /\ calls[o].binding = "native" /\ calls[o].obj = o
    /\ o \notin reused     \* bound: once
    /\ packs' = [packs EXCEPT ![o] = @ @@ (Len(calls[o].event.params) + 1 :> p)]
    /\ reused' = reused \cup {o}
    /\ UNCHANGED <<calls, queue, file, customVars, settings>>

(* Write of napi_hiappevent_js.cpp (js7): whatever could be converted of   *)
(* the event is verified and written; the code is told by the promise.     *)
CallJs7(c, e) ==
    LET built == Build("js7", e.params, "write")
        r     == Verified("js7", e, built.params, built.code) IN
    /\ calls[c].pc = "idle" /\ Expressible("js7", e)
    /\ IF e.whole
       THEN /\ Start(c, "js7", e, "write", "async", r.code, "none")
            /\ packs' = [packs EXCEPT ![c] = r.params]
       ELSE /\ \E code \in BadArgs("js7") : Start(c, "js7", e, "write", "async", code, "none")
            /\ UNCHANGED packs
    /\ UNCHANGED <<reused, queue, file, customVars, settings>>

(* Write of napi_hiappevent_js_v9.cpp: an argument of a wrong type throws. *)
CallJs9(c, e) ==
    LET built == Build("js9", e.params, "write")
        r     == Verified("js9", e, built.params, built.code) IN
    /\ calls[c].pc = "idle" /\ Expressible("js9", e)
    /\ IF e.whole /\ built.ok
       THEN /\ Start(c, "js9", e, "write", "async", r.code, "none")
            /\ packs' = [packs EXCEPT ![c] = r.params]
       ELSE /\ Start(c, "js9", e, "write", "done", INVALID_TYPE_JS, "thrown")
            /\ UNCHANGED packs
    /\ UNCHANGED <<reused, queue, file, customVars, settings>>

(* HiAppEventAni::Write: synchronous, on a thread of the task pool.  When  *)
(* a value cannot be converted it returns what the conversion says, and    *)
(* that is success unless a long key was met before.                       *)
CallEts(c, e) ==
    LET built == Build("ets", e.params, "write")
        r     == Verified("ets", e, built.params, built.code) IN
    /\ calls[c].pc = "idle" /\ Expressible("ets", e)
    /\ IF ~e.whole THEN /\ \E code \in BadArgs("ets") :
                               Start(c, "ets", e, "write", "done", code, "returned")
                        /\ UNCHANGED packs
       ELSE IF ~built.ok THEN /\ Start(c, "ets", e, "write", "done", built.code, "returned")
                              /\ UNCHANGED packs
       ELSE /\ packs' = [packs EXCEPT ![c] = r.params]
            /\ IF r.code >= 0 THEN Start(c, "ets", e, "write", "writing", r.code, "none")
               ELSE Start(c, "ets", e, "write", "done", r.code, "returned")
    /\ UNCHANGED <<reused, queue, file, customVars, settings>>

(* FfiOHOSHiAppEventWrite: any problem, even one that the verification     *)
(* repaired, refuses the event.                                            *)
CallCj(c, e) ==
    LET r == Verified("cj", e, Build("cj", e.params, "write").params, SUCCESSFUL) IN
    /\ calls[c].pc = "idle" /\ Expressible("cj", e)
    /\ packs' = [packs EXCEPT ![c] = r.params]
    /\ IF r.code = SUCCESSFUL THEN Start(c, "cj", e, "write", "writing", r.code, "none")
       ELSE Start(c, "cj", e, "write", "done", r.code, "returned")
    /\ UNCHANGED <<reused, queue, file, customVars, settings>>

-----------------------------------------------------------------------------
(* IsFreeSizeOverLimit samples the device once, at its first use; the      *)
(* storage manager may fail to answer, which counts as enough.             *)
IsFreeSizeOverLimit(low) ==
    IF space # "unknown" THEN low = (space = "low") /\ UNCHANGED space
    ELSE \/ low = (device = "low") /\ space' = device
         \/ low = FALSE /\ UNCHANGED space

Line(c) == [call |-> c, params |-> packs[calls[c].obj]]

(* WriteEvent: nothing when HiAppEvent is disabled or the device is full;  *)
(* the directory, the file or the append may fail.  Cangjie has a copy of  *)
(* its own (HiWriteEvent) which does not ask for the free space.           *)
WriteEvent(c) ==
    \/ disabled /\ UNCHANGED <<file, space>>
    \/ /\ ~disabled
       /\ \E low \in BOOLEAN :
             /\ IF calls[c].binding = "cj" THEN ~low /\ UNCHANGED space
                ELSE IsFreeSizeOverLimit(low)
             /\ \/ ~low /\ file' = Append(file, Line(c))
                \/ UNCHANGED file
AfterWrite == UNCHANGED <<packs, reused, customVars, disabled, device, changes, sample>>

RunQueue ==
    /\ queue # <<>>
    /\ queue' = Tail(queue)
    /\ WriteEvent(Head(queue))
    /\ calls' = [calls EXCEPT ![Head(queue)].pc = "done"]
    /\ AfterWrite

(* ETS and Cangjie write on the thread of the call, then return. *)
RunSync(c) ==
    /\ calls[c].pc = "writing" /\ calls[c].op = "write"
    /\ WriteEvent(c)
    /\ calls' = [calls EXCEPT ![c].pc = "done", ![c].how = "returned"]
    /\ UNCHANGED queue /\ AfterWrite

(* The execute half of the asynchronous work of a JavaScript write. *)
RunAsync(c) ==
    /\ calls[c].pc = "async" /\ calls[c].op = "write"
    /\ IF calls[c].result >= 0 THEN WriteEvent(c) ELSE UNCHANGED <<file, space>>
    /\ calls' = [calls EXCEPT ![c].pc = "complete"]
    /\ UNCHANGED queue /\ AfterWrite

(* A call that stores its custom parameters without a transaction. *)
Unguarded(c) == <<c, "begin">> \in failed

(* The work cannot be created or queued: its data is deleted, the promise  *)
(* is not settled.                                                         *)
AsyncFails(c) ==
    /\ calls[c].pc = "async" /\ ~Unguarded(c)
    /\ calls' = [calls EXCEPT ![c].pc = "done", ![c].how = "lost"]
    /\ UNCHANGED <<packs, reused, queue, file, customVars, settings>>

(* Mutant of Complete: only a success settles the promise. *)
CompleteOnSuccess(c) ==
    /\ calls[c].pc = "complete" /\ calls[c].result = 0
    /\ calls' = [calls EXCEPT ![c].pc = "done", ![c].how = "resolved"]
    /\ UNCHANGED <<packs, reused, queue, file, customVars, settings>>

(* The complete half, on the JavaScript thread. *)
Complete(c) ==
    /\ calls[c].pc = "complete"
    /\ calls' = [calls EXCEPT ![c].pc = "done",
                              ![c].how = IF calls[c].result = 0 THEN "resolved" ELSE "rejected"]
    /\ UNCHANGED <<packs, reused, queue, file, customVars, settings>>

-----------------------------------------------------------------------------
(* Custom parameters.  The calls of ParamSets concern one event of the     *)
(* current run; JavaScript stores them in an asynchronous work.            *)

CallParam(c, b, e) ==
    LET built  == Build(b, e.params, "param")
        verify == VerifyCustomEventParams([e EXCEPT !.params = built.params],
                                          ParseRecord(b, e.params), disabled)
        code   == IF verify # SUCCESSFUL THEN verify ELSE built.code
        strs(p) == [p EXCEPT !.value.strs = EscapedAll(@)]
        refuse(how) == Start(c, b, e, "param", "done",
                             IF how = "thrown" THEN INVALID_TYPE_JS ELSE built.code, how) IN
    /\ b \in {"js9", "ets", "cj"} /\ calls[c].pc = "idle" /\ Expressible(b, e)
    /\ packs' = [packs EXCEPT ![c] = [i \in DOMAIN built.params |-> strs(built.params[i])]]
    /\ IF b = "js9" /\ (~e.whole \/ ~built.ok) THEN refuse("thrown")
       ELSE IF b = "ets" /\ ~built.ok THEN refuse("returned")
       ELSE IF b = "js9" THEN Start(c, b, e, "param", "async", code, "none")
       ELSE IF code = SUCCESSFUL THEN Start(c, b, e, "param", "writing", code, "none")
       ELSE Start(c, b, e, "param", "done", code, "returned")
    /\ UNCHANGED <<reused, queue, file, customVars, settings>>

Keys == {r.key : r \in custom}
Misread(c) == <<c, "query">> \in failed

(* QueryParamkeys: its result is ignored, so that when it fails, or cannot *)
(* read a row, the keys that it did not return count as new.               *)
QueryParamkeys(c, old, steps) ==
    /\ old \subseteq Keys
    /\ failed' = failed \cup steps \cup (IF old = Keys THEN {} ELSE {<<c, "query">>})

Inserted(c, old) == {i \in DOMAIN packs[c] : packs[c][i].name \notin old}
Row(c, i) == [call |-> c, place |-> i, key |-> packs[c][i].name]

(* Mutant of InsertCustomEventParams: the limit is checked against the old *)
(* keys alone.                                                             *)
InsertBeyondLimit(c, old, ret) ==
    IF Cardinality(old) > Limit.customParams
    THEN ret = INVALID_CUSTOM_NUM /\ UNCHANGED custom
    ELSE /\ ret = SUCCESSFUL
         /\ custom' = custom \cup {Row(c, i) : i \in Inserted(c, old)}

(* InsertCustomEventParams once it knows the old keys: those that are not  *)
(* among them are counted and inserted as rows, the others only change     *)
(* their values.  When a statement or Commit fails the transaction stores  *)
(* nothing; without a transaction what was inserted stays.                 *)
InsertCustomEventParams(c, old, ret) ==
    LET new == Inserted(c, old) IN
    IF Cardinality(old) + Cardinality(new) > Limit.customParams
    THEN ret = INVALID_CUSTOM_NUM /\ UNCHANGED custom
    ELSE /\ ret = SUCCESSFUL
         /\ \E places \in IF Unguarded(c) THEN SUBSET new ELSE {{}, new} :
               custom' = custom \cup {Row(c, i) : i \in places}

(* SetEventParam of hiappevent_write.cpp: neither a full device nor a      *)
(* failing database is an error for the caller.                            *)
SetEventParam(c, ret) ==
    \E low \in BOOLEAN :
        /\ IsFreeSizeOverLimit(low)
        /\ \/ /\ ~low /\ DOMAIN packs[c] # {}
              /\ \E old \in SUBSET Keys :
                    QueryParamkeys(c, old, {}) /\ InsertCustomEventParams(c, old, ret)
           \/ ret = SUCCESSFUL /\ UNCHANGED <<custom, failed>>

IsParam(c) == calls[c].op = "param" /\ calls[c].pc \in {"async", "writing"}
IsToStore(c) == IsParam(c) /\ calls[c].result = SUCCESSFUL

(* The end of the execute half of the work, or of the call itself. *)
Answer(c, ret) ==
    calls' = [calls EXCEPT ![c].pc = IF @ = "async" THEN "complete" ELSE "done",
                           ![c].how = IF calls[c].pc = "async" THEN @ ELSE "returned",
                           ![c].result = ret]

RunParam(c) ==
    /\ IsParam(c) /\ ~Unguarded(c)
    /\ IF calls[c].result # SUCCESSFUL
       THEN /\ calls' = [calls EXCEPT ![c].pc = "complete"]
            /\ UNCHANGED <<custom, failed, space>>
       ELSE \E ret \in {SUCCESSFUL, INVALID_CUSTOM_NUM} : SetEventParam(c, ret) /\ Answer(c, ret)
    /\ UNCHANGED <<packs, reused, queue, file, oldParamkeys, disabled, device, changes, sample>>

(* BeginTransaction fails and nobody looks: the keys are read all the      *)
(* same, and other calls come between this and what follows.               *)
BeginFails(c) ==
    /\ IsToStore(c) /\ ~Unguarded(c) /\ DOMAIN packs[c] # {}
    /\ IsFreeSizeOverLimit(FALSE)
    /\ \E old \in SUBSET Keys :
          /\ QueryParamkeys(c, old, {<<c, "begin">>})
          /\ oldParamkeys' = [oldParamkeys EXCEPT ![c] = old]
    /\ UNCHANGED <<calls, packs, reused, queue, file, custom, disabled, device, changes, sample>>

StoreUnguarded(c) ==
    /\ IsToStore(c) /\ Unguarded(c)
    /\ \E ret \in {SUCCESSFUL, INVALID_CUSTOM_NUM} :
          InsertCustomEventParams(c, oldParamkeys[c], ret) /\ Answer(c, ret)
    /\ UNCHANGED <<packs, reused, queue, file, oldParamkeys, failed, settings>>

-----------------------------------------------------------------------------
(* The configuration and the device. *)

SetDisable(value) ==
    /\ changes < MaxChanges /\ disabled # value
    /\ disabled' = value /\ changes' = changes + 1
    /\ UNCHANGED <<calls, packs, reused, queue, file, customVars, space, device, sample>>

DeviceChanges ==
    /\ changes < MaxChanges
    /\ device' \in {"enough", "low"} \ {device} /\ changes' = changes + 1
    /\ UNCHANGED <<calls, packs, reused, queue, file, customVars, space, disabled, sample>>

(* The repeating timer of the observer manager.  What it samples before    *)
(* the first use is sampled again then: isInitFreeSize_ is not set here.   *)
RefreshFreeSize ==
    /\ space # "unknown"
    /\ space' = device
    /\ UNCHANGED <<calls, packs, reused, queue, file, customVars, disabled, device, changes, sample>>

Write(c) == \/ \E b \in {"c", "native"} : CallC(c, b, sample)
            \/ CallJs7(c, sample) \/ CallJs9(c, sample)
            \/ CallEts(c, sample) \/ CallCj(c, sample)
            \/ \E o \in Calls : Rewrite(c, o)

WNext == \/ \E c \in Calls :
              \/ sample # NoEvent /\ (Write(c) \/ AddParam(c, sample.params[1]))
              \/ sample = NoEvent /\ \E e \in ParamSets, b \in Bindings : CallParam(c, b, e)
              \/ RunSync(c) \/ RunAsync(c) \/ AsyncFails(c) \/ Complete(c)
              \/ RunParam(c) \/ BeginFails(c) \/ StoreUnguarded(c)
         \/ RunQueue \/ \E value \in BOOLEAN : SetDisable(value)
         \/ DeviceChanges \/ RefreshFreeSize

(* The queue, the workers and the JavaScript thread go on; the timer of    *)
(* the free size repeats; setting disabled back is the application's own.  *)
WFairness == /\ WF_writingVars(RunQueue) /\ WF_writingVars(RefreshFreeSize)
             /\ \A c \in Calls :
                   WF_writingVars(RunSync(c) \/ RunAsync(c) \/ RunParam(c) \/ StoreUnguarded(c) \/ Complete(c))
WSpec == WInit /\ [][WNext]_writingVars /\ WFairness

-----------------------------------------------------------------------------
WTypeOK ==
    /\ \A c \in Calls :
          /\ calls[c].pc \in {"idle", "queued", "async", "writing", "complete", "done"}
          /\ calls[c].how \in {"none", "returned", "resolved", "rejected", "thrown", "lost"}
          /\ calls[c].pc = "queued" <=> \E i \in DOMAIN queue : queue[i] = c
    /\ reused \subseteq Calls /\ disabled \in BOOLEAN
    /\ space \in {"unknown", "enough", "low"} /\ device \in {"enough", "low"}

-----------------------------------------------------------------------------
Given(c)   == calls[c].event.params
Writes(c)  == calls[c].op = "write" /\ calls[c].obj \notin reused
Lines      == {file[i] : i \in DOMAIN file}
IsCall(c, op) == calls[c].op = op

(* The value v of a line is the value w that the application gave: escaped *)
(* once, and no more than cut to the permitted size of a list.             *)
Stems(v, w) ==
    /\ v.size <= w.size /\ v.size <= Limit.list
    /\ v.strs = SubSeq(EscapedAll(w.strs), 1, Len(v.strs))
Same(v, w) == v.size = w.size /\ v.strs = EscapedAll(w.strs)

(* Whatever the binding and whatever it was given, a line of the log has   *)
(* at most Limit.params parameters with valid and different names, and     *)
(* every value is the one that the application gave with this name, its    *)
(* strings within the limits and escaped exactly once.  An Event object    *)
(* that the application changes or writes again after its first write is   *)
(* excepted: its pack is shared with the queue (app_event.cpp:84-87).      *)
LinesAreValid ==
    /\ WTypeOK
    /\ \A l \in Lines : Writes(l.call) =>
           /\ Cardinality(DOMAIN l.params) <= Limit.params
           /\ \A i, j \in DOMAIN l.params : l.params[i].name = l.params[j].name => i = j
           /\ \A i \in DOMAIN l.params :
                 LET given == Given(l.call)[i] IN
                 /\ i \in DOMAIN Given(l.call)
                 /\ l.params[i].name = given.name /\ IsValidParamName(given.name)
                 /\ Stems(l.params[i].value, given.value)
                 /\ Fits(SubSeq(given.value.strs, 1, Len(l.params[i].value.strs)), MaxStrOf(given))

(* Nothing that the application gave is missing from the line, but for the *)
(* null pointers that the C and the Cangjie library pass over.             *)
Counts(c, p) == ~Ignored(calls[c].binding, p)
IsWhole(l) ==
    /\ DOMAIN l.params = {i \in DOMAIN Given(l.call) : Counts(l.call, Given(l.call)[i])}
    /\ \A i \in DOMAIN l.params : /\ l.params[i].name = Given(l.call)[i].name
                                 /\ Same(l.params[i].value, Given(l.call)[i].value)

(* What the caller is told is what happens (README.md:59): a negative      *)
(* value, the event is not written; a positive one, it is written without  *)
(* what is invalid; zero, if it is written it is written whole.            *)
ResultIsHonest ==
    \A l \in Lines : Writes(l.call) =>
        /\ calls[l.call].result >= 0
        /\ calls[l.call].result = 0 <=> IsWhole(l)

(* The same arguments give the same parameters in the log whichever        *)
(* binding they pass through, if no value is of a type that some binding   *)
(* cannot convert, there are no more parameters than are written and no    *)
(* list of strings is so long that the C library does not see its end.     *)
BindingsAgree ==
    \A l, m \in Lines :
        LET e == calls[l.call].event IN
        /\ Writes(l.call) /\ Writes(m.call) /\ e = calls[m.call].event
        /\ Len(e.params) <= Limit.params
        /\ \A i \in DOMAIN e.params : /\ e.params[i].value.kind \notin {"mixed", "other"}
                                     /\ Len(e.params[i].value.strs) <= Limit.list + 1
        => /\ DOMAIN l.params = DOMAIN m.params
           /\ \A i \in DOMAIN l.params :
                 /\ l.params[i].name = m.params[i].name
                 /\ l.params[i].value.size = m.params[i].value.size
                 /\ l.params[i].value.strs = m.params[i].value.strs

(* Rows of custom parameters are added only by a call that reports         *)
(* success, only for what it was given, no more at once than the limit,    *)
(* and none is taken away.  A call stores all its parameters, but for the  *)
(* unknown values that Cangjie passes over, or none, unless its            *)
(* BeginTransaction failed; and unless that or QueryParamkeys failed, the  *)
(* event has no more different keys than the limit afterwards and no key   *)
(* that another row had already (app_event_store.cpp:367-370 look at       *)
(* neither result; the table has no unique key).                           *)
CustomIsAllOrNothing ==
    [][custom' # custom =>
        \E c \in Calls :
            /\ IsCall(c, "param") /\ calls'[c].result = SUCCESSFUL
            /\ custom \subseteq custom' /\ Cardinality(custom' \ custom) <= Limit.customParams
            /\ \A r \in custom' \ custom :
                  r.call = c /\ r.place \in DOMAIN Given(c) /\ r.key = Given(c)[r.place].name
            /\ ~Unguarded(c)' => {p.name : p \in {q \in ToSet(Given(c)) : Counts(c, q)}} \subseteq Keys'
            /\ ~(Unguarded(c) \/ Misread(c))' =>
                  /\ Cardinality(Keys') <= Limit.customParams
                  /\ \A r \in custom' \ custom : r.key \notin Keys]_writingVars

(* Every call comes to an end: the queued event is taken up and a promise  *)
(* is settled, unless its work could not be queued (AsyncFails).           *)
EveryCallEnds == \A c \in Calls : (calls[c].pc # "idle") ~> (calls[c].pc = "done")
=============================================================================
