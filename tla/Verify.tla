------------------------------- MODULE Verify -------------------------------
(***************************************************************************)
(* hiappevent_verify.cpp: what the code accepts as a name, a parameter, an *)
(* event and a set of custom parameters, and what it does to the ones it   *)
(* accepts.  The module has no state: the modules of the writing and of    *)
(* the registration paths apply it where the code calls it.                *)
(*                                                                         *)
(* Data.  A name is a sequence of character classes: "a" a letter, "1" a   *)
(* digit, "_", "$", "." and "#" any other.  A string is                    *)
(* [len, special, escapes]: its length, how many of its characters the     *)
(* escaping of EscapeStringValue doubles, how often it was escaped.  A     *)
(* value is [kind, size, strs]: a scalar, an empty value (std::monostate), *)
(* a string, a list of size scalars or a list of strings.                  *)
(*                                                                         *)
(* A list of parameters is a function on the places that they had among    *)
(* the arguments, whatever became of the others; an order is the set of    *)
(* the pairs of places of which the first comes before the second.         *)
(***************************************************************************)
EXTENDS Integers, Sequences, SequencesExt, FiniteSets

CONSTANTS Limit,        \* the limits of hiappevent_verify.cpp:40-57, scaled
          SpecialNames  \* the names whose strings may be long ("crash", "anr")

ASSUME LimitAssumption ==
    Limit \in [{"domain", "eventName", "paramName", "params", "str",
                "specialStr", "list", "customParams", "customStr"} -> Nat \ {0}]

-----------------------------------------------------------------------------
(* Error codes of ErrorCode (hiappevent_base.h). *)
SUCCESSFUL    == 0
INVALID_PARAM_NAME   == 1
INVALID_VALUE_TYPE   == 3
INVALID_VALUE_LENGTH == 4
INVALID_PARAM_NUM    == 5
INVALID_LIST_SIZE    == 6
INVALID_LIST_TYPE    == 7
DUPLICATE_PARAM      == 8
INVALID_CUSTOM_NUM   == 9
INVALID_EVENT_NAME   == -1
INVALID_TYPE_JS      == -2
INVALID_NUM_JS       == -3
INVALID_DOMAIN       == -4
DISABLED             == -99

-----------------------------------------------------------------------------
(* A letter (or $) first, a letter or a digit last, those and _ between. *)
IsValidName(name, max, dollar) ==
    /\ Len(name) \in 1 .. max
    /\ name[1] = "a" \/ (dollar /\ name[1] = "$")
    /\ Len(name) > 1 => Last(name) \in {"a", "1"}
    /\ \A i \in 2 .. Len(name) - 1 : name[i] \in {"a", "1", "_"}

(* Names of processors, user ids and user properties: no rule for the end. *)
IsValidPropName(name, max) ==
    /\ Len(name) \in 1 .. max
    /\ name[1] \in {"a", "_", "$"}
    /\ \A i \in DOMAIN name : name[i] \in {"a", "1", "_", "$"}

IsValidDomain(domain)   == IsValidName(domain, Limit.domain, FALSE)
IsValidParamName(name)  == IsValidName(name, Limit.paramName, TRUE)
IsValidEventType(type)  == type \in 1 .. 4

(* An event name may carry the prefix "hiappevent.", which counts. *)
Prefix == <<"a", ".">>
IsValidEventName(name) ==
    IF IsPrefix(Prefix, name)
    THEN IsValidName(SubSeq(name, Len(Prefix) + 1, Len(name)),
                     Limit.eventName - Len(Prefix), TRUE)
    ELSE IsValidName(name, Limit.eventName, TRUE)

-----------------------------------------------------------------------------
(* EscapeStringValue: a special character becomes two, the backslash and   *)
(* itself, and both are special the next time.                             *)
Escaped(s) ==
    IF s.special = 0 THEN s
    ELSE [len |-> s.len + s.special, special |-> 2 * s.special, escapes |-> s.escapes + 1]

Take(s, n)  == SubSeq(s, 1, IF n < Len(s) THEN n ELSE Len(s))
Total(strs) == FoldLeft(LAMBDA sum, s : sum + s.len, 0, strs)
Fits(strs, max) == \A i \in DOMAIN strs : strs[i].len <= max
EscapedAll(strs) == [i \in DOMAIN strs |-> Escaped(strs[i])]

(* A string may be longer for some names, the strings of a list may not. *)
MaxStrOf(p) ==
    IF p.value.kind = "string" /\ p.name \in SpecialNames THEN Limit.specialStr ELSE Limit.str

(* VerifyAppEventParam: a parameter is dropped with a code, or kept with   *)
(* its strings escaped, its list cut and the code of the cut.              *)
Drop(code)    == [keep |-> FALSE, code |-> code]
Keep(p, code) == [keep |-> TRUE, code |-> code, param |-> p]

(* Mutant of Cut: one element too many passes. *)
CutLate(p) ==
    LET v == p.value IN
    IF v.kind \in {"list", "strings"} /\ v.size > Limit.list + 1
    THEN Keep([p EXCEPT !.value.size = Limit.list,
                        !.value.strs = Take(@, Limit.list)], INVALID_LIST_SIZE)
    ELSE Keep(p, SUCCESSFUL)

Cut(p) ==
    LET v == p.value IN
    IF v.kind \in {"list", "strings"} /\ v.size > Limit.list
    THEN Keep([p EXCEPT !.value.size = Limit.list,
                        !.value.strs = Take(@, Limit.list)], INVALID_LIST_SIZE)
    ELSE Keep(p, SUCCESSFUL)

VerifyAppEventParam(p, names) ==
    LET v == p.value IN
    IF p.name \in names THEN Drop(DUPLICATE_PARAM)
    ELSE IF ~IsValidParamName(p.name) THEN Drop(INVALID_PARAM_NAME)
    ELSE IF ~Fits(v.strs, MaxStrOf(p))
    THEN Drop(INVALID_VALUE_LENGTH)
    ELSE Cut([p EXCEPT !.value.strs = EscapedAll(@)])

(* Of a set of places those that come before i. *)
Ahead(places, order, i) == {j \in places : <<j, i>> \in order}

Problems(codes) == {i \in DOMAIN codes : codes[i] # SUCCESSFUL}
LastProblem(codes, order) ==
    IF Problems(codes) = {} THEN SUCCESSFUL
    ELSE codes[CHOOSE i \in Problems(codes) :
                  Problems(codes) \ {i} \subseteq Ahead(Problems(codes), order, i)]
FirstProblem(codes, order) ==
    IF Problems(codes) = {} THEN SUCCESSFUL
    ELSE codes[CHOOSE i \in Problems(codes) : Ahead(Problems(codes), order, i) = {}]

(* VerifyAppEvent: the parameters it leaves in the event and the last      *)
(* problem it met; a negative code says that the event is refused.  A name *)
(* has been met when a parameter before, with this name, was acceptable:   *)
(* the first of these is kept.                                             *)
Acceptable(p) == VerifyAppEventParam(p, {}).keep
NamesMet(params, order, i) ==
    {params[j].name : j \in {k \in Ahead(DOMAIN params, order, i) : Acceptable(params[k])}}
VerifyParams(params, order) ==
    LET r == [i \in DOMAIN params |->
                  VerifyAppEventParam(params[i], NamesMet(params, order, i))] IN
    [params |-> [i \in {k \in DOMAIN params : r[k].keep} |-> r[i].param],
     code   |-> LastProblem([i \in DOMAIN params |-> r[i].code], order)]

FirstParams(params, order, n) ==
    [i \in {k \in DOMAIN params : Cardinality(Ahead(DOMAIN params, order, k)) < n} |-> params[i]]

(* Mutant of CheckParamsNum: the surplus is cut off without a word. *)
CutParamsQuietly(acc, order) == [acc EXCEPT !.params = FirstParams(@, order, Limit.params)]

CheckParamsNum(acc, order) ==
    IF Cardinality(DOMAIN acc.params) > Limit.params
    THEN [params |-> FirstParams(acc.params, order, Limit.params), code |-> INVALID_PARAM_NUM]
    ELSE acc

Refused(e, code) == [params |-> e.params, code |-> code]
VerifyAppEvent(e, order, disabled) ==
    IF disabled THEN Refused(e, DISABLED)
    ELSE IF ~IsValidDomain(e.domain) THEN Refused(e, INVALID_DOMAIN)
    ELSE IF ~IsValidEventName(e.name) THEN Refused(e, INVALID_EVENT_NAME)
    ELSE CheckParamsNum(VerifyParams(e.params, order), order)

(* VerifyCustomEventParams: the first problem refuses the whole call.  The *)
(* set of the names met stays empty, so a duplicate passes; the total of a *)
(* list of strings is taken after the escaping, the length of a single     *)
(* string before it; the size of a list is not limited.                    *)
CustomProblem(p) ==
    LET v == p.value
        limit == IF v.kind = "string" THEN Limit.customStr ELSE Limit.str IN
    IF ~IsValidParamName(p.name) THEN INVALID_PARAM_NAME
    ELSE IF \/ ~Fits(v.strs, limit)
            \/ v.kind = "strings" /\ Total(EscapedAll(v.strs)) > Limit.customStr
    THEN INVALID_VALUE_LENGTH
    ELSE SUCCESSFUL

VerifyCustomEventParams(e, order, disabled) ==
    IF disabled THEN DISABLED
    ELSE IF ~IsValidDomain(e.domain) THEN INVALID_DOMAIN
    ELSE IF e.name # <<>> /\ ~IsValidEventName(e.name) THEN INVALID_EVENT_NAME
    ELSE IF Cardinality(DOMAIN e.params) > Limit.customParams THEN INVALID_CUSTOM_NUM
    ELSE FirstProblem([i \in DOMAIN e.params |-> CustomProblem(e.params[i])], order)
=============================================================================
