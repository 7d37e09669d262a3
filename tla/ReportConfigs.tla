----------------------------- MODULE ReportConfigs -----------------------------
(* The configuration of a processor, as each interface builds it from what the           *)
(* application gives, and what the manager makes of it: JavaScript, ETS, Cangjie, C,     *)
(* the inner C++ interface, and the file of named configurations.                        *)
(*                                                                                       *)
(* A field holds a value within its range ("good") or outside it ("bad"), one of another *)
(* type ("mistyped"), or none ("absent"); fields of several elements are sequences of    *)
(* these.  An event configuration without isRealTime is "short".  What a field is by     *)
(* default is "absent" again.                                                            *)
EXTENDS Naturals, Sequences, SequencesExt

CONSTANT MaxCustoms     \* MAX_NUM_OF_CUSTOM_CONFIGS

ASSUME MaxCustomsAssumption == MaxCustoms \in Nat

Scalars == {"routeInfo", "appId", "period", "batch", "configId"}
Lists == {"userIds", "userProperties", "events", "customs"}
Fields == Scalars \cup Lists
Default == [f \in Fields |-> IF f \in Lists THEN <<>> ELSE "absent"]

\* Elements the range checks let through.
Fine(list) == \A i \in DOMAIN list : list[i] \in {"good", "short"}
GoodOr(v) == IF v = "good" THEN v ELSE "absent"
AllOrNone(list) == IF Fine(list) THEN list ELSE <<>>
Number(list) == IF Len(list) <= MaxCustoms THEN list ELSE <<>>

\* What the range checks have nothing against.
InRange(conf) ==
    /\ \A f \in Scalars : conf[f] \in {"good", "absent"}
    /\ \A f \in Lists : Fine(conf[f])
    /\ Len(conf["customs"]) <= MaxCustoms

\* Every field that fails its check is put back.
VerifyReportConfig(conf) ==
    [f \in Fields |->
        CASE f \in Scalars  -> GoodOr(conf[f])
          [] f = "customs"  -> AllOrNone(Number(conf[f]))
          [] OTHER          -> AllOrNone(conf[f])]

\* Mutant: the list is filled while its elements are checked.
JsTransConfigAsChecked(c) ==
    [VerifyReportConfig(c) EXCEPT !["events"] = SelectSeq(c["events"], LAMBDA e : e \in {"good", "short"})]

\* JavaScript: each field by itself, taken if it is right.
JsTransConfig(c) == VerifyReportConfig(c)

\* ETS: numbers and strings are stored, then checked; nobody looks at the elements of customs.
EtsTransConfig(c) ==
    [f \in Fields |->
        CASE f \in {"userIds", "userProperties"} -> AllOrNone(c[f])
          [] f = "events"  -> SelectSeq(c[f], LAMBDA e : e # "short")
          [] f = "customs" -> Number(c[f])
          [] OTHER         -> c[f]]

\* Cangjie: an event configuration that is wrong leaves them all out, and neither the id nor
\* the customs are there.
CjConvertReportConfig(c) ==
    [f \in Fields |->
        CASE f \in {"period", "batch"}      -> GoodOr(c[f])
          [] f = "events"                   -> AllOrNone(c[f])
          [] f \in {"configId", "customs"}  -> Default[f]
          [] OTHER                          -> c[f]]

\* C: a setter takes all it is given or nothing; those of events and customs take one at a time.
NdkSetters(c) ==
    LET both(f, g) == c[f] = "good" /\ c[g] = "good" IN
    [f \in Fields |->
        CASE f \in {"routeInfo", "appId"} -> IF both("routeInfo", "appId") THEN "good" ELSE "absent"
          [] f \in {"period", "batch"}    -> IF both("period", "batch") THEN "good" ELSE "absent"
          [] f = "configId"               -> GoodOr(c[f])
          [] f \in {"events", "customs"}  -> SelectSeq(c[f], LAMBDA e : e \in {"good", "short"})
          [] OTHER                        -> AllOrNone(c[f])]

\* The file: one wrong item and nothing is loaded.  The number of customs is not checked.
LoadProcessorConfig(file) ==
    /\ \A f \in Scalars : file[f] \in {"good", "absent"}
    /\ \A f \in Lists : Fine(file[f])

\* A configuration that names one of the file is replaced by it, if that can be loaded.
JsConfig(c, named, file) ==
    IF named /\ LoadProcessorConfig(file) THEN file ELSE JsTransConfig(c)

InnerConfig(c, named, file) ==
    IF named /\ LoadProcessorConfig(file) THEN file ELSE VerifyReportConfig(c)

\* SetConfigName comes after the setters here; AddProcessor verifies what is there.
NdkConfig(c, named, file) ==
    VerifyReportConfig(IF named /\ LoadProcessorConfig(file) THEN file ELSE NdkSetters(c))

\* What the configuration is made of.
Source(by, c, named, file) ==
    IF by \in {"js", "inner", "ndk"} /\ named /\ LoadProcessorConfig(file) THEN file ELSE c

ConfigBy(by, c, named, file) ==
    CASE by = "js"    -> JsConfig(c, named, file)
      [] by = "ets"   -> EtsTransConfig(c)
      [] by = "cj"    -> CjConvertReportConfig(c)
      [] by = "ndk"   -> NdkConfig(c, named, file)
      [] by = "inner" -> InnerConfig(c, named, file)
================================================================================
