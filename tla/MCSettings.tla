------------------------------- MODULE MCSettings -------------------------------
EXTENDS Settings

Only(item, value) == [i \in {item} |-> value]
One(by, name, conf) == [by |-> by, pack |-> <<[name |-> name, conf |-> conf]>>]

\* Alone and together; with a value that is wrong, or of the wrong type, in the first or second.
MCPacks ==
    { One("c", "asan", Only("switch", "true")), One("js", "asan", Only("switch", "false")),
      One("c", "freeze", Only("other", "true")),
      [by |-> "js", pack |-> << [name |-> "crash", conf |-> [switch |-> "true", minidump |-> "true", cutoff |-> "huge"]],
                               [name |-> "overlimit", conf |-> [switch |-> "false", refined |-> "true", heap |-> "event"]] >>],
      [by |-> "ets", pack |-> << [name |-> "overlimit", conf |-> Only("heap", "bad")],
                                [name |-> "crash", conf |-> [minidump |-> "false", log |-> "bad", cutoff |-> "over"]] >>],
      One("c", "crash", Only("cutoff", "good")), One("c", "asan", Only("switch", "long")),
      [by |-> "js", pack |-> << [name |-> "freeze", conf |-> <<>>], [name |-> "cpu", conf |-> Only("item", "true")] >>],
      One("js", "asan", Only("switch", "mistyped")) }

AllGood == [f \in Fields |-> IF f \in Lists THEN <<"good">> ELSE "good"]

\* All is right; the scalars out of range; half of them missing and a wrong element in every
\* list; an event of another type and too many customs.
MCConfigs ==
    { AllGood,
      [AllGood EXCEPT !["routeInfo"] = "bad", !["period"] = "bad", !["configId"] = "bad"],
      [f \in Fields |-> CASE f \in Lists -> <<"good", "bad">> [] f \in {"appId", "batch"} -> "absent"
                          [] OTHER -> "good"],
      [AllGood EXCEPT !["events"] = <<"short", "mistyped">>, !["customs"] = <<"good", "good">>] }
MCFiles == {AllGood, [AllGood EXCEPT !["period"] = "bad"], [AllGood EXCEPT !["customs"] = <<"good", "good">>]}

MCOptions ==
    { << [item |-> "disable", value |-> "true"], [item |-> "maxStorage", value |-> "small"] >>,
      << [item |-> "maxStorage", value |-> "huge"] >>,
      << [item |-> "maxStorage", value |-> "large"], [item |-> "disable", value |-> "bad"] >> }

CONSTANTS t1, t2
MCCallers == {t1, t2}
Symmetry == Permutations(MCCallers)
================================================================================
