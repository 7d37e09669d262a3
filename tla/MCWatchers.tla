------------------------------- MODULE MCWatchers -------------------------------
EXTENDS Watchers

\* One watcher of each binding; two filters, whose names Cangjie runs together.
MCWatchers == {"j", "e", "c", "n"}
MCBinding == [w \in MCWatchers |->
    CASE w = "j" -> "js" [] w = "e" -> "ets" [] w = "c" -> "cj" [] w = "n" -> "ndk"]
MCFilters == [w \in MCWatchers |->
    << [names |-> {"a"}, types |-> {1}], [names |-> {}, types |-> {4}] >>]

\* The event passes only the filter without names.
MCAttributes == << [name |-> "b", type |-> 4] >>
MCSizes == <<1>>
\* JavaScript adds a watcher whose timeout it refused; the NDK has refused a filter of its own.
MCWrong == [w \in MCWatchers |->
    CASE w = "j" -> "timeout" [] w = "n" -> "filters" [] OTHER -> "nothing"]
MCEnvs == {"main", "worker"}
MCAddedBy == [w \in MCWatchers |-> IF w \in {"j", "e"} THEN {"worker"} ELSE {"main"}]
================================================================================
