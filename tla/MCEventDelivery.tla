----------------------------- MODULE MCEventDelivery -----------------------------
(* Small instances of EventDelivery.  p1 takes crashes in real time and triggers *)
(* on its second statistic; p2 takes statistics only, one by one or at start-up; *)
(* w receives statistics.                                                        *)
EXTENDS EventDelivery, TLC

CONSTANTS p1, p2, w, none, t1, t2, statistic, crash

MCTwoProcessors == {p1, p2}
MCOneProcessor == {p1}
MCOneWatcher == {w}
MCThreads == {t1, t2}
MCKinds == {statistic, crash}
MCWants == [o \in Observers |-> IF o = p1 THEN {statistic, crash} ELSE {statistic}]
MCRealTime == [p \in Processors |-> IF p = p1 THEN {crash} ELSE {}]
MCRowCond == [p \in Processors |-> IF p = p1 THEN 2 ELSE 1]
MCStartup == Processors \ {p1}

MCSymmetry == Permutations(Threads)
================================================================================
