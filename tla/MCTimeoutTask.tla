----------------------------- MODULE MCTimeoutTask -----------------------------
(* A small instance of TimeoutTask.  o1 triggers on its second row or after two  *)
(* steps of the timer, o2 has no timeout but triggers on size and in the        *)
(* background, so that both kinds of observer share every walk.                 *)
EXTENDS TimeoutTask, TLC

CONSTANTS o1, o2, t1, i1, i2

MCObservers == {o1, o2}
MCOneThread == {t1}
MCTasks == {i1, i2}
MCRowCond == [o \in Observers |-> IF o = o1 THEN 2 ELSE 0]
MCTimeoutCond == [o \in Observers |-> IF o = o1 THEN 2 ELSE 0]
MCSecond == Observers \ {o1}
MCSomeRestored == {0, 1}
================================================================================
