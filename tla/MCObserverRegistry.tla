---------------------------- MODULE MCObserverRegistry ----------------------------
(* A small instance of ObserverRegistry: two threads and two configurations.        *)
EXTENDS ObserverRegistry, TLC

CONSTANTS t1, t2, c1, c2

MCThreads == {t1, t2}
MCConfigs == {c1, c2}
================================================================================
