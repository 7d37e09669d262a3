--------------------------------- MODULE MCDbStore ---------------------------------
(* A small instance of DbStore.                                                     *)
EXTENDS DbStore, TLC

CONSTANTS t1, t2, t3

MCThreads == {t1, t2, t3}
================================================================================
