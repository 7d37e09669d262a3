-------------------------- MODULE MCOsEventListener --------------------------
(* Two watchers of different events, one malformed file.                           *)
EXTENDS OsEventListener

CONSTANTS e1, e2, e3, w1, w2
MCKindOf == [e \in {e1, e2, e3} |-> IF e = e2 THEN "freeze" ELSE "crash"]
MCMask == [w \in {w1, w2} |-> IF w = w1 THEN {"crash"} ELSE {"crash", "freeze"}]
==============================================================================
