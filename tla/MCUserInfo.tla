----------------------------- MODULE MCUserInfo -----------------------------
(* Two callers, one processor that two threads may serve at once, one name with     *)
(* two values.                                                                      *)
EXTENDS UserInfo, TLC

CONSTANTS c1, c2, r1, r2, p1, n1, v1, v2

MCConfigs == {{}, {n1}}
MCSymmetry == Permutations({c1, c2}) \cup Permutations({r1, r2}) \cup Permutations({v1, v2})
=============================================================================
