----------------------------- MODULE MCApiStats -----------------------------
(* One API; of the costs one is too large for an int and becomes negative.           *)
EXTENDS ApiStats

CONSTANTS a1
MCOutcomes == {<<TRUE, 0>>, <<FALSE, 1>>}
MCCosts == {1, 2, 9}
=============================================================================
