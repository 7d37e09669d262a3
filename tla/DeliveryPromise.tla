---------------------------- MODULE DeliveryPromise ----------------------------
(* What event storage promises a processor: an event that was stored for it     *)
(* stays stored for it until the processor has reported it or is removed.       *)
(* Delivery is at least once: nothing bounds how often an event is reported.    *)
EXTENDS Naturals

CONSTANTS Seqs, Processors

VARIABLES
    pending,    \* pairs <<e, p>>: event e is stored for processor p
    acked       \* pairs <<e, p>>: p's OnReport returned 0 for e

vars == <<pending, acked>>

TypeOK ==
    /\ pending \subseteq Seqs \X Processors
    /\ acked \subseteq Seqs \X Processors

Init == pending = {} /\ acked = {}

\* A new event is stored for the processors that want it.
Publish ==
    \E e \in Seqs, P \in SUBSET Processors :
        /\ ({e} \X Processors) \cap (pending \cup acked) = {}
        /\ pending' = pending \cup ({e} \X P)
        /\ UNCHANGED acked

\* A processor reports some events.
Acknowledge ==
    \E p \in Processors, S \in SUBSET Seqs :
        /\ acked' = acked \cup (S \X {p})
        /\ UNCHANGED pending

\* What has been reported is no longer kept for that processor.
Forget ==
    \E D \in SUBSET (pending \cap acked) :
        /\ pending' = pending \ D
        /\ UNCHANGED acked

\* A processor is removed and gives up what it has not reported.
Withdraw ==
    \E p \in Processors :
        /\ pending' = pending \ (Seqs \X {p})
        /\ UNCHANGED acked

Next == Publish \/ Acknowledge \/ Forget \/ Withdraw

Spec == Init /\ [][Next]_vars
================================================================================
