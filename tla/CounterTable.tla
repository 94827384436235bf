---------------------------- MODULE CounterTable ----------------------------
(***************************************************************************)
(* What a metrics collector promises: named counters that start at zero    *)
(* and of which one at a time goes up, by one.  No counter is ever lost,   *)
(* reset or counted twice.  Metrics implements this specification.         *)
(***************************************************************************)
EXTENDS Naturals

CONSTANT Names

VARIABLE count          \* count[n]: what a reader is told of the counter n

Init == count = [n \in Names |-> 0]

Increment(n) == count' = [count EXCEPT ![n] = @ + 1]

Next == \E n \in Names : Increment(n)

Spec == Init /\ [][Next]_count
=============================================================================
