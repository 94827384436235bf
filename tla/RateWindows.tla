----------------------------- MODULE RateWindows -----------------------------
(***************************************************************************)
(* What the rate limiter gives a client: fixed windows.  A window begins   *)
(* with the first request that is let through while none is open, it lasts *)
(* one interval, and Rate requests get through in it.                      *)
(***************************************************************************)
EXTENDS Integers

CONSTANTS Keys, Rate, Interval, Nil

VARIABLES now,
          period        \* period[k]: the open window of k, or Nil

Init == now = 0 /\ period = [k \in Keys |-> Nil]

Begin(k) ==
    /\ period[k] = Nil
    /\ Rate > 0
    /\ period' = [period EXCEPT ![k] = [start |-> now, used |-> 1]]
    /\ UNCHANGED now

Use(k) ==
    /\ period[k] # Nil
    /\ period[k].used < Rate
    /\ period' = [period EXCEPT ![k] = [start |-> period[k].start,
                                        used |-> period[k].used + 1]]
    /\ UNCHANGED now

Forget(k) ==
    /\ period' = [period EXCEPT ![k] = Nil]
    /\ UNCHANGED now

(* A window ends when it is an interval old, not earlier and not later. *)
Over(k) == period[k] # Nil /\ now + 1 - period[k].start >= Interval

Tick ==
    /\ now' = now + 1
    /\ period' = [k \in Keys |-> IF Over(k) THEN Nil ELSE period[k]]

Next == (\E k \in Keys : Begin(k) \/ Use(k) \/ Forget(k)) \/ Tick

Spec == Init /\ [][Next]_<<now, period>>
=============================================================================
