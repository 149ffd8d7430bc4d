----------------------------- MODULE AtMostOnce -----------------------------
(***************************************************************************)
(* What the data channel promises of the counters it accepts, in the terms *)
(* of src/include/session.h: a counter within W of the highest one         *)
(* accepted may arrive out of order and is accepted, once; anything older, *)
(* and any repeat, is rejected.  There is no window here, only the set of  *)
(* the counters accepted since the keys were last changed.                 *)
(***************************************************************************)
EXTENDS Integers

CONSTANTS W,         \* how far behind the highest counter is still accepted
          Counters   \* the counters packets carry

VARIABLES seen,      \* the counters accepted under the current keys
          last       \* the packet handled last and the answer it got

vars == <<seen, last>>

Acceptable(c) == c \notin seen /\ \A d \in seen : d - c < W

Init == seen = {} /\ last = [counter |-> 0, accepted |-> FALSE]

Receive(c) ==
  /\ last' = [counter |-> c, accepted |-> Acceptable(c)]
  /\ seen' = IF Acceptable(c) THEN seen \union {c} ELSE seen

Rekey == seen' = {} /\ UNCHANGED last

Next == Rekey \/ \E c \in Counters : Receive(c)

Spec == Init /\ [][Next]_vars
=============================================================================
