------------------------------ MODULE RateLimit ------------------------------
(* What the hub's request limiter promises each address: a bucket of Burst    *)
(* tokens, filled by Rate a tick, out of which every request it admits is     *)
(* paid.  The promise has no notion of forgetting an address, except when the *)
(* server restarts and every bucket is full again.                            *)
EXTENDS Integers

CONSTANTS
    Addresses,
    Burst,      \* size of a bucket
    Rate,       \* tokens a tick
    Costs       \* what requests cost

VARIABLE level  \* tokens of each address

MinOf(m, n) == IF m <= n THEN m ELSE n

Init == level = [a \in Addresses |-> Burst]

Spend(a, c) ==
    /\ c <= level[a]
    /\ level' = [level EXCEPT ![a] = @ - c]

Fill == level' = [a \in Addresses |-> MinOf(Burst, level[a] + Rate)]

Restart == level' = [a \in Addresses |-> Burst]

Next ==
    \/ \E a \in Addresses, c \in Costs : Spend(a, c)
    \/ Fill
    \/ Restart

Spec == Init /\ [][Next]_level
================================================================================
