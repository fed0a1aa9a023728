------------------------------- MODULE Limiter -------------------------------
(* The hub's request limiter (hub/hub.go, limiter): a token bucket for each   *)
(* address that asked, brought up to date only when the address asks again,   *)
(* and forgotten, once refilled, when a new address finds too many of them.   *)
(* Time is relative: each bucket knows how long ago it was brought up to      *)
(* date, so the state does not grow with the clock.                           *)
EXTENDS Integers, FiniteSets

CONSTANTS
    Addresses,
    Burst, Rate, \* size of a bucket, tokens a tick
    Costs,       \* what requests cost
    MaxBuckets   \* buckets kept before refilled ones are dropped

ASSUME LimiterAssumption ==
    /\ Burst \in Nat /\ Rate \in Nat \ {0} /\ MaxBuckets \in Nat
    /\ Costs \subseteq Nat

VARIABLE buckets  \* address -> [tokens, idle], for the addresses remembered

Bucket == [tokens : 0 .. Burst, idle : 0 .. Burst]
NewBucket == [tokens |-> Burst, idle |-> 0]

AtMost(m, n) == IF m <= n THEN m ELSE n

(* The tokens of a bucket once brought up to date.                            *)
Filled(b) == AtMost(Burst, b.tokens + b.idle * Rate)

(* The buckets left when a new address asks: over MaxBuckets, those that have *)
(* refilled are forgotten.                                                    *)
Refilled_Partly(b) == b.tokens + b.idle * Rate >= Burst - 1
Refilled(b) == b.tokens + b.idle * Rate >= Burst
Kept ==
    IF Cardinality(DOMAIN buckets) > MaxBuckets
    THEN {k \in DOMAIN buckets : ~Refilled(buckets[k])}
    ELSE DOMAIN buckets

Found(a) ==
    IF a \in DOMAIN buckets THEN buckets
    ELSE [k \in Kept \cup {a} |-> IF k = a THEN NewBucket ELSE buckets[k]]

Tokens(a) == Filled(Found(a)[a])

Charge(a, spent) ==
    buckets' = [Found(a) EXCEPT ![a] = [tokens |-> Tokens(a) - spent, idle |-> 0]]

(* allow answers true, or false; either way the bucket is up to date.         *)
Allow(a, cost) == Tokens(a) >= cost /\ Charge(a, cost)
Deny(a, cost) == Tokens(a) < cost /\ Charge(a, 0)

LimiterInit == buckets = [a \in {} |-> NewBucket]

(* A tick: a bucket idle for Burst ticks is full whatever it held.            *)
Elapse == buckets' = [a \in DOMAIN buckets |->
                        [buckets[a] EXCEPT !.idle = AtMost(Burst, @ + 1)]]

(* The buckets live in the process.                                           *)
Forget == buckets' = [a \in {} |-> NewBucket]

LimiterNext ==
    \/ \E a \in Addresses, c \in Costs : Allow(a, c) \/ Deny(a, c)
    \/ Elapse
    \/ Forget

LimiterSpec == LimiterInit /\ [][LimiterNext]_buckets

LimiterTypeOK ==
    /\ DOMAIN buckets \subseteq Addresses
    /\ \A a \in DOMAIN buckets : buckets[a] \in Bucket

-------------------------------------------------------------------------------
(* What an address may spend: forgotten addresses count as full.              *)
Level == [a \in Addresses |-> IF a \in DOMAIN buckets THEN Filled(buckets[a]) ELSE Burst]

Promise == INSTANCE RateLimit WITH level <- Level

(* The limiter keeps the promise of RateLimit: keeping buckets lazily and     *)
(* forgetting refilled ones (hub.go: "forgetting them changes nothing") gives *)
(* no address a token it has not waited for.                                  *)
LimiterPromise == Promise!Spec
================================================================================
