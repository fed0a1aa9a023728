------------------------------- MODULE MCNames -------------------------------
(* Small instances of Names for TLC: two studios after one name.              *)
EXTENDS Names, TLC

CONSTANTS alice, bob

(* The studios differ in nothing but their keys.                              *)
Swaps == Permutations({alice, bob})
================================================================================
