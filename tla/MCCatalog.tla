------------------------------- MODULE MCCatalog -------------------------------
(* A small instance of Catalog for TLC.                                       *)
EXTENDS Catalog

CONSTANTS site, alice, bob, courier

MCRank(a) == CASE a = site -> 0 [] a = alice -> 1 [] OTHER -> 2

(* One failing and one clear opinion by alice about one service.              *)
MCAttestations ==
    {[by |-> alice, subject |-> courier, result |-> r, until |-> 9] : r \in {"fail", "clear"}}
MCWorlds == {None, {}, {courier}}
================================================================================
