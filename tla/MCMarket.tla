------------------------------- MODULE MCMarket -------------------------------
(* Small instances of Market for TLC.                                         *)
EXTENDS Market

CONSTANTS alice, bob, q1, q2, dave, eve, src, free, o1, o2

Request(id, to, until) == [id |-> id, to |-> to, key |-> dave, want |-> src, until |-> until]
Order(id, slug, req, key, want) ==
    [id |-> id, slug |-> slug, req |-> req, key |-> key, want |-> want, terms |-> free]

(* A request to everyone and one to bob.                                      *)
MCRequests == {Request(q1, None, 2), Request(q2, bob, 1)}
OneOffer == {[terms |-> free, until |-> 2]}
(* The author's orders with either auditor, a stranger's with the same id,    *)
(* and one under a listed offer with that id.                                 *)
MCOrders == { Order(o1, alice, q1, dave, src), Order(o2, bob, q1, dave, src),
              Order(o1, alice, q1, eve, src), Order(o1, alice, None, eve, src) }
================================================================================
