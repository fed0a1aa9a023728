-------------------------------- MODULE MCSeat --------------------------------
(* Small instances of Seat for TLC.                                           *)
EXTENDS Seat

CONSTANTS a, b

Order(i, v) == [id |-> i, ver |-> v]
Unsolicited(i, v) == [id |-> i, ver |-> v, order |-> None]
Commissioned(i, o) == [id |-> i, ver |-> a, order |-> o]

MCOrders == {Order(1, a), Order(1, b), Order(2, a), Order(3, a)}
MCDrafts == {Unsolicited(1, a), Unsolicited(1, b), Unsolicited(2, a)}
            \cup {Commissioned(1, Order(1, a)), Commissioned(2, Order(1, b))}

(* Documents, a revocation and replies; orders of one id and what they        *)
(* commission; more orders than the inbox takes; or a manifest that is        *)
(* renewed under another status key.                                          *)
Documents == [drafts |-> {Unsolicited(1, a), Unsolicited(1, b), Unsolicited(2, a)}, orders |-> {},
              revoked |-> {1}, replied |-> {1}, keys |-> <<a>>]
OrdersTaken == [drafts |-> {Commissioned(1, Order(1, a)), Commissioned(2, Order(1, b))}, orders |-> {Order(1, a), Order(1, b)},
                revoked |-> {}, replied |-> {}, keys |-> <<a>>]
OrdersMany == [drafts |-> {}, orders |-> MCOrders \ {Order(1, b)}, revoked |-> {}, replied |-> {}, keys |-> <<a>>]
Renewals == [drafts |-> {Unsolicited(1, a)}, orders |-> {}, revoked |-> {}, replied |-> {1}, keys |-> <<a, b>>]
MCPlans == {Documents, OrdersTaken, OrdersMany, Renewals}
================================================================================
