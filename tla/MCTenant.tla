------------------------------- MODULE MCTenant -------------------------------
(* Small instances of Tenant for TLC.                                         *)
EXTENDS Tenant

CONSTANTS v1, v2, report, o1, r1

NoPins == [n \in DocNames |-> None]
Pins(v) == [n \in DocNames |-> v]

Plain   == [id |-> o1, ver |-> 1, embargo |-> 0]
Embargo == [id |-> o1, ver |-> 1, embargo |-> 1]

Att(i, fail, order, supersedes, expiresAt, pins) ==
    [id |-> i, fail |-> fail, order |-> order, supersedes |-> supersedes,
     expiresAt |-> expiresAt, pins |-> pins]

EmbargoedFail == Att(1, TRUE, Embargo, None, None, Pins(v1))
ClearSameId   == Att(1, FALSE, None, None, None, NoPins)
Successor     == Att(2, FALSE, None, 1, 2, NoPins)
Commissioned  == Att(2, FALSE, Plain, None, 3, Pins(v1))

M(until) == [until |-> until, pins |-> NoPins]

MCIds == {1, 2}
MCOrders == {Plain, Embargo}

(* An embargoed fail, another document with its id, and its successor.        *)
AttsEmbargo == {EmbargoedFail, ClearSameId, Successor}
(* The same with a commissioned attestation.                                  *)
AttsAll == AttsEmbargo \cup {Commissioned}
RevOne == {[att |-> 1, from |-> 1, epoch |-> 3]}

ManifestForever == {M(9)}
ManifestsRenewed == {M(0), M(3)}
================================================================================
