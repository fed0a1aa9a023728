------------------------------ MODULE MCReliance ------------------------------
(* Small instances of Reliance for TLC.                                       *)
EXTENDS Reliance

CONSTANTS keeper

MCIds == {1, 2}
(* An attestation that expires and its successor.                             *)
MCAtts == { [id |-> 1, expiresAt |-> 1, supersedes |-> None],
            [id |-> 2, expiresAt |-> None, supersedes |-> 1] }
(* One in force at once, and one in force later with a declared epoch.        *)
MCRevs == { [att |-> 2, from |-> 0, epoch |-> 0], [att |-> 1, from |-> 2, epoch |-> 3] }
SlowClock == [c \in Clients |-> -1]
================================================================================
