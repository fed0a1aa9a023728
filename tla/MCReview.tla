------------------------------- MODULE MCReview -------------------------------
(* Small instances of Review for TLC.                                         *)
EXTENDS Review

CONSTANTS commissioned, manual, crit, minor, a1, a2

(* One commissioned, embargoed review by the engine and one by hand.          *)
TwoReviews == {commissioned, manual}
OwnIds == [r \in TwoReviews |-> IF r = commissioned THEN {a1} ELSE {a2}]
OneDay == [r \in TwoReviews |-> IF r = commissioned THEN 1 ELSE None]

(* The commissioned review alone, with two ids to try.                        *)
OneReview == {commissioned}
TwoIds == [r \in OneReview |-> {a1, a2}]
AlsoOneDay == [r \in OneReview |-> 1]
================================================================================
