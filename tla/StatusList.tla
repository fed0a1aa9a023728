------------------------------ MODULE StatusList ------------------------------
(* The signed status list of an auditor (audit/status.go, site/site.go):      *)
(* what BuildStatus says of each published attestation, which epoch it signs, *)
(* and when site.ResignStatus can sign at all.  Pure operators: the modules   *)
(* that keep a tree of documents (Tenant, Reliance, SeatServer) apply them.   *)
(*                                                                            *)
(* An attestation document is a record                                        *)
(*   [id, expiresAt, supersedes, ...]   expiresAt, supersedes may be None     *)
(* a revocation document a record                                             *)
(*   [att, from, epoch]        effectiveFrom and the declared statusEpoch     *)
(* and ids are naturals in the order of their file names.                     *)
EXTENDS Integers, FiniteSets, FiniteSetsExt

CONSTANTS
    None,          \* "no such document": a model value
    NextUpdateIn,  \* how long a signed list stays fresh
    MaxSafeEpoch   \* largest integer the canonical JSON encodes (2^53-1)

ASSUME StatusListAssumption == /\ NextUpdateIn \in Nat \ {0}
                               /\ MaxSafeEpoch \in Nat

States == {"active", "superseded", "revoked", "expired"}

-------------------------------------------------------------------------------
(* pubs maps an id to None or to what Collect read for it:                    *)
(* [doc |-> attestation, rev |-> revocation or None, resps |-> responses].    *)

IsPublished(pubs, i) == pubs[i] # None

(* The published attestations that claim to supersede i, and the one the list *)
(* names: Collect sorts by file name and the last one overwrites the others.  *)
Superseders(pubs, i) ==
    {j \in DOMAIN pubs : IsPublished(pubs, j) /\ pubs[j].doc.supersedes = i}

SupersededBy(pubs, i) ==
    IF Superseders(pubs, i) = {} THEN None ELSE Max(Superseders(pubs, i))

InForce(rev, now) == rev # None /\ now >= rev.from

Expired(doc, now) == doc.expiresAt # None /\ now >= doc.expiresAt

(* Mutant: supersession is looked at before the revocation.                   *)
State_SupersededFirst(pubs, i, now) ==
    IF SupersededBy(pubs, i) # None THEN "superseded"
    ELSE IF InForce(pubs[i].rev, now) THEN "revoked"
    ELSE IF Expired(pubs[i].doc, now) THEN "expired"
    ELSE "active"

(* A revocation in force comes before supersession, and that before expiry.   *)
State(pubs, i, now) ==
    IF InForce(pubs[i].rev, now) THEN "revoked"
    ELSE IF SupersededBy(pubs, i) # None THEN "superseded"
    ELSE IF Expired(pubs[i].doc, now) THEN "expired"
    ELSE "active"

Entry(pubs, i, now) ==
    LET s == State(pubs, i, now) IN
    [ doc   |-> pubs[i].doc,
      state |-> s,
      by    |-> IF s = "superseded" THEN SupersededBy(pubs, i) ELSE None,
      rev   |-> IF s = "revoked" THEN pubs[i].rev ELSE None,
      resps |-> pubs[i].resps ]

(* The epoch ResignStatus must go past: every epoch a stored revocation       *)
(* declares, in force or not, and the epoch of the list it replaces.          *)
MinEpoch(pubs, prev) ==
    Max({0, prev} \cup
        {pubs[i].rev.epoch : i \in {j \in DOMAIN pubs :
                                    IsPublished(pubs, j) /\ pubs[j].rev # None}})

Epoch_Equal(now, minEpoch) ==  \* mutant: < for <=
    IF now < minEpoch THEN minEpoch + 1 ELSE now

Epoch(now, minEpoch) == IF now <= minEpoch THEN minEpoch + 1 ELSE now

(* The list signed at now; it exists only if its epoch can be encoded.        *)
BuildStatus(pubs, now, minEpoch) ==
    [ epoch      |-> Epoch(now, minEpoch),
      issuedAt   |-> now,
      nextUpdate |-> now + NextUpdateIn,
      entries    |-> [i \in DOMAIN pubs |-> IF IsPublished(pubs, i)
                                            THEN Entry(pubs, i, now)
                                            ELSE None] ]

Encodable(list) == list.epoch <= MaxSafeEpoch
================================================================================
