------------------------------- MODULE Reliance -------------------------------
(* An auditor's attestations in the hands of relying clients                  *)
(* (audit/verify.go, ParseStatus of audit/status.go): what a client shows,    *)
(* and when it may rely on it, given any list the auditor ever signed.        *)
(*                                                                            *)
(* Lists travel by any route (stapled, cached, fetched), so a verification    *)
(* gets one that is new, old or none; the attestation may come re-serialized, *)
(* which keeps its signature and changes its digest.  A client may retain the *)
(* highest epoch it saw (StatusState); the command line tool does not.        *)
EXTENDS StatusList

CONSTANTS
    Ids, Atts, Revs,  \* attestation ids, and the documents the auditor signs
    Clients,
    Retaining,   \* the clients that keep their StatusState
    Offset,      \* [Clients -> how far a client's clock is off]
    Credited,    \* the clients that credit this auditor
    Omitting,    \* the clients that omit what they do not credit
    Skew,        \* the tolerance for clocks
    MaxTime, MaxLists \* bounds: the clock stops; lists signed

(* What Collect reads of the auditor's tree, and what it signs of that.       *)
Collectable == [doc : Atts, rev : Revs \cup {None}, resps : SUBSET {}]
Entries == [doc : Atts, state : States, by : Ids \cup {None},
            rev : Revs \cup {None}, resps : SUBSET {}]
Lists == [epoch : Nat, issuedAt : Nat, nextUpdate : Nat, entries : [Ids -> Entries \cup {None}]]

ASSUME RelianceAssumption ==
    /\ Ids \subseteq Nat /\ IsFiniteSet(Ids)
    /\ \A a \in Atts : /\ a.id \in Ids /\ a.supersedes \in Ids \cup {None}
                       /\ a.expiresAt \in Nat \cup {None}
    /\ Revs \subseteq [att : Ids, from : Nat, epoch : Nat]
    /\ Retaining \cup Credited \cup Omitting \subseteq Clients
    /\ Skew \in Nat /\ MaxTime \in Nat /\ MaxLists \in Nat
    /\ Offset \in [Clients -> (-Skew)..Skew]
    /\ None \notin Ids /\ None \notin Atts /\ None \notin Revs
    /\ None \notin Collectable /\ None \notin Lists

VARIABLES
    now,       \* the auditor's clock
    doc,       \* id -> the published attestation, or None
    rev,       \* id -> its published revocation, or None
    revokedAt, \* id -> when that was published
    lists,     \* every status list signed so far
    last,      \* client -> StatusState.LastEpoch
    decision,  \* client -> its last decision
    over       \* client -> attestations a list told it are no longer active

vars == <<now, doc, rev, revokedAt, lists, last, decision, over>>

-------------------------------------------------------------------------------
(* The auditor.                                                               *)

Pubs == [i \in Ids |-> IF doc[i] = None THEN None
                       ELSE [doc |-> doc[i], rev |-> rev[i], resps |-> {}]]

LastEpochSigned == Max({0} \cup {l.epoch : l \in lists})

Publish(a) ==
    /\ doc[a.id] = None
    /\ doc' = [doc EXCEPT ![a.id] = a]
    /\ UNCHANGED <<now, rev, revokedAt, lists, last, decision, over>>

Revoke(r) ==
    /\ doc[r.att] # None /\ rev[r.att] = None
    /\ rev' = [rev EXCEPT ![r.att] = r]
    /\ revokedAt' = [revokedAt EXCEPT ![r.att] = now]
    /\ UNCHANGED <<now, doc, lists, last, decision, over>>

SignList ==
    /\ Cardinality(lists) < MaxLists
    /\ LET l == BuildStatus(Pubs, now, MinEpoch(Pubs, LastEpochSigned)) IN
       /\ Encodable(l)
       /\ lists' = lists \cup {l}
    /\ UNCHANGED <<now, doc, rev, revokedAt, last, decision, over>>

-------------------------------------------------------------------------------
(* The client.                                                                *)

Clock(c) == now + Offset[c]

(* ParseStatus: what makes a list unusable, and what makes it stale.          *)
Usable_Replayed(c, l) == \* mutant: no comparison with the retained epoch
    /\ l # None
    /\ l.issuedAt <= Clock(c) + Skew

Usable_Once(c, l) == \* mutant: an epoch already seen is a rollback
    /\ l # None
    /\ l.issuedAt <= Clock(c) + Skew
    /\ l.epoch > last[c]

Usable(c, l) ==
    /\ l # None
    /\ l.issuedAt <= Clock(c) + Skew
    /\ l.epoch >= last[c]

Fresh_Always(c, l) == TRUE \* mutant: a stale list counts as fresh

Fresh(c, l) == Clock(c) <= l.nextUpdate + Skew

(* Expiry is evaluated locally too.                                           *)
ExpiredLocally_Not(c, a) == FALSE \* mutant: it is left to the list

ExpiredLocally(c, a) == a.expiresAt # None /\ Clock(c) > a.expiresAt + Skew

(* The list's entry, or None when there is no usable list or no entry.        *)
EntryOf(c, a, l) == IF Usable(c, l) THEN l.entries[a.id] ELSE None

(* The display decision.  Revocations, from the file or the list, come first, *)
(* the user's policy for issuers after all that the list says.                *)
Display(c, a, copy, l, r) ==
    LET e == EntryOf(c, a, l)
        says(st) == e # None /\ e.state = st
        confirmed == e # None /\ Fresh(c, l) /\ copy = "published"
    IN  IF copy = "other" THEN "no-attestation"
        ELSE IF r # None \/ says("revoked") THEN "revoked"
        ELSE IF says("superseded") THEN "superseded"
        ELSE IF says("expired") \/ ExpiredLocally(c, a) THEN "expired"
        ELSE IF c \notin Credited /\ c \in Omitting THEN "no-attestation"
        ELSE IF ~confirmed THEN "status-unknown"
        ELSE IF c \in Credited THEN "attested" ELSE "uncredited"

(* HighStakesOK, by itself, is fresh /\ credited on the decisions that reach  *)
(* the end of Verify: exactly those displayed as attested.                    *)
HighStakesOK(d) == d.display = "attested"

(* One verification: of an attestation that is the published file, a          *)
(* re-serialization of it, or not about the bytes the client is to use, with  *)
(* a list and a revocation that somebody presents.                            *)
Verify(c, i, copy, l, r) ==
    /\ doc[i] # None
    /\ r \in {None, rev[i]}
    /\ decision' = [decision EXCEPT ![c] =
          [att |-> i, copy |-> copy, display |-> Display(c, doc[i], copy, l, r)]]
    /\ LET read == copy # "other" /\ r = None /\ Usable(c, l) IN
       /\ last' = [last EXCEPT ![c] = IF c \in Retaining /\ read THEN l.epoch ELSE @]
       /\ over' = [over EXCEPT ![c] =
             IF read /\ l.entries[i] # None /\ l.entries[i].state # "active"
             THEN @ \cup {i} ELSE @]
    /\ UNCHANGED <<now, doc, rev, revokedAt, lists>>

NoDecision == [att |-> None, copy |-> "other", display |-> "no-attestation"]

(* A decision is about the moment it is made.                                 *)
Tick ==
    /\ now < MaxTime /\ now' = now + 1
    /\ decision' = [c \in Clients |-> NoDecision]
    /\ UNCHANGED <<doc, rev, revokedAt, lists, last, over>>

-------------------------------------------------------------------------------
Init == /\ now = 0
        /\ doc = [i \in Ids |-> None]
        /\ rev = [i \in Ids |-> None]
        /\ revokedAt = [i \in Ids |-> 0]
        /\ lists = {}
        /\ last = [c \in Clients |-> 0]
        /\ decision = [c \in Clients |-> NoDecision]
        /\ over = [c \in Clients |-> {}]

Next == \/ \E a \in Atts : Publish(a)
        \/ \E r \in Revs : Revoke(r)
        \/ SignList
        \/ Tick
        \/ \E c \in Clients, i \in Ids, copy \in {"published", "reserialized", "other"},
              l \in lists \cup {None}, r \in Revs \cup {None} : Verify(c, i, copy, l, r)

Spec == Init /\ [][Next]_vars

-------------------------------------------------------------------------------
(* Properties.                                                                *)

Later(m, n) == IF m > n THEN m ELSE n

(* Every variable has its type, no list is dated in the future, and an epoch  *)
(* names one list.                                                            *)
TypeOK ==
    /\ now \in Nat
    /\ \A i \in Ids : /\ doc[i] \in {a \in Atts : a.id = i} \cup {None}
                      /\ rev[i] \in {r \in Revs : r.att = i} \cup {None}
                      /\ revokedAt[i] \in 0..now
    /\ lists \subseteq Lists
    /\ \A l \in lists : l.issuedAt \in 0..now
    /\ \A l, m \in lists : l.epoch = m.epoch => l = m
    /\ last \in [Clients -> Nat]
    /\ over \in [Clients -> SUBSET Ids]
    /\ \A c \in Clients :
          /\ decision[c].att \in {i \in Ids : doc[i] # None} \cup {None}
          /\ decision[c].display \in {"attested", "uncredited", "no-attestation",
                 "revoked", "superseded", "expired", "status-unknown"}

(* High-stakes reliance ends in bounded time whatever old lists are replayed: *)
(* no client relies on an attestation later than a list's life, and the       *)
(* tolerance for clocks, after its revocation was published and in force.     *)
RevocationReaches ==
    \A c \in Clients : HighStakesOK(decision[c]) =>
        LET i == decision[c].att IN
        rev[i] # None =>
            Clock(c) <= Later(revokedAt[i], rev[i].from) + NextUpdateIn + Skew

(* What a client relies on is the bytes it uses and the bytes the auditor     *)
(* published, by a credited issuer, and never past its expiry.                *)
RelianceIsExact ==
    \A c \in Clients : HighStakesOK(decision[c]) =>
        /\ decision[c].copy = "published" /\ c \in Credited
        /\ LET until == doc[decision[c].att].expiresAt IN
           until # None => Clock(c) <= until + Skew

(* A client that retains its epoch and was told by a list that an attestation *)
(* is revoked, superseded or expired never shows it as an opinion in force    *)
(* again, whatever list it is given later (epochs of BuildStatus, rollback).  *)
OverIsOver ==
    \A c \in Retaining : decision[c].display \in {"attested", "uncredited"}
        => decision[c].att \notin over[c]

(* Replay protection never turns against the auditor: the list it signed last *)
(* is usable by every client whose clock is within the tolerance.             *)
HonestListUsable ==
    \A c \in Clients : \A l \in lists : l.epoch = LastEpochSigned => Usable(c, l)

(* A client's decisions have their type, and an opinion that was seen to be   *)
(* over is not shown as one in force again.                                   *)
OverStaysOver ==
    /\ TypeOK
    /\ OverIsOver

================================================================================
