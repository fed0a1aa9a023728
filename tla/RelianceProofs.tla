---------------------------- MODULE RelianceProofs ----------------------------
(* What Reliance promises for any number of attestations, lists and clients,  *)
(* clocks within the tolerance, and any list replayed at any time.  The       *)
(* argument is about all the lists ever signed: what one of them calls over   *)
(* is over for the auditor from then on, and over in every list of a higher   *)
(* epoch; and a list that does not name a revocation was signed before it.    *)
EXTENDS Reliance, TLAPS, FiniteSetTheorems, WellFoundedInduction

-------------------------------------------------------------------------------
(* The status list, for every set of published documents and every clock:     *)
(* what the epoch covers, and what an entry may say.                          *)

(* A finite set of naturals has the maximum FiniteSetsExt!Max chooses.  By    *)
(* the least size of a set without one: the library's induction theorems take *)
(* an operator as a parameter, so the well-founded minimum stands in.         *)
LEMMA MaxOfFinite ==
    ASSUME NEW S \in SUBSET Nat, S # {}, IsFiniteSet(S)
    PROVE  Max(S) \in S /\ \A y \in S : Max(S) >= y
<1> DEFINE NoMax(T) == \A x \in T : \E y \in T : ~(x >= y)
           Bad == {n \in Nat : \E T \in SUBSET Nat :
                     T # {} /\ IsFiniteSet(T) /\ Cardinality(T) = n /\ NoMax(T)}
<1>1. Bad = {}
  <2> SUFFICES ASSUME Bad # {} PROVE FALSE OBVIOUS
  <2>1. PICK n \in Bad : \A m \in Bad : ~ (<<m, n>> \in OpToRel(<, Nat))
    <3> HIDE DEF Bad
    <3>1. Bad \subseteq Nat BY DEF Bad
    <3> QED BY <3>1, WFMin, NatLessThanWellFounded
  <2>2. \A m \in Bad : ~(m < n)
    <3> SUFFICES ASSUME NEW m \in Bad, m < n PROVE FALSE OBVIOUS
    <3>1. m \in Nat /\ n \in Nat OBVIOUS
    <3>2. <<m, n>> \in OpToRel(<, Nat) BY <3>1 DEF OpToRel
    <3> QED BY <2>1, <3>2
  <2>3. PICK T \in SUBSET Nat :
           T # {} /\ IsFiniteSet(T) /\ Cardinality(T) = n /\ NoMax(T)
    BY <2>1
  <2>4. PICK x \in T : TRUE BY <2>3
  <2> DEFINE U == T \ {x}
  <2>5. IsFiniteSet(U) /\ Cardinality(U) = n - 1
    BY <2>3, <2>4, FS_RemoveElement
  <2>6. U # {}
    <3> SUFFICES ASSUME U = {} PROVE FALSE OBVIOUS
    <3>1. T = {x} BY <2>4
    <3> QED BY <2>3, <3>1
  <2>7. n - 1 \in Nat
    BY <2>5, FS_CardinalityType
  <2>8. ~NoMax(U)
    <3> SUFFICES ASSUME NoMax(U) PROVE FALSE OBVIOUS
    <3>1. U \in SUBSET Nat OBVIOUS
    <3>2. n - 1 \in Bad BY <2>5, <2>6, <2>7, <3>1
    <3>3. n \in Nat OBVIOUS
    <3> QED BY <2>2, <3>2, <3>3
  <2>9. PICK z \in U : \A y \in U : z >= y BY <2>8
  <2>10. \A y \in T : (IF z >= x THEN z ELSE x) >= y
    BY <2>4, <2>9
  <2> QED BY <2>3, <2>4, <2>9, <2>10
<1>2. ~NoMax(S)
  <2>1. Cardinality(S) \in Nat BY FS_CardinalityType
  <2> QED BY <1>1, <2>1
<1> QED BY <1>2 DEF Max

(* What Collect returns: typed documents of finitely many ids.                *)
Collected(pubs, ids, docs, revs, resps) ==
    /\ ids \subseteq Nat /\ IsFiniteSet(ids)
    /\ None \notin [doc : docs, rev : revs \cup {None}, resps : SUBSET resps]
    /\ \A r \in revs : r.epoch \in Nat
    /\ pubs \in [ids -> [doc : docs, rev : revs \cup {None}, resps : SUBSET resps]
                        \cup {None}]

LEMMA SupersededByType ==
    ASSUME NEW pubs, NEW ids, NEW docs, NEW revs, NEW resps,
           Collected(pubs, ids, docs, revs, resps), NEW i
    PROVE  SupersededBy(pubs, i) \in ids \cup {None}
<1>1. Superseders(pubs, i) \in SUBSET ids /\ ids \subseteq Nat /\ IsFiniteSet(ids)
  BY DEF Collected, Superseders
<1>2. IsFiniteSet(Superseders(pubs, i)) BY <1>1, FS_Subset
<1> QED BY <1>1, <1>2, MaxOfFinite DEF SupersededBy

LEMMA MinEpochCovers ==
    ASSUME NEW pubs, NEW ids, NEW docs, NEW revs, NEW resps,
           Collected(pubs, ids, docs, revs, resps), NEW prev \in Nat
    PROVE  /\ MinEpoch(pubs, prev) \in Nat
           /\ MinEpoch(pubs, prev) >= prev
           /\ \A i \in ids : pubs[i] # None /\ pubs[i].rev # None
                 => MinEpoch(pubs, prev) >= pubs[i].rev.epoch
<1> DEFINE R == {j \in DOMAIN pubs : IsPublished(pubs, j) /\ pubs[j].rev # None}
           E == {pubs[i].rev.epoch : i \in R}
           f == [i \in R |-> pubs[i].rev.epoch]
<1>1. R \in SUBSET ids /\ IsFiniteSet(R) BY FS_Subset DEF Collected
<1>2. E \in SUBSET Nat BY DEF Collected, IsPublished
<1>3. IsFiniteSet(E)
  <2>1. f \in Surjection(R, E) BY DEF Surjection
  <2> QED BY <1>1, <2>1, FS_Surjection
<1> DEFINE A == {0, prev} \cup E
<1>4. IsFiniteSet(A)
  <2>1. IsFiniteSet(E \cup {0}) BY <1>3, FS_AddElement
  <2>2. IsFiniteSet((E \cup {0}) \cup {prev}) BY <2>1, FS_AddElement
  <2>3. A = (E \cup {0}) \cup {prev} OBVIOUS
  <2> QED BY <2>2, <2>3
<1>5. A \in SUBSET Nat /\ A # {} BY <1>2
<1>6. MinEpoch(pubs, prev) = Max(A) BY DEF MinEpoch
<1>7. Max(A) \in A /\ \A y \in A : Max(A) >= y
  <2> HIDE DEF A
  <2> QED BY <1>4, <1>5, MaxOfFinite
<1>8. \A i \in ids : pubs[i] # None /\ pubs[i].rev # None => pubs[i].rev.epoch \in A
  BY DEF Collected, IsPublished
<1>9. prev \in A /\ A \subseteq Nat BY <1>5
<1> HIDE DEF A
<1> QED BY <1>6, <1>7, <1>8, <1>9

(* The epoch signed is above the replaced list's and above the epoch of every *)
(* stored revocation, wherever the clock stands (ResignStatus, BuildStatus).  *)
THEOREM EpochCovers ==
    ASSUME NEW pubs, NEW ids, NEW docs, NEW revs, NEW resps,
           Collected(pubs, ids, docs, revs, resps), NEW prev \in Nat, NEW t \in Nat
    PROVE  LET list == BuildStatus(pubs, t, MinEpoch(pubs, prev)) IN
           /\ list.epoch \in Nat
           /\ list.epoch > prev
           /\ \A i \in ids : pubs[i] # None /\ pubs[i].rev # None
                 => list.epoch > pubs[i].rev.epoch
<1> DEFINE m == MinEpoch(pubs, prev)
<1>1. /\ m \in Nat /\ m >= prev
      /\ \A i \in ids : pubs[i] # None /\ pubs[i].rev # None => m >= pubs[i].rev.epoch
  BY MinEpochCovers
<1>2. \A i \in ids : pubs[i] # None /\ pubs[i].rev # None => pubs[i].rev.epoch \in Nat
  BY DEF Collected
<1>3. BuildStatus(pubs, t, m).epoch = Epoch(t, m) BY DEF BuildStatus
<1> HIDE DEF m
<1>4. Epoch(t, m) \in Nat /\ Epoch(t, m) > m BY <1>1 DEF Epoch
<1>5. \A i \in ids : pubs[i] # None /\ pubs[i].rev # None
         => Epoch(t, m) > pubs[i].rev.epoch
  BY <1>1, <1>2, <1>4
<1> QED BY <1>1, <1>3, <1>4, <1>5 DEF m

(* State and references agree, which every relying client checks (ParseStatus,*)
(* profile 5.2): revoked iff a revocation, superseded iff a successor.        *)
THEOREM ReferencesAgree ==
    ASSUME NEW pubs, NEW ids, NEW docs, NEW revs, NEW resps,
           Collected(pubs, ids, docs, revs, resps), None \notin ids,
           NEW t \in Nat, NEW i \in ids, pubs[i] # None
    PROVE  LET e == Entry(pubs, i, t) IN
           /\ e \in [ doc : docs, state : States, by : ids \cup {None},
                      rev : revs \cup {None}, resps : SUBSET resps ]
           /\ (e.state = "revoked") <=> (e.rev # None)
           /\ (e.state = "superseded") <=> (e.by # None)
           /\ e.state = "revoked" <=> InForce(pubs[i].rev, t)
<1>1. pubs[i] \in [doc : docs, rev : revs \cup {None}, resps : SUBSET resps]
  BY DEF Collected
<1>2. SupersededBy(pubs, i) \in ids \cup {None} BY SupersededByType
<1>3. State(pubs, i, t) \in States BY DEF State, States
<1> QED BY <1>1, <1>2, <1>3 DEF Entry, State, InForce

-------------------------------------------------------------------------------
Shapes ==
    /\ doc \in [Ids -> Atts \cup {None}]
    /\ rev \in [Ids -> Revs \cup {None}]
    /\ revokedAt \in [Ids -> Nat]
    /\ decision \in [Clients -> [att : Ids \cup {None}, copy : {"published", "reserialized", "other"},
                                 display : {"attested", "uncredited", "no-attestation", "revoked",
                                            "superseded", "expired", "status-unknown"}]]
    /\ IsFiniteSet(lists)
    /\ \A l \in lists : l.nextUpdate = l.issuedAt + NextUpdateIn

Over(l, i) == l.entries[i] # None /\ l.entries[i].state # "active"
InForceIn(l, i) == l.entries[i] # None /\ l.entries[i].state = "active"

(* What a list called over is over by the auditor's own reckoning.            *)
PastHolds ==
    \A l \in lists : \A i \in Ids : Over(l, i) =>
        doc[i] # None /\ State(Pubs, i, now) # "active"

(* Nothing that is over comes back under a higher epoch.                      *)
Ordered ==
    \A l, m \in lists : \A i \in Ids :
        l.epoch <= m.epoch => ~ (Over(l, i) /\ InForceIn(m, i))

(* A client that was told that something is over retains that list's epoch.   *)
SeenOver ==
    \A c \in Retaining : \A i \in over[c] : \E l \in lists : Over(l, i) /\ l.epoch <= last[c]

LastSigned == \A c \in Clients : last[c] <= LastEpochSigned

(* A list that does not name a revocation was signed before it was published  *)
(* or in force.                                                               *)
SignedBefore ==
    \A l \in lists : \A i \in Ids :
        rev[i] # None /\ InForceIn(l, i) =>
            l.issuedAt <= revokedAt[i] \/ l.issuedAt < rev[i].from

(* What a decision in force rests on.                                         *)
DecisionBacked ==
    \A c \in Clients : decision[c].display \in {"attested", "uncredited"} =>
        LET i == decision[c].att IN
        /\ i \in Ids /\ doc[i] # None
        /\ decision[c].copy = "published" /\ ~ExpiredLocally(c, doc[i])
        /\ decision[c].display = "attested" => c \in Credited
        /\ \E l \in lists : InForceIn(l, i) /\ Fresh(c, l)

IInv == /\ TypeOK /\ Shapes /\ PastHolds /\ Ordered /\ SeenOver /\ LastSigned
        /\ SignedBefore /\ DecisionBacked /\ OverIsOver

-------------------------------------------------------------------------------
LEMMA ConstantFacts ==
    /\ Ids \subseteq Nat /\ IsFiniteSet(Ids) /\ None \notin Ids
    /\ None \notin Atts /\ None \notin Revs /\ None \notin Collectable /\ None \notin Lists
    /\ \A a \in Atts : a.id \in Ids /\ a.expiresAt \in Nat \cup {None}
    /\ \A r \in Revs : r.att \in Ids /\ r.from \in Nat /\ r.epoch \in Nat
    /\ Retaining \subseteq Clients
    /\ Skew \in Nat /\ NextUpdateIn \in Nat
    /\ \A c \in Clients : Offset[c] \in Int /\ -Skew <= Offset[c] /\ Offset[c] <= Skew
BY RelianceAssumption, StatusListAssumption

PubsOf(d, r) == [i \in Ids |-> IF d[i] = None THEN None
                               ELSE [doc |-> d[i], rev |-> r[i], resps |-> {}]]

(* What the auditor's tree holds is what Collect may return.                  *)
LEMMA PubsCollected ==
    ASSUME NEW d \in [Ids -> Atts \cup {None}], NEW r \in [Ids -> Revs \cup {None}]
    PROVE  /\ Collected(PubsOf(d, r), Ids, Atts, Revs, {})
           /\ \A i \in Ids : /\ PubsOf(d, r)[i] # None <=> d[i] # None
                             /\ d[i] # None => /\ PubsOf(d, r)[i].doc = d[i]
                                               /\ PubsOf(d, r)[i].rev = r[i]
<1>1. \A i \in Ids : d[i] # None =>
         [doc |-> d[i], rev |-> r[i], resps |-> {}] \in Collectable
  BY DEF Collectable
<1>2. PubsOf(d, r) \in [Ids -> Collectable \cup {None}] BY <1>1 DEF PubsOf
<1>3. Collected(PubsOf(d, r), Ids, Atts, Revs, {})
  BY <1>2, ConstantFacts DEF Collected, Collectable
<1> QED BY <1>1, <1>3, ConstantFacts DEF PubsOf

LEMMA PubsAre == Pubs = PubsOf(doc, rev)
BY DEF Pubs, PubsOf

(* When an attestation is not active.                                         *)
LEMMA NotActive ==
    ASSUME NEW d \in [Ids -> Atts \cup {None}], NEW r \in [Ids -> Revs \cup {None}],
           NEW t \in Nat, NEW i \in Ids, d[i] # None
    PROVE  State(PubsOf(d, r), i, t) # "active" <=>
              \/ InForce(r[i], t)
              \/ \E j \in Ids : d[j] # None /\ d[j].supersedes = i
              \/ Expired(d[i], t)
<1> DEFINE p == PubsOf(d, r)
<1>1. /\ Collected(p, Ids, Atts, Revs, {}) /\ p[i].rev = r[i] /\ p[i].doc = d[i]
      /\ \A j \in Ids : p[j] # None <=> d[j] # None
      /\ \A j \in Ids : d[j] # None => p[j].doc = d[j]
      /\ DOMAIN p = Ids
  BY PubsCollected DEF PubsOf
<1> HIDE DEF p
<1>2. Superseders(p, i) # {} <=> \E j \in Ids : d[j] # None /\ d[j].supersedes = i
  BY <1>1 DEF Superseders, IsPublished
<1>3. Superseders(p, i) # {} <=> SupersededBy(p, i) # None
  <2>1. Superseders(p, i) \in SUBSET Ids BY <1>1 DEF Superseders
  <2>2. IsFiniteSet(Superseders(p, i)) BY <2>1, ConstantFacts, FS_Subset
  <2>3. Superseders(p, i) # {} => Max(Superseders(p, i)) \in Ids
    BY <2>1, <2>2, ConstantFacts, MaxOfFinite
  <2> QED BY <2>3, ConstantFacts DEF SupersededBy
<1> QED BY <1>1, <1>2, <1>3 DEF State, p

(* What is over stays over: while time passes and documents are added, none   *)
(* of them ever replaced.                                                     *)
LEMMA OverForGood ==
    ASSUME NEW d \in [Ids -> Atts \cup {None}], NEW r \in [Ids -> Revs \cup {None}], NEW t \in Nat,
           NEW e \in [Ids -> Atts \cup {None}], NEW s \in [Ids -> Revs \cup {None}], NEW u \in Nat,
           t <= u,
           \A j \in Ids : d[j] \in {None, e[j]} /\ r[j] \in {None, s[j]},
           NEW i \in Ids, d[i] # None, State(PubsOf(d, r), i, t) # "active"
    PROVE  e[i] # None /\ State(PubsOf(e, s), i, u) # "active"
<1>1. e[i] = d[i] /\ e[i] # None OBVIOUS
<1>2. CASE InForce(r[i], t)
  <2>1. s[i] = r[i] /\ r[i] \in Revs BY <1>2 DEF InForce
  <2>2. InForce(s[i], u) BY <1>2, <2>1, ConstantFacts DEF InForce
  <2> QED BY <1>1, <2>2, NotActive
<1>3. CASE \E j \in Ids : d[j] # None /\ d[j].supersedes = i
  <2>1. \E j \in Ids : e[j] # None /\ e[j].supersedes = i BY <1>3
  <2> QED BY <1>1, <2>1, NotActive
<1>4. CASE Expired(d[i], t)
  <2>1. d[i] \in Atts OBVIOUS
  <2>2. Expired(e[i], u) BY <1>1, <1>4, <2>1, ConstantFacts DEF Expired
  <2> QED BY <1>1, <2>2, NotActive
<1> QED BY <1>2, <1>3, <1>4, NotActive

(* The highest epoch of any lists.                                            *)
LEMMA HighestOf ==
    ASSUME NEW S, IsFiniteSet(S), S \subseteq Lists
    PROVE  LET m == Max({0} \cup {l.epoch : l \in S}) IN
           m \in Nat /\ \A l \in S : l.epoch <= m
<1> DEFINE E == {l.epoch : l \in S}
           f == [l \in S |-> l.epoch]
<1>1. E \in SUBSET Nat BY DEF Lists
<1>2. IsFiniteSet(E)
  <2>1. f \in Surjection(S, E) BY DEF Surjection
  <2> QED BY <2>1, FS_Surjection
<1> DEFINE A == {0} \cup E
<1>3. IsFiniteSet(A)
  <2>1. IsFiniteSet(E \cup {0}) BY <1>2, FS_AddElement
  <2>2. A = E \cup {0} OBVIOUS
  <2> QED BY <2>1, <2>2
<1>4. A \in SUBSET Nat /\ A # {} BY <1>1
<1>5. Max(A) \in A /\ \A y \in A : Max(A) >= y
  <2> HIDE DEF A
  <2> QED BY <1>3, <1>4, MaxOfFinite
<1>6. \A l \in S : l.epoch \in A OBVIOUS
<1> HIDE DEF A
<1>7. Max(A) \in Nat /\ \A l \in S : l.epoch <= Max(A) BY <1>4, <1>5, <1>6
<1> QED BY <1>7 DEF A

LEMMA LastCovers ==
    ASSUME IsFiniteSet(lists), lists \subseteq Lists
    PROVE  LastEpochSigned \in Nat /\ \A l \in lists : l.epoch <= LastEpochSigned
BY HighestOf DEF LastEpochSigned

-------------------------------------------------------------------------------
LEMMA InitSafe == Init => IInv
<1> SUFFICES ASSUME Init PROVE IInv OBVIOUS
<1> USE DEF Init
<1>1. TypeOK BY ConstantFacts DEF TypeOK, NoDecision
<1>2. Shapes BY FS_EmptySet DEF Shapes, NoDecision
<1>3. LastSigned
  <2>1. LastEpochSigned \in Nat BY FS_EmptySet, LastCovers
  <2> QED BY <2>1 DEF LastSigned
<1>4. PastHolds /\ Ordered /\ SeenOver /\ SignedBefore
  BY ConstantFacts DEF PastHolds, Ordered, SeenOver, SignedBefore
<1>5. DecisionBacked /\ OverIsOver
  BY ConstantFacts DEF DecisionBacked, OverIsOver, NoDecision
<1> QED BY <1>1, <1>2, <1>3, <1>4, <1>5 DEF IInv

(* While documents are added and time passes, what was over stays over.       *)
LEMMA PastKept ==
    ASSUME TypeOK, Shapes, PastHolds,
           doc' \in [Ids -> Atts \cup {None}], rev' \in [Ids -> Revs \cup {None}],
           \A j \in Ids : doc[j] \in {None, doc'[j]} /\ rev[j] \in {None, rev'[j]},
           now' \in Nat, now <= now', lists' = lists
    PROVE  PastHolds'
<1> SUFFICES ASSUME NEW l \in lists, NEW i \in Ids, Over(l, i)
             PROVE  doc'[i] # None /\ State(PubsOf(doc', rev'), i, now') # "active"
  BY DEF PastHolds, Pubs, PubsOf, Over
<1>1. doc[i] # None /\ State(PubsOf(doc, rev), i, now) # "active" BY PubsAre DEF PastHolds
<1>2. doc \in [Ids -> Atts \cup {None}] /\ rev \in [Ids -> Revs \cup {None}] /\ now \in Nat
  BY DEF TypeOK, Shapes
<1> QED BY <1>1, <1>2, OverForGood

(* A step that signs no list and lets no client decide leaves these alone.    *)
LEMMA ListsKept ==
    ASSUME Ordered, SeenOver, LastSigned, UNCHANGED <<lists, last, over>>
    PROVE  Ordered' /\ SeenOver' /\ LastSigned'
BY DEF Ordered, SeenOver, LastSigned, LastEpochSigned

LEMMA PublishKept == ASSUME IInv, NEW a \in Atts, Publish(a) PROVE IInv'
<1> USE DEF IInv
<1>1. /\ doc[a.id] = None /\ doc' = [doc EXCEPT ![a.id] = a] /\ a.id \in Ids
      /\ UNCHANGED <<now, rev, revokedAt, lists, last, decision, over>>
  BY ConstantFacts DEF Publish
<1>2. Shapes' BY <1>1 DEF Shapes
<1>3. \A j \in Ids : doc[j] \in {None, doc'[j]} BY <1>1 DEF Shapes
<1>4. TypeOK' BY <1>1, <1>3 DEF TypeOK, Shapes
<1>5. PastHolds' BY <1>1, <1>2, <1>3, PastKept DEF Shapes, TypeOK
<1>6. Ordered' /\ SeenOver' /\ LastSigned' BY <1>1, ListsKept
<1>7. SignedBefore' BY <1>1 DEF SignedBefore
<1>8. DecisionBacked'
  <2> SUFFICES ASSUME NEW c \in Clients, decision[c].display \in {"attested", "uncredited"}
               PROVE  LET i == decision[c].att IN
                      /\ i \in Ids /\ doc'[i] # None
                      /\ decision[c].copy = "published" /\ ~ExpiredLocally(c, doc[i]) /\ doc'[i] = doc[i]
                      /\ decision[c].display = "attested" => c \in Credited
                      /\ \E l \in lists : InForceIn(l, i) /\ Fresh(c, l)
    BY <1>1 DEF DecisionBacked, ExpiredLocally, Fresh, Clock
  <2> QED BY <1>3 DEF DecisionBacked
<1>9. OverIsOver' BY <1>1 DEF OverIsOver
<1> QED BY <1>2, <1>4, <1>5, <1>6, <1>7, <1>8, <1>9

LEMMA RevokeKept == ASSUME IInv, NEW r \in Revs, Revoke(r) PROVE IInv'
<1> USE DEF IInv
<1>1. /\ rev[r.att] = None /\ rev' = [rev EXCEPT ![r.att] = r] /\ r.att \in Ids
      /\ revokedAt' = [revokedAt EXCEPT ![r.att] = now]
      /\ UNCHANGED <<now, doc, lists, last, decision, over>>
  BY ConstantFacts DEF Revoke
<1>2. Shapes' BY <1>1 DEF Shapes, TypeOK
<1>3. \A j \in Ids : rev[j] \in {None, rev'[j]} BY <1>1 DEF Shapes
<1>4. TypeOK'
  <2>1. \A i \in Ids : rev'[i] \in {q \in Revs : q.att = i} \cup {None}
    BY <1>1 DEF TypeOK, Shapes
  <2>2. \A i \in Ids : revokedAt'[i] \in 0..now BY <1>1 DEF TypeOK, Shapes
  <2> QED BY <1>1, <2>1, <2>2 DEF TypeOK
<1>5. PastHolds' BY <1>1, <1>2, <1>3, PastKept DEF Shapes, TypeOK
<1>6. Ordered' /\ SeenOver' /\ LastSigned' BY <1>1, ListsKept
<1>7. SignedBefore'
  <2> SUFFICES ASSUME NEW l \in lists, NEW i \in Ids, rev'[i] # None, InForceIn(l, i)
               PROVE  l.issuedAt <= revokedAt'[i] \/ l.issuedAt < rev'[i].from
    BY <1>1 DEF SignedBefore, InForceIn
  <2>1. CASE i = r.att
    <3>1. revokedAt'[i] = now /\ l.issuedAt \in 0..now BY <1>1, <2>1 DEF Shapes, TypeOK
    <3> QED BY <3>1
  <2>2. CASE i # r.att
    <3>1. rev'[i] = rev[i] /\ revokedAt'[i] = revokedAt[i] BY <1>1, <2>2 DEF Shapes
    <3> QED BY <3>1 DEF SignedBefore
  <2> QED BY <2>1, <2>2
<1>8. DecisionBacked' BY <1>1 DEF DecisionBacked, ExpiredLocally, Fresh, Clock
<1>9. OverIsOver' BY <1>1 DEF OverIsOver
<1> QED BY <1>2, <1>4, <1>5, <1>6, <1>7, <1>8, <1>9

LEMMA TickKept == ASSUME IInv, Tick PROVE IInv'
<1> USE DEF IInv
<1>1. /\ now' = now + 1 /\ now \in Nat /\ decision' = [c \in Clients |-> NoDecision]
      /\ UNCHANGED <<doc, rev, revokedAt, lists, last, over>>
  BY DEF Tick, TypeOK
<1>2. Shapes' BY <1>1 DEF Shapes, NoDecision
<1>3. TypeOK'
  <2>1. \A i \in Ids : revokedAt[i] \in 0..now' BY <1>1 DEF TypeOK
  <2>2. \A l \in lists : l.issuedAt \in 0..now' BY <1>1 DEF TypeOK
  <2> QED BY <1>1, <2>1, <2>2 DEF TypeOK, NoDecision
<1>4. PastHolds' BY <1>1, PastKept DEF Shapes
<1>5. Ordered' /\ SeenOver' /\ LastSigned' BY <1>1, ListsKept
<1>6. SignedBefore' BY <1>1 DEF SignedBefore
<1>7. DecisionBacked' /\ OverIsOver' BY <1>1, ConstantFacts DEF DecisionBacked, OverIsOver, NoDecision
<1> QED BY <1>2, <1>3, <1>4, <1>5, <1>6, <1>7

(* The list the auditor signs: of a higher epoch than all before, and true of *)
(* its tree at that time.                                                     *)
LEMMA SignedNow ==
    ASSUME TypeOK, Shapes
    PROVE  LET l == BuildStatus(Pubs, now, MinEpoch(Pubs, LastEpochSigned)) IN
           /\ l \in Lists /\ l.issuedAt = now /\ l.nextUpdate = l.issuedAt + NextUpdateIn
           /\ \A m \in lists : m.epoch < l.epoch
           /\ LastEpochSigned < l.epoch
           /\ \A i \in Ids : l.entries[i] # None =>
                 /\ doc[i] # None
                 /\ l.entries[i].state = State(Pubs, i, now)
<1> DEFINE prev == LastEpochSigned
           l == BuildStatus(Pubs, now, MinEpoch(Pubs, prev))
<1>1. prev \in Nat /\ \A m \in lists : m.epoch <= prev /\ m.epoch \in Nat
  BY LastCovers DEF Shapes, TypeOK, Lists
<1>2. /\ Collected(Pubs, Ids, Atts, Revs, {}) /\ DOMAIN Pubs = Ids
      /\ \A i \in Ids : Pubs[i] # None <=> doc[i] # None
  <2>1. /\ Collected(PubsOf(doc, rev), Ids, Atts, Revs, {})
        /\ \A i \in Ids : PubsOf(doc, rev)[i] # None <=> doc[i] # None
    BY PubsCollected DEF Shapes
  <2>2. DOMAIN PubsOf(doc, rev) = Ids BY DEF PubsOf
  <2> QED BY <2>1, <2>2, PubsAre
<1>3. now \in Nat BY DEF TypeOK
<1> HIDE DEF prev
<1>4. l.epoch \in Nat /\ l.epoch > prev BY <1>1, <1>2, <1>3, EpochCovers
<1>5. /\ l.issuedAt = now /\ l.nextUpdate = now + NextUpdateIn
      /\ l.entries = [i \in Ids |-> IF Pubs[i] # None THEN Entry(Pubs, i, now) ELSE None]
      /\ l = [epoch |-> l.epoch, issuedAt |-> l.issuedAt,
              nextUpdate |-> l.nextUpdate, entries |-> l.entries]
  BY <1>2 DEF BuildStatus, IsPublished
<1>6. \A i \in Ids : Pubs[i] # None =>
         Entry(Pubs, i, now) \in Entries /\ Entry(Pubs, i, now).state = State(Pubs, i, now)
  <2> SUFFICES ASSUME NEW i \in Ids, Pubs[i] # None
               PROVE  Entry(Pubs, i, now) \in Entries /\ Entry(Pubs, i, now).state = State(Pubs, i, now)
    OBVIOUS
  <2>1. Entry(Pubs, i, now) \in Entries BY <1>2, <1>3, ConstantFacts, ReferencesAgree DEF Entries
  <2> QED BY <2>1 DEF Entry
<1> HIDE DEF l
<1>7. l.entries \in [Ids -> Entries \cup {None}] BY <1>5, <1>6
<1>8. l \in Lists BY <1>3, <1>4, <1>5, <1>7, ConstantFacts DEF Lists
<1>9. \A m \in lists : m.epoch < l.epoch BY <1>1, <1>4
<1>10. \A i \in Ids : l.entries[i] # None =>
          doc[i] # None /\ l.entries[i].state = State(Pubs, i, now)
  BY <1>2, <1>5, <1>6
<1> QED BY <1>4, <1>5, <1>8, <1>9, <1>10 DEF l, prev

LEMMA SignKept == ASSUME IInv, SignList PROVE IInv'
<1> USE DEF IInv
<1>1. PICK l : /\ lists' = lists \cup {l}
               /\ l \in Lists /\ l.issuedAt = now /\ l.nextUpdate = l.issuedAt + NextUpdateIn
               /\ \A m \in lists : m.epoch < l.epoch
               /\ LastEpochSigned < l.epoch
               /\ \A i \in Ids : l.entries[i] # None =>
                     /\ doc[i] # None
                     /\ l.entries[i].state = State(Pubs, i, now)
  BY SignedNow DEF SignList
<1>2. UNCHANGED <<now, doc, rev, revokedAt, last, decision, over>> BY DEF SignList
<1>3. Shapes'
  <2>1. IsFiniteSet(lists') BY <1>1, FS_AddElement DEF Shapes
  <2> QED BY <1>1, <1>2, <2>1 DEF Shapes
<1>4. TypeOK'
  <2>1. \A m, n \in lists' : m.epoch = n.epoch => m = n BY <1>1 DEF TypeOK, Lists
  <2>2. \A m \in lists' : m.issuedAt \in 0..now BY <1>1 DEF TypeOK
  <2> QED BY <1>1, <1>2, <2>1, <2>2 DEF TypeOK
<1>5. PastHolds' BY <1>1, <1>2 DEF PastHolds, Pubs, Over
<1>6. Ordered'
  <2> SUFFICES ASSUME NEW m \in lists', NEW n \in lists', NEW i \in Ids, m.epoch <= n.epoch,
                      Over(m, i), InForceIn(n, i)
               PROVE  FALSE
    BY DEF Ordered, Over, InForceIn
  <2>1. CASE m \in lists /\ n \in lists BY <2>1 DEF Ordered
  <2>2. CASE m \in lists /\ n = l BY <1>1, <2>2 DEF PastHolds, InForceIn
  <2>3. CASE m = l /\ n \in lists BY <1>1, <2>3 DEF Lists, TypeOK
  <2>4. CASE m = l /\ n = l BY <2>4 DEF Over, InForceIn
  <2> QED BY <1>1, <2>1, <2>2, <2>3, <2>4
<1>7. SeenOver' BY <1>1, <1>2 DEF SeenOver, Over
<1>8. LastSigned'
  <2>1. LastEpochSigned' \in Nat /\ \A m \in lists' : m.epoch <= LastEpochSigned'
    <3>1. lists' \subseteq Lists /\ IsFiniteSet(lists') BY <1>3, <1>4 DEF TypeOK, Shapes
    <3> QED BY <3>1, HighestOf DEF LastEpochSigned
  <2>2. LastEpochSigned \in Nat BY LastCovers DEF Shapes, TypeOK
  <2>3. LastEpochSigned <= LastEpochSigned' BY <1>1, <2>1, <2>2 DEF Lists
  <2> QED BY <1>2, <2>1, <2>2, <2>3 DEF LastSigned, TypeOK
<1>9. SignedBefore'
  <2> SUFFICES ASSUME NEW i \in Ids, rev[i] # None, InForceIn(l, i)
               PROVE  l.issuedAt < rev[i].from
    BY <1>1, <1>2 DEF SignedBefore, InForceIn
  <2>1. rev[i] \in Revs /\ now \in Nat BY DEF Shapes, TypeOK
  <2>2. ~InForce(rev[i], now) BY <1>1, PubsAre, NotActive, <2>1 DEF InForceIn, Shapes
  <2> QED BY <1>1, <2>1, <2>2, ConstantFacts DEF InForce
<1>10. DecisionBacked' BY <1>1, <1>2 DEF DecisionBacked, ExpiredLocally, Fresh, Clock
<1>11. OverIsOver' BY <1>2 DEF OverIsOver
<1> QED BY <1>3, <1>4, <1>5, <1>6, <1>7, <1>8, <1>9, <1>10, <1>11

(* What an opinion shown as in force says of the list it was shown by.        *)
LEMMA DisplaySays ==
    ASSUME TypeOK, Shapes, NEW c \in Clients, NEW i \in Ids, doc[i] # None,
           NEW copy \in {"published", "reserialized", "other"},
           NEW l \in lists \cup {None}, NEW r \in Revs \cup {None},
           Display(c, doc[i], copy, l, r) \in {"attested", "uncredited"}
    PROVE  /\ copy = "published" /\ r = None /\ l \in lists
           /\ Usable(c, l) /\ Fresh(c, l) /\ InForceIn(l, i)
           /\ ~ExpiredLocally(c, doc[i])
           /\ Display(c, doc[i], copy, l, r) = "attested" => c \in Credited
<1> DEFINE e == EntryOf(c, doc[i], l)
<1>1. doc[i].id = i BY DEF TypeOK
<1>2. /\ copy = "published" /\ r = None /\ e # None /\ Fresh(c, l)
      /\ e.state \notin {"revoked", "superseded", "expired"}
      /\ ~ExpiredLocally(c, doc[i])
      /\ Display(c, doc[i], copy, l, r) = "attested" => c \in Credited
  BY DEF Display
<1>3. Usable(c, l) /\ e = l.entries[i] BY <1>1, <1>2 DEF EntryOf
<1>4. l \in lists BY <1>3 DEF Usable
<1>5. l.entries[i].state \in States BY <1>2, <1>3, <1>4 DEF TypeOK, Lists, Entries
<1>6. InForceIn(l, i) BY <1>2, <1>3, <1>5 DEF InForceIn, States
<1> QED BY <1>2, <1>3, <1>4, <1>6

LEMMA DisplayTyped ==
    ASSUME NEW c, NEW a, NEW copy, NEW l, NEW r
    PROVE  Display(c, a, copy, l, r) \in {"attested", "uncredited", "no-attestation",
               "revoked", "superseded", "expired", "status-unknown"}
BY DEF Display

LEMMA VerifyKept ==
    ASSUME IInv, NEW c \in Clients, NEW i \in Ids,
           NEW copy \in {"published", "reserialized", "other"},
           NEW l \in lists \cup {None}, NEW r \in Revs \cup {None},
           Verify(c, i, copy, l, r)
    PROVE  IInv'
<1> USE DEF IInv
<1> DEFINE D == Display(c, doc[i], copy, l, r)
           read == copy # "other" /\ r = None /\ Usable(c, l)
           told == l.entries[i] # None /\ l.entries[i].state # "active"
<1>1. /\ doc[i] # None /\ UNCHANGED <<now, doc, rev, revokedAt, lists>>
      /\ decision' = [decision EXCEPT ![c] = [att |-> i, copy |-> copy, display |-> D]]
      /\ last' = [last EXCEPT ![c] = IF c \in Retaining /\ read THEN l.epoch ELSE @]
      /\ over' = [over EXCEPT ![c] = IF read /\ told THEN @ \cup {i} ELSE @]
  BY DEF Verify
<1>2. D \in {"attested", "uncredited", "no-attestation",
             "revoked", "superseded", "expired", "status-unknown"}
  BY DisplayTyped
<1>3. D \in {"attested", "uncredited"} =>
        /\ copy = "published" /\ r = None /\ l \in lists
        /\ Usable(c, l) /\ Fresh(c, l) /\ InForceIn(l, i)
        /\ ~ExpiredLocally(c, doc[i])
        /\ D = "attested" => c \in Credited
  <2>0. TypeOK /\ Shapes /\ doc[i] # None BY <1>1
  <2> HIDE DEF IInv
  <2> QED BY <2>0, DisplaySays
<1>4. Usable(c, l) => l \in lists /\ l.epoch \in Nat /\ l.epoch >= last[c]
  BY DEF Usable, TypeOK, Lists
<1> HIDE DEF D
<1>5. \A d \in Clients : d # c => last'[d] = last[d] /\ over'[d] = over[d] /\ decision'[d] = decision[d]
  BY <1>1 DEF TypeOK, Shapes
<1>6. /\ last'[c] = (IF c \in Retaining /\ read THEN l.epoch ELSE last[c])
      /\ over'[c] = (IF read /\ told THEN over[c] \cup {i} ELSE over[c])
      /\ decision'[c] = [att |-> i, copy |-> copy, display |-> D]
  BY <1>1 DEF TypeOK, Shapes
<1>7. \A d \in Clients : last[d] \in Nat /\ last'[d] \in Nat /\ last'[d] >= last[d]
  BY <1>4, <1>5, <1>6 DEF TypeOK
<1>8. Shapes' BY <1>1, <1>2 DEF Shapes
<1>9. TypeOK'
  <2>1. last' \in [Clients -> Nat] BY <1>1, <1>4 DEF TypeOK
  <2>2. over' \in [Clients -> SUBSET Ids] BY <1>1 DEF TypeOK
  <2>3. \A d \in Clients :
          /\ decision'[d].att \in {j \in Ids : doc[j] # None} \cup {None}
          /\ decision'[d].display \in {"attested", "uncredited", "no-attestation",
                 "revoked", "superseded", "expired", "status-unknown"}
    BY <1>1, <1>2, <1>5, <1>6 DEF TypeOK
  <2> QED BY <1>1, <2>1, <2>2, <2>3 DEF TypeOK
<1>10. PastHolds' /\ Ordered' /\ SignedBefore'
  BY <1>1 DEF PastHolds, Ordered, SignedBefore, Pubs
<1>11. SeenOver'
  <2> SUFFICES ASSUME NEW d \in Retaining, NEW j \in over'[d]
               PROVE  \E m \in lists : Over(m, j) /\ m.epoch <= last'[d]
    BY <1>1 DEF SeenOver, Over
  <2>0. d \in Clients BY ConstantFacts
  <2>1. CASE j \in over[d]
    <3>1. PICK m \in lists : Over(m, j) /\ m.epoch <= last[d] BY <2>1 DEF SeenOver
    <3>2. m.epoch \in Nat BY DEF TypeOK, Lists
    <3> QED BY <1>7, <2>0, <3>1, <3>2
  <2>2. CASE j \notin over[d]
    <3>1. d = c /\ j = i /\ read /\ told BY <1>5, <1>6, <2>0, <2>2
    <3>2. l \in lists /\ Over(l, i) /\ last'[c] = l.epoch /\ l.epoch \in Nat
      BY <1>4, <1>6, <3>1 DEF Over
    <3> QED BY <3>1, <3>2
  <2> QED BY <2>1, <2>2
<1>12. LastSigned'
  <2>1. LastEpochSigned' = LastEpochSigned BY <1>1 DEF LastEpochSigned
  <2>2. \A m \in lists : m.epoch <= LastEpochSigned BY LastCovers DEF TypeOK, Shapes
  <2> QED BY <1>4, <1>5, <1>6, <2>1, <2>2 DEF LastSigned
<1>13. DecisionBacked'
  <2> SUFFICES ASSUME NEW d \in Clients, decision'[d].display \in {"attested", "uncredited"}
               PROVE  LET j == decision'[d].att IN
                      /\ j \in Ids /\ doc[j] # None
                      /\ decision'[d].copy = "published" /\ ~ExpiredLocally(d, doc[j])
                      /\ decision'[d].display = "attested" => d \in Credited
                      /\ \E m \in lists : InForceIn(m, j) /\ Fresh(d, m)
    BY <1>1 DEF DecisionBacked, ExpiredLocally, Fresh, Clock, InForceIn
  <2>1. CASE d = c BY <1>1, <1>3, <1>6, <2>1
  <2>2. CASE d # c BY <1>5, <2>2 DEF DecisionBacked
  <2> QED BY <2>1, <2>2
<1>14. OverIsOver'
  <2> SUFFICES ASSUME NEW d \in Retaining, decision'[d].display \in {"attested", "uncredited"}
               PROVE  decision'[d].att \notin over'[d]
    BY DEF OverIsOver
  <2>0. d \in Clients BY ConstantFacts
  <2>1. CASE d # c BY <1>5, <2>0, <2>1 DEF OverIsOver
  <2>2. CASE d = c
    <3>1. l \in lists /\ Usable(c, l) /\ InForceIn(l, i) BY <1>3, <1>6, <2>2
    <3>2. over'[c] = over[c] BY <1>6, <3>1 DEF InForceIn
    <3>3. i \notin over[c]
      <4> SUFFICES ASSUME i \in over[c] PROVE FALSE OBVIOUS
      <4>1. PICK m \in lists : Over(m, i) /\ m.epoch <= last[c] BY <2>2 DEF SeenOver
      <4>2. m.epoch \in Nat /\ last[c] \in Nat BY DEF TypeOK, Lists
      <4>3. m.epoch <= l.epoch BY <1>4, <3>1, <4>1, <4>2
      <4> QED BY <3>1, <4>1, <4>3 DEF Ordered
    <3> QED BY <1>6, <2>2, <3>2, <3>3
  <2> QED BY <2>1, <2>2
<1> QED BY <1>8, <1>9, <1>10, <1>11, <1>12, <1>13, <1>14

LEMMA AlwaysSafe == Spec => []IInv
<1>1. IInv /\ [Next]_vars => IInv'
  <2> SUFFICES ASSUME IInv, [Next]_vars PROVE IInv' OBVIOUS
  <2>1. ASSUME UNCHANGED vars PROVE IInv'
    <3> UNCHANGED <<now, doc, rev, revokedAt, lists, last, decision, over>> BY <2>1 DEF vars
    <3>1. TypeOK' BY DEF IInv, TypeOK
    <3>2. Shapes' BY DEF IInv, Shapes
    <3>3. PastHolds' /\ Ordered' /\ SeenOver'
      BY DEF IInv, PastHolds, Ordered, SeenOver, Pubs, Over, InForceIn
    <3>4. LastSigned' /\ SignedBefore' /\ OverIsOver'
      BY DEF IInv, LastSigned, LastEpochSigned, SignedBefore, OverIsOver, InForceIn
    <3>5. DecisionBacked'
      BY DEF IInv, DecisionBacked, ExpiredLocally, Fresh, Clock, InForceIn
    <3> QED BY <3>1, <3>2, <3>3, <3>4, <3>5 DEF IInv
  <2> QED BY <2>1, PublishKept, RevokeKept, SignKept, TickKept, VerifyKept DEF Next
<1> QED BY <1>1, InitSafe, PTL DEF Spec

-------------------------------------------------------------------------------
(* No replay of old lists makes a client rely on an attestation for longer    *)
(* than a list's life and the tolerance after its revocation was published    *)
(* and in force.                                                              *)
THEOREM RevocationInTime == Spec => []RevocationReaches
<1>1. IInv => RevocationReaches
  <2> SUFFICES ASSUME IInv, NEW c \in Clients, HighStakesOK(decision[c]),
                      rev[decision[c].att] # None
               PROVE  Clock(c) <= Later(revokedAt[decision[c].att], rev[decision[c].att].from)
                                  + NextUpdateIn + Skew
    BY DEF RevocationReaches
  <2> DEFINE i == decision[c].att
  <2>1. PICK l \in lists : InForceIn(l, i) /\ Fresh(c, l)
    BY DEF IInv, DecisionBacked, HighStakesOK
  <2>2. i \in Ids BY DEF IInv, DecisionBacked, HighStakesOK
  <2>3. l.issuedAt <= revokedAt[i] \/ l.issuedAt < rev[i].from BY <2>1, <2>2 DEF IInv, SignedBefore
  <2> TypeOK /\ Shapes BY DEF IInv
  <2> HIDE DEF i
  <2>4. l.issuedAt \in Nat /\ l.nextUpdate = l.issuedAt + NextUpdateIn
    BY DEF TypeOK, Shapes, Lists
  <2>5. revokedAt[i] \in Nat BY <2>2 DEF Shapes
  <2>6. rev[i] \in Revs BY <2>2 DEF Shapes, i
  <2>7. rev[i].from \in Nat BY <2>6, ConstantFacts
  <2>8. Clock(c) \in Int BY ConstantFacts DEF TypeOK, Clock
  <2>9. Clock(c) <= l.nextUpdate + Skew BY <2>1 DEF Fresh
  <2> QED BY <2>3, <2>4, <2>5, <2>7, <2>8, <2>9, ConstantFacts DEF Later, i
<1> QED BY <1>1, AlwaysSafe, PTL

(* What a client relies on is the published bytes, of an issuer it credits,   *)
(* and not past its expiry.                                                   *)
THEOREM RelianceExact == Spec => []RelianceIsExact
<1>1. IInv => RelianceIsExact
  <2> SUFFICES ASSUME IInv, NEW c \in Clients, HighStakesOK(decision[c])
               PROVE  /\ decision[c].copy = "published" /\ c \in Credited
                      /\ LET until == doc[decision[c].att].expiresAt IN
                         until # None => Clock(c) <= until + Skew
    BY DEF RelianceIsExact
  <2>1. /\ decision[c].att \in Ids /\ doc[decision[c].att] # None
        /\ decision[c].copy = "published" /\ c \in Credited
        /\ ~ExpiredLocally(c, doc[decision[c].att])
    BY DEF IInv, DecisionBacked, HighStakesOK
  <2>2. doc[decision[c].att] \in Atts BY <2>1 DEF IInv, Shapes
  <2>3. doc[decision[c].att].expiresAt \in Nat \cup {None} BY <2>2, ConstantFacts
  <2>4. Clock(c) \in Int BY ConstantFacts DEF IInv, TypeOK, Clock
  <2> QED BY <2>1, <2>3, <2>4, ConstantFacts DEF ExpiredLocally
<1> QED BY <1>1, AlwaysSafe, PTL

(* What a client that retains its epoch was told is over, it never shows as   *)
(* in force again, whatever list it is handed.                                *)
THEOREM OverForEver == Spec => []OverStaysOver
<1>1. IInv => OverStaysOver BY DEF IInv, OverStaysOver
<1> QED BY <1>1, AlwaysSafe, PTL

(* The auditor's last list is usable by every client whose clock is within    *)
(* the tolerance: replay protection does not lock it out.                     *)
THEOREM LastListUsable == Spec => []HonestListUsable
<1>1. IInv => HonestListUsable
  <2> SUFFICES ASSUME IInv, NEW c \in Clients, NEW l \in lists, l.epoch = LastEpochSigned
               PROVE  Usable(c, l)
    BY DEF HonestListUsable
  <2>1. l # None /\ l.issuedAt \in 0..now /\ now \in Nat BY ConstantFacts DEF IInv, TypeOK
  <2>2. l.issuedAt <= Clock(c) + Skew BY <2>1, ConstantFacts DEF Clock
  <2>3. l.epoch >= last[c] BY DEF IInv, LastSigned, TypeOK, Lists
  <2> QED BY <2>1, <2>2, <2>3 DEF Usable
<1> QED BY <1>1, AlwaysSafe, PTL
================================================================================
