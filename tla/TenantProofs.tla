----------------------------- MODULE TenantProofs -----------------------------
(* What Tenant promises for every set of documents, every quota and every     *)
(* number of crashes, disk errors and clock changes.                          *)
(*                                                                            *)
(* The properties about files rest on one strengthening, IInv: whatever a     *)
(* handler has still to write, and whatever is held, would not change an      *)
(* attestation, a revocation or a reply that is already in the tree (Safe).   *)
(* PastHolds, WithinQuota and QueueClear then follow on their own, each       *)
(* inductive beside IInv.  The last part is about Hosted: the hub implements  *)
(* the auditor Reliance assumes, so its clients have Reliance's guarantees.   *)
EXTENDS Hosted, TLAPS, FiniteSetTheorems, WellFoundedInduction

-------------------------------------------------------------------------------
(* The status list, for every set of published documents and every clock:     *)
(* what the epoch covers, and what an entry may say.                          *)

(* A finite set of naturals has the maximum FiniteSetsExt!Max chooses.  By    *)
(* the least size of a set without one: the library's induction theorems take *)
(* an operator as a parameter, so the well-founded minimum stands in.         *)
LEMMA MaxOfFinite ==
    ASSUME NEW S \in SUBSET Nat, S # {}, IsFiniteSet(S)
    PROVE  Max(S) \in S /\ \A y \in S : Max(S) >= y
<1> DEFINE NoMax(T) == \A x \in T : \E y \in T : ~(x >= y)
           Bad == {n \in Nat : \E T \in SUBSET Nat :
                     T # {} /\ IsFiniteSet(T) /\ Cardinality(T) = n /\ NoMax(T)}
<1>1. Bad = {}
  <2> SUFFICES ASSUME Bad # {} PROVE FALSE OBVIOUS
  <2>1. PICK n \in Bad : \A m \in Bad : ~ (<<m, n>> \in OpToRel(<, Nat))
    <3> HIDE DEF Bad
    <3>1. Bad \subseteq Nat BY DEF Bad
    <3> QED BY <3>1, WFMin, NatLessThanWellFounded
  <2>2. \A m \in Bad : ~(m < n)
    <3> SUFFICES ASSUME NEW m \in Bad, m < n PROVE FALSE OBVIOUS
    <3>1. m \in Nat /\ n \in Nat OBVIOUS
    <3>2. <<m, n>> \in OpToRel(<, Nat) BY <3>1 DEF OpToRel
    <3> QED BY <2>1, <3>2
  <2>3. PICK T \in SUBSET Nat :
           T # {} /\ IsFiniteSet(T) /\ Cardinality(T) = n /\ NoMax(T)
    BY <2>1
  <2>4. PICK x \in T : TRUE BY <2>3
  <2> DEFINE U == T \ {x}
  <2>5. IsFiniteSet(U) /\ Cardinality(U) = n - 1
    BY <2>3, <2>4, FS_RemoveElement
  <2>6. U # {}
    <3> SUFFICES ASSUME U = {} PROVE FALSE OBVIOUS
    <3>1. T = {x} BY <2>4
    <3> QED BY <2>3, <3>1
  <2>7. n - 1 \in Nat
    BY <2>5, FS_CardinalityType
  <2>8. ~NoMax(U)
    <3> SUFFICES ASSUME NoMax(U) PROVE FALSE OBVIOUS
    <3>1. U \in SUBSET Nat OBVIOUS
    <3>2. n - 1 \in Bad BY <2>5, <2>6, <2>7, <3>1
    <3>3. n \in Nat OBVIOUS
    <3> QED BY <2>2, <3>2, <3>3
  <2>9. PICK z \in U : \A y \in U : z >= y BY <2>8
  <2>10. \A y \in T : (IF z >= x THEN z ELSE x) >= y
    BY <2>4, <2>9
  <2> QED BY <2>3, <2>4, <2>9, <2>10
<1>2. ~NoMax(S)
  <2>1. Cardinality(S) \in Nat BY FS_CardinalityType
  <2> QED BY <1>1, <2>1
<1> QED BY <1>2 DEF Max

(* What Collect returns: typed documents of finitely many ids.                *)
Collected(pubs, ids, docs, revs, resps) ==
    /\ ids \subseteq Nat /\ IsFiniteSet(ids)
    /\ None \notin [doc : docs, rev : revs \cup {None}, resps : SUBSET resps]
    /\ \A r \in revs : r.epoch \in Nat
    /\ pubs \in [ids -> [doc : docs, rev : revs \cup {None}, resps : SUBSET resps]
                        \cup {None}]

LEMMA SupersededByType ==
    ASSUME NEW pubs, NEW ids, NEW docs, NEW revs, NEW resps,
           Collected(pubs, ids, docs, revs, resps), NEW i
    PROVE  SupersededBy(pubs, i) \in ids \cup {None}
<1>1. Superseders(pubs, i) \in SUBSET ids /\ ids \subseteq Nat /\ IsFiniteSet(ids)
  BY DEF Collected, Superseders
<1>2. IsFiniteSet(Superseders(pubs, i)) BY <1>1, FS_Subset
<1> QED BY <1>1, <1>2, MaxOfFinite DEF SupersededBy

LEMMA MinEpochCovers ==
    ASSUME NEW pubs, NEW ids, NEW docs, NEW revs, NEW resps,
           Collected(pubs, ids, docs, revs, resps), NEW prev \in Nat
    PROVE  /\ MinEpoch(pubs, prev) \in Nat
           /\ MinEpoch(pubs, prev) >= prev
           /\ \A i \in ids : pubs[i] # None /\ pubs[i].rev # None
                 => MinEpoch(pubs, prev) >= pubs[i].rev.epoch
<1> DEFINE R == {j \in DOMAIN pubs : IsPublished(pubs, j) /\ pubs[j].rev # None}
           E == {pubs[i].rev.epoch : i \in R}
           f == [i \in R |-> pubs[i].rev.epoch]
<1>1. R \in SUBSET ids /\ IsFiniteSet(R) BY FS_Subset DEF Collected
<1>2. E \in SUBSET Nat BY DEF Collected, IsPublished
<1>3. IsFiniteSet(E)
  <2>1. f \in Surjection(R, E) BY DEF Surjection
  <2> QED BY <1>1, <2>1, FS_Surjection
<1> DEFINE A == {0, prev} \cup E
<1>4. IsFiniteSet(A)
  <2>1. IsFiniteSet(E \cup {0}) BY <1>3, FS_AddElement
  <2>2. IsFiniteSet((E \cup {0}) \cup {prev}) BY <2>1, FS_AddElement
  <2>3. A = (E \cup {0}) \cup {prev} OBVIOUS
  <2> QED BY <2>2, <2>3
<1>5. A \in SUBSET Nat /\ A # {} BY <1>2
<1>6. MinEpoch(pubs, prev) = Max(A) BY DEF MinEpoch
<1>7. Max(A) \in A /\ \A y \in A : Max(A) >= y
  <2> HIDE DEF A
  <2> QED BY <1>4, <1>5, MaxOfFinite
<1>8. \A i \in ids : pubs[i] # None /\ pubs[i].rev # None => pubs[i].rev.epoch \in A
  BY DEF Collected, IsPublished
<1>9. prev \in A /\ A \subseteq Nat BY <1>5
<1> HIDE DEF A
<1> QED BY <1>6, <1>7, <1>8, <1>9

(* The epoch signed is above the replaced list's and above the epoch of every *)
(* stored revocation, wherever the clock stands (ResignStatus, BuildStatus).  *)
THEOREM EpochCovers ==
    ASSUME NEW pubs, NEW ids, NEW docs, NEW revs, NEW resps,
           Collected(pubs, ids, docs, revs, resps), NEW prev \in Nat, NEW t \in Nat
    PROVE  LET list == BuildStatus(pubs, t, MinEpoch(pubs, prev)) IN
           /\ list.epoch \in Nat
           /\ list.epoch > prev
           /\ \A i \in ids : pubs[i] # None /\ pubs[i].rev # None
                 => list.epoch > pubs[i].rev.epoch
<1> DEFINE m == MinEpoch(pubs, prev)
<1>1. /\ m \in Nat /\ m >= prev
      /\ \A i \in ids : pubs[i] # None /\ pubs[i].rev # None => m >= pubs[i].rev.epoch
  BY MinEpochCovers
<1>2. \A i \in ids : pubs[i] # None /\ pubs[i].rev # None => pubs[i].rev.epoch \in Nat
  BY DEF Collected
<1>3. BuildStatus(pubs, t, m).epoch = Epoch(t, m) BY DEF BuildStatus
<1> HIDE DEF m
<1>4. Epoch(t, m) \in Nat /\ Epoch(t, m) > m BY <1>1 DEF Epoch
<1>5. \A i \in ids : pubs[i] # None /\ pubs[i].rev # None
         => Epoch(t, m) > pubs[i].rev.epoch
  BY <1>1, <1>2, <1>4
<1> QED BY <1>1, <1>3, <1>4, <1>5 DEF m

(* State and references agree, which every relying client checks (ParseStatus,*)
(* profile 5.2): revoked iff a revocation, superseded iff a successor.        *)
THEOREM ReferencesAgree ==
    ASSUME NEW pubs, NEW ids, NEW docs, NEW revs, NEW resps,
           Collected(pubs, ids, docs, revs, resps), None \notin ids,
           NEW t \in Nat, NEW i \in ids, pubs[i] # None
    PROVE  LET e == Entry(pubs, i, t) IN
           /\ e \in [ doc : docs, state : States, by : ids \cup {None},
                      rev : revs \cup {None}, resps : SUBSET resps ]
           /\ (e.state = "revoked") <=> (e.rev # None)
           /\ (e.state = "superseded") <=> (e.by # None)
           /\ e.state = "revoked" <=> InForce(pubs[i].rev, t)
<1>1. pubs[i] \in [doc : docs, rev : revs \cup {None}, resps : SUBSET resps]
  BY DEF Collected
<1>2. SupersededBy(pubs, i) \in ids \cup {None} BY SupersededByType
<1>3. State(pubs, i, t) \in States BY DEF State, States
<1> QED BY <1>1, <1>2, <1>3 DEF Entry, State, InForce

-------------------------------------------------------------------------------
Immutable == {AttPath(i) : i \in Ids} \cup {RevPath(i) : i \in Ids}
             \cup {RespPath(i, r) : i \in Ids, r \in RespIds}

(* Writing fs changes no immutable document of the tree.                      *)
Safe(fs) == \A p \in Immutable : fs[p] # None => tree[p] \in {None, fs[p]}

(* A held file carries one attestation, and no other immutable document.      *)
HeldSafe ==
    \A i \in Ids : Held(i) =>
        /\ Safe(held[i].files)
        /\ \A p \in Immutable : held[i].files[p] # None => p = AttPath(i)

(* A handler that is not a release writes no embargoed attestation, and none  *)
(* whose id is held.                                                          *)
WriterSafe ==
    op # "resignall" =>
        \A i \in Ids : todo[AttPath(i)] # None =>
            ~Held(i) /\ ~Embargoed(todo[AttPath(i)])

(* A release in progress: what it has to write is what it has not yet written *)
(* of a held file whose time has come.                                        *)
ReleaseSafe ==
    op = "resignall" /\ pc = "write" =>
        /\ cur \in Ids /\ Held(cur)
        /\ steps = 0 => now >= held[cur].releaseAt
        /\ \A p \in Paths : todo[p] \in {None, held[cur].files[p]}
        /\ \A p \in Written(held[cur].files) :
              todo[p] = held[cur].files[p] \/ tree[p] = held[cur].files[p]

ControlSafe ==
    /\ pc # "write" => todo = NoFiles /\ cur = None
    /\ pc = "next" => op = "resignall"
    /\ \A i \in pending : Held(i) /\ i # cur

IInv == /\ TypeOK
        /\ ListMatchesTree
        /\ Safe(todo)
        /\ HeldSafe
        /\ WriterSafe
        /\ ReleaseSafe
        /\ ControlSafe

-------------------------------------------------------------------------------
(* Paths of different kinds differ, and so do those of different documents.   *)
LEMMA PathsDiffer ==
    /\ ManifestPath \in Paths
    /\ \A i \in Ids :
          /\ AttPath(i) \in Paths /\ RevPath(i) \in Paths
          /\ AttPath(i) # ManifestPath /\ RevPath(i) # ManifestPath
          /\ \A j \in Ids : /\ AttPath(i) # RevPath(j)
                            /\ AttPath(i) = AttPath(j) => i = j
                            /\ RevPath(i) = RevPath(j) => i = j
          /\ \A o \in OrderIds : AttPath(i) # OrderPath(o) /\ RevPath(i) # OrderPath(o)
          /\ \A n \in DocNames : AttPath(i) # DocPath(n) /\ RevPath(i) # DocPath(n)
          /\ \A r \in RespIds :
                /\ RespPath(i, r) \in Paths /\ RespPath(i, r) # ManifestPath
                /\ \A j \in Ids : /\ RespPath(i, r) # AttPath(j)
                                  /\ RespPath(i, r) # RevPath(j)
                                  /\ \A q \in RespIds :
                                        RespPath(i, r) = RespPath(j, q) => i = j /\ r = q
                /\ \A o \in OrderIds : RespPath(i, r) # OrderPath(o)
                /\ \A n \in DocNames : RespPath(i, r) # DocPath(n)
    /\ \A o \in OrderIds : OrderPath(o) \in Paths /\ OrderPath(o) # ManifestPath
    /\ \A n \in DocNames : DocPath(n) \in Paths /\ DocPath(n) # ManifestPath
BY DEF Paths, AttPath, RevPath, RespPath, OrderPath, DocPath, ManifestPath

LEMMA ImmutablePaths == Immutable \subseteq Paths
BY PathsDiffer DEF Immutable

(* The documents a request offers are mutable ones.                           *)
LEMMA DocsOffered ==
    ASSUME NEW pins \in [DocNames -> Versions \cup {None}],
           NEW offered \in SUBSET DocNames
    PROVE  /\ Docs(pins, offered) \in FileMaps
           /\ \A p \in Immutable \cup {ManifestPath} : Docs(pins, offered)[p] = None
<1> DEFINE D == Docs(pins, offered)
<1>1. D \in [Paths -> Contents \cup {None}]
  <2> SUFFICES ASSUME NEW p \in Paths PROVE D[p] \in Contents \cup {None}
    BY DEF Docs
  <2>1. CASE \E n \in offered : p = DocPath(n)
    <3>1. (CHOOSE n \in offered : p = DocPath(n)) \in DocNames BY <2>1
    <3> QED BY <2>1, <3>1 DEF Docs, Contents
  <2>2. CASE ~ \E n \in offered : p = DocPath(n)
    BY <2>2 DEF Docs
  <2> QED BY <2>1, <2>2
<1>2. \A p \in Immutable \cup {ManifestPath} : D[p] = None
  BY PathsDiffer, ImmutablePaths DEF Docs, Immutable
<1>3. Kinded(D)
  BY <1>2 DEF Kinded, Immutable
<1> QED BY <1>1, <1>2, <1>3 DEF FileMaps

(* Publishing writes one immutable document, the attestation.                 *)
LEMMA PublishFilesType ==
    ASSUME NEW a \in Atts, NEW offered \in SUBSET DocNames
    PROVE  /\ PublishFiles(a, offered) \in FileMaps
           /\ \A p \in Immutable :
                 PublishFiles(a, offered)[p] = IF p = AttPath(a.id) THEN a ELSE None
<1> DEFINE D == Docs(a.pins, offered)
           W == IF a.order = None THEN D ELSE [D EXCEPT ![OrderPath(a.order.id)] = a.order]
           P == PublishFiles(a, offered)
<1>1. /\ a.pins \in [DocNames -> Versions \cup {None}] /\ a.id \in Ids
      /\ a.order # None => a.order \in Orders /\ a.order.id \in OrderIds
  BY TenantAssumption
<1>2. /\ D \in [Paths -> Contents \cup {None}]
      /\ \A p \in Immutable \cup {ManifestPath} : D[p] = None
  BY <1>1, DocsOffered DEF FileMaps
<1> HIDE DEF D
<1>3. /\ W \in [Paths -> Contents \cup {None}]
      /\ \A p \in Immutable \cup {ManifestPath} : W[p] = None
  <2>1. CASE a.order = None BY <1>2, <2>1
  <2>2. CASE a.order # None
    <3>1. \A p \in Immutable \cup {ManifestPath} : p # OrderPath(a.order.id) /\ p \in Paths
      BY <1>1, <2>2, PathsDiffer DEF Immutable
    <3>2. a.order \in Contents BY <1>1, <2>2 DEF Contents
    <3> QED BY <1>2, <2>2, <3>1, <3>2
  <2> QED BY <2>1, <2>2
<1>4. P = [W EXCEPT ![AttPath(a.id)] = a] BY DEF PublishFiles, D
<1> HIDE DEF W, P
<1>5. P \in [Paths -> Contents \cup {None}]
  BY <1>3, <1>4 DEF Contents
<1>6. \A p \in Immutable \cup {ManifestPath} : P[p] = IF p = AttPath(a.id) THEN a ELSE None
  BY <1>1, <1>3, <1>4, PathsDiffer, ImmutablePaths
<1>7. Kinded(P)
  BY <1>1, <1>6, PathsDiffer DEF Kinded, Immutable
<1> QED BY <1>5, <1>6, <1>7 DEF FileMaps, P

(* What Collect reads from a typed tree.                                      *)
LEMMA CollectType ==
    ASSUME TypeOK
    PROVE  Collected(Collect, Ids, Atts, Revs, RespIds)
<1>1. \A i \in Ids : /\ tree[AttPath(i)] \in Atts \cup {None}
                    /\ tree[RevPath(i)] \in Revs \cup {None}
  BY DEF TypeOK, FileMaps, Kinded
<1>2. \A i \in Ids : Responded(i) \in SUBSET RespIds BY DEF Responded
<1>3. \A r \in Revs : r.epoch \in Nat BY TenantAssumption
<1> QED BY <1>1, <1>2, <1>3, TenantAssumption DEF Collected, Collect, Published

(* The list a handler signs is well-formed, advances the epoch past the one   *)
(* it replaces and past every revocation in the tree, and lists the tree.     *)
LEMMA NewStatusFacts ==
    ASSUME TypeOK
    PROVE  /\ NewStatus \in Lists
           /\ NewStatus.epoch > PrevEpoch
           /\ \A i \in Ids : Published(i) /\ tree[RevPath(i)] # None
                 => NewStatus.epoch > tree[RevPath(i)].epoch
           /\ \A i \in Ids : NewStatus.entries[i] # None =>
                 /\ tree[AttPath(i)] = NewStatus.entries[i].doc
                 /\ NewStatus.entries[i].rev # None
                       => tree[RevPath(i)] = NewStatus.entries[i].rev
                 /\ NewStatus.entries[i].resps = Responded(i)
<1> DEFINE C == Collect
           m == MinEpoch(C, PrevEpoch)
<1>1. Collected(C, Ids, Atts, Revs, RespIds) BY CollectType
<1>2. PrevEpoch \in Nat /\ now \in Nat BY DEF PrevEpoch, TypeOK, Lists
<1>3. /\ NewStatus.epoch \in Nat /\ NewStatus.epoch > PrevEpoch
      /\ \A i \in Ids : C[i] # None /\ C[i].rev # None
            => NewStatus.epoch > C[i].rev.epoch
  BY <1>1, <1>2, EpochCovers DEF NewStatus
<1>4. ASSUME NEW i \in Ids
      PROVE  /\ tree[AttPath(i)] # None => C[i] # None
             /\ C[i] # None => /\ C[i].doc = tree[AttPath(i)]
                               /\ C[i].rev = tree[RevPath(i)]
                               /\ C[i].resps = Responded(i)
  <2>1. CASE tree[AttPath(i)] # None
    <3>1. C[i] = [doc |-> tree[AttPath(i)], rev |-> tree[RevPath(i)], resps |-> Responded(i)]
      BY <2>1 DEF Collect, Published
    <3>2. /\ tree[AttPath(i)] \in Atts /\ tree[RevPath(i)] \in Revs \cup {None}
          /\ Responded(i) \in SUBSET RespIds
      BY <2>1 DEF TypeOK, FileMaps, Kinded, Responded
    <3>3. C[i] \in [doc : Atts, rev : Revs \cup {None}, resps : SUBSET RespIds]
      BY <3>1, <3>2
    <3>4. C[i] # None BY <3>3, TenantAssumption
    <3> QED BY <3>1, <3>4
  <2>2. CASE tree[AttPath(i)] = None
    BY <2>2 DEF Collect, Published
  <2> QED BY <2>1, <2>2
<1> HIDE DEF C
<1>5. \A i \in Ids : C[i] # None =>
         /\ Entry(C, i, now) \in Listings
         /\ Entry(C, i, now).rev # None => Entry(C, i, now).rev = C[i].rev
  <2> SUFFICES ASSUME NEW i \in Ids, C[i] # None
               PROVE  /\ Entry(C, i, now) \in Listings
                      /\ Entry(C, i, now).rev # None => Entry(C, i, now).rev = C[i].rev
    OBVIOUS
  <2>1. None \notin Ids BY TenantAssumption
  <2>2. Entry(C, i, now) \in Listings
    BY <1>1, <1>2, <2>1, ReferencesAgree DEF Listings
  <2>3. Entry(C, i, now).rev # None => Entry(C, i, now).rev = C[i].rev BY DEF Entry
  <2> QED BY <2>2, <2>3
<1>6. DOMAIN C = Ids BY <1>1 DEF Collected
<1>7. NewStatus = [ epoch |-> NewStatus.epoch, issuedAt |-> now,
                    nextUpdate |-> now + NextUpdateIn,
                    entries |-> [i \in Ids |-> IF C[i] # None THEN Entry(C, i, now) ELSE None] ]
  BY <1>6 DEF NewStatus, BuildStatus, IsPublished, C
<1>8. NextUpdateIn \in Nat BY StatusListAssumption
<1>9. NewStatus \in Lists BY <1>2, <1>3, <1>5, <1>7, <1>8 DEF Lists
<1>10. \A i \in Ids : C[i] # None =>
          /\ Entry(C, i, now).doc = C[i].doc
          /\ Entry(C, i, now).resps = C[i].resps
  BY DEF Entry
<1>11. \A i \in Ids : NewStatus.entries[i] = IF C[i] # None THEN Entry(C, i, now) ELSE None
  BY <1>7
<1>12. \A i \in Ids : Published(i) /\ tree[RevPath(i)] # None
          => NewStatus.epoch > tree[RevPath(i)].epoch
  BY <1>3, <1>4 DEF Published
<1>13. ASSUME NEW i \in Ids, NewStatus.entries[i] # None
       PROVE  /\ tree[AttPath(i)] = NewStatus.entries[i].doc
              /\ NewStatus.entries[i].rev # None
                    => tree[RevPath(i)] = NewStatus.entries[i].rev
              /\ NewStatus.entries[i].resps = Responded(i)
  <2>1. C[i] # None /\ NewStatus.entries[i] = Entry(C, i, now) BY <1>11, <1>13
  <2> QED BY <2>1, <1>4, <1>5, <1>10
<1> QED BY <1>3, <1>9, <1>12, <1>13

-------------------------------------------------------------------------------
(* What the handlers plan to write.                                           *)

LEMMA NoFilesType == NoFiles \in FileMaps /\ \A p \in Paths : NoFiles[p] = None
BY PathsDiffer DEF NoFiles, FileMaps, Kinded

LEMMA WriteOne ==
    ASSUME NEW fs \in FileMaps, NEW gs \in FileMaps, NEW p \in Paths
    PROVE  [fs EXCEPT ![p] = gs[p]] \in FileMaps /\ [fs EXCEPT ![p] = None] \in FileMaps
<1>1. /\ [fs EXCEPT ![p] = gs[p]] \in [Paths -> Contents \cup {None}]
      /\ [fs EXCEPT ![p] = None] \in [Paths -> Contents \cup {None}]
  BY DEF FileMaps
<1>2. Kinded([fs EXCEPT ![p] = gs[p]]) /\ Kinded([fs EXCEPT ![p] = None])
  BY PathsDiffer DEF FileMaps, Kinded
<1> QED BY <1>1, <1>2 DEF FileMaps

LEMMA RegisterFilesType ==
    ASSUME NEW m \in Manifests, NEW offered \in SUBSET DocNames
    PROVE  LET fs == [Docs(m.pins, offered) EXCEPT ![ManifestPath] = m] IN
           fs \in FileMaps /\ \A p \in Immutable : fs[p] = None
<1> DEFINE D == Docs(m.pins, offered)
           fs == [D EXCEPT ![ManifestPath] = m]
<1>1. m.pins \in [DocNames -> Versions \cup {None}] BY TenantAssumption
<1>2. D \in FileMaps /\ \A p \in Immutable : D[p] = None BY <1>1, DocsOffered
<1> HIDE DEF D
<1>3. m \in Contents BY DEF Contents
<1>4. fs \in [Paths -> Contents \cup {None}] BY <1>2, <1>3 DEF FileMaps
<1>5. Kinded(fs) BY <1>2, PathsDiffer DEF FileMaps, Kinded
<1>6. \A p \in Immutable : fs[p] = None
  BY <1>2, PathsDiffer, ImmutablePaths DEF FileMaps, Immutable
<1> QED BY <1>4, <1>5, <1>6 DEF FileMaps, D

LEMMA RevokeFilesType ==
    ASSUME NEW r \in Revs
    PROVE  /\ Only(RevPath(r.att), r) \in FileMaps
           /\ \A p \in Paths : Only(RevPath(r.att), r)[p]
                                = IF p = RevPath(r.att) THEN r ELSE None
<1>1. r.att \in Ids /\ r \in Contents BY TenantAssumption DEF Contents
<1>2. RevPath(r.att) \in Paths BY <1>1, PathsDiffer
<1>3. \A p \in Paths : Only(RevPath(r.att), r)[p] = IF p = RevPath(r.att) THEN r ELSE None
  BY <1>2, NoFilesType DEF Only, NoFiles
<1>4. Only(RevPath(r.att), r) \in [Paths -> Contents \cup {None}]
  BY <1>1, <1>2 DEF Only, NoFiles
<1>5. Kinded(Only(RevPath(r.att), r)) BY <1>1, <1>3, PathsDiffer DEF Kinded
<1> QED BY <1>3, <1>4, <1>5 DEF FileMaps

LEMMA RespondFilesType ==
    ASSUME NEW i \in Ids, NEW r \in RespIds, NEW a \in Atts
    PROVE  LET c == [rid |-> r, of |-> a] IN
           /\ Only(RespPath(i, r), c) \in FileMaps
           /\ \A p \in Paths : Only(RespPath(i, r), c)[p]
                                = IF p = RespPath(i, r) THEN c ELSE None
<1> DEFINE c == [rid |-> r, of |-> a]
<1>1. c \in Contents BY DEF Contents, Responses
<1> HIDE DEF c
<1>2. RespPath(i, r) \in Paths BY PathsDiffer
<1>3. \A p \in Paths : Only(RespPath(i, r), c)[p] = IF p = RespPath(i, r) THEN c ELSE None
  BY <1>2 DEF Only, NoFiles
<1>4. Only(RespPath(i, r), c) \in [Paths -> Contents \cup {None}]
  BY <1>1, <1>2 DEF Only, NoFiles
<1>5. Kinded(Only(RespPath(i, r), c)) BY <1>3, PathsDiffer DEF Kinded
<1> QED BY <1>3, <1>4, <1>5 DEF FileMaps, c

-------------------------------------------------------------------------------
(* Type correctness: every step keeps every variable in its type.             *)
LEMMA TypeStep == TypeOK /\ ControlSafe /\ [Next]_vars => TypeOK'
<1> SUFFICES ASSUME TypeOK, ControlSafe, [Next]_vars PROVE TypeOK'
  OBVIOUS
<1> USE DEF TypeOK
<1>1. ASSUME NEW m \in Manifests, NEW d \in SUBSET DocNames, Register(m, d) PROVE TypeOK'
  BY <1>1, RegisterFilesType DEF Register, Lock, files, env
<1>2. ASSUME NEW a \in Atts, NEW d \in SUBSET DocNames, Publish(a, d) PROVE TypeOK'
  <2>1. a.order \in Orders \cup {None} BY TenantAssumption
  <2> QED BY <1>2, <2>1, PublishFilesType DEF Publish, Lock, files, env
<1>3. ASSUME NEW a \in Atts, NEW d \in SUBSET DocNames, Hold(a, d) PROVE TypeOK'
  <2>1. a.order \in Orders /\ a.order.embargo \in Nat /\ a.id \in Ids
    BY <1>3, TenantAssumption DEF Hold, Embargoed
  <2>2. [releaseAt |-> ReleaseTime(a.order), files |-> PublishFiles(a, d)] \in HeldEntries
    BY <2>1, PublishFilesType DEF HeldEntries, ReleaseTime
  <2> QED BY <1>3, <2>1, <2>2 DEF Hold, env
<1>4. ASSUME NEW r \in Revs, Revoke(r) PROVE TypeOK'
  BY <1>4, RevokeFilesType DEF Revoke, Lock, files, env
<1>5. ASSUME NEW i \in Ids, NEW r \in RespIds, Respond(i, r) PROVE TypeOK'
  <2>1. tree[AttPath(i)] \in Atts
    BY <1>5 DEF Respond, Published, FileMaps, Kinded
  <2> QED BY <1>5, <2>1, RespondFilesType DEF Respond, Lock, files, env
<1>6. ASSUME NEW o \in OrderIds, PostOrder(o) \/ Decline(o) PROVE TypeOK'
  BY <1>6 DEF PostOrder, Decline, handler, env
<1>7. ASSUME NEW p \in Paths, WriteFile(p) PROVE TypeOK'
  BY <1>7, WriteOne DEF WriteFile, env
<1>8. CASE Wrote
  BY <1>8 DEF Wrote, env
<1>9. CASE Fulfil
  BY <1>9, NoFilesType DEF Fulfil, Unlock, env
<1>10. CASE Sign
  BY <1>10, NoFilesType, NewStatusFacts DEF Sign, Unlock, env
<1>11. CASE CannotSign
  BY <1>11, NoFilesType DEF CannotSign, Unlock, files, env
<1>12. ASSUME NEW i \in Ids, Release(i) PROVE TypeOK'
  <2>1. held[i].files \in FileMaps
    BY <1>12 DEF Release, ControlSafe, Held, HeldEntries
  <2> QED BY <1>12, <2>1 DEF Release, files, env
<1>13. CASE Released
  BY <1>13 DEF Released, files, env
<1>14. CASE ResignAll
  BY <1>14 DEF ResignAll, files, env
<1>15. CASE DiskError
  BY <1>15, NoFilesType DEF DiskError, Unlock, files
<1>16. CASE Crash
  BY <1>16, NoFilesType DEF Crash, Unlock, files
<1>17. CASE Tick \/ StepBack
  <2>1. now' \in Nat /\ steps' \in Nat
    BY <1>17 DEF Tick, StepBack
  <2>2. due' \in BOOLEAN /\ UNCHANGED <<files, handler, crashes, faults>>
    BY <1>17 DEF Tick, StepBack
  <2> QED BY <2>1, <2>2 DEF files, handler
<1>18. CASE Disable
  BY <1>18 DEF Disable, handler, env
<1>19. CASE UNCHANGED vars
  BY <1>19 DEF vars
<1> QED
  BY <1>1, <1>2, <1>3, <1>4, <1>5, <1>6, <1>7, <1>8, <1>9, <1>10, <1>11, <1>12,
     <1>13, <1>14, <1>15, <1>16, <1>17, <1>18, <1>19
  DEF Next, Requests, Handlers

-------------------------------------------------------------------------------
(* The strengthening is inductive, action by action.                          *)

(* What a start action sets up: files that are safe to write, and a handler   *)
(* that is not a release.                                                     *)
LEMMA StartStep ==
    ASSUME IInv, NEW fs \in FileMaps, todo' = fs,
           pc = "idle", pc' = "write", op' # "resignall",
           UNCHANGED <<files, pending, cur>>,
           \A p \in Immutable : fs[p] # None => tree[p] = None,
           \A i \in Ids : fs[AttPath(i)] # None =>
               ~Held(i) /\ ~Embargoed(fs[AttPath(i)])
    PROVE  /\ ListMatchesTree' /\ Safe(todo)' /\ HeldSafe' /\ WriterSafe'
           /\ ReleaseSafe' /\ ControlSafe'
<1> USE DEF IInv, files
<1>1. ListMatchesTree'
  BY DEF ListMatchesTree, Listed, Responded
<1>2. Safe(todo)' BY DEF Safe
<1>3. HeldSafe' BY DEF HeldSafe, Safe, Held
<1>4. WriterSafe' BY DEF WriterSafe, Held, Embargoed
<1>5. ReleaseSafe' BY DEF ReleaseSafe
<1>6. ControlSafe' BY DEF ControlSafe, Held
<1> QED BY <1>1, <1>2, <1>3, <1>4, <1>5, <1>6

(* A step that leaves files, plan and lock holder alone keeps everything.     *)
LEMMA FrameStep ==
    ASSUME IInv, UNCHANGED <<tree, held, status, handler>>,
           now' \in Nat, steps' = 0 => steps = 0 /\ now' >= now
    PROVE  /\ ListMatchesTree' /\ Safe(todo)' /\ HeldSafe' /\ WriterSafe'
           /\ ReleaseSafe' /\ ControlSafe'
<1> USE DEF IInv, handler
<1>1. ListMatchesTree'
  BY DEF ListMatchesTree, Listed, Responded
<1>2. Safe(todo)' BY DEF Safe
<1>3. HeldSafe' BY DEF HeldSafe, Safe, Held
<1>4. WriterSafe' BY DEF WriterSafe, Held, Embargoed
<1>5. ReleaseSafe'
  <2> SUFFICES ASSUME op = "resignall", pc = "write" PROVE ReleaseSafe'
    BY DEF ReleaseSafe
  <2>1. held[cur] \in HeldEntries /\ now \in Nat BY DEF ReleaseSafe, Held, TypeOK
  <2>2. steps' = 0 => now' >= held[cur].releaseAt BY <2>1 DEF ReleaseSafe, HeldEntries
  <2> QED BY <2>2 DEF ReleaseSafe, Held, Written
<1>6. ControlSafe' BY DEF ControlSafe, Held
<1> QED BY <1>1, <1>2, <1>3, <1>4, <1>5, <1>6

(* A handler that stops, for whatever reason, leaves the files as they are.   *)
LEMMA StopStep ==
    ASSUME IInv, Unlock, UNCHANGED <<tree, held>>, ListMatchesTree'
    PROVE  /\ Safe(todo)' /\ HeldSafe' /\ WriterSafe' /\ ReleaseSafe' /\ ControlSafe'
<1> USE DEF IInv, Unlock
<1>1. \A p \in Paths : todo'[p] = None BY NoFilesType
<1>2. Safe(todo)' BY <1>1, ImmutablePaths DEF Safe
<1>3. HeldSafe' BY DEF HeldSafe, Safe, Held
<1>4. WriterSafe' BY <1>1, PathsDiffer DEF WriterSafe
<1>5. ReleaseSafe' BY DEF ReleaseSafe
<1>6. ControlSafe' BY DEF ControlSafe
<1> QED BY <1>2, <1>3, <1>4, <1>5, <1>6

(* One file written: no immutable document of the tree changes, and what the  *)
(* tree held before for them stays.                                           *)
LEMMA WriteStep ==
    ASSUME IInv, NEW q \in Paths, WriteFile(q)
    PROVE  /\ \A p \in Immutable : tree[p] # None => tree'[p] = tree[p]
           /\ ListMatchesTree' /\ Safe(todo)' /\ HeldSafe' /\ WriterSafe'
           /\ ReleaseSafe' /\ ControlSafe'
<1> USE DEF IInv
<1>1. /\ tree' = [tree EXCEPT ![q] = todo[q]] /\ todo' = [todo EXCEPT ![q] = None]
      /\ todo[q] # None /\ pc = "write"
      /\ UNCHANGED <<held, status, op, pc, pending, cur, now, steps>>
  BY DEF WriteFile, env
<1>2. /\ \A p \in Paths : /\ tree'[p] = IF p = q THEN todo[q] ELSE tree[p]
                          /\ todo'[p] = IF p = q THEN None ELSE todo[p]
  BY <1>1 DEF TypeOK, FileMaps
<1>3. \A p \in Immutable : tree[p] # None => tree'[p] = tree[p]
  BY <1>1, <1>2, ImmutablePaths DEF Safe
<1>4. ListMatchesTree'
  <2>1. \A i \in Ids : /\ AttPath(i) \in Immutable /\ RevPath(i) \in Immutable
                      /\ \A r \in RespIds : RespPath(i, r) \in Immutable
    BY DEF Immutable
  <2> SUFFICES ASSUME NEW i \in Ids, Listed(i)
               PROVE  /\ tree'[AttPath(i)] = status.entries[i].doc
                      /\ status.entries[i].rev # None => tree'[RevPath(i)] = status.entries[i].rev
                      /\ status.entries[i].resps \subseteq Responded(i)'
    BY <1>1 DEF ListMatchesTree, Listed
  <2>2. status.entries[i] \in Listings BY DEF Listed, TypeOK, Lists
  <2>3. status.entries[i].doc # None BY <2>2, TenantAssumption DEF Listings
  <2>4. Responded(i) \subseteq Responded(i)' BY <1>3, <2>1 DEF Responded
  <2> QED BY <1>3, <2>1, <2>3, <2>4 DEF ListMatchesTree
<1>5. Safe(todo)' BY <1>2, <1>3, ImmutablePaths DEF Safe
<1>6. HeldSafe'
  <2> SUFFICES ASSUME NEW i \in Ids, Held(i), NEW p \in Immutable, held[i].files[p] # None
               PROVE  p = AttPath(i) /\ tree'[p] \in {None, held[i].files[p]}
    BY <1>1 DEF HeldSafe, Held, Safe
  <2>1. p = AttPath(i) /\ tree[p] \in {None, held[i].files[p]}
    BY DEF HeldSafe, Safe
  <2>2. CASE p # q BY <1>2, <2>1, <2>2, ImmutablePaths
  <2>3. CASE p = q /\ op # "resignall"
    BY <1>1, <2>1, <2>3 DEF WriterSafe
  <2>4. CASE p = q /\ op = "resignall"
    <3>1. cur \in Ids /\ Held(cur) /\ todo[q] = held[cur].files[q]
      BY <1>1, <2>4 DEF ReleaseSafe
    <3>2. q = AttPath(cur) BY <1>1, <2>4, <3>1 DEF HeldSafe
    <3>3. cur = i BY <2>1, <2>4, <3>1, <3>2, PathsDiffer
    <3> QED BY <1>2, <2>1, <2>4, <3>1, <3>3
  <2> QED BY <2>2, <2>3, <2>4
<1>7. WriterSafe'
  <2>1. \A i \in Ids : todo'[AttPath(i)] # None => todo'[AttPath(i)] = todo[AttPath(i)]
    BY <1>2, PathsDiffer
  <2> QED BY <1>1, <2>1 DEF WriterSafe, Held, Embargoed
<1>8. ReleaseSafe'
  <2> SUFFICES ASSUME op = "resignall" PROVE ReleaseSafe'
    BY <1>1 DEF ReleaseSafe
  <2>1. /\ cur \in Ids /\ Held(cur) /\ (steps = 0 => now >= held[cur].releaseAt)
        /\ \A p \in Paths : todo[p] \in {None, held[cur].files[p]}
        /\ \A p \in Written(held[cur].files) :
              todo[p] = held[cur].files[p] \/ tree[p] = held[cur].files[p]
    BY <1>1 DEF ReleaseSafe
  <2>2. \A p \in Paths : todo'[p] \in {None, held[cur].files[p]} BY <1>2, <2>1
  <2>3. \A p \in Written(held[cur].files) :
           todo'[p] = held[cur].files[p] \/ tree'[p] = held[cur].files[p]
    BY <1>1, <1>2, <2>1 DEF Written
  <2> QED BY <1>1, <2>1, <2>2, <2>3 DEF ReleaseSafe, Held
<1>9. ControlSafe' BY <1>1 DEF ControlSafe, Held
<1> QED BY <1>3, <1>4, <1>5, <1>6, <1>7, <1>8, <1>9

LEMMA SafeInit == Init => IInv
<1> SUFFICES ASSUME Init PROVE IInv OBVIOUS
<1> USE DEF Init
<1>1. TypeOK BY NoFilesType DEF TypeOK, Idle
<1>2. \A i \in Ids : ~Listed(i) /\ ~Held(i) BY DEF Listed, Held
<1>3. \A p \in Paths : todo[p] = None BY NoFilesType
<1>4. Safe(todo) BY <1>3, ImmutablePaths DEF Safe
<1>5. WriterSafe BY <1>3, PathsDiffer DEF WriterSafe
<1> QED BY <1>1, <1>2, <1>4, <1>5
     DEF IInv, ListMatchesTree, HeldSafe, ReleaseSafe, ControlSafe

LEMMA SafeStep == IInv /\ [Next]_vars => IInv'
<1> SUFFICES ASSUME IInv, [Next]_vars PROVE IInv'
  OBVIOUS
<1> DEFINE Rest == /\ ListMatchesTree' /\ Safe(todo)' /\ HeldSafe' /\ WriterSafe'
                   /\ ReleaseSafe' /\ ControlSafe'
<1>0. TypeOK' BY TypeStep DEF IInv
<1> SUFFICES Rest BY <1>0 DEF IInv
<1> USE DEF IInv
<1>1. ASSUME NEW m \in Manifests, NEW d \in SUBSET DocNames, Register(m, d) PROVE Rest
  <2> DEFINE fs == [Docs(m.pins, d) EXCEPT ![ManifestPath] = m]
  <2>1. /\ todo' = fs /\ pc = "idle" /\ pc' = "write" /\ op' # "resignall"
        /\ UNCHANGED <<files, pending, cur>>
    BY <1>1 DEF Register, Lock, Idle
  <2>2. fs \in FileMaps /\ \A p \in Immutable : fs[p] = None BY RegisterFilesType
  <2>3. \A i \in Ids : fs[AttPath(i)] = None BY <2>2 DEF Immutable
  <2> HIDE DEF fs
  <2> QED BY <2>1, <2>2, <2>3, StartStep
<1>2. ASSUME NEW a \in Atts, NEW d \in SUBSET DocNames, Publish(a, d) PROVE Rest
  <2> DEFINE fs == PublishFiles(a, d)
  <2>1. /\ todo' = fs /\ pc = "idle" /\ pc' = "write" /\ op' # "resignall"
        /\ UNCHANGED <<files, pending, cur>>
    BY <1>2 DEF Publish, PublishChecks, Lock, Idle
  <2>2. /\ fs \in FileMaps
        /\ \A p \in Immutable : fs[p] = IF p = AttPath(a.id) THEN a ELSE None
    BY PublishFilesType
  <2>3. a.id \in Ids /\ tree[AttPath(a.id)] = None /\ ~Held(a.id) /\ ~Embargoed(a)
    BY <1>2, TenantAssumption DEF Publish, PublishChecks, IdTaken, Published
  <2> HIDE DEF fs
  <2>4. \A p \in Immutable : fs[p] # None => tree[p] = None BY <2>2, <2>3
  <2>5. \A i \in Ids : fs[AttPath(i)] # None => i = a.id /\ fs[AttPath(i)] = a
    BY <2>2, PathsDiffer, <2>3 DEF Immutable
  <2>6. \A i \in Ids : fs[AttPath(i)] # None => ~Held(i) /\ ~Embargoed(fs[AttPath(i)])
    BY <2>3, <2>5
  <2> QED BY <2>1, <2>2, <2>4, <2>6, StartStep
<1>3. ASSUME NEW a \in Atts, NEW d \in SUBSET DocNames, Hold(a, d) PROVE Rest
  <2> DEFINE fs == PublishFiles(a, d)
  <2>1. /\ held' = [held EXCEPT ![a.id] = [releaseAt |-> ReleaseTime(a.order), files |-> fs]]
        /\ pc = "idle" /\ pc' = "fulfil" /\ op' = "hold"
        /\ UNCHANGED <<tree, status, todo, pending, cur>>
        /\ a.id \in Ids /\ tree[AttPath(a.id)] = None /\ ~Held(a.id)
    BY <1>3, TenantAssumption DEF Hold, PublishChecks, Idle, IdTaken, Published
  <2>2. \A p \in Immutable : fs[p] = IF p = AttPath(a.id) THEN a ELSE None
    BY PublishFilesType
  <2> HIDE DEF fs
  <2>3. todo = NoFiles /\ \A i \in pending : Held(i) /\ i # cur
    BY <2>1 DEF ControlSafe
  <2>4. ListMatchesTree' BY <2>1 DEF ListMatchesTree, Listed, Responded
  <2>5. Safe(todo)' BY <2>1 DEF Safe
  <2>6. HeldSafe'
    <3> SUFFICES ASSUME NEW i \in Ids, held'[i] # None, NEW p \in Immutable,
                        held'[i].files[p] # None
                 PROVE  p = AttPath(i) /\ tree[p] \in {None, held'[i].files[p]}
      BY <2>1 DEF HeldSafe, Held, Safe
    <3>1. CASE i = a.id BY <2>1, <2>2, <3>1 DEF TypeOK
    <3>2. CASE i # a.id
      <4>1. held'[i] = held[i] BY <2>1, <3>2 DEF TypeOK
      <4> QED BY <4>1 DEF HeldSafe, Held, Safe
    <3> QED BY <3>1, <3>2
  <2>7. \A p \in Paths : todo'[p] = None BY <2>1, <2>3, NoFilesType
  <2>8. WriterSafe' BY <2>7, PathsDiffer DEF WriterSafe
  <2>9. ReleaseSafe' BY <2>1 DEF ReleaseSafe
  <2>10. ControlSafe'
    <3>1. \A i \in pending : i \in Ids /\ i # a.id /\ held'[i] = held[i]
      BY <2>1, <2>3 DEF TypeOK
    <3> QED BY <2>1, <2>3, <3>1 DEF ControlSafe, Held
  <2> QED BY <2>4, <2>5, <2>6, <2>8, <2>9, <2>10
<1>4. ASSUME NEW r \in Revs, Revoke(r) PROVE Rest
  <2> DEFINE fs == Only(RevPath(r.att), r)
  <2>1. /\ todo' = fs /\ pc = "idle" /\ pc' = "write" /\ op' # "resignall"
        /\ UNCHANGED <<files, pending, cur>> /\ tree[RevPath(r.att)] = None
    BY <1>4 DEF Revoke, Lock, Idle
  <2>2. /\ fs \in FileMaps /\ r.att \in Ids
        /\ \A p \in Paths : fs[p] = IF p = RevPath(r.att) THEN r ELSE None
    BY RevokeFilesType, TenantAssumption
  <2> HIDE DEF fs
  <2>3. \A p \in Immutable : fs[p] # None => tree[p] = None
    BY <2>1, <2>2, ImmutablePaths
  <2>4. \A i \in Ids : fs[AttPath(i)] = None BY <2>2, PathsDiffer
  <2> QED BY <2>1, <2>2, <2>3, <2>4, StartStep
<1>5. ASSUME NEW i \in Ids, NEW r \in RespIds, Respond(i, r) PROVE Rest
  <2> DEFINE fs == Only(RespPath(i, r), [rid |-> r, of |-> tree[AttPath(i)]])
  <2>1. /\ todo' = fs /\ pc = "idle" /\ pc' = "write" /\ op' # "resignall"
        /\ UNCHANGED <<files, pending, cur>> /\ tree[RespPath(i, r)] = None
    BY <1>5 DEF Respond, Lock, Idle
  <2>2. tree[AttPath(i)] \in Atts
    BY <1>5 DEF Respond, Published, TypeOK, FileMaps, Kinded
  <2>3. /\ fs \in FileMaps
        /\ \A p \in Paths : fs[p] # None => p = RespPath(i, r)
    BY <2>2, RespondFilesType
  <2> HIDE DEF fs
  <2>4. \A p \in Immutable : fs[p] # None => tree[p] = None
    BY <2>1, <2>3, ImmutablePaths
  <2>5. \A j \in Ids : fs[AttPath(j)] = None BY <2>3, PathsDiffer
  <2> QED BY <2>1, <2>3, <2>4, <2>5, StartStep
<1>6. ASSUME NEW o \in OrderIds, PostOrder(o) \/ Decline(o) PROVE Rest
  BY <1>6, FrameStep DEF PostOrder, Decline, env, TypeOK
<1>7. ASSUME NEW p \in Paths, WriteFile(p) PROVE Rest
  BY <1>7, WriteStep
<1>8. CASE Wrote
  <2>1. /\ pc = "write" /\ todo = NoFiles /\ pc' # "write" /\ cur' = None
        /\ (pc' = "next" => op = "resignall")
        /\ UNCHANGED <<tree, status, op, todo, pending>>
        /\ held' = IF op = "resignall" THEN [held EXCEPT ![cur] = None] ELSE held
    BY <1>8 DEF Wrote
  <2>2. \A i \in Ids : held'[i] # None => held'[i] = held[i]
    BY <2>1 DEF TypeOK
  <2>3. \A i \in pending : i \in Ids /\ held'[i] = held[i] /\ i # None
    BY <2>1, TenantAssumption DEF TypeOK, ControlSafe
  <2>4. \A p \in Paths : todo'[p] = None BY <2>1, NoFilesType
  <2>5. ListMatchesTree' BY <2>1 DEF ListMatchesTree, Listed, Responded
  <2>6. Safe(todo)' BY <2>1 DEF Safe
  <2>7. HeldSafe' BY <2>1, <2>2 DEF HeldSafe, Held, Safe
  <2>8. WriterSafe' BY <2>4, PathsDiffer DEF WriterSafe
  <2>9. ReleaseSafe' BY <2>1 DEF ReleaseSafe
  <2>10. ControlSafe' BY <2>1, <2>3 DEF ControlSafe, Held
  <2> QED BY <2>5, <2>6, <2>7, <2>8, <2>9, <2>10
<1>9. CASE Fulfil
  <2>1. UNCHANGED <<tree, held, status>> BY <1>9 DEF Fulfil
  <2>2. ListMatchesTree' BY <2>1 DEF ListMatchesTree, Listed, Responded
  <2>3. CASE Unlock BY <2>1, <2>2, <2>3, StopStep
  <2>4. CASE pc' = "sign" /\ UNCHANGED <<op, todo, pending, cur>>
    <3>1. todo = NoFiles /\ todo' = NoFiles BY <1>9, <2>4 DEF Fulfil, ControlSafe
    <3>2. \A p \in Paths : todo'[p] = None BY <3>1, NoFilesType
    <3>3. Safe(todo)' BY <3>2, ImmutablePaths DEF Safe
    <3>4. WriterSafe' BY <3>2, PathsDiffer DEF WriterSafe
    <3>5. HeldSafe' BY <2>1 DEF HeldSafe, Held, Safe
    <3>6. ReleaseSafe' BY <2>4 DEF ReleaseSafe
    <3>7. pc = "fulfil" BY <1>9 DEF Fulfil
    <3>8. ControlSafe' BY <2>1, <2>4, <3>1, <3>7 DEF ControlSafe, Held
    <3> QED BY <2>2, <3>3, <3>4, <3>5, <3>6, <3>8
  <2> QED BY <1>9, <2>3, <2>4 DEF Fulfil
<1>10. CASE Sign
  <2>1. Unlock /\ UNCHANGED <<tree, held>> /\ status' = NewStatus BY <1>10 DEF Sign
  <2>2. ListMatchesTree'
    BY <2>1, NewStatusFacts DEF ListMatchesTree, Listed, Responded
  <2> QED BY <2>1, <2>2, StopStep
<1>11. CASE CannotSign \/ Crash
  <2>1. Unlock /\ UNCHANGED <<tree, held, status>>
    BY <1>11 DEF CannotSign, Crash, files
  <2>2. ListMatchesTree' BY <2>1 DEF ListMatchesTree, Listed, Responded
  <2> QED BY <2>1, <2>2, StopStep
<1>12. ASSUME NEW i \in Ids, Release(i) PROVE Rest
  <2>1. /\ pc = "next" /\ op = "resignall" /\ op' = op /\ i \in pending /\ Held(i)
        /\ pending' = pending \ {i} /\ todo = NoFiles
        /\ UNCHANGED <<tree, status, held, now, steps>>
    BY <1>12 DEF Release, files, env, ControlSafe
  <2>2. ListMatchesTree' BY <2>1 DEF ListMatchesTree, Listed, Responded
  <2>3. HeldSafe' BY <2>1 DEF HeldSafe, Held, Safe
  <2>4. WriterSafe' BY <2>1 DEF WriterSafe
  <2>5. CASE EmbargoEnded(i)
    <3>1. todo' = held[i].files /\ cur' = i /\ pc' = "write"
      BY <1>12, <2>5 DEF Release
    <3>2. Safe(todo)' BY <2>1, <3>1 DEF HeldSafe, Safe
    <3>3. ReleaseSafe' BY <2>1, <2>5, <3>1 DEF ReleaseSafe, Held, EmbargoEnded
    <3>4. ControlSafe' BY <2>1, <3>1 DEF ControlSafe, Held
    <3> QED BY <2>2, <2>3, <2>4, <3>2, <3>3, <3>4
  <2>6. CASE ~EmbargoEnded(i)
    <3>1. UNCHANGED <<todo, cur, pc>> BY <1>12, <2>6 DEF Release
    <3>2. Safe(todo)' BY <2>1, <3>1 DEF Safe
    <3>3. ReleaseSafe' BY <2>1, <3>1 DEF ReleaseSafe
    <3>4. ControlSafe' BY <2>1, <3>1 DEF ControlSafe, Held
    <3> QED BY <2>2, <2>3, <2>4, <3>2, <3>3, <3>4
  <2> QED BY <2>5, <2>6
<1>13. CASE Released
  <2>1. /\ pc = "next" /\ pc' = "sign" /\ todo = NoFiles
        /\ UNCHANGED <<tree, status, held, op, todo, pending, cur>>
    BY <1>13 DEF Released, files, ControlSafe
  <2> QED BY <2>1 DEF ListMatchesTree, Listed, Responded, HeldSafe, Held, Safe,
                      WriterSafe, ReleaseSafe, ControlSafe
<1>14. CASE ResignAll
  <2>1. /\ pc = "idle" /\ pc' = "next" /\ op' = "resignall" /\ todo = NoFiles
        /\ pending' = {i \in Ids : Held(i)}
        /\ UNCHANGED <<tree, status, held, todo, cur>>
    BY <1>14 DEF ResignAll, files, Idle, ControlSafe
  <2>2. \A i \in Ids : i # cur BY <2>1, TenantAssumption DEF ControlSafe
  <2>3. \A p \in Paths : todo[p] = None BY <2>1, NoFilesType
  <2>4. ListMatchesTree' BY <2>1 DEF ListMatchesTree, Listed, Responded
  <2>5. Safe(todo)' BY <2>1 DEF Safe
  <2>6. HeldSafe' BY <2>1 DEF HeldSafe, Held, Safe
  <2>7. WriterSafe' /\ ReleaseSafe' BY <2>1 DEF WriterSafe, ReleaseSafe
  <2>8. ControlSafe' BY <2>1, <2>2 DEF ControlSafe, Held
  <2> QED BY <2>4, <2>5, <2>6, <2>7, <2>8
<1>15. CASE DiskError
  <2>1. UNCHANGED <<tree, held, status>> /\ ((op = "resignall" /\ pc = "write") \/ Unlock)
    BY <1>15 DEF DiskError, files
  <2>2. ListMatchesTree' BY <2>1 DEF ListMatchesTree, Listed, Responded
  <2>3. CASE Unlock BY <2>1, <2>2, <2>3, StopStep
  <2>4. CASE op = "resignall" /\ pc = "write"
    <3>1. /\ pc' = "next" /\ todo' = NoFiles /\ cur' = None
          /\ UNCHANGED <<op, pending>>
      BY <1>15, <2>4 DEF DiskError
    <3>2. \A p \in Paths : todo'[p] = None BY <3>1, NoFilesType
    <3>3. Safe(todo)' BY <3>2, ImmutablePaths DEF Safe
    <3>4. HeldSafe' BY <2>1 DEF HeldSafe, Held, Safe
    <3>5. WriterSafe' /\ ReleaseSafe' BY <2>4, <3>1 DEF WriterSafe, ReleaseSafe
    <3>6. \A i \in pending : Held(i) /\ i # None
      BY TenantAssumption DEF ControlSafe, TypeOK
    <3>7. ControlSafe' BY <2>1, <2>4, <3>1, <3>6 DEF ControlSafe, Held
    <3> QED BY <2>2, <3>3, <3>4, <3>5, <3>7
  <2> QED BY <2>1, <2>3, <2>4
<1>16. CASE Tick
  <2>1. now' = now + 1 /\ steps' = steps /\ UNCHANGED <<tree, held, status, handler>>
    BY <1>16 DEF Tick, files
  <2> QED BY <2>1, FrameStep DEF TypeOK
<1>17. CASE StepBack
  <2>1. /\ now' = now - 1 /\ now > 0 /\ steps' = steps + 1
        /\ UNCHANGED <<tree, held, status, handler>>
    BY <1>17 DEF StepBack, files
  <2> QED BY <2>1, FrameStep DEF TypeOK
<1>18. CASE Disable \/ UNCHANGED vars
  <2>1. UNCHANGED <<tree, held, status, handler, now, steps>>
    BY <1>18 DEF Disable, env, vars, handler
  <2> QED BY <2>1, FrameStep DEF TypeOK
<1> QED
  BY <1>1, <1>2, <1>3, <1>4, <1>5, <1>6, <1>7, <1>8, <1>9, <1>10, <1>11, <1>12,
     <1>13, <1>14, <1>15, <1>16, <1>17, <1>18 DEF Next, Requests, Handlers

THEOREM Inductive == Spec => []IInv
BY SafeInit, SafeStep, PTL DEF Spec

-------------------------------------------------------------------------------
(* Which actions change the tree, the list and the held files.                *)

LEMMA TreeStep ==
    [Next]_vars => tree' = tree \/ \E p \in Paths : WriteFile(p)
BY DEF Next, Requests, Handlers, Register, Publish, Hold, Revoke, Respond, PostOrder,
       Decline, Wrote, Fulfil, Sign, CannotSign, Release, Released, ResignAll,
       DiskError, Crash, Tick, StepBack, Disable, files, vars

LEMMA StatusStep ==
    [Next]_vars => status' = status \/ Sign
BY DEF Next, Requests, Handlers, Register, Publish, Hold, Revoke, Respond, PostOrder,
       Decline, WriteFile, Wrote, Fulfil, CannotSign, Release, Released, ResignAll,
       DiskError, Crash, Tick, StepBack, Disable, files, vars

LEMMA HeldStep ==
    ASSUME TypeOK, [Next]_vars, NEW i \in Ids, Held(i), held'[i] = None
    PROVE  Wrote /\ op = "resignall" /\ cur = i
<1>1. held' # held BY DEF Held
<1>2. held' = held \/ Wrote \/ \E a \in Atts, d \in SUBSET DocNames : Hold(a, d)
  BY DEF Next, Requests, Handlers, Register, Publish, Revoke, Respond, PostOrder,
         Decline, WriteFile, Fulfil, Sign, CannotSign, Release, Released, ResignAll,
         DiskError, Crash, Tick, StepBack, Disable, files, vars
<1>3. ASSUME NEW a \in Atts, NEW d \in SUBSET DocNames, Hold(a, d) PROVE FALSE
  <2>1. a.id \in Ids /\ ~Held(a.id)
    BY <1>3, TenantAssumption DEF Hold, PublishChecks, IdTaken
  <2>2. held'[i] = held[i] BY <1>3, <2>1 DEF Hold, TypeOK
  <2> QED BY <2>2 DEF Held
<1>4. CASE Wrote
  <2>1. op = "resignall" /\ held' = [held EXCEPT ![cur] = None]
    BY <1>1, <1>4 DEF Wrote
  <2>2. held[i] # None BY DEF Held
  <2> QED BY <1>4, <2>1, <2>2 DEF TypeOK
<1> QED BY <1>1, <1>2, <1>3, <1>4

-------------------------------------------------------------------------------
(* Every variable keeps its type, and every path of the tree a document of    *)
(* its own kind (every handler of hub.go and orders.go).                      *)
THEOREM TypeCorrect == Spec => []TypeOK
BY Inductive, PTL DEF IInv

(* Whatever crashes, disk errors and clock changes happen, the status list    *)
(* never names bytes the tree does not serve (resign after writeFiles).       *)
THEOREM ListServed == Spec => []ListMatchesTree
BY Inductive, PTL DEF IInv

(* No attestation, revocation or reply is ever changed or removed.            *)
THEOREM Immutability == Spec => NeverModified
<1>1. IInv /\ [Next]_vars =>
        [\A i \in Ids :
          /\ Published(i) => tree'[AttPath(i)] = tree[AttPath(i)]
          /\ tree[RevPath(i)] # None => tree'[RevPath(i)] = tree[RevPath(i)]
          /\ \A r \in RespIds : tree[RespPath(i, r)] # None =>
                tree'[RespPath(i, r)] = tree[RespPath(i, r)]]_vars
  <2> SUFFICES ASSUME IInv, [Next]_vars
               PROVE  \A p \in Immutable : tree[p] # None => tree'[p] = tree[p]
    BY DEF Immutable, Published
  <2>1. CASE tree' = tree BY <2>1
  <2>2. ASSUME NEW q \in Paths, WriteFile(q)
        PROVE  \A p \in Immutable : tree[p] # None => tree'[p] = tree[p]
    BY <2>2, WriteStep
  <2> QED BY <2>1, <2>2, TreeStep
<1> QED BY <1>1, Inductive, PTL DEF NeverModified, Spec

(* An embargoed fail is published only by the release of its held file, and   *)
(* not before its time unless the clock is set back.                          *)
THEOREM EmbargoHolds == Spec => EmbargoKept
<1>1. IInv /\ [Next]_vars =>
        [\A i \in Ids :
          ~Published(i) /\ tree'[AttPath(i)] # None /\ Embargoed(tree'[AttPath(i)])
          => /\ Held(i) /\ held[i].files[AttPath(i)] = tree'[AttPath(i)]
             /\ steps = 0 => now >= held[i].releaseAt]_vars
  <2> SUFFICES ASSUME IInv, [Next]_vars, NEW i \in Ids,
                      ~Published(i), tree'[AttPath(i)] # None,
                      Embargoed(tree'[AttPath(i)])
               PROVE  /\ Held(i) /\ held[i].files[AttPath(i)] = tree'[AttPath(i)]
                      /\ steps = 0 => now >= held[i].releaseAt
    OBVIOUS
  <2>1. PICK q \in Paths : WriteFile(q) BY TreeStep DEF Published
  <2>2. /\ tree' = [tree EXCEPT ![q] = todo[q]] /\ tree \in [Paths -> Contents \cup {None}]
        /\ pc = "write" /\ todo[q] # None
    BY <2>1 DEF WriteFile, IInv, TypeOK, FileMaps
  <2>3. q = AttPath(i) /\ tree'[q] = todo[q] BY <2>2 DEF Published
  <2>4. op = "resignall" BY <2>2, <2>3 DEF IInv, WriterSafe
  <2>5. /\ cur \in Ids /\ Held(cur) /\ (steps = 0 => now >= held[cur].releaseAt)
        /\ todo[q] = held[cur].files[q]
    BY <2>2, <2>4 DEF IInv, ReleaseSafe
  <2>6. q \in Immutable BY <2>3 DEF Immutable
  <2>7. q = AttPath(cur) BY <2>2, <2>5, <2>6 DEF IInv, HeldSafe
  <2>8. cur = i BY <2>3, <2>5, <2>7, PathsDiffer
  <2> QED BY <2>3, <2>5, <2>8
<1> QED BY <1>1, Inductive, PTL DEF EmbargoKept, Spec

(* A held file is removed only when every document in it is in the tree.      *)
THEOREM ReleaseComplete == Spec => ReleasedWhole
<1>1. IInv /\ [Next]_vars =>
        [\A i \in Ids : Held(i) /\ held'[i] = None =>
          \A p \in Written(held[i].files) : tree'[p] = held[i].files[p]]_vars
  <2> SUFFICES ASSUME IInv, [Next]_vars, NEW i \in Ids, Held(i), held'[i] = None,
                      NEW p \in Written(held[i].files)
               PROVE  tree'[p] = held[i].files[p]
    OBVIOUS
  <2>1. Wrote /\ op = "resignall" /\ cur = i BY HeldStep DEF IInv
  <2>2. pc = "write" /\ todo = NoFiles /\ tree' = tree BY <2>1 DEF Wrote
  <2>3. p \in Paths /\ held[i].files[p] # None BY DEF Written
  <2>4. todo[p] = None BY <2>2, <2>3, NoFilesType
  <2> QED BY <2>1, <2>2, <2>3, <2>4 DEF IInv, ReleaseSafe
<1> QED BY <1>1, Inductive, PTL DEF ReleasedWhole, Spec

(* The epoch only grows, past every revocation in the tree, whatever the      *)
(* clock does.                                                                *)
THEOREM EpochMonotone == Spec => EpochAdvances
<1>1. IInv /\ [Next]_vars =>
        [status' # status =>
          /\ status # None => status'.epoch > status.epoch
          /\ \A i \in Ids : Published(i) /\ tree[RevPath(i)] # None
                => status'.epoch > tree[RevPath(i)].epoch]_vars
  <2> SUFFICES ASSUME IInv, [Next]_vars, status' # status
               PROVE  /\ status # None => status'.epoch > status.epoch
                      /\ \A i \in Ids : Published(i) /\ tree[RevPath(i)] # None
                            => status'.epoch > tree[RevPath(i)].epoch
    OBVIOUS
  <2>1. status' = NewStatus BY StatusStep DEF Sign
  <2> QED BY <2>1, NewStatusFacts DEF IInv, PrevEpoch
<1> QED BY <1>1, Inductive, PTL DEF EpochAdvances, Spec

-------------------------------------------------------------------------------
(* What a list says of the tree, and what it must go on saying.               *)

(* What makes an attestation of the tree other than active now.               *)
NotActive(i) ==
    \/ InForce(tree[RevPath(i)], now)
    \/ \E j \in Ids : Published(j) /\ tree[AttPath(j)].supersedes = i
    \/ Expired(tree[AttPath(i)], now)

(* Unless the clock was set back, what the list says is over is over still.   *)
PastHolds ==
    steps = 0 => \A i \in Ids : Listed(i) =>
        /\ status.entries[i].state = "revoked" => InForce(tree[RevPath(i)], now)
        /\ status.entries[i].state # "active" => NotActive(i)

(* What the list a handler would sign says of an attestation of the tree.     *)
LEMMA StateReads ==
    ASSUME TypeOK, NEW i \in Ids, Published(i)
    PROVE  LET e == NewStatus.entries[i] IN
           /\ e # None /\ e.resps = Responded(i)
           /\ e.state = "revoked" <=> InForce(tree[RevPath(i)], now)
           /\ e.state # "active" <=> NotActive(i)
<1> DEFINE C == Collect
<1>1. Collected(C, Ids, Atts, Revs, RespIds) BY CollectType
<1>2. ASSUME NEW j \in Ids
      PROVE  /\ C[j] # None <=> Published(j)
             /\ Published(j) => /\ C[j].doc = tree[AttPath(j)]
                                /\ C[j].rev = tree[RevPath(j)]
                                /\ C[j].resps = Responded(j)
  <2>1. CASE Published(j)
    <3>1. C[j] = [doc |-> tree[AttPath(j)], rev |-> tree[RevPath(j)], resps |-> Responded(j)]
      BY <2>1 DEF Collect
    <3>2. /\ tree[AttPath(j)] \in Atts /\ tree[RevPath(j)] \in Revs \cup {None}
          /\ Responded(j) \in SUBSET RespIds
      BY <2>1 DEF TypeOK, FileMaps, Kinded, Responded, Published
    <3>3. C[j] \in [doc : Atts, rev : Revs \cup {None}, resps : SUBSET RespIds]
      BY <3>1, <3>2
    <3>4. C[j] # None BY <3>3, TenantAssumption
    <3> QED BY <2>1, <3>1, <3>4
  <2>2. CASE ~Published(j) BY <2>2 DEF Collect
  <2> QED BY <2>1, <2>2
<1>3. DOMAIN C = Ids BY DEF Collect
<1>4. NewStatus.entries[i] = Entry(C, i, now)
  <2>1. IsPublished(C, i) BY <1>2 DEF IsPublished
  <2>2. NewStatus.entries = [j \in DOMAIN C |-> IF IsPublished(C, j) THEN Entry(C, j, now) ELSE None]
    BY DEF NewStatus, BuildStatus
  <2> QED BY <1>3, <2>1, <2>2
<1> HIDE DEF C
<1>5. Superseders(C, i) = {j \in Ids : Published(j) /\ tree[AttPath(j)].supersedes = i}
  BY <1>2, <1>3 DEF Superseders, IsPublished
<1>6. Superseders(C, i) # {} <=> SupersededBy(C, i) # None
  <2>1. Superseders(C, i) \in SUBSET Ids BY <1>5
  <2>2. IsFiniteSet(Superseders(C, i)) BY <2>1, TenantAssumption, FS_Subset
  <2>3. Superseders(C, i) # {} => Max(Superseders(C, i)) \in Ids
    BY <2>1, <2>2, TenantAssumption, MaxOfFinite
  <2> QED BY <2>3, TenantAssumption DEF SupersededBy
<1>7. State(C, i, now) = "revoked" <=> InForce(tree[RevPath(i)], now)
  BY <1>2 DEF State
<1>8. State(C, i, now) # "active" <=> NotActive(i)
  BY <1>2, <1>5, <1>6 DEF State, NotActive
<1>9. Entry(C, i, now).state = State(C, i, now) /\ Entry(C, i, now).resps = C[i].resps
  BY DEF Entry
<1>10. Entry(C, i, now) # None
  <2>1. None \notin Ids /\ now \in Nat /\ C[i] # None BY <1>2, TenantAssumption DEF TypeOK
  <2>2. Entry(C, i, now) \in Listings BY <1>1, <2>1, ReferencesAgree DEF Listings
  <2> QED BY <2>2, TenantAssumption DEF Listings
<1> QED BY <1>2, <1>4, <1>7, <1>8, <1>9, <1>10

LEMMA ClockStep ==
    ASSUME TypeOK, [Next]_vars, steps' = 0
    PROVE  steps = 0 /\ now' \in Nat /\ now' >= now
<1>1. CASE UNCHANGED <<now, steps>> BY <1>1 DEF TypeOK
<1>2. CASE Tick BY <1>2 DEF Tick, TypeOK
<1>3. CASE StepBack BY <1>3 DEF StepBack, TypeOK
<1>4. UNCHANGED <<now, steps>> \/ Tick \/ StepBack
  BY DEF Next, Requests, Handlers, Register, Publish, Hold, Revoke, Respond, PostOrder,
         Decline, WriteFile, Wrote, Fulfil, Sign, CannotSign, Release, Released,
         ResignAll, DiskError, Crash, Disable, env, vars
<1> QED BY <1>1, <1>2, <1>3, <1>4

LEMMA TreeGrows ==
    ASSUME IInv, [Next]_vars, NEW p \in Immutable, tree[p] # None
    PROVE  tree'[p] = tree[p]
<1>1. CASE tree' = tree BY <1>1
<1>2. ASSUME NEW q \in Paths, WriteFile(q) PROVE tree'[p] = tree[p]
  BY <1>2, WriteStep
<1> QED BY <1>1, <1>2, TreeStep

(* Time and further documents leave what is over, over.                       *)
LEMMA OverStays ==
    ASSUME IInv, [Next]_vars, steps' = 0, NEW i \in Ids, Published(i)
    PROVE  /\ InForce(tree[RevPath(i)], now) => InForce(tree[RevPath(i)], now)'
           /\ NotActive(i) => NotActive(i)'
<1>1. now \in Nat /\ now' \in Nat /\ now' >= now BY ClockStep DEF IInv, TypeOK
<1>2. \A j \in Ids : AttPath(j) \in Immutable /\ RevPath(j) \in Immutable
  BY DEF Immutable
<1>3. \A j \in Ids : tree[AttPath(j)] # None => tree'[AttPath(j)] = tree[AttPath(j)]
  BY <1>2, TreeGrows
<1>4. InForce(tree[RevPath(i)], now) => InForce(tree[RevPath(i)], now)'
  <2> SUFFICES ASSUME InForce(tree[RevPath(i)], now)
               PROVE  InForce(tree[RevPath(i)], now)'
    OBVIOUS
  <2>1. tree[RevPath(i)] # None /\ now >= tree[RevPath(i)].from BY DEF InForce
  <2>2. tree[RevPath(i)] \in Revs BY <2>1 DEF IInv, TypeOK, FileMaps, Kinded
  <2>3. tree[RevPath(i)].from \in Nat BY <2>2, TenantAssumption
  <2>4. tree'[RevPath(i)] = tree[RevPath(i)] BY <1>2, <2>1, TreeGrows
  <2> QED BY <1>1, <2>1, <2>3, <2>4 DEF InForce
<1>5. Expired(tree[AttPath(i)], now) => Expired(tree[AttPath(i)], now)'
  <2>1. tree[AttPath(i)] \in Atts BY DEF Published, IInv, TypeOK, FileMaps, Kinded
  <2>2. tree[AttPath(i)].expiresAt \in Nat \cup {None} BY <2>1, TenantAssumption
  <2>3. tree'[AttPath(i)] = tree[AttPath(i)] BY <1>3 DEF Published
  <2> QED BY <1>1, <2>2, <2>3 DEF Expired
<1>6. \A j \in Ids : Published(j) /\ tree[AttPath(j)].supersedes = i
         => Published(j)' /\ tree'[AttPath(j)].supersedes = i
  BY <1>3 DEF Published
<1> QED BY <1>4, <1>5, <1>6 DEF NotActive

LEMMA PastStep == IInv /\ IInv' /\ PastHolds /\ [Next]_vars => PastHolds'
<1> SUFFICES ASSUME IInv, IInv', PastHolds, [Next]_vars, steps' = 0,
                    NEW i \in Ids, Listed(i)'
             PROVE  /\ status'.entries[i].state = "revoked" => InForce(tree[RevPath(i)], now)'
                    /\ status'.entries[i].state # "active" => NotActive(i)'
  BY DEF PastHolds
<1>1. steps = 0 BY ClockStep DEF IInv
<1>2. CASE status' = status
  <2>1. Listed(i) /\ status.entries[i] \in Listings
    BY <1>2 DEF Listed, IInv, TypeOK, Lists
  <2>2. Published(i)
    <3>1. tree[AttPath(i)] \in Atts BY <2>1 DEF IInv, ListMatchesTree, Listings
    <3> QED BY <3>1, TenantAssumption DEF Published
  <2>3. /\ status.entries[i].state = "revoked" => InForce(tree[RevPath(i)], now)
        /\ status.entries[i].state # "active" => NotActive(i)
    BY <1>1, <2>1 DEF PastHolds
  <2>4. /\ InForce(tree[RevPath(i)], now) => InForce(tree[RevPath(i)], now)'
        /\ NotActive(i) => NotActive(i)'
    BY <2>2, OverStays
  <2> QED BY <1>2, <2>3, <2>4
<1>3. CASE Sign
  <2>1. status' = NewStatus /\ tree' = tree /\ now' = now BY <1>3 DEF Sign, env
  <2>2. NewStatus.entries[i] # None BY <2>1 DEF Listed
  <2>3. Published(i)
    <3>1. NewStatus.entries[i] = IF IsPublished(Collect, i) THEN Entry(Collect, i, now) ELSE None
      BY DEF NewStatus, BuildStatus, Collect
    <3>2. Collect[i] # None BY <2>2, <3>1 DEF IsPublished
    <3> QED BY <3>2 DEF Collect
  <2>4. /\ NewStatus.entries[i].state = "revoked" => InForce(tree[RevPath(i)], now)
        /\ NewStatus.entries[i].state # "active" => NotActive(i)
    BY <2>3, StateReads DEF IInv
  <2> QED BY <2>1, <2>4 DEF NotActive, Published
<1> QED BY <1>2, <1>3, StatusStep

(* Unless the clock is set back, each list signed says of every attestation   *)
(* at least what the one before said (BuildStatus over a tree that only       *)
(* grows).                                                                    *)
THEOREM ListGrows == Spec => ListOnlyGrows
<1>1. Init => PastHolds BY DEF Init, PastHolds, Listed
<1>2. Spec => []PastHolds BY <1>1, PastStep, Inductive, PTL DEF Spec
<1>3. IInv /\ PastHolds /\ [Next]_vars =>
        [steps' = 0 => \A i \in Ids : Listed(i) =>
          LET old == status.entries[i]  new == status'.entries[i] IN
          /\ new # None
          /\ old.state = "revoked" => new.state = "revoked"
          /\ old.state # "active" => new.state # "active"
          /\ old.resps \subseteq new.resps]_vars
  <2> SUFFICES ASSUME IInv, PastHolds, [Next]_vars, steps' = 0, NEW i \in Ids, Listed(i)
               PROVE  LET old == status.entries[i]  new == status'.entries[i] IN
                      /\ new # None
                      /\ old.state = "revoked" => new.state = "revoked"
                      /\ old.state # "active" => new.state # "active"
                      /\ old.resps \subseteq new.resps
    OBVIOUS
  <2>1. CASE status' = status BY <2>1 DEF Listed
  <2>2. CASE Sign
    <3>1. status' = NewStatus /\ steps = 0 BY <2>2, ClockStep DEF Sign, IInv
    <3>2. status.entries[i] \in Listings BY DEF Listed, IInv, TypeOK, Lists
    <3>3. Published(i)
      <4>1. tree[AttPath(i)] \in Atts BY <3>2 DEF IInv, ListMatchesTree, Listings
      <4> QED BY <4>1, TenantAssumption DEF Published
    <3>4. /\ status.entries[i].state = "revoked" => InForce(tree[RevPath(i)], now)
          /\ status.entries[i].state # "active" => NotActive(i)
          /\ status.entries[i].resps \subseteq Responded(i)
      BY <3>1 DEF PastHolds, IInv, ListMatchesTree
    <3> QED BY <3>1, <3>3, <3>4, StateReads DEF IInv
  <2> QED BY <2>1, <2>2, StatusStep
<1> QED BY <1>2, <1>3, Inductive, PTL DEF ListOnlyGrows, Spec

-------------------------------------------------------------------------------
(* The quota and the queue.                                                   *)

HeldPaths == UNION {Written(held[i].files) : i \in {j \in Ids : Held(j)}}
RevPaths == {RevPath(i) : i \in Ids}

(* What is stored, and what the handler that holds the lock will still store. *)
Stored == (Written(tree) \cup Written(todo) \cup HeldPaths) \ RevPaths
WithinQuota == Cardinality(Stored) <= Quota

(* An order that is answered, or about to be.                                 *)
Answered(o) == tree[OrderPath(o)] # None \/ HeldOrder(o) \/ todo[OrderPath(o)] # None

(* An answered order is in the queue only as long as the handler that answers *)
(* it has still to take it out.                                               *)
QueueClear ==
    /\ taken # None => pc = "fulfil" \/ (pc = "write" /\ op = "publish")
    /\ crashes = 0 /\ faults = 0 =>
          \A o \in inbox : Answered(o) => taken # None /\ taken.id = o

LEMMA FinitePaths == IsFiniteSet(Paths)
<1>1. \A S \in {Ids, OrderIds, DocNames, RespIds} : IsFiniteSet(S) BY TenantAssumption
<1> DEFINE A == {AttPath(i) : i \in Ids}
           R == {RevPath(i) : i \in Ids}
           O == {OrderPath(o) : o \in OrderIds}
           D == {DocPath(n) : n \in DocNames}
           P == {RespPath(i, r) : i \in Ids, r \in RespIds}
<1>2. IsFiniteSet(A)
  <2>1. [i \in Ids |-> AttPath(i)] \in Surjection(Ids, A) BY DEF Surjection
  <2> QED BY <1>1, <2>1, FS_Surjection
<1>3. IsFiniteSet(R)
  <2>1. [i \in Ids |-> RevPath(i)] \in Surjection(Ids, R) BY DEF Surjection
  <2> QED BY <1>1, <2>1, FS_Surjection
<1>4. IsFiniteSet(O)
  <2>1. [o \in OrderIds |-> OrderPath(o)] \in Surjection(OrderIds, O) BY DEF Surjection
  <2> QED BY <1>1, <2>1, FS_Surjection
<1>5. IsFiniteSet(D)
  <2>1. [n \in DocNames |-> DocPath(n)] \in Surjection(DocNames, D) BY DEF Surjection
  <2> QED BY <1>1, <2>1, FS_Surjection
<1>6. IsFiniteSet(P)
  <2> DEFINE f == [x \in Ids \X RespIds |-> RespPath(x[1], x[2])]
  <2>1. \A y \in P : \E x \in Ids \X RespIds : f[x] = y
    <3> SUFFICES ASSUME NEW i \in Ids, NEW r \in RespIds
                 PROVE  \E x \in Ids \X RespIds : f[x] = RespPath(i, r)
      OBVIOUS
    <3>1. <<i, r>> \in Ids \X RespIds /\ f[<<i, r>>] = RespPath(i, r) OBVIOUS
    <3> QED BY <3>1
  <2>2. f \in [Ids \X RespIds -> P]
    <3> SUFFICES ASSUME NEW x \in Ids \X RespIds PROVE f[x] \in P OBVIOUS
    <3>1. x[1] \in Ids /\ x[2] \in RespIds /\ f[x] = RespPath(x[1], x[2]) OBVIOUS
    <3> QED BY <3>1
  <2>3. f \in Surjection(Ids \X RespIds, P) BY <2>1, <2>2 DEF Surjection
  <2>4. IsFiniteSet(Ids \X RespIds) BY <1>1, FS_Product
  <2> HIDE DEF f
  <2> QED BY <2>3, <2>4, FS_Surjection
<1>7. IsFiniteSet({ManifestPath}) BY FS_Singleton
<1>8. Paths = ((((A \cup R) \cup O) \cup D) \cup P) \cup {ManifestPath} BY DEF Paths
<1> HIDE DEF A, R, O, D, P
<1> QED BY <1>2, <1>3, <1>4, <1>5, <1>6, <1>7, <1>8, FS_Union

(* A set of paths has a size, no larger than that of one it is part of, and   *)
(* two sets together no more than both sizes.                                 *)
LEMMA Sizes ==
    ASSUME NEW S \in SUBSET Paths, NEW T \in SUBSET Paths
    PROVE  /\ IsFiniteSet(S) /\ Cardinality(S) \in Nat
           /\ S \subseteq T => Cardinality(S) <= Cardinality(T)
           /\ Cardinality(S \cup T) <= Cardinality(S) + Cardinality(T)
<1>1. IsFiniteSet(S) /\ IsFiniteSet(T) BY FinitePaths, FS_Subset
<1>2. Cardinality(S) \in Nat /\ Cardinality(T) \in Nat BY <1>1, FS_CardinalityType
<1>3. S \subseteq T => Cardinality(S) <= Cardinality(T) BY <1>1, FS_Subset
<1>4. /\ Cardinality(S \cup T) = Cardinality(S) + Cardinality(T) - Cardinality(S \cap T)
      /\ Cardinality(S \cup T) \in Nat
  BY <1>1, FS_Union, FS_CardinalityType
<1>5. Cardinality(S \cap T) \in Nat BY <1>1, FS_Intersection, FS_CardinalityType
<1> QED BY <1>1, <1>2, <1>3, <1>4, <1>5

(* The paths that held files name are no more than the held files counted.    *)
LEMMA HeldPathsBound ==
    ASSUME TypeOK
    PROVE  /\ HeldPaths \subseteq Paths
           /\ HeldUsage \in Nat /\ Cardinality(HeldPaths) <= HeldUsage
<1> DEFINE H == {x \in Ids \X Paths : Held(x[1]) /\ held[x[1]].files[x[2]] # None}
           f == [x \in H |-> x[2]]
<1>1. HeldPaths \subseteq Paths BY DEF HeldPaths, Written
<1>2. IsFiniteSet(H)
  <2>1. IsFiniteSet(Ids \X Paths) BY TenantAssumption, FinitePaths, FS_Product
  <2>2. H \in SUBSET (Ids \X Paths) OBVIOUS
  <2> QED BY <2>1, <2>2, FS_Subset
<1>3. f \in Surjection(H, HeldPaths)
  <2>1. \A x \in H : x[1] \in Ids /\ x[2] \in Paths /\ Held(x[1]) /\ held[x[1]].files[x[2]] # None
    OBVIOUS
  <2>2. \A x \in H : x[2] \in HeldPaths
    <3> SUFFICES ASSUME NEW x \in H PROVE x[2] \in HeldPaths OBVIOUS
    <3>1. x[2] \in Written(held[x[1]].files) BY <2>1 DEF Written
    <3> QED BY <2>1, <3>1 DEF HeldPaths
  <2>3. \A p \in HeldPaths : \E x \in H : x[2] = p
    <3> SUFFICES ASSUME NEW p \in HeldPaths PROVE \E x \in H : x[2] = p OBVIOUS
    <3>1. PICK i \in Ids : Held(i) /\ p \in Written(held[i].files) BY DEF HeldPaths
    <3>2. p \in Paths /\ held[i].files[p] # None BY <3>1 DEF Written
    <3>3. <<i, p>> \in H /\ <<i, p>>[2] = p BY <3>1, <3>2
    <3> QED BY <3>3
  <2> HIDE DEF H
  <2>4. f \in [H -> HeldPaths] BY <2>2
  <2>5. \A p \in HeldPaths : \E x \in H : f[x] = p BY <2>3
  <2> QED BY <2>4, <2>5 DEF Surjection
<1>4. HeldUsage = Cardinality(H) BY DEF HeldUsage
<1> HIDE DEF H, f
<1> QED BY <1>1, <1>2, <1>3, <1>4, FS_Surjection, FS_CardinalityType

(* A step that plans and holds nothing new keeps within the quota ...         *)
LEMMA NothingStored ==
    ASSUME TypeOK, TypeOK', WithinQuota, Stored' \subseteq Stored
    PROVE  WithinQuota'
<1>1. Stored \in SUBSET Paths /\ Stored' \in SUBSET Paths
  BY HeldPathsBound DEF Stored, Written, HeldPaths
<1>2. Cardinality(Stored') \in Nat /\ Cardinality(Stored) \in Nat
      /\ Cardinality(Stored') <= Cardinality(Stored)
  BY <1>1, Sizes
<1>3. Quota \in Nat BY TenantAssumption
<1> QED BY <1>2, <1>3 DEF WithinQuota

(* ... and so does one that plans or holds what the quota check let through.  *)
LEMMA FittingStored ==
    ASSUME TypeOK, TypeOK', NEW N \in SUBSET Paths,
           Stored' \subseteq (Written(tree) \cup HeldPaths) \cup N,
           Usage + HeldUsage + Cardinality(N) <= Quota
    PROVE  WithinQuota'
<1> DEFINE A == Written(tree)
           B == HeldPaths
           S == Stored'
<1>1. A \in SUBSET Paths /\ B \in SUBSET Paths /\ S \in SUBSET Paths
  BY HeldPathsBound DEF Stored, Written, HeldPaths
<1>2. Usage = Cardinality(A) BY DEF Usage
<1>3. HeldUsage \in Nat /\ Cardinality(B) <= HeldUsage BY HeldPathsBound
<1>4. S \subseteq (A \cup B) \cup N OBVIOUS
<1> HIDE DEF A, B, S
<1>5. /\ Cardinality(A) \in Nat /\ Cardinality(B) \in Nat /\ Cardinality(N) \in Nat
      /\ Cardinality(S) \in Nat
  BY <1>1, Sizes
<1>6. A \cup B \in SUBSET Paths /\ (A \cup B) \cup N \in SUBSET Paths BY <1>1
<1>7. Cardinality(A \cup B) \in Nat /\ Cardinality((A \cup B) \cup N) \in Nat
  BY <1>6, Sizes
<1>8. Cardinality(A \cup B) <= Cardinality(A) + Cardinality(B) BY <1>1, Sizes
<1>9. Cardinality((A \cup B) \cup N) <= Cardinality(A \cup B) + Cardinality(N)
  BY <1>6, Sizes
<1>10. Cardinality(S) <= Cardinality((A \cup B) \cup N) BY <1>1, <1>4, <1>6, Sizes
<1>11. Quota \in Nat BY TenantAssumption
<1>12. Cardinality(S) <= Quota
  BY <1>2, <1>3, <1>5, <1>7, <1>8, <1>9, <1>10, <1>11
<1> QED BY <1>12 DEF WithinQuota, S

LEMMA NothingWritten == Written(NoFiles) = {}
BY NoFilesType DEF Written

(* A start of a handler whose files fit.                                      *)
LEMMA StartWithin ==
    ASSUME IInv, TypeOK', NEW fs \in FileMaps, FitsQuota(fs),
           todo' = fs, tree' = tree, held' = held
    PROVE  WithinQuota'
<1> DEFINE N == Written(fs) \ Written(tree)
<1>1. N \in SUBSET Paths BY DEF Written
<1>2. Stored' \subseteq (Written(tree) \cup HeldPaths) \cup N
  BY DEF Stored, HeldPaths, Held
<1>3. Usage + HeldUsage + Cardinality(N) <= Quota BY DEF FitsQuota
<1> HIDE DEF N
<1> QED BY <1>1, <1>2, <1>3, FittingStored DEF IInv

LEMMA WithinInit == Init => WithinQuota
<1> SUFFICES ASSUME Init PROVE WithinQuota OBVIOUS
<1>1. Written(tree) = {} /\ Written(todo) = {} BY NothingWritten DEF Init
<1>2. HeldPaths = {} BY DEF Init, HeldPaths, Held
<1>3. Cardinality(Stored) = 0
  <2>1. Stored = {} BY <1>1, <1>2 DEF Stored
  <2> QED BY <2>1, FS_EmptySet
<1> QED BY <1>3, TenantAssumption DEF WithinQuota

LEMMA WithinStep == IInv /\ TypeOK' /\ WithinQuota /\ [Next]_vars => WithinQuota'
<1> SUFFICES ASSUME IInv, TypeOK', WithinQuota, [Next]_vars PROVE WithinQuota'
  OBVIOUS
<1>0. TypeOK BY DEF IInv
<1>1. ASSUME NEW m \in Manifests, NEW d \in SUBSET DocNames, Register(m, d)
      PROVE  WithinQuota'
  <2> DEFINE fs == [Docs(m.pins, d) EXCEPT ![ManifestPath] = m]
  <2>1. fs \in FileMaps BY RegisterFilesType
  <2>2. FitsQuota(fs) /\ todo' = fs /\ tree' = tree /\ held' = held
    BY <1>1 DEF Register, Lock, files
  <2> HIDE DEF fs
  <2> QED BY <2>1, <2>2, StartWithin
<1>2. ASSUME NEW a \in Atts, NEW d \in SUBSET DocNames, Publish(a, d)
      PROVE  WithinQuota'
  <2>1. PublishFiles(a, d) \in FileMaps BY PublishFilesType
  <2>2. FitsQuota(PublishFiles(a, d)) /\ todo' = PublishFiles(a, d)
        /\ tree' = tree /\ held' = held
    BY <1>2 DEF Publish, Lock, files
  <2> QED BY <2>1, <2>2, StartWithin
<1>3. ASSUME NEW a \in Atts, NEW d \in SUBSET DocNames, Hold(a, d)
      PROVE  WithinQuota'
  <2> DEFINE fs == PublishFiles(a, d)
             N == Written(fs)
  <2>1. /\ held' = [held EXCEPT ![a.id] = [releaseAt |-> ReleaseTime(a.order), files |-> fs]]
        /\ UNCHANGED <<tree, todo>> /\ Usage + HeldUsage + Cardinality(N) <= Quota
    BY <1>3 DEF Hold
  <2>2. todo = NoFiles BY <1>3 DEF Hold, PublishChecks, Idle, IInv, ControlSafe
  <2>3. N \in SUBSET Paths BY DEF Written
  <2>4. \A i \in Ids : held'[i] = held[i] \/ held'[i].files = fs
    BY <1>0, <2>1 DEF TypeOK
  <2> HIDE DEF fs
  <2>5. HeldPaths' \subseteq HeldPaths \cup N
    BY <2>4 DEF HeldPaths, Held
  <2>6. Stored' \subseteq (Written(tree) \cup HeldPaths) \cup N
    BY <2>1, <2>2, <2>5, NothingWritten DEF Stored
  <2> HIDE DEF N
  <2> QED BY <1>0, <2>1, <2>3, <2>6, FittingStored
<1>4. ASSUME NEW r \in Revs, Revoke(r) PROVE WithinQuota'
  <2>1. /\ todo' = Only(RevPath(r.att), r) /\ tree' = tree /\ held' = held
        /\ r.att \in Ids
    BY <1>4, TenantAssumption DEF Revoke, Lock, files
  <2>2. Written(todo') \subseteq {RevPath(r.att)} BY <2>1, RevokeFilesType DEF Written
  <2>3. Stored' \subseteq Stored BY <2>1, <2>2 DEF Stored, HeldPaths, Held, RevPaths
  <2> QED BY <1>0, <2>3, NothingStored
<1>5. ASSUME NEW i \in Ids, NEW r \in RespIds, Respond(i, r) PROVE WithinQuota'
  <2> DEFINE fs == Only(RespPath(i, r), [rid |-> r, of |-> tree[AttPath(i)]])
  <2>1. tree[AttPath(i)] \in Atts
    BY <1>0, <1>5 DEF Respond, Published, TypeOK, FileMaps, Kinded
  <2>2. fs \in FileMaps BY <2>1, RespondFilesType
  <2>3. FitsQuota(fs) /\ todo' = fs /\ tree' = tree /\ held' = held
    BY <1>5 DEF Respond, Lock, files
  <2> HIDE DEF fs
  <2> QED BY <2>2, <2>3, StartWithin
<1>6. ASSUME NEW q \in Paths, WriteFile(q) PROVE WithinQuota'
  <2>1. /\ tree' = [tree EXCEPT ![q] = todo[q]] /\ todo' = [todo EXCEPT ![q] = None]
        /\ todo[q] # None /\ held' = held
    BY <1>6 DEF WriteFile
  <2>2. \A p \in Paths : /\ tree'[p] # None => tree[p] # None \/ todo[p] # None
                         /\ todo'[p] # None => todo[p] # None
    BY <1>0, <2>1 DEF TypeOK, FileMaps
  <2>3. Stored' \subseteq Stored BY <2>1, <2>2 DEF Stored, Written, HeldPaths, Held
  <2> QED BY <1>0, <2>3, NothingStored
<1>7. CASE Wrote
  <2>1. UNCHANGED <<tree, todo>> BY <1>7 DEF Wrote
  <2>2. \A i \in Ids : held'[i] # None => held'[i] = held[i]
    BY <1>0, <1>7 DEF Wrote, TypeOK
  <2>3. HeldPaths' \subseteq HeldPaths BY <2>2 DEF HeldPaths, Held
  <2>4. Stored' \subseteq Stored BY <2>1, <2>3 DEF Stored
  <2> QED BY <1>0, <2>4, NothingStored
<1>8. ASSUME NEW i \in Ids, Release(i) PROVE WithinQuota'
  <2>1. UNCHANGED <<tree, held>> /\ (todo' = todo \/ todo' = held[i].files)
    BY <1>8 DEF Release, files
  <2>2. Held(i) BY <1>8 DEF Release, IInv, ControlSafe
  <2>3. Written(held[i].files) \subseteq HeldPaths BY <2>2 DEF HeldPaths
  <2>4. Stored' \subseteq Stored BY <2>1, <2>3 DEF Stored, HeldPaths, Held
  <2> QED BY <1>0, <2>4, NothingStored
<1>9. ASSUME UNCHANGED <<tree, held>>, todo' = todo \/ todo' = NoFiles
      PROVE  WithinQuota'
  <2>1. Stored' \subseteq Stored BY <1>9, NothingWritten DEF Stored, HeldPaths, Held
  <2> QED BY <1>0, <2>1, NothingStored
<1>10. CASE \/ \E o \in OrderIds : PostOrder(o) \/ Decline(o)
            \/ Fulfil \/ Sign \/ CannotSign \/ Released \/ ResignAll \/ DiskError
            \/ Crash \/ Tick \/ StepBack \/ Disable \/ UNCHANGED vars
  <2>1. UNCHANGED <<tree, held>>
    BY <1>10 DEF PostOrder, Decline, Fulfil, Sign, CannotSign, Released, ResignAll,
                 DiskError, Crash, Tick, StepBack, Disable, files, vars
  <2>2. todo' = todo \/ todo' = NoFiles
    BY <1>10 DEF PostOrder, Decline, Fulfil, Sign, CannotSign, Released, ResignAll,
                 DiskError, Crash, Tick, StepBack, Disable, Unlock, handler, vars
  <2> QED BY <1>9, <2>1, <2>2
<1> QED BY <1>1, <1>2, <1>3, <1>4, <1>5, <1>6, <1>7, <1>8, <1>10
        DEF Next, Requests, Handlers

LEMMA OrderPathsDiffer ==
    \A o \in OrderIds :
        /\ OrderPath(o) \in Paths /\ OrderPath(o) # ManifestPath
        /\ \A q \in OrderIds : OrderPath(o) = OrderPath(q) => o = q
        /\ \A n \in DocNames : OrderPath(o) # DocPath(n)
        /\ \A i \in Ids : /\ OrderPath(o) # AttPath(i) /\ OrderPath(o) # RevPath(i)
                          /\ \A r \in RespIds : OrderPath(o) # RespPath(i, r)
BY PathsDiffer DEF Paths, AttPath, RevPath, RespPath, OrderPath, DocPath, ManifestPath

(* Publishing writes the order of its attestation and no other.               *)
LEMMA PublishOrder ==
    ASSUME NEW a \in Atts, NEW d \in SUBSET DocNames, NEW o \in OrderIds,
           PublishFiles(a, d)[OrderPath(o)] # None
    PROVE  a.order # None /\ a.order.id = o
<1> DEFINE D == Docs(a.pins, d)
<1>1. /\ a.pins \in [DocNames -> Versions \cup {None}] /\ a.id \in Ids
      /\ a.order # None => a.order \in Orders /\ a.order.id \in OrderIds
  BY TenantAssumption
<1>2. D \in [Paths -> Contents \cup {None}] BY <1>1, DocsOffered DEF FileMaps
<1>3. D[OrderPath(o)] = None BY OrderPathsDiffer DEF Docs
<1>4. PublishFiles(a, d) = [(IF a.order = None THEN D
                             ELSE [D EXCEPT ![OrderPath(a.order.id)] = a.order])
                              EXCEPT ![AttPath(a.id)] = a]
  BY DEF PublishFiles
<1> HIDE DEF D
<1>5. OrderPath(o) # AttPath(a.id) BY <1>1, OrderPathsDiffer
<1>6. CASE a.order = None
  <2>1. PublishFiles(a, d) = [D EXCEPT ![AttPath(a.id)] = a] BY <1>4, <1>6
  <2>2. PublishFiles(a, d)[OrderPath(o)] = D[OrderPath(o)]
    BY <1>2, <1>5, <2>1, OrderPathsDiffer
  <2> QED BY <1>3, <2>2
<1>7. CASE a.order # None /\ a.order.id # o
  <2>1. PublishFiles(a, d) = [[D EXCEPT ![OrderPath(a.order.id)] = a.order]
                                EXCEPT ![AttPath(a.id)] = a]
    BY <1>4, <1>7
  <2>2. OrderPath(o) # OrderPath(a.order.id) BY <1>1, <1>7, OrderPathsDiffer
  <2>3. PublishFiles(a, d)[OrderPath(o)] = D[OrderPath(o)]
    BY <1>2, <1>5, <2>1, <2>2, OrderPathsDiffer
  <2> QED BY <1>3, <2>3
<1> QED BY <1>6, <1>7

(* A step that adds nothing to the queue and answers no further order.        *)
LEMMA NothingAnswered ==
    ASSUME QueueClear, inbox' \subseteq inbox, inbox \subseteq OrderIds,
           crashes' = 0 => crashes = 0, faults' = 0 => faults = 0,
           \A o \in OrderIds : Answered(o)' => Answered(o),
           \/ /\ taken' = taken
              /\ taken # None => pc' = "fulfil" \/ (pc' = "write" /\ op' = "publish")
           \/ /\ taken' = None
              /\ \/ taken = None \/ crashes' # 0 \/ faults' # 0
                 \/ taken.id \notin inbox'
    PROVE  QueueClear'
BY DEF QueueClear

LEMMA QueueStep == IInv /\ IInv' /\ QueueClear /\ [Next]_vars => QueueClear'
<1> SUFFICES ASSUME IInv, IInv', QueueClear, [Next]_vars PROVE QueueClear'
  OBVIOUS
<1> USE DEF IInv
<1>0. /\ \A o \in OrderIds : OrderPath(o) \in Paths /\ NoFiles[OrderPath(o)] = None
      /\ inbox \subseteq OrderIds /\ crashes \in Nat /\ faults \in Nat
  BY NoFilesType, OrderPathsDiffer DEF TypeOK
<1>1. ASSUME NEW fs \in FileMaps, todo' = fs, UNCHANGED <<tree, held, inbox, taken, crashes, faults>>,
             pc = "idle", \A o \in OrderIds : fs[OrderPath(o)] = None
      PROVE  QueueClear'
  <2>1. \A o \in OrderIds : Answered(o)' => Answered(o)
    BY <1>1 DEF Answered, HeldOrder, Held
  <2>2. taken = None BY <1>1 DEF QueueClear
  <2> QED BY <1>0, <1>1, <2>1, <2>2, NothingAnswered
<1>2. ASSUME NEW m \in Manifests, NEW d \in SUBSET DocNames, Register(m, d)
      PROVE  QueueClear'
  <2> DEFINE D == Docs(m.pins, d)
             fs == [D EXCEPT ![ManifestPath] = m]
  <2>1. m.pins \in [DocNames -> Versions \cup {None}] BY TenantAssumption
  <2>2. D \in [Paths -> Contents \cup {None}] BY <2>1, DocsOffered DEF FileMaps
  <2>3. \A o \in OrderIds : D[OrderPath(o)] = None BY OrderPathsDiffer DEF Docs
  <2> HIDE DEF D
  <2>4. \A o \in OrderIds : fs[OrderPath(o)] = None BY <2>2, <2>3, OrderPathsDiffer
  <2>5. fs \in FileMaps BY RegisterFilesType DEF D
  <2>6. /\ todo' = fs /\ UNCHANGED <<tree, held, inbox, taken, crashes, faults>>
        /\ pc = "idle"
    BY <1>2 DEF Register, Lock, files, env, Idle, D
  <2> HIDE DEF fs
  <2> QED BY <1>1, <2>4, <2>5, <2>6
<1>3. ASSUME NEW r \in Revs, Revoke(r) PROVE QueueClear'
  <2> DEFINE fs == Only(RevPath(r.att), r)
  <2>1. /\ todo' = fs /\ UNCHANGED <<tree, held, inbox, taken, crashes, faults>>
        /\ pc = "idle" /\ r.att \in Ids
    BY <1>3, TenantAssumption DEF Revoke, Lock, files, env, Idle
  <2>2. fs \in FileMaps /\ \A o \in OrderIds : fs[OrderPath(o)] = None
    BY <2>1, RevokeFilesType, OrderPathsDiffer
  <2> HIDE DEF fs
  <2> QED BY <1>1, <2>1, <2>2
<1>4. ASSUME NEW i \in Ids, NEW r \in RespIds, Respond(i, r) PROVE QueueClear'
  <2> DEFINE fs == Only(RespPath(i, r), [rid |-> r, of |-> tree[AttPath(i)]])
  <2>1. /\ todo' = fs /\ UNCHANGED <<tree, held, inbox, taken, crashes, faults>>
        /\ pc = "idle"
    BY <1>4 DEF Respond, Lock, files, env, Idle
  <2>2. tree[AttPath(i)] \in Atts
    BY <1>4 DEF Respond, Published, TypeOK, FileMaps, Kinded
  <2>3. fs \in FileMaps /\ \A o \in OrderIds : fs[OrderPath(o)] = None
    BY <2>2, RespondFilesType, OrderPathsDiffer
  <2> HIDE DEF fs
  <2> QED BY <1>1, <2>1, <2>3
<1>5. ASSUME NEW a \in Atts, NEW d \in SUBSET DocNames, Publish(a, d) PROVE QueueClear'
  <2>1. /\ todo' = PublishFiles(a, d) /\ taken' = a.order /\ op' = "publish" /\ pc' = "write"
        /\ UNCHANGED <<tree, held, inbox, crashes, faults>> /\ pc = "idle"
    BY <1>5 DEF Publish, PublishChecks, Lock, files, env, Idle
  <2>2. \A o \in OrderIds : todo'[OrderPath(o)] # None => taken' # None /\ taken'.id = o
    BY <2>1, PublishOrder
  <2>3. taken = None BY <2>1 DEF QueueClear
  <2>4. \A o \in OrderIds : Answered(o)' => Answered(o) \/ todo'[OrderPath(o)] # None
    BY <2>1 DEF Answered, HeldOrder, Held
  <2>5. ASSUME crashes' = 0, faults' = 0, NEW o \in inbox', Answered(o)'
        PROVE  taken' # None /\ taken'.id = o
    <3>1. o \in inbox /\ o \in OrderIds BY <1>0, <2>1
    <3>2. ~Answered(o) BY <2>1, <2>3, <2>5, <3>1 DEF QueueClear
    <3> QED BY <2>2, <2>4, <2>5, <3>1, <3>2
  <2> QED BY <2>1, <2>5 DEF QueueClear
<1>6. ASSUME NEW a \in Atts, NEW d \in SUBSET DocNames, Hold(a, d) PROVE QueueClear'
  <2>1. /\ held' = [held EXCEPT ![a.id] = [ releaseAt |-> ReleaseTime(a.order),
                                            files |-> PublishFiles(a, d) ]]
        /\ taken' = a.order /\ pc' = "fulfil" /\ pc = "idle"
        /\ UNCHANGED <<tree, todo, inbox, crashes, faults>>
    BY <1>6 DEF Hold, PublishChecks, env, Idle
  <2>2. \A i \in Ids : held'[i] = held[i] \/ held'[i].files = PublishFiles(a, d)
    BY <2>1 DEF TypeOK
  <2>3. taken = None BY <2>1 DEF QueueClear
  <2>4. \A o \in OrderIds : Answered(o)' => Answered(o) \/ (taken' # None /\ taken'.id = o)
    <3> SUFFICES ASSUME NEW o \in OrderIds, Answered(o)', ~Answered(o)
                 PROVE  taken' # None /\ taken'.id = o
      OBVIOUS
    <3>1. PICK i \in Ids : held'[i] # None /\ held'[i].files[OrderPath(o)] # None
      BY <2>1 DEF Answered, HeldOrder, Held
    <3>2. held'[i] # held[i] BY <3>1 DEF Answered, HeldOrder, Held
    <3>3. PublishFiles(a, d)[OrderPath(o)] # None BY <2>2, <3>1, <3>2
    <3> QED BY <2>1, <3>3, PublishOrder
  <2>5. ASSUME crashes' = 0, faults' = 0, NEW o \in inbox', Answered(o)'
        PROVE  taken' # None /\ taken'.id = o
    <3>1. o \in inbox /\ o \in OrderIds BY <1>0, <2>1
    <3>2. ~Answered(o) BY <2>1, <2>3, <2>5, <3>1 DEF QueueClear
    <3> QED BY <2>4, <2>5, <3>1, <3>2
  <2>6. crashes' = 0 /\ faults' = 0 =>
           \A o \in inbox' : Answered(o)' => taken' # None /\ taken'.id = o
    BY <2>5
  <2>7. taken' # None => pc' = "fulfil" BY <2>1
  <2> QED BY <2>6, <2>7 DEF QueueClear
<1>7. ASSUME NEW o \in OrderIds, PostOrder(o) PROVE QueueClear'
  <2>1. /\ tree[OrderPath(o)] = None /\ ~HeldOrder(o) /\ inbox' = inbox \cup {o}
        /\ UNCHANGED <<tree, held, todo, taken, pc, op, crashes, faults>> /\ pc = "idle"
    BY <1>7 DEF PostOrder, handler, env, Idle
  <2>2. todo = NoFiles BY <2>1 DEF ControlSafe
  <2>3. ~Answered(o) BY <1>0, <2>1, <2>2 DEF Answered
  <2>4. \A q \in OrderIds : Answered(q)' => Answered(q)
    BY <2>1 DEF Answered, HeldOrder, Held
  <2>5. ASSUME crashes' = 0, faults' = 0, NEW q \in inbox', Answered(q)'
        PROVE  taken' # None /\ taken'.id = q
    <3>1. q \in OrderIds /\ Answered(q) BY <1>0, <2>1, <2>4, <2>5
    <3>2. q \in inbox BY <2>1, <2>3, <3>1
    <3> QED BY <2>1, <2>5, <3>1, <3>2 DEF QueueClear
  <2> QED BY <2>1, <2>5 DEF QueueClear
<1>8. ASSUME NEW o \in OrderIds, Decline(o) PROVE QueueClear'
  <2>1. /\ inbox' \subseteq inbox
        /\ UNCHANGED <<tree, held, todo, taken, pc, op, crashes, faults>>
    BY <1>8 DEF Decline, handler, env
  <2>2. \A q \in OrderIds : Answered(q)' => Answered(q)
    BY <2>1 DEF Answered, HeldOrder, Held
  <2> QED BY <1>0, <2>1, <2>2, NothingAnswered DEF QueueClear
<1>9. ASSUME NEW p \in Paths, WriteFile(p) PROVE QueueClear'
  <2>1. /\ tree' = [tree EXCEPT ![p] = todo[p]] /\ todo' = [todo EXCEPT ![p] = None]
        /\ todo[p] # None /\ UNCHANGED <<held, inbox, taken, pc, op, crashes, faults>>
    BY <1>9 DEF WriteFile, env
  <2>2. \A o \in OrderIds : Answered(o)' => Answered(o)
    <3>1. \A q \in Paths : /\ tree'[q] # None => tree[q] # None \/ todo[q] # None
                           /\ todo'[q] # None => todo[q] # None
      BY <2>1 DEF TypeOK, FileMaps
    <3> QED BY <1>0, <2>1, <3>1 DEF Answered, HeldOrder, Held
  <2> QED BY <1>0, <2>1, <2>2, NothingAnswered DEF QueueClear
<1>10. CASE Wrote
  <2>1. /\ pc = "write" /\ UNCHANGED <<tree, todo, inbox, taken, op, crashes, faults>>
        /\ (op = "publish" => pc' = "fulfil")
    BY <1>10 DEF Wrote, env
  <2>2. \A i \in Ids : held'[i] # None => held'[i] = held[i]
    BY <1>10 DEF Wrote, TypeOK
  <2>3. \A o \in OrderIds : Answered(o)' => Answered(o)
    BY <2>1, <2>2 DEF Answered, HeldOrder, Held
  <2>4. taken # None => pc' = "fulfil" \/ (pc' = "write" /\ op' = "publish")
    BY <2>1 DEF QueueClear
  <2>5. inbox' \subseteq inbox /\ taken' = taken /\ crashes' = crashes /\ faults' = faults
    BY <2>1
  <2> QED BY <1>0, <2>3, <2>4, <2>5, NothingAnswered
<1>11. CASE Fulfil
  <2>1. /\ UNCHANGED <<tree, held, crashes, faults>> /\ taken' = None
        /\ inbox' = IF taken = None THEN inbox ELSE inbox \ {taken.id}
    BY <1>11 DEF Fulfil, Unlock, env
  <2>2. todo' = todo \/ todo' = NoFiles BY <1>11 DEF Fulfil, Unlock
  <2>3. \A o \in OrderIds : Answered(o)' => Answered(o)
    BY <1>0, <2>1, <2>2 DEF Answered, HeldOrder, Held
  <2> QED BY <1>0, <2>1, <2>3, NothingAnswered
<1>12. CASE Sign \/ CannotSign
  <2>1. /\ UNCHANGED <<tree, held, inbox, crashes, faults>> /\ taken' = None
        /\ todo' = NoFiles /\ pc = "sign"
    BY <1>12 DEF Sign, CannotSign, Unlock, files, env
  <2>2. taken = None BY <2>1 DEF QueueClear
  <2>3. \A o \in OrderIds : Answered(o)' => Answered(o)
    BY <1>0, <2>1 DEF Answered, HeldOrder, Held
  <2> QED BY <1>0, <2>1, <2>2, <2>3, NothingAnswered
<1>13. ASSUME NEW i \in Ids, Release(i) PROVE QueueClear'
  <2>1. /\ UNCHANGED <<tree, held, inbox, op, taken, crashes, faults>> /\ pc = "next"
        /\ Held(i) /\ (todo' = todo \/ todo' = held[i].files)
    BY <1>13 DEF Release, files, env, ControlSafe
  <2>2. taken = None BY <2>1 DEF QueueClear
  <2>3. \A o \in OrderIds : Answered(o)' => Answered(o)
    BY <2>1 DEF Answered, HeldOrder, Held
  <2> QED BY <1>0, <2>1, <2>2, <2>3, NothingAnswered
<1>14. CASE Released \/ ResignAll
  <2>1. /\ UNCHANGED <<tree, held, inbox, todo, taken, crashes, faults>>
        /\ pc \in {"next", "idle"}
    BY <1>14 DEF Released, ResignAll, Idle, files, env
  <2>2. taken = None BY <2>1 DEF QueueClear
  <2>3. \A o \in OrderIds : Answered(o)' => Answered(o)
    BY <2>1 DEF Answered, HeldOrder, Held
  <2> QED BY <1>0, <2>1, <2>2, <2>3, NothingAnswered
<1>15. CASE DiskError \/ Crash
  <2>1. crashes' # 0 \/ faults' # 0 BY <1>0, <1>15 DEF DiskError, Crash
  <2>2. taken' # None => pc' = "fulfil" \/ (pc' = "write" /\ op' = "publish")
    <3>1. CASE Unlock BY <3>1 DEF Unlock
    <3>2. CASE op = "resignall" /\ pc = "write" /\ UNCHANGED taken
      BY <3>2 DEF QueueClear
    <3> QED BY <1>15, <3>1, <3>2 DEF DiskError, Crash
  <2> QED BY <2>1, <2>2 DEF QueueClear
<1>16. CASE Tick \/ StepBack \/ Disable \/ UNCHANGED vars
  <2>1. UNCHANGED <<tree, held, inbox, todo, taken, pc, op, crashes, faults>>
    BY <1>16 DEF Tick, StepBack, Disable, files, handler, env, vars
  <2>2. \A o \in OrderIds : Answered(o)' => Answered(o)
    BY <2>1 DEF Answered, HeldOrder, Held
  <2> QED BY <1>0, <2>1, <2>2, NothingAnswered DEF QueueClear
<1> QED BY <1>2, <1>3, <1>4, <1>5, <1>6, <1>7, <1>8, <1>9, <1>10, <1>11, <1>12,
           <1>13, <1>14, <1>15, <1>16 DEF Next, Requests, Handlers

(* What the hub stores for an auditor stays within its quota, revocations     *)
(* apart, and without a crash or a disk error no answered order is queued     *)
(* (writeFiles and its heldUsage, fulfilled, postOrder).                      *)
THEOREM QueueIsSound == Spec => []QueueSound
<1>1. Init => WithinQuota /\ QueueClear
  <2>1. Init => QueueClear BY DEF Init, QueueClear
  <2> QED BY <2>1, WithinInit
<1>2. Spec => [](WithinQuota /\ QueueClear)
  <2>1. IInv => TypeOK BY DEF IInv
  <2> QED BY <1>1, <2>1, WithinStep, QueueStep, Inductive, PTL DEF Spec
<1>3. IInv /\ WithinQuota /\ QueueClear => QueueSound
  <2> SUFFICES ASSUME IInv, WithinQuota, QueueClear PROVE QueueSound OBVIOUS
  <2>1. QuotaKept
    <3> DEFINE S == (Written(tree) \cup HeldPaths) \ RevPaths
    <3>1. S \in SUBSET Paths /\ Stored \in SUBSET Paths /\ S \subseteq Stored
      BY HeldPathsBound DEF Stored, Written, IInv, HeldPaths
    <3>2. Cardinality(S) <= Cardinality(Stored) /\ Cardinality(S) \in Nat
          /\ Cardinality(Stored) \in Nat
      BY <3>1, Sizes
    <3>3. Quota \in Nat BY TenantAssumption
    <3>4. Cardinality(S) <= Quota BY <3>2, <3>3 DEF WithinQuota
    <3> QED BY <3>4 DEF QuotaKept, HeldPaths, RevPaths
  <2>2. FulfilledLeavesQueue
    BY DEF QueueClear, FulfilledLeavesQueue, Idle, Answered
  <2> QED BY <2>1, <2>2 DEF QueueSound
<1> QED BY <1>2, <1>3, Inductive, PTL

-------------------------------------------------------------------------------
(* The composition.  A revocation is written only for a published attestation *)
(* (RevSafe), and the list served is the newest of all that were signed       *)
(* (Recorded); with IInv that makes every step of a handler a step of         *)
(* Reliance's auditor or none.                                                *)
RevSafe == \A i \in Ids : todo[RevPath(i)] # None => Published(i)

Recorded ==
    /\ revokedAt \in [Ids -> Nat]
    /\ \A l \in lists : l.epoch \in Nat /\ l.epoch <= PrevEpoch
    /\ status = None => lists = {}
    /\ status # None => \E l \in lists : l.epoch = status.epoch

LEMMA RevStep == IInv /\ RevSafe /\ [Next]_vars => RevSafe'
<1> SUFFICES ASSUME IInv, RevSafe, [Next]_vars, NEW i \in Ids, todo'[RevPath(i)] # None
             PROVE  Published(i)'
  BY DEF RevSafe
<1> DEFINE q == RevPath(i)
<1>1. q \in Paths /\ q \in Immutable /\ AttPath(i) \in Immutable
  BY PathsDiffer DEF Immutable
<1>2. Published(i) => Published(i)'
  BY <1>1, TreeGrows DEF Published
<1> SUFFICES Published(i) BY <1>2
<1>3. CASE todo' = todo BY <1>3 DEF RevSafe
<1>4. CASE todo' = NoFiles BY <1>1, <1>4, NoFilesType
<1>5. ASSUME NEW m \in Manifests, NEW d \in SUBSET DocNames, Register(m, d)
      PROVE Published(i)
  BY <1>1, <1>5, RegisterFilesType DEF Register, Lock
<1>6. ASSUME NEW a \in Atts, NEW d \in SUBSET DocNames, Publish(a, d) PROVE Published(i)
  <2>1. a.id \in Ids BY TenantAssumption
  <2>2. q # AttPath(a.id) BY <2>1, PathsDiffer
  <2>3. todo'[q] = None BY <1>1, <1>6, <2>2, PublishFilesType DEF Publish, Lock
  <2> QED BY <2>3
<1>7. ASSUME NEW r \in Revs, Revoke(r) PROVE Published(i)
  <2>1. r.att \in Ids BY TenantAssumption
  <2>2. todo'[q] = IF q = RevPath(r.att) THEN r ELSE None
    BY <1>1, <1>7, RevokeFilesType DEF Revoke, Lock
  <2>3. r.att = i BY <2>1, <2>2, PathsDiffer
  <2> QED BY <1>7, <2>3 DEF Revoke
<1>8. ASSUME NEW j \in Ids, NEW r \in RespIds, Respond(j, r) PROVE Published(i)
  <2>1. tree[AttPath(j)] \in Atts
    BY <1>8 DEF Respond, Published, IInv, TypeOK, FileMaps, Kinded
  <2>2. q # RespPath(j, r) BY PathsDiffer
  <2>3. todo'[q] = None BY <1>1, <1>8, <2>1, <2>2, RespondFilesType DEF Respond, Lock
  <2> QED BY <2>3
<1>9. ASSUME NEW p \in Paths, WriteFile(p) PROVE Published(i)
  <2>1. todo[q] # None BY <1>1, <1>9 DEF WriteFile, IInv, TypeOK, FileMaps
  <2> QED BY <2>1 DEF RevSafe
<1>10. ASSUME NEW j \in Ids, Release(j), todo' # todo PROVE Published(i)
  <2>1. todo' = held[j].files /\ Held(j) BY <1>10 DEF Release, IInv, ControlSafe
  <2>2. q = AttPath(j) BY <1>1, <2>1 DEF IInv, HeldSafe
  <2> QED BY <2>2, PathsDiffer
<1>11. todo' = todo \/ todo' = NoFiles
       \/ (\E m \in Manifests, d \in SUBSET DocNames : Register(m, d))
       \/ (\E a \in Atts, d \in SUBSET DocNames : Publish(a, d))
       \/ (\E r \in Revs : Revoke(r)) \/ (\E j \in Ids, r \in RespIds : Respond(j, r))
       \/ (\E p \in Paths : WriteFile(p)) \/ (\E j \in Ids : Release(j))
  BY DEF Next, Requests, Handlers, Hold, PostOrder, Decline, Wrote, Fulfil, Sign,
         CannotSign, Released, ResignAll, DiskError, Crash, Tick, StepBack, Disable,
         Unlock, handler, vars
<1> QED BY <1>3, <1>4, <1>5, <1>6, <1>7, <1>8, <1>9, <1>10, <1>11

(* What one step of the hub changes for a client: a file, the list, the time, *)
(* or nothing.                                                                *)
LEMMA HubSteps ==
    [Next]_vars =>
        \/ (\E p \in Paths : WriteFile(p)) /\ UNCHANGED <<status, now>>
        \/ Sign /\ UNCHANGED <<tree, now>>
        \/ (Tick \/ StepBack) /\ UNCHANGED <<tree, status>>
        \/ UNCHANGED <<tree, status, now>>
BY DEF Next, Requests, Handlers, Register, Publish, Hold, Revoke, Respond, PostOrder,
       Decline, WriteFile, Wrote, Fulfil, Sign, CannotSign, Release, Released,
       ResignAll, DiskError, Crash, Tick, StepBack, Disable, files, env, vars


(* The newest epoch Reliance's auditor signed is the one ResignStatus reads.  *)
LEMMA NewestSigned ==
    ASSUME IInv, Recorded
    PROVE  Relying!LastEpochSigned = PrevEpoch
<1> DEFINE S == {0} \cup {l.epoch : l \in lists}
<1>1. PrevEpoch \in Nat BY DEF IInv, TypeOK, PrevEpoch, Lists
<1>2. S \subseteq Nat /\ \A y \in S : PrevEpoch >= y
  BY <1>1 DEF Recorded
<1>3. PrevEpoch \in S
  <2>1. CASE status = None BY <2>1 DEF PrevEpoch
  <2>2. CASE status # None BY <2>2 DEF PrevEpoch, Recorded
  <2> QED BY <2>1, <2>2
<1>4. Relying!LastEpochSigned = CHOOSE x \in S : \A y \in S : x >= y
  BY DEF Relying!LastEpochSigned, Relying!Max
<1> HIDE DEF S
<1>5. \A x \in S : (\A y \in S : x >= y) => x = PrevEpoch
  BY <1>1, <1>2, <1>3
<1> QED BY <1>2, <1>3, <1>4, <1>5

(* Reliance's auditor reads the tree as Collect does, but for the replies.    *)
LEMMA SameDocuments ==
    ASSUME HostedConstants, TypeOK, NEW i \in Ids
    PROVE  /\ Relying!Pubs[i] # None <=> Collect[i] # None
           /\ Collect[i] # None =>
                 /\ Collect[i] = [ doc |-> tree[AttPath(i)], rev |-> tree[RevPath(i)],
                                   resps |-> Responded(i) ]
                 /\ Relying!Pubs[i] = [ doc |-> tree[AttPath(i)],
                                        rev |-> tree[RevPath(i)], resps |-> {} ]
<1>1. CASE tree[AttPath(i)] = None
  BY <1>1 DEF Relying!Pubs, Collect, Published
<1>2. CASE tree[AttPath(i)] # None
  <2>1. /\ tree[AttPath(i)] \in Atts /\ tree[RevPath(i)] \in Revs \cup {None}
        /\ Responded(i) \in SUBSET RespIds
    BY <1>2 DEF TypeOK, FileMaps, Kinded, Responded
  <2>2. /\ Relying!Pubs[i] = [ doc |-> tree[AttPath(i)], rev |-> tree[RevPath(i)],
                               resps |-> {} ]
        /\ Collect[i] = [ doc |-> tree[AttPath(i)], rev |-> tree[RevPath(i)],
                          resps |-> Responded(i) ]
    BY <1>2 DEF Relying!Pubs, Collect, Published
  <2>3. Relying!Pubs[i] \in Relying!Collectable
    BY <2>1, <2>2 DEF Relying!Collectable
  <2>4. Collect[i] \in [doc : Atts, rev : Revs \cup {None}, resps : SUBSET RespIds]
    BY <2>1, <2>2
  <2>5. Relying!Pubs[i] # None /\ Collect[i] # None
    BY <2>3, <2>4, TenantAssumption DEF HostedConstants
  <2> QED BY <2>2, <2>5
<1> QED BY <1>1, <1>2

(* So it signs the list the hub signs.                                        *)
LEMMA SameList ==
    ASSUME HostedConstants, IInv, Recorded
    PROVE  WithoutReplies(NewStatus) =
           Relying!BuildStatus(Relying!Pubs, now,
               Relying!MinEpoch(Relying!Pubs, Relying!LastEpochSigned))
<1> DEFINE C == Collect
           P == Relying!Pubs
<1>1. DOMAIN C = Ids /\ DOMAIN P = Ids BY DEF Collect, Relying!Pubs
<1>2. \A i \in Ids : /\ P[i] # None <=> C[i] # None
                     /\ C[i] # None => P[i].doc = C[i].doc /\ P[i].rev = C[i].rev
                                       /\ P[i].resps = {}
  <2> SUFFICES ASSUME NEW i \in Ids
               PROVE  /\ P[i] # None <=> C[i] # None
                      /\ C[i] # None => P[i].doc = C[i].doc /\ P[i].rev = C[i].rev
                                        /\ P[i].resps = {}
    OBVIOUS
  <2>1. TypeOK BY DEF IInv
  <2> DEFINE c == Collect[i]  p == Relying!Pubs[i]
  <2>2. /\ p # None <=> c # None
        /\ c # None => /\ c = [ doc |-> tree[AttPath(i)], rev |-> tree[RevPath(i)],
                                 resps |-> Responded(i) ]
                       /\ p = [ doc |-> tree[AttPath(i)], rev |-> tree[RevPath(i)],
                                 resps |-> {} ]
    BY <2>1, SameDocuments
  <2> HIDE DEF c, p
  <2>3. c # None => p.doc = c.doc /\ p.rev = c.rev /\ p.resps = {}
    BY <2>2
  <2> QED BY <2>2, <2>3 DEF c, p
<1> HIDE DEF C, P
<1>3. Relying!MinEpoch(P, PrevEpoch) = MinEpoch(C, PrevEpoch)
  <2> DEFINE J == {j \in Ids : C[j] # None /\ C[j].rev # None}
             K == {j \in Ids : P[j] # None /\ P[j].rev # None}
             A == {0, PrevEpoch} \cup {C[i].rev.epoch : i \in J}
             B == {0, PrevEpoch} \cup {P[i].rev.epoch : i \in K}
  <2>1. J = K BY <1>2
  <2>2. \A i \in J : P[i].rev = C[i].rev BY <1>2
  <2>3. A = B BY <2>1, <2>2
  <2>4. MinEpoch(C, PrevEpoch) = Max(A) BY <1>1 DEF MinEpoch, IsPublished
  <2>5. Relying!MinEpoch(P, PrevEpoch) = Relying!Max(B)
    BY <1>1 DEF Relying!MinEpoch, Relying!IsPublished
  <2> HIDE DEF A, B
  <2> QED BY <2>3, <2>4, <2>5 DEF Max, Relying!Max
<1>4. \A i \in Ids : Relying!SupersededBy(P, i) = SupersededBy(C, i)
  <2> SUFFICES ASSUME NEW i \in Ids
               PROVE  Relying!SupersededBy(P, i) = SupersededBy(C, i)
    OBVIOUS
  <2>1. Relying!Superseders(P, i) = Superseders(C, i)
    BY <1>1, <1>2 DEF Relying!Superseders, Relying!IsPublished, Superseders, IsPublished
  <2> QED BY <2>1 DEF Relying!SupersededBy, SupersededBy, Max, Relying!Max
<1>5. ASSUME NEW i \in Ids, C[i] # None
      PROVE  /\ Relying!Entry(P, i, now) = [Entry(C, i, now) EXCEPT !.resps = {}]
             /\ Entry(C, i, now) # None
  <2>1. Relying!State(P, i, now) = State(C, i, now)
    BY <1>2, <1>4, <1>5 DEF Relying!State, State, Relying!InForce, InForce,
                           Relying!Expired, Expired
  <2>2. Entry(C, i, now) \in Listings
    <3>1. now \in Nat /\ None \notin Ids BY TenantAssumption DEF IInv, TypeOK
    <3>2. Collected(C, Ids, Atts, Revs, RespIds) BY CollectType DEF IInv, C
    <3> QED BY <1>5, <3>1, <3>2, ReferencesAgree DEF Listings
  <2>3. Entry(C, i, now) # None BY <2>2, TenantAssumption DEF Listings
  <2>4. Relying!Entry(P, i, now) = [Entry(C, i, now) EXCEPT !.resps = {}]
    <3> DEFINE s == State(C, i, now)
               e == [ doc |-> C[i].doc, state |-> s,
                      by |-> IF s = "superseded" THEN SupersededBy(C, i) ELSE None,
                      rev |-> IF s = "revoked" THEN C[i].rev ELSE None,
                      resps |-> C[i].resps ]
    <3>1. Entry(C, i, now) = e BY DEF Entry
    <3>2. Relying!Entry(P, i, now) =
            [ doc |-> C[i].doc, state |-> s,
              by |-> IF s = "superseded" THEN SupersededBy(C, i) ELSE None,
              rev |-> IF s = "revoked" THEN C[i].rev ELSE None, resps |-> {} ]
      BY <1>2, <1>4, <1>5, <2>1 DEF Relying!Entry
    <3> HIDE DEF s
    <3>3. [e EXCEPT !.resps = {}] =
            [ doc |-> C[i].doc, state |-> s,
              by |-> IF s = "superseded" THEN SupersededBy(C, i) ELSE None,
              rev |-> IF s = "revoked" THEN C[i].rev ELSE None, resps |-> {} ]
      OBVIOUS
    <3> QED BY <3>1, <3>2, <3>3
  <2> QED BY <2>3, <2>4
<1> DEFINE m == MinEpoch(C, PrevEpoch)
           N == [i \in Ids |-> IF C[i] # None THEN Entry(C, i, now) ELSE None]
           L == [i \in Ids |-> IF P[i] # None THEN Relying!Entry(P, i, now) ELSE None]
<1>6. NewStatus = [ epoch |-> Epoch(now, m), issuedAt |-> now,
                    nextUpdate |-> now + NextUpdateIn, entries |-> N ]
  BY <1>1 DEF NewStatus, BuildStatus, IsPublished, C
<1>7. Relying!BuildStatus(P, now, m) =
        [ epoch |-> Epoch(now, m), issuedAt |-> now,
          nextUpdate |-> now + NextUpdateIn, entries |-> L ]
  BY <1>1 DEF Relying!BuildStatus, Relying!IsPublished, Relying!Epoch, Epoch
<1>8. L = [i \in Ids |-> IF N[i] = None THEN None ELSE [N[i] EXCEPT !.resps = {}]]
  <2>1. \A i \in Ids : (IF P[i] # None THEN Relying!Entry(P, i, now) ELSE None)
           = IF N[i] = None THEN None ELSE [N[i] EXCEPT !.resps = {}]
    <3> SUFFICES ASSUME NEW i \in Ids
                 PROVE  (IF P[i] # None THEN Relying!Entry(P, i, now) ELSE None)
                        = IF N[i] = None THEN None ELSE [N[i] EXCEPT !.resps = {}]
      OBVIOUS
    <3>1. CASE C[i] = None BY <1>2, <3>1
    <3>2. CASE C[i] # None
      <4>1. N[i] = Entry(C, i, now) BY <3>2
      <4> QED BY <1>2, <1>5, <3>2, <4>1
    <3> QED BY <3>1, <3>2
  <2> QED BY <2>1
<1> HIDE DEF N, L, m
<1>9. WithoutReplies(NewStatus) = Relying!BuildStatus(P, now, m)
  <2>1. NewStatus.entries = N BY <1>6
  <2>2. [i \in Ids |-> IF NewStatus.entries[i] = None THEN None
                       ELSE [NewStatus.entries[i] EXCEPT !.resps = {}]] = L
    BY <1>8, <2>1
  <2>3. WithoutReplies(NewStatus) = [NewStatus EXCEPT !.entries = L]
    BY <2>2 DEF WithoutReplies
  <2>4. [NewStatus EXCEPT !.entries = L] =
          [ epoch |-> Epoch(now, m), issuedAt |-> now,
            nextUpdate |-> now + NextUpdateIn, entries |-> L ]
    BY <1>6
  <2> QED BY <1>7, <2>3, <2>4
<1>10. Relying!LastEpochSigned = PrevEpoch BY NewestSigned
<1> QED BY <1>3, <1>9, <1>10 DEF m, P

HostedInv == HostedConstants /\ IInv /\ RevSafe /\ Recorded

LEMMA HostedStart == HostedConstants /\ HostedInit => HostedInv /\ Relying!Init
<1> SUFFICES ASSUME HostedConstants, HostedInit PROVE HostedInv /\ Relying!Init OBVIOUS
<1>1. IInv BY SafeInit DEF HostedInit
<1>2. /\ todo = NoFiles /\ tree = NoFiles /\ status = None /\ now = 0
  BY DEF HostedInit, Init
<1>3. \A i \in Ids : /\ AttPath(i) \in Paths /\ RevPath(i) \in Paths
                     /\ todo[RevPath(i)] = None
                     /\ tree[AttPath(i)] = None /\ tree[RevPath(i)] = None
  BY <1>2, NoFilesType, PathsDiffer
<1>4. RevSafe BY <1>3 DEF RevSafe
<1>5. Recorded BY <1>2 DEF Recorded, HostedInit
<1>6. Relying!Init BY <1>2, <1>3 DEF Relying!Init, HostedInit
<1> QED BY <1>1, <1>4, <1>5, <1>6 DEF HostedInv

(* A list the hub signs is a new one, of the highest epoch.                   *)
LEMMA RecordStep == HostedInv /\ [HostedNext]_hostedVars => Recorded'
<1> SUFFICES ASSUME HostedInv, [HostedNext]_hostedVars PROVE Recorded'
  OBVIOUS
<1> USE DEF HostedInv
<1>1. CASE UNCHANGED <<status, revokedAt, lists>>
  BY <1>1 DEF Recorded, PrevEpoch
<1>2. CASE Hub
  <2>1. [Next]_vars /\ Remember /\ now \in Nat BY <1>2 DEF Hub, IInv, TypeOK
  <2>2. revokedAt' \in [Ids -> Nat] BY <2>1 DEF Remember, Recorded
  <2>3. CASE status' = status
    <3>1. lists' = lists BY <2>1, <2>3 DEF Remember
    <3> QED BY <2>2, <2>3, <3>1 DEF Recorded, PrevEpoch
  <2>4. CASE status' # status
    <3>1. status' = NewStatus BY <2>1, <2>4, StatusStep DEF Sign
    <3>2. lists' = lists \cup {WithoutReplies(NewStatus)}
      BY <2>1, <2>4, <3>1 DEF Remember
    <3>3. NewStatus \in Lists /\ NewStatus.epoch > PrevEpoch
      BY NewStatusFacts DEF IInv
    <3>4. NewStatus # None /\ NewStatus.epoch \in Nat /\ PrevEpoch \in Nat
      BY <3>3 DEF HostedConstants, IInv, TypeOK, Lists, PrevEpoch
    <3>5. WithoutReplies(NewStatus).epoch = NewStatus.epoch
      BY <3>3 DEF WithoutReplies, Lists
    <3>6. PrevEpoch' = NewStatus.epoch BY <3>1, <3>4 DEF PrevEpoch
    <3>7. \A l \in lists' : l.epoch \in Nat /\ l.epoch <= NewStatus.epoch
      BY <3>2, <3>3, <3>4, <3>5 DEF Recorded
    <3>8. \E l \in lists' : l.epoch = NewStatus.epoch BY <3>2, <3>5
    <3> QED BY <2>2, <3>1, <3>4, <3>6, <3>7, <3>8 DEF Recorded
  <2> QED BY <2>3, <2>4
<1>3. ASSUME NEW c \in Clients, Client(c) PROVE Recorded'
  <2>1. UNCHANGED <<status, revokedAt, lists>>
    BY <1>3 DEF Client, vars, Relying!Verify
  <2> QED BY <1>1, <2>1
<1>4. CASE UNCHANGED hostedVars
  BY <1>1, <1>4 DEF hostedVars, vars
<1> QED BY <1>2, <1>3, <1>4 DEF HostedNext

LEMMA HostedKept == HostedInv /\ [HostedNext]_hostedVars => HostedInv'
<1> SUFFICES ASSUME HostedInv, [HostedNext]_hostedVars PROVE HostedInv'
  OBVIOUS
<1>1. [Next]_vars
  BY DEF HostedNext, Hub, Client, hostedVars
<1>2. IInv' /\ RevSafe' BY <1>1, SafeStep, RevStep DEF HostedInv
<1> QED BY <1>2, RecordStep DEF HostedInv

(* What a write changes of the documents a client sees: nothing, or a first   *)
(* attestation, or the revocation of one.                                     *)
LEMMA WriteSeen ==
    ASSUME IInv, RevSafe, NEW p \in Paths, WriteFile(p)
    PROVE  \/ \A i \in Ids : /\ tree'[AttPath(i)] = tree[AttPath(i)]
                             /\ tree'[RevPath(i)] = tree[RevPath(i)]
           \/ \E a \in Atts :
                 /\ tree[AttPath(a.id)] = None
                 /\ \A i \in Ids : tree'[RevPath(i)] = tree[RevPath(i)]
                 /\ \A i \in Ids : tree'[AttPath(i)] =
                                   IF i = a.id THEN a ELSE tree[AttPath(i)]
           \/ \E r \in Revs :
                 /\ tree[AttPath(r.att)] # None /\ tree[RevPath(r.att)] = None
                 /\ \A i \in Ids : tree'[AttPath(i)] = tree[AttPath(i)]
                 /\ \A i \in Ids : tree'[RevPath(i)] =
                                   IF i = r.att THEN r ELSE tree[RevPath(i)]
<1> DEFINE seen == {AttPath(i) : i \in Ids} \cup {RevPath(i) : i \in Ids}
<1>1. /\ todo[p] # None /\ todo[p] = todo[p]
      /\ \A q \in Paths : tree'[q] = IF q = p THEN todo[p] ELSE tree[q]
  BY DEF WriteFile, IInv, TypeOK, FileMaps
<1>2. \A i \in Ids : AttPath(i) \in Paths /\ RevPath(i) \in Paths
  BY PathsDiffer
<1>3. CASE p \notin seen \/ tree[p] # None
  <2>1. \A q \in seen : tree'[q] = tree[q]
    <3> SUFFICES ASSUME NEW q \in seen PROVE tree'[q] = tree[q] OBVIOUS
    <3>1. q \in Paths /\ q \in Immutable BY <1>2 DEF Immutable
    <3>2. CASE q # p BY <1>1, <3>1, <3>2
    <3>3. CASE q = p
      <4>1. tree[q] # None BY <1>3, <3>3
      <4> QED BY <3>1, <4>1, WriteStep
    <3> QED BY <3>2, <3>3
  <2> QED BY <2>1
<1>4. ASSUME NEW i \in Ids, p = AttPath(i), tree[p] = None
      PROVE  \E a \in Atts :
                 /\ tree[AttPath(a.id)] = None
                 /\ \A j \in Ids : tree'[RevPath(j)] = tree[RevPath(j)]
                 /\ \A j \in Ids : tree'[AttPath(j)] =
                                   IF j = a.id THEN a ELSE tree[AttPath(j)]
  <2>1. todo[p] \in Atts /\ todo[p].id = i
    BY <1>1, <1>4 DEF IInv, TypeOK, FileMaps, Kinded
  <2>2. \A j \in Ids : tree'[RevPath(j)] = tree[RevPath(j)]
    BY <1>1, <1>2, <1>4, PathsDiffer
  <2>3. \A j \in Ids : tree'[AttPath(j)] = IF j = i THEN todo[p] ELSE tree[AttPath(j)]
    BY <1>1, <1>2, <1>4, PathsDiffer
  <2> QED BY <1>4, <2>1, <2>2, <2>3
<1>5. ASSUME NEW i \in Ids, p = RevPath(i), tree[p] = None
      PROVE  \E r \in Revs :
                 /\ tree[AttPath(r.att)] # None /\ tree[RevPath(r.att)] = None
                 /\ \A j \in Ids : tree'[AttPath(j)] = tree[AttPath(j)]
                 /\ \A j \in Ids : tree'[RevPath(j)] =
                                   IF j = r.att THEN r ELSE tree[RevPath(j)]
  <2>1. todo[p] \in Revs /\ todo[p].att = i
    BY <1>1, <1>5 DEF IInv, TypeOK, FileMaps, Kinded
  <2>2. tree[AttPath(i)] # None BY <1>1, <1>5 DEF RevSafe, Published
  <2>3. \A j \in Ids : tree'[AttPath(j)] = tree[AttPath(j)]
    BY <1>1, <1>2, <1>5, PathsDiffer
  <2>4. \A j \in Ids : tree'[RevPath(j)] = IF j = i THEN todo[p] ELSE tree[RevPath(j)]
    BY <1>1, <1>2, <1>5, PathsDiffer
  <2> QED BY <1>5, <2>1, <2>2, <2>3, <2>4
<1> QED BY <1>3, <1>4, <1>5

(* A step of the hub is one of Reliance's auditor, or shows a client nothing. *)
LEMMA HubServes ==
    ASSUME HostedInv, Hub
    PROVE  Relying!Next \/ UNCHANGED Relying!vars
<1> DEFINE docs == [i \in Ids |-> tree[AttPath(i)]]
           revs == [i \in Ids |-> tree[RevPath(i)]]
           Still == UNCHANGED <<lists, last, decision, over>>
<1> USE DEF HostedInv
<1>1. /\ [Next]_vars /\ Remember /\ now \in Nat /\ now' >= now
      /\ UNCHANGED <<last, over>> /\ (status' # status => Cardinality(lists) < MaxLists)
  BY DEF Hub, IInv, TypeOK
<1>2. revokedAt \in [Ids -> Nat] BY DEF Recorded
<1>3. status' = status => lists' = lists BY <1>1 DEF Remember
<1>4. now' = now => decision' = decision BY <1>1 DEF Remember
<1>5. (\A i \in Ids : tree'[RevPath(i)] = tree[RevPath(i)]) => revokedAt' = revokedAt
  BY <1>1, <1>2 DEF Remember
<1>6. ASSUME NEW p \in Paths, WriteFile(p), UNCHANGED <<status, now>>
      PROVE  Relying!Next \/ UNCHANGED Relying!vars
  <2>0. Still BY <1>1, <1>3, <1>4, <1>6
  <2>1. CASE \A i \in Ids : /\ tree'[AttPath(i)] = tree[AttPath(i)]
                            /\ tree'[RevPath(i)] = tree[RevPath(i)]
    <3>1. revokedAt' = revokedAt BY <1>5, <2>1
    <3>2. UNCHANGED <<docs, revs>> BY <2>1
    <3> QED BY <1>6, <2>0, <3>1, <3>2 DEF Relying!vars
  <2>2. ASSUME NEW a \in Atts, tree[AttPath(a.id)] = None,
               \A i \in Ids : tree'[RevPath(i)] = tree[RevPath(i)],
               \A i \in Ids : tree'[AttPath(i)] = IF i = a.id THEN a ELSE tree[AttPath(i)]
        PROVE  Relying!Next
    <3>1. a.id \in Ids BY TenantAssumption
    <3>2. revokedAt' = revokedAt /\ UNCHANGED revs BY <1>5, <2>2
    <3>3. docs[a.id] = None /\ docs' = [docs EXCEPT ![a.id] = a] BY <2>2, <3>1
    <3>4. Relying!Publish(a) BY <1>6, <2>0, <3>2, <3>3 DEF Relying!Publish
    <3> QED BY <3>4 DEF Relying!Next
  <2>3. ASSUME NEW r \in Revs, tree[AttPath(r.att)] # None, tree[RevPath(r.att)] = None,
               \A i \in Ids : tree'[AttPath(i)] = tree[AttPath(i)],
               \A i \in Ids : tree'[RevPath(i)] = IF i = r.att THEN r ELSE tree[RevPath(i)]
        PROVE  Relying!Next
    <3>1. r.att \in Ids /\ r # None BY TenantAssumption
    <3>2. UNCHANGED docs BY <2>3
    <3>3. docs[r.att] # None /\ revs[r.att] = None BY <2>3, <3>1
    <3>4. revs' = [revs EXCEPT ![r.att] = r] BY <2>3, <3>1
    <3>5. revokedAt' = [revokedAt EXCEPT ![r.att] = now]
      BY <1>1, <1>2, <2>3, <3>1 DEF Remember
    <3>6. Relying!Revoke(r) BY <1>6, <2>0, <3>2, <3>3, <3>4, <3>5 DEF Relying!Revoke
    <3> QED BY <3>6 DEF Relying!Next
  <2> QED BY <1>6, <2>1, <2>2, <2>3, WriteSeen
<1>7. CASE Sign /\ UNCHANGED <<tree, now>>
  <2>1. status' = NewStatus /\ NewStatus.epoch > PrevEpoch /\ CanSign
    BY <1>7, NewStatusFacts DEF Sign, IInv
  <2>2. status' # status
    <3>1. PrevEpoch \in Nat BY DEF IInv, TypeOK, PrevEpoch, Lists
    <3>2. NewStatus # None
      BY NewStatusFacts DEF HostedConstants, IInv
    <3> QED BY <2>1, <3>1, <3>2 DEF PrevEpoch
  <2> DEFINE l == Relying!BuildStatus(Relying!Pubs, now,
                     Relying!MinEpoch(Relying!Pubs, Relying!LastEpochSigned))
  <2>3. l = WithoutReplies(NewStatus) BY SameList
  <2>4. lists' = lists \cup {l} BY <1>1, <2>1, <2>2, <2>3 DEF Remember
  <2>5. l.epoch = NewStatus.epoch
    BY <2>3, NewStatusFacts DEF WithoutReplies, Lists, IInv
  <2>6. Relying!Encodable(l) BY <2>1, <2>5 DEF CanSign, Encodable, Relying!Encodable
  <2>7. UNCHANGED <<now, docs, revs, revokedAt, last, decision, over>>
    BY <1>1, <1>4, <1>5, <1>7
  <2>8. Relying!Cardinality(lists) < MaxLists
    <3>1. Relying!Cardinality(lists) = Cardinality(lists)
      BY DEF Relying!Cardinality, Cardinality
    <3> QED BY <1>1, <2>2, <3>1
  <2> HIDE DEF l
  <2>9. Relying!SignList BY <2>4, <2>6, <2>7, <2>8 DEF Relying!SignList, l
  <2> QED BY <2>9 DEF Relying!Next
<1>8. CASE (Tick \/ StepBack) /\ UNCHANGED <<tree, status>>
  <2>1. Tick BY <1>1, <1>8 DEF StepBack
  <2>2. now < MaxTime /\ now' = now + 1 BY <2>1 DEF Tick
  <2>3. decision' = [c \in Clients |-> Relying!NoDecision]
    BY <1>1, <2>2 DEF Remember
  <2>4. UNCHANGED <<docs, revs, revokedAt, lists, last, over>>
    BY <1>1, <1>3, <1>5, <1>8
  <2>5. Relying!Tick BY <2>2, <2>3, <2>4 DEF Relying!Tick
  <2> QED BY <2>5 DEF Relying!Next
<1>9. CASE UNCHANGED <<tree, status, now>>
  <2>1. UNCHANGED <<now, docs, revs, revokedAt, lists, last, decision, over>>
    BY <1>1, <1>3, <1>4, <1>5, <1>9
  <2> QED BY <2>1 DEF Relying!vars
<1> QED BY <1>1, <1>6, <1>7, <1>8, <1>9, HubSteps

LEMMA StepServes ==
    HostedInv /\ [HostedNext]_hostedVars => [Relying!Next]_(Relying!vars)
<1> SUFFICES ASSUME HostedInv, [HostedNext]_hostedVars
             PROVE  Relying!Next \/ UNCHANGED Relying!vars
  OBVIOUS
<1>1. CASE Hub BY <1>1, HubServes
<1>2. ASSUME NEW c \in Clients, Client(c) PROVE Relying!Next
  BY <1>2 DEF Client, Relying!Next
<1>3. CASE UNCHANGED hostedVars
  <2>1. UNCHANGED <<now, tree, revokedAt, lists, last, decision, over>>
    BY <1>3 DEF hostedVars, vars
  <2> QED BY <2>1 DEF Relying!vars
<1> QED BY <1>1, <1>2, <1>3 DEF HostedNext

(* A hosted auditor, whatever its handlers, crashes and disk errors do, is to *)
(* its clients the auditor of Reliance (writeFiles, release, resign; Verify). *)
THEOREM HubImplementsReliance ==
    ASSUME HostedConstants
    PROVE  HostedSpec => ServesReliance
<1>1. HostedSpec => []HostedInv
  BY HostedStart, HostedKept, PTL DEF HostedSpec
<1> QED BY <1>1, HostedStart, StepServes, PTL DEF HostedSpec, ServesReliance, Relying!Spec

-------------------------------------------------------------------------------
(* RelianceProofs, about the same reading of the tree as Relying.             *)
Assured == INSTANCE RelianceProofs WITH
                doc <- [i \in Ids |-> tree[AttPath(i)]],
                rev <- [i \in Ids |-> tree[RevPath(i)]]

(* What those proofs assume of their constants holds of the hub's.            *)
LEMMA RelianceAssumed ==
    ASSUME HostedConstants
    PROVE  Assured!RelianceAssumption /\ Assured!StatusListAssumption
<1>1. /\ Ids \subseteq Nat /\ IsFiniteSet(Ids)
      /\ \A a \in Atts : /\ a.id \in Ids /\ a.supersedes \in Ids \cup {None}
                         /\ a.expiresAt \in Nat \cup {None}
      /\ Revs \subseteq [att : Ids, from : Nat, epoch : Nat]
      /\ Skew \in Nat /\ MaxTime \in Nat
      /\ None \notin Ids /\ None \notin Atts /\ None \notin Revs
  BY TenantAssumption
<1>2. None \notin Assured!Collectable /\ None \notin Assured!Lists
  BY DEF HostedConstants, Relying!Collectable, Assured!Collectable,
         Relying!Lists, Assured!Lists, Relying!Entries,
         Assured!Entries, Relying!States, Assured!States
<1>3. Assured!IsFiniteSet(Ids) BY <1>1 DEF Assured!IsFiniteSet, IsFiniteSet
<1>4. Assured!RelianceAssumption
  BY <1>1, <1>2, <1>3 DEF HostedConstants, Assured!RelianceAssumption
<1>5. Assured!StatusListAssumption
  BY StatusListAssumption DEF Assured!StatusListAssumption, StatusListAssumption
<1> QED BY <1>4, <1>5

(* Both instances are the same system, action by action.                      *)
LEMMA SameReliance ==
    /\ Relying!Init => Assured!Init
    /\ [Relying!Next]_(Relying!vars) => [Assured!Next]_(Assured!vars)
<1>1. Relying!Init => Assured!Init
  BY DEF Relying!Init, Assured!Init, Relying!NoDecision, Assured!NoDecision
<1>2. Relying!vars = Assured!vars BY DEF Relying!vars, Assured!vars
<1>3. ASSUME NEW a \in Atts, Relying!Publish(a) PROVE Assured!Publish(a)
  BY <1>3 DEF Relying!Publish, Assured!Publish
<1>4. ASSUME NEW r \in Revs, Relying!Revoke(r) PROVE Assured!Revoke(r)
  BY <1>4 DEF Relying!Revoke, Assured!Revoke
<1>5. Relying!SignList => Assured!SignList
  BY DEF Relying!SignList, Assured!SignList, Relying!Pubs, Assured!Pubs,
         Relying!LastEpochSigned, Assured!LastEpochSigned, Relying!Max, Assured!Max,
         Relying!BuildStatus, Assured!BuildStatus, Relying!MinEpoch, Assured!MinEpoch,
         Relying!Epoch, Assured!Epoch, Relying!Entry, Assured!Entry,
         Relying!State, Assured!State, Relying!SupersededBy, Assured!SupersededBy,
         Relying!Superseders, Assured!Superseders,
         Relying!IsPublished, Assured!IsPublished, Relying!InForce, Assured!InForce,
         Relying!Expired, Assured!Expired, Relying!Encodable, Assured!Encodable,
         Relying!Cardinality, Assured!Cardinality
<1>6. Relying!Tick => Assured!Tick
  BY DEF Relying!Tick, Assured!Tick, Relying!NoDecision, Assured!NoDecision
<1>7. ASSUME NEW c, NEW i, NEW copy, NEW l, NEW r, Relying!Verify(c, i, copy, l, r)
      PROVE  Assured!Verify(c, i, copy, l, r)
  BY <1>7
  DEF Relying!Verify, Assured!Verify, Relying!Display, Assured!Display,
      Relying!EntryOf, Assured!EntryOf, Relying!Usable, Assured!Usable,
      Relying!Fresh, Assured!Fresh, Relying!Clock, Assured!Clock,
      Relying!ExpiredLocally, Assured!ExpiredLocally
<1>8. Relying!Next => Assured!Next
  BY <1>3, <1>4, <1>5, <1>6, <1>7 DEF Relying!Next, Assured!Next
<1>9. UNCHANGED Relying!vars => UNCHANGED Assured!vars
  BY DEF Relying!vars, Assured!vars
<1> QED BY <1>1, <1>8, <1>9

(* So the clients of the hub have what Reliance promises: no old list, crash  *)
(* or half-written publication makes one rely on what was revoked for longer  *)
(* than a list lives, on other bytes, past expiry, or on what it saw end.     *)
THEOREM HubServesClients ==
    ASSUME HostedConstants
    PROVE  HostedSpec => []ClientsServed
<1>1. HostedSpec => Assured!Spec
  <2>1. HostedSpec => Relying!Spec BY HubImplementsReliance DEF ServesReliance
  <2> QED BY <2>1, SameReliance, PTL DEF Relying!Spec, Assured!Spec
<1>2. Assured!Spec => []Assured!RevocationReaches
  BY RelianceAssumed, Assured!RevocationInTime
<1>3. Assured!Spec => []Assured!RelianceIsExact
  BY RelianceAssumed, Assured!RelianceExact
<1>4. Assured!Spec => []Assured!OverStaysOver
  BY RelianceAssumed, Assured!OverForEver
<1>5. Assured!Spec => []Assured!HonestListUsable
  BY RelianceAssumed, Assured!LastListUsable
<1>6. Assured!RevocationReaches => Relying!RevocationReaches
  BY DEF Assured!RevocationReaches, Relying!RevocationReaches, Assured!HighStakesOK,
         Relying!HighStakesOK, Assured!Later, Relying!Later, Assured!Clock, Relying!Clock
<1>7. Assured!RelianceIsExact => Relying!RelianceIsExact
  BY DEF Assured!RelianceIsExact, Relying!RelianceIsExact, Assured!HighStakesOK,
         Relying!HighStakesOK, Assured!Clock, Relying!Clock
<1>8. Assured!OverStaysOver => Relying!OverIsOver
  BY DEF Assured!OverStaysOver, Assured!OverIsOver, Relying!OverIsOver
<1>9. Assured!HonestListUsable => Relying!HonestListUsable
  BY DEF Assured!HonestListUsable, Relying!HonestListUsable, Assured!Usable,
         Relying!Usable, Assured!Clock, Relying!Clock, Assured!LastEpochSigned,
         Relying!LastEpochSigned, Assured!Max, Relying!Max
<1>10. Relying!RevocationReaches /\ Relying!RelianceIsExact
       /\ Relying!OverIsOver /\ Relying!HonestListUsable => ClientsServed
  BY DEF ClientsServed
<1> QED BY <1>1, <1>2, <1>3, <1>4, <1>5, <1>6, <1>7, <1>8, <1>9, <1>10, PTL
================================================================================
